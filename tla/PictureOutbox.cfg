SPECIFICATION PicturesFairSpec
CONSTANTS
  MaxInMemory = 2
  Ceiling = 2
  Batch = 1
  MaxPictures = 3
  MaxStops = 1
INVARIANTS
  PicturesAccounted
  NotSentAgain
PROPERTIES
  EveryPictureLeaves
