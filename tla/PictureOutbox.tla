----------------------------- MODULE PictureOutbox -----------------------------
(***************************************************************************)
(* The pictures kept with an entry, from the camera to the platform        *)
(* (src/src/lane_controller: events.py queue_pictures, flush_pictures and  *)
(* DiskWriter; durable.py OutboxStore; sync.py send_pictures).             *)
(*                                                                         *)
(* The lane thread holds each picture in memory and hands its write to the *)
(* disk thread, which does one job after another; the drain thread reads   *)
(* the file a page at a time through that same thread, sends, and hands it *)
(* the removals, then sends what is only in memory.  A write, a removal or *)
(* a send may fail, a read may not be answered in time, and the process    *)
(* may stop between any two steps.  A lane without a file has the memory   *)
(* alone.                                                                  *)
(*                                                                         *)
(* A picture is its number, in the order taken, so what memory holds is a  *)
(* set of them, oldest first by number, and the file a set of rows; the    *)
(* bytes a picture weighs are one each, or too many.  The stays beside     *)
(* them, and the jobs of the disk thread that are theirs, are in Outbox;   *)
(* the names are other than Outbox's, so that one module can extend both.  *)
(***************************************************************************)
EXTENDS Naturals, FiniteSets, FiniteSetsExt, Sequences

CONSTANTS
  MaxInMemory,  \* `_max_pictures`
  Ceiling,      \* `pictures_max_bytes`: the pictures the file may hold
  Batch,        \* PICTURE_BATCH
  MaxPictures,  \* bound: the pictures taken
  MaxStops      \* bound: how often the process stops and starts again

ASSUME PictureOutboxAssumption ==
  /\ {MaxInMemory, Ceiling, Batch} \subseteq Nat \ {0}
  /\ {MaxPictures, MaxStops} \subseteq Nat

VARIABLES
  stored,           \* whether the lane has an outbox file
  shot,             \* how many pictures were taken
  memory,           \* `_unwritten`; without a file, `_pictures`
  file,             \* the rows of the file: [row, pic]
  pictureJobs,      \* DiskWriter._jobs: what the disk thread is still to do
  writer,           \* what the disk thread is doing
  sentUnremoved,    \* `_sent_unremoved`
  drain,            \* where the drain thread is in its flush
  done,             \* the platform: the pictures it took or refused
  picturesDropped,  \* `pictures_dropped`
  sent,             \* history: the pictures of the file that this run was told are done
  forgiven,         \* history: the pictures earlier runs lost or let go
  stops

pictureDisk  == <<file, pictureJobs, writer>>
picturesVars ==
  <<stored, shot, memory, pictureDisk, sentUnremoved, drain, done, picturesDropped, sent, forgiven, stops>>

------------------------------------------------------------------------------
Pictures == 1..MaxPictures

OnFile == {r.pic : r \in file}

WriterRests == [pc |-> "rests", pic |-> 0, n |-> 0]
DrainRests  == [pc |-> "rests", page |-> {}]

PicturesInit ==
  /\ stored \in BOOLEAN
  /\ shot = 0 /\ memory = {}
  /\ file = {} /\ pictureJobs = <<>> /\ writer = WriterRests
  /\ sentUnremoved = {} /\ drain = DrainRests
  /\ done = {} /\ picturesDropped = 0 /\ sent = {} /\ forgiven = {}
  /\ stops = 0

------------------------------------------------------------------------------
(* The lane thread.                                                        *)

\* No room for one more without dropping the oldest.
NoRoom == Cardinality(memory) >= MaxInMemory

Oldest == {p \in memory : \A q \in memory : p <= q}

\* queue_pictures: into memory, the oldest let go and counted for room; and
\* its write, when there is a file, handed to the disk thread.
Takes ==
  /\ shot < MaxPictures
  /\ shot' = shot + 1
  /\ memory' = (IF NoRoom THEN memory \ Oldest ELSE memory) \cup {shot'}
  /\ picturesDropped' = IF NoRoom THEN picturesDropped + 1 ELSE picturesDropped
  /\ pictureJobs' = IF stored THEN Append(pictureJobs, [op |-> "write", pic |-> shot']) ELSE pictureJobs
  /\ UNCHANGED <<stored, file, writer, sentUnremoved, drain, done, sent, forgiven, stops>>

------------------------------------------------------------------------------
(* The disk thread: one job after another.  A job that raises is over.     *)

Next1(op) == writer.pc = "rests" /\ pictureJobs # <<>> /\ Head(pictureJobs).op = op

\* _write_picture: one no longer in memory is not written.
Begins ==
  /\ Next1("write")
  /\ pictureJobs' = Tail(pictureJobs)
  /\ writer' = IF Head(pictureJobs).pic \in memory
               THEN [pc |-> "writes", pic |-> Head(pictureJobs).pic, n |-> 0]
               ELSE WriterRests
  /\ UNCHANGED <<stored, shot, memory, file, sentUnremoved, drain, done, picturesDropped, sent, forgiven, stops>>

\* add_picture, one transaction: past the ceiling the oldest rows go.  A row is
\* numbered one past the highest there is.
NewRow == Max({r.row : r \in file} \cup {0}) + 1

Above(rows, r) == {q \in rows : q.row > r.row}

Kept(rows) == {r \in rows : Cardinality(Above(rows, r)) < Ceiling}

Writes ==
  /\ writer.pc = "writes"
  /\ LET rows == file \cup {[row |-> NewRow, pic |-> writer.pic]}
     IN  \/ /\ file' = Kept(rows)
            /\ writer' = [writer EXCEPT !.pc = "counts", !.n = Cardinality(rows \ file')]
         \/ \* too large for the file alone
            /\ writer' = [writer EXCEPT !.pc = "counts", !.n = 1]
            /\ UNCHANGED file
         \/ \* the disk fails: it waits in memory
            /\ writer' = WriterRests
            /\ UNCHANGED file
  /\ UNCHANGED <<stored, shot, memory, pictureJobs, sentUnremoved, drain, done, picturesDropped, sent, forgiven, stops>>

\* The fault: what the ceiling let go is logged, and not counted.
Uncounted(n) == 0

Counted(n) == n

Counts ==
  /\ writer.pc = "counts"
  /\ memory' = memory \ {writer.pic}
  /\ picturesDropped' = picturesDropped + Counted(writer.n)
  /\ writer' = WriterRests
  /\ UNCHANGED <<stored, shot, file, pictureJobs, sentUnremoved, drain, done, sent, forgiven, stops>>

\* The fault: a removal that failed is forgotten.
Forgotten(p) == sentUnremoved \ {p}

StillThere(p) == sentUnremoved

\* _remove_pictures: from the file, then from `_sent_unremoved`; or it fails.
Removes ==
  /\ Next1("remove")
  /\ pictureJobs' = Tail(pictureJobs)
  /\ LET p == Head(pictureJobs).pic
     IN  \/ /\ file' = {r \in file : r.pic # p}
            /\ writer' = [pc |-> "forgets", pic |-> p, n |-> 0]
            /\ UNCHANGED sentUnremoved
         \/ /\ sentUnremoved' = StillThere(p)
            /\ UNCHANGED <<file, writer>>
  /\ UNCHANGED <<stored, shot, memory, drain, done, picturesDropped, sent, forgiven, stops>>

Forgets ==
  /\ writer.pc = "forgets"
  /\ sentUnremoved' = sentUnremoved \ {writer.pic}
  /\ writer' = WriterRests
  /\ UNCHANGED <<stored, shot, memory, file, pictureJobs, drain, done, picturesDropped, sent, forgiven, stops>>

\* held_pictures: the rows past a position, a page of them.
Page(after) ==
  LET past == {r \in file : r.row > after}
  IN  {r \in past : Cardinality({q \in past : q.row < r.row}) < Batch}

Reads ==
  /\ Next1("read")
  /\ pictureJobs' = Tail(pictureJobs)
  /\ drain' = [drain EXCEPT !.page = Page(Head(pictureJobs).pic),
                            !.pc = IF Page(Head(pictureJobs).pic) = {} THEN "memory" ELSE "looks"]
  /\ UNCHANGED <<stored, shot, memory, file, writer, sentUnremoved, done, picturesDropped, sent, forgiven, stops>>

Disk == Begins \/ Writes \/ Counts \/ Removes \/ Forgets \/ Reads

------------------------------------------------------------------------------
(* The drain thread (flush_pictures).                                      *)

DrainAt(pc) == drain.pc = pc

Asks(after) == pictureJobs' = Append(pictureJobs, [op |-> "read", pic |-> after])

FlushPictures ==
  /\ DrainAt("rests")
  /\ IF stored
     THEN Asks(0) /\ drain' = [DrainRests EXCEPT !.pc = "reads"]
     ELSE drain' = [DrainRests EXCEPT !.pc = "memory"] /\ UNCHANGED pictureJobs
  /\ UNCHANGED <<stored, shot, memory, file, writer, sentUnremoved, done, picturesDropped, sent, forgiven, stops>>

\* The disk does not answer in DISK_WAIT_S, or raises: its part of this flush
\* is over.  The read, run later, changes nothing and nobody hears of it.
NotRead ==
  /\ DrainAt("reads")
  /\ \E i \in 1..Len(pictureJobs) :
       /\ pictureJobs[i].op = "read"
       /\ pictureJobs' = SubSeq(pictureJobs, 1, i - 1) \o SubSeq(pictureJobs, i + 1, Len(pictureJobs))
  /\ drain' = [drain EXCEPT !.pc = "memory"]
  /\ UNCHANGED <<stored, shot, memory, file, writer, sentUnremoved, done, picturesDropped, sent, forgiven, stops>>

\* The oldest of the page: rows are numbered in the order of their pictures.
Current == CHOOSE r \in drain.page : \A q \in drain.page : r.row <= q.row /\ r.pic <= q.pic

Rest == drain.page \ {Current}

\* A picture of the page already taken is not sent again.
Looks ==
  /\ DrainAt("looks")
  /\ drain' = [drain EXCEPT !.pc = IF Current.pic \in sentUnremoved THEN "clears" ELSE "sends"]
  /\ UNCHANGED <<stored, shot, memory, pictureDisk, sentUnremoved, done, picturesDropped, sent, forgiven, stops>>

\* send_pictures: taken, refused for good, or out of reach -- the answer alone,
\* or the request.
Sends ==
  /\ DrainAt("sends")
  /\ \/ /\ done' = done \cup {Current.pic}
        /\ sentUnremoved' = sentUnremoved \cup {Current.pic}
        /\ sent' = sent \cup {Current.pic}
        /\ drain' = [drain EXCEPT !.pc = "clears"]
     \/ /\ done' \in {done, done \cup {Current.pic}}
        /\ drain' = DrainRests
        /\ UNCHANGED <<sentUnremoved, sent>>
  /\ UNCHANGED <<stored, shot, memory, pictureDisk, picturesDropped, forgiven, stops>>

\* The fault: a page is the oldest rows, whatever was read before.
OldestAgain(row) == 0

After(row) == row

\* Its removal is handed to the disk thread; then the next one, or the next page.
Clears ==
  /\ DrainAt("clears")
  /\ LET cleared == Append(pictureJobs, [op |-> "remove", pic |-> Current.pic])
     IN  IF Rest # {}
         THEN /\ drain' = [drain EXCEPT !.pc = "looks", !.page = Rest]
              /\ pictureJobs' = cleared
         ELSE /\ drain' = [DrainRests EXCEPT !.pc = "reads"]
              /\ pictureJobs' = Append(cleared, [op |-> "read", pic |-> After(Current.row)])
  /\ UNCHANGED <<stored, shot, memory, file, writer, sentUnremoved, done, picturesDropped, sent, forgiven, stops>>

\* The pictures in memory, as they are now.
Memory ==
  /\ DrainAt("memory")
  /\ drain' = IF memory = {} THEN DrainRests
              ELSE [pc |-> "waiting", page |-> {[row |-> 0, pic |-> p] : p \in memory}]
  /\ UNCHANGED <<stored, shot, memory, pictureDisk, sentUnremoved, done, picturesDropped, sent, forgiven, stops>>

SendsWaiting ==
  /\ DrainAt("waiting")
  /\ \/ /\ done' = done \cup {Current.pic}
        /\ drain' = [drain EXCEPT !.pc = "pops"]
     \/ /\ done' \in {done, done \cup {Current.pic}}
        /\ drain' = DrainRests
  /\ UNCHANGED <<stored, shot, memory, pictureDisk, sentUnremoved, picturesDropped, sent, forgiven, stops>>

Pops ==
  /\ DrainAt("pops")
  /\ memory' = memory \ {Current.pic}
  /\ drain' = IF Rest = {} THEN DrainRests ELSE [pc |-> "waiting", page |-> Rest]
  /\ UNCHANGED <<stored, shot, pictureDisk, sentUnremoved, done, picturesDropped, sent, forgiven, stops>>

Drain == FlushPictures \/ Looks \/ Sends \/ Clears \/ Memory \/ SendsWaiting \/ Pops

------------------------------------------------------------------------------
\* The process stops and starts again, with the file as it is.
Gone == 1..shot \ (memory \cup OnFile \cup done)

StopsAndStarts ==
  /\ stops < MaxStops
  /\ stops' = stops + 1
  /\ forgiven' = forgiven \cup (1..shot \ (OnFile \cup done))
  /\ memory' = {} /\ pictureJobs' = <<>> /\ writer' = WriterRests
  /\ sentUnremoved' = {} /\ drain' = DrainRests
  /\ picturesDropped' = 0 /\ sent' = {}
  /\ UNCHANGED <<stored, shot, file, done>>

PicturesNext == Takes \/ Disk \/ NotRead \/ Drain \/ StopsAndStarts

PicturesSpec == PicturesInit /\ [][PicturesNext]_picturesVars

\* The disk thread and the drain go round for as long as the process runs, and
\* the platform answers a picture sent again and again.  Nothing is promised of
\* a write or a removal.
Told(p) ==
  /\ drain.pc \in {"sends", "waiting"} /\ Current.pic = p
  /\ (Sends \/ SendsWaiting) /\ drain'.pc \in {"clears", "pops"}

PicturesFairSpec ==
  /\ PicturesSpec /\ WF_picturesVars(Disk) /\ WF_picturesVars(Drain)
  /\ \A p \in Pictures : SF_picturesVars(Told(p))

------------------------------------------------------------------------------
\* Every variable has its type; what memory and the file hold is within its
\* bound (MaxInMemory, the ceiling), and the rows are in the order of the pictures.
PicturesTypeOK ==
  /\ stored \in BOOLEAN /\ shot \in 0..MaxPictures
  /\ memory \subseteq 1..shot /\ Cardinality(memory) <= MaxInMemory
  /\ file \subseteq [row : Nat \ {0}, pic : 1..shot] /\ Cardinality(file) <= Ceiling
  /\ \A r, q \in file : r.row < q.row <=> r.pic < q.pic
  /\ ~stored => file = {} /\ pictureJobs = <<>>
  /\ pictureJobs \in Seq([op : {"write", "remove", "read"}, pic : Nat])
  /\ writer \in [pc : {"rests", "writes", "counts", "forgets"}, pic : 0..shot, n : Nat]
  /\ drain \in [pc : {"rests", "reads", "looks", "sends", "clears", "memory", "waiting", "pops"},
               page : SUBSET [row : Nat, pic : 1..shot]]
  /\ sentUnremoved \cup done \cup sent \cup forgiven \subseteq 1..shot
  /\ picturesDropped \in Nat /\ stops \in 0..MaxStops

\* A picture is never lost unsaid: one that is neither held, nor done with the
\* platform, nor lost with an earlier run is in `pictures_dropped`, which the
\* events page carries -- whichever thread lets it go, and for whichever bound
\* (events.py: "a gap nobody knows about is worse").  (The type invariant is
\* checked with it.)
PicturesAccounted ==
  /\ PicturesTypeOK
  /\ Cardinality(Gone \ forgiven) <= picturesDropped + (IF writer.pc = "counts" THEN writer.n ELSE 0)

\* A picture of the file that the platform is done with is not sent from it
\* again by the same run, though its row is still there: the removal may have
\* failed, or be waiting on the disk thread, while the next flush reads the
\* file (`_sent_unremoved`: "never sent again, and their removal retried").
NotSentAgain ==
  DrainAt("sends") => Current.pic \notin sent

\* A picture taken is done with the platform in the end, or counted as dropped,
\* or lost with its run -- though the rows before it can never be removed, and
\* the disk never takes it -- once the disk answers its reads in time
\* (_flush_disk_pictures: "every picture behind them waited for good").
EveryPictureLeaves ==
  <>[][~NotRead]_picturesVars =>
    \A p \in Pictures : (p <= shot) ~> (p \in done \cup Gone)

==============================================================================
