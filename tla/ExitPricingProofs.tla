------------------------- MODULE ExitPricingProofs -------------------------
(***************************************************************************)
(* What holds of the fee an exit works out for any number of edits of the  *)
(* garage and of restarts: one the platform takes was worked out in the    *)
(* class the garage has and taxed on the tax sets it has.                  *)
(*                                                                         *)
(* A class tells itself.  That the two facts about the tax sets do rests   *)
(* on what the lane can come to hold: the garage's sets as they are or as  *)
(* they were, and every edit of them leaves a newer newest (Heard), so that *)
(* the facts a decision carries tell of the sets they were made from       *)
(* (ReadInv).  The open stays a fee is worked out from, StayCache, have    *)
(* theirs at the end (StayInv).                                            *)
(***************************************************************************)
EXTENDS ExitPricing, StayCache, FiniteSetTheorems, WellFoundedInduction, TLAPS

USE PricingAssumption

Fields == {"dated", "plans", "class", "sets", "currency"}
Steps  == {"idle", "registers", "stays", "taxed", "class", "plans", "currency", "quoted", "tax", "held"}

Decisions == [class : Classes, quoted : Classes, used : Sets, listed : Sets, held : TaxFacts]

TypeInv ==
  /\ garage \in Facts /\ cache \in Facts /\ file \in Facts
  /\ refresh \in [todo : Seq(Fields \cup {"file"}), with : Facts] /\ Len(refresh.todo) <= 7
  /\ lane \in [pc : Steps, class : Classes, plans : BOOLEAN, quoted : Classes, used : Sets]
  /\ close \subseteq Decisions /\ \A a, b \in close : a = b
  /\ mistaken \subseteq SUBSET {"class", "sets"} /\ edits \in 0..MaxEdits /\ restarts \in 0..MaxRestarts

HasNewest(sets) == \E x \in sets : \A y \in sets : x >= y

\* The garage has a class, and one newest tax set, and there were no more than its edits.
GarageInv ==
  /\ garage.class \in {1, 2}
  /\ garage.sets \subseteq 1..(edits + 1)
  /\ HasNewest(garage.sets)

\* What was once the sets of a garage that has `now`: the same, or older.
Heard(sets, now) ==
  sets = {} \/ (HasNewest(sets) /\ (sets = now \/ Newest(sets) < Newest(now)))

HeardInv ==
  /\ Heard(cache.sets, garage.sets) /\ Heard(file.sets, garage.sets)
  /\ Heard(refresh.with.sets, garage.sets) /\ Heard(lane.used, garage.sets)
  /\ \A d \in close : Heard(d.listed, garage.sets)

\* The facts on a decision are of the sets it was made from, and there are some.
ReadInv == \A d \in close : d.listed # {} /\ d.held = TaxSetsHeld(d.listed)

Inv == TypeInv /\ GarageInv /\ HeardInv /\ ReadInv /\ {} \notin mistaken

------------------------------------------------------------------------------
LEMMA NewestIsThere ==
  ASSUME NEW sets, HasNewest(sets)
  PROVE  Newest(sets) \in sets /\ \A y \in sets : Newest(sets) >= y
BY DEF HasNewest, Newest, Max

LEMMA NewestIs ==
  ASSUME NEW sets \in SUBSET Nat, NEW x \in sets, \A y \in sets : x >= y
  PROVE  HasNewest(sets) /\ Newest(sets) = x
<1>1. HasNewest(sets)
  BY DEF HasNewest
<1>2. Newest(sets) \in sets /\ Newest(sets) >= x /\ x >= Newest(sets)
  BY <1>1, NewestIsThere
<1>3. Newest(sets) \in Nat /\ x \in Nat
  BY <1>2
<1>4. QED BY <1>1, <1>2, <1>3

\* A set of no more elements than versions has as many as a version.
LEMMA Held ==
  ASSUME NEW sets \in Sets, HasNewest(sets)
  PROVE  TaxSetsHeld(sets) \in TaxFacts
<1>1. MaxEdits + 1 \in Nat /\ IsFiniteSet(1..(MaxEdits + 1)) /\ Cardinality(1..(MaxEdits + 1)) = MaxEdits + 1
  BY FS_Interval
<1>2. IsFiniteSet(sets) /\ Cardinality(sets) <= MaxEdits + 1
  BY <1>1, FS_Subset DEF Sets
<1>3. Cardinality(sets) \in Versions
  BY <1>1, <1>2, FS_CardinalityType DEF Versions
<1>4. Newest(sets) \in Versions
  <2>1. \A x \in sets : x \in Versions
    BY DEF Sets, Versions
  <2>2. Newest(sets) \in sets
    BY NewestIsThere
  <2>3. QED BY <2>1, <2>2
<1>5. QED BY <1>3, <1>4 DEF TaxSetsHeld, TaxFacts

LEMMA NewestIsNatural ==
  ASSUME NEW sets \in Sets, HasNewest(sets)
  PROVE  Newest(sets) \in Nat
<1>1. \A x \in sets : x \in Nat
  BY DEF Sets
<1>2. Newest(sets) \in sets
  BY NewestIsThere
<1>3. QED BY <1>1, <1>2

\* What was heard before an edit was heard before it.
LEMMA StillHeard ==
  ASSUME NEW sets \in Sets, NEW before \in Sets, NEW after \in Sets,
         HasNewest(before), HasNewest(after),
         after = before \/ Newest(before) < Newest(after),
         Heard(sets, before)
  PROVE  Heard(sets, after)
<1>1. Newest(before) \in Nat /\ Newest(after) \in Nat
  BY NewestIsNatural
<1>2. HasNewest(sets) => Newest(sets) \in Nat
  BY NewestIsNatural
<1>3. QED BY <1>1, <1>2 DEF Heard

\* The two facts tell whether what was heard is what the garage has.
LEMMA FactsTell ==
  ASSUME NEW sets \in Sets, sets # {}, NEW now \in Sets, HasNewest(now),
         Heard(sets, now), TaxSetsHeld(sets) = TaxSetsHeld(now)
  PROVE  sets = now
<1>1. Newest(sets) = Newest(now)
  BY DEF TaxSetsHeld
<1>2. Newest(now) \in Nat
  BY NewestIsNatural
<1>3. QED BY <1>1, <1>2 DEF Heard

LEMMA Initially == Init => Inv
<1> SUFFICES ASSUME Init PROVE Inv
  OBVIOUS
<1>1. 1 \in 1..(MaxEdits + 1) /\ {1} \in Sets /\ {} \in Sets /\ 0 \in Classes /\ 1 \in Classes
  BY DEF Sets, Classes
<1>2. Nothing \in Facts /\ garage \in Facts
  BY <1>1 DEF Init, Nothing, Facts
<1>3. <<>> \in Seq(Fields \cup {"file"}) /\ Len(<<>>) <= 7
  OBVIOUS
<1>4. TypeInv
  <2>1. refresh \in [todo : Seq(Fields \cup {"file"}), with : Facts] /\ Len(refresh.todo) <= 7
    BY <1>2, <1>3 DEF Init, Resting
  <2>2. lane \in [pc : Steps, class : Classes, plans : BOOLEAN, quoted : Classes, used : Sets]
    BY <1>1 DEF Init, NoLane, Steps
  <2>3. edits \in 0..MaxEdits /\ restarts \in 0..MaxRestarts
    BY DEF Init
  <2>4. mistaken \subseteq SUBSET {"class", "sets"} /\ close \subseteq Decisions /\ \A a, b \in close : a = b
    BY DEF Init
  <2>5. garage \in Facts /\ cache \in Facts /\ file \in Facts
    BY <1>2 DEF Init
  <2>6. QED BY <2>1, <2>2, <2>3, <2>4, <2>5 DEF TypeInv
<1>5. GarageInv
  BY DEF Init, GarageInv, HasNewest
<1>6. HeardInv /\ ReadInv
  BY DEF Init, HeardInv, ReadInv, Heard, Nothing, Resting, NoLane
<1>7. QED BY <1>4, <1>5, <1>6 DEF Init, Inv

------------------------------------------------------------------------------
LEMMA EditStep ==
  ASSUME Inv, Edit
  PROVE  Inv'
<1>1. /\ garage \in Facts /\ garage.class \in {1, 2} /\ garage.sets \subseteq 1..(edits + 1)
      /\ garage.sets \in Sets /\ edits \in Nat /\ edits' = edits + 1 /\ edits' <= MaxEdits
  BY DEF Inv, TypeInv, GarageInv, Edit, Facts
<1>2. Newest(garage.sets) \in garage.sets /\ \A y \in garage.sets : Newest(garage.sets) >= y
  BY NewestIsThere DEF Inv, GarageInv
<1>3. ASSUME NEW after, after \in {garage.sets \cup {Newest(garage.sets) + 1},
                                   (garage.sets \ {Newest(garage.sets)}) \cup {Newest(garage.sets) + 1}}
      PROVE  /\ after \subseteq 1..(edits' + 1) /\ after \in Sets
             /\ HasNewest(after) /\ Newest(garage.sets) < Newest(after)
  <2>1. Newest(garage.sets) \in Nat /\ Newest(garage.sets) >= 1 /\ Newest(garage.sets) <= edits + 1
    BY <1>1, <1>2
  <2>2. after \subseteq 1..(edits' + 1) /\ after \in Sets
    BY <1>1, <1>3, <2>1 DEF Sets
  <2>3. Newest(garage.sets) + 1 \in after /\ \A y \in after : Newest(garage.sets) + 1 >= y
    BY <1>1, <1>2, <1>3, <2>1
  <2>4. after \in SUBSET Nat
    BY <2>2 DEF Sets
  <2>5. HasNewest(after) /\ Newest(after) = Newest(garage.sets) + 1
    BY <2>3, <2>4, NewestIs
  <2>6. QED BY <2>1, <2>2, <2>5
<1>4. \/ garage' = [garage EXCEPT !.class = 3 - @]
      \/ \E after : /\ after \in {garage.sets \cup {Newest(garage.sets) + 1},
                                   (garage.sets \ {Newest(garage.sets)}) \cup {Newest(garage.sets) + 1}}
                    /\ garage' = [garage EXCEPT !.sets = after]
  BY DEF Edit
<1>5. /\ garage' \in Facts /\ garage'.class \in {1, 2} /\ garage'.sets \subseteq 1..(edits' + 1)
      /\ HasNewest(garage'.sets)
      /\ garage'.sets = garage.sets \/ Newest(garage.sets) < Newest(garage'.sets)
  <2>1. CASE garage' = [garage EXCEPT !.class = 3 - @]
    <3>1. 3 - garage.class \in {1, 2} /\ {1, 2} \subseteq Classes
      BY <1>1 DEF Classes
    <3>2. garage' \in Facts /\ garage'.class = 3 - garage.class /\ garage'.sets = garage.sets
      BY <1>1, <2>1, <3>1 DEF Facts
    <3>3. QED BY <1>1, <3>1, <3>2 DEF Inv, GarageInv
  <2>2. ASSUME NEW after, after \in {garage.sets \cup {Newest(garage.sets) + 1},
                                     (garage.sets \ {Newest(garage.sets)}) \cup {Newest(garage.sets) + 1}},
               garage' = [garage EXCEPT !.sets = after]
        PROVE  /\ garage' \in Facts /\ garage'.class \in {1, 2} /\ garage'.sets \subseteq 1..(edits' + 1)
               /\ HasNewest(garage'.sets)
               /\ garage'.sets = garage.sets \/ Newest(garage.sets) < Newest(garage'.sets)
    <3>1. after \in Sets
      BY <1>3, <2>2
    <3>2. garage' \in Facts /\ garage'.class = garage.class /\ garage'.sets = after
      BY <1>1, <2>2, <3>1 DEF Facts
    <3>3. QED BY <1>1, <1>3, <2>2, <3>2
  <2>3. QED BY <1>4, <2>1, <2>2
<1>6. GarageInv' /\ TypeInv'
  BY <1>1, <1>5 DEF GarageInv, Inv, TypeInv, Edit
<1>7. HeardInv'
  <2>1. garage'.sets \in Sets /\ HasNewest(garage.sets)
    BY <1>5 DEF Facts, Inv, GarageInv
  <2>2. ASSUME NEW S \in Sets, Heard(S, garage.sets) PROVE Heard(S, garage'.sets)
    BY <1>1, <1>5, <2>1, <2>2, StillHeard
  <2>3. /\ cache.sets \in Sets /\ file.sets \in Sets /\ refresh.with.sets \in Sets /\ lane.used \in Sets
        /\ \A d \in close : d.listed \in Sets
    BY DEF Inv, TypeInv, Facts, Decisions
  <2>4. UNCHANGED <<cache, file, refresh, lane, close>>
    BY DEF Edit
  <2>5. QED BY <2>2, <2>3, <2>4 DEF Inv, HeardInv
<1>8. ReadInv' /\ {} \notin mistaken'
  BY DEF Inv, ReadInv, Edit
<1>9. QED BY <1>6, <1>7, <1>8 DEF Inv

\* A step that leaves the garage, the cache and what was read of it alone.
LEMMA RefreshStep ==
  ASSUME Inv, Answered \/ Expires \/ FileRaises
  PROVE  Inv'
<1>1. UNCHANGED <<garage, cache, file, lane, close, mistaken, edits, restarts>>
  BY DEF Answered, Expires, FileRaises
<1>2. /\ LoadOrder \in Seq(Fields \cup {"file"}) /\ Len(LoadOrder) = 7
      /\ ClearOrder \in Seq(Fields \cup {"file"}) /\ Len(ClearOrder) = 6
      /\ <<>> \in Seq(Fields \cup {"file"}) /\ Len(<<>>) = 0
  BY DEF LoadOrder, ClearOrder, Fields
<1>3. Nothing \in Facts /\ Nothing.sets = {} /\ garage \in Facts
  BY DEF Inv, TypeInv, Nothing, Facts, Classes, Sets
<1>4. /\ refresh' \in [todo : Seq(Fields \cup {"file"}), with : Facts] /\ Len(refresh'.todo) <= 7
      /\ refresh'.with \in {garage, Nothing}
  <2>1. CASE Answered
    <3>1. refresh' = [todo |-> LoadOrder, with |-> garage]
      BY <2>1 DEF Answered
    <3>2. refresh' \in [todo : Seq(Fields \cup {"file"}), with : Facts]
      BY <1>2, <1>3, <3>1
    <3>3. refresh'.todo = LoadOrder /\ refresh'.with \in {garage, Nothing}
      BY <3>1
    <3>4. Len(refresh'.todo) <= 7
      <4>1. Len(refresh'.todo) = Len(LoadOrder)
        BY <3>3
      <4>2. QED BY <1>2, <4>1
    <3>5. QED BY <3>2, <3>3, <3>4
  <2>2. CASE Expires
    <3>1. refresh' = [todo |-> ClearOrder, with |-> Nothing]
      BY <2>2 DEF Expires
    <3>2. refresh' \in [todo : Seq(Fields \cup {"file"}), with : Facts]
      BY <1>2, <1>3, <3>1
    <3>3. refresh'.todo = ClearOrder /\ refresh'.with \in {garage, Nothing}
      BY <3>1
    <3>4. Len(refresh'.todo) <= 7
      <4>1. Len(refresh'.todo) = Len(ClearOrder)
        BY <3>3
      <4>2. QED BY <1>2, <4>1
    <3>5. QED BY <3>2, <3>3, <3>4
  <2>3. CASE FileRaises
    BY <1>2, <1>3, <2>3 DEF FileRaises, Resting
  <2>4. QED BY <2>1, <2>2, <2>3
<1>5. TypeInv'
  BY <1>1, <1>4 DEF Inv, TypeInv
<1>6. Heard(refresh'.with.sets, garage.sets)
  BY <1>3, <1>4 DEF Inv, GarageInv, Heard
<1>7. GarageInv' /\ HeardInv' /\ ReadInv' /\ {} \notin mistaken'
  BY <1>1, <1>6 DEF Inv, GarageInv, HeardInv, ReadInv
<1>8. QED BY <1>5, <1>7 DEF Inv

\* A field is written, or the file: what the lane has read is as it was.
LEMMA WritesStep ==
  ASSUME Inv, Writes
  PROVE  Inv'
<1> DEFINE f == Head(refresh.todo)
<1>1. /\ refresh.todo \in Seq(Fields \cup {"file"}) /\ refresh.todo # <<>> /\ Len(refresh.todo) <= 7
      /\ refresh.with \in Facts /\ cache \in Facts /\ file \in Facts
  BY DEF Inv, TypeInv, Writes, Idle
<1>2. f \in Fields \cup {"file"}
  BY <1>1
<1>3. Tail(refresh.todo) \in Seq(Fields \cup {"file"}) /\ Len(Tail(refresh.todo)) <= 7
  BY <1>1
<1>4. <<>> \in Seq(Fields \cup {"file"}) /\ Len(<<>>) = 0 /\ Nothing \in Facts /\ Nothing.sets = {}
  BY DEF Nothing, Facts, Classes, Sets
<1>5. /\ refresh' \in [todo : Seq(Fields \cup {"file"}), with : Facts] /\ Len(refresh'.todo) <= 7
      /\ refresh'.with \in {refresh.with, Nothing}
  <2>1. CASE Len(refresh.todo) = 1
    BY <1>4, <2>1 DEF Writes, Resting
  <2>2. CASE Len(refresh.todo) # 1
    <3>1. refresh' = [refresh EXCEPT !.todo = Tail(refresh.todo)]
      BY <2>2 DEF Writes
    <3>2. QED BY <1>3, <3>1 DEF Inv, TypeInv
  <2>3. QED BY <2>1, <2>2
<1>6. UNCHANGED <<garage, lane, close, mistaken, edits, restarts>>
  BY DEF Writes
<1>7. Heard(refresh'.with.sets, garage.sets)
  BY <1>4, <1>5 DEF Inv, HeardInv, Heard
<1>8. CASE f = "file"
  <2>1. file' = cache /\ cache' = cache
    BY <1>8 DEF Writes
  <2>2. TypeInv'
    BY <1>1, <1>5, <1>6, <2>1 DEF Inv, TypeInv
  <2>3. GarageInv' /\ HeardInv' /\ ReadInv' /\ {} \notin mistaken'
    BY <1>6, <1>7, <2>1 DEF Inv, GarageInv, HeardInv, ReadInv
  <2>4. QED BY <2>2, <2>3 DEF Inv
<1>9. CASE f # "file"
  <2>1. cache' = [cache EXCEPT ![f] = refresh.with[f]] /\ file' = file
    BY <1>9 DEF Writes
  <2>2. f \in Fields
    BY <1>2, <1>9
  <2> HIDE DEF f
  <2>3. cache' \in Facts
    BY <1>1, <2>1, <2>2 DEF Facts, Fields
  <2>4. cache'.sets \in {cache.sets, refresh.with.sets}
    BY <1>1, <2>1, <2>2 DEF Facts, Fields
  <2>5. TypeInv'
    BY <1>1, <1>5, <1>6, <2>1, <2>3 DEF Inv, TypeInv
  <2>6. HeardInv'
    BY <1>6, <1>7, <2>1, <2>4 DEF Inv, HeardInv
  <2>7. GarageInv' /\ ReadInv' /\ {} \notin mistaken'
    BY <1>6 DEF Inv, GarageInv, ReadInv
  <2>8. QED BY <2>5, <2>6, <2>7 DEF Inv
<1>10. QED BY <1>8, <1>9

LEMMA AgesStep ==
  ASSUME Inv, Ages
  PROVE  Inv'
<1>1. UNCHANGED <<garage, refresh, lane, close, mistaken, edits, restarts>>
  BY DEF Ages
<1>2. /\ cache' \in Facts /\ cache'.class = cache.class /\ cache'.sets = cache.sets
      /\ file' \in Facts /\ file'.sets = file.sets
  <2>1. ASSUME NEW f \in Facts PROVE Old(f) \in Facts /\ Old(f).class = f.class /\ Old(f).sets = f.sets
    BY DEF Old, Facts
  <2>2. cache' = Old(cache) /\ file' = Old(file) /\ cache \in Facts /\ file \in Facts
    BY DEF Ages, Inv, TypeInv
  <2>3. QED BY <2>1, <2>2
<1>3. TypeInv'
  BY <1>1, <1>2 DEF Inv, TypeInv
<1>4. QED BY <1>1, <1>2, <1>3 DEF Inv, GarageInv, HeardInv, ReadInv

LEMMA RestartStep ==
  ASSUME Inv, Restart
  PROVE  Inv'
<1>1. /\ UNCHANGED <<garage, close, mistaken, edits>> /\ restarts' \in 0..MaxRestarts
      /\ refresh' = Resting /\ lane' = NoLane
      /\ cache' \in {file, Nothing} /\ file' \in {file, Nothing}
  BY DEF Restart, Inv, TypeInv
<1>2. /\ Nothing \in Facts /\ Nothing.sets = {} /\ {} \in Sets /\ 0 \in Classes
      /\ <<>> \in Seq(Fields \cup {"file"}) /\ Len(<<>>) = 0
  BY DEF Nothing, Facts, Classes, Sets
<1>3. refresh' \in [todo : Seq(Fields \cup {"file"}), with : Facts] /\ Len(refresh'.todo) <= 7
      /\ refresh'.with = Nothing
  BY <1>1, <1>2 DEF Resting
<1>4. lane' \in [pc : Steps, class : Classes, plans : BOOLEAN, quoted : Classes, used : Sets]
      /\ lane'.pc = "idle" /\ lane'.used = {}
  BY <1>1, <1>2 DEF NoLane, Steps
<1>5. cache' \in Facts /\ file' \in Facts
  BY <1>1, <1>2 DEF Inv, TypeInv
<1>6. TypeInv'
  BY <1>1, <1>3, <1>4, <1>5 DEF Inv, TypeInv
<1>7. HeardInv'
  BY <1>1, <1>2, <1>3, <1>4 DEF Inv, HeardInv, Heard
<1>8. GarageInv' /\ ReadInv' /\ {} \notin mistaken'
  BY <1>1, <1>4 DEF Inv, GarageInv, ReadInv
<1>9. QED BY <1>6, <1>7, <1>8 DEF Inv

------------------------------------------------------------------------------
\* What the lane may have in hand after a step of it.
Read(pc, class, plans, quoted, used) ==
  [pc |-> pc, class |-> class, plans |-> plans, quoted |-> quoted, used |-> used]

\* The lane reads on.
LEMMA LaneStep ==
  ASSUME Inv, Asks \/ LooksUp \/ Charges,
         UNCHANGED <<garage, cache, file, refresh, mistaken, edits, restarts>>
  PROVE  Inv'
<1>1. close' = close
  BY DEF Asks, LooksUp, Charges
<1>2. /\ lane = Read(lane.pc, lane.class, lane.plans, lane.quoted, lane.used)
      /\ lane.pc \in Steps /\ {lane.class, lane.quoted} \subseteq Classes /\ lane.plans \in BOOLEAN /\ lane.used \in Sets
      /\ cache.class \in Classes /\ cache.plans \in BOOLEAN /\ cache.sets \in Sets
      /\ {} \in Sets /\ 0 \in Classes
  BY DEF Inv, TypeInv, Facts, Classes, Sets, Read
<1>3. /\ lane' \in [pc : Steps, class : Classes, plans : BOOLEAN, quoted : Classes, used : Sets]
      /\ lane'.used \in {lane.used, cache.sets, {}}
  <2>1. CASE Asks
    <3>1. lane' = lane \/ lane' = Read("registers", lane.class, lane.plans, lane.quoted, lane.used)
      BY <1>2, <2>1 DEF Asks, Goes, Read
    <3>2. QED BY <1>2, <3>1 DEF Inv, TypeInv, Read, Steps
  <2>2. CASE LooksUp
    <3>1. \/ lane' = NoLane
          \/ \E pc \in {"stays", "taxed", "class"} :
               lane' = Read(pc, lane.class, lane.plans, lane.quoted, lane.used)
      BY <1>2, <2>2 DEF LooksUp, Goes, Ends, Read
    <3>2. CASE lane' = NoLane
      BY <1>2, <3>2 DEF Steps, NoLane
    <3>3. ASSUME NEW pc \in {"stays", "taxed", "class"},
                 lane' = Read(pc, lane.class, lane.plans, lane.quoted, lane.used)
          PROVE  /\ lane' \in [pc : Steps, class : Classes, plans : BOOLEAN, quoted : Classes, used : Sets]
                 /\ lane'.used = lane.used
      BY <1>2, <3>3 DEF Read, Steps
    <3>4. QED BY <3>1, <3>2, <3>3
  <2>3. CASE Charges
    <3>1. \/ lane' = NoLane
          \/ lane' = Read("plans", cache.class, lane.plans, lane.quoted, lane.used)
          \/ lane' = Read("currency", lane.class, cache.plans, lane.quoted, lane.used)
          \/ lane' = Read("quoted", lane.class, lane.plans, lane.quoted, lane.used)
          \/ lane' = Read("tax", lane.class, lane.plans, cache.class, lane.used)
          \/ lane' = Read("held", lane.class, lane.plans, lane.quoted, cache.sets)
      BY <1>2, <2>3 DEF Charges, Goes, Ends, Read
    <3>2. CASE lane' = NoLane
      BY <1>2, <3>2 DEF Steps, NoLane
    <3>3. ASSUME NEW pc \in Steps, NEW class \in Classes, NEW plans \in BOOLEAN,
                 NEW quoted \in Classes, NEW used \in Sets
          PROVE  /\ Read(pc, class, plans, quoted, used)
                     \in [pc : Steps, class : Classes, plans : BOOLEAN, quoted : Classes, used : Sets]
                 /\ Read(pc, class, plans, quoted, used).used = used
      BY DEF Read
    <3>4. {"plans", "currency", "quoted", "tax", "held"} \subseteq Steps
      BY DEF Steps
    <3>5. {lane.class, lane.quoted, cache.class} \subseteq Classes /\ {lane.plans, cache.plans} \subseteq BOOLEAN
          /\ {lane.used, cache.sets} \subseteq Sets
      BY <1>2
    <3>6. lane' # NoLane => \E pc \in Steps, class \in Classes, plans \in BOOLEAN, quoted \in Classes,
                             used \in {lane.used, cache.sets} :
                           lane' = Read(pc, class, plans, quoted, used)
      BY <3>1, <3>4, <3>5
    <3>7. QED BY <3>2, <3>3, <3>5, <3>6
  <2>4. QED BY <2>1, <2>2, <2>3
<1>4. TypeInv'
  BY <1>1, <1>3 DEF Inv, TypeInv
<1>5. HeardInv'
  BY <1>1, <1>3 DEF Inv, HeardInv, Heard
<1>6. QED BY <1>1, <1>4, <1>5 DEF Inv, GarageInv, ReadInv

\* The record names the sets it was made from.
LEMMA RecordsStep ==
  ASSUME Inv, Records,
         UNCHANGED <<garage, cache, file, refresh, mistaken, edits, restarts>>
  PROVE  Inv'
<1>1. {} \in Sets /\ 0 \in Classes
  BY DEF Sets, Classes
<1>2. lane' \in [pc : Steps, class : Classes, plans : BOOLEAN, quoted : Classes, used : Sets]
      /\ lane'.used = {}
  BY <1>1 DEF Records, Ends, NoLane, Steps
<1>3. CASE cache.sets = {}
  <2>1. close' = close
    BY <1>3 DEF Records
  <2>2. TypeInv'
    BY <1>2, <2>1 DEF Inv, TypeInv
  <2>3. QED BY <1>2, <2>1, <2>2 DEF Inv, GarageInv, HeardInv, ReadInv, Heard
<1>4. CASE cache.sets # {}
  <2> DEFINE d == [class |-> lane.class, quoted |-> lane.quoted, used |-> lane.used,
                   listed |-> cache.sets, held |-> TaxSetsHeld(cache.sets)]
  <2>1. close' = {d}
    BY <1>4 DEF Records
  <2>2. TaxSetsHeld(cache.sets) \in TaxFacts
    <3>1. cache.sets \in Sets /\ HasNewest(cache.sets)
      BY <1>4 DEF Inv, TypeInv, HeardInv, Heard, Facts
    <3>2. QED BY <3>1, Held
  <2>3. d \in Decisions
    BY <2>2 DEF Inv, TypeInv, Decisions, Facts
  <2>4. Heard(d.listed, garage.sets)
    BY DEF Inv, HeardInv
  <2>5. d.listed # {} /\ d.held = TaxSetsHeld(d.listed)
    BY <1>4
  <2> HIDE DEF d
  <2>6. TypeInv'
    BY <1>2, <2>1, <2>3 DEF Inv, TypeInv
  <2>7. HeardInv'
    BY <1>2, <2>1, <2>4 DEF Inv, HeardInv, Heard
  <2>8. ReadInv'
    BY <2>1, <2>5 DEF ReadInv
  <2>9. QED BY <2>6, <2>7, <2>8 DEF Inv, GarageInv
<1>5. QED BY <1>3, <1>4

\* What the platform takes is of its class and its sets.
LEMMA JudgedStep ==
  ASSUME Inv, Judged
  PROVE  Inv'
<1>1. close' = {} /\ UNCHANGED <<garage, cache, file, refresh, lane, edits, restarts>>
  BY DEF Judged
<1>2. ASSUME NEW d \in close, Consumed(d), Torn(d) = {}
      PROVE  d.used = garage.sets /\ d.quoted = garage.class
  <2>1. d.quoted = d.class /\ d.used = d.listed
    BY <1>2 DEF Torn
  <2>2. /\ d.listed \in Sets /\ d.listed # {} /\ TaxSetsHeld(d.listed) = TaxSetsHeld(garage.sets)
        /\ garage.sets \in Sets /\ HasNewest(garage.sets) /\ Heard(d.listed, garage.sets)
    BY <1>2 DEF Inv, TypeInv, GarageInv, HeardInv, ReadInv, Decisions, Facts, Consumed
  <2>3. d.listed = garage.sets
    BY <2>2, FactsTell
  <2>4. QED BY <1>2, <2>1, <2>3 DEF Consumed
<1>3. {} \notin mistaken' /\ mistaken' \subseteq SUBSET {"class", "sets"}
  <2>1. \A d \in close : Torn(d) \in SUBSET {"class", "sets"}
    BY DEF Torn
  <2>2. ASSUME NEW d \in close, Consumed(d), d.used # garage.sets \/ d.quoted # garage.class
        PROVE  Torn(d) # {}
    BY <1>2, <2>2
  <2>3. {} \notin mistaken /\ mistaken \subseteq SUBSET {"class", "sets"}
    BY DEF Inv, TypeInv
  <2>4. \A m \in mistaken' : m \in mistaken \/ \E d \in close :
          m = Torn(d) /\ Consumed(d) /\ (d.used # garage.sets \/ d.quoted # garage.class)
    BY DEF Judged
  <2>5. ASSUME NEW m \in mistaken'
        PROVE  m # {} /\ m \in SUBSET {"class", "sets"}
    <3>1. CASE m \in mistaken
      BY <2>3, <3>1
    <3>2. CASE m \notin mistaken
      <4>1. PICK d \in close : /\ m = Torn(d) /\ Consumed(d)
                               /\ d.used # garage.sets \/ d.quoted # garage.class
        BY <2>4, <3>2
      <4>2. Torn(d) # {} /\ Torn(d) \in SUBSET {"class", "sets"}
        BY <2>1, <2>2, <4>1
      <4>3. QED BY <4>1, <4>2
    <3>3. QED BY <3>1, <3>2
  <2>6. QED BY <2>5
<1>4. TypeInv'
  BY <1>1, <1>3 DEF Inv, TypeInv
<1>5. QED BY <1>1, <1>3, <1>4 DEF Inv, GarageInv, HeardInv, ReadInv

LEMMA Invariance == Spec => []Inv
<1>1. Inv /\ [Next]_vars => Inv'
  <2> SUFFICES ASSUME Inv, [Next]_vars PROVE Inv'
    OBVIOUS
  <2>1. CASE Edit
    BY <2>1, EditStep
  <2>2. CASE Ages
    BY <2>2, AgesStep
  <2>3. CASE Answered \/ Expires \/ FileRaises
    BY <2>3, RefreshStep
  <2>4. CASE Writes
    BY <2>4, WritesStep
  <2>5. CASE Price
    BY <2>5, LaneStep, RecordsStep DEF Price
  <2>6. CASE Judged
    BY <2>6, JudgedStep
  <2>7. CASE Restart
    BY <2>7, RestartStep
  <2>8. CASE UNCHANGED vars
    BY <2>8 DEF vars, Inv, TypeInv, GarageInv, HeardInv, ReadInv
  <2>9. QED BY <2>1, <2>2, <2>3, <2>4, <2>5, <2>6, <2>7, <2>8 DEF Next
<1>2. QED BY <1>1, Initially, PTL DEF Spec

\* A fee the platform takes was worked out in the garage's class and taxed on
\* its sets, for any number of edits and restarts, wherever a load, a wipe or a
\* write of the file was when the lane priced the car: unless the class, or the
\* sets, read differently the second time.
THEOREM TaxedAsTheGarageDoes == Spec => []ConsumedAtTheGaragesTax
<1>1. Inv => ConsumedAtTheGaragesTax
  <2> SUFFICES ASSUME Inv PROVE ConsumedAtTheGaragesTax
    OBVIOUS
  <2>1. Cardinality(close) <= 1
    <3>1. CASE close = {}
      BY <3>1, FS_EmptySet
    <3>2. CASE close # {}
      <4>1. PICK d \in close : TRUE
        BY <3>2
      <4>2. close = {d}
        BY <4>1 DEF Inv, TypeInv
      <4>3. QED BY <4>2, FS_Singleton
    <3>3. QED BY <3>1, <3>2
  <2>2. Len(LoadOrder) = 7
    BY DEF LoadOrder
  <2>3. /\ {garage, cache, file, refresh.with} \subseteq Facts
        /\ lane.used \in Sets /\ {lane.class, lane.quoted} \subseteq Classes /\ lane.plans \in BOOLEAN
    BY DEF Inv, TypeInv
  <2>4. QED BY <2>1, <2>2, <2>3 DEF Inv, TypeInv, TypeOK, Decisions, ConsumedAtTheGaragesTax
<1>2. QED BY Invariance, <1>1, PTL

------------------------------------------------------------------------------
(* The open stays an exit is priced from: StayCache, for any stays, pages  *)
(* and bounds.                                                             *)

\* The stays whose close the platform has numbered.
Shut == {s \in Stays : rows[s].seq > 0 /\ ~rows[s].open} \cup {r.stay : r \in {p \in pending : ~p.open}}

\* A close is numbered once a stay, and after it nothing of that stay; a change
\* not yet committed is of a stay as it was when it took its number.
PlatformInv ==
  /\ \A s \in Stays : rows[s].seq = 0 => ~rows[s].open
  /\ \A r \in pending :
       rows[r.stay].seq < r.seq /\ (rows[r.stay].open \/ (rows[r.stay].seq = 0 /\ r.open))
  /\ Top <= MaxSeq + Cardinality(Shut)

\* A read follows no more than MaxPages pages, and is loaded or dropped before
\* the next.
ThreadInv ==
  /\ reading \in {"started", "asleep", "due", "cleared", "wiped"} => page = 0
  /\ reading \in {"paging", "page landed"} => page < MaxPages
  /\ reading \notin {"answered", "dated", "stored"} => answer = {}

\* The list as the answer will leave it.
Loaded(a) == IF a.kind = "delta" THEN AppliedChanges(a) ELSE ReplacedStays(a)

Copies == {list} \cup saved \cup {Loaded(a) : a \in answer}

\* A copy is what the rows up to its cursor say, but for the changes in its gap.
Honest(c) ==
  \A n \in c.cursor :
    /\ n <= Top
    /\ UpTo(c, n)
    /\ \A r \in pending : r.seq <= n => r.stay \in c.gap

CopyInv == \A c \in Copies : Honest(c)

StayInv ==
  /\ StaysTypeOK
  /\ PlatformInv /\ ThreadInv /\ CopyInv /\ DroppedStaysAreGone

\* A finite set of numbers has a greatest.
LEMMA Greatest ==
  ASSUME NEW T \in SUBSET Nat, IsFiniteSet(T), T # {}
  PROVE  \E m \in T : \A x \in T : m >= x
  <1> DEFINE Bad == {U \in SUBSET T : U # {} /\ ~ \E m \in U : \A x \in U : m >= x}
  <1> SUFFICES ASSUME Bad # {} PROVE FALSE
    OBVIOUS
  <1>1. IsWellFoundedOn(StrictSubsetOrdering(T), SUBSET T)
    BY FS_StrictSubsetOrderingWellFounded, FS_FiniteSubsetsOfFinite
  <1>2. PICK U \in Bad : \A V \in Bad : <<V, U>> \notin StrictSubsetOrdering(T)
    <2>1. Bad \subseteq SUBSET T
      OBVIOUS
    <2> HIDE DEF Bad
    <2> QED
      BY <1>1, <2>1, WFMin, Zenon
  <1>3. PICK u \in U : TRUE
    OBVIOUS
  <1> DEFINE V == U \ {u}
  <1>4. V \notin Bad
    <2>1. V \in SUBSET T /\ U \in SUBSET T /\ V \subseteq U /\ V # U
      BY <1>3
    <2>2. <<V, U>> \in StrictSubsetOrdering(T)
      BY <2>1 DEF StrictSubsetOrdering
    <2> QED
      BY <1>2, <2>2
  <1>5. U \in SUBSET Nat
    OBVIOUS
  <1>6. CASE V = {}
    <2>1. \A x \in U : x = u
      BY <1>6
    <2>2. u >= u
      BY <1>3, <1>5
    <2> QED
      BY <1>3, <2>1, <2>2
  <1>7. CASE V # {}
    <2>1. PICK m \in V : \A x \in V : m >= x
      BY <1>4, <1>7
    <2>2. m \in Nat /\ u \in Nat /\ m \in U /\ u \in U
      BY <1>3, <1>5
    <2>3. \A x \in U : x = u \/ (x \in V /\ x \in Nat)
      BY <1>5
    <2>4. CASE m >= u
      <3>1. \A x \in U : m >= x
        BY <2>1, <2>3, <2>4
      <3> QED
        BY <2>2, <3>1
    <2>5. CASE u >= m
      <3>1. \A x \in U : u >= x
        BY <2>1, <2>2, <2>3, <2>5
      <3> QED
        BY <2>2, <3>1
    <2> QED
      BY <2>2, <2>4, <2>5
  <1> QED
    BY <1>6, <1>7

LEMMA MaxIs ==
  ASSUME NEW T \in SUBSET Nat, IsFiniteSet(T), T # {}
  PROVE  Max(T) \in T /\ \A x \in T : Max(T) >= x
  BY Greatest DEF Max

Numbers == 0..(MaxSeq + Cardinality(Stays))

\* The constants, and the types, for use in every step.
LEMMA StayConstants ==
  /\ Stays \subseteq Nat /\ IsFiniteSet(Stays) /\ Cardinality(Stays) \in Nat
  /\ PageSize \in Nat \ {0} /\ MaxPages \in Nat \ {0}
  /\ MaxSeq \in Nat /\ MaxStops \in Nat
  /\ Seqs = Numbers /\ IsFiniteSet(Numbers)
  <1>1. /\ Stays \subseteq Nat /\ IsFiniteSet(Stays) /\ MaxSeq \in Nat /\ MaxStops \in Nat
        /\ PageSize \in Nat \ {0} /\ MaxPages \in Nat \ {0}
    BY StayAssumption
  <1>2. Cardinality(Stays) \in Nat
    BY <1>1, FS_CardinalityType
  <1>3. Seqs = Numbers
    BY DEF Seqs, Numbers
  <1>4. IsFiniteSet(Numbers)
    BY <1>1, <1>2, FS_Interval DEF Numbers
  <1> QED
    BY <1>1, <1>2, <1>3, <1>4

LEMMA StayTyped ==
  ASSUME StaysTypeOK
  PROVE  /\ rows \in [Stays -> [seq : Numbers, open : BOOLEAN]]
         /\ pending \subseteq [stay : Stays, seq : Numbers, open : BOOLEAN]
         /\ \A r, q \in pending : r = q
         /\ list \in [stays : SUBSET Stays, cursor : SUBSET Numbers, gap : SUBSET Stays]
         /\ saved \subseteq [stays : SUBSET Stays, cursor : SUBSET Numbers, gap : SUBSET Stays]
         /\ answer \subseteq [kind : {"rules", "full", "delta"}, open : SUBSET Stays, closed : SUBSET Stays,
                              cursor : Numbers, gap : SUBSET Stays, more : BOOLEAN]
         /\ \A a, b \in answer : a = b
         /\ page \in 0..MaxPages
         /\ fee \subseteq Stays /\ queue \subseteq Stays /\ dropped \subseteq Stays /\ reread \subseteq Stays
  <1>1. Seqs = Numbers
    BY StayConstants
  <1>2. Caches \subseteq [stays : SUBSET Stays, cursor : SUBSET Numbers, gap : SUBSET Stays]
    BY <1>1 DEF Caches, Opt
  <1>3. Answers = [kind : {"rules", "full", "delta"}, open : SUBSET Stays, closed : SUBSET Stays,
                              cursor : Numbers, gap : SUBSET Stays, more : BOOLEAN]
    BY <1>1 DEF Answers
  <1> QED
    BY <1>1, <1>2, <1>3 DEF StaysTypeOK, Rows, AtMostOne

\* The highest number committed, and the highest taken.
TopFacts ==
  /\ RowTop \in Numbers /\ \A s \in Stays : rows[s].seq <= RowTop
  /\ RowTop = 0 \/ \E s \in Stays : RowTop = rows[s].seq
  /\ Top \in Numbers /\ RowTop <= Top /\ \A r \in pending : r.seq <= Top
  /\ Top = RowTop \/ \E r \in pending : Top = r.seq

LEMMA TopsHold == StaysTypeOK => TopFacts
  <1> SUFFICES ASSUME StaysTypeOK PROVE TopFacts
    OBVIOUS
  <1>1. /\ rows \in [Stays -> [seq : Numbers, open : BOOLEAN]]
        /\ pending \subseteq [stay : Stays, seq : Numbers, open : BOOLEAN]
    BY StayTyped
  <1>2. IsFiniteSet(Numbers) /\ Numbers \subseteq Nat /\ 0 \in Numbers
    BY StayConstants DEF Numbers
  <1>3. \A T \in SUBSET Numbers : IsFiniteSet(T) /\ T \in SUBSET Nat
    BY <1>2, FS_Subset
  <1> DEFINE committed == {0} \cup {rows[s].seq : s \in Stays}
             taken == {RowTop} \cup {r.seq : r \in pending}
  <1>4. committed \in SUBSET Numbers /\ committed # {}
    BY <1>1, <1>2
  <1>5. Max(committed) \in committed /\ \A x \in committed : Max(committed) >= x
    <2> HIDE DEF committed
    <2> QED
      BY <1>3, <1>4, MaxIs
  <1>6. RowTop = Max(committed)
    BY DEF RowTop
  <1>7. RowTop \in committed /\ \A x \in committed : RowTop >= x
    BY <1>5, <1>6
  <1>8. taken \in SUBSET Numbers /\ taken # {}
    BY <1>1, <1>4, <1>7
  <1>9. Max(taken) \in taken /\ \A x \in taken : Max(taken) >= x
    <2> HIDE DEF taken
    <2> QED
      BY <1>3, <1>8, MaxIs
  <1>10. Top = Max(taken)
    BY DEF Top
  <1>11. Top \in taken /\ \A x \in taken : Top >= x
    BY <1>9, <1>10
  <1>12. RowTop \in Nat /\ Top \in Nat /\ RowTop \in Numbers /\ Top \in Numbers
    BY <1>2, <1>4, <1>7, <1>8, <1>11
  <1>13. (\A s \in Stays : rows[s].seq \in Nat) /\ (\A r \in pending : r.seq \in Nat)
    BY <1>1, <1>2
  <1> QED
    BY <1>7, <1>11, <1>12, <1>13 DEF TopFacts

LEMMA TopsNext == StaysTypeOK' => TopFacts'
  BY TopsHold, PTL

LEMMA Tops ==
  ASSUME StaysTypeOK
  PROVE  /\ RowTop \in Numbers /\ \A s \in Stays : rows[s].seq <= RowTop
         /\ RowTop = 0 \/ \E s \in Stays : RowTop = rows[s].seq
         /\ Top \in Numbers /\ RowTop <= Top /\ \A r \in pending : r.seq <= Top
         /\ Top = RowTop \/ \E r \in pending : Top = r.seq
  BY TopsHold DEF TopFacts


\* What a step of the platform does to the rows: one numbered past all before,
\* or the change taken earlier committed.
Moved ==
  /\ rows' \in [Stays -> [seq : Numbers, open : BOOLEAN]]
  /\ pending' \subseteq [stay : Stays, seq : Numbers, open : BOOLEAN]
  /\ \A r, q \in pending' : r = q
  /\ \A s \in Stays :
       \/ rows'[s] = rows[s]
       \/ rows'[s].seq > Top
       \/ \E r \in pending : r.stay = s /\ rows'[s].seq = r.seq
  /\ \A s \in Stays : rows[s].seq <= rows'[s].seq
  /\ \A r \in pending : r \in pending' \/ rows'[r.stay].seq >= r.seq
  /\ \A r \in pending' : r \in pending \/ r.seq > Top

\* The stays whose close is numbered are stays.
LEMMA ShutIs ==
  ASSUME StaysTypeOK
  PROVE  /\ Shut \subseteq Stays /\ IsFiniteSet(Shut) /\ Cardinality(Shut) \in Nat
         /\ \A s \in Stays \ Shut : IsFiniteSet(Shut \cup {s}) /\ Cardinality(Shut \cup {s}) = Cardinality(Shut) + 1
                                    /\ Cardinality(Shut) + 1 <= Cardinality(Stays)
  <1>1. Shut \subseteq Stays
    BY StayTyped DEF Shut
  <1>2. IsFiniteSet(Stays) /\ Cardinality(Stays) \in Nat
    BY StayConstants
  <1>3. IsFiniteSet(Shut) /\ Cardinality(Shut) \in Nat
    BY <1>1, <1>2, FS_Subset, FS_CardinalityType
  <1>4. ASSUME NEW s \in Stays \ Shut
        PROVE  /\ IsFiniteSet(Shut \cup {s}) /\ Cardinality(Shut \cup {s}) = Cardinality(Shut) + 1
               /\ Cardinality(Shut) + 1 <= Cardinality(Stays)
    <2>1. IsFiniteSet(Shut \cup {s}) /\ Cardinality(Shut \cup {s}) = Cardinality(Shut) + 1
      BY <1>3, FS_AddElement
    <2>2. Shut \cup {s} \in SUBSET Stays
      BY <1>1
    <2> QED
      BY <1>2, <2>1, <2>2, FS_Subset
  <1> QED
    BY <1>1, <1>3, <1>4

\* A change takes the next number, and no number is ever past the bounds.
LEMMA ChangeStep ==
  ASSUME StayInv, NEW s \in Stays, NEW open \in BOOLEAN, Change(s, open),
         open => Top < MaxSeq /\ (rows[s].open \/ rows[s].seq = 0),
         ~open => rows[s].open
  PROVE  /\ Moved
         /\ \A t \in Stays : rows'[t].seq <= Top + 1
         /\ \A r \in pending' : r.seq <= Top + 1
         /\ \A t \in Stays : rows'[t].seq = 0 => ~rows'[t].open
         /\ \A r \in pending' :
              rows'[r.stay].seq < r.seq /\ (rows'[r.stay].open \/ (rows'[r.stay].seq = 0 /\ r.open))
         /\ Top + 1 <= MaxSeq + Cardinality(Shut')
  <1>a. StaysTypeOK /\ PlatformInv
    BY DEF StayInv
  <1>b. /\ rows \in [Stays -> [seq : Numbers, open : BOOLEAN]]
        /\ pending \subseteq [stay : Stays, seq : Numbers, open : BOOLEAN]
        /\ \A r, q \in pending : r = q
    BY <1>a, StayTyped
  <1>c. /\ Top \in Numbers /\ (\A t \in Stays : rows[t].seq <= Top) /\ \A r \in pending : r.seq <= Top
    <2>1. /\ RowTop \in Numbers /\ (\A t \in Stays : rows[t].seq <= RowTop)
          /\ Top \in Numbers /\ RowTop <= Top /\ \A r \in pending : r.seq <= Top
      BY <1>a, Tops
    <2>2. \A t \in Stays : rows[t].seq \in Nat
      BY <1>b DEF Numbers
    <2> QED
      BY <2>1, <2>2 DEF Numbers
  <1>d. MaxSeq \in Nat /\ Cardinality(Stays) \in Nat /\ Numbers \subseteq Nat
    BY <1>a, StayConstants DEF Numbers
  <1>e. /\ Shut \subseteq Stays /\ Cardinality(Shut) \in Nat /\ IsFiniteSet(Shut)
        /\ \A t \in Stays \ Shut : /\ Cardinality(Shut \cup {t}) = Cardinality(Shut) + 1
                                   /\ Cardinality(Shut) + 1 <= Cardinality(Stays)
    BY <1>a, ShutIs
  <1>f. Top <= MaxSeq + Cardinality(Shut)
    BY <1>a DEF PlatformInv
  <1>g. \A r \in pending : r.stay # s
    BY DEF Change, Settled
  <1> DEFINE n == Top + 1
             late == [stay |-> s, seq |-> n, open |-> open]
  <1>h. \/ rows' = [rows EXCEPT ![s] = [seq |-> n, open |-> open]] /\ pending' = pending
        \/ pending = {} /\ pending' = {late} /\ rows' = rows
    BY DEF Change
  <1>i. \A t \in Stays : rows[t].seq = 0 => ~rows[t].open
    BY <1>a DEF PlatformInv
  <1>j. \A r \in pending : rows[r.stay].seq < r.seq /\ (rows[r.stay].open \/ (rows[r.stay].seq = 0 /\ r.open))
    BY <1>a DEF PlatformInv
  <1>1. n \in Numbers /\ n <= MaxSeq + Cardinality(Shut')
    <2>1. CASE open
      <3>1. Shut' = Shut
        <4>1. s \notin Shut
          BY <1>b, <1>g, <2>1 DEF Shut
        <4>2. \A t \in Stays : t \in Shut' <=> t \in Shut
          <5>1. CASE rows' = [rows EXCEPT ![s] = [seq |-> n, open |-> open]] /\ pending' = pending
            <6>1. rows'[s].open
              BY <1>b, <2>1, <5>1
            <6>2. s \notin Shut'
              BY <1>g, <5>1, <6>1 DEF Shut
            <6>3. \A t \in Stays \ {s} : rows'[t] = rows[t]
              BY <1>b, <5>1
            <6> HIDE <1>h
            <6> QED
              BY <4>1, <5>1, <6>2, <6>3 DEF Shut
          <5>2. CASE pending = {} /\ pending' = {late} /\ rows' = rows
            BY <2>1, <5>2 DEF Shut
          <5> QED
            BY <1>h, <5>1, <5>2
        <4>3. Shut' \subseteq Stays
          <5>1. pending' \subseteq pending \cup {late}
            BY <1>h
          <5> QED
            BY <1>b, <5>1 DEF Shut
        <4> QED
          BY <1>e, <4>2, <4>3
      <3>2. Top < MaxSeq
        BY <2>1
      <3> QED
        BY <1>c, <1>d, <1>e, <3>1, <3>2 DEF Numbers
    <2>2. CASE ~open
      <3>1. s \in Stays \ Shut /\ rows[s].open
        BY <1>b, <1>g, <2>2 DEF Shut
      <3>2. Shut' = Shut \cup {s}
        <4>1. CASE rows' = [rows EXCEPT ![s] = [seq |-> n, open |-> open]] /\ pending' = pending
          <5>1. rows'[s].seq = n /\ ~rows'[s].open /\ n > 0
            BY <1>b, <1>c, <1>d, <2>2, <4>1
          <5>2. \A t \in Stays \ {s} : rows'[t] = rows[t]
            BY <1>b, <4>1
          <5> HIDE DEF n
          <5>3. {t \in Stays : rows'[t].seq > 0 /\ ~rows'[t].open} = {t \in Stays : rows[t].seq > 0 /\ ~rows[t].open} \cup {s}
            BY <5>1, <5>2
          <5> QED
            BY <4>1, <5>3 DEF Shut
        <4>2. CASE pending = {} /\ pending' = {late} /\ rows' = rows
          <5>1. late.stay = s /\ late.open = open
            OBVIOUS
          <5> HIDE DEF late
          <5> QED
            BY <2>2, <4>2, <5>1 DEF Shut
        <4> QED
          BY <1>h, <4>1, <4>2
      <3>3. Cardinality(Shut') = Cardinality(Shut) + 1 /\ Cardinality(Shut) + 1 <= Cardinality(Stays)
        BY <1>e, <3>1, <3>2
      <3> QED
        BY <1>c, <1>d, <1>e, <1>f, <3>3 DEF Numbers
    <2> QED
      BY <2>1, <2>2
  <1>2. n \in Nat /\ n > Top /\ Top \in Nat
    BY <1>c, <1>d
  <1>3. CASE rows' = [rows EXCEPT ![s] = [seq |-> n, open |-> open]] /\ pending' = pending
    <2>1. rows'[s].seq = n /\ rows'[s].open = open /\ \A t \in Stays \ {s} : rows'[t] = rows[t]
      BY <1>b, <1>3
    <2>2. rows' \in [Stays -> [seq : Numbers, open : BOOLEAN]]
      <3>1. [seq |-> n, open |-> open] \in [seq : Numbers, open : BOOLEAN]
        BY <1>1
      <3> HIDE DEF n
      <3> QED
        BY <1>b, <1>3, <3>1
    <2>3. \A t \in Stays : rows[t].seq \in Nat
      BY <1>b, <1>d
    <2>4. \A t \in Stays : rows[t].seq <= rows'[t].seq /\ rows'[t].seq <= n
      BY <1>c, <1>2, <2>1, <2>3
    <2>5. \A r \in pending : r.stay \in Stays /\ r.stay # s /\ rows'[r.stay] = rows[r.stay] /\ r.seq \in Nat
      BY <1>b, <1>d, <1>g, <2>1
    <2>6. \A r \in pending' : r.seq <= n
      BY <1>c, <1>2, <1>3, <2>5
    <2> HIDE DEF n
    <2>7. Moved
      BY <1>b, <1>3, <1>2, <2>1, <2>2, <2>4 DEF Moved
    <2>8. \A t \in Stays : rows'[t].seq = 0 => ~rows'[t].open
      BY <1>2, <1>i, <2>1
    <2> QED
      BY <1>1, <1>3, <1>j, <2>4, <2>5, <2>6, <2>7, <2>8 DEF n
  <1>4. CASE pending = {} /\ pending' = {late} /\ rows' = rows
    <2>1. late \in [stay : Stays, seq : Numbers, open : BOOLEAN] /\ late.stay = s /\ late.seq = n /\ late.open = open
      BY <1>1
    <2>2. \A t \in Stays : rows[t].seq \in Nat /\ rows[t].seq <= n /\ rows[t].seq < n
      <3>1. \A t \in Stays : rows[t].seq \in Nat /\ rows[t].seq <= Top
        BY <1>b, <1>c, <1>d
      <3> HIDE DEF n
      <3> QED
        BY <1>2, <3>1
    <2>3. open \in BOOLEAN /\ (rows[s].open \/ (rows[s].seq = 0 /\ open))
      OBVIOUS
    <2> HIDE DEF late, n
    <2>4. Moved
      BY <1>b, <1>2, <1>4, <2>1, <2>2 DEF Moved
    <2>5. \A r \in pending' : r = late
      BY <1>4
    <2> QED
      BY <1>1, <1>2, <1>4, <1>i, <2>1, <2>2, <2>3, <2>4, <2>5 DEF n
  <1> QED
    BY <1>h, <1>3, <1>4

\* A change committed late keeps its number.
LEMMA CommitStep ==
  ASSUME StayInv, Committed
  PROVE  /\ Moved /\ pending' = {}
         /\ \A t \in Stays : rows'[t].seq <= Top
         /\ \A t \in Stays : rows'[t].seq = 0 => ~rows'[t].open
         /\ Top <= MaxSeq + Cardinality(Shut')
  <1>a. StaysTypeOK /\ PlatformInv
    BY DEF StayInv
  <1>b. /\ rows \in [Stays -> [seq : Numbers, open : BOOLEAN]]
        /\ pending \subseteq [stay : Stays, seq : Numbers, open : BOOLEAN]
        /\ \A r, q \in pending : r = q
    BY <1>a, StayTyped
  <1>c. /\ Top \in Nat /\ \A t \in Stays : rows[t].seq \in Nat /\ rows[t].seq <= Top
        /\ \A r \in pending : r.seq <= Top /\ r.seq \in Nat
    <2>1. /\ RowTop \in Numbers /\ (\A t \in Stays : rows[t].seq <= RowTop)
          /\ Top \in Numbers /\ RowTop <= Top /\ \A r \in pending : r.seq <= Top
      BY <1>a, Tops
    <2>2. (\A t \in Stays : rows[t].seq \in Nat) /\ (\A r \in pending : r.seq \in Nat)
      BY <1>b DEF Numbers
    <2> QED
      BY <2>1, <2>2 DEF Numbers
  <1>d. PICK r \in pending : rows' = [rows EXCEPT ![r.stay] = [seq |-> r.seq, open |-> r.open]]
    BY DEF Committed
  <1>e. pending' = {} /\ pending = {r} /\ r.stay \in Stays
    BY <1>b, <1>d DEF Committed
  <1>f. rows[r.stay].seq < r.seq /\ (rows[r.stay].open \/ (rows[r.stay].seq = 0 /\ r.open))
    BY <1>a DEF PlatformInv
  <1>g. /\ rows'[r.stay].seq = r.seq /\ rows'[r.stay].open = r.open
        /\ \A t \in Stays \ {r.stay} : rows'[t] = rows[t]
    BY <1>b, <1>d, <1>e
  <1>h. rows' \in [Stays -> [seq : Numbers, open : BOOLEAN]]
    <2>1. [seq |-> r.seq, open |-> r.open] \in [seq : Numbers, open : BOOLEAN]
      BY <1>b
    <2> QED
      BY <1>b, <1>d, <2>1
  <1>i. \A t \in Stays : rows[t].seq = 0 => ~rows[t].open
    BY <1>a DEF PlatformInv
  <1>1. \A t \in Stays : rows[t].seq <= rows'[t].seq /\ rows'[t].seq <= Top
    BY <1>c, <1>e, <1>f, <1>g
  <1>2. Moved
    <2>1. \A t \in Stays : rows'[t] = rows[t] \/ \E q \in pending : q.stay = t /\ rows'[t].seq = q.seq
      BY <1>e, <1>g
    <2>2. \A q \in pending : rows'[q.stay].seq >= q.seq
      BY <1>c, <1>e, <1>g
    <2> QED
      BY <1>e, <1>h, <1>1, <2>1, <2>2 DEF Moved
  <1>3. \A t \in Stays : rows'[t].seq = 0 => ~rows'[t].open
    <2>1. r.seq > 0
      BY <1>c, <1>e, <1>f
    <2> QED
      BY <1>c, <1>e, <1>g, <1>i, <2>1
  <1>4. Shut' = Shut
    <2>1. r.seq > 0
      BY <1>c, <1>e, <1>f
    <2>2. \A t \in Stays : t \in Shut' <=> rows'[t].seq > 0 /\ ~rows'[t].open
      BY <1>e DEF Shut
    <2>3. \A t \in Stays : t \in Shut <=> (rows[t].seq > 0 /\ ~rows[t].open) \/ (t = r.stay /\ ~r.open)
      BY <1>e DEF Shut
    <2>4. Shut \subseteq Stays /\ Shut' \subseteq Stays
      BY <1>e DEF Shut
    <2>5. \A t \in Stays : t \in Shut' <=> t \in Shut
      <3>1. r.stay \in Shut' <=> r.stay \in Shut
        <4>1. ~(rows[r.stay].seq > 0 /\ ~rows[r.stay].open)
          BY <1>c, <1>e, <1>f
        <4> QED
          BY <1>e, <1>g, <2>1, <2>2, <2>3, <4>1
      <3>2. \A t \in Stays \ {r.stay} : t \in Shut' <=> t \in Shut
        BY <1>g, <2>2, <2>3
      <3> QED
        BY <3>1, <3>2
    <2> QED
      BY <2>4, <2>5
  <1>5. Top <= MaxSeq + Cardinality(Shut')
    BY <1>4, <1>a DEF PlatformInv
  <1> QED
    BY <1>e, <1>1, <1>2, <1>3, <1>5

\* A copy is honest after the step.
HonestLater(c) ==
  \A n \in c.cursor :
    /\ n <= Top'
    /\ \A s \in Stays \ c.gap :
         rows'[s].seq <= n =>
           (s \in c.stays => rows'[s].open) /\ (rows'[s].open => s \in c.stays \cup dropped')
    /\ \A r \in pending' : r.seq <= n => r.stay \in c.gap

LEMMA HonestNext ==
  ASSUME NEW c, HonestLater(c)
  PROVE  Honest(c)'
  BY DEF Honest, HonestLater, UpTo

\* The rows as a step of the platform moves them keep every copy honest.
LEMMA StaysHonest ==
  ASSUME StayInv, StaysTypeOK', Moved, dropped \subseteq dropped',
         NEW c, c.cursor \subseteq Numbers, Honest(c)
  PROVE  HonestLater(c)
  <1>a. StaysTypeOK
    BY DEF StayInv
  <1>b. Numbers \subseteq Nat
    BY <1>a, StayConstants DEF Numbers
  <1>c. /\ Top \in Nat /\ RowTop \in Nat /\ RowTop <= Top
        /\ Top = RowTop \/ \E r \in pending : Top = r.seq
        /\ RowTop = 0 \/ \E s \in Stays : RowTop = rows[s].seq
    BY <1>a, <1>b, Tops
  <1>d. /\ Top' \in Nat /\ RowTop' \in Nat /\ RowTop' <= Top'
        /\ \A s \in Stays : rows'[s].seq <= RowTop'
        /\ \A r \in pending' : r.seq <= Top'
    BY <1>a, <1>b, TopsNext DEF TopFacts
  <1>e. /\ rows \in [Stays -> [seq : Numbers, open : BOOLEAN]] /\ rows' \in [Stays -> [seq : Numbers, open : BOOLEAN]]
        /\ pending \subseteq [stay : Stays, seq : Numbers, open : BOOLEAN]
        /\ pending' \subseteq [stay : Stays, seq : Numbers, open : BOOLEAN]
    BY <1>a, StayTyped DEF Moved
  <1>f. /\ \A s \in Stays : rows[s].seq \in Nat /\ rows'[s].seq \in Nat
        /\ \A r \in pending \cup pending' : r.seq \in Nat /\ r.stay \in Stays
    BY <1>b, <1>e
  <1>g. /\ \A s \in Stays : rows[s].seq <= rows'[s].seq
        /\ \A r \in pending : r \in pending' \/ rows'[r.stay].seq >= r.seq
        /\ \A r \in pending' : r \in pending \/ r.seq > Top
    BY DEF Moved
  <1>1. Top <= Top'
    <2>1. \A s \in Stays : rows[s].seq <= Top'
      <3>1. \A s \in Stays : rows[s].seq <= rows'[s].seq /\ rows'[s].seq <= RowTop'
        BY <1>d, <1>g
      <3> QED
        BY <1>d, <1>f, <3>1
    <2>2. ASSUME NEW r \in pending PROVE r.seq <= Top'
      <3>1. CASE r \in pending'
        BY <1>d, <3>1
      <3>2. CASE rows'[r.stay].seq >= r.seq
        BY <1>d, <1>f, <3>2
      <3> QED
        BY <1>g, <3>1, <3>2
    <2> QED
      BY <1>c, <1>d, <2>1, <2>2
  <1>2. ASSUME NEW n \in c.cursor
        PROVE  /\ n <= Top'
               /\ \A s \in Stays \ c.gap :
                    rows'[s].seq <= n =>
                      (s \in c.stays => rows'[s].open) /\ (rows'[s].open => s \in c.stays \cup dropped')
               /\ \A r \in pending' : r.seq <= n => r.stay \in c.gap
    <2>1. /\ n \in Nat /\ n <= Top
          /\ UpTo(c, n)
          /\ \A r \in pending : r.seq <= n => r.stay \in c.gap
      BY <1>b, <1>2 DEF Honest
    <2>2. n <= Top'
      BY <1>c, <1>d, <1>1, <2>1
    <2>3. ASSUME NEW r \in pending', r.seq <= n PROVE r.stay \in c.gap
      <3>1. ~(r.seq > Top)
        BY <1>c, <1>f, <2>1, <2>3
      <3> QED
        BY <1>g, <2>1, <2>3, <3>1
    <2>4. ASSUME NEW s \in Stays \ c.gap, rows'[s].seq <= n
          PROVE  (s \in c.stays => rows'[s].open) /\ (rows'[s].open => s \in c.stays \cup dropped')
      <3>1. ~(rows'[s].seq > Top)
        BY <1>c, <1>f, <2>1, <2>4
      <3>2. ~ \E r \in pending : r.stay = s /\ rows'[s].seq = r.seq
        BY <2>1, <2>4
      <3>3. rows'[s] = rows[s]
        BY <3>1, <3>2 DEF Moved
      <3>4. (s \in c.stays => rows[s].open) /\ (rows[s].open => s \in c.stays \cup dropped)
        BY <2>1, <2>4, <3>3 DEF UpTo
      <3> QED
        BY <3>3, <3>4
    <2> QED
      BY <2>2, <2>3, <2>4
  <1> QED
    BY <1>2 DEF HonestLater

\* Where a step of the platform leaves the numbers and the rows.
Bounded ==
  /\ \A t \in Stays : rows'[t].seq = 0 => ~rows'[t].open
  /\ \A r \in pending' :
       rows'[r.stay].seq < r.seq /\ (rows'[r.stay].open \/ (rows'[r.stay].seq = 0 /\ r.open))
  /\ \E n \in Nat : /\ n <= MaxSeq + Cardinality(Shut')
                    /\ \A t \in Stays : rows'[t].seq <= n
                    /\ \A r \in pending' : r.seq <= n

LEMMA PlatformMoves ==
  ASSUME StayInv, Platform
  PROVE  (rows' = rows /\ pending' = pending) \/ (Moved /\ Bounded)
  <1>a. StaysTypeOK
    BY DEF StayInv
  <1>b. Top \in Nat
    BY <1>a, Tops DEF Numbers
  <1>c. queue \subseteq Stays
    BY <1>a, StayTyped
  <1>1. ASSUME NEW s \in Stays, NEW open \in BOOLEAN, Change(s, open),
               open => Top < MaxSeq /\ (rows[s].open \/ rows[s].seq = 0),
               ~open => rows[s].open
        PROVE  Moved /\ Bounded
    <2>1. /\ Moved
          /\ \A t \in Stays : rows'[t].seq <= Top + 1
          /\ \A r \in pending' : r.seq <= Top + 1
          /\ \A t \in Stays : rows'[t].seq = 0 => ~rows'[t].open
          /\ \A r \in pending' :
               rows'[r.stay].seq < r.seq /\ (rows'[r.stay].open \/ (rows'[r.stay].seq = 0 /\ r.open))
          /\ Top + 1 <= MaxSeq + Cardinality(Shut')
      BY <1>1, ChangeStep
    <2>2. Top + 1 \in Nat
      BY <1>b
    <2> QED
      BY <2>1, <2>2 DEF Bounded
  <1>2. ASSUME NEW s \in Stays, Opened(s) PROVE Moved /\ Bounded
    BY <1>1, <1>2 DEF Opened
  <1>3. ASSUME NEW s \in Stays, Updated(s) PROVE Moved /\ Bounded
    BY <1>1, <1>3 DEF Updated
  <1>4. ASSUME NEW s \in Stays, ClosedElsewhere(s) PROVE Moved /\ Bounded
    BY <1>1, <1>4 DEF ClosedElsewhere
  <1>5. ASSUME NEW s \in Stays, CloseTaken(s)
        PROVE  (rows' = rows /\ pending' = pending) \/ (Moved /\ Bounded)
    <2>1. CASE rows[s].open
      BY <1>1, <1>5, <2>1 DEF CloseTaken
    <2>2. CASE ~rows[s].open
      BY <1>5, <2>2 DEF CloseTaken, platform
    <2> QED
      BY <2>1, <2>2
  <1>6. CASE Committed
    <2>1. /\ Moved /\ pending' = {}
          /\ \A t \in Stays : rows'[t].seq <= Top
          /\ \A t \in Stays : rows'[t].seq = 0 => ~rows'[t].open
          /\ Top <= MaxSeq + Cardinality(Shut')
      BY <1>6, CommitStep
    <2> QED
      BY <1>b, <2>1 DEF Bounded
  <1> QED
    BY <1>2, <1>3, <1>4, <1>5, <1>6 DEF Platform

\* How far a page of changes goes.
LEMMA Lasts ==
  ASSUME StaysTypeOK, NEW since \in Numbers
  PROVE  /\ Last(since) \in Numbers /\ since <= Last(since)
         /\ \A s \in Sent(since) : rows[s].seq <= Last(since)
         /\ Last(since) = since \/ \E s \in Sent(since) : Last(since) = rows[s].seq
  <1> DEFINE T == {since} \cup {rows[s].seq : s \in Sent(since)}
  <1>1. rows \in [Stays -> [seq : Numbers, open : BOOLEAN]]
    BY StayTyped
  <1>2. IsFiniteSet(Numbers) /\ Numbers \subseteq Nat
    BY StayConstants DEF Numbers
  <1>3. Sent(since) \subseteq Stays
    BY DEF Sent, Changed
  <1>4. T \in SUBSET Numbers /\ T # {}
    BY <1>1, <1>3
  <1>5. Max(T) \in T /\ \A x \in T : Max(T) >= x
    <2> HIDE DEF T
    <2> QED
      BY <1>2, <1>4, FS_Subset, MaxIs
  <1>6. Last(since) \in T /\ \A x \in T : Last(since) >= x
    BY <1>5 DEF Last
  <1>7. Last(since) \in Nat /\ Last(since) \in Numbers /\ \A x \in T : x \in Nat
    BY <1>2, <1>4, <1>6
  <1>8. \A x \in T : x <= Last(since)
    <2> HIDE DEF T
    <2> QED
      BY <1>6, <1>7
  <1> QED
    BY <1>6, <1>7, <1>8

\* What the platform answers is an answer.
LEMMA AnswerTyped ==
  ASSUME StaysTypeOK
  PROVE  /\ \A kind \in {"rules", "full"} : Full(kind) \in Answers
         /\ \A since \in Numbers : Delta(since) \in Answers
  <1>1. Seqs = Numbers
    BY StayConstants
  <1>2. \A n : Gap(n) \subseteq Stays
    BY StayTyped DEF Gap
  <1>3. RowTop \in Numbers
    BY Tops
  <1>4. ASSUME NEW kind \in {"rules", "full"} PROVE Full(kind) \in Answers
    BY <1>1, <1>2, <1>3 DEF Full, Answers
  <1>5. ASSUME NEW since \in Numbers PROVE Delta(since) \in Answers
    <2>1. Last(since) \in Seqs
      BY <1>1, Lasts
    <2>2. Sent(since) \subseteq Stays
      BY DEF Sent, Changed
    <2> QED
      BY <1>2, <2>1, <2>2 DEF Delta, Answers
  <1> QED
    BY <1>4, <1>5

\* What the steps make of the list is a list.
LEMMA ListTyped ==
  ASSUME StaysTypeOK
  PROVE  /\ Empty \in Caches /\ WithoutIt \in Caches
         /\ [list EXCEPT !.cursor = {}] \in Caches
         /\ \A a \in Answers : ReplacedStays(a) \in Caches /\ AppliedChanges(a) \in Caches
  <1>1. list \in Caches /\ fee \subseteq Stays
    BY DEF StaysTypeOK
  <1>2. {} \in Opt(Seqs) /\ \A n \in Seqs : {n} \in Opt(Seqs)
    BY DEF Opt
  <1> HIDE DEF Opt, Seqs
  <1>3. Empty \in Caches /\ WithoutIt \in Caches /\ [list EXCEPT !.cursor = {}] \in Caches
    BY <1>1, <1>2 DEF Empty, WithoutIt, Caches
  <1>4. ASSUME NEW a \in Answers
        PROVE  ReplacedStays(a) \in Caches /\ AppliedChanges(a) \in Caches
    <2>1. a.open \subseteq Stays /\ a.closed \subseteq Stays /\ a.gap \subseteq Stays /\ a.cursor \in Seqs
      BY DEF Answers
    <2>2. {a.cursor} \in Opt(Seqs)
      BY <1>2, <2>1
    <2> QED
      BY <1>1, <2>1, <2>2 DEF ReplacedStays, AppliedChanges, Caches
  <1> QED
    BY <1>3, <1>4

\* Every step keeps the types.
LEMMA StayTypeStep == StayInv /\ [StaysNext]_staysVars => StaysTypeOK'
  <1> SUFFICES ASSUME StayInv, [StaysNext]_staysVars PROVE StaysTypeOK'
    OBVIOUS
  <1>a. StaysTypeOK /\ ThreadInv
    BY DEF StayInv
  <1>b. /\ rows \in [Stays -> Rows]
        /\ pending \subseteq [stay : Stays, seq : Seqs, open : BOOLEAN] /\ AtMostOne(pending)
        /\ list \in Caches
        /\ saved \subseteq Caches /\ AtMostOne(saved)
        /\ answer \subseteq Answers /\ AtMostOne(answer)
        /\ page \in 0..MaxPages
        /\ fee \subseteq Stays /\ AtMostOne(fee)
        /\ queue \subseteq Stays
        /\ dropped \subseteq Stays /\ reread \subseteq Stays
    BY <1>a DEF StaysTypeOK
  <1>c. \A x : AtMostOne({x})
    BY DEF AtMostOne
  <1>d. AtMostOne({})
    BY DEF AtMostOne
  <1>e. MaxPages \in Nat \ {0} /\ Stays \subseteq Nat /\ IsFiniteSet(Stays) /\ Seqs = Numbers
    BY <1>a, StayConstants
  <1>f. /\ Empty \in Caches /\ WithoutIt \in Caches
        /\ [list EXCEPT !.cursor = {}] \in Caches
        /\ \A a \in Answers : ReplacedStays(a) \in Caches /\ AppliedChanges(a) \in Caches
    BY <1>a, ListTyped
  <1>g. 0 \in 0..MaxPages
    BY <1>e
  <1>1. CASE UNCHANGED staysVars
    BY <1>a, <1>1 DEF StaysTypeOK, AtMostOne, staysVars, platform, thread
  <1>2. CASE Platform
    <2>1. rows' \in [Stays -> Rows] /\ pending' \subseteq [stay : Stays, seq : Seqs, open : BOOLEAN]
          /\ AtMostOne(pending)'
      BY <1>b, <1>e, <1>2, PlatformMoves DEF Moved, Rows, AtMostOne
    <2>2. /\ list' = list /\ saved' = saved /\ answer' = answer /\ page' = page /\ fee' = fee
          /\ queue' \subseteq queue /\ dropped' = dropped /\ reread' = reread
      BY <1>2 DEF Platform, Opened, Updated, ClosedElsewhere, CloseTaken, Committed, thread
    <2> QED
      BY <1>b, <2>1, <2>2 DEF StaysTypeOK, AtMostOne
  <1>3. CASE Refresh
    <2>p. rows' = rows /\ pending' = pending /\ fee' = fee /\ queue' = queue /\ dropped' = dropped
      BY <1>3 DEF Refresh, Wake, DropRow, RulesRead, StaysRead, Unanswered, CursorRefused,
                  Dated, LoadStays, WriteFile, WriteRaises, ReadAnswered, platform
    <2>1. CASE Wake \/ DropRow \/ Unanswered \/ CursorRefused \/ Dated \/ WriteRaises
      <3>1. /\ list' = list \/ list' = Empty \/ list' = [list EXCEPT !.cursor = {}]
            /\ saved' = saved \/ saved' = {}
            /\ answer' = answer \/ answer' = {}
            /\ page' = page \/ page' = 0
            /\ reread' = reread
        BY <2>1 DEF Wake, DropRow, Unanswered, CursorRefused, Dated, WriteRaises
      <3>2. list' \in Caches
        BY <1>b, <1>f, <3>1
      <3>3. saved' \subseteq Caches /\ AtMostOne(saved')
        BY <1>b, <1>d, <3>1
      <3>4. answer' \subseteq Answers /\ AtMostOne(answer')
        BY <1>b, <1>d, <3>1
      <3> QED
        BY <1>b, <1>g, <2>p, <3>1, <3>2, <3>3, <3>4 DEF StaysTypeOK, AtMostOne
    <2>2. CASE RulesRead \/ StaysRead
      <3>1. PICK a \in Answers : answer' = {a} /\ list' = list /\ saved' = saved /\ reread' = reread
        <4>1. CASE RulesRead
          BY <1>a, <4>1, AnswerTyped DEF RulesRead, ReadAnswered
        <4>2. CASE StaysRead
          <5>1. CASE list.cursor = {}
            BY <1>a, <4>2, <5>1, AnswerTyped DEF StaysRead, ReadAnswered
          <5>2. CASE list.cursor # {}
            <6>1. PICK since \in list.cursor : ReadAnswered(Delta(since))
              BY <4>2, <5>2 DEF StaysRead
            <6>2. since \in Numbers
              BY <1>a, <6>1, StayTyped
            <6> QED
              BY <1>a, <6>1, <6>2, AnswerTyped DEF ReadAnswered
          <5> QED
            BY <5>1, <5>2
        <4> QED
          BY <2>2, <4>1, <4>2
      <3>2. page' \in 0..MaxPages
        <4>1. CASE RulesRead
          BY <1>b, <4>1 DEF RulesRead
        <4>2. CASE StaysRead
          <5>1. page < MaxPages
            <6>1. reading = "due" => page = 0
              BY <1>a DEF ThreadInv
            <6>2. reading = "paging" => page < MaxPages
              BY <1>a DEF ThreadInv
            <6>3. reading = "due" \/ reading = "paging"
              BY <4>2 DEF StaysRead
            <6> QED
              BY <1>e, <6>1, <6>2, <6>3
          <5> QED
            BY <1>b, <1>e, <4>2, <5>1 DEF StaysRead
        <4> QED
          BY <2>2, <4>1, <4>2
      <3> QED
        BY <1>b, <1>c, <2>p, <3>1, <3>2 DEF StaysTypeOK, AtMostOne
    <2>3. ASSUME NEW a \in answer, LoadStays(a) PROVE StaysTypeOK'
      <3>1. a \in Answers /\ a.open \subseteq Stays
        BY <1>b DEF Answers
      <3>2. list' = AppliedChanges(a) \/ list' = ReplacedStays(a)
        BY <2>3 DEF LoadStays
      <3>3. list' \in Caches
        BY <1>f, <3>1, <3>2
      <3>4. reread' \subseteq Stays
        BY <1>b, <2>3 DEF LoadStays
      <3>5. answer' = {} /\ saved' = saved /\ page' = page
        BY <2>3 DEF LoadStays
      <3> QED
        BY <1>b, <1>d, <2>p, <3>3, <3>4, <3>5 DEF StaysTypeOK, AtMostOne
    <2>4. CASE WriteFile
      <3>1. list' = list /\ saved' = {list} /\ answer' = answer /\ reread' = reread /\ (page' = page \/ page' = 0)
        BY <2>4 DEF WriteFile
      <3> QED
        BY <1>b, <1>c, <1>g, <2>p, <3>1 DEF StaysTypeOK, AtMostOne
    <2> QED
      BY <1>3, <2>1, <2>2, <2>3, <2>4 DEF Refresh
  <1>4. CASE Exit
    <2>p. rows' = rows /\ pending' = pending /\ saved' = saved /\ answer' = answer /\ page' = page
      BY <1>4 DEF Exit, Priced, BacksUp, GoesThrough, platform, thread
    <2>1. ASSUME NEW car \in CarsHere, Priced(car) PROVE StaysTypeOK'
      <3> DEFINE held == {s \in list.stays : CarOf[s] = car}
      <3>1. held # {} /\ fee' = {Max(held)} /\ list' = list /\ queue' = queue
            /\ dropped' = dropped /\ reread' = reread
        BY <2>1 DEF Priced, thread
      <3>2. held \subseteq Stays
        BY <1>a, StayTyped
      <3>3. Max(held) \in held
        <4> HIDE DEF held
        <4>1. held \in SUBSET Nat /\ IsFiniteSet(held)
          BY <1>e, <3>2, FS_Subset
        <4> QED
          BY <3>1, <4>1, MaxIs
      <3> QED
        BY <1>b, <1>c, <2>p, <3>1, <3>2, <3>3 DEF StaysTypeOK, AtMostOne
    <2>2. CASE BacksUp \/ GoesThrough
      <3>1. /\ fee' = {} /\ queue' \subseteq queue \cup fee /\ dropped' \subseteq dropped \cup fee
            /\ reread' \subseteq reread /\ (list' = list \/ list' = WithoutIt)
        BY <2>2 DEF BacksUp, GoesThrough, thread
      <3> QED
        BY <1>b, <1>d, <1>f, <2>p, <3>1 DEF StaysTypeOK, AtMostOne
    <2> QED
      BY <1>4, <2>1, <2>2 DEF Exit
  <1>5. CASE StopsAndStarts
    <2>1. /\ rows' = rows /\ pending' = pending /\ queue' = queue /\ dropped' = dropped
          /\ answer' = {} /\ page' = 0 /\ fee' = {}
          /\ reread' = reread \cup (dropped \cap list'.stays)
      BY <1>5 DEF StopsAndStarts, platform
    <2>2. list' \in Caches /\ (saved' = saved \/ saved' = {list'})
      BY <1>b, <1>f, <1>5 DEF StopsAndStarts
    <2> QED
      BY <1>b, <1>c, <1>d, <1>g, <2>1, <2>2 DEF StaysTypeOK, AtMostOne
  <1> QED
    BY <1>1, <1>2, <1>3, <1>4, <1>5 DEF StaysNext

\* The platform never takes back a number.
LEMMA PlatformStep == StayInv /\ [StaysNext]_staysVars => PlatformInv'
  <1> SUFFICES ASSUME StayInv, [StaysNext]_staysVars PROVE PlatformInv'
    OBVIOUS
  <1>a. PlatformInv
    BY DEF StayInv
  <1>b. StaysTypeOK'
    BY StayTypeStep
  <1>1. CASE rows' = rows /\ pending' = pending
    <2>1. Shut' = Shut
      BY <1>1 DEF Shut
    <2>2. Top' = Top
      BY <1>1 DEF Top, RowTop
    <2> QED
      BY <1>1, <1>a, <2>1, <2>2 DEF PlatformInv
  <1>2. CASE Moved /\ Bounded
    <2>1. PICK n \in Nat : /\ n <= MaxSeq + Cardinality(Shut')
                           /\ \A t \in Stays : rows'[t].seq <= n
                           /\ \A r \in pending' : r.seq <= n
      BY <1>2 DEF Bounded
    <2>2. Top' \in Numbers /\ RowTop' \in Numbers
          /\ (RowTop' = 0 \/ \E s \in Stays : RowTop' = rows'[s].seq)
          /\ (Top' = RowTop' \/ \E r \in pending' : Top' = r.seq)
      BY <1>a, <1>b, TopsNext DEF TopFacts
    <2>3. Top' <= n
      BY <2>1, <2>2
    <2>4. Cardinality(Shut') \in Nat /\ MaxSeq \in Nat /\ Top' \in Nat
      <3>1. Shut' \subseteq Stays
        BY <1>2 DEF Moved, Shut
      <3>2. IsFiniteSet(Stays) /\ MaxSeq \in Nat
        BY <1>a, StayConstants
      <3>3. Top' \in Nat
        BY <2>2 DEF Numbers
      <3> QED
        BY <3>1, <3>2, <3>3, FS_Subset, FS_CardinalityType
    <2>5. Top' <= MaxSeq + Cardinality(Shut')
      BY <2>1, <2>3, <2>4
    <2> QED
      BY <1>2, <2>5 DEF Bounded, PlatformInv
  <1>3. CASE Platform
    BY <1>1, <1>2, <1>3, PlatformMoves
  <1>4. CASE Refresh \/ Exit \/ StopsAndStarts \/ UNCHANGED staysVars
    <2>1. rows' = rows /\ pending' = pending
      <3>1. CASE Refresh
        BY <3>1 DEF Refresh, Wake, DropRow, RulesRead, StaysRead, Unanswered, CursorRefused,
                    Dated, LoadStays, WriteFile, WriteRaises, ReadAnswered, platform
      <3>2. CASE Exit \/ StopsAndStarts \/ UNCHANGED staysVars
        BY <3>2 DEF Exit, Priced, BacksUp, GoesThrough, StopsAndStarts, platform, staysVars
      <3> QED
        BY <1>4, <3>1, <3>2
    <2> QED
      BY <1>1, <2>1
  <1> QED
    BY <1>3, <1>4 DEF StaysNext

\* A read ends before the next one begins.
LEMMA ThreadStep == StayInv /\ [StaysNext]_staysVars => ThreadInv'
  <1> SUFFICES ASSUME StayInv, [StaysNext]_staysVars PROVE ThreadInv'
    OBVIOUS
  <1>a. /\ reading \in {"started", "asleep", "due", "cleared", "wiped"} => page = 0
        /\ reading \in {"paging", "page landed"} => page < MaxPages
        /\ reading \notin {"answered", "dated", "stored"} => answer = {}
    BY DEF StayInv, ThreadInv
  <1>b. \A a, b \in answer : a = b
    BY StayTyped DEF StayInv
  <1>1. CASE Platform \/ Exit \/ UNCHANGED staysVars
    <2>1. reading' = reading /\ page' = page /\ answer' = answer
      <3>1. CASE Platform
        BY <3>1 DEF Platform, Opened, Updated, ClosedElsewhere, CloseTaken, Committed, thread
      <3>2. CASE Exit \/ UNCHANGED staysVars
        BY <3>2 DEF Exit, Priced, BacksUp, GoesThrough, thread, staysVars
      <3> QED
        BY <1>1, <3>1, <3>2
    <2> QED
      BY <1>a, <2>1 DEF ThreadInv
  <1>2. CASE Wake \/ DropRow
    BY <1>a, <1>2 DEF Wake, DropRow, ThreadInv
  <1>3. CASE RulesRead \/ StaysRead
    BY <1>3 DEF RulesRead, StaysRead, ReadAnswered, ThreadInv
  <1>4. CASE Unanswered \/ CursorRefused
    BY <1>a, <1>4 DEF Unanswered, CursorRefused, ThreadInv
  <1>5. CASE Dated
    BY <1>5 DEF Dated, ThreadInv
  <1>6. ASSUME NEW a \in answer, LoadStays(a) PROVE ThreadInv'
    BY <1>6 DEF LoadStays, GoesOn, ThreadInv
  <1>7. CASE WriteFile
    <2>1. /\ reading \in Writing /\ reading' = WriteSteps[reading] /\ answer' = answer
          /\ page' = IF reading = "landed" THEN 0 ELSE page
      BY <1>7 DEF WriteFile
    <2>2. /\ reading = "wiped" => reading' = "due"
          /\ reading = "dated" => reading' = "stored"
          /\ reading = "landed" => reading' = "asleep"
          /\ reading = "page landed" => reading' = "paging"
      BY <2>1 DEF WriteSteps, Writing
    <2>3. reading \in {"wiped", "dated", "landed", "page landed"}
      BY <2>1 DEF Writing
    <2> QED
      BY <1>a, <2>1, <2>2, <2>3 DEF ThreadInv
  <1>8. CASE WriteRaises \/ StopsAndStarts
    BY <1>8 DEF WriteRaises, StopsAndStarts, ThreadInv
  <1> QED
    BY <1>1, <1>2, <1>3, <1>4, <1>5, <1>6, <1>7, <1>8 DEF StaysNext, Refresh

\* What the lane dropped comes back with an answer or with the file only.
LEMMA DroppedStep == StayInv /\ [StaysNext]_staysVars => DroppedStaysAreGone'
  <1> SUFFICES ASSUME StayInv, [StaysNext]_staysVars PROVE DroppedStaysAreGone'
    OBVIOUS
  <1>a. dropped \cap list.stays \subseteq reread
    BY DEF StayInv, DroppedStaysAreGone
  <1>b. list \in [stays : SUBSET Stays, cursor : SUBSET Numbers, gap : SUBSET Stays]
    BY StayTyped DEF StayInv
  <1>1. CASE list'.stays \subseteq list.stays /\ dropped' = dropped /\ reread' = reread
    BY <1>1, <1>a DEF DroppedStaysAreGone
  <1>2. CASE Platform \/ UNCHANGED staysVars
    <2>1. list' = list /\ dropped' = dropped /\ reread' = reread
      BY <1>2 DEF Platform, Opened, Updated, ClosedElsewhere, CloseTaken, Committed, thread, staysVars
    <2> QED
      BY <1>1, <2>1
  <1>3. CASE Wake \/ DropRow \/ RulesRead \/ StaysRead \/ Unanswered \/ CursorRefused
             \/ Dated \/ WriteFile \/ WriteRaises
    <2>1. /\ list' = list \/ list' = Empty \/ list' = [list EXCEPT !.cursor = {}]
          /\ dropped' = dropped /\ reread' = reread
      BY <1>3 DEF Wake, DropRow, RulesRead, StaysRead, ReadAnswered, Unanswered, CursorRefused,
                  Dated, WriteFile, WriteRaises
    <2>2. list'.stays \subseteq list.stays
      BY <1>b, <2>1 DEF Empty
    <2> QED
      BY <1>1, <2>1, <2>2
  <1>4. ASSUME NEW a \in answer, LoadStays(a) PROVE DroppedStaysAreGone'
    <2>1. /\ list' = AppliedChanges(a) \/ list' = ReplacedStays(a)
          /\ reread' = reread \cup (dropped \cap a.open) /\ dropped' = dropped
      BY <1>4 DEF LoadStays
    <2>2. list'.stays \subseteq list.stays \cup a.open
      BY <1>b, <2>1 DEF AppliedChanges, ReplacedStays
    <2> QED
      BY <1>a, <2>1, <2>2 DEF DroppedStaysAreGone
  <1>5. ASSUME NEW car \in CarsHere, Priced(car) PROVE DroppedStaysAreGone'
    BY <1>1, <1>5 DEF Priced, thread
  <1>6. CASE BacksUp
    BY <1>1, <1>6 DEF BacksUp, thread
  <1>7. CASE GoesThrough
    <2>1. list' = WithoutIt /\ dropped' = dropped \cup fee /\ reread' = reread \ fee
      BY <1>7 DEF GoesThrough
    <2>2. list'.stays = list.stays \ fee
      BY <1>b, <2>1 DEF WithoutIt
    <2> QED
      BY <1>a, <2>1, <2>2 DEF DroppedStaysAreGone
  <1>8. CASE StopsAndStarts
    BY <1>8 DEF StopsAndStarts, DroppedStaysAreGone
  <1> QED
    BY <1>2, <1>3, <1>4, <1>5, <1>6, <1>7, <1>8 DEF StaysNext, Refresh, Exit

\* With the rows as they were, a copy of which no more has gone than the lane
\* has dropped is as honest as before.
LEMMA StillHonest ==
  ASSUME rows' = rows, pending' = pending, dropped \subseteq dropped',
         NEW c, NEW d, Honest(c), d.cursor = c.cursor, d.gap = c.gap,
         d.stays \subseteq c.stays, c.stays \subseteq d.stays \cup dropped'
  PROVE  HonestLater(d)
  <1>1. Top' = Top
    BY DEF Top, RowTop
  <1> QED
    BY <1>1 DEF Honest, HonestLater, UpTo

\* The full set is what the rows say, up to the highest number committed.
LEMMA FullIsHonest ==
  ASSUME StaysTypeOK, NEW kind
  PROVE  Honest(ReplacedStays(Full(kind)))
  <1> DEFINE c == ReplacedStays(Full(kind))
  <1>1. list \in [stays : SUBSET Stays, cursor : SUBSET Numbers, gap : SUBSET Stays]
    BY StayTyped
  <1>2. c.stays = {s \in Stays : rows[s].open} /\ c.cursor = {RowTop} /\ c.gap = Gap(RowTop)
    BY <1>1 DEF ReplacedStays, Full
  <1>3. RowTop <= Top
    BY Tops
  <1>4. \A r \in pending : r.seq <= RowTop => r.stay \in Gap(RowTop)
    BY DEF Gap
  <1> HIDE DEF c
  <1> SUFFICES Honest(c)
    BY DEF c
  <1> QED
    BY <1>2, <1>3, <1>4 DEF Honest, UpTo

\* A page of changes takes every change up to the number it ends with.
LEMMA PageIsWhole ==
  ASSUME StaysTypeOK, NEW since \in Numbers,
         NEW s \in Stays \ Sent(since), rows[s].seq <= Last(since)
  PROVE  rows[s].seq <= since
  <1>1. rows \in [Stays -> [seq : Numbers, open : BOOLEAN]]
    BY StayTyped
  <1>2. Numbers \subseteq Nat /\ IsFiniteSet(Stays) /\ PageSize \in Nat
    BY StayConstants DEF Numbers
  <1>3. since \in Nat /\ (\A t \in Stays : rows[t].seq \in Nat) /\ rows[s].seq \in Nat
    BY <1>1, <1>2
  <1> SUFFICES ASSUME ~(rows[s].seq <= since) PROVE FALSE
    OBVIOUS
  <1>4. Last(since) # since
    BY <1>3
  <1>5. PICK t \in Sent(since) : Last(since) = rows[t].seq
    BY <1>4, Lasts
  <1>6. t \in Stays /\ Before(t, since) \subseteq Stays /\ Cardinality(Before(t, since)) < PageSize
    BY <1>5 DEF Sent, Changed, Before
  <1>7. Before(s, since) \subseteq Before(t, since)
    <2>1. rows[s].seq <= rows[t].seq
      BY <1>5
    <2>2. ASSUME NEW u \in Before(s, since) PROVE u \in Before(t, since)
      <3>1. u \in Stays /\ u \in Changed(since) /\ rows[u].seq < rows[s].seq
        BY DEF Before, Changed
      <3>2. rows[u].seq < rows[t].seq
        BY <1>3, <1>6, <2>1, <3>1
      <3> QED
        BY <3>1, <3>2 DEF Before
    <2> QED
      BY <2>2
  <1>8. IsFiniteSet(Before(t, since))
    BY <1>2, <1>6, FS_Subset
  <1>9. /\ Cardinality(Before(s, since)) \in Nat /\ Cardinality(Before(t, since)) \in Nat
        /\ Cardinality(Before(s, since)) <= Cardinality(Before(t, since))
    BY <1>7, <1>8, FS_Subset, FS_CardinalityType
  <1>10. Cardinality(Before(s, since)) < PageSize
    BY <1>2, <1>6, <1>9
  <1>11. s \in Changed(since)
    BY <1>3 DEF Changed
  <1> QED
    BY <1>10, <1>11 DEF Sent

\* A page of changes past the cursor of an honest list makes an honest list.
LEMMA DeltaIsHonest ==
  ASSUME StaysTypeOK, Honest(list), NEW since \in list.cursor
  PROVE  Honest(AppliedChanges(Delta(since)))
  <1> DEFINE c == AppliedChanges(Delta(since))
             sent == Sent(since)
             last == Last(since)
  <1>a. /\ list \in [stays : SUBSET Stays, cursor : SUBSET Numbers, gap : SUBSET Stays]
        /\ rows \in [Stays -> [seq : Numbers, open : BOOLEAN]]
    BY StayTyped
  <1>b. since \in Numbers /\ Numbers \subseteq Nat
    BY <1>a, StayConstants DEF Numbers
  <1>c. \A s \in Stays : rows[s].seq \in Nat
    BY <1>a, <1>b
  <1>d. /\ since <= Top /\ UpTo(list, since)
    BY DEF Honest
  <1>e. Delta(since).open = {s \in sent : rows[s].open} /\ Delta(since).closed = {s \in sent : ~rows[s].open}
        /\ Delta(since).cursor = last /\ Delta(since).gap = Gap(last)
    BY DEF Delta
  <1>1. /\ c.stays = (list.stays \cup {s \in sent : rows[s].open}) \ {s \in sent : ~rows[s].open}
        /\ c.cursor = {last}
        /\ c.gap = (list.gap \ ({s \in sent : rows[s].open} \cup {s \in sent : ~rows[s].open})) \cup Gap(last)
    <2> HIDE DEF sent, last
    <2> QED
      BY <1>a, <1>e DEF AppliedChanges
  <1>2. last <= Top
    <2>1. Top \in Nat /\ RowTop \in Nat /\ RowTop <= Top /\ \A s \in Stays : rows[s].seq <= RowTop
      BY <1>b, Tops
    <2>2. \A s \in Stays : rows[s].seq <= Top
      BY <1>c, <2>1
    <2>3. last = since \/ \E s \in sent : last = rows[s].seq
      BY <1>b, Lasts
    <2>4. sent \subseteq Stays
      BY DEF Sent, Changed
    <2> QED
      BY <1>d, <2>2, <2>3, <2>4
  <1>3. \A r \in pending : r.seq <= last => r.stay \in c.gap
    <2>1. \A r \in pending : r.seq <= last => r.stay \in Gap(last)
      BY DEF Gap
    <2> QED
      BY <1>1, <2>1
  <1>4. ASSUME NEW s \in Stays \ c.gap, rows[s].seq <= last
        PROVE  (s \in c.stays => rows[s].open) /\ (rows[s].open => s \in c.stays \cup dropped)
    <2>1. CASE s \in sent
      BY <1>1, <2>1
    <2>2. CASE s \notin sent
      <3>1. rows[s].seq <= since
        BY <1>b, <1>4, <2>2, PageIsWhole
      <3>2. s \notin list.gap
        BY <1>1, <1>4, <2>2
      <3>3. (s \in list.stays => rows[s].open) /\ (rows[s].open => s \in list.stays \cup dropped)
        BY <1>d, <3>1, <3>2 DEF UpTo
      <3> QED
        BY <1>1, <2>2, <3>3
    <2> QED
      BY <2>1, <2>2
  <1> HIDE DEF c, last
  <1> SUFFICES Honest(c)
    BY DEF c
  <1> QED
    BY <1>1, <1>2, <1>3, <1>4 DEF Honest, UpTo

\* Every copy stays honest: the list, the file, and the list as the answer
\* under way will leave it.
LEMMA CopyStep == StayInv /\ [StaysNext]_staysVars => CopyInv'
  <1> SUFFICES ASSUME StayInv, [StaysNext]_staysVars PROVE CopyInv'
    OBVIOUS
  <1>a. StaysTypeOK /\ ThreadInv /\ StaysTypeOK'
    BY StayTypeStep DEF StayInv
  <1>b. /\ list \in [stays : SUBSET Stays, cursor : SUBSET Numbers, gap : SUBSET Stays]
        /\ saved \subseteq [stays : SUBSET Stays, cursor : SUBSET Numbers, gap : SUBSET Stays]
        /\ answer \subseteq [kind : {"rules", "full", "delta"}, open : SUBSET Stays, closed : SUBSET Stays,
                             cursor : Numbers, gap : SUBSET Stays, more : BOOLEAN]
        /\ fee \subseteq Stays
    BY <1>a, StayTyped
  <1>c. Honest(list) /\ (\A c \in saved : Honest(c)) /\ \A a \in answer : Honest(Loaded(a))
    BY DEF StayInv, CopyInv, Copies
  <1>d. SUFFICES /\ Honest(list)' /\ (\A c \in saved' : Honest(c)')
                 /\ \A a \in answer' : Honest(Loaded(a))'
    BY DEF CopyInv, Copies
  <1>e. ASSUME rows' = rows, pending' = pending, dropped \subseteq dropped', NEW c, Honest(c) PROVE Honest(c)'
    BY <1>e, StillHonest, HonestNext
  <1>f. ASSUME NEW a, Loaded(a)' = Loaded(a), HonestLater(Loaded(a))
        PROVE  Honest(Loaded(a))'
    BY <1>f DEF HonestLater, Honest, UpTo
  <1>g. ASSUME NEW a, list' = list PROVE Loaded(a)' = Loaded(a)
    BY <1>g DEF Loaded, AppliedChanges, ReplacedStays
  <1>h. ASSUME rows' = rows, pending' = pending, dropped \subseteq dropped', list' = list, NEW a \in answer
        PROVE  Honest(Loaded(a))'
    <2>1. HonestLater(Loaded(a))
      BY <1>c, <1>h, StillHonest
    <2> QED
      BY <1>f, <1>g, <1>h, <2>1
  <1>1. CASE UNCHANGED staysVars
    <2>1. rows' = rows /\ pending' = pending /\ dropped' = dropped /\ list' = list /\ saved' = saved /\ answer' = answer
      BY <1>1 DEF staysVars, platform, thread
    <2> QED
      BY <1>c, <1>e, <1>h, <2>1
  <1>2. CASE Platform
    <2>1. list' = list /\ saved' = saved /\ answer' = answer /\ dropped' = dropped
      BY <1>2 DEF Platform, Opened, Updated, ClosedElsewhere, CloseTaken, Committed, thread
    <2>2. CASE rows' = rows /\ pending' = pending
      BY <1>c, <1>e, <1>h, <2>1, <2>2
    <2>3. CASE Moved
      <3>1. HonestLater(list) /\ \A c \in saved : HonestLater(c)
        BY <1>a, <1>b, <1>c, <2>1, <2>3, StaysHonest
      <3>2. Honest(list)' /\ \A c \in saved' : Honest(c)'
        BY <2>1, <3>1, HonestNext DEF Honest, HonestLater, UpTo
      <3>3. ASSUME NEW a \in answer PROVE Honest(Loaded(a))'
        <4>1. Loaded(a).cursor \subseteq Numbers
          BY <1>b DEF Loaded, AppliedChanges, ReplacedStays
        <4>2. HonestLater(Loaded(a))
          BY <1>a, <1>c, <2>1, <2>3, <4>1, StaysHonest
        <4> QED
          BY <1>f, <1>g, <2>1, <4>2
      <3> QED
        BY <2>1, <3>2, <3>3
    <2> QED
      BY <1>2, <2>2, <2>3, PlatformMoves
  <1>3. CASE Refresh
    <2>p. rows' = rows /\ pending' = pending /\ dropped' = dropped
      BY <1>3 DEF Refresh, Wake, DropRow, RulesRead, StaysRead, Unanswered, CursorRefused,
                  Dated, LoadStays, WriteFile, WriteRaises, ReadAnswered, platform
    <2>e. ASSUME NEW c, Honest(c) PROVE Honest(c)'
      BY <1>e, <2>e, <2>p
    <2>s. \A c \in saved : Honest(c)'
      BY <1>c, <2>e
    <2>1. CASE Wake \/ CursorRefused
      <3>1. answer' = {} /\ saved' = saved
        BY <1>a, <2>1 DEF Wake, CursorRefused, ThreadInv
      <3>2. list' = list \/ list'.cursor = {}
        BY <1>b, <2>1 DEF Wake, CursorRefused, Empty
      <3>3. Honest(list)'
        <4>1. CASE list' = list
          BY <1>c, <2>p, <4>1, StillHonest DEF Honest, HonestLater, UpTo
        <4>2. CASE list'.cursor = {}
          BY <4>2 DEF Honest
        <4> QED
          BY <3>2, <4>1, <4>2
      <3> QED
        BY <2>s, <3>1, <3>3
    <2>2. CASE DropRow \/ Unanswered \/ Dated \/ WriteRaises \/ WriteFile
      <3>1. list' = list /\ saved' \subseteq saved \cup {list} /\ answer' \subseteq answer
        BY <2>2 DEF DropRow, Unanswered, Dated, WriteRaises, WriteFile
      <3>2. HonestLater(list)
        BY <1>c, <2>p, StillHonest
      <3>3. Honest(list)'
        BY <3>1, <3>2 DEF Honest, HonestLater, UpTo
      <3>4. \A c \in saved' : Honest(c)'
        <4>1. \A c \in saved' : HonestLater(c)
          BY <1>c, <2>p, <3>1, <3>2, StillHonest
        <4> QED
          BY <4>1, HonestNext
      <3>5. \A a \in answer' : Honest(Loaded(a))'
        BY <1>h, <2>p, <3>1
      <3> QED
        BY <3>3, <3>4, <3>5
    <2>3. CASE RulesRead \/ StaysRead
      <3>1. list' = list /\ saved' = saved
        BY <2>3 DEF RulesRead, StaysRead, ReadAnswered
      <3>2. PICK a : answer' = {a} /\ Honest(Loaded(a))
        <4>1. CASE RulesRead
          <5>1. answer' = {Full("rules")}
            BY <4>1 DEF RulesRead, ReadAnswered
          <5>2. Loaded(Full("rules")) = ReplacedStays(Full("rules"))
            BY DEF Loaded, Full
          <5>3. Honest(Loaded(Full("rules")))
            BY <1>a, <5>2, FullIsHonest
          <5> QED
            BY <5>1, <5>3
        <4>2. CASE StaysRead
          <5>1. CASE list.cursor = {}
            <6>1. answer' = {Full("full")}
              BY <4>2, <5>1 DEF StaysRead, ReadAnswered
            <6>2. Loaded(Full("full")) = ReplacedStays(Full("full"))
              BY DEF Loaded, Full
            <6>3. Honest(Loaded(Full("full")))
              BY <1>a, <6>2, FullIsHonest
            <6> QED
              BY <6>1, <6>3
          <5>2. CASE list.cursor # {}
            <6>1. PICK since \in list.cursor : ReadAnswered(Delta(since))
              BY <4>2, <5>2 DEF StaysRead
            <6>2. answer' = {Delta(since)}
              BY <6>1 DEF ReadAnswered
            <6>3. Loaded(Delta(since)) = AppliedChanges(Delta(since))
              BY DEF Loaded, Delta
            <6>4. Honest(Loaded(Delta(since)))
              BY <1>a, <1>c, <6>3, DeltaIsHonest
            <6> QED
              BY <6>2, <6>4
          <5> QED
            BY <5>1, <5>2
        <4> QED
          BY <2>3, <4>1, <4>2
      <3>3. Honest(Loaded(a))'
        <4>1. HonestLater(Loaded(a))
          BY <2>p, <3>2, StillHonest
        <4> QED
          BY <1>f, <1>g, <3>1, <4>1
      <3>4. Honest(list)'
        <4>1. HonestLater(list)
          BY <1>c, <2>p, StillHonest
        <4> QED
          BY <3>1, <4>1 DEF Honest, HonestLater, UpTo
      <3> QED
        BY <2>s, <3>1, <3>2, <3>3, <3>4
    <2>4. ASSUME NEW a \in answer, LoadStays(a)
          PROVE  /\ Honest(list)' /\ (\A c \in saved' : Honest(c)')
                 /\ \A b \in answer' : Honest(Loaded(b))'
      <3>1. list' = Loaded(a) /\ saved' = saved /\ answer' = {}
        BY <2>4 DEF LoadStays, Loaded
      <3>2. HonestLater(Loaded(a))
        BY <1>c, <2>p, StillHonest
      <3>3. Honest(list)'
        BY <3>1, <3>2 DEF Honest, HonestLater, UpTo
      <3> QED
        BY <2>s, <3>1, <3>3
    <2> QED
      BY <1>3, <2>1, <2>2, <2>3, <2>4 DEF Refresh
  <1>4. CASE Exit
    <2>p. rows' = rows /\ pending' = pending /\ saved' = saved /\ answer' = answer
      BY <1>4 DEF Exit, Priced, BacksUp, GoesThrough, platform, thread
    <2>1. CASE list' = list /\ dropped' = dropped
      BY <1>c, <1>e, <1>h, <2>1, <2>p
    <2>2. CASE GoesThrough
      <3>1. list' = WithoutIt /\ dropped' = dropped \cup fee
        BY <2>2 DEF GoesThrough
      <3>2. list'.stays = list.stays \ fee /\ list'.cursor = list.cursor /\ list'.gap = list.gap
        BY <1>b, <3>1 DEF WithoutIt
      <3>3. Honest(list)'
        <4>1. HonestLater(list')
          BY <1>c, <2>p, <3>1, <3>2, StillHonest
        <4> QED
          BY <4>1 DEF Honest, HonestLater, UpTo
      <3>4. \A c \in saved' : Honest(c)'
        BY <1>c, <1>e, <2>p, <3>1
      <3>5. ASSUME NEW a \in answer PROVE Honest(Loaded(a))'
        <4>1. /\ Loaded(a)'.stays \subseteq Loaded(a).stays /\ Loaded(a).stays \subseteq Loaded(a)'.stays \cup fee
              /\ Loaded(a)'.cursor = Loaded(a).cursor /\ Loaded(a)'.gap = Loaded(a).gap
          <5>1. list' \in [stays : SUBSET Stays, cursor : SUBSET Numbers, gap : SUBSET Stays]
            BY <1>b, <3>1 DEF WithoutIt
          <5>2. CASE a.kind = "delta"
            BY <1>b, <3>2, <5>1, <5>2 DEF Loaded, AppliedChanges
          <5>3. CASE a.kind # "delta"
            BY <1>b, <3>2, <5>1, <5>3 DEF Loaded, ReplacedStays
          <5> QED
            BY <5>2, <5>3
        <4>2. HonestLater(Loaded(a)')
          BY <1>c, <2>p, <3>1, <4>1, StillHonest
        <4> QED
          BY <4>2 DEF Honest, HonestLater, UpTo
      <3> QED
        BY <2>p, <3>3, <3>4, <3>5
    <2>3. ASSUME NEW car \in CarsHere, Priced(car) PROVE list' = list /\ dropped' = dropped
      BY <2>3 DEF Priced, thread
    <2>4. CASE BacksUp
      BY <2>1, <2>4 DEF BacksUp, thread
    <2> QED
      BY <1>4, <2>1, <2>2, <2>3, <2>4 DEF Exit
  <1>5. CASE StopsAndStarts
    <2>1. /\ rows' = rows /\ pending' = pending /\ dropped' = dropped /\ answer' = {}
          /\ \/ list' = Empty /\ saved' = saved
             \/ \E c \in saved : list' \in {c, Empty} /\ saved' = {list'}
      BY <1>5 DEF StopsAndStarts, platform
    <2>2. HonestLater(Empty) /\ \A c \in saved : HonestLater(c)
      BY <1>c, <2>1, StillHonest DEF HonestLater, Empty
    <2>3. HonestLater(list') /\ \A c \in saved' : HonestLater(c)
      BY <2>1, <2>2
    <2>4. Honest(list)' /\ \A c \in saved' : Honest(c)'
      BY <2>3, HonestNext DEF Honest, HonestLater, UpTo
    <2> QED
      BY <2>1, <2>4
  <1> QED
    BY <1>1, <1>2, <1>3, <1>4, <1>5 DEF StaysNext

LEMMA StaysInitially == StaysInit => StayInv
  <1> SUFFICES ASSUME StaysInit PROVE StayInv
    OBVIOUS
  <1>a. /\ rows = [s \in Stays |-> [seq |-> 0, open |-> FALSE]]
        /\ pending = {} /\ list = Empty /\ saved = {} /\ reading = "started" /\ answer = {} /\ page = 0
        /\ fee = {} /\ queue = {} /\ dropped = {} /\ reread = {}
    BY DEF StaysInit
  <1>b. /\ Seqs = Numbers /\ 0 \in Numbers /\ MaxSeq \in Nat /\ Cardinality(Stays) \in Nat /\ IsFiniteSet(Stays)
        /\ MaxPages \in Nat \ {0}
    BY StayConstants DEF Numbers
  <1>1. StaysTypeOK
    <2>1. [seq |-> 0, open |-> FALSE] \in Rows
      BY <1>b DEF Rows
    <2>2. rows \in [Stays -> Rows]
      BY <1>a, <2>1
    <2>3. Empty \in Caches
      BY DEF Empty, Caches, Opt
    <2>4. page \in 0..MaxPages
      BY <1>a, <1>b
    <2> QED
      BY <1>a, <2>2, <2>3, <2>4 DEF StaysTypeOK, AtMostOne
  <1>2. PlatformInv
    <2>1. \A s \in Stays : rows[s].seq = 0 /\ ~rows[s].open
      BY <1>a
    <2>2. Shut = {} /\ Cardinality(Shut) = 0
      <3>1. Shut = {}
        BY <1>a, <2>1 DEF Shut
      <3>2. Cardinality({}) = 0
        BY FS_EmptySet
      <3> QED
        BY <3>1, <3>2
    <2>3. Top = 0
      BY <1>1, <1>a, <2>1, Tops
    <2> QED
      BY <1>a, <1>b, <2>1, <2>2, <2>3 DEF PlatformInv
  <1>3. ThreadInv
    BY <1>a, <1>b DEF ThreadInv
  <1>4. CopyInv
    BY <1>a DEF CopyInv, Copies, Honest, Empty
  <1>5. DroppedStaysAreGone
    BY <1>a DEF DroppedStaysAreGone
  <1> QED
    BY <1>1, <1>2, <1>3, <1>4, <1>5 DEF StayInv

LEMMA StayInvariance == StaysSpec => []StayInv
  <1>1. StayInv /\ [StaysNext]_staysVars => StayInv'
    <2> SUFFICES ASSUME StayInv, [StaysNext]_staysVars PROVE StayInv'
      OBVIOUS
    <2> QED
      BY StayTypeStep, PlatformStep, ThreadStep, CopyStep, DroppedStep DEF StayInv
  <1> QED
    BY <1>1, StaysInitially, PTL DEF StaysSpec

\* The stays the exit prices from: the copy in memory and the one in the file
\* say of every stay whose change their cursor has passed what the platform's
\* rows say, but for changes committed late and stays closed here, and a stay
\* dropped here comes back only with an answer or the file: for any stays, any
\* size and number of pages, whatever read, write or process stops half way.
THEOREM ListIsHonest == StaysSpec => []ListHonest
  <1>1. StayInv => ListHonest
    <2> SUFFICES ASSUME StayInv PROVE ListHonest
      OBVIOUS
    <2>1. CursorHonest
      BY DEF StayInv, CopyInv, Copies, Honest, CursorHonest
    <2> QED
      BY <2>1 DEF StayInv, ListHonest
  <1> QED
    BY <1>1, StayInvariance, PTL
==============================================================================
