------------------------------ MODULE ExitPricing ------------------------------
(***************************************************************************)
(* The fee an exit works out from the cache, and whether the platform may  *)
(* take it for the stay (src/src/lane_controller/exit_pricing.py, and what *)
(* decision.py writes meanwhile).                                          *)
(*                                                                         *)
(* The lane thread prices a car field by field from the cache, with no     *)
(* lock.  The refresh thread meanwhile loads an answer, or wipes a cache   *)
(* past its bound, field by field too, and writes the file in the middle   *)
(* of a load; the process may stop at any moment and start again from that *)
(* file.  The decision travels on the stay's close, and the platform takes *)
(* the fee if it was made in the garage's class and its facts about the    *)
(* tax sets are the garage's.                                              *)
(*                                                                         *)
(* A class is a version of it, a tax set the moment it takes effect; of the *)
(* plans and the currency there is only whether the cache has them, since  *)
(* the platform takes any plan the garage holds.  Whether a register       *)
(* covers the car and which stay is its own are DecisionCache's and        *)
(* StayCache's, and a choice here.                                         *)
(***************************************************************************)
EXTENDS Naturals, Sequences, FiniteSets, FiniteSetsExt

CONSTANTS
  MaxEdits,    \* bound: how often the garage changes a plan, its class or its tax sets
  MaxRestarts  \* bound: how often the process stops and starts again

ASSUME PricingAssumption == MaxEdits \in Nat /\ MaxRestarts \in Nat

VARIABLES
  garage,    \* the platform: what the garage has now
  cache,     \* DecisionCache: the fields the exit reads
  file,      \* the row of the cache file
  refresh,   \* the refresh thread: the fields it has still to write, and with what
  lane,      \* the lane thread: where it is in `price_exit`, and what it has read
  close,     \* the decision on the close, until the platform has judged it
  mistaken,  \* history: of the fee judged last, if the platform took it and it was of
             \* another class or other tax sets, the fields that read differently the
             \* second time
  edits,
  restarts

vars == <<garage, cache, file, refresh, lane, close, mistaken, edits, restarts>>

------------------------------------------------------------------------------
Versions == 0..(MaxEdits + 1)              \* 0: none
Classes  == 0..2                           \* 0: none
Sets     == SUBSET (1..(MaxEdits + 1))

Facts ==
  [dated : {"none", "fresh", "past"}, plans : BOOLEAN, class : Classes, sets : Sets, currency : BOOLEAN]

Nothing == [dated |-> "none", plans |-> FALSE, class |-> 0, sets |-> {}, currency |-> FALSE]

Resting  == [todo |-> <<>>, with |-> Nothing]
NoLane   == [pc |-> "idle", class |-> 0, plans |-> FALSE, quoted |-> 0, used |-> {}]

Init ==
  /\ garage = [dated |-> "fresh", plans |-> TRUE, class |-> 1, sets |-> {1}, currency |-> TRUE]
  /\ cache = Nothing /\ file = Nothing
  /\ refresh = Resting /\ lane = NoLane
  /\ close = {} /\ mistaken = {}
  /\ edits = 0 /\ restarts = 0

------------------------------------------------------------------------------
(* The garage.  Its class goes over to the other and may come back.  Tax   *)
(* sets are announced ahead; the last one may be put right.                *)

Newest(sets) == Max(sets)

Edit ==
  /\ edits < MaxEdits /\ edits' = edits + 1
  /\ \/ garage' = [garage EXCEPT !.class = 3 - @]
     \/ garage' = [garage EXCEPT !.sets = @ \cup {Newest(@) + 1}]
     \/ garage' = [garage EXCEPT !.sets = (@ \ {Newest(@)}) \cup {Newest(@) + 1}]
  /\ UNCHANGED <<cache, file, refresh, lane, close, mistaken, restarts>>

\* Time passes: what is dated grows old, in memory and in the file.
Old(f) == [f EXCEPT !.dated = IF @ = "fresh" THEN "past" ELSE @]

Ages ==
  /\ cache.dated = "fresh" \/ file.dated = "fresh"
  /\ cache' = Old(cache) /\ file' = Old(file)
  /\ UNCHANGED <<garage, refresh, lane, close, mistaken, edits, restarts>>

------------------------------------------------------------------------------
(* The refresh thread.  Both orders are the source's; "file" is `_persist`. *)

LoadOrder  == <<"dated", "file", "plans", "class", "sets", "currency", "file">>
ClearOrder == <<"dated", "plans", "class", "sets", "currency", "file">>

Idle == refresh.todo = <<>>

\* A rules read is answered.
Answered ==
  /\ Idle
  /\ refresh' = [todo |-> LoadOrder, with |-> garage]
  /\ UNCHANGED <<garage, cache, file, lane, close, mistaken, edits, restarts>>

\* The tick finds the cache past its bound.
Expires ==
  /\ Idle /\ cache.dated = "past"
  /\ refresh' = [todo |-> ClearOrder, with |-> Nothing]
  /\ UNCHANGED <<garage, cache, file, lane, close, mistaken, edits, restarts>>

Writes ==
  /\ ~Idle
  /\ LET f == Head(refresh.todo)
     IN  IF f = "file"
         THEN file' = cache /\ UNCHANGED cache
         ELSE cache' = [cache EXCEPT ![f] = refresh.with[f]] /\ UNCHANGED file
  /\ refresh' = IF Len(refresh.todo) = 1 THEN Resting ELSE [refresh EXCEPT !.todo = Tail(@)]
  /\ UNCHANGED <<garage, lane, close, mistaken, edits, restarts>>

\* A write of the file that raises ends what the thread was at (runner.py).
FileRaises ==
  /\ ~Idle /\ Head(refresh.todo) = "file"
  /\ refresh' = Resting
  /\ UNCHANGED <<garage, cache, file, lane, close, mistaken, edits, restarts>>

------------------------------------------------------------------------------
(* `price_exit`, one read of the cache at a time.                          *)

At(pc) == lane.pc = pc
Goes(pc) == lane' = [lane EXCEPT !.pc = pc]

\* An answer without a fee: covered, or one the platform settles at the close.
Ends == lane' = NoLane

\* The fault: of the tax sets the record says how many, and no more.
HowMany(sets) == [count |-> Cardinality(sets), newest |-> 0]
\* tax_sets_held: how many, and the newest among them.
TaxSetsHeld(sets) == [count |-> Cardinality(sets), newest |-> Newest(sets)]

\* is_stale, asked once for the moment the pricing begins.
Asks ==
  /\ At("idle") /\ close = {}
  /\ IF cache.dated = "fresh" THEN Goes("registers") ELSE UNCHANGED lane
  /\ UNCHANGED close

LooksUp ==
  /\ \/ At("registers") /\ (Ends \/ Goes("stays"))
     \/ At("stays") /\ (Ends \/ Goes("taxed"))
     \/ At("taxed") /\ cache.sets = {} /\ Ends
     \/ At("taxed") /\ cache.sets # {} /\ Goes("class")
  /\ UNCHANGED close

\* charge: what the engine is handed, in the order it is read.  The tax is taken
\* in the currency of the quote.
Charges ==
  /\ \/ At("class") /\ lane' = [lane EXCEPT !.class = cache.class, !.pc = "plans"]
     \/ At("plans") /\ lane' = [lane EXCEPT !.plans = cache.plans, !.pc = "currency"]
     \/ At("currency") /\ cache.currency /\ Goes("quoted")
     \/ At("currency") /\ ~cache.currency /\ Ends
     \* Of a class that is none the engine may say either.
     \/ At("quoted") /\ lane.plans /\ lane' = [lane EXCEPT !.quoted = cache.class, !.pc = "tax"]
     \/ At("quoted") /\ (~lane.plans \/ cache.class = 0) /\ Ends
     \/ At("tax") /\ cache.sets # {} /\ lane' = [lane EXCEPT !.used = cache.sets, !.pc = "held"]
     \/ At("tax") /\ cache.sets = {} /\ Ends
  /\ UNCHANGED close

\* The record says what the cache holds, read again; of no sets there is no
\* newest, and the turn ends in an error.
Records ==
  /\ At("held") /\ Ends
  /\ IF cache.sets = {}
     THEN UNCHANGED close
     ELSE close' = {[class |-> lane.class, quoted |-> lane.quoted, used |-> lane.used,
                     listed |-> cache.sets, held |-> TaxSetsHeld(cache.sets)]}

Price ==
  /\ Asks \/ LooksUp \/ Charges \/ Records
  /\ UNCHANGED <<garage, cache, file, refresh, mistaken, edits, restarts>>

------------------------------------------------------------------------------
\* The fields the lane read twice, and not the same.
Torn(d) ==
  (IF d.quoted = d.class THEN {} ELSE {"class"}) \cup (IF d.used = d.listed THEN {} ELSE {"sets"})

\* By what the decision says of itself, the platform takes its fee.
Consumed(d) == d.class = garage.class /\ d.held = TaxSetsHeld(garage.sets)

\* The close reaches the platform (the outbox), and the fee is taken or not.
Judged ==
  /\ close # {} /\ close' = {}
  /\ mistaken' =
       {Torn(d) : d \in {x \in close : Consumed(x) /\ (x.used # garage.sets \/ x.quoted # garage.class)}}
  /\ UNCHANGED <<garage, cache, file, refresh, lane, edits, restarts>>

\* The process stops and starts from the file.  A file past its bound, or
\* undated, is not taken back; what the outbox holds is.
Restart ==
  /\ restarts < MaxRestarts /\ restarts' = restarts + 1
  /\ cache' = IF file.dated = "fresh" THEN file ELSE Nothing
  /\ file' = IF file.dated = "fresh" THEN file ELSE Nothing
  /\ refresh' = Resting /\ lane' = NoLane
  /\ UNCHANGED <<garage, close, mistaken, edits>>

Next ==
  \/ Edit \/ Ages
  \/ Answered \/ Expires \/ Writes \/ FileRaises
  \/ Price \/ Judged \/ Restart

Spec == Init /\ [][Next]_vars

------------------------------------------------------------------------------
TaxFacts == [count : Versions, newest : Versions]

TypeOK ==
  /\ {garage, cache, file, refresh.with} \subseteq Facts
  /\ Len(refresh.todo) <= Len(LoadOrder)
  /\ lane.used \in Sets /\ {lane.class, lane.quoted} \subseteq Classes /\ lane.plans \in BOOLEAN
  /\ Cardinality(close) <= 1
  /\ close \subseteq [class : Classes, quoted : Classes, used : Sets, listed : Sets, held : TaxFacts]
  /\ mistaken \subseteq SUBSET {"class", "sets"} /\ edits \in 0..MaxEdits /\ restarts \in 0..MaxRestarts

\* A fee the platform takes from the lane was worked out in the class the
\* garage has, and taxed on the tax sets it has, though the cache may be old,
\* half loaded, half wiped, or a file written in the middle of a load: the two
\* facts about the sets tell (exit_pricing.py price_exit, tax_sets_held).  Not
\* so where the class, or the sets, had two values in one pricing: the fee is
\* of one, and the record says the other.  (The type invariant is checked with
\* it.)
ConsumedAtTheGaragesTax == TypeOK /\ {} \notin mistaken

\* What exit_pricing.py:52-57 says: a fee the platform takes was taxed with the
\* garage's current tax sets, and `tax_sets_held` is how it tells.  Not so of
\* the code, though the class was the garage's: ExitPricingTorn.cfg.
TaxSetsTell == {"sets"} \notin mistaken

================================================================================
