------------------------------ MODULE LaneService ------------------------------
(***************************************************************************)
(* The turn of the lane thread up to the decision it publishes, and the    *)
(* read surface that answers about it (src/src/lane_controller:            *)
(* controller.py run_once, service.py, and the read window of events.py).  *)
(*                                                                         *)
(* The lane thread waits for a vehicle, samples the loops before the gate, *)
(* holds while a second vehicle is too close behind, arms, decides, and    *)
(* publishes the decision field by field.  Meanwhile a consumer makes one  *)
(* GET at a time on a thread of the HTTP server, and reads those fields,   *)
(* the read window and the loops without the lane's knowledge; the health  *)
(* page asks the identification service, which may never answer.  The      *)
(* three pages share nothing with one another, so a behaviour has one      *)
(* consumer, of one of them.                                               *)
(*                                                                         *)
(* What a decision is, the vend and the crossing are in Opening,           *)
(* DecisionCache and LoopBoard; the outbox beside the window is in Outbox. *)
(* Of a decision there is only its number, which is also its time; of an   *)
(* event only its number; of a dwell, whether it is being measured.        *)
(***************************************************************************)
EXTENDS Naturals, Sequences, FiniteSets, FiniteSetsExt, SequencesExt

CONSTANTS
  Depth,        \* `history`: how many events the read window holds
  MaxArrivals,  \* bound: how many vehicles come, for each of the consumers
  MaxRestarts   \* bound: how often the process stops and starts again

Consumers == {"events", "state", "health"}

ASSUME LaneServiceAssumption ==
  Depth \in Nat \ {0} /\ MaxArrivals \in [Consumers -> Nat] /\ MaxRestarts \in Nat

VARIABLES
  loop,       \* the two loops before the gate: whether each reads occupied
  reported,   \* whether the driver has reported the vehicle on the arming loop
  arrivals,   \* how many vehicles have come
  since,      \* `_arming_occupied_since`, `_deactivate_occupied_since`: set or None
  held,       \* `_suppressed_since`: whether a held interval is open
  lane,       \* where the lane thread is
  sample,     \* where each thread is in its sampling of a loop
  shown,      \* what the lane publishes about its last decision
  cursor,     \* EventQueue._cursor
  history,    \* EventQueue._history
  get,        \* the GET being answered, and what it has read so far
  identity,   \* `_identity_read`: whether the last read of that service is still out
  asking,     \* how many threads are asking that service
  consumer,   \* which page is read
  saved,      \* the consumer: the cursor it will ask from
  earlier,    \* history: that cursor is of an earlier run of the process
  missed,     \* history: an event of this run was left out and nothing said so
  restarts

lanes == <<since, held, lane, shown, cursor, history>>
reads == <<get, identity, asking>>
world == <<loop, reported, arrivals, restarts>>
feed  == <<consumer, saved, earlier, missed>>
vars  == <<lanes, sample, reads, world, feed>>

------------------------------------------------------------------------------
Loops   == {"arming", "deactivate"}
Threads == {"lane", "get"}
Cases   == UNION {0..MaxArrivals[c] : c \in Consumers}   \* 0 is None
Opt(S)  == {{}} \cup {{x} : x \in S}

Fees == [at : Cases, of : Cases]

Resting == [pc |-> "wait", next |-> "wait", turn |-> "idle"]

Blank == [decision |-> 0, at |-> 0, screen |-> {}, transit |-> FALSE, transitAt |-> FALSE]

NoGet == [route |-> "none", step |-> "served", at |-> 0, transit |-> FALSE, fee |-> {},
          cursor |-> 0, items |-> {}, own |-> FALSE, answer |-> "unknown"]

Init ==
  /\ loop = [l \in Loops |-> FALSE]
  /\ reported = FALSE /\ arrivals = 0 /\ restarts = 0
  /\ since = [l \in Loops |-> FALSE]
  /\ held = FALSE
  /\ lane = Resting
  /\ sample = [t \in Threads |-> "none"]
  /\ shown = Blank
  /\ cursor = 0 /\ history = <<>>
  /\ get = NoGet /\ identity = "free" /\ asking = 0
  /\ consumer \in Consumers
  /\ saved = 0 /\ earlier = FALSE /\ missed = FALSE

------------------------------------------------------------------------------
(* The vehicles.  A driver reports each one on the arming loop once.       *)

Arrives ==
  /\ ~loop["arming"] /\ arrivals < MaxArrivals[consumer]
  /\ loop' = [loop EXCEPT !["arming"] = TRUE]
  /\ reported' = FALSE
  /\ arrivals' = arrivals + 1
  /\ UNCHANGED <<restarts, lanes, sample, reads, feed>>

Leaves ==
  /\ loop["arming"]
  /\ loop' = [loop EXCEPT !["arming"] = FALSE]
  /\ UNCHANGED <<reported, arrivals, restarts, lanes, sample, reads, feed>>

\* Another vehicle comes too close behind it, or backs off.
Follows ==
  /\ loop' = [loop EXCEPT !["deactivate"] = ~@]
  /\ UNCHANGED <<reported, arrivals, restarts, lanes, sample, reads, feed>>

------------------------------------------------------------------------------
(* Sampling a loop, by the lane thread and by the health page: its level   *)
(* is read, then the start of the occupied run, then the start again.      *)

Level(t, l) ==
  /\ sample[t] = "none"
  /\ sample' = [sample EXCEPT ![t] = IF loop[l] THEN "occupied" ELSE "clear"]
  /\ UNCHANGED since

Run(t, l) ==
  \/ /\ sample[t] = "clear"
     /\ since' = [since EXCEPT ![l] = FALSE]
     /\ sample' = [sample EXCEPT ![t] = "done"]
  \/ /\ sample[t] = "occupied" /\ ~since[l]
     /\ since' = [since EXCEPT ![l] = TRUE]
     /\ sample' = [sample EXCEPT ![t] = "done"]
  \/ /\ sample[t] = "occupied" /\ since[l]
     /\ sample' = [sample EXCEPT ![t] = "dwell"]
     /\ UNCHANGED since

\* The subtraction: the other thread may have put None there since.
Dwell(t, l) ==
  /\ sample[t] = "dwell"
  /\ sample' = [sample EXCEPT ![t] = IF since[l] THEN "done" ELSE "raised"]
  /\ UNCHANGED since

Observe(t, l) == Level(t, l) \/ Run(t, l) \/ Dwell(t, l)

------------------------------------------------------------------------------
(* The lane thread.                                                        *)

At(pc) == lane.pc = pc

\* Record an event, and go on at `pc`.
Recording(pc) == lane' = [Resting EXCEPT !.pc = "count", !.next = pc]

Goes(pc) == lane' = [Resting EXCEPT !.pc = pc]

\* EventQueue.record, under `_state`: the cursor, then the window.
Count ==
  /\ At("count")
  /\ cursor' = cursor + 1
  /\ lane' = [lane EXCEPT !.pc = "append"]
  /\ UNCHANGED <<since, held, shown, history, sample, reads, world, feed>>

\* The fault: the window keeps one more than it says it does.
OneMore(w) == IF Len(w) > Depth + 1 THEN Tail(w) ELSE w
\* A deque with a bound lets go of its oldest.
Bounded(w) == IF Len(w) > Depth THEN Tail(w) ELSE w

Windowed ==
  /\ At("append")
  /\ history' = Bounded(Append(history, cursor))
  /\ Goes(lane.next)
  /\ UNCHANGED <<since, held, shown, cursor, sample, reads, world, feed>>

Arrival == loop["arming"] /\ ~reported

\* wait_for_vehicle returns, with a vehicle or without one.
Waited ==
  /\ At("wait")
  /\ lane' = [lane EXCEPT !.pc = "arming", !.turn = IF Arrival THEN "arrival" ELSE "idle"]
  /\ reported' = (reported \/ Arrival)
  /\ UNCHANGED <<loop, arrivals, restarts, since, held, shown, cursor, history, sample, reads, feed>>

Sampling ==
  /\ lane.pc \in Loops
  /\ Observe("lane", lane.pc)
  /\ UNCHANGED <<held, lane, shown, cursor, history, reads, world, feed>>

\* A turn that raises is over (LaneRunner.lane_turn).
Sampled ==
  /\ lane.pc \in Loops
  /\ \/ /\ sample["lane"] = "raised" /\ Goes("wait")
     \/ /\ sample["lane"] = "done" /\ lane.pc = "arming"
        /\ lane' = [lane EXCEPT !.pc = "deactivate"]
     \/ /\ sample["lane"] = "done" /\ lane.pc = "deactivate"
        /\ Goes(IF lane.turn = "arrival" THEN "close" ELSE "idle")
  /\ sample' = [sample EXCEPT !["lane"] = "none"]
  /\ UNCHANGED <<since, held, shown, cursor, history, reads, world, feed>>

\* A vehicle was reported: hold it, or end its hold and arm.
Arrived ==
  /\ At("close")
  /\ \/ /\ loop["deactivate"] /\ held
        /\ Goes("wait") /\ UNCHANGED held
     \/ /\ loop["deactivate"] /\ ~held
        /\ held' = TRUE /\ Recording("wait")
     \/ /\ ~loop["deactivate"] /\ held
        /\ held' = FALSE /\ Recording("arm")
     \/ /\ ~loop["deactivate"] /\ ~held
        /\ Goes("arm") /\ UNCHANGED held
  /\ UNCHANGED <<since, shown, cursor, history, sample, reads, world, feed>>

\* The fault: a hold is looked at when a vehicle is reported, and not again.
OnArrivalOnly == FALSE
\* Whether an idle turn reads the loops of a hold.
LooksAgain == held

\* An idle turn: the vehicle held has left, or is looked at again.
Idle ==
  /\ At("idle")
  /\ \/ /\ LooksAgain /\ ~loop["arming"]
        /\ held' = FALSE /\ Recording("wait")
     \/ /\ LooksAgain /\ loop["arming"]
        /\ Goes("again") /\ UNCHANGED held
     \/ /\ ~LooksAgain
        /\ Goes("wait") /\ UNCHANGED held
  /\ UNCHANGED <<since, shown, cursor, history, sample, reads, world, feed>>

IdleAgain ==
  /\ At("again")
  /\ IF loop["deactivate"]
     THEN Goes("wait") /\ UNCHANGED held
     ELSE held' = FALSE /\ Recording("arm")
  /\ UNCHANGED <<since, shown, cursor, history, sample, reads, world, feed>>

\* The second arming loop agrees, or the lane does not arm and says why.
Arm ==
  /\ At("arm")
  /\ Recording("decide") \/ Recording("wait")
  /\ UNCHANGED <<since, held, shown, cursor, history, sample, reads, world, feed>>

\* handle_arrival up to the record of the decision.  The car before it may
\* have left its exit case: it is dropped, and the screen with it.
Decide ==
  /\ At("decide")
  /\ \/ UNCHANGED shown
     \/ shown' = [shown EXCEPT !.screen = {}]
  /\ Recording("decided")
  /\ UNCHANGED <<since, held, cursor, history, sample, reads, world, feed>>

\* The fault: the screen is noted before the decision's time is.
ScreenFirst == [decided |-> "screen", screen |-> "stamped", stamped |-> "vend"]
\* The order in which handle_arrival publishes.
After == [decided |-> "stamped", stamped |-> "screen", screen |-> "vend"]

\* What is noted of a decision's record: nothing, before there is a time.
Noted == IF shown.at = 0 THEN {} ELSE {[at |-> shown.at, of |-> shown.decision]}

\* The decision is published, then its time; then what goes on the screen: its
\* record, nothing, or what was there (no vehicle, or an entry).
Publish ==
  /\ lane.pc \in DOMAIN After /\ Goes(After[lane.pc])
  /\ \/ /\ At("decided")
        /\ shown' = [shown EXCEPT !.decision = @ + 1]
     \/ /\ At("stamped")
        /\ shown' = [shown EXCEPT !.at = shown.decision]
     \/ /\ At("screen")
        /\ \/ shown' = [shown EXCEPT !.screen = Noted]
           \/ shown' = [shown EXCEPT !.screen = {}]
           \/ UNCHANGED shown
  /\ UNCHANGED <<since, held, cursor, history, sample, reads, world, feed>>

\* The barrier does not move; or it does, and the transit is published, its
\* state and then its time.
Transit ==
  /\ \/ At("vend") /\ Goes("wait") /\ UNCHANGED shown
     \/ At("vend") /\ Goes("transit") /\ shown' = [shown EXCEPT !.transit = TRUE]
     \/ At("transit") /\ Goes("wait") /\ shown' = [shown EXCEPT !.transitAt = TRUE]
  /\ UNCHANGED <<since, held, cursor, history, sample, reads, world, feed>>

\* The car's close is recorded, or its case let go of.
ScreenCleared ==
  /\ shown.screen # {}
  /\ shown' = [shown EXCEPT !.screen = {}]
  /\ UNCHANGED <<since, held, lane, cursor, history, sample, reads, world, feed>>

LaneStep ==
  \/ Waited \/ Sampling \/ Sampled \/ Arrived \/ Idle \/ IdleAgain \/ Arm
  \/ Count \/ Windowed \/ Decide \/ Publish \/ Transit

------------------------------------------------------------------------------
(* A GET.  A page that raises is not served: do_GET answers nothing.       *)

Answering(route, step) == get.route = route /\ get.step = step

\* The GET's next step, with what this one read.
Reads(g, step) == get' = [g EXCEPT !.step = step]

New == [NoGet EXCEPT !.route = consumer]

Begin ==
  /\ get.step \in {"served", "raised"}
  /\ \/ consumer = "events" /\ Reads(New, "cursor")
     \/ consumer = "state"  /\ Reads(New, "decision")
     \/ consumer = "health" /\ Reads(New, "identity")
  /\ UNCHANGED <<lanes, sample, identity, asking, world, feed>>

\* LaneService.state: the fields one by one, and no lock.
State ==
  /\ \/ /\ Answering("state", "decision")
        /\ Reads(get, IF shown.decision # 0 THEN "at" ELSE "transit")
     \/ /\ Answering("state", "at")
        /\ Reads([get EXCEPT !.at = shown.at], "transit")
     \/ /\ Answering("state", "transit")
        /\ Reads([get EXCEPT !.transit = shown.transit], "transitAt")
     \/ /\ Answering("state", "transitAt")
        /\ Reads([get EXCEPT !.transit = FALSE],
                 IF get.transit = shown.transitAt THEN "fee" ELSE "raised")
     \/ /\ Answering("state", "fee")
        /\ Reads([get EXCEPT !.fee = shown.screen], "served")
  /\ UNCHANGED <<lanes, sample, identity, asking, world, feed>>

\* LaneService.events: the cursor, a copy of the window under the lock `record`
\* takes, then the oldest still held.
EventsCursor ==
  /\ Answering("events", "cursor")
  /\ Reads([get EXCEPT !.cursor = cursor], "items")
  /\ UNCHANGED <<lanes, sample, identity, asking, world, feed>>

\* The fault: the window is copied while an event is being recorded.
AnyTime == TRUE
\* EventQueue._state is free.
Unlocked == ~At("append")

EventsItems ==
  /\ Answering("events", "items") /\ Unlocked
  /\ Reads([get EXCEPT !.items = {n \in Range(history) : n > saved}], "oldest")
  /\ UNCHANGED <<lanes, sample, identity, asking, world, feed>>

Reset == saved > get.cursor \/ (history # <<>> /\ saved + 1 < Head(history))

\* The page; the consumer keeps its cursor.
EventsPage ==
  /\ Answering("events", "oldest")
  /\ get' = [NoGet EXCEPT !.route = "events"]
  /\ saved' = get.cursor
  /\ earlier' = FALSE
  /\ missed' = (missed \/ (~earlier /\ ~Reset /\ ~((saved + 1)..get.cursor \subseteq get.items)))
  /\ UNCHANGED <<lanes, sample, identity, asking, world, consumer>>

\* The fault: a read is begun whatever became of the last one.
Regardless == FALSE
\* The last read of the identification service has not come back.
Outstanding == identity = "out"

\* LaneService._bounded_identity_health: one read at a time, and no longer
\* than the lane's own bound.
IdentityAsked ==
  /\ Answering("health", "identity")
  /\ IF Outstanding
     THEN Reads(get, "arming") /\ UNCHANGED <<identity, asking>>
     ELSE /\ Reads([get EXCEPT !.own = TRUE], "waiting")
          /\ identity' = "out"
          /\ asking' = asking + 1
  /\ UNCHANGED <<lanes, sample, world, feed>>

IdentityRead ==
  /\ Answering("health", "waiting")
  /\ \/ identity = "free" /\ Reads([get EXCEPT !.answer = "asked"], "arming")
     \/ Reads(get, "arming")
  /\ UNCHANGED <<lanes, sample, identity, asking, world, feed>>

\* The service answers, or its read raises; or neither ever comes.
IdentityAnswers ==
  /\ asking > 0
  /\ identity' = "free"
  /\ asking' = asking - 1
  /\ UNCHANGED <<lanes, sample, get, world, feed>>

\* The health page samples both loops before the gate itself.
HealthSampling ==
  /\ get.route = "health" /\ get.step \in Loops
  /\ Observe("get", get.step)
  /\ UNCHANGED <<held, lane, shown, cursor, history, reads, world, feed>>

HealthSampled ==
  /\ get.route = "health" /\ get.step \in Loops /\ sample["get"] \in {"done", "raised"}
  /\ Reads(get, CASE sample["get"] = "raised" -> "raised"
                   [] get.step = "arming"     -> "deactivate"
                   [] OTHER                   -> "served")
  /\ sample' = [sample EXCEPT !["get"] = "none"]
  /\ UNCHANGED <<lanes, identity, asking, world, feed>>

GetStep ==
  \/ State \/ EventsCursor \/ EventsItems \/ EventsPage
  \/ IdentityAsked \/ IdentityRead \/ HealthSampling \/ HealthSampled

------------------------------------------------------------------------------
\* The process stops, once it has recorded something, and starts again.  The
\* consumer keeps its cursor; the driver may report a vehicle it finds there.
Restart ==
  /\ restarts < MaxRestarts /\ cursor > 0
  /\ reported' \in {reported, FALSE}
  /\ restarts' = restarts + 1
  /\ since' = [l \in Loops |-> FALSE]
  /\ held' = FALSE
  /\ lane' = Resting
  /\ sample' = [t \in Threads |-> "none"]
  /\ shown' = Blank
  /\ cursor' = 0 /\ history' = <<>>
  /\ get' = NoGet /\ identity' = "free" /\ asking' = 0
  /\ earlier' = (saved > 0)
  /\ UNCHANGED <<loop, arrivals, consumer, saved, missed>>

Next ==
  \/ Arrives \/ Leaves \/ Follows
  \/ LaneStep \/ ScreenCleared
  \/ Begin \/ GetStep \/ IdentityAnswers
  \/ Restart

\* The lane thread goes round by itself.  Nothing is promised of the vehicles,
\* the consumer or the identification service.
Fairness == WF_vars(LaneStep)

Spec == Init /\ [][Next]_vars /\ Fairness

------------------------------------------------------------------------------
LanePcs == {"wait", "close", "idle", "again", "arm", "decide", "decided", "stamped",
            "screen", "vend", "transit", "count", "append"} \cup Loops

GetSteps == {"decision", "at", "transit", "transitAt", "fee", "cursor", "items", "oldest",
             "identity", "waiting", "served", "raised"} \cup Loops

\* Every variable has its type.  A number out of it says more than its type:
\* there is one decision for a vehicle at most, and the window (EventQueue
\* `_history`) is as deep as it says, contiguous, and ends at the cursor but
\* while an event is being recorded.
TypeOK ==
  /\ loop \in [Loops -> BOOLEAN] /\ since \in [Loops -> BOOLEAN]
  /\ {reported, held, earlier, missed} \subseteq BOOLEAN
  /\ arrivals \in Cases /\ restarts \in 0..MaxRestarts
  /\ lane \in [pc : LanePcs, next : LanePcs, turn : {"arrival", "idle"}]
  /\ sample \in [Threads -> {"none", "clear", "occupied", "dwell", "done", "raised"}]
  /\ shown \in [decision : Cases, at : Cases, screen : Opt(Fees),
                 transit : BOOLEAN, transitAt : BOOLEAN]
  /\ shown.decision <= arrivals
  /\ consumer \in Consumers
  /\ {cursor, saved} \subseteq Nat
  /\ LET last == IF At("append") THEN cursor - 1 ELSE cursor
     IN  history = [i \in 1..Min({Depth, last}) |-> last - Min({Depth, last}) + i]
  /\ get \in [route : {"none", "state", "events", "health"}, step : GetSteps, at : Cases,
               transit : BOOLEAN, fee : Opt(Fees), cursor : Nat, items : SUBSET Nat,
               own : BOOLEAN, answer : {"asked", "unknown"}]
  /\ identity \in {"free", "out"} /\ asking \in Nat

\* A consumer that follows the cursors of GET /v1/lane/events within one run
\* of the process is given every event, or is told `reset`: recording, and
\* the eviction of the oldest, go on while the page is being read
\* (LaneService.events, EventQueue.since and oldest).
FeedNoSilentGap == ~missed

\* The fee on the state page names the decision it is the fee of, so a
\* consumer that compares the two knows whether it is of the car in front of
\* it (controller.py _note_exit_screen, service.py exit_fee).
FeeOfItsDecision ==
  \A f \in get.fee : f.at = f.of

\* The health page's word about the identification service is a check and not
\* a memory: an answer is of a read this request began.  And a service that
\* never answers holds one thread, not one per poll
\* (LaneService._bounded_identity_health).
IdentityIsACheck ==
  /\ get.answer = "asked" => get.own
  /\ asking <= 1

\* A held vehicle is not held for ever: the hold ends once the vehicle too
\* close behind it stays away, and when it has itself left, though the driver
\* reports it no more (controller.py run_once, the idle turn).
HoldEnds ==
  \/ <>[]~loop["deactivate"]
  \/ <>[]loop["deactivate"] /\ <>[]~loop["arming"]
  => []<>~held

================================================================================
