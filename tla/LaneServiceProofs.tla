------------------------- MODULE LaneServiceProofs -------------------------
(***************************************************************************)
(* What holds of the lane's read surface for any depth of the window, any  *)
(* number of vehicles and of restarts: the feed leaves out no event it     *)
(* does not say it left out, a fee names the decision it is of, and the    *)
(* health page asks at most once at a time.                                *)
(*                                                                         *)
(* The feed needs what the window holds at every moment (WindowInv: the    *)
(* last events, one behind the cursor while one is being recorded), and    *)
(* what of it a page half read may still come to miss (PageInv): only what *)
(* is gone from the window by the time its oldest is read.                 *)
(* That there is one decision for a vehicle at most needs where each one   *)
(* reported is (ArrivalInv): on its way, held, or decided on.              *)
(***************************************************************************)
EXTENDS LaneService, TLAPS

\* The newest event in the window, and how many it holds.
Newest == IF At("append") THEN cursor - 1 ELSE cursor
Width  == IF Newest <= Depth THEN Newest ELSE Depth

LaneInv ==
  /\ lane.next \in {"wait", "arm", "decide", "decided"}
  /\ lane = [pc |-> lane.pc, next |-> lane.next, turn |-> lane.turn]

\* The window is the last events, without a gap.
WindowInv ==
  /\ cursor \in Nat
  /\ At("append") => cursor > 0
  /\ history \in Seq(Nat)
  /\ Len(history) = Width
  /\ \A i \in 1..Width : history[i] = Newest - Width + i

\* A page being read has each event up to its cursor, but for those that have
\* left the window since.
PageInv ==
  /\ get = [route |-> get.route, step |-> get.step, at |-> get.at, transit |-> get.transit, fee |-> get.fee,
            cursor |-> get.cursor, items |-> get.items, own |-> get.own, answer |-> get.answer]
  /\ saved \in Nat
  /\ get.cursor \in Nat
  /\ Answering("events", "items") => get.cursor <= cursor
  /\ Answering("events", "oldest") =>
       /\ get.cursor <= Newest
       /\ \A n \in (saved + 1)..get.cursor : n \in get.items \/ n <= Newest - Width

\* What is on the screen names its decision, and so does a page that read it.
FeeInv ==
  /\ shown = [decision |-> shown.decision, at |-> shown.at, screen |-> shown.screen,
              transit |-> shown.transit, transitAt |-> shown.transitAt]
  /\ At("screen") => shown.at = shown.decision
  /\ \A f \in shown.screen \cup get.fee : f.at = f.of

\* A read of the identification service is out as long as its thread is, and an
\* answer is of a read this request began.
IdentityInv ==
  /\ asking \in 0..1
  /\ identity # "out" => asking = 0
  /\ Answering("health", "waiting") => get.own
  /\ get.answer = "asked" => get.own

Inv == LaneInv /\ WindowInv /\ PageInv /\ FeeInv /\ IdentityInv /\ FeedNoSilentGap

USE LaneServiceAssumption

------------------------------------------------------------------------------
LEMMA Initially == Init => Inv
<1> SUFFICES ASSUME Init PROVE Inv
  OBVIOUS
<1>1. LaneInv /\ WindowInv
  BY DEF Init, LaneInv, WindowInv, Newest, Width, At, Resting
<1>2. PageInv /\ FeeInv /\ IdentityInv /\ FeedNoSilentGap
  BY DEF Init, PageInv, FeeInv, IdentityInv, FeedNoSilentGap, NoGet, Blank, Answering, At, Resting
<1>3. QED BY <1>1, <1>2 DEF Inv

\* What a step that leaves the window and its recording alone keeps.
LEMMA WindowKept ==
  ASSUME WindowInv, UNCHANGED <<cursor, history>>, At("append")' <=> At("append")
  PROVE  WindowInv' /\ Newest' = Newest /\ Width' = Width
BY DEF WindowInv, Newest, Width

LEMMA LaneStepLane ==
  ASSUME LaneInv, LaneStep
  PROVE  LaneInv'
<1> USE DEF LaneInv, At, Goes, Recording, Resting
<1>1. CASE Waited \/ Sampling \/ Sampled \/ Arrived
  BY <1>1 DEF Waited, Sampling, Sampled, Arrived
<1>2. CASE Idle \/ IdleAgain \/ Arm \/ Decide \/ Publish \/ Transit
  BY <1>2 DEF Idle, IdleAgain, Arm, Decide, Publish, Transit
<1>3. CASE Count \/ Windowed
  BY <1>3 DEF Count, Windowed
<1>4. QED BY <1>1, <1>2, <1>3 DEF LaneStep

\* The order in which the decision is published.
LEMMA AfterIs ==
  /\ DOMAIN After = {"decided", "stamped", "screen"}
  /\ After["decided"] = "stamped" /\ After["stamped"] = "screen" /\ After["screen"] = "vend"
BY DEF After

\* Only recording an event moves the window.
LEMMA LaneMoves ==
  ASSUME LaneInv, LaneStep
  PROVE  \/ Count
         \/ Windowed
         \/ UNCHANGED <<cursor, history>> /\ ~At("append") /\ ~At("append")'
<1> USE DEF LaneInv, At, Goes, Recording, Resting
<1>1. CASE Waited \/ Sampling \/ Sampled \/ Arrived
  BY <1>1 DEF Waited, Sampling, Sampled, Arrived, Loops
<1>2. CASE Idle \/ IdleAgain \/ Arm \/ Decide \/ Transit
  BY <1>2 DEF Idle, IdleAgain, Arm, Decide, Transit
<1>3. CASE Publish
  BY <1>3, AfterIs DEF Publish
<1>4. QED BY <1>1, <1>2, <1>3 DEF LaneStep

\* The lane records in two steps, and nothing else comes between the cursor
\* and the window but what reads them.
LEMMA CountStep ==
  ASSUME LaneInv, WindowInv, Count
  PROVE  WindowInv' /\ Newest' = Newest /\ Width' = Width /\ cursor' = cursor + 1
<1>1. At("append")' /\ ~At("append") /\ cursor' = cursor + 1 /\ history' = history
  BY DEF Count, At, LaneInv
<1>2. Newest' = Newest
  BY <1>1 DEF Newest, WindowInv
<1>3. Width' = Width
  BY <1>2 DEF Width
<1>4. QED BY <1>1, <1>2, <1>3 DEF WindowInv

LEMMA WindowedStep ==
  ASSUME LaneInv, WindowInv, Windowed
  PROVE  /\ WindowInv' /\ cursor' = cursor
         /\ Newest' = Newest + 1 /\ Newest - Width <= Newest' - Width'
<1>1. At("append") /\ ~At("append")' /\ cursor' = cursor /\ history' = Bounded(Append(history, cursor))
  BY DEF Windowed, At, Goes, Resting, LaneInv
<1>2. Newest' = cursor /\ Newest = cursor - 1 /\ Newest \in Nat /\ cursor \in Nat /\ cursor > 0
  BY <1>1 DEF Newest, WindowInv
<1>3. Width \in Nat /\ Width' \in Nat /\ Width <= Newest /\ Width <= Depth
  BY <1>2 DEF Width
<1> DEFINE more == Append(history, cursor)
<1>4. /\ more \in Seq(Nat) /\ Len(more) = Width + 1
      /\ \A i \in 1..(Width + 1) : more[i] = cursor - (Width + 1) + i
  <2>1. /\ more \in Seq(Nat) /\ Len(more) = Width + 1
        /\ \A i \in 1..Width : more[i] = history[i]
        /\ more[Width + 1] = cursor
    BY <1>2, <1>3 DEF WindowInv
  <2>2. \A i \in 1..Width : history[i] = cursor - 1 - Width + i
    BY <1>2 DEF WindowInv
  <2>3. ASSUME NEW i \in 1..(Width + 1) PROVE more[i] = cursor - (Width + 1) + i
    <3>1. CASE i \in 1..Width
      <4>1. more[i] = cursor - 1 - Width + i
        BY <2>1, <2>2, <3>1
      <4>2. i \in Int /\ cursor \in Int /\ Width \in Int
        BY <1>2, <1>3
      <4>3. cursor - 1 - Width + i = cursor - (Width + 1) + i
        BY <4>2
      <4>4. QED BY <4>1, <4>3
    <3>2. CASE i = Width + 1
      BY <1>2, <1>3, <2>1, <3>2
    <3>3. Width \in Nat
      BY <1>3
    <3>4. i \in 1..Width \/ i = Width + 1
      BY <3>3
    <3>5. QED BY <3>1, <3>2, <3>4
  <2>4. QED BY <2>1, <2>3
<1> HIDE DEF more
<1>5. CASE Width + 1 <= Depth
  <2>1. history' = more
    BY <1>1, <1>3, <1>4, <1>5 DEF Bounded, more
  <2>2. Width' = Width + 1
    BY <1>2, <1>3, <1>5 DEF Width
  <2>3. QED BY <1>1, <1>2, <1>3, <1>4, <2>1, <2>2 DEF WindowInv
<1>6. CASE ~(Width + 1 <= Depth)
  <2>1. Width = Depth /\ Width' = Depth
    BY <1>2, <1>3, <1>6 DEF Width
  <2>2. history' = Tail(more)
    BY <1>1, <1>3, <1>4, <1>6 DEF Bounded, more
  <2>3. /\ Tail(more) \in Seq(Nat) /\ Len(Tail(more)) = Width
        /\ \A i \in 1..Width : Tail(more)[i] = more[i + 1]
    BY <1>3, <1>4
  <2>4. \A i \in 1..Width : more[i + 1] = cursor - Width + i
    BY <1>2, <1>3, <1>4
  <2>5. QED BY <1>1, <1>2, <1>3, <2>1, <2>2, <2>3, <2>4 DEF WindowInv
<1>7. QED BY <1>5, <1>6

LEMMA LaneStepWindow ==
  ASSUME LaneInv, WindowInv, LaneStep
  PROVE  /\ WindowInv' /\ cursor \in Nat /\ cursor' \in Nat /\ cursor <= cursor'
         /\ Newest \in Nat /\ Newest' \in Nat /\ Newest <= Newest'
         /\ Width \in Nat /\ Width' \in Nat /\ Newest - Width <= Newest' - Width'
<1>1. Newest \in Nat /\ Width \in Nat /\ cursor \in Nat
  BY DEF WindowInv, Newest, Width
<1>2. CASE Count
  BY <1>1, <1>2, CountStep DEF WindowInv
<1>3. CASE Windowed
  <2>1. WindowInv' /\ cursor' = cursor /\ Newest' = Newest + 1 /\ Newest - Width <= Newest' - Width'
    BY <1>3, WindowedStep
  <2>2. Width' \in Nat
    BY <1>1, <2>1 DEF Width
  <2>3. cursor' \in Nat /\ cursor <= cursor'
    BY <1>1, <2>1
  <2>4. Newest' \in Nat /\ Newest <= Newest'
    BY <1>1, <2>1
  <2>5. QED BY <1>1, <2>1, <2>2, <2>3, <2>4
<1>4. CASE UNCHANGED <<cursor, history>> /\ ~At("append") /\ ~At("append")'
  <2>1. WindowInv' /\ Newest' = Newest /\ Width' = Width /\ cursor' = cursor
    BY <1>4, WindowKept
  <2>2. cursor' \in Nat /\ cursor <= cursor'
    BY <1>1, <2>1
  <2>3. Newest' \in Nat /\ Newest <= Newest' /\ Width' \in Nat /\ Newest - Width <= Newest' - Width'
    BY <1>1, <2>1
  <2>4. QED BY <1>1, <2>1, <2>2, <2>3
<1>5. QED BY <1>2, <1>3, <1>4, LaneMoves

\* The fields a lane step leaves to the GETs.
LEMMA LaneStepReads ==
  ASSUME LaneStep
  PROVE  UNCHANGED <<get, identity, asking, saved, missed>>
<1> USE DEF reads, feed
<1>1. CASE Waited \/ Sampling \/ Sampled \/ Arrived
  BY <1>1 DEF Waited, Sampling, Sampled, Arrived
<1>2. CASE Idle \/ IdleAgain \/ Arm \/ Decide
  BY <1>2 DEF Idle, IdleAgain, Arm, Decide
<1>3. CASE Publish \/ Transit \/ Count \/ Windowed
  BY <1>3 DEF Publish, Transit, Count, Windowed
<1>4. QED BY <1>1, <1>2, <1>3 DEF LaneStep

\* The GETs, and what comes from outside, leave the window alone.
LEMMA GetKeepsLane ==
  ASSUME GetStep \/ Begin \/ IdentityAnswers \/ ScreenCleared \/ Arrives \/ Leaves \/ Follows
  PROVE  UNCHANGED <<lane, cursor, history>>
<1> USE DEF lanes
<1>1. CASE State \/ EventsCursor \/ EventsItems \/ EventsPage
  BY <1>1 DEF State, EventsCursor, EventsItems, EventsPage
<1>2. CASE IdentityAsked \/ IdentityRead \/ HealthSampling \/ HealthSampled
  BY <1>2 DEF IdentityAsked, IdentityRead, HealthSampling, HealthSampled
<1>3. CASE Begin \/ IdentityAnswers \/ ScreenCleared \/ Arrives \/ Leaves \/ Follows
  BY <1>3 DEF Begin, IdentityAnswers, ScreenCleared, Arrives, Leaves, Follows
<1>4. QED BY <1>1, <1>2, <1>3 DEF GetStep

\* The copy of the window has every event up to the cursor read before it that
\* the window still holds.
LEMMA ItemsStep ==
  ASSUME Inv, EventsItems
  PROVE  PageInv'
<1>1. /\ get' = [get EXCEPT !.items = {n \in Range(history) : n > saved}, !.step = "oldest"]
      /\ UNCHANGED <<lane, cursor, history, saved>> /\ ~At("append") /\ Answering("events", "items")
  BY DEF EventsItems, Reads, Unlocked, lanes, feed
<1>2. Newest = cursor /\ Newest' = Newest /\ Width' = Width /\ Newest \in Nat /\ Width \in Nat
  BY <1>1 DEF Newest, Width, At, Inv, WindowInv
<1>3. get.cursor <= Newest /\ get.cursor \in Nat /\ saved \in Nat
  BY <1>1, <1>2 DEF Inv, PageInv
<1>4. ASSUME NEW n \in (saved + 1)..get.cursor, ~(n <= Newest - Width)
      PROVE  n \in {i \in Range(history) : i > saved}
  <2>1. n - (Newest - Width) \in 1..Width
    BY <1>2, <1>3, <1>4
  <2>2. history[n - (Newest - Width)] = n
    BY <1>2, <1>3, <2>1 DEF Inv, WindowInv
  <2>3. n - (Newest - Width) \in DOMAIN history
    BY <2>1 DEF Inv, WindowInv
  <2>4. n \in Range(history)
    BY <2>2, <2>3 DEF Range
  <2>5. QED BY <1>3, <2>4
<1>5. /\ get'.items = {n \in Range(history) : n > saved} /\ get'.cursor = get.cursor /\ get'.step = "oldest"
      /\ get' = [route |-> get'.route, step |-> get'.step, at |-> get'.at, transit |-> get'.transit, fee |-> get'.fee,
                 cursor |-> get'.cursor, items |-> get'.items, own |-> get'.own, answer |-> get'.answer]
  BY <1>1 DEF Inv, PageInv
<1>6. QED BY <1>1, <1>2, <1>3, <1>4, <1>5 DEF PageInv, Answering

\* A page that does not say `reset` misses nothing.
LEMMA PageMisses ==
  ASSUME Inv, Answering("events", "oldest"), ~Reset
  PROVE  (saved + 1)..get.cursor \subseteq get.items
<1>1. Newest \in Nat /\ Width \in Nat /\ saved \in Nat /\ get.cursor \in Nat
  BY DEF Inv, WindowInv, PageInv, Newest, Width
<1>2. ASSUME NEW n \in (saved + 1)..get.cursor, n <= Newest - Width
      PROVE  FALSE
  <2>1. Width > 0
    BY <1>1, <1>2 DEF Width
  <2>2. history # <<>> /\ Head(history) = Newest - Width + 1
    BY <1>1, <2>1 DEF Inv, WindowInv
  <2>3. QED BY <1>1, <1>2, <2>2 DEF Reset
<1>3. QED BY <1>2 DEF Inv, PageInv

LEMMA PageStep ==
  ASSUME Inv, [Next]_vars
  PROVE  PageInv' /\ FeedNoSilentGap'
<1>1. CASE LaneStep
  <2>1. /\ UNCHANGED <<get, saved, missed>>
        /\ cursor \in Nat /\ cursor' \in Nat /\ cursor <= cursor'
        /\ Newest \in Nat /\ Newest' \in Nat /\ Newest <= Newest'
        /\ Width \in Nat /\ Width' \in Nat /\ Newest - Width <= Newest' - Width'
    BY <1>1, LaneStepWindow, LaneStepReads DEF Inv
  <2>2. get.cursor \in Nat /\ saved \in Nat
    BY DEF Inv, PageInv
  <2>3. Answering("events", "items") => get.cursor <= cursor'
    BY <2>1, <2>2 DEF Inv, PageInv
  <2>4. Answering("events", "oldest") =>
          /\ get.cursor <= Newest'
          /\ \A n \in (saved + 1)..get.cursor : n \in get.items \/ n <= Newest' - Width'
    BY <2>1, <2>2 DEF Inv, PageInv
  <2>5. QED BY <2>1, <2>2, <2>3, <2>4 DEF Inv, PageInv, FeedNoSilentGap, Answering
<1>2. CASE EventsItems
  BY <1>2, ItemsStep DEF EventsItems, feed, Inv, FeedNoSilentGap
<1>3. CASE EventsCursor
  <2>1. get' = [get EXCEPT !.cursor = cursor, !.step = "items"] /\ UNCHANGED <<saved, missed, cursor>>
    BY <1>3 DEF EventsCursor, Reads, lanes, feed
  <2>2. /\ get' = [route |-> get'.route, step |-> get'.step, at |-> get'.at, transit |-> get'.transit, fee |-> get'.fee,
                   cursor |-> get'.cursor, items |-> get'.items, own |-> get'.own, answer |-> get'.answer]
        /\ get'.step = "items" /\ get'.cursor = cursor
    BY <2>1 DEF Inv, PageInv
  <2>3. cursor \in Nat /\ cursor' = cursor /\ saved \in Nat /\ saved' = saved /\ ~missed'
    BY <2>1 DEF Inv, PageInv, WindowInv, FeedNoSilentGap
  <2>4. QED BY <2>2, <2>3 DEF PageInv, FeedNoSilentGap, Answering
<1>4. CASE EventsPage
  <2>1. Answering("events", "oldest") /\ get' = [NoGet EXCEPT !.route = "events"] /\ saved' = get.cursor
    BY <1>4 DEF EventsPage
  <2>2. ~missed'
    <3>1. ~Reset => (saved + 1)..get.cursor \subseteq get.items
      BY <2>1, PageMisses
    <3>2. missed' = (missed \/ (~earlier /\ ~Reset /\ ~((saved + 1)..get.cursor \subseteq get.items)))
      BY <1>4 DEF EventsPage
    <3>3. ~missed
      BY DEF Inv, FeedNoSilentGap
    <3>4. QED BY <3>1, <3>2, <3>3, Zenon
  <2>3. get.cursor \in Nat
    BY DEF Inv, PageInv
  <2>4. QED BY <2>1, <2>2, <2>3 DEF Inv, PageInv, FeedNoSilentGap, NoGet, Answering
<1>5. CASE State
  <2>1. get.route = "state" /\ UNCHANGED <<saved, missed>>
    BY <1>5 DEF State, Answering, feed
  <2>2. /\ get' = [route |-> get'.route, step |-> get'.step, at |-> get'.at, transit |-> get'.transit, fee |-> get'.fee,
                   cursor |-> get'.cursor, items |-> get'.items, own |-> get'.own, answer |-> get'.answer]
        /\ get'.route = "state" /\ get'.cursor = get.cursor
    BY <1>5, <2>1 DEF State, Reads, Inv, PageInv
  <2>3. QED BY <2>1, <2>2 DEF Inv, PageInv, FeedNoSilentGap, Answering
<1>6. CASE IdentityAsked \/ IdentityRead \/ HealthSampling \/ HealthSampled
  <2>1. get.route = "health" /\ UNCHANGED <<saved, missed>>
    BY <1>6 DEF IdentityAsked, IdentityRead, HealthSampling, HealthSampled, Answering, feed, world
  <2>2. /\ get' = [route |-> get'.route, step |-> get'.step, at |-> get'.at, transit |-> get'.transit, fee |-> get'.fee,
                   cursor |-> get'.cursor, items |-> get'.items, own |-> get'.own, answer |-> get'.answer]
        /\ get'.route = "health" /\ get'.cursor = get.cursor
    BY <1>6, <2>1 DEF IdentityAsked, IdentityRead, HealthSampling, HealthSampled, Reads, reads, Inv, PageInv
  <2>3. QED BY <2>1, <2>2 DEF Inv, PageInv, FeedNoSilentGap, Answering
<1>7. CASE Begin
  <2>1. UNCHANGED <<saved, missed, cursor>>
    BY <1>7 DEF Begin, lanes, feed
  <2>2. /\ get' = [route |-> get'.route, step |-> get'.step, at |-> get'.at, transit |-> get'.transit, fee |-> get'.fee,
                   cursor |-> get'.cursor, items |-> get'.items, own |-> get'.own, answer |-> get'.answer]
        /\ get'.step \notin {"items", "oldest"} /\ get'.cursor = 0
    BY <1>7 DEF Begin, New, Reads, NoGet
  <2>3. QED BY <2>1, <2>2 DEF Inv, PageInv, FeedNoSilentGap, Answering
<1>8. CASE IdentityAnswers \/ ScreenCleared \/ Arrives \/ Leaves \/ Follows \/ UNCHANGED vars
  <2>1. UNCHANGED <<get, saved, missed, lane, cursor, history>>
    BY <1>8 DEF IdentityAnswers, ScreenCleared, Arrives, Leaves, Follows, vars, lanes, reads, feed
  <2>2. QED BY <2>1 DEF Inv, PageInv, FeedNoSilentGap, Answering, Newest, Width, At
<1>9. CASE Restart
  BY <1>9 DEF Restart, NoGet, Inv, PageInv, FeedNoSilentGap, Answering
<1>10. QED
  BY <1>1, <1>2, <1>3, <1>4, <1>5, <1>6, <1>7, <1>8, <1>9 DEF Next, GetStep

LEMMA WindowStep ==
  ASSUME Inv, [Next]_vars
  PROVE  LaneInv' /\ WindowInv'
<1>1. CASE LaneStep
  BY <1>1, LaneStepWindow, LaneStepLane DEF Inv
<1>2. CASE Restart
  BY <1>2 DEF Restart, LaneInv, WindowInv, Newest, Width, At, Resting
<1>3. CASE UNCHANGED vars
  BY <1>3 DEF vars, lanes, Inv, LaneInv, WindowInv, Newest, Width, At
<1>4. CASE GetStep \/ Begin \/ IdentityAnswers \/ ScreenCleared \/ Arrives \/ Leaves \/ Follows
  BY <1>4, GetKeepsLane DEF Inv, LaneInv, WindowInv, Newest, Width, At
<1>5. QED BY <1>1, <1>2, <1>3, <1>4 DEF Next

LEMMA FeeStep ==
  ASSUME Inv, [Next]_vars
  PROVE  FeeInv'
<1> USE DEF FeeInv, At
<1>1. CASE LaneStep
  <2>1. get' = get
    BY <1>1, LaneStepReads
  <2>2. CASE Publish
    <3>1. CASE At("decided") /\ shown' = [shown EXCEPT !.decision = @ + 1]
      BY <2>1, <2>2, <3>1, AfterIs DEF Publish, Goes, Resting, Inv
    <3>2. CASE At("stamped") /\ shown' = [shown EXCEPT !.at = shown.decision]
      BY <2>1, <2>2, <3>2, AfterIs DEF Publish, Goes, Resting, Inv
    <3>3. CASE At("screen")
      <4>1. shown.at = shown.decision /\ lane'.pc = "vend"
        BY <2>2, <3>3, AfterIs DEF Publish, Goes, Resting, Inv
      <4>2. CASE shown' = [shown EXCEPT !.screen = Noted]
        <5>1. \A f \in Noted : f.at = f.of
          BY <4>1 DEF Noted
        <5>2. QED BY <2>1, <4>1, <4>2, <5>1 DEF Inv
      <4>3. CASE shown' = [shown EXCEPT !.screen = {}] \/ UNCHANGED shown
        BY <2>1, <4>1, <4>3 DEF Inv
      <4>4. QED BY <2>2, <3>3, <4>2, <4>3 DEF Publish
    <3>4. QED BY <2>2, <3>1, <3>2, <3>3 DEF Publish
  <2>3. CASE Transit
    BY <2>1, <2>3 DEF Transit, Goes, Resting, Inv
  <2>4. CASE Decide
    BY <2>1, <2>4 DEF Decide, Recording, Resting, Inv
  <2>5. CASE Count \/ Windowed
    BY <2>1, <2>5 DEF Count, Windowed, Goes, Resting, Inv, LaneInv
  <2>6. CASE Waited \/ Sampling \/ Sampled
    BY <2>1, <2>6 DEF Waited, Sampling, Sampled, Goes, Resting, Loops, Inv, LaneInv
  <2>7. CASE Arrived \/ Idle \/ IdleAgain \/ Arm
    BY <2>1, <2>7 DEF Arrived, Idle, IdleAgain, Arm, Goes, Recording, Resting, Inv
  <2>8. QED BY <1>1, <2>2, <2>3, <2>4, <2>5, <2>6, <2>7 DEF LaneStep
<1>2. CASE State
  <2>1. UNCHANGED <<shown, lane>> /\ get'.fee \in {get.fee, shown.screen}
    BY <1>2 DEF State, Reads, lanes, Inv, PageInv
  <2>2. QED BY <2>1 DEF Inv
<1>3. CASE EventsCursor \/ EventsItems \/ IdentityAsked \/ IdentityRead \/ HealthSampling \/ HealthSampled
  <2>1. UNCHANGED <<shown, lane>> /\ get'.fee = get.fee
    BY <1>3 DEF EventsCursor, EventsItems, IdentityAsked, IdentityRead, HealthSampling, HealthSampled, Reads,
                lanes, reads, Inv, PageInv
  <2>2. QED BY <2>1 DEF Inv
<1>4. CASE EventsPage \/ Begin
  BY <1>4 DEF EventsPage, Begin, New, Reads, NoGet, lanes, Inv
<1>5. CASE ScreenCleared
  BY <1>5 DEF ScreenCleared, reads, Inv
<1>6. CASE IdentityAnswers \/ Arrives \/ Leaves \/ Follows \/ UNCHANGED vars
  <2>1. UNCHANGED <<shown, lane, get>>
    BY <1>6 DEF IdentityAnswers, Arrives, Leaves, Follows, vars, lanes, reads
  <2>2. QED BY <2>1 DEF Inv
<1>7. CASE Restart
  BY <1>7 DEF Restart, NoGet, Blank, Resting
<1>8. QED
  BY <1>1, <1>2, <1>3, <1>4, <1>5, <1>6, <1>7 DEF Next, GetStep

LEMMA IdentityStep ==
  ASSUME Inv, [Next]_vars
  PROVE  IdentityInv'
<1> USE DEF IdentityInv, Answering
<1>1. CASE LaneStep
  BY <1>1, LaneStepReads DEF Inv
<1>2. CASE State \/ EventsCursor \/ EventsItems
  <2>1. /\ UNCHANGED <<identity, asking>> /\ get'.route = get.route /\ get.route # "health"
        /\ get'.own = get.own /\ get'.answer = get.answer
    BY <1>2 DEF State, EventsCursor, EventsItems, Reads, Inv, PageInv
  <2>2. QED BY <2>1 DEF Inv
<1>3. CASE EventsPage \/ Begin
  BY <1>3 DEF EventsPage, Begin, New, Reads, NoGet, Inv
<1>4. CASE IdentityAsked
  <2>1. CASE Outstanding
    BY <1>4, <2>1 DEF IdentityAsked, Reads, Inv, PageInv
  <2>2. CASE ~Outstanding
    <3>1. get' = [[get EXCEPT !.own = TRUE] EXCEPT !.step = "waiting"] /\ identity' = "out" /\ asking' = asking + 1
      BY <1>4, <2>2 DEF IdentityAsked, Reads
    <3>2. get'.own
      BY <3>1 DEF Inv, PageInv
    <3>3. asking = 0
      BY <2>2 DEF Outstanding, Inv
    <3>4. QED BY <3>1, <3>2, <3>3
  <2>3. QED BY <2>1, <2>2
<1>5. CASE IdentityRead
  BY <1>5 DEF IdentityRead, Reads, Inv, PageInv
<1>6. CASE HealthSampling
  BY <1>6 DEF HealthSampling, reads, Inv
<1>7. CASE HealthSampled
  <2>1. /\ get' = [get EXCEPT !.step = get'.step] /\ get'.step \in {"raised", "deactivate", "served"}
        /\ UNCHANGED <<identity, asking>>
    BY <1>7 DEF HealthSampled, Reads, Inv, PageInv
  <2>2. QED BY <2>1 DEF Inv, PageInv
<1>8. CASE IdentityAnswers
  BY <1>8 DEF IdentityAnswers, Inv
<1>9. CASE ScreenCleared \/ Arrives \/ Leaves \/ Follows \/ UNCHANGED vars
  <2>1. UNCHANGED <<get, identity, asking>>
    BY <1>9 DEF ScreenCleared, Arrives, Leaves, Follows, vars, reads
  <2>2. QED BY <2>1 DEF Inv
<1>10. CASE Restart
  BY <1>10 DEF Restart, NoGet
<1>11. QED
  BY <1>1, <1>2, <1>3, <1>4, <1>5, <1>6, <1>7, <1>8, <1>9, <1>10 DEF Next, GetStep

------------------------------------------------------------------------------
(* The types, and that there is one decision for a vehicle at most. *)

One(b) == IF b THEN 1 ELSE 0

\* The lane thread is on its way to a decision about a vehicle reported.
OnItsWay ==
  \/ lane.pc \in Loops /\ lane.turn = "arrival"
  \/ lane.pc \in {"close", "arm", "decide", "decided"}
  \/ lane.pc \in {"count", "append"} /\ lane.next \in {"arm", "decide", "decided"}

\* A vehicle is decided on, on its way there, held, still to be reported, or
\* has left undecided.
ArrivalInv ==
  /\ shown.decision + One(Arrival) + One(held) + One(OnItsWay) <= arrivals
  /\ loop["arming"] => arrivals > 0
  /\ At("again") => held

LoopTypes ==
  /\ loop \in [Loops -> BOOLEAN] /\ since \in [Loops -> BOOLEAN]
  /\ reported \in BOOLEAN /\ held \in BOOLEAN
  /\ arrivals \in Cases /\ restarts \in 0..MaxRestarts
  /\ sample \in [Threads -> {"none", "clear", "occupied", "dwell", "done", "raised"}]

LaneTypes == lane \in [pc : LanePcs, next : LanePcs, turn : {"arrival", "idle"}]

ShownTypes ==
  shown \in [decision : Cases, at : Cases, screen : Opt(Fees), transit : BOOLEAN, transitAt : BOOLEAN]

Gets ==
  [route : {"none", "state", "events", "health"}, step : GetSteps, at : Cases, transit : BOOLEAN,
   fee : Opt(Fees), cursor : Nat, items : SUBSET Nat, own : BOOLEAN, answer : {"asked", "unknown"}]

ReadTypes ==
  /\ get \in Gets
  /\ identity \in {"free", "out"} /\ asking \in Nat
  /\ consumer \in Consumers
  /\ earlier \in BOOLEAN /\ missed \in BOOLEAN

TypeInv == LoopTypes /\ LaneTypes /\ ShownTypes /\ ReadTypes /\ ArrivalInv

\* The numbers of vehicles: from 0 to the most that come, without a gap.
LEMMA CasesAre ==
  /\ 0 \in Cases /\ Cases \subseteq Nat
  /\ \A n \in Cases : 0..n \subseteq Cases
  /\ \A c \in Consumers, n \in Nat : n < MaxArrivals[c] => n + 1 \in Cases
<1>1. \A c \in Consumers : MaxArrivals[c] \in Nat
  OBVIOUS
<1>2. 0 \in Cases /\ Cases \subseteq Nat
  BY <1>1 DEF Cases, Consumers
<1>3. ASSUME NEW n \in Cases PROVE 0..n \subseteq Cases
  <2>1. PICK c \in Consumers : n \in 0..MaxArrivals[c]
    BY DEF Cases
  <2>2. 0..n \subseteq 0..MaxArrivals[c]
    BY <1>1, <2>1
  <2>3. QED BY <2>2 DEF Cases
<1>4. ASSUME NEW c \in Consumers, NEW n \in Nat, n < MaxArrivals[c] PROVE n + 1 \in Cases
  <2>1. n + 1 \in 0..MaxArrivals[c]
    BY <1>1, <1>4
  <2>2. QED BY <2>1 DEF Cases
<1>5. QED BY <1>2, <1>3, <1>4

LEMMA NoGetIsTyped ==
  /\ NoGet \in Gets
  /\ \A route \in {"state", "events", "health"}, step \in {"decision", "cursor", "identity"} :
       /\ [NoGet EXCEPT !.route = route] \in Gets
       /\ [NoGet EXCEPT !.route = route, !.step = step] \in Gets
<1>1. 0 \in Cases /\ {} \in Opt(Fees) /\ {} \in SUBSET Nat
  BY CasesAre DEF Opt
<1>2. QED BY <1>1 DEF NoGet, Gets, GetSteps

LEMMA BlankIsTyped ==
  Blank \in [decision : Cases, at : Cases, screen : Opt(Fees), transit : BOOLEAN, transitAt : BOOLEAN]
<1>1. 0 \in Cases /\ {} \in Opt(Fees)
  BY CasesAre DEF Opt
<1>2. QED BY <1>1 DEF Blank

\* Where the lane thread goes.
LEMMA LaneGoes ==
  ASSUME NEW pc
  PROVE  /\ Goes(pc) => lane'.pc = pc /\ lane'.next = "wait" /\ lane'.turn = "idle"
         /\ Recording(pc) => lane'.pc = "count" /\ lane'.next = pc /\ lane'.turn = "idle"
BY DEF Goes, Recording, Resting

LEMMA TypesAtFirst == Init => TypeInv
<1> SUFFICES ASSUME Init PROVE TypeInv
  OBVIOUS
<1>1. LoopTypes
  <2>1. 0 \in Cases /\ 0 \in 0..MaxRestarts
    BY CasesAre
  <2>2. QED BY <2>1 DEF Init, LoopTypes
<1>2. LaneTypes
  BY DEF Init, LaneTypes, Resting, LanePcs
<1>3. ArrivalInv
  BY DEF Init, ArrivalInv, Resting, One, OnItsWay, Arrival, At, Blank, Loops
<1>4. ShownTypes
  BY BlankIsTyped DEF Init, ShownTypes
<1>5. ReadTypes
  BY NoGetIsTyped DEF Init, ReadTypes
<1>6. QED BY <1>1, <1>2, <1>3, <1>4, <1>5 DEF TypeInv

\* Sampling a loop, on either thread.
LEMMA ObserveTypes ==
  ASSUME LoopTypes, NEW t \in Threads, NEW l \in Loops, Observe(t, l)
  PROVE  /\ sample' \in [Threads -> {"none", "clear", "occupied", "dwell", "done", "raised"}]
         /\ since' \in [Loops -> BOOLEAN]
BY DEF LoopTypes, Observe, Level, Run, Dwell

LEMMA LaneLoopTypes ==
  ASSUME LoopTypes, LaneStep
  PROVE  LoopTypes'
<1> USE DEF LoopTypes, world
<1>1. CASE Waited \/ Sampled
  BY <1>1 DEF Waited, Sampled, Threads
<1>2. CASE Sampling
  BY <1>2, ObserveTypes DEF Sampling, Threads
<1>3. CASE Arrived \/ Idle \/ IdleAgain
  BY <1>3 DEF Arrived, Idle, IdleAgain
<1>4. CASE Arm \/ Count \/ Windowed \/ Decide \/ Publish \/ Transit
  BY <1>4 DEF Arm, Count, Windowed, Decide, Publish, Transit
<1>5. QED BY <1>1, <1>2, <1>3, <1>4 DEF LaneStep

LEMMA LaneLaneTypes ==
  ASSUME LaneTypes, LaneStep
  PROVE  LaneTypes'
<1> USE DEF LaneTypes, LanePcs, At, Goes, Recording, Resting, Loops
<1>1. CASE Waited \/ Sampling \/ Sampled \/ Arrived
  BY <1>1 DEF Waited, Sampling, Sampled, Arrived
<1>2. CASE Idle \/ IdleAgain \/ Arm \/ Decide \/ Transit
  BY <1>2 DEF Idle, IdleAgain, Arm, Decide, Transit
<1>3. CASE Publish
  BY <1>3, AfterIs DEF Publish
<1>4. CASE Count \/ Windowed
  BY <1>4 DEF Count, Windowed
<1>5. QED BY <1>1, <1>2, <1>3, <1>4 DEF LaneStep

LEMMA LaneShownTypes ==
  ASSUME TypeInv, FeeInv, LaneStep
  PROVE  ShownTypes'
<1> USE DEF ShownTypes
<1>1. CASE Publish
  <2>1. CASE At("decided") /\ shown' = [shown EXCEPT !.decision = @ + 1]
    <3>1. shown.decision + 1 \in 0..arrivals
      BY <2>1, CasesAre DEF TypeInv, ArrivalInv, LoopTypes, OnItsWay, One, At
    <3>2. shown.decision + 1 \in Cases
      BY <3>1, CasesAre DEF TypeInv, LoopTypes
    <3>3. QED BY <2>1, <3>2 DEF TypeInv
  <2>2. CASE At("stamped") /\ shown' = [shown EXCEPT !.at = shown.decision]
    BY <2>2 DEF TypeInv
  <2>3. CASE shown' = [shown EXCEPT !.screen = Noted]
    <3>1. Noted \in Opt(Fees)
      BY DEF TypeInv, Opt, Fees, Noted
    <3>2. QED BY <2>3, <3>1 DEF TypeInv
  <2>4. CASE shown' = [shown EXCEPT !.screen = {}] \/ UNCHANGED shown
    BY <2>4 DEF TypeInv, Opt
  <2>5. QED BY <1>1, <2>1, <2>2, <2>3, <2>4 DEF Publish
<1>2. CASE Transit \/ Decide
  BY <1>2 DEF Transit, Decide, TypeInv, Opt
<1>3. CASE Waited \/ Sampling \/ Sampled \/ Arrived \/ Idle
  BY <1>3 DEF Waited, Sampling, Sampled, Arrived, Idle, TypeInv
<1>4. CASE IdleAgain \/ Arm \/ Count \/ Windowed
  BY <1>4 DEF IdleAgain, Arm, Count, Windowed, TypeInv
<1>5. QED BY <1>1, <1>2, <1>3, <1>4 DEF LaneStep

\* On its way to a decision the lane takes along no more vehicles than came.
LEMMA LaneArrivals ==
  ASSUME TypeInv, LaneInv, LaneStep
  PROVE  ArrivalInv'
<1> USE DEF ArrivalInv, One, OnItsWay, At, Loops, Arrival
<1>0. shown.decision \in Nat /\ arrivals \in Nat /\ ArrivalInv /\ LaneTypes
  BY CasesAre DEF TypeInv, ShownTypes, LoopTypes
<1>1. CASE Waited
  <2>1. /\ UNCHANGED <<shown, held, loop, arrivals>> /\ At("wait")
        /\ reported' = (reported \/ Arrival)
        /\ lane'.pc = "arming" /\ lane'.turn = IF Arrival THEN "arrival" ELSE "idle"
    BY <1>0, <1>1 DEF Waited, LaneTypes
  <2>2. ~Arrival'
    BY <2>1
  <2>3. QED BY <1>0, <2>1, <2>2
<1>2. CASE Sampling
  BY <1>0, <1>2 DEF Sampling, world
<1>3. CASE Sampled
  BY <1>0, <1>3, LaneGoes DEF Sampled, world, LaneTypes
<1>4. CASE Arrived
  <2>1. UNCHANGED <<shown, loop, reported, arrivals>> /\ At("close")
    BY <1>4 DEF Arrived, world
  <2>2. CASE Goes("wait") /\ UNCHANGED held
    BY <1>0, <2>1, <2>2, LaneGoes
  <2>3. CASE ~held /\ held' = TRUE /\ Recording("wait")
    BY <1>0, <2>1, <2>3, LaneGoes
  <2>4. CASE held /\ held' = FALSE /\ Recording("arm")
    BY <1>0, <2>1, <2>4, LaneGoes
  <2>5. CASE Goes("arm") /\ UNCHANGED held
    BY <1>0, <2>1, <2>5, LaneGoes
  <2>6. QED BY <1>4, <2>2, <2>3, <2>4, <2>5 DEF Arrived
<1>5. CASE Idle
  BY <1>0, <1>5, LaneGoes DEF Idle, LooksAgain, world
<1>6. CASE IdleAgain
  <2>1. UNCHANGED <<shown, loop, reported, arrivals>> /\ At("again") /\ held
    BY <1>0, <1>6 DEF IdleAgain, world
  <2>2. CASE Goes("wait") /\ UNCHANGED held
    BY <1>0, <2>1, <2>2, LaneGoes
  <2>3. CASE held' = FALSE /\ Recording("arm")
    BY <1>0, <2>1, <2>3, LaneGoes
  <2>4. QED BY <1>6, <2>2, <2>3 DEF IdleAgain
<1>7. CASE Arm
  BY <1>0, <1>7, LaneGoes DEF Arm, world
<1>8. CASE Decide
  <2>1. shown'.decision = shown.decision
    BY <1>8 DEF Decide, TypeInv, ShownTypes
  <2>2. QED BY <1>0, <1>8, <2>1, LaneGoes DEF Decide, world
<1>9. CASE Publish
  <2>1. CASE At("decided") /\ shown' = [shown EXCEPT !.decision = @ + 1]
    <3>1. shown'.decision = shown.decision + 1 /\ lane'.pc = "stamped"
      BY <1>9, <2>1, AfterIs, LaneGoes DEF Publish, TypeInv, ShownTypes
    <3>2. QED BY <1>0, <1>9, <2>1, <3>1 DEF Publish, world
  <2>2. CASE At("stamped") \/ At("screen")
    <3>1. shown'.decision = shown.decision /\ lane'.pc \in {"screen", "vend"}
      BY <1>9, <2>2, AfterIs, LaneGoes DEF Publish, TypeInv, ShownTypes
    <3>2. QED BY <1>0, <1>9, <2>2, <3>1 DEF Publish, world
  <2>3. QED BY <1>9, <2>1, <2>2, AfterIs DEF Publish
<1>10. CASE Transit
  <2>1. shown'.decision = shown.decision
    BY <1>10 DEF Transit, TypeInv, ShownTypes
  <2>2. QED BY <1>0, <1>10, <2>1, LaneGoes DEF Transit, world
<1>11. CASE Count
  BY <1>0, <1>11 DEF Count, world, LaneTypes
<1>12. CASE Windowed
  BY <1>0, <1>12, LaneGoes DEF Windowed, world, LaneInv
<1>13. QED
  BY <1>1, <1>2, <1>3, <1>4, <1>5, <1>6, <1>7, <1>8, <1>9, <1>10, <1>11, <1>12 DEF LaneStep

\* A GET's step, of a page of any kind.
LEMMA GetTypes ==
  ASSUME TypeInv, cursor \in Nat, history \in Seq(Nat), GetStep
  PROVE  ReadTypes'
<1> USE DEF ReadTypes, Reads
<1>1. CASE State
  BY <1>1 DEF State, TypeInv, ShownTypes, Gets, GetSteps, lanes, feed
<1>2. CASE EventsCursor
  BY <1>2 DEF EventsCursor, TypeInv, Gets, GetSteps, feed
<1>3. CASE EventsItems
  <2>1. {n \in Range(history) : n > saved} \in SUBSET Nat
    BY DEF Range
  <2>2. QED BY <1>3, <2>1 DEF EventsItems, TypeInv, Gets, GetSteps, feed
<1>4. CASE EventsPage
  BY <1>4, NoGetIsTyped DEF EventsPage, TypeInv
<1>5. CASE IdentityAsked
  <2>1. get' \in {[get EXCEPT !.step = "arming"], [[get EXCEPT !.own = TRUE] EXCEPT !.step = "waiting"]}
    BY <1>5 DEF IdentityAsked
  <2>2. get' \in Gets
    BY <2>1 DEF TypeInv, Gets, GetSteps, Loops
  <2>3. QED BY <1>5, <2>2 DEF IdentityAsked, TypeInv, feed
<1>6. CASE IdentityRead
  BY <1>6 DEF IdentityRead, TypeInv, Gets, GetSteps, Loops, feed
<1>7. CASE HealthSampling
  BY <1>7 DEF HealthSampling, TypeInv, reads, feed
<1>8. CASE HealthSampled
  BY <1>8 DEF HealthSampled, TypeInv, Gets, GetSteps, Loops, feed
<1>9. QED BY <1>1, <1>2, <1>3, <1>4, <1>5, <1>6, <1>7, <1>8 DEF GetStep

LEMMA TypeStep ==
  ASSUME Inv, TypeInv, [Next]_vars
  PROVE  TypeInv'
<1>0. cursor \in Nat /\ history \in Seq(Nat) /\ saved \in Nat
  BY DEF Inv, WindowInv, PageInv
<1>1. CASE LaneStep
  <2>1. ReadTypes'
    <3>1. UNCHANGED <<get, identity, asking>> /\ UNCHANGED feed
      BY <1>1, LaneStepReads DEF LaneStep, Waited, Sampling, Sampled, Arrived, Idle, IdleAgain, Arm, Decide,
         Publish, Transit, Count, Windowed
    <3>2. QED BY <3>1 DEF TypeInv, ReadTypes, feed
  <2>2. QED BY <1>1, <2>1, LaneLoopTypes, LaneLaneTypes, LaneShownTypes, LaneArrivals DEF TypeInv, Inv
<1>2. CASE GetStep
  <2>1. UNCHANGED <<lane, held, shown, loop, reported, arrivals, restarts>>
    BY <1>2 DEF GetStep, State, EventsCursor, EventsItems, EventsPage, IdentityAsked, IdentityRead,
                HealthSampling, HealthSampled, lanes, world
  <2>2. /\ sample' \in [Threads -> {"none", "clear", "occupied", "dwell", "done", "raised"}]
        /\ since' \in [Loops -> BOOLEAN]
    <3>1. CASE HealthSampling
      BY <3>1, ObserveTypes DEF HealthSampling, TypeInv, Threads
    <3>2. CASE HealthSampled
      BY <3>2 DEF HealthSampled, lanes, TypeInv, LoopTypes, Threads
    <3>3. CASE State \/ EventsCursor \/ EventsItems \/ EventsPage \/ IdentityAsked \/ IdentityRead
      BY <3>3 DEF State, EventsCursor, EventsItems, EventsPage, IdentityAsked, IdentityRead, lanes,
                  TypeInv, LoopTypes
    <3>4. QED BY <1>2, <3>1, <3>2, <3>3 DEF GetStep
  <2>3. QED
    BY <1>0, <1>2, <2>1, <2>2, GetTypes
    DEF TypeInv, LoopTypes, LaneTypes, ShownTypes, ArrivalInv, OnItsWay, Arrival, At
<1>3. CASE Begin \/ IdentityAnswers
  <2>1. UNCHANGED <<lanes, sample, world, feed>>
    BY <1>3 DEF Begin, IdentityAnswers
  <2>2. ReadTypes'
    <3>1. CASE Begin
      BY <3>1, NoGetIsTyped DEF Begin, New, Reads, TypeInv, ReadTypes, feed
    <3>2. CASE IdentityAnswers
      BY <3>2 DEF IdentityAnswers, TypeInv, ReadTypes, feed
    <3>3. QED BY <1>3, <3>1, <3>2
  <2>3. QED
    BY <2>1, <2>2
    DEF TypeInv, LoopTypes, LaneTypes, ShownTypes, ArrivalInv, OnItsWay, Arrival, At, lanes, world
<1>4. CASE ScreenCleared
  <2>1. /\ UNCHANGED <<since, held, lane, sample, reads, world, feed>>
        /\ shown' = [shown EXCEPT !.screen = {}]
    BY <1>4 DEF ScreenCleared
  <2>2. ShownTypes' /\ shown'.decision = shown.decision
    BY <2>1 DEF TypeInv, ShownTypes, Opt
  <2>3. LoopTypes' /\ LaneTypes' /\ ReadTypes'
    BY <2>1 DEF TypeInv, LoopTypes, LaneTypes, ReadTypes, reads, world, feed
  <2>4. ArrivalInv'
    BY <2>1, <2>2 DEF TypeInv, ArrivalInv, OnItsWay, Arrival, At, world
  <2>5. QED BY <2>2, <2>3, <2>4 DEF TypeInv
<1>5. CASE Arrives \/ Leaves \/ Follows
  <2>1. UNCHANGED <<lanes, sample, reads, feed, restarts>>
    BY <1>5 DEF Arrives, Leaves, Follows
  <2>2. LoopTypes'
    <3>1. /\ loop \in [Loops -> BOOLEAN] /\ reported \in BOOLEAN /\ arrivals \in Cases
      BY DEF TypeInv, LoopTypes
    <3>2. loop' \in [Loops -> BOOLEAN] /\ reported' \in BOOLEAN
      BY <1>5, <3>1 DEF Arrives, Leaves, Follows
    <3>3. arrivals' \in Cases
      BY <1>5, <3>1, CasesAre DEF Arrives, Leaves, Follows, TypeInv, ReadTypes
    <3>4. QED BY <2>1, <3>2, <3>3 DEF TypeInv, LoopTypes, lanes
  <2>3. ArrivalInv'
    <3>1. shown.decision \in Nat /\ arrivals \in Nat /\ loop \in [Loops -> BOOLEAN]
      BY CasesAre DEF TypeInv, ShownTypes, LoopTypes
    <3>2. QED BY <1>5, <2>1, <3>1 DEF Arrives, Leaves, Follows, TypeInv, ArrivalInv, One, OnItsWay, Arrival,
              At, Loops, lanes
  <2>4. QED BY <2>1, <2>2, <2>3 DEF TypeInv, LaneTypes, ShownTypes, ReadTypes, lanes, reads, feed
<1>6. CASE Restart
  <2>1. LoopTypes'
    <3>1. restarts' \in 0..MaxRestarts
      BY <1>6 DEF Restart, TypeInv, LoopTypes
    <3>2. reported' \in BOOLEAN
      BY <1>6 DEF Restart, TypeInv, LoopTypes
    <3>3. QED BY <1>6, <3>1, <3>2 DEF Restart, TypeInv, LoopTypes
  <2>2. LaneTypes' /\ ShownTypes'
    BY <1>6, BlankIsTyped DEF Restart, LaneTypes, ShownTypes, Resting, LanePcs
  <2>3. ReadTypes'
    BY <1>6, NoGetIsTyped DEF Restart, TypeInv, ReadTypes
  <2>4. ArrivalInv'
    BY <1>6, CasesAre DEF Restart, TypeInv, LoopTypes, ArrivalInv, One, OnItsWay, Arrival, At, Resting, Blank, Loops
  <2>5. QED BY <2>1, <2>2, <2>3, <2>4 DEF TypeInv
<1>7. CASE UNCHANGED vars
  <2>1. UNCHANGED <<lanes, sample, reads, world, feed>>
    BY <1>7 DEF vars
  <2>2. LoopTypes' /\ LaneTypes' /\ ShownTypes' /\ ReadTypes'
    BY <2>1 DEF lanes, reads, world, feed, TypeInv, LoopTypes, LaneTypes, ShownTypes, ReadTypes
  <2>3. ArrivalInv'
    BY <2>1 DEF lanes, world, TypeInv, ArrivalInv, OnItsWay, Arrival, At
  <2>4. QED BY <2>2, <2>3 DEF TypeInv
<1>8. QED BY <1>1, <1>2, <1>3, <1>4, <1>5, <1>6, <1>7 DEF Next

\* The window as the type invariant says it.
LEMMA WindowIs ==
  ASSUME WindowInv
  PROVE  history = [i \in 1..Min({Depth, Newest}) |-> Newest - Min({Depth, Newest}) + i]
<1>1. Newest \in Nat
  BY DEF WindowInv, Newest
<1>2. Min({Depth, Newest}) = Width
  BY <1>1 DEF Min, Width
<1>3. Width \in Nat
  BY <1>1 DEF Width
<1>4. history = [i \in 1..Len(history) |-> history[i]]
  BY DEF WindowInv
<1>5. QED BY <1>2, <1>3, <1>4 DEF WindowInv

------------------------------------------------------------------------------
LEMMA Invariance == Spec => []Inv
<1>1. Inv /\ [Next]_vars => Inv'
  BY WindowStep, PageStep, FeeStep, IdentityStep DEF Inv
<1>2. QED BY Initially, <1>1, PTL DEF Spec

\* Whatever is recorded and evicted while a page is read, and however deep the
\* window, a consumer is given every event of the run or told `reset`.
THEOREM FeedIsWhole == Spec => []FeedNoSilentGap
<1>1. Inv => FeedNoSilentGap
  BY DEF Inv
<1>2. QED BY Invariance, <1>1, PTL

\* The fee on a page is of the decision whose time it carries.
THEOREM FeeNamesItsDecision == Spec => []FeeOfItsDecision
<1>1. Inv => FeeOfItsDecision
  BY DEF Inv, FeeInv, FeeOfItsDecision
<1>2. QED BY Invariance, <1>1, PTL

\* An answer about the identification service is of a read of this request, and
\* one read at most is out, though the service may never answer.
THEOREM OneIdentityRead == Spec => []IdentityIsACheck
<1>1. Inv => IdentityIsACheck
  BY DEF Inv, IdentityInv, IdentityIsACheck
<1>2. QED BY Invariance, <1>1, PTL

\* One decision for a vehicle at most, however it is held, however often the
\* process starts again; and the window is the last events recorded, whole.
THEOREM TypeCorrect == Spec => []TypeOK
<1>1. Inv /\ TypeInv => TypeOK
  <2> SUFFICES ASSUME Inv, TypeInv PROVE TypeOK
    OBVIOUS
  <2>1. history = [i \in 1..Min({Depth, Newest}) |-> Newest - Min({Depth, Newest}) + i]
    BY WindowIs DEF Inv
  <2>2. cursor \in Nat /\ saved \in Nat
    BY DEF Inv, WindowInv, PageInv
  <2>3. shown.decision <= arrivals
    <3>1. shown.decision \in Nat /\ arrivals \in Nat
      BY CasesAre DEF TypeInv, ShownTypes, LoopTypes
    <3>2. shown.decision + One(Arrival) + One(held) + One(OnItsWay) <= arrivals
      BY DEF TypeInv, ArrivalInv
    <3>3. \A b \in BOOLEAN : One(b) \in Nat
      BY DEF One
    <3>4. Arrival \in BOOLEAN /\ held \in BOOLEAN /\ OnItsWay \in BOOLEAN
      BY DEF TypeInv, LoopTypes, Arrival, OnItsWay
    <3>5. One(Arrival) \in Nat /\ One(held) \in Nat /\ One(OnItsWay) \in Nat
      BY <3>3, <3>4
    <3>6. QED BY <3>1, <3>2, <3>5
  <2>4. ReadTypes /\ LoopTypes /\ LaneTypes /\ ShownTypes
    BY DEF TypeInv
  <2>5. history = LET last == IF At("append") THEN cursor - 1 ELSE cursor
                  IN  [i \in 1..Min({Depth, last}) |-> last - Min({Depth, last}) + i]
    BY <2>1 DEF Newest
  <2>6. QED BY <2>2, <2>3, <2>4, <2>5 DEF LoopTypes, LaneTypes, ShownTypes, ReadTypes, Gets, TypeOK
<1>2. TypeInv /\ Inv /\ [Next]_vars => TypeInv'
  BY TypeStep
<1>3. QED BY Invariance, TypesAtFirst, <1>1, <1>2, PTL DEF Spec
==============================================================================
