----------------------------- MODULE OutboxProofs -----------------------------
(***************************************************************************)
(* Proofs about Outbox, for any recorders, bound of the log, chunk, number *)
(* of events and number of restarts.  The inductive invariant is stated in *)
(* parts: what each recorder has in hand (HandInv), what a flush still has *)
(* to deliver (FlushInv), what the disk thread has still to do (DiskInv),  *)
(* and what has become of the log events (LogInv).  The pictures kept      *)
(* beside the events, PictureOutbox, have theirs at the end (PicturesInv). *)
(***************************************************************************)
EXTENDS Outbox, PictureOutbox, FiniteSetTheorems, SequenceTheorems, WellFoundedInduction, TLAPS

Recorded == {n \in Events : kind[n] # "none"}

\* A recorder holds an event of its own, recorded and nowhere else yet.
HasInHand(r) ==
  /\ record[r].stage = "idle" <=> record[r].event = 0
  /\ record[r].stage # "idle" =>
       record[r].event \in Recorded \ (sessions \cup InLog \cup batch \cup platform)
  /\ record[r].stage = "kept" => kind[record[r].event] = "session"
  /\ record[r].stage = "made" => record[r].event \notin disk

HandInv ==
  /\ \A r \in Recorders : HasInHand(r)
  /\ \A r, q \in Recorders : record[r].event = record[q].event /\ record[r].event # 0 => r = q

\* What is answered for is settled and out of memory, but for the log events
\* of a part whose halves are still posted, or were not all heard of; what a
\* flush has still to send is in memory, but for log events dropped since; a
\* session action is sent alone, after the earlier ones of the snapshot; and of
\* a part what is neither posted nor to be posted is answered for.
FlushInv ==
  /\ platform \subseteq Recorded /\ batch \subseteq Recorded
  /\ answered \cap (sessions \cup InLog \cup unsent \cup sending)
       \subseteq halved \cup (sending \cap Of("log"))
  /\ sending \cap unsent = {}
  /\ reached => posting \subseteq platform
  /\ waiting # {} => sending \subseteq Of("log")
  /\ sending \subseteq answered \cup posting \cup UNION waiting
  /\ (unsent \cup sending) \cap Of("session") \subseteq sessions
  /\ batch \cap Of("session") \subseteq answered \cup unsent \cup sending
  /\ \A n \in sending \cap Of("session") :
       /\ sending = {n}
       /\ \A m \in batch \cap Of("session") : m < n => m \in answered

\* The events with a write, and with a removal, still to be done.
ToAdd    == {jobs[i].event : i \in {j \in 1..Len(jobs) : jobs[j].op = "add"}}
ToRemove == {jobs[i].event : i \in {j \in 1..Len(jobs) : jobs[j].op = "remove"}}

\* Settled actions are to be removed, after their write; what memory holds is
\* in the file or to be written.
DiskInv ==
  /\ ToRemove \subseteq platform
  /\ ToRemove \cap sessions = {}
  /\ \A i \in 1..Len(jobs) :
       jobs[i].op = "add" =>
         \/ jobs[i].event \in sessions
         \/ \E r \in Recorders : record[r] = [event |-> jobs[i].event, stage |-> "kept"]
         \/ \E j \in 1..Len(jobs) : i < j /\ jobs[j] = Job("remove", jobs[i].event)
  /\ disk \subseteq sessions \cup InHand \cup unremoved \cup ToRemove
  /\ sessions \subseteq disk \cup unkept \cup ToAdd
  /\ \A r \in Recorders : record[r].stage = "kept" => record[r].event \in disk \cup unkept \cup ToAdd

Inv == TypeOK /\ HandInv /\ FlushInv /\ DiskInv

------------------------------------------------------------------------------
USE DEF recordVars, memoryVars, diskVars, partVars, flushVars, toldVars, Events, Kinds, Stages, Idle, Of, Recorded

Jobs == [op : {"add", "remove"}, event : Of("session")]

\* The first of a set of events is one event of it, before all others.
LEMMA FirstIsFirst ==
  ASSUME NEW S \in SUBSET Events, NEW n \in First(S)
  PROVE  n \in S /\ First(S) = {n} /\ \A m \in S : n <= m
  <1>1. n \in S /\ \A m \in S : n <= m
    BY DEF First
  <1>2. \A m \in First(S) : m \in S /\ m <= n
    BY <1>1 DEF First
  <1>3. \A m \in S : m \in Nat
    BY OutboxAssumption
  <1>4. \A m \in First(S) : m = n
    BY <1>1, <1>2, <1>3
  <1>5. n \in First(S)
    OBVIOUS
  <1>6. First(S) = {n}
    BY <1>4, <1>5
  <1> QED
    BY <1>1, <1>6

\* The events of the log but for its oldest are fewer.
LEMMA OldestLeaves ==
  ASSUME logged \subseteq [event : Of("log"), place : Nat], IsFiniteSet(logged),
         Cardinality(logged) <= LogBound
  PROVE  /\ MadeRoom \subseteq logged
         /\ IsFiniteSet(MadeRoom)
         /\ Cardinality(MadeRoom) < LogBound
  <1> USE OutboxAssumption
  <1>1. MadeRoom \subseteq logged
    BY DEF MadeRoom
  <1>2. IsFiniteSet(MadeRoom) /\ Cardinality(logged) \in Nat /\ Cardinality(MadeRoom) \in Nat
    BY <1>1, FS_Subset, FS_CardinalityType
  <1>3. CASE ~Full
    <2>1. MadeRoom = logged
      BY <1>3 DEF MadeRoom
    <2> QED
      BY <1>1, <1>2, <1>3, <2>1 DEF Full
  <1>4. CASE Full
    <2>1. logged # {}
      BY <1>4, FS_EmptySet DEF Full
    <2> DEFINE places == {entry.place : entry \in logged}
    <2>2. places \subseteq Nat /\ places # {}
      BY <2>1
    <2>3. PICK least \in places : \A p \in places : <<p, least>> \notin OpToRel(<, Nat)
      BY <2>2, WFMin, NatLessThanWellFounded, Zenon
    <2>4. \A p \in places : ~(p < least)
      <3>1. SUFFICES ASSUME NEW p \in places, p < least PROVE FALSE
        OBVIOUS
      <3>2. p \in Nat /\ least \in Nat
        BY <2>2
      <3> QED
        BY <2>3, <3>1, <3>2, Zenon DEF OpToRel
    <2>5. PICK oldest \in logged : oldest.place = least
      OBVIOUS
    <2>6. oldest \notin MadeRoom
      BY <1>4, <2>4, <2>5 DEF MadeRoom
    <2>7. Cardinality(MadeRoom) <= Cardinality(logged) /\ Cardinality(MadeRoom) # Cardinality(logged)
      BY <1>1, <2>6, FS_Subset
    <2> QED
      BY <1>1, <1>2, <2>7
  <1> QED
    BY <1>3, <1>4

\* The types hold at the start.
LEMMA TypeInit == Init => TypeOK
  <1> SUFFICES ASSUME Init PROVE TypeOK
    OBVIOUS
  <1>1. IsFiniteSet(logged) /\ Cardinality(logged) <= LogBound
    BY FS_EmptySet, OutboxAssumption DEF Init
  <1>2. kind \in [Events -> Kinds] /\ record \in [Recorders -> [event : 0..MaxEvents, stage : Stages]]
    BY OutboxAssumption DEF Init
  <1>3. jobs \in Seq(Jobs)
    BY DEF Init
  <1>4. restarts \in 0..MaxRestarts
    BY OutboxAssumption DEF Init
  <1> QED
    BY <1>1, <1>2, <1>3, <1>4 DEF Init, TypeOK, Jobs

\* A full log makes room, and a step of the flush only takes from the log.
LEMMA LogLeftType ==
  ASSUME TypeOK
  PROVE  LogLeft \subseteq logged /\ IsFiniteSet(LogLeft) /\ Cardinality(LogLeft) <= LogBound
  <1>1. LogLeft \subseteq logged /\ IsFiniteSet(logged) /\ Cardinality(logged) <= LogBound
    BY DEF LogLeft, TypeOK
  <1>2. IsFiniteSet(LogLeft) /\ Cardinality(LogLeft) <= Cardinality(logged)
    BY <1>1, FS_Subset
  <1>3. Cardinality(LogLeft) \in Nat /\ Cardinality(logged) \in Nat
    BY <1>1, <1>2, FS_CardinalityType
  <1> QED
    BY <1>1, <1>2, <1>3, OutboxAssumption

\* The removal of a part is of the session action it is, or of nothing.
LEMMA RemovalType ==
  ASSUME Inv, Removal(sending)
  PROVE  /\ disk' = disk /\ jobs' \in Seq(Jobs)
         /\ \/ jobs' = jobs /\ sending \cap Of("session") = {}
            \/ \E n \in Of("session") : sending = {n} /\ jobs' = Append(jobs, Job("remove", n))
  <1>1. CASE sending \cap Of("session") = {}
    BY <1>1 DEF Removal, Inv, TypeOK, Jobs
  <1>2. CASE sending \cap Of("session") # {}
    <2>1. PICK n \in sending \cap Of("session") : sending = {n}
      BY <1>2 DEF Inv, FlushInv
    <2>2. (CHOOSE m \in sending : TRUE) = n
      BY <2>1
    <2>3. jobs' = Append(jobs, Job("remove", n)) /\ disk' = disk
      BY <1>2, <2>2 DEF Removal
    <2>4. Job("remove", n) \in Jobs /\ jobs \in Seq(Jobs)
      BY <2>1 DEF Job, Jobs, Inv, TypeOK
    <2>5. jobs' \in Seq(Jobs)
      BY <2>3, <2>4, AppendProperties
    <2> QED
      BY <2>1, <2>3, <2>5
  <1> QED
    BY <1>1, <1>2

\* The types hold over every step.
LEMMA TypeStep ==
  ASSUME Inv, [Next]_vars
  PROVE  TypeOK'
  <1> USE OutboxAssumption
  <1>1. ASSUME NEW r \in Recorders, Make(r) PROVE TypeOK'
    <2>1. PICK n \in Events, k \in {"session", "log"} :
             /\ kind[n] = "none"
             /\ kind' = [kind EXCEPT ![n] = k]
             /\ record' = [record EXCEPT ![r] = [event |-> n, stage |-> "made"]]
      BY <1>1 DEF Make
    <2>2. kind' \in [Events -> Kinds]
      BY <2>1 DEF Inv, TypeOK
    <2>3. record' \in [Recorders -> [event : 0..MaxEvents, stage : Stages]]
      BY <2>1 DEF Inv, TypeOK
    <2>4. \A which \in {"session", "log"} : Of(which) \subseteq Of(which)'
      BY <2>1 DEF Inv, TypeOK
    <2>5. Jobs \subseteq Jobs' /\ jobs' \in Seq(Jobs)
      BY <1>1, <2>4 DEF Make, Inv, TypeOK, Jobs
    <2>6. jobs' \in Seq(Jobs')
      BY <2>5, SeqMonotonic
    <2>7. logged' \subseteq [event : Of("log")', place : Nat]
      BY <1>1, <2>4 DEF Make, Inv, TypeOK
    <2> QED
      BY <1>1, <2>2, <2>3, <2>4, <2>6, <2>7 DEF Make, Inv, TypeOK, Jobs
  <1>2. ASSUME NEW r \in Recorders, Keep(r) PROVE TypeOK'
    <2>1. record[r].event \in Of("session")
      BY <1>2 DEF Keep, Inv, HandInv, HasInHand, TypeOK
    <2>2. Job("add", record[r].event) \in Jobs /\ jobs \in Seq(Jobs)
      BY <2>1 DEF Job, Jobs, Inv, TypeOK
    <2>3. jobs' \in Seq(Jobs)
      BY <1>2, <2>2, AppendProperties DEF Keep
    <2>4. record' \in [Recorders -> [event : 0..MaxEvents, stage : Stages]]
      BY <1>2 DEF Keep, Inv, TypeOK
    <2> QED
      BY <1>2, <2>3, <2>4 DEF Keep, Inv, TypeOK, Jobs
  <1>3. ASSUME NEW r \in Recorders, AppendSession(r) PROVE TypeOK'
    <2>1. record[r].event \in Of("session")
      BY <1>3 DEF AppendSession, Inv, HandInv, HasInHand, TypeOK
    <2>2. record' \in [Recorders -> [event : 0..MaxEvents, stage : Stages]]
      BY <1>3 DEF AppendSession, Inv, TypeOK
    <2> QED
      BY <1>3, <2>1, <2>2 DEF AppendSession, Inv, TypeOK
  <1>4. ASSUME NEW r \in Recorders, AppendLog(r) PROVE TypeOK'
    <2> DEFINE entry == [event |-> record[r].event, place |-> Cardinality(appended) + 1]
    <2>1. record[r].event \in Of("log")
      BY <1>4 DEF AppendLog, Inv, HandInv, HasInHand, TypeOK
    <2>2. appended \subseteq 1..MaxEvents /\ IsFiniteSet(1..MaxEvents)
      BY FS_Interval DEF Inv, TypeOK
    <2>3. Cardinality(appended) \in Nat
      BY <2>2, FS_Subset, FS_CardinalityType
    <2>4. entry \in [event : Of("log"), place : Nat]
      BY <2>1, <2>3
    <2>5. MadeRoom \subseteq logged /\ IsFiniteSet(MadeRoom) /\ Cardinality(MadeRoom) < LogBound
      BY OldestLeaves DEF Inv, TypeOK
    <2>6. IsFiniteSet(logged') /\ Cardinality(logged') <= Cardinality(MadeRoom) + 1
      <3>1. logged' = MadeRoom \cup {entry} /\ Cardinality(MadeRoom) \in Nat
        BY <1>4, <2>5, FS_CardinalityType DEF AppendLog
      <3>2. /\ IsFiniteSet(MadeRoom \cup {entry})
            /\ Cardinality(MadeRoom \cup {entry})
                 = IF entry \in MadeRoom THEN Cardinality(MadeRoom) ELSE Cardinality(MadeRoom) + 1
        BY <2>5, FS_AddElement
      <3> QED
        BY <3>1, <3>2
    <2>7. Cardinality(logged') <= LogBound
      <3>1. Cardinality(MadeRoom) \in Nat /\ Cardinality(logged') \in Nat
        BY <2>5, <2>6, FS_CardinalityType
      <3> QED
        BY <2>5, <2>6, <3>1
    <2>8. logged' \subseteq [event : Of("log"), place : Nat]
      BY <1>4, <2>4, <2>5 DEF AppendLog, Inv, TypeOK
    <2>9. record' \in [Recorders -> [event : 0..MaxEvents, stage : Stages]]
      BY <1>4 DEF AppendLog, Inv, TypeOK
    <2>10. dropped' \in Nat /\ appended' \subseteq Of("log")
      <3>1. dropped \in Nat /\ appended \subseteq Of("log")
        BY DEF Inv, TypeOK
      <3>2. dropped' = IF Full THEN dropped + 1 ELSE dropped
        BY <1>4 DEF AppendLog
      <3>3. appended' = appended \cup {record[r].event}
        BY <1>4 DEF AppendLog
      <3>4. dropped' \in Nat
        BY <3>1, <3>2
      <3> QED
        BY <2>1, <3>1, <3>3, <3>4
    <2> QED
      BY <1>4, <2>6, <2>7, <2>8, <2>9, <2>10 DEF AppendLog, Inv, TypeOK
  <1>5. CASE Flush
    <2>1. batch' \subseteq Events
      BY <1>5 DEF Flush, InLog, Inv, TypeOK
    <2>2. sending = {}
      BY <1>5 DEF Flush, Inv, TypeOK
    <2> QED
      BY <1>5, <2>1, <2>2 DEF Flush, Inv, TypeOK
  <1>6. CASE Send
    <2>1. sending' \subseteq unsent
      BY <1>6 DEF Send, Part, First
    <2> QED
      BY <1>6, <2>1 DEF Send, Inv, TypeOK
  <1>7. CASE Reach
    BY <1>7 DEF Reach, Inv, TypeOK
  <1>14. CASE Halve
    <2>1. posting' \subseteq posting /\ waiting' = waiting \cup {posting \ Half(posting)}
      BY <1>14 DEF Halve, Half
    <2>2. posting' \subseteq sending' /\ waiting' \subseteq SUBSET sending'
      <3>1. posting \subseteq sending /\ waiting \subseteq SUBSET sending /\ sending' = sending
        BY <1>14 DEF Halve, Inv, TypeOK
      <3>2. posting \ Half(posting) \in SUBSET sending
        BY <3>1
      <3> HIDE DEF Half
      <3> QED
        BY <2>1, <3>1, <3>2
    <2>3. /\ UNCHANGED <<recordVars, memoryVars, diskVars, batch, unsent, sending, reached, platform, toldVars>>
          /\ UNCHANGED <<appended, restarts>>
      BY <1>14 DEF Halve
    <2>4. TypeOK
      BY DEF Inv
    <2> HIDE DEF Inv
    <2> QED
      BY <2>2, <2>3, <2>4 DEF TypeOK
  <1>15. CASE NextHalf
    <2>1. answered' \subseteq platform
      BY <1>15 DEF NextHalf, Inv, FlushInv, TypeOK
    <2>2. posting' \subseteq sending /\ waiting' \subseteq waiting
      BY <1>15 DEF NextHalf, Inv, TypeOK
    <2> QED
      BY <1>15, <2>1, <2>2 DEF NextHalf, Inv, TypeOK
  <1>8. CASE Settled
    <2>1. logged' \subseteq logged /\ IsFiniteSet(logged') /\ Cardinality(logged') <= LogBound
      BY <1>8, LogLeftType DEF Settled, Inv
    <2>2. jobs' \in Seq(Jobs) /\ disk' = disk
      BY <1>8, RemovalType DEF Inv, Settled
    <2>3. sessions' \subseteq sessions
      BY <1>8 DEF Settled, SessionsLeft
    <2>4. answered' \subseteq platform
      BY <1>8 DEF Settled, Inv, FlushInv, TypeOK
    <2>5. /\ unsent' \subseteq batch' /\ batch' \subseteq batch /\ sending' = {} /\ sending' \subseteq batch'
          /\ posting' = {} /\ waiting' = {} /\ reached' = FALSE
      BY <1>8 DEF Settled, Inv, TypeOK
    <2> QED
      BY <1>8, <2>1, <2>2, <2>3, <2>4, <2>5 DEF Settled, Inv, TypeOK, Jobs
  <1>9. CASE Unreachable
    <2>1. halved' \subseteq Of("log")
      <3>1. sending \cap answered \subseteq halved \cup Of("log")
        BY DEF Inv, FlushInv
      <3> QED
        BY <1>9, <3>1 DEF Unreachable, Inv, TypeOK
    <2> QED
      BY <1>9, <2>1 DEF Unreachable, NoMoreParts, Inv, TypeOK
  <1>10. CASE DiskWrites
    <2>1. jobs' \in Seq(Jobs) /\ Head(jobs) \in Jobs
      BY <1>10, HeadTailProperties DEF DiskWrites, Inv, TypeOK, Jobs
    <2> QED
      BY <1>10, <2>1 DEF DiskWrites, Inv, TypeOK, Jobs
  <1>11. CASE DiskFails
    <2>1. jobs' \in Seq(Jobs) /\ Head(jobs) \in Jobs
      BY <1>11, HeadTailProperties DEF DiskFails, Inv, TypeOK, Jobs
    <2> QED
      BY <1>11, <2>1 DEF DiskFails, Inv, TypeOK, Jobs
  <1>12. CASE Restart
    <2>1. IsFiniteSet(logged') /\ Cardinality(logged') <= LogBound /\ jobs' \in Seq(Jobs)
      BY <1>12, FS_EmptySet DEF Restart
    <2>2. record' \in [Recorders -> [event : 0..MaxEvents, stage : Stages]]
      BY <1>12 DEF Restart
    <2>3. restarts' \in 0..MaxRestarts
      BY <1>12 DEF Restart, Inv, TypeOK
    <2>4. /\ kind' \in [Events -> Kinds] /\ sessions' \subseteq Of("session")' /\ disk' \subseteq Of("session")'
          /\ logged' \subseteq [event : Of("log")', place : Nat] /\ platform' \subseteq Events
      BY <1>12 DEF Restart, HeldAtStart, Inv, TypeOK
    <2>5. jobs' \in Seq(Jobs')
      BY <1>12 DEF Restart
    <2> QED
      BY <1>12, <2>1, <2>2, <2>3, <2>4, <2>5 DEF Restart, TypeOK, Jobs
  <1>13. CASE UNCHANGED vars
    <2>1. /\ kind' = kind /\ record' = record /\ sessions' = sessions /\ logged' = logged
          /\ dropped' = dropped /\ jobs' = jobs /\ disk' = disk /\ unkept' = unkept
          /\ unremoved' = unremoved
      BY <1>13 DEF vars
    <2>2. /\ batch' = batch /\ unsent' = unsent /\ sending' = sending /\ reached' = reached
          /\ posting' = posting /\ waiting' = waiting /\ halved' = halved
          /\ platform' = platform /\ answered' = answered /\ appended' = appended
          /\ restarts' = restarts
      BY <1>13 DEF vars
    <2>3. TypeOK
      BY DEF Inv
    <2> QED
      BY <2>1, <2>2, <2>3 DEF TypeOK
  <1> QED
    BY <1>1, <1>2, <1>3, <1>4, <1>5, <1>6, <1>7, <1>8, <1>9, <1>10, <1>11, <1>12, <1>13, <1>14, <1>15 DEF Next, Records

\* The jobs after one more is handed in.
LEMMA JobHandedIn ==
  ASSUME jobs \in Seq(Jobs), NEW op \in {"add", "remove"}, NEW n \in Of("session"),
         jobs' = Append(jobs, Job(op, n))
  PROVE  /\ Len(jobs) \in Nat /\ Len(jobs') = Len(jobs) + 1
         /\ \A i \in 1..Len(jobs) : jobs'[i] = jobs[i]
         /\ jobs'[Len(jobs) + 1] = Job(op, n)
         /\ ToAdd' = IF op = "add" THEN ToAdd \cup {n} ELSE ToAdd
         /\ ToRemove' = IF op = "remove" THEN ToRemove \cup {n} ELSE ToRemove
  <1>1. Job(op, n) \in Jobs
    BY DEF Job, Jobs
  <1>2. /\ Len(jobs) \in Nat /\ Len(jobs') = Len(jobs) + 1
        /\ \A i \in 1..Len(jobs) : jobs'[i] = jobs[i]
        /\ jobs'[Len(jobs) + 1] = Job(op, n)
    BY <1>1, AppendProperties, LenProperties
  <1>3. Job(op, n).op = op /\ Job(op, n).event = n
    BY DEF Job
  <1>4. 1..Len(jobs') = 1..Len(jobs) \cup {Len(jobs) + 1}
    BY <1>2
  <1>5. ToAdd' = IF op = "add" THEN ToAdd \cup {n} ELSE ToAdd
    <2>1. ASSUME NEW m PROVE m \in ToAdd' <=> m \in ToAdd \/ (op = "add" /\ m = n)
      BY <1>2, <1>3, <1>4 DEF ToAdd
    <2> QED
      BY <2>1
  <1>6. ToRemove' = IF op = "remove" THEN ToRemove \cup {n} ELSE ToRemove
    <2>1. ASSUME NEW m PROVE m \in ToRemove' <=> m \in ToRemove \/ (op = "remove" /\ m = n)
      BY <1>2, <1>3, <1>4 DEF ToRemove
    <2> QED
      BY <2>1
  <1> QED
    BY <1>2, <1>5, <1>6

\* The jobs after the disk thread has tried the first.
LEMMA JobTried ==
  ASSUME jobs \in Seq(Jobs), jobs # <<>>, jobs' = Tail(jobs)
  PROVE  /\ Head(jobs) = jobs[1] /\ Head(jobs) \in Jobs
         /\ Len(jobs') \in Nat /\ Len(jobs) = Len(jobs') + 1
         /\ \A i \in 1..Len(jobs') : jobs'[i] = jobs[i + 1]
         /\ ToAdd' \subseteq ToAdd /\ ToRemove' \subseteq ToRemove
         /\ ToAdd \subseteq ToAdd' \cup {n \in {jobs[1].event} : jobs[1].op = "add"}
         /\ ToRemove \subseteq ToRemove' \cup {n \in {jobs[1].event} : jobs[1].op = "remove"}
  <1>1. /\ Head(jobs) = jobs[1] /\ Head(jobs) \in Jobs
        /\ Len(jobs) \in Nat /\ Len(jobs') = Len(jobs) - 1 /\ Len(jobs) > 0
        /\ \A i \in 1..Len(jobs') : jobs'[i] = jobs[i + 1]
    BY HeadTailProperties, LenProperties, EmptySeq
  <1>2. \A i \in 1..Len(jobs) : i = 1 \/ i - 1 \in 1..Len(jobs')
    BY <1>1
  <1>3. \A i \in 1..Len(jobs') : i + 1 \in 1..Len(jobs)
    BY <1>1
  <1>4. ToAdd' \subseteq ToAdd /\ ToRemove' \subseteq ToRemove
    BY <1>1, <1>3 DEF ToAdd, ToRemove
  <1>5. \A i \in 1..Len(jobs) : i # 1 => jobs[i] = jobs'[i - 1]
    BY <1>1, <1>2
  <1>6. ToAdd \subseteq ToAdd' \cup {n \in {jobs[1].event} : jobs[1].op = "add"}
    <2>1. SUFFICES ASSUME NEW n \in ToAdd PROVE n \in ToAdd' \/ (n = jobs[1].event /\ jobs[1].op = "add")
      OBVIOUS
    <2>2. PICK i \in 1..Len(jobs) : jobs[i].op = "add" /\ jobs[i].event = n
      BY DEF ToAdd
    <2>3. CASE i = 1
      BY <2>2, <2>3
    <2>4. CASE i # 1
      <3>1. i - 1 \in 1..Len(jobs') /\ jobs'[i - 1] = jobs[i]
        BY <1>2, <1>5, <2>4
      <3> QED
        BY <2>2, <3>1 DEF ToAdd
    <2> QED
      BY <2>3, <2>4
  <1>7. ToRemove \subseteq ToRemove' \cup {n \in {jobs[1].event} : jobs[1].op = "remove"}
    <2>1. SUFFICES ASSUME NEW n \in ToRemove PROVE n \in ToRemove' \/ (n = jobs[1].event /\ jobs[1].op = "remove")
      OBVIOUS
    <2>2. PICK i \in 1..Len(jobs) : jobs[i].op = "remove" /\ jobs[i].event = n
      BY DEF ToRemove
    <2>3. CASE i = 1
      BY <2>2, <2>3
    <2>4. CASE i # 1
      <3>1. i - 1 \in 1..Len(jobs') /\ jobs'[i - 1] = jobs[i]
        BY <1>2, <1>5, <2>4
      <3> QED
        BY <2>2, <3>1 DEF ToRemove
    <2> QED
      BY <2>3, <2>4
  <1> QED
    BY <1>1, <1>4, <1>6, <1>7

\* The events a flush takes are in memory, and recorded.
LEMMA InLogType ==
  ASSUME TypeOK
  PROVE  InLog \subseteq Of("log")
  BY DEF TypeOK, InLog

\* What each recorder has in hand stays its own over every step.
LEMMA HandStep ==
  ASSUME Inv, [Next]_vars
  PROVE  HandInv'
  <1> USE OutboxAssumption, InLogType
  <1> USE DEF Inv, TypeOK
  <1>d. \A p, q \in Recorders : record[p].event = record[q].event /\ record[p].event # 0 => p = q
    BY DEF HandInv
  <1>1. ASSUME NEW r \in Recorders, Make(r) PROVE HandInv'
    <2>1. PICK n \in Events, k \in {"session", "log"} :
             /\ kind[n] = "none"
             /\ kind' = [kind EXCEPT ![n] = k]
             /\ record' = [record EXCEPT ![r] = [event |-> n, stage |-> "made"]]
      BY <1>1 DEF Make
    <2>2. UNCHANGED <<sessions, logged, batch, platform, disk>>
      BY <1>1 DEF Make
    <2>3. n # 0 /\ n \notin Recorded /\ Recorded \subseteq Recorded' /\ n \in Recorded'
      BY <2>1, SMTT(40)
    <2>4. n \notin sessions \cup InLog \cup batch \cup platform \cup disk
      BY <2>1 DEF FlushInv
    <2>5. InLog' = InLog
      BY <2>2 DEF InLog
    <2>6. \A q \in Recorders : q # r => record'[q] = record[q] /\ record[q].event # n
      BY <2>1, <2>3, SMTT(40) DEF HandInv, HasInHand
    <2>7. record'[r] = [event |-> n, stage |-> "made"]
      BY <2>1
    <2>8. \A q \in Recorders : q # r /\ record[q].stage = "kept" =>
             kind'[record[q].event] = "session"
      BY <2>1, <2>6 DEF HandInv, HasInHand
    <2>9. HasInHand(r)'
      BY <2>2, <2>3, <2>4, <2>5, <2>7 DEF HasInHand
    <2>10. \A q \in Recorders : q # r => HasInHand(q)'
      <3>1. SUFFICES ASSUME NEW q \in Recorders, q # r PROVE HasInHand(q)'
        OBVIOUS
      <3>2. HasInHand(q) /\ record'[q] = record[q]
        BY <2>6, <3>1 DEF HandInv
      <3>3. record[q].stage = "kept" => kind'[record[q].event] = "session"
        BY <2>8, <3>1
      <3>4. /\ sessions' = sessions /\ InLog' = InLog /\ batch' = batch /\ platform' = platform
            /\ disk' = disk
        BY <2>2, <2>5
      <3>5. Recorded \subseteq Recorded'
        BY <2>3
      <3> HIDE DEF Recorded, Inv, TypeOK
      <3> QED
        BY <3>2, <3>3, <3>4, <3>5 DEF HasInHand
    <2>11. \A p, q \in Recorders :
             record'[p].event = record'[q].event /\ record'[p].event # 0 => p = q
      BY ONLY <1>d, <2>6, <2>7
    <2> QED
      BY <2>9, <2>10, <2>11 DEF HandInv
  <1>2. ASSUME NEW r \in Recorders, Keep(r) PROVE HandInv'
    <2>1. UNCHANGED <<kind, sessions, logged, batch, platform, disk>> /\ InLog' = InLog
      BY <1>2 DEF Keep, InLog
    <2>2. /\ record'[r] = [event |-> record[r].event, stage |-> "kept"]
          /\ \A q \in Recorders : q # r => record'[q] = record[q]
          /\ record[r].stage = "made" /\ kind[record[r].event] = "session"
      BY <1>2 DEF Keep
    <2>3. HasInHand(r)'
      BY <2>1, <2>2 DEF HandInv, HasInHand
    <2>4. \A q \in Recorders : q # r => HasInHand(q)'
      BY <2>1, <2>2 DEF HandInv, HasInHand
    <2>5. \A q \in Recorders : record'[q].event = record[q].event
      BY ONLY <2>2
    <2>6. \A p, q \in Recorders :
             record'[p].event = record'[q].event /\ record'[p].event # 0 => p = q
      BY ONLY <1>d, <2>5
    <2> QED
      BY <2>3, <2>4, <2>6 DEF HandInv
  <1>3. ASSUME NEW r \in Recorders, AppendSession(r) PROVE HandInv'
    <2>1. UNCHANGED <<kind, logged, batch, platform, disk>> /\ InLog' = InLog
      BY <1>3 DEF AppendSession, InLog
    <2>2. /\ record'[r] = Idle /\ record[r].stage = "kept"
          /\ \A q \in Recorders : q # r => record'[q] = record[q]
          /\ sessions' = sessions \cup {record[r].event}
      BY <1>3 DEF AppendSession
    <2>3. \A q \in Recorders : q # r /\ record[q].stage # "idle" => record[q].event # record[r].event
      BY <2>2 DEF HandInv, HasInHand
    <2>4. HasInHand(r)'
      BY <2>2 DEF HasInHand
    <2>5. \A q \in Recorders : q # r => HasInHand(q)'
      BY <2>1, <2>2, <2>3 DEF HandInv, HasInHand
    <2>6. \A p, q \in Recorders :
             record'[p].event = record'[q].event /\ record'[p].event # 0 => p = q
      BY ONLY <1>d, <2>2 DEF Idle
    <2> QED
      BY <2>4, <2>5, <2>6 DEF HandInv
  <1>4. ASSUME NEW r \in Recorders, AppendLog(r) PROVE HandInv'
    <2>1. UNCHANGED <<kind, sessions, batch, platform, disk>>
      BY <1>4 DEF AppendLog
    <2>2. /\ record'[r] = Idle /\ record[r].stage = "made"
          /\ \A q \in Recorders : q # r => record'[q] = record[q]
      BY <1>4 DEF AppendLog
    <2>3. InLog' \subseteq InLog \cup {record[r].event}
      BY <1>4, OldestLeaves DEF AppendLog, InLog
    <2>4. \A q \in Recorders : q # r /\ record[q].stage # "idle" => record[q].event # record[r].event
      BY <2>2 DEF HandInv, HasInHand
    <2>5. HasInHand(r)'
      BY <2>2 DEF HasInHand
    <2>6. \A q \in Recorders : q # r => HasInHand(q)'
      BY <2>1, <2>2, <2>3, <2>4 DEF HandInv, HasInHand
    <2>7. \A p, q \in Recorders :
             record'[p].event = record'[q].event /\ record'[p].event # 0 => p = q
      BY ONLY <1>d, <2>2 DEF Idle
    <2> QED
      BY <2>5, <2>6, <2>7 DEF HandInv
  <1>5. CASE Flush
    <2>1. UNCHANGED <<kind, record, sessions, logged, platform, disk>> /\ batch' = sessions \cup InLog
      BY <1>5 DEF Flush
    <2>2. InLog' = InLog
      BY <2>1 DEF InLog
    <2>3. \A q \in Recorders : HasInHand(q)'
      BY <2>1, <2>2 DEF HandInv, HasInHand
    <2>4. \A p, q \in Recorders :
             record'[p].event = record'[q].event /\ record'[p].event # 0 => p = q
      BY ONLY <1>d, <2>1
    <2> QED
      BY <2>3, <2>4 DEF HandInv
  <1>6. CASE Send
    <2>1. UNCHANGED <<kind, record, sessions, logged, batch, platform, disk>>
      BY <1>6 DEF Send
    <2> QED
      BY <2>1 DEF HandInv, HasInHand, InLog
  <1>7. CASE Reach
    <2>1. UNCHANGED <<kind, record, sessions, logged, batch, disk>> /\ platform' = platform \cup posting
      BY <1>7 DEF Reach
    <2>2. posting \subseteq batch /\ InLog' = InLog
      BY <2>1 DEF InLog
    <2> QED
      BY <2>1, <2>2 DEF HandInv, HasInHand
  <1>14. CASE Halve
    <2>1. UNCHANGED <<kind, record, sessions, logged, batch, platform, disk>>
      BY <1>14 DEF Halve
    <2> QED
      BY <2>1 DEF HandInv, HasInHand, InLog
  <1>15. CASE NextHalf
    <2>1. UNCHANGED <<kind, record, sessions, logged, batch, platform, disk>>
      BY <1>15 DEF NextHalf
    <2> QED
      BY <2>1 DEF HandInv, HasInHand, InLog
  <1>8. CASE Settled
    <2>1. UNCHANGED <<kind, record, platform>> /\ batch' \subseteq batch /\ sessions' \subseteq sessions
      BY <1>8 DEF Settled, SessionsLeft
    <2>2. InLog' \subseteq InLog /\ disk' = disk
      BY <1>8, RemovalType DEF Settled, LogLeft, InLog
    <2> QED
      BY <2>1, <2>2 DEF HandInv, HasInHand
  <1>9. CASE Unreachable
    <2>1. UNCHANGED <<kind, record, sessions, logged, platform, disk>> /\ batch' \subseteq batch
      BY <1>9 DEF Unreachable
    <2>2. InLog' = InLog
      BY <2>1 DEF InLog
    <2> QED
      BY <2>1, <2>2 DEF HandInv, HasInHand
  <1>10. CASE DiskWrites
    <2>1. UNCHANGED <<kind, record, sessions, logged, batch, platform>> /\ InLog' = InLog
      BY <1>10 DEF DiskWrites, InLog
    <2>2. \A r \in Recorders : record[r].stage = "made" => record[r].event \notin disk'
      <3>1. SUFFICES ASSUME NEW r \in Recorders, record[r].stage = "made", record[r].event \in disk'
                     PROVE  FALSE
        OBVIOUS
      <3>2. record[r].event \notin disk \cup sessions \cup platform /\ record[r].event # 0
        BY <3>1 DEF HandInv, HasInHand
      <3>3. jobs \in Seq(Jobs) /\ jobs # <<>> /\ jobs' = Tail(jobs)
        BY <1>10 DEF DiskWrites, Jobs
      <3>4. Head(jobs) = jobs[1] /\ 1 \in 1..Len(jobs)
        BY <3>3, JobTried
      <3>5. jobs[1].op = "add" /\ jobs[1].event = record[r].event
        BY <1>10, <3>1, <3>2, <3>4, SMTT(40) DEF DiskWrites
      <3>6. CASE \E q \in Recorders : record[q] = [event |-> jobs[1].event, stage |-> "kept"]
        BY <3>1, <3>2, <3>5, <3>6 DEF HandInv, HasInHand
      <3>7. CASE \E j \in 1..Len(jobs) : 1 < j /\ jobs[j] = Job("remove", jobs[1].event)
        <4>1. PICK j \in 1..Len(jobs) : jobs[j] = Job("remove", jobs[1].event)
          BY <3>7
        <4>2. jobs[j].op = "remove" /\ jobs[j].event = jobs[1].event
          BY <4>1 DEF Job
        <4>3. jobs[1].event \in ToRemove
          BY <4>2 DEF ToRemove
        <4> QED
          BY <3>2, <3>5, <4>3 DEF DiskInv
      <3> QED
        BY <3>2, <3>4, <3>5, <3>6, <3>7 DEF DiskInv
    <2> QED
      BY <2>1, <2>2 DEF HandInv, HasInHand
  <1>11. CASE DiskFails
    <2>1. UNCHANGED <<kind, record, sessions, logged, batch, platform, disk>>
      BY <1>11 DEF DiskFails
    <2> QED
      BY <2>1 DEF HandInv, HasInHand, InLog
  <1>12. CASE Restart
    <2>1. \A r \in Recorders : record'[r] = Idle
      BY <1>12 DEF Restart
    <2> QED
      BY <2>1, SMTT(40) DEF HandInv, HasInHand
  <1>13. CASE UNCHANGED vars
    <2>1. UNCHANGED <<kind, record, sessions, logged, batch, platform, disk>>
      BY <1>13 DEF vars
    <2> QED
      BY <2>1 DEF HandInv, HasInHand, InLog
  <1> QED
    BY <1>1, <1>2, <1>3, <1>4, <1>5, <1>6, <1>7, <1>8, <1>9, <1>10, <1>11, <1>12, <1>13, <1>14, <1>15 DEF Next, Records

\* A part is of the snapshot's rest, and a session action in it is alone in
\* it, and the first.
LEMMA PartShape ==
  ASSUME TypeOK, NEW n \in Part(unsent) \cap Of("session")
  PROVE  Part(unsent) = {n} /\ n \in unsent /\ \A m \in unsent \cap Of("session") : n <= m
  <1>1. Part(unsent) \subseteq unsent /\ unsent \subseteq Events
    BY DEF Part, First, TypeOK
  <1>2. n \in unsent \cap Of("session")
    BY <1>1
  <1>3. Part(unsent) = First(unsent \cap Of("session"))
    BY <1>2, Zenon DEF Part
  <1>4. unsent \cap Of("session") \in SUBSET Events
    BY <1>1
  <1> QED
    BY <1>2, <1>3, <1>4, FirstIsFirst

\* What the flush has to deliver keeps its shape over every step.
LEMMA FlushStep ==
  ASSUME Inv, [Next]_vars
  PROVE  FlushInv'
  <1> USE OutboxAssumption, InLogType
  <1>0. TypeOK /\ HandInv /\ FlushInv
    BY DEF Inv
  <1>k. Of("session") \subseteq Recorded /\ Of("log") \cap Of("session") = {}
    OBVIOUS
  <1>1. ASSUME NEW r \in Recorders, Make(r) PROVE FlushInv'
    <2>1. PICK n \in Events, k \in {"session", "log"} :
             kind[n] = "none" /\ kind' = [kind EXCEPT ![n] = k]
      BY <1>1 DEF Make
    <2>2. /\ sessions' = sessions /\ logged' = logged /\ batch' = batch /\ unsent' = unsent
          /\ sending' = sending /\ posting' = posting /\ waiting' = waiting /\ reached' = reached
          /\ platform' = platform /\ answered' = answered /\ halved' = halved
      BY <1>1 DEF Make
    <2>3. \A m \in Recorded : kind'[m] = kind[m]
      BY <1>0, <2>1 DEF TypeOK
    <2>4. /\ Recorded \subseteq Recorded'
          /\ \A m \in Recorded : m \in Of("session")' <=> m \in Of("session")
          /\ \A m \in Recorded : m \in Of("log")' <=> m \in Of("log")
      BY <2>3
    <2>5. InLog' = InLog
      BY <2>2 DEF InLog
    <2>6. batch \subseteq Recorded /\ unsent \subseteq Recorded /\ sending \subseteq Recorded
      BY <1>0 DEF TypeOK, FlushInv
    <2> HIDE DEF Of, Recorded
    <2> QED
      BY <1>0, <2>2, <2>4, <2>5, <2>6 DEF FlushInv
  <1>2. ASSUME NEW r \in Recorders, Keep(r) PROVE FlushInv'
    BY <1>0, <1>2 DEF Keep, FlushInv, InLog
  <1>3. ASSUME NEW r \in Recorders, AppendSession(r) PROVE FlushInv'
    <2>1. record[r].event \notin answered
      BY <1>0, <1>3 DEF AppendSession, HandInv, HasInHand, TypeOK
    <2> QED
      BY <1>0, <1>3, <2>1 DEF AppendSession, FlushInv, InLog
  <1>4. ASSUME NEW r \in Recorders, AppendLog(r) PROVE FlushInv'
    <2>1. record[r].event \notin answered
      BY <1>0, <1>4 DEF AppendLog, HandInv, HasInHand, TypeOK
    <2>2. InLog' \subseteq InLog \cup {record[r].event}
      BY <1>0, <1>4, OldestLeaves DEF AppendLog, InLog, TypeOK
    <2> QED
      BY <1>0, <1>4, <2>1, <2>2 DEF AppendLog, FlushInv
  <1>5. CASE Flush
    <2>1. /\ batch' = sessions \cup InLog /\ unsent' = batch' /\ sending' = sending /\ batch = {}
          /\ kind' = kind /\ sessions' = sessions /\ logged' = logged
          /\ platform' = platform /\ answered' = answered /\ halved' = halved
          /\ posting' = posting /\ waiting' = waiting /\ reached' = reached
      BY <1>5 DEF Flush
    <2>2. sending = {} /\ InLog' = InLog
      BY <1>0, <2>1 DEF TypeOK, InLog
    <2>3. InLog \subseteq Of("log") /\ sessions \subseteq Of("session")
      BY <1>0 DEF TypeOK
    <2> QED
      BY <1>0, <1>k, <2>1, <2>2, <2>3 DEF FlushInv
  <1>6. CASE Send
    <2>1. /\ sending' = Part(unsent) /\ unsent' = unsent \ Part(unsent) /\ reached' = FALSE
          /\ kind' = kind /\ sessions' = sessions /\ logged' = logged /\ batch' = batch
          /\ platform' = platform /\ answered' = answered /\ halved' = halved /\ sending = {}
          /\ posting' = Part(unsent) /\ waiting' = {}
      BY <1>6 DEF Send
    <2>2. Part(unsent) \subseteq unsent /\ InLog' = InLog
      BY <2>1 DEF Part, First, InLog
    <2>3. \A n \in Part(unsent) \cap Of("session") :
             /\ Part(unsent) = {n}
             /\ \A m \in batch \cap Of("session") : m < n => m \in answered
      <3>1. SUFFICES ASSUME NEW n \in Part(unsent) \cap Of("session"),
                            NEW m \in batch \cap Of("session"), m < n, m \notin answered
                     PROVE  FALSE
        BY <1>0, PartShape
      <3>2. m \in unsent \cap Of("session")
        BY <1>0, <2>1, <3>1 DEF FlushInv
      <3>3. n <= m /\ n \in Nat /\ m \in Nat
        BY <1>0, <3>2, PartShape
      <3> QED
        BY <3>1, <3>3
    <2>4. /\ platform' \subseteq Recorded' /\ batch' \subseteq Recorded'
          /\ answered' \cap (sessions' \cup InLog' \cup unsent' \cup sending') \subseteq halved'
          /\ sending' \cap unsent' = {}
      BY <1>0, <2>1, <2>2 DEF FlushInv
    <2>5. /\ (unsent' \cup sending') \cap Of("session")' \subseteq sessions'
          /\ batch' \cap Of("session")' \subseteq answered' \cup unsent' \cup sending'
      BY <1>0, <2>1, <2>2 DEF FlushInv
    <2> QED
      BY <2>1, <2>3, <2>4, <2>5 DEF FlushInv
  <1>7. CASE Reach
    <2>1. posting \subseteq Recorded
      BY <1>0 DEF TypeOK, FlushInv
    <2> QED
      BY <1>0, <1>7, <2>1 DEF Reach, FlushInv, InLog
  <1>14. CASE Halve
    <2>1. /\ posting' = Half(posting) /\ waiting' = waiting \cup {posting \ Half(posting)}
          /\ sending \subseteq Of("log") /\ reached = FALSE
      BY <1>0, <1>14 DEF Halve, TypeOK
    <2>2. posting \cup UNION waiting \subseteq posting' \cup UNION waiting'
      <3>1. posting \subseteq posting' \cup UNION waiting'
        BY <2>1
      <3> QED
        BY <2>1, <3>1
    <2>3. /\ kind' = kind /\ sessions' = sessions /\ logged' = logged /\ batch' = batch /\ unsent' = unsent
          /\ sending' = sending /\ reached' = reached
          /\ platform' = platform /\ answered' = answered /\ halved' = halved
      BY <1>14 DEF Halve
    <2>4. InLog' = InLog
      BY <2>3 DEF InLog
    <2> QED
      BY <1>0, <2>1, <2>2, <2>3, <2>4 DEF FlushInv
  <1>15. CASE NextHalf
    <2>1. PICK next \in waiting : posting' = next /\ waiting' = waiting \ {next}
      BY <1>15 DEF NextHalf
    <2>2. sending \subseteq Of("log") /\ posting \subseteq sending
      BY <1>0, <2>1 DEF FlushInv, TypeOK
    <2>3. UNION waiting \subseteq posting' \cup UNION waiting'
      BY <2>1
    <2>4. /\ kind' = kind /\ sessions' = sessions /\ logged' = logged /\ batch' = batch /\ unsent' = unsent
          /\ sending' = sending /\ reached' = FALSE
          /\ platform' = platform /\ answered' = answered \cup posting /\ halved' = halved
      BY <1>15 DEF NextHalf
    <2>5. InLog' = InLog
      BY <2>4 DEF InLog
    <2>6. answered' \cap (sessions' \cup InLog' \cup unsent' \cup sending')
            \subseteq halved' \cup (sending' \cap Of("log")')
      BY <1>0, <2>2, <2>4, <2>5 DEF FlushInv
    <2>7. sending' \subseteq answered' \cup posting' \cup UNION waiting'
      BY <1>0, <2>3, <2>4 DEF FlushInv
    <2>8. \A n \in sending' \cap Of("session")' : FALSE
      BY <1>k, <2>2, <2>4
    <2> QED
      BY <1>0, <2>2, <2>4, <2>6, <2>7, <2>8 DEF FlushInv
  <1>8. CASE Settled
    <2>1. /\ sessions' = sessions \ sending /\ answered' = answered \cup sending /\ sending' = {}
          /\ posting' = {} /\ waiting' = {} /\ reached' = FALSE /\ halved' = halved
          /\ batch' = (IF unsent = {} THEN {} ELSE batch) /\ unsent' = unsent
          /\ kind' = kind /\ platform' = platform
      BY <1>8 DEF Settled, SessionsLeft
    <2>2. InLog' = InLog \ sending
      BY <1>8 DEF Settled, LogLeft, InLog
    <2> QED
      BY <1>0, <2>1, <2>2 DEF FlushInv, TypeOK
  <1>9. CASE Unreachable
    BY <1>0, <1>9 DEF Unreachable, NoMoreParts, FlushInv, InLog
  <1>10. CASE DiskWrites
    BY <1>0, <1>10 DEF DiskWrites, FlushInv, InLog
  <1>11. CASE DiskFails
    BY <1>0, <1>11 DEF DiskFails, FlushInv, InLog
  <1>12. CASE Restart
    BY <1>0, <1>12 DEF Restart, FlushInv, InLog
  <1>13. CASE UNCHANGED vars
    BY <1>0, <1>13 DEF vars, FlushInv, InLog
  <1> QED
    BY <1>1, <1>2, <1>3, <1>4, <1>5, <1>6, <1>7, <1>8, <1>9, <1>10, <1>11, <1>12, <1>13, <1>14, <1>15 DEF Next, Records

\* What the disk thread has to do matches memory and the file over every step.
LEMMA DiskStep ==
  ASSUME Inv, [Next]_vars
  PROVE  DiskInv'
  <1> USE OutboxAssumption
  <1>0. TypeOK /\ HandInv /\ FlushInv /\ DiskInv
    BY DEF Inv
  <1>j. jobs \in Seq(Jobs) /\ Len(jobs) \in Nat
    BY <1>0, LenProperties DEF TypeOK, Jobs
  <1>1. ASSUME NEW r \in Recorders, Make(r) PROVE DiskInv'
    <2>1. /\ jobs' = jobs /\ sessions' = sessions /\ disk' = disk /\ unkept' = unkept
          /\ unremoved' = unremoved /\ platform' = platform
      BY <1>1 DEF Make
    <2>2. /\ record[r].stage = "idle" /\ record'[r].stage = "made"
          /\ \A q \in Recorders : q # r => record'[q] = record[q]
      BY <1>0, <1>1 DEF Make, TypeOK
    <2>3. record[r].event = 0
      BY <1>0, <2>2 DEF HandInv, HasInHand
    <2>4. InHand \subseteq InHand'
      BY <2>2, <2>3 DEF InHand
    <2>5. \A e : (\E q \in Recorders : record[q] = [event |-> e, stage |-> "kept"])
              => \E q \in Recorders : record'[q] = [event |-> e, stage |-> "kept"]
      BY <2>2
    <2> QED
      BY <1>0, <2>1, <2>2, <2>4, <2>5 DEF DiskInv, ToAdd, ToRemove
  <1>2. ASSUME NEW r \in Recorders, Keep(r) PROVE DiskInv'
    <2> DEFINE n == record[r].event
    <2>1. /\ sessions' = sessions /\ disk' = disk /\ unkept' = unkept
          /\ unremoved' = unremoved /\ platform' = platform /\ jobs' = Append(jobs, Job("add", n))
      BY <1>2 DEF Keep
    <2>2. /\ record[r].stage = "made" /\ record'[r] = [event |-> n, stage |-> "kept"]
          /\ \A q \in Recorders : q # r => record'[q] = record[q]
      BY <1>0, <1>2 DEF Keep, TypeOK
    <2>3. n \in Of("session") /\ n \notin platform
      BY <1>0, <1>2 DEF Keep, HandInv, HasInHand
    <2>4. InHand' = InHand
      BY <2>2 DEF InHand
    <2>5. /\ Len(jobs') = Len(jobs) + 1
          /\ \A i \in 1..Len(jobs) : jobs'[i] = jobs[i]
          /\ jobs'[Len(jobs) + 1] = Job("add", n)
          /\ ToAdd' = ToAdd \cup {n} /\ ToRemove' = ToRemove
      BY <1>j, <2>1, <2>3, JobHandedIn
    <2>6. ASSUME NEW i \in 1..Len(jobs'), jobs'[i].op = "add"
          PROVE  \/ jobs'[i].event \in sessions'
                 \/ \E q \in Recorders : record'[q] = [event |-> jobs'[i].event, stage |-> "kept"]
                 \/ \E j \in 1..Len(jobs') : i < j /\ jobs'[j] = Job("remove", jobs'[i].event)
      <3>1. CASE i \in 1..Len(jobs)
        <4>1. jobs'[i] = jobs[i]
          BY <2>5, <3>1
        <4>2. CASE jobs[i].event \in sessions
          BY <2>1, <4>1, <4>2
        <4>3. CASE \E q \in Recorders : record[q] = [event |-> jobs[i].event, stage |-> "kept"]
          BY <2>2, <4>1, <4>3
        <4>4. CASE \E j \in 1..Len(jobs) : i < j /\ jobs[j] = Job("remove", jobs[i].event)
          BY <1>j, <2>5, <4>1, <4>4
        <4> QED
          BY <1>0, <2>6, <3>1, <4>1, <4>2, <4>3, <4>4 DEF DiskInv
      <3>2. CASE i = Len(jobs) + 1
        <4>1. jobs'[i].event = n
          BY <2>5, <3>2 DEF Job
        <4> QED
          BY <2>2, <4>1
      <3> QED
        BY <1>j, <2>5, <3>1, <3>2
    <2>7. \A q \in Recorders : record'[q].stage = "kept" => record'[q].event \in disk' \cup unkept' \cup ToAdd'
      BY <1>0, <2>1, <2>2, <2>5 DEF DiskInv
    <2> QED
      BY <1>0, <2>1, <2>4, <2>5, <2>6, <2>7 DEF DiskInv
  <1>3. ASSUME NEW r \in Recorders, AppendSession(r) PROVE DiskInv'
    <2> DEFINE n == record[r].event
    <2>1. /\ sessions' = sessions \cup {n} /\ disk' = disk /\ unkept' = unkept
          /\ unremoved' = unremoved /\ platform' = platform /\ jobs' = jobs
      BY <1>3 DEF AppendSession
    <2>2. /\ record[r].stage = "kept" /\ record'[r] = Idle
          /\ \A q \in Recorders : q # r => record'[q] = record[q]
      BY <1>0, <1>3 DEF AppendSession, TypeOK
    <2>3. n \notin platform
      BY <1>0, <2>2 DEF HandInv, HasInHand
    <2>4. InHand \subseteq InHand' \cup {n}
      BY <2>2 DEF InHand
    <2>5. ToAdd' = ToAdd /\ ToRemove' = ToRemove
      BY <2>1 DEF ToAdd, ToRemove
    <2>6. n \in disk \cup unkept \cup ToAdd
      BY <1>0, <2>2 DEF DiskInv
    <2>7. \A e : (\E q \in Recorders : record[q] = [event |-> e, stage |-> "kept"])
              => e \in sessions' \/ \E q \in Recorders : record'[q] = [event |-> e, stage |-> "kept"]
      <3>1. SUFFICES ASSUME NEW e, NEW q \in Recorders, record[q] = [event |-> e, stage |-> "kept"]
                     PROVE  e \in sessions' \/ \E p \in Recorders : record'[p] = [event |-> e, stage |-> "kept"]
        OBVIOUS
      <3>2. CASE q = r
        BY <2>1, <3>1, <3>2
      <3>3. CASE q # r
        BY <2>2, <3>1, <3>3
      <3> QED
        BY <3>2, <3>3
    <2>8. ToRemove' \cap sessions' = {} /\ ToRemove' \subseteq platform'
      BY <1>0, <2>1, <2>3, <2>5 DEF DiskInv
    <2>9. \A i \in 1..Len(jobs') :
             jobs'[i].op = "add" =>
               \/ jobs'[i].event \in sessions'
               \/ \E q \in Recorders : record'[q] = [event |-> jobs'[i].event, stage |-> "kept"]
               \/ \E j \in 1..Len(jobs') : i < j /\ jobs'[j] = Job("remove", jobs'[i].event)
      BY <1>0, <2>1, <2>7 DEF DiskInv
    <2>10. /\ disk' \subseteq sessions' \cup InHand' \cup unremoved' \cup ToRemove'
           /\ sessions' \subseteq disk' \cup unkept' \cup ToAdd'
      BY <1>0, <2>1, <2>4, <2>5, <2>6 DEF DiskInv
    <2>11. \A q \in Recorders : record'[q].stage = "kept" => record'[q].event \in disk' \cup unkept' \cup ToAdd'
      BY <1>0, <2>1, <2>2, <2>5 DEF DiskInv, Idle
    <2> QED
      BY <2>8, <2>9, <2>10, <2>11 DEF DiskInv
  <1>4. ASSUME NEW r \in Recorders, AppendLog(r) PROVE DiskInv'
    <2> DEFINE n == record[r].event
    <2>1. /\ sessions' = sessions /\ disk' = disk /\ unkept' = unkept
          /\ unremoved' = unremoved /\ platform' = platform /\ jobs' = jobs
      BY <1>4 DEF AppendLog
    <2>2. /\ record[r].stage = "made" /\ record'[r] = Idle
          /\ \A q \in Recorders : q # r => record'[q] = record[q]
      BY <1>0, <1>4 DEF AppendLog, TypeOK
    <2>3. InHand \subseteq InHand' \cup {n} /\ n \notin disk
      BY <1>0, <2>2 DEF InHand, HandInv, HasInHand
    <2>4. \A e : (\E q \in Recorders : record[q] = [event |-> e, stage |-> "kept"])
              => \E q \in Recorders : record'[q] = [event |-> e, stage |-> "kept"]
      BY <2>2
    <2>5. ToAdd' = ToAdd /\ ToRemove' = ToRemove
      BY <2>1 DEF ToAdd, ToRemove
    <2>6. \A q \in Recorders : record'[q].stage = "kept" => record'[q].event \in disk' \cup unkept' \cup ToAdd'
      BY <1>0, <2>1, <2>2, <2>5 DEF DiskInv, Idle
    <2>7. disk' \subseteq sessions' \cup InHand' \cup unremoved' \cup ToRemove'
      BY <1>0, <2>1, <2>3, <2>5 DEF DiskInv
    <2> QED
      BY <1>0, <2>1, <2>4, <2>5, <2>6, <2>7 DEF DiskInv
  <1>5. ASSUME \/ Flush \/ Send \/ Halve \/ Reach \/ NextHalf \/ Unreachable \/ UNCHANGED vars PROVE DiskInv'
    <2>1. /\ sessions' = sessions /\ disk' = disk /\ unkept' = unkept
          /\ unremoved' = unremoved /\ jobs' = jobs /\ record' = record /\ platform \subseteq platform'
      BY <1>5 DEF Flush, Send, Halve, Reach, NextHalf, Unreachable, vars
    <2>2. InHand' = InHand /\ ToAdd' = ToAdd /\ ToRemove' = ToRemove
      BY <2>1 DEF InHand, ToAdd, ToRemove
    <2> QED
      BY <1>0, <2>1, <2>2 DEF DiskInv
  <1>6. CASE Settled
    <2>1. /\ sessions' = sessions \ sending /\ unkept' = unkept /\ unremoved' = unremoved
          /\ record' = record /\ platform' = platform /\ sending \subseteq platform
      BY <1>0, <1>6 DEF Settled, SessionsLeft, FlushInv, TypeOK
    <2>2. InHand' = InHand
      BY <2>1 DEF InHand
    <2>3. disk' = disk
      BY <1>6, RemovalType DEF Settled
    <2>4. CASE jobs' = jobs /\ sending \cap Of("session") = {}
      <3>1. sessions' = sessions
        BY <1>0, <2>1, <2>4 DEF TypeOK
      <3>2. ToAdd' = ToAdd /\ ToRemove' = ToRemove
        BY <2>4 DEF ToAdd, ToRemove
      <3> QED
        BY <1>0, <2>1, <2>2, <2>3, <2>4, <3>1, <3>2 DEF DiskInv
    <2>5. ASSUME NEW n \in Of("session"), sending = {n}, jobs' = Append(jobs, Job("remove", n))
          PROVE  DiskInv'
      <3>1. /\ Len(jobs') = Len(jobs) + 1
            /\ \A i \in 1..Len(jobs) : jobs'[i] = jobs[i]
            /\ jobs'[Len(jobs) + 1] = Job("remove", n)
            /\ ToAdd' = ToAdd /\ ToRemove' = ToRemove \cup {n}
        BY <1>j, <2>5, JobHandedIn
      <3>2. ASSUME NEW i \in 1..Len(jobs'), jobs'[i].op = "add"
            PROVE  \/ jobs'[i].event \in sessions'
                   \/ \E q \in Recorders : record'[q] = [event |-> jobs'[i].event, stage |-> "kept"]
                   \/ \E j \in 1..Len(jobs') : i < j /\ jobs'[j] = Job("remove", jobs'[i].event)
        <4>1. i # Len(jobs) + 1
          BY <3>1, <3>2 DEF Job
        <4>2. i \in 1..Len(jobs) /\ jobs'[i] = jobs[i]
          BY <1>j, <3>1, <4>1
        <4>3. CASE jobs[i].event \in sessions
          <5>1. CASE jobs[i].event = n
            <6>1. Len(jobs) + 1 \in 1..Len(jobs') /\ i < Len(jobs) + 1
              BY <1>j, <3>1, <4>2
            <6> QED
              BY <3>1, <4>2, <5>1, <6>1
          <5>2. CASE jobs[i].event # n
            BY <2>1, <2>5, <4>2, <4>3, <5>2
          <5> QED
            BY <5>1, <5>2
        <4>4. CASE \E q \in Recorders : record[q] = [event |-> jobs[i].event, stage |-> "kept"]
          BY <2>1, <4>2, <4>4
        <4>5. CASE \E j \in 1..Len(jobs) : i < j /\ jobs[j] = Job("remove", jobs[i].event)
          BY <1>j, <3>1, <4>2, <4>5
        <4> QED
          BY <1>0, <3>2, <4>2, <4>3, <4>4, <4>5 DEF DiskInv
      <3>3. ToRemove' \subseteq platform' /\ ToRemove' \cap sessions' = {}
        BY <1>0, <2>1, <2>5, <3>1 DEF DiskInv
      <3>4. /\ disk' \subseteq sessions' \cup InHand' \cup unremoved' \cup ToRemove'
            /\ sessions' \subseteq disk' \cup unkept' \cup ToAdd'
        BY <1>0, <2>1, <2>2, <2>3, <2>5, <3>1 DEF DiskInv
      <3>5. \A q \in Recorders : record'[q].stage = "kept" => record'[q].event \in disk' \cup unkept' \cup ToAdd'
        BY <1>0, <2>1, <2>3, <3>1 DEF DiskInv
      <3> QED
        BY <3>2, <3>3, <3>4, <3>5 DEF DiskInv
    <2> QED
      BY <1>6, <2>4, <2>5, RemovalType DEF Settled
  <1>7. ASSUME DiskWrites \/ DiskFails PROVE DiskInv'
    <2>1. /\ sessions' = sessions /\ record' = record /\ platform' = platform
          /\ jobs # <<>> /\ jobs' = Tail(jobs)
      BY <1>7 DEF DiskWrites, DiskFails
    <2>2. /\ Head(jobs) = jobs[1] /\ Head(jobs) \in Jobs
          /\ Len(jobs') \in Nat /\ Len(jobs) = Len(jobs') + 1
          /\ \A i \in 1..Len(jobs') : jobs'[i] = jobs[i + 1]
          /\ ToAdd' \subseteq ToAdd /\ ToRemove' \subseteq ToRemove
          /\ ToAdd \subseteq ToAdd' \cup {n \in {jobs[1].event} : jobs[1].op = "add"}
          /\ ToRemove \subseteq ToRemove' \cup {n \in {jobs[1].event} : jobs[1].op = "remove"}
      BY <1>j, <2>1, JobTried
    <2>3. InHand' = InHand
      BY <2>1 DEF InHand
    <2>4. 1 \in 1..Len(jobs) /\ \A i \in 1..Len(jobs') : i + 1 \in 1..Len(jobs)
      BY <2>2
    <2>5. ASSUME NEW i \in 1..Len(jobs), jobs[i].op = "add"
          PROVE  \/ jobs[i].event \in sessions
                 \/ \E q \in Recorders : record[q] = [event |-> jobs[i].event, stage |-> "kept"]
                 \/ \E j \in 1..Len(jobs') : i < j + 1 /\ jobs'[j] = Job("remove", jobs[i].event)
      <3>1. CASE \E j \in 1..Len(jobs) : i < j /\ jobs[j] = Job("remove", jobs[i].event)
        <4>1. PICK j \in 1..Len(jobs) : i < j /\ jobs[j] = Job("remove", jobs[i].event)
          BY <3>1
        <4>2. j - 1 \in 1..Len(jobs') /\ i < (j - 1) + 1 /\ jobs'[j - 1] = jobs[(j - 1) + 1] /\ (j - 1) + 1 = j
          BY <2>2, <4>1
        <4> QED
          BY <4>1, <4>2
      <3> QED
        BY <1>0, <2>5, <3>1 DEF DiskInv
    <2>6. ASSUME NEW i \in 1..Len(jobs'), jobs'[i].op = "add"
          PROVE  \/ jobs'[i].event \in sessions'
                 \/ \E q \in Recorders : record'[q] = [event |-> jobs'[i].event, stage |-> "kept"]
                 \/ \E j \in 1..Len(jobs') : i < j /\ jobs'[j] = Job("remove", jobs'[i].event)
      <3>1. i + 1 \in 1..Len(jobs) /\ jobs'[i] = jobs[i + 1] /\ jobs[i + 1].op = "add"
        BY <2>2, <2>4, <2>6
      <3>2. \A j \in 1..Len(jobs') : i + 1 < j + 1 => i < j
        BY <2>2
      <3> QED
        BY <2>1, <2>5, <3>1, <3>2
    <2>7. jobs[1].op = "add" =>
            jobs[1].event \in sessions \cup InHand \cup ToRemove'
      <3>1. SUFFICES ASSUME jobs[1].op = "add" PROVE jobs[1].event \in sessions \cup InHand \cup ToRemove'
        OBVIOUS
      <3>2. CASE \E q \in Recorders : record[q] = [event |-> jobs[1].event, stage |-> "kept"]
        <4>1. PICK q \in Recorders : record[q] = [event |-> jobs[1].event, stage |-> "kept"]
          BY <3>2
        <4>2. record[q].event = jobs[1].event /\ record[q].stage = "kept"
          BY <4>1
        <4>3. jobs[1].event # 0
          BY <1>0, <4>2 DEF HandInv, HasInHand
        <4> QED
          BY <4>2, <4>3 DEF InHand
      <3>3. CASE \E j \in 1..Len(jobs') : 1 < j + 1 /\ jobs'[j] = Job("remove", jobs[1].event)
        <4>1. PICK j \in 1..Len(jobs') : jobs'[j] = Job("remove", jobs[1].event)
          BY <3>3
        <4>2. jobs'[j].op = "remove" /\ jobs'[j].event = jobs[1].event
          BY <4>1 DEF Job
        <4> QED
          BY <4>2 DEF ToRemove
      <3> QED
        BY <2>4, <2>5, <3>1, <3>2, <3>3
    <2>8. \/ /\ jobs[1].op = "add" /\ disk' = disk \cup {jobs[1].event}
             /\ unkept' = unkept /\ unremoved' = unremoved
          \/ /\ jobs[1].op = "remove" /\ disk' = disk \ {jobs[1].event}
             /\ unkept' = unkept /\ unremoved' = unremoved
          \/ /\ jobs[1].op = "add" /\ disk' = disk
             /\ unkept' = unkept \cup {jobs[1].event} /\ unremoved' = unremoved
          \/ /\ jobs[1].op = "remove" /\ disk' = disk
             /\ unkept' = unkept /\ unremoved' = unremoved \cup {jobs[1].event}
      BY <1>7, <2>2 DEF DiskWrites, DiskFails
    <2>9. jobs[1].op = "remove" => jobs[1].event \in ToRemove
      BY <2>4 DEF ToRemove
    <2>10. disk' \subseteq sessions' \cup InHand' \cup unremoved' \cup ToRemove'
      BY <1>0, <2>1, <2>2, <2>3, <2>7, <2>8 DEF DiskInv
    <2>11. sessions' \subseteq disk' \cup unkept' \cup ToAdd'
      BY <1>0, <2>1, <2>2, <2>8, <2>9 DEF DiskInv
    <2>12. \A q \in Recorders : record'[q].stage = "kept" => record'[q].event \in disk' \cup unkept' \cup ToAdd'
      <3>1. SUFFICES ASSUME NEW q \in Recorders, record[q].stage = "kept"
                     PROVE  record[q].event \in disk' \cup unkept' \cup ToAdd'
        BY <2>1
      <3>2. record[q].event \in disk \cup unkept \cup ToAdd /\ record[q].event \notin platform
        BY <1>0, <3>1 DEF DiskInv, HandInv, HasInHand
      <3> QED
        BY <1>0, <2>2, <2>8, <2>9, <3>2 DEF DiskInv
    <2>13. ToRemove' \subseteq platform' /\ ToRemove' \cap sessions' = {}
      BY <1>0, <2>1, <2>2 DEF DiskInv
    <2> QED
      BY <2>6, <2>10, <2>11, <2>12, <2>13 DEF DiskInv
  <1>8. CASE Restart
    <2>1. /\ jobs' = <<>> /\ sessions' = disk /\ disk' = disk /\ unkept' = {} /\ unremoved' = {}
          /\ \A r \in Recorders : record'[r].stage = "idle"
      BY <1>8 DEF Restart, HeldAtStart
    <2>2. Len(jobs') = 0
      BY <2>1
    <2>3. ToAdd' = {} /\ ToRemove' = {}
      BY <2>2 DEF ToAdd, ToRemove
    <2> QED
      BY <2>1, <2>2, <2>3 DEF DiskInv
  <1> QED
    BY <1>1, <1>2, <1>3, <1>4, <1>5, <1>6, <1>7, <1>8 DEF Next, Records

\* The invariant holds at the start.
LEMMA InvInit == Init => Inv
  <1> SUFFICES ASSUME Init PROVE Inv
    OBVIOUS
  <1>1. TypeOK
    BY TypeInit
  <1>2. HandInv
    BY DEF Init, HandInv, HasInHand
  <1>3. FlushInv
    BY DEF Init, FlushInv, InLog
  <1>4. jobs = <<>> /\ Len(jobs) = 0
    BY DEF Init
  <1>5. ToAdd = {} /\ ToRemove = {}
    BY <1>4 DEF ToAdd, ToRemove
  <1>6. DiskInv
    BY <1>4, <1>5 DEF Init, DiskInv
  <1> QED
    BY <1>1, <1>2, <1>3, <1>6 DEF Inv

\* The invariant holds in every state.
LEMMA Invariance == Spec => []Inv
  <1>1. Inv /\ [Next]_vars => Inv'
    BY TypeStep, HandStep, FlushStep, DiskStep DEF Inv
  <1> QED
    BY InvInit, <1>1, PTL DEF Spec

\* Every variable stays within its type: what memory, the file and the disk
\* thread hold as session actions are session actions, and a full log drops
\* its oldest (EventQueue, DiskWriter).
THEOREM TypeCorrect == Spec => []TypeOK
  <1>1. Inv => TypeOK
    BY DEF Inv
  <1> QED
    BY Invariance, <1>1, PTL

\* Once the disk thread has done its jobs, the file holds what memory holds,
\* but for the jobs that failed (EventQueue._keep, _remove).
THEOREM FileFollows == Spec => []DiskFollowsMemory
  <1>1. ASSUME Inv PROVE DiskFollowsMemory
    <2>1. SUFFICES ASSUME jobs = <<>>
                   PROVE  sessions \ unkept \subseteq disk /\ disk \subseteq sessions \cup InHand \cup unremoved
      BY DEF DiskFollowsMemory
    <2>2. Len(jobs) = 0
      BY <2>1
    <2>3. ToAdd = {} /\ ToRemove = {}
      BY <2>2 DEF ToAdd, ToRemove
    <2> QED
      BY <1>1, <2>3 DEF Inv, DiskInv
  <1> QED
    BY Invariance, <1>1, PTL

\* What the platform has answered for is not sent again by this process, but
\* for log events answered for in one half of a chunk whose other half found
\* no platform (EventQueue.flush: a part leaves as soon as it is done;
\* PlatformTransport._post_halves).
THEOREM NoResend == Spec => AnsweredOnce
  <1> DEFINE A == sending' # sending => sending' \cap answered \subseteq halved
  <1>1. ASSUME Inv, [Next]_vars PROVE A
    <2>1. CASE Send
      <3>1. sending' \subseteq unsent /\ sending = {}
        BY <2>1 DEF Send, Part, First
      <3> QED
        BY <1>1, <3>1 DEF Inv, FlushInv
    <2>2. CASE sending' = sending \/ sending' = {}
      BY <2>2
    <2> QED
      BY <1>1, <2>1, <2>2
      DEF Next, Records, Make, Keep, AppendSession, AppendLog, Flush, Halve, Reach, NextHalf, Settled, Unreachable,
          DiskWrites, DiskFails, Restart, vars
  <1>2. Inv /\ [Next]_vars => [A]_vars
    BY <1>1
  <1> QED
    BY Invariance, <1>2, PTL DEF Spec, AnsweredOnce

\* Of the session actions of one snapshot, the platform settles none before
\* the earlier ones are answered for (EventQueue.flush, _parts).
THEOREM InOrder == Spec => OrderKept
  <1> DEFINE A == \A n \in (platform' \ platform) \cap Of("session") :
                    \A m \in batch \cap Of("session") : m < n => m \in answered
  <1>1. ASSUME Inv, [Next]_vars PROVE A
    <2>1. CASE Reach
      <3>1. platform' \ platform \subseteq sending
        BY <1>1, <2>1 DEF Reach, Inv, TypeOK
      <3> QED
        BY <1>1, <3>1 DEF Inv, FlushInv
    <2>2. CASE platform' = platform
      BY <2>2
    <2> QED
      BY <1>1, <2>1, <2>2
      DEF Next, Records, Make, Keep, AppendSession, AppendLog, Flush, Send, Halve, NextHalf, Settled, Unreachable,
          DiskWrites, DiskFails, Restart, vars
  <1>2. Inv /\ [Next]_vars => [A]_vars
    BY <1>1
  <1> QED
    BY Invariance, <1>2, PTL DEF Spec, OrderKept

------------------------------------------------------------------------------
(* What has become of the log events. *)

Lost == appended \ (InLog \cup answered)

\* The log is in the order appended, and an event is appended once.
LogInv ==
  /\ \A r \in Recorders : record[r].event \notin appended
  /\ \A entry \in logged : entry.place <= Cardinality(appended)
  /\ \A e, f \in logged : e.place = f.place => e = f
  /\ Cardinality(Lost) <= dropped

\* What a step that appends nothing and takes from the log only what is
\* answered for leaves accounted for.
LEMMA NothingLost ==
  ASSUME TypeOK, LogInv, UNCHANGED appended, logged' \subseteq logged, dropped' = dropped, Lost' \subseteq Lost,
         \A r \in Recorders : record'[r].event \notin appended
  PROVE  LogInv'
  <1>1. Lost \subseteq 1..MaxEvents /\ IsFiniteSet(1..MaxEvents)
    <2>1. appended \subseteq 1..MaxEvents /\ IsFiniteSet(1..MaxEvents)
      BY FS_Interval, OutboxAssumption DEF TypeOK
    <2> QED
      BY <2>1 DEF Lost
  <1>2. IsFiniteSet(Lost) /\ IsFiniteSet(Lost') /\ Cardinality(Lost') <= Cardinality(Lost)
    BY <1>1, FS_Subset
  <1>3. Cardinality(Lost) \in Nat /\ Cardinality(Lost') \in Nat /\ dropped \in Nat
    BY <1>2, FS_CardinalityType DEF TypeOK
  <1> QED
    BY <1>2, <1>3 DEF LogInv

\* A full log lets go of one event, and counts it.
LEMMA AppendAccounted ==
  ASSUME Inv, LogInv, NEW r \in Recorders, AppendLog(r)
  PROVE  LogInv'
  <1> DEFINE n == record[r].event
             entry == [event |-> n, place |-> Cardinality(appended) + 1]
  <1>1. /\ logged' = MadeRoom \cup {entry} /\ appended' = appended \cup {n} /\ UNCHANGED answered
        /\ dropped' = IF Full THEN dropped + 1 ELSE dropped
        /\ record' = [record EXCEPT ![r] = Idle]
    BY DEF AppendLog
  <1>2. /\ IsFiniteSet(appended) /\ Cardinality(appended) \in Nat
        /\ IsFiniteSet(Lost) /\ Cardinality(Lost) \in Nat /\ dropped \in Nat
    <2>1. appended \subseteq 1..MaxEvents /\ IsFiniteSet(1..MaxEvents)
      BY FS_Interval, OutboxAssumption DEF Inv, TypeOK
    <2> QED
      BY <2>1, FS_Subset, FS_CardinalityType DEF Inv, TypeOK, Lost
  <1>3. Cardinality(appended') = Cardinality(appended) + 1
    BY <1>1, <1>2, FS_AddElement DEF LogInv
  <1>4. \A q \in Recorders : record'[q].event \notin appended'
    <2>1. n \in Events
      BY DEF AppendLog, Inv, HandInv, HasInHand
    <2>2. 0 \notin appended /\ 0 # n
      BY <2>1, OutboxAssumption DEF Inv, TypeOK
    <2>3. record'[r].event = 0
      BY <1>1 DEF Inv, TypeOK
    <2>4. ASSUME NEW q \in Recorders, q # r PROVE record'[q].event \notin appended'
      <3>1. record'[q] = record[q] /\ record[q].event # n
        BY <1>1, <2>2, <2>4 DEF Inv, TypeOK, HandInv
      <3> QED
        BY <1>1, <3>1 DEF LogInv
    <2> QED
      BY <1>1, <2>2, <2>3, <2>4
  <1>5. MadeRoom \subseteq logged
    BY DEF MadeRoom
  <1>6. \A e \in logged : e.place \in Nat /\ e.place <= Cardinality(appended)
    BY DEF Inv, TypeOK, LogInv
  <1>7. \A e \in logged' : e.place <= Cardinality(appended)'
    BY <1>1, <1>2, <1>3, <1>5, <1>6
  <1>8. \A e, f \in logged' : e.place = f.place => e = f
    <2>1. \A e \in MadeRoom : e.place # entry.place
      BY <1>2, <1>5, <1>6
    <2> QED
      BY <1>1, <1>5, <2>1 DEF LogInv
  <1>9. \A e, f \in logged \ MadeRoom : e = f
    <2>1. \A e, f \in logged \ MadeRoom : ~(e.place < f.place)
      BY DEF MadeRoom
    <2>2. \A e, f \in logged \ MadeRoom : e.place = f.place
      BY <1>6, <2>1
    <2> QED
      BY <2>2 DEF LogInv
  <1>10. Lost' \subseteq Lost \cup {e.event : e \in logged \ MadeRoom}
    <2>1. ASSUME NEW m \in Lost', m \notin Lost PROVE m \in {e.event : e \in logged \ MadeRoom}
      <3>1. m \in appended' /\ m \notin InLog' /\ m \notin answered
        BY <1>1, <2>1 DEF Lost
      <3>2. m # n
        <4>1. entry \in logged' /\ entry.event = n
          BY <1>1
        <4> QED
          BY <3>1, <4>1 DEF InLog
      <3>3. m \in InLog
        BY <1>1, <2>1, <3>1, <3>2 DEF Lost
      <3>4. PICK e \in logged : e.event = m
        BY <3>3 DEF InLog
      <3>5. e \notin MadeRoom
        BY <1>1, <3>1, <3>4 DEF InLog
      <3> QED
        BY <3>4, <3>5
    <2> QED
      BY <2>1
  <1>11. Cardinality(Lost') <= dropped'
    <2>1. CASE ~Full
      <3>1. Lost' \subseteq Lost
        BY <1>10, <2>1 DEF MadeRoom
      <3>2. Cardinality(Lost') \in Nat /\ Cardinality(Lost') <= Cardinality(Lost)
        BY <1>2, <3>1, FS_Subset, FS_CardinalityType
      <3> QED
        BY <1>1, <1>2, <2>1, <3>2 DEF LogInv
    <2>2. CASE Full
      <3>1. \E m : Lost' \subseteq Lost \cup {m}
        <4>1. CASE logged \ MadeRoom = {}
          BY <1>10, <4>1
        <4>2. CASE logged \ MadeRoom # {}
          <5>1. PICK e \in logged \ MadeRoom : \A f \in logged \ MadeRoom : f = e
            BY <1>9, <4>2
          <5>2. {f.event : f \in logged \ MadeRoom} = {e.event}
            BY <5>1
          <5> QED
            BY <1>10, <5>2
        <4> QED
          BY <4>1, <4>2
      <3>2. PICK m : Lost' \subseteq Lost \cup {m}
        BY <3>1
      <3>3. IsFiniteSet(Lost \cup {m}) /\ Cardinality(Lost \cup {m}) <= Cardinality(Lost) + 1
        <4>1. /\ IsFiniteSet(Lost \cup {m})
              /\ Cardinality(Lost \cup {m}) = IF m \in Lost THEN Cardinality(Lost) ELSE Cardinality(Lost) + 1
          BY <1>2, FS_AddElement
        <4> QED
          BY <1>2, <4>1
      <3>4. /\ Cardinality(Lost') \in Nat /\ Cardinality(Lost \cup {m}) \in Nat
            /\ Cardinality(Lost') <= Cardinality(Lost \cup {m})
        BY <3>2, <3>3, FS_Subset, FS_CardinalityType
      <3> QED
        BY <1>1, <1>2, <2>2, <3>3, <3>4 DEF LogInv
    <2> QED
      BY <2>1, <2>2
  <1> QED
    BY <1>4, <1>7, <1>8, <1>11 DEF LogInv

LEMMA LogStep ==
  ASSUME Inv, LogInv, [Next]_vars
  PROVE  LogInv'
  <1>0. TypeOK /\ 0 \notin appended /\ \A q \in Recorders : record[q].event \notin appended
    BY OutboxAssumption DEF Inv, TypeOK, LogInv
  <1>1. ASSUME NEW r \in Recorders, Make(r) PROVE LogInv'
    <2>1. PICK n \in Events, k \in {"session", "log"} :
            kind[n] = "none" /\ record' = [record EXCEPT ![r] = [event |-> n, stage |-> "made"]]
      BY <1>1 DEF Make
    <2>2. n \notin appended
      BY <2>1 DEF Inv, TypeOK
    <2>3. \A q \in Recorders : record'[q].event \notin appended
      BY <1>0, <2>1, <2>2 DEF TypeOK
    <2> QED
      BY <1>0, <1>1, <2>3, NothingLost DEF Make, Lost, InLog
  <1>2. ASSUME NEW r \in Recorders, Keep(r) \/ AppendSession(r) PROVE LogInv'
    <2>1. UNCHANGED <<appended, logged, dropped, answered>>
      BY <1>2 DEF Keep, AppendSession
    <2>2. \A q \in Recorders : record'[q].event \in {0, record[q].event}
      <3>1. record \in [Recorders -> [event : 0..MaxEvents, stage : Stages]]
        BY <1>0 DEF TypeOK
      <3>2. \/ record' = [record EXCEPT ![r].stage = "kept"]
            \/ record' = [record EXCEPT ![r] = Idle]
        BY <1>2 DEF Keep, AppendSession
      <3> QED
        BY ONLY <3>1, <3>2 DEF Idle
    <2>3. \A q \in Recorders : record'[q].event \notin appended
      BY <1>0, <2>2
    <2> QED
      BY <1>0, <2>1, <2>3, NothingLost DEF Lost, InLog
  <1>3. ASSUME NEW r \in Recorders, AppendLog(r) PROVE LogInv'
    BY <1>3, AppendAccounted
  <1>4. CASE Settled
    <2>1. /\ UNCHANGED <<appended, dropped, record>> /\ logged' = LogLeft
          /\ answered' = answered \cup sending
      BY <1>4 DEF Settled
    <2>2. Lost' \subseteq Lost
      BY <2>1 DEF Lost, InLog, LogLeft
    <2> QED
      BY <1>0, <2>1, <2>2, NothingLost DEF LogLeft
  <1>5. CASE Restart
    <2>1. appended' = {} /\ logged' = {} /\ dropped' = 0 /\ Lost' = {}
      BY <1>5 DEF Restart, Lost
    <2> QED
      BY <2>1, FS_EmptySet DEF LogInv
  <1>6. CASE \/ Flush \/ Send \/ Halve \/ Reach \/ NextHalf \/ Unreachable
             \/ DiskWrites \/ DiskFails \/ UNCHANGED vars
    <2>1. UNCHANGED <<appended, logged, dropped, record>> /\ answered \subseteq answered'
      BY <1>6 DEF Flush, Send, Halve, Reach, NextHalf, Unreachable, DiskWrites, DiskFails, vars
    <2>2. Lost' \subseteq Lost
      BY <2>1 DEF Lost, InLog
    <2> QED
      BY <1>0, <2>1, <2>2, NothingLost
  <1> QED
    BY <1>1, <1>2, <1>3, <1>4, <1>5, <1>6 DEF Next, Records

\* A log event recorded is in memory, answered for or counted as dropped,
\* however many are recorded while a send waits (EventQueue.record, flush).
THEOREM LogIsAccounted == Spec => []LogAccounted
  <1>1. Init => LogInv
    <2> SUFFICES ASSUME Init PROVE LogInv
      OBVIOUS
    <2>1. appended = {} /\ logged = {} /\ dropped = 0 /\ Lost = {}
      BY DEF Init, Lost
    <2> QED
      BY <2>1, FS_EmptySet DEF LogInv
  <1>2. Inv /\ LogInv /\ [Next]_vars => LogInv'
    BY LogStep
  <1>3. LogInv => LogAccounted
    BY DEF LogInv, LogAccounted, Lost
  <1> QED
    BY Invariance, <1>1, <1>2, <1>3, PTL DEF Spec

------------------------------------------------------------------------------
\* The outbox implements the ledger.

Ledgered == [n \in Events |-> Status(n)]
Ours     == sessions \cup InHand

\* The statuses, told apart.
StatusFact(n) ==
  /\ kind[n] # "session" => Status(n) = "none"
  /\ kind[n] = "session" /\ n \in platform => Status(n) = "settled"
  /\ kind[n] = "session" /\ n \notin platform /\ n \in disk => Status(n) = "kept"
  /\ kind[n] = "session" /\ n \notin platform \cup disk /\ n \in Ours => Status(n) = "held"
  /\ kind[n] = "session" /\ n \notin platform \cup disk \cup Ours => Status(n) = "lost"

LEMMA StatusFacts == \A n : StatusFact(n)
  BY DEF StatusFact, Status, Ours

LEMMA StatusFactsNext == \A n : StatusFact(n)'
  BY DEF StatusFact, Status, Ours

\* A step that moves no session action is no step of the ledger.
LEMMA LedgerStutters ==
  ASSUME kind' = kind, platform' \cap Of("session") = platform \cap Of("session"), disk' = disk,
         \A n \in Of("session") \ (platform \cup disk) : n \in Ours' <=> n \in Ours
  PROVE  Ledgered' = Ledgered
  <1>1. \A n \in Events : Status(n)' = Status(n)
    <2>1. SUFFICES ASSUME NEW n \in Events PROVE Status(n)' = Status(n)
      OBVIOUS
    <2>2. StatusFact(n) /\ StatusFact(n)'
      BY StatusFacts, StatusFactsNext
    <2>3. CASE kind[n] # "session"
      BY <2>2, <2>3 DEF StatusFact
    <2>4. CASE kind[n] = "session"
      BY <2>2, <2>4 DEF StatusFact
    <2> QED
      BY <2>3, <2>4
  <1> QED
    BY <1>1 DEF Ledgered

\* The status of one session action changes, and of no other.
LEMMA LedgerChanges ==
  ASSUME NEW n \in Events, NEW s, Status(n)' = s,
         \A m \in Events : m # n => Status(m)' = Status(m)
  PROVE  Ledgered' = [Ledgered EXCEPT ![n] = s]
  BY DEF Ledgered

\* Every step of the outbox is a step of the ledger, or none.
LEMMA LedgerStep ==
  ASSUME Inv, Inv', [Next]_vars
  PROVE  [Ledger!Next]_Ledgered
  <1> USE OutboxAssumption
  <1>0. TypeOK /\ HandInv /\ FlushInv /\ DiskInv
    BY DEF Inv
  <1>k. \A n \in Events : Ledgered[n] = Status(n)
    BY DEF Ledgered
  <1>s. \A n \in Events : StatusFact(n) /\ StatusFact(n)'
    BY StatusFacts, StatusFactsNext
  <1>1. ASSUME NEW r \in Recorders, Make(r) PROVE Ledgered' = Ledgered \/ Ledger!Next
    <2>1. PICK n \in Events, k \in {"session", "log"} :
             /\ kind[n] = "none"
             /\ kind' = [kind EXCEPT ![n] = k]
             /\ record' = [record EXCEPT ![r] = [event |-> n, stage |-> "made"]]
      BY <1>1 DEF Make
    <2>2. sessions' = sessions /\ disk' = disk /\ platform' = platform /\ record[r].stage = "idle"
      BY <1>1 DEF Make
    <2>3. /\ record'[r].event = n /\ n # 0 /\ record[r].event = 0
          /\ \A q \in Recorders : q # r => record'[q] = record[q]
      BY <1>0, <2>1, <2>2 DEF HandInv, HasInHand, TypeOK
    <2>4. InHand' = InHand \cup {n}
      BY <2>3 DEF InHand
    <2>5. /\ kind'[n] = k /\ \A m \in Events : m # n => kind'[m] = kind[m]
          /\ n \notin platform \cup disk
      BY <1>0, <2>1 DEF TypeOK, FlushInv
    <2>6. \A m \in Events : m # n => Status(m)' = Status(m)
      <3>1. SUFFICES ASSUME NEW m \in Events, m # n PROVE Status(m)' = Status(m)
        OBVIOUS
      <3>2. kind'[m] = kind[m] /\ (m \in Ours' <=> m \in Ours)
        BY <2>2, <2>4, <2>5, <3>1 DEF Ours
      <3>3. StatusFact(m) /\ StatusFact(m)'
        BY <1>s
      <3> QED
        BY <2>2, <3>2, <3>3 DEF StatusFact
    <2>7. Status(n) = "none"
      BY <1>s, <2>1 DEF StatusFact
    <2>8. CASE k = "session"
      <3>1. n \in Ours'
        BY <2>4 DEF Ours
      <3>2. Status(n)' = "held"
        BY <1>s, <2>2, <2>5, <2>8, <3>1 DEF StatusFact
      <3>3. Ledgered' = [Ledgered EXCEPT ![n] = "held"]
        BY <2>6, <3>2, LedgerChanges
      <3> QED
        BY <1>k, <2>7, <3>3 DEF Ledger!Next, Ledger!Record, Ledgered
    <2>9. CASE k # "session"
      <3>1. Status(n)' = "none"
        BY <1>s, <2>5, <2>9 DEF StatusFact
      <3>2. \A m \in Events : Status(m)' = Status(m)
        BY <2>6, <2>7, <3>1
      <3> QED
        BY <3>2 DEF Ledgered
    <2> QED
      BY <2>8, <2>9
  <1>2. ASSUME NEW r \in Recorders, Keep(r) \/ AppendSession(r) \/ AppendLog(r)
        PROVE  Ledgered' = Ledgered
    <2>1. kind' = kind /\ platform' = platform /\ disk' = disk
      BY <1>2 DEF Keep, AppendSession, AppendLog
    <2> DEFINE n == record[r].event
    <2>2. \A q \in Recorders : q # r => record'[q] = record[q]
      BY <1>0, <1>2 DEF Keep, AppendSession, AppendLog, TypeOK
    <2>3. CASE Keep(r)
      <3>1. record'[r].event = n /\ sessions' = sessions
        BY <1>0, <2>3 DEF Keep, TypeOK
      <3>2. InHand' = InHand
        BY <2>2, <3>1 DEF InHand
      <3> QED
        BY <2>1, <3>1, <3>2, LedgerStutters DEF Ours
    <2>4. CASE AppendSession(r)
      <3>1. record'[r].event = 0 /\ sessions' = sessions \cup {n} /\ n # 0
        BY <1>0, <2>4 DEF AppendSession, TypeOK, HandInv, HasInHand
      <3>2. \A m : m \in InHand' \cup {n} <=> m \in InHand
        BY <2>2, <3>1 DEF InHand
      <3>3. n \in InHand
        BY <3>1 DEF InHand
      <3> QED
        BY <2>1, <3>1, <3>2, <3>3, LedgerStutters DEF Ours
    <2>5. CASE AppendLog(r)
      <3>1. record'[r].event = 0 /\ sessions' = sessions /\ n \notin Of("session")
        BY <1>0, <2>5 DEF AppendLog, TypeOK
      <3>2. \A m : m # n => (m \in InHand' <=> m \in InHand)
        BY <2>2, <3>1 DEF InHand
      <3> QED
        BY <2>1, <3>1, <3>2, LedgerStutters DEF Ours
    <2> QED
      BY <1>2, <2>3, <2>4, <2>5
  <1>3. ASSUME Flush \/ Send \/ Halve \/ NextHalf \/ Unreachable \/ DiskFails \/ UNCHANGED vars
        PROVE  Ledgered' = Ledgered
    <2>1. /\ kind' = kind /\ platform' = platform /\ disk' = disk /\ sessions' = sessions
          /\ record' = record
      BY <1>3 DEF Flush, Send, Halve, NextHalf, Unreachable, DiskFails, vars
    <2>2. InHand' = InHand
      BY <2>1 DEF InHand
    <2> QED
      BY <2>1, <2>2, LedgerStutters DEF Ours
  <1>4. ASSUME Reach PROVE Ledgered' = Ledgered \/ Ledger!Next
    <2>1. /\ kind' = kind /\ platform' = platform \cup posting /\ disk' = disk /\ sessions' = sessions
          /\ record' = record
      BY <1>4 DEF Reach
    <2>2. InHand' = InHand /\ Ours' = Ours
      BY <2>1 DEF InHand, Ours
    <2>3. CASE (posting \ platform) \cap Of("session") = {}
      <3>1. platform' \cap Of("session") = platform \cap Of("session")
        BY <2>1, <2>3
      <3> QED
        BY <2>1, <2>2, <3>1, LedgerStutters
    <2>4. CASE (posting \ platform) \cap Of("session") # {}
      <3>1. PICK n \in posting \cap Of("session") : n \notin platform
        BY <2>4
      <3>2. posting = {n} /\ n \in sessions /\ n \in Events /\ kind[n] = "session"
        <4>1. posting \subseteq sending
          BY <1>0 DEF TypeOK
        <4>2. n \in sending \cap Of("session")
          BY <3>1, <4>1
        <4>3. sending = {n} /\ n \in sessions
          BY <1>0, <4>2 DEF FlushInv
        <4> QED
          BY <3>1, <4>1, <4>3
      <3>3. Status(n) \in {"held", "kept"}
        BY <1>s, <3>1, <3>2 DEF StatusFact, Ours
      <3>4. Status(n)' = "settled"
        BY <1>s, <2>1, <3>2 DEF StatusFact
      <3>5. \A m \in Events : m # n => Status(m)' = Status(m)
        <4>1. SUFFICES ASSUME NEW m \in Events, m # n PROVE Status(m)' = Status(m)
          OBVIOUS
        <4>2. m \in platform' <=> m \in platform
          BY <2>1, <3>2, <4>1
        <4>3. StatusFact(m) /\ StatusFact(m)'
          BY <1>s
        <4> QED
          BY <2>1, <2>2, <4>2, <4>3 DEF StatusFact
      <3>6. Ledgered' = [Ledgered EXCEPT ![n] = "settled"]
        BY <3>2, <3>4, <3>5, LedgerChanges
      <3> QED
        BY <1>k, <3>2, <3>3, <3>6 DEF Ledger!Next, Ledger!Settle, Ledgered
    <2> QED
      BY <2>3, <2>4
  <1>5. ASSUME Settled PROVE Ledgered' = Ledgered
    <2>1. /\ kind' = kind /\ platform' = platform /\ sessions' = sessions \ sending /\ record' = record
          /\ sending \subseteq platform
      BY <1>0, <1>5 DEF Settled, SessionsLeft, FlushInv, TypeOK
    <2>2. disk' = disk
      BY <1>5, RemovalType DEF Settled
    <2>3. InHand' = InHand
      BY <2>1 DEF InHand
    <2> QED
      BY <2>1, <2>2, <2>3, LedgerStutters DEF Ours
  <1>6. ASSUME DiskWrites PROVE Ledgered' = Ledgered \/ Ledger!Next
    <2>1. /\ kind' = kind /\ platform' = platform /\ sessions' = sessions /\ record' = record
          /\ jobs # <<>> /\ jobs' = Tail(jobs) /\ jobs \in Seq(Jobs)
      BY <1>0, <1>6 DEF DiskWrites, TypeOK, Jobs
    <2>2. InHand' = InHand /\ Ours' = Ours
      BY <2>1 DEF InHand, Ours
    <2>3. Head(jobs) = jobs[1] /\ Head(jobs) \in Jobs /\ 1 \in 1..Len(jobs)
      BY <2>1, JobTried
    <2>n. PICK n \in Of("session") : n = jobs[1].event
      BY <2>3 DEF Jobs
    <2>4. n \in Of("session") /\ n \in Events /\ kind[n] = "session"
      OBVIOUS
    <2>5. \A m \in Events : m # n => Status(m)' = Status(m)
      <3>1. SUFFICES ASSUME NEW m \in Events, m # n PROVE Status(m)' = Status(m)
        OBVIOUS
      <3>2. m \in disk' <=> m \in disk
        BY <1>6, <2>3, <2>n, <3>1 DEF DiskWrites
      <3>3. StatusFact(m) /\ StatusFact(m)'
        BY <1>s
      <3> QED
        BY <2>1, <2>2, <3>2, <3>3 DEF StatusFact
    <2>6. CASE n \in platform
      <3>1. Status(n)' = Status(n)
        BY <1>s, <2>1, <2>4, <2>6 DEF StatusFact
      <3>2. \A m \in Events : Status(m)' = Status(m)
        BY <2>5, <3>1
      <3> QED
        BY <3>2 DEF Ledgered
    <2>7. CASE n \notin platform
      <3>1. jobs[1].op = "add" /\ disk' = disk \cup {n}
        <4>1. jobs[1].op = "remove" => n \in ToRemove
          BY <2>3, <2>n DEF ToRemove
        <4> QED
          BY <1>0, <1>6, <2>3, <2>n, <2>7, <4>1 DEF DiskWrites, DiskInv
      <3>2. Status(n)' = "kept"
        BY <1>s, <2>1, <2>4, <2>7, <3>1 DEF StatusFact
      <3>3. n \in Ours
        <4>1. CASE n \in sessions
          BY <4>1 DEF Ours
        <4>2. CASE \E q \in Recorders : record[q] = [event |-> n, stage |-> "kept"]
          <5>1. PICK q \in Recorders : record[q].event = n
            BY <4>2
          <5>2. n # 0
            BY <2>4
          <5> QED
            BY <5>1, <5>2 DEF Ours, InHand
        <4>3. CASE \E j \in 1..Len(jobs) : 1 < j /\ jobs[j] = Job("remove", n)
          <5>1. PICK j \in 1..Len(jobs) : jobs[j].op = "remove" /\ jobs[j].event = n
            BY <4>3 DEF Job
          <5>2. n \in ToRemove
            BY <5>1 DEF ToRemove
          <5> QED
            BY <1>0, <2>7, <5>2 DEF DiskInv
        <4> QED
          BY <1>0, <2>3, <2>n, <3>1, <4>1, <4>2, <4>3 DEF DiskInv
      <3>4. Status(n) \in {"held", "kept"}
        BY <1>s, <2>4, <2>7, <3>3 DEF StatusFact
      <3>5. CASE Status(n) = "kept"
        <4>1. \A m \in Events : Status(m)' = Status(m)
          BY <2>5, <3>2, <3>5
        <4> QED
          BY <4>1 DEF Ledgered
      <3>6. CASE Status(n) = "held"
        <4>1. Ledgered' = [Ledgered EXCEPT ![n] = "kept"]
          BY <2>4, <2>5, <3>2, LedgerChanges
        <4> QED
          BY <1>k, <2>4, <3>6, <4>1 DEF Ledger!Next, Ledger!Keep, Ledgered
      <3> QED
        BY <3>4, <3>5, <3>6
    <2> QED
      BY <2>6, <2>7
  <1>7. ASSUME Restart PROVE Ledger!Next
    <2>1. /\ kind' = kind /\ platform' = platform /\ disk' = disk /\ sessions' = disk
          /\ record' = [r \in Recorders |-> Idle]
      BY <1>7 DEF Restart, HeldAtStart
    <2>2. InHand' = {} /\ Ours' = disk
      BY <2>1 DEF InHand, Ours
    <2>3. \A n \in Events : Status(n)' = IF Status(n) = "held" THEN "lost" ELSE Status(n)
      <3>1. SUFFICES ASSUME NEW n \in Events
                     PROVE  Status(n)' = IF Status(n) = "held" THEN "lost" ELSE Status(n)
        OBVIOUS
      <3>2. StatusFact(n) /\ StatusFact(n)'
        BY <1>s
      <3> QED
        BY <2>1, <2>2, <3>2 DEF StatusFact
    <2>4. Ledgered' = [n \in Events |-> IF Ledgered[n] = "held" THEN "lost" ELSE Ledgered[n]]
      BY <2>3 DEF Ledgered
    <2> QED
      BY <2>4 DEF Ledger!Next, Ledger!Restart, Ledgered
  <1> QED
    BY <1>1, <1>2, <1>3, <1>4, <1>5, <1>6, <1>7 DEF Next, Records

\* The outbox implements the ledger: a session action leaves memory and the
\* file only once the platform has settled it, and a restart loses only what
\* the disk did not have (EventQueue, DiskWriter, OutboxStore).
THEOREM LedgerRefined == Spec => LedgerKept
  <1>1. Init => Ledger!Init
    BY DEF Init, Ledger!Init, Status
  <1>2. Inv /\ Inv' /\ [Next]_vars => [Ledger!Next]_Ledgered
    BY LedgerStep
  <1>3. Inv /\ Inv' /\ [Next]_vars => [Ledger!Next]_[n \in Events |-> Status(n)]
    BY <1>2 DEF Ledgered
  <1> QED
    BY Invariance, <1>1, <1>3, PTL DEF Spec, LedgerKept, Ledger!Spec

------------------------------------------------------------------------------
(* The pictures kept beside the events: PictureOutbox, for any bounds.     *)

FromFile == drain.pc \in {"looks", "sends", "clears"}

OnPage == {r.pic : r \in drain.page}

\* What reached the file, was sent from it, or is on a page of it.
TakenUp == OnFile \cup sent \cup (IF FromFile THEN OnPage ELSE {})

\* The rows of the file are numbered below their pictures, and those of a page
\* in the order of theirs; a lane without a file has the memory alone.
RowInv ==
  /\ \A r \in file : r.row <= r.pic
  /\ \A r, q \in drain.page : (r.row < q.row => r.pic < q.pic) /\ (r.pic = q.pic => r = q)
  /\ FromFile \/ drain.pc \in {"waiting", "pops"} => drain.page # {}
  /\ ~stored => writer.pc = "rests" /\ drain.pc \in {"rests", "memory", "waiting", "pops"}

\* What is still to be written is in the order taken, and later than all that
\* reached the file.
WriteInv ==
  /\ \A i \in 1..Len(pictureJobs) : pictureJobs[i].op = "write" => pictureJobs[i].pic \in 1..shot
  /\ \A i, j \in 1..Len(pictureJobs) :
       i < j /\ pictureJobs[i].op = "write" /\ pictureJobs[j].op = "write" => pictureJobs[i].pic < pictureJobs[j].pic
  /\ \A i \in 1..Len(pictureJobs) : \A p \in TakenUp : pictureJobs[i].op = "write" => p < pictureJobs[i].pic
  /\ writer.pc = "writes" =>
       /\ writer.pic # 0
       /\ \A i \in 1..Len(pictureJobs) : pictureJobs[i].op = "write" => writer.pic < pictureJobs[i].pic
       /\ \A p \in TakenUp : p < writer.pic

\* What is not to be sent again, to be removed, or let go by the drain is done
\* with the platform.
DoneInv ==
  /\ sentUnremoved \cup sent \subseteq done
  /\ \A i \in 1..Len(pictureJobs) : pictureJobs[i].op = "remove" => pictureJobs[i].pic \in done
  /\ drain.pc \in {"clears", "pops"} => Current.pic \in done

\* A picture sent and still on file is known to be; a page is read when every
\* removal handed in before was tried.
SentInv ==
  /\ sent \cap OnFile \subseteq sentUnremoved
  /\ writer.pc = "forgets" => writer.pic \notin OnFile
  /\ \A i \in 1..Len(pictureJobs) :
       pictureJobs[i].op = "read" =>
         drain.pc = "reads" /\ \A j \in 1..Len(pictureJobs) : i < j => pictureJobs[j].op = "write"
  /\ FromFile =>
       /\ sent \cap OnPage \subseteq sentUnremoved
       /\ writer.pc = "forgets" => writer.pic \notin OnPage
       /\ \A i \in 1..Len(pictureJobs) : pictureJobs[i].op = "remove" => pictureJobs[i].pic \notin OnPage
  /\ drain.pc = "sends" => Current.pic \notin sentUnremoved

\* The picture the disk thread is about to let go of, when nothing else has it.
Doomed == IF writer.pc = "counts" THEN {writer.pic} \ (OnFile \cup done) ELSE {}

GoneInv ==
  Cardinality((Gone \cup Doomed) \ forgiven) <= picturesDropped + (IF writer.pc = "counts" THEN writer.n ELSE 0)

PicturesInv == PicturesTypeOK /\ RowInv /\ WriteInv /\ DoneInv /\ SentInv /\ GoneInv

\* A set of numbers has a least, and one below a bound a greatest.
LEMMA Earliest ==
  ASSUME NEW S \in SUBSET Nat, S # {}
  PROVE  \E m \in S : \A x \in S : m <= x
  <1>1. PICK m \in S : \A x \in S : <<x, m>> \notin OpToRel(<, Nat)
    BY WFMin, NatLessThanWellFounded, Zenon
  <1>2. \A x \in S : ~(x < m)
    <2>1. SUFFICES ASSUME NEW x \in S, x < m PROVE FALSE
      OBVIOUS
    <2>2. x \in Nat /\ m \in Nat
      OBVIOUS
    <2> QED
      BY <1>1, <2>1, <2>2, Zenon DEF OpToRel
  <1>3. \A x \in S : x \in Nat /\ m \in Nat
    OBVIOUS
  <1> QED
    BY <1>2, <1>3

LEMMA Highest ==
  ASSUME NEW S \in SUBSET Nat, S # {}, NEW b \in Nat, \A x \in S : x <= b
  PROVE  \E m \in S : \A x \in S : x <= m
  <1> DEFINE T == {b - x : x \in S}
  <1>1. T \in SUBSET Nat /\ T # {}
    <2>1. \A x \in S : b - x \in Nat
      OBVIOUS
    <2> QED
      BY <2>1
  <1>2. PICK t \in T : \A u \in T : t <= u
    BY <1>1, Earliest
  <1>3. PICK m \in S : t = b - m
    OBVIOUS
  <1>4. ASSUME NEW x \in S PROVE x <= m
    <2>1. b - m <= b - x
      BY <1>2, <1>3
    <2> QED
      BY <2>1
  <1> QED
    BY <1>4

\* A picture is one row of the file, so the file is finite.
LEMMA FileFinite ==
  ASSUME PicturesTypeOK
  PROVE  IsFiniteSet(file) /\ Cardinality(file) \in Nat /\ IsFiniteSet(memory) /\ Cardinality(memory) \in Nat
  <1> DEFINE f == [r \in file |-> r.pic]
  <1>1. shot \in Nat /\ memory \subseteq 1..shot /\ file \subseteq [row : Nat \ {0}, pic : 1..shot]
    BY DEF PicturesTypeOK
  <1>2. \A r, q \in file : r.pic = q.pic => r = q
    <2>1. \A r, q \in file : r.row < q.row <=> r.pic < q.pic
      BY DEF PicturesTypeOK
    <2>2. \A r, q \in file : r.pic = q.pic => r.row = q.row
      BY <1>1, <2>1
    <2> QED
      BY <1>1, <2>2
  <1>3. f \in Injection(file, 1..shot)
    BY <1>1, <1>2 DEF Injection, IsInjective
  <1>4. IsFiniteSet(1..shot)
    BY <1>1, FS_Interval
  <1> QED
    BY <1>1, <1>3, <1>4, FS_Injection, FS_Subset, FS_CardinalityType

\* The oldest of a page, when there is one.
LEMMA CurrentIs ==
  ASSUME PicturesTypeOK, RowInv, drain.page # {}
  PROVE  Current \in drain.page /\ \A q \in drain.page : Current.row <= q.row /\ Current.pic <= q.pic
  <1>1. shot \in Nat /\ drain.page \subseteq [row : Nat, pic : 1..shot]
    BY DEF PicturesTypeOK
  <1>2. PICK p \in OnPage : \A x \in OnPage : p <= x
    <2>1. OnPage \in SUBSET Nat /\ OnPage # {}
      BY <1>1 DEF OnPage
    <2> QED
      BY <2>1, Earliest
  <1>3. PICK r \in drain.page : r.pic = p
    BY DEF OnPage
  <1>4. \A q \in drain.page : r.row <= q.row /\ r.pic <= q.pic
    <2>1. \A q \in drain.page : r.pic <= q.pic
      BY <1>2, <1>3 DEF OnPage
    <2>2. \A q \in drain.page : q.row < r.row => q.pic < r.pic
      BY DEF RowInv
    <2> QED
      BY <1>1, <2>1, <2>2
  <1> QED
    BY <1>4 DEF Current

\* The next row is past every row, and no further than one past a bound of theirs.
LEMMA NewRowIs ==
  ASSUME PicturesTypeOK, RowInv
  PROVE  /\ NewRow \in Nat \ {0}
         /\ \A r \in file : r.row < NewRow
         /\ \A b \in Nat \ {0} : (\A r \in file : r.pic < b) => NewRow <= b
  <1> DEFINE rows == {r.row : r \in file} \cup {0}
  <1>1. shot \in Nat /\ file \subseteq [row : Nat \ {0}, pic : 1..shot]
    BY DEF PicturesTypeOK
  <1>2. rows \in SUBSET Nat /\ \A x \in rows : x <= shot
    BY <1>1 DEF RowInv
  <1>3. \E m \in rows : \A x \in rows : x <= m
    BY <1>1, <1>2, Highest
  <1>4. \E m \in rows : \A x \in rows : m >= x
    BY <1>2, <1>3
  <1>5. Max(rows) \in rows /\ \A x \in rows : Max(rows) >= x
    BY <1>4 DEF Max
  <1>6. NewRow = Max(rows) + 1
    BY DEF NewRow
  <1>7. \A b \in Nat \ {0} : (\A r \in file : r.pic < b) => Max(rows) < b
    BY <1>1, <1>5 DEF RowInv
  <1>8. Max(rows) \in Nat
    BY <1>2, <1>5
  <1>9. \A r \in file : r.row \in Nat /\ r.row <= Max(rows)
    BY <1>1, <1>5, <1>8
  <1> HIDE DEF rows
  <1> QED
    BY <1>6, <1>7, <1>8, <1>9

\* A job handed in comes last.
LEMMA HandedIn ==
  ASSUME NEW s, NEW J, s \in Seq(J), NEW e \in J
  PROVE  /\ Append(s, e) \in Seq(J) /\ Len(Append(s, e)) = Len(s) + 1 /\ Len(s) \in Nat
         /\ \A i \in 1..Len(s) : Append(s, e)[i] = s[i]
         /\ Append(s, e)[Len(s) + 1] = e
  OBVIOUS

\* A job done was the first.
LEMMA TakenOff ==
  ASSUME NEW s, NEW J, s \in Seq(J), s # <<>>
  PROVE  /\ Head(s) \in J /\ Head(s) = s[1] /\ Tail(s) \in Seq(J) /\ Len(s) \in Nat \ {0}
         /\ Len(Tail(s)) = Len(s) - 1 /\ \A i \in 1..Len(s) - 1 : Tail(s)[i] = s[i + 1]
  <1>1. Len(s) \in Nat \ {0}
    BY EmptySeq
  <1> QED
    BY <1>1, HeadTailProperties

\* A job withdrawn leaves the others in their order.
LEMMA Withdrawn ==
  ASSUME NEW s, NEW J, s \in Seq(J), NEW i \in 1..Len(s)
  PROVE  LET t == SubSeq(s, 1, i - 1) \o SubSeq(s, i + 1, Len(s))
         IN  /\ t \in Seq(J) /\ Len(t) = Len(s) - 1 /\ Len(s) \in Nat
             /\ \A k \in 1..Len(s) - 1 : t[k] = IF k < i THEN s[k] ELSE s[k + 1]
  <1> DEFINE a == SubSeq(s, 1, i - 1)
             b == SubSeq(s, i + 1, Len(s))
  <1>1. Len(s) \in Nat /\ \A k \in 1..Len(s) : s[k] \in J
    BY LenProperties, ElementOfSeq
  <1>2. a \in Seq(J) /\ Len(a) = i - 1 /\ \A k \in 1..i - 1 : a[k] = s[k]
    <2>1. \A k \in 1..i - 1 : s[k] \in J
      BY <1>1
    <2> QED
      BY <1>1, <2>1, SubSeqProperties
  <1>3. b \in Seq(J) /\ Len(b) = Len(s) - i /\ \A k \in 1..Len(s) - i : b[k] = s[k + i]
    <2>1. \A k \in i + 1..Len(s) : s[k] \in J
      BY <1>1
    <2>2. /\ b \in Seq(J) /\ Len(b) = IF i + 1 <= Len(s) THEN Len(s) - (i + 1) + 1 ELSE 0
          /\ \A k \in 1..Len(s) - (i + 1) + 1 : b[k] = s[i + 1 + k - 1]
      <3> HIDE DEF b
      <3> QED
        BY <1>1, <2>1, SubSeqProperties DEF b
    <2> HIDE DEF b
    <2> QED
      BY <1>1, <2>2
  <1> HIDE DEF a, b
  <1>4. /\ a \o b \in Seq(J) /\ Len(a \o b) = Len(a) + Len(b)
        /\ \A k \in 1..Len(a) + Len(b) : (a \o b)[k] = IF k <= Len(a) THEN a[k] ELSE b[k - Len(a)]
    BY <1>2, <1>3, ConcatProperties
  <1>5. \A k \in 1..Len(s) - 1 : (a \o b)[k] = IF k < i THEN s[k] ELSE s[k + 1]
    <2> SUFFICES ASSUME NEW k \in 1..Len(s) - 1 PROVE (a \o b)[k] = IF k < i THEN s[k] ELSE s[k + 1]
      OBVIOUS
    <2>1. k \in Nat /\ i \in Nat /\ k \in 1..Len(a) + Len(b)
      BY <1>1, <1>2, <1>3
    <2>2. CASE k < i
      <3>1. k <= Len(a) /\ k \in 1..i - 1
        BY <1>2, <2>1, <2>2
      <3> QED
        BY <1>2, <1>4, <2>1, <2>2, <3>1
    <2>3. CASE ~(k < i)
      <3>1. ~(k <= Len(a)) /\ k - Len(a) \in 1..Len(s) - i /\ k - Len(a) + i = k + 1
        BY <1>1, <1>2, <2>1, <2>3
      <3> QED
        BY <1>3, <1>4, <2>1, <2>3, <3>1
    <2> QED
      BY <2>2, <2>3
  <1>6. a \o b \in Seq(J) /\ Len(a \o b) = Len(s) - 1
    BY <1>1, <1>2, <1>3, <1>4
  <1> QED
    BY <1>1, <1>5, <1>6 DEF a, b

\* The file is kept within its ceiling: how many rows lie past one numbers the
\* rows kept.
LEMMA KeptFew ==
  ASSUME NEW rows, IsFiniteSet(rows), \A r \in rows : r.row \in Nat,
         \A r, q \in rows : r.row = q.row => r = q, Ceiling \in Nat \ {0}
  PROVE  Kept(rows) \subseteq rows /\ IsFiniteSet(Kept(rows)) /\ Cardinality(Kept(rows)) <= Ceiling
  <1> DEFINE past(r) == Above(rows, r)
             f == [r \in Kept(rows) |-> Cardinality(past(r))]
  <1>1. Kept(rows) \subseteq rows /\ \A r \in Kept(rows) : Cardinality(past(r)) < Ceiling
    BY DEF Kept
  <1>2. \A r \in rows : IsFiniteSet(past(r)) /\ Cardinality(past(r)) \in Nat
    <2>1. \A r \in rows : past(r) \in SUBSET rows
      BY DEF Above
    <2> QED
      BY <2>1, FS_Subset, FS_CardinalityType
  <1>3. ASSUME NEW r \in rows, NEW q \in rows, r.row < q.row PROVE Cardinality(past(q)) # Cardinality(past(r))
    <2>1. past(q) \in SUBSET past(r) /\ q \in past(r) /\ q \notin past(q)
      BY <1>3 DEF Above
    <2> HIDE DEF past
    <2> QED
      BY <1>2, <2>1, FS_Subset
  <1>4. \A r, q \in rows : Cardinality(past(r)) = Cardinality(past(q)) => r = q
    <2> HIDE DEF past
    <2> SUFFICES ASSUME NEW r \in rows, NEW q \in rows, Cardinality(past(r)) = Cardinality(past(q)), r # q
                 PROVE  FALSE
      OBVIOUS
    <2>1. r.row < q.row \/ q.row < r.row
      OBVIOUS
    <2> QED
      BY <1>3, <2>1
  <1> HIDE DEF past
  <1>5. f \in Injection(Kept(rows), 0..Ceiling - 1)
    BY <1>1, <1>2, <1>4 DEF Injection, IsInjective
  <1>6. IsFiniteSet(0..Ceiling - 1) /\ Cardinality(0..Ceiling - 1) = Ceiling
    BY FS_Interval
  <1> HIDE DEF f
  <1> QED
    BY <1>1, <1>5, <1>6, FS_Injection

\* No more pictures than rows.
LEMMA RowPictures ==
  ASSUME NEW rows, IsFiniteSet(rows)
  PROVE  LET pics == {r.pic : r \in rows}
         IN  IsFiniteSet(pics) /\ Cardinality(pics) \in Nat /\ Cardinality(pics) <= Cardinality(rows)
  <1> DEFINE pics == {r.pic : r \in rows}
             f == [r \in rows |-> r.pic]
  <1>1. f \in Surjection(rows, pics)
    BY DEF Surjection
  <1> HIDE DEF f, pics
  <1>2. IsFiniteSet(pics) /\ Cardinality(pics) <= Cardinality(rows)
    BY <1>1, FS_Surjection
  <1> QED
    BY <1>2, FS_CardinalityType DEF pics

PictureJob == [op : {"write", "remove", "read"}, pic : Nat]

\* Every step keeps the types, and the bounds of memory and of the file.
LEMMA PictureTypes ==
  ASSUME PicturesInv, [PicturesNext]_picturesVars
  PROVE  PicturesTypeOK'
  <1> USE DEF pictureDisk, WriterRests, DrainRests, DrainAt
  <1>a. /\ MaxInMemory \in Nat \ {0} /\ Ceiling \in Nat \ {0} /\ Batch \in Nat \ {0}
        /\ MaxPictures \in Nat /\ MaxStops \in Nat
    BY PictureOutboxAssumption
  <1>b. PicturesTypeOK /\ RowInv
    BY DEF PicturesInv
  <1>c. /\ stored \in BOOLEAN /\ shot \in 0..MaxPictures /\ shot \in Nat /\ memory \subseteq 1..shot
        /\ file \subseteq [row : Nat \ {0}, pic : 1..shot]
        /\ pictureJobs \in Seq(PictureJob)
        /\ writer \in [pc : {"rests", "writes", "counts", "forgets"}, pic : 0..shot, n : Nat]
        /\ drain \in [pc : {"rests", "reads", "looks", "sends", "clears", "memory", "waiting", "pops"},
                      page : SUBSET [row : Nat, pic : 1..shot]]
        /\ sentUnremoved \cup done \cup sent \cup forgiven \subseteq 1..shot
        /\ picturesDropped \in Nat
    BY <1>a, <1>b DEF PicturesTypeOK, PictureJob
  <1>d. /\ IsFiniteSet(file) /\ Cardinality(file) \in Nat /\ IsFiniteSet(memory) /\ Cardinality(memory) \in Nat
        /\ Cardinality(file) <= Ceiling /\ Cardinality(memory) <= MaxInMemory
    BY <1>b, FileFinite DEF PicturesTypeOK
  <1>e. pictureJobs # <<>> => /\ Head(pictureJobs) \in PictureJob /\ Tail(pictureJobs) \in Seq(PictureJob)
                       /\ Head(pictureJobs) = pictureJobs[1] /\ 1 \in 1..Len(pictureJobs)
    BY <1>c, TakenOff
  <1>f. \A e \in PictureJob : Append(pictureJobs, e) \in Seq(PictureJob)
    BY <1>c
  <1>g. drain.page # {} => Current \in drain.page /\ Current.pic \in 1..shot /\ Current.row \in Nat
    BY <1>b, <1>c, CurrentIs
  <1>h. FromFile \/ drain.pc \in {"waiting", "pops"} => drain.page # {}
    BY <1>b DEF RowInv
  <1>i. \A S : S \in SUBSET memory => IsFiniteSet(S) /\ Cardinality(S) <= MaxInMemory
    <2>1. \A S : S \in SUBSET memory => IsFiniteSet(S) /\ Cardinality(S) \in Nat /\ Cardinality(S) <= Cardinality(memory)
      BY <1>d, FS_Subset, FS_CardinalityType
    <2> QED
      BY <1>a, <1>d, <2>1
  <1>j. \A S : S \in SUBSET file => IsFiniteSet(S) /\ Cardinality(S) <= Ceiling
    <2>1. \A S : S \in SUBSET file => IsFiniteSet(S) /\ Cardinality(S) \in Nat /\ Cardinality(S) <= Cardinality(file)
      BY <1>d, FS_Subset, FS_CardinalityType
    <2> QED
      BY <1>a, <1>d, <2>1
  <1>k. ~stored => file = {} /\ pictureJobs = <<>> /\ writer.pc = "rests" /\ drain.pc \notin {"reads", "looks", "sends", "clears"}
    BY <1>b DEF PicturesTypeOK, RowInv
  <1>l. \A r, q \in file : r.row < q.row <=> r.pic < q.pic
    BY <1>b DEF PicturesTypeOK
  <1>m. stops \in 0..MaxStops
    BY <1>b DEF PicturesTypeOK
  <1>1. CASE Takes
    <2>1. shot' = shot + 1 /\ shot' \in 0..MaxPictures /\ shot' \in Nat
      BY <1>1, <1>a, <1>c DEF Takes
    <2>2. memory' \subseteq 1..shot' /\ Cardinality(memory') <= MaxInMemory
      <3>1. CASE ~NoRoom
        <4>1. Cardinality(memory \cup {shot'}) = Cardinality(memory) + 1
          <5>1. shot' \notin memory
            BY <1>c, <2>1
          <5> QED
            BY <1>d, <5>1, FS_AddElement
        <4>2. memory' = memory \cup {shot'}
          BY <1>1, <3>1 DEF Takes
        <4>3. Cardinality(memory) < MaxInMemory
          BY <1>a, <1>d, <3>1 DEF NoRoom
        <4> QED
          BY <1>a, <1>c, <1>d, <2>1, <4>1, <4>2, <4>3
      <3>2. CASE NoRoom
        <4>1. memory # {} /\ memory \in SUBSET Nat
          BY <1>a, <1>c, <1>d, <3>2, FS_EmptySet DEF NoRoom
        <4>2. PICK p \in memory : \A q \in memory : p <= q
          BY <4>1, Earliest
        <4>3. Oldest = {p}
          <5>1. \A q \in memory : q \in Nat
            BY <4>1
          <5>2. \A x \in memory : (\A q \in memory : x <= q) => x = p
            BY <4>2, <5>1
          <5> QED
            BY <4>2, <5>2 DEF Oldest
        <4>4. /\ IsFiniteSet(memory \ {p}) /\ Cardinality(memory \ {p}) = Cardinality(memory) - 1
          BY <1>d, <4>2, FS_RemoveElement
        <4>5. shot' \notin memory \ {p}
          BY <1>c, <2>1
        <4>6. Cardinality((memory \ {p}) \cup {shot'}) = Cardinality(memory)
          <5> DEFINE others == memory \ {p}
          <5>1. IsFiniteSet(others) /\ Cardinality(others) = Cardinality(memory) - 1 /\ shot' \notin others
            BY <4>4, <4>5
          <5> HIDE DEF others
          <5>2. Cardinality(others \cup {shot'}) = Cardinality(others) + 1
            BY <5>1, FS_AddElement
          <5>3. Cardinality(others \cup {shot'}) = Cardinality(memory)
            BY <1>d, <5>1, <5>2
          <5> QED
            BY <5>3 DEF others
        <4>7. memory' = (memory \ {p}) \cup {shot'}
          BY <1>1, <3>2, <4>3 DEF Takes
        <4> QED
          BY <1>c, <1>d, <2>1, <4>6, <4>7
      <3> QED
        BY <3>1, <3>2
    <2>3. pictureJobs' \in Seq(PictureJob) /\ (~stored => pictureJobs' = <<>>)
      BY <1>1, <1>c, <1>f, <1>k, <2>1 DEF Takes, PictureJob
    <2>4. picturesDropped' \in Nat
      BY <1>1, <1>c DEF Takes
    <2>5. 1..shot \subseteq 1..shot' /\ 0..shot \subseteq 0..shot'
      BY <1>c, <2>1
    <2>6. UNCHANGED <<stored, file, writer, sentUnremoved, drain, done, sent, forgiven, stops>>
      BY <1>1 DEF Takes
    <2>7. drain' \in [pc : {"rests", "reads", "looks", "sends", "clears", "memory", "waiting", "pops"},
                      page : SUBSET [row : Nat, pic : 1..shot']]
      BY <1>c, <2>5, <2>6
    <2>8. writer' \in [pc : {"rests", "writes", "counts", "forgets"}, pic : 0..shot', n : Nat]
      BY <1>c, <2>5, <2>6
    <2>9. file' \subseteq [row : Nat \ {0}, pic : 1..shot'] /\ sentUnremoved' \cup done' \cup sent' \cup forgiven' \subseteq 1..shot'
      BY <1>c, <2>5, <2>6
    <2> QED
      BY <1>d, <1>l, <1>m, <1>k, <1>c, <2>1, <2>2, <2>3, <2>4, <2>6, <2>7, <2>8, <2>9
         DEF PicturesTypeOK, PictureJob
  <1>2. CASE Begins
    <2>1. Head(pictureJobs).pic \in 1..shot
      BY <1>2, <1>e DEF Begins, Next1, PicturesInv, WriteInv
    <2> QED
      BY <1>2, <1>b, <1>c, <1>e, <1>k, <2>1 DEF Begins, Next1, PicturesTypeOK, PictureJob
  <1>3. CASE Writes
    <2> DEFINE row  == [row |-> NewRow, pic |-> writer.pic]
               rows == file \cup {row}
    <2>1. writer.pc = "writes" /\ writer.pic \in 1..shot /\ \A r \in file : r.pic < writer.pic
      BY <1>3, <1>c DEF Writes, PicturesInv, WriteInv, TakenUp, OnFile
    <2>2. NewRow \in Nat \ {0} /\ \A r \in file : r.row < NewRow
      BY <1>b, NewRowIs
    <2>3. /\ rows \subseteq [row : Nat \ {0}, pic : 1..shot]
          /\ \A r, q \in rows : r.row < q.row <=> r.pic < q.pic
      BY <1>c, <1>l, <2>1, <2>2
    <2>4. \A r, q \in rows : r.row = q.row => r = q
      BY <1>c, <2>3
    <2>5. IsFiniteSet(rows)
      BY <1>d, FS_AddElement
    <2>6. Kept(rows) \subseteq rows /\ Cardinality(Kept(rows)) <= Ceiling
      BY <1>a, <2>3, <2>4, <2>5, KeptFew
    <2>7. \A S : Cardinality(rows \ S) \in Nat
      BY <2>5, FS_Subset, FS_CardinalityType
    <2> HIDE DEF rows
    <2>8. /\ file' \in {file, Kept(rows)}
          /\ \/ writer' = [writer EXCEPT !.pc = "counts", !.n = Cardinality(rows \ file')]
             \/ writer' = [writer EXCEPT !.pc = "counts", !.n = 1]
             \/ writer' = WriterRests
          /\ UNCHANGED <<stored, shot, memory, pictureJobs, sentUnremoved, drain, done, picturesDropped, sent, forgiven, stops>>
      BY <1>3 DEF Writes, rows
    <2>9. writer' \in [pc : {"rests", "writes", "counts", "forgets"}, pic : 0..shot, n : Nat]
      <3>1. Cardinality(rows \ file') \in Nat
        BY <2>7
      <3>2. \A n \in Nat : [writer EXCEPT !.pc = "counts", !.n = n]
                              \in [pc : {"rests", "writes", "counts", "forgets"}, pic : 0..shot, n : Nat]
        BY <1>c
      <3>3. WriterRests \in [pc : {"rests", "writes", "counts", "forgets"}, pic : 0..shot, n : Nat]
        BY <1>c
      <3>4. 1 \in Nat
        OBVIOUS
      <3> QED
        BY <2>8, <3>1, <3>2, <3>3, <3>4, Zenon
    <2>10. /\ file' \subseteq [row : Nat \ {0}, pic : 1..shot] /\ Cardinality(file') <= Ceiling
           /\ \A r, q \in file' : r.row < q.row <=> r.pic < q.pic
      BY <1>c, <1>d, <1>l, <2>3, <2>6, <2>8
    <2>11. stored
      BY <1>k, <2>1, <1>c
    <2> QED
      BY <1>c, <1>d, <1>m, <2>8, <2>9, <2>10, <2>11 DEF PicturesTypeOK, PictureJob
  <1>4. CASE Counts
    <2>1. memory' \in SUBSET memory /\ picturesDropped' \in Nat
      BY <1>4, <1>c DEF Counts, Counted
    <2>2. Cardinality(memory') <= MaxInMemory
      BY <1>i, <2>1
    <2>3. writer' \in [pc : {"rests", "writes", "counts", "forgets"}, pic : 0..shot, n : Nat]
      BY <1>4, <1>c DEF Counts
    <2>4. UNCHANGED <<stored, shot, file, pictureJobs, sentUnremoved, drain, done, sent, forgiven, stops>>
      BY <1>4 DEF Counts
    <2> QED
      BY <1>c, <1>d, <1>k, <1>l, <1>m, <2>1, <2>2, <2>3, <2>4 DEF PicturesTypeOK, PictureJob
  <1>5. CASE Removes
    <2>1. Head(pictureJobs).pic \in done
      BY <1>5, <1>e DEF Removes, Next1, PicturesInv, DoneInv
    <2>2. file' \in SUBSET file
      BY <1>5 DEF Removes
    <2>3. Cardinality(file') <= Ceiling
      BY <1>j, <2>2
    <2>4. pictureJobs' \in Seq(PictureJob) /\ stored
      BY <1>5, <1>e, <1>k, <1>c DEF Removes, Next1
    <2>5. writer' \in [pc : {"rests", "writes", "counts", "forgets"}, pic : 0..shot, n : Nat]
      BY <1>5, <1>c, <2>1 DEF Removes
    <2>6. UNCHANGED <<stored, shot, memory, drain, done, picturesDropped, sent, forgiven, stops>> /\ sentUnremoved' \subseteq sentUnremoved
      BY <1>5 DEF Removes, StillThere
    <2> QED
      BY <1>c, <1>d, <1>l, <1>m, <2>2, <2>3, <2>4, <2>5, <2>6 DEF PicturesTypeOK, PictureJob
  <1>6. CASE Forgets
    BY <1>6, <1>b, <1>c DEF Forgets, PicturesTypeOK
  <1>7. CASE Reads
    <2>1. Page(Head(pictureJobs).pic) \subseteq file
      BY DEF Page
    <2> DEFINE page == Page(Head(pictureJobs).pic)
    <2> HIDE DEF page
    <2>4. drain' = [drain EXCEPT !.page = page, !.pc = IF page = {} THEN "memory" ELSE "looks"]
      BY <1>7 DEF Reads, page
    <2>2. drain' \in [pc : {"rests", "reads", "looks", "sends", "clears", "memory", "waiting", "pops"},
                      page : SUBSET [row : Nat, pic : 1..shot]]
      <3>1. page \in SUBSET [row : Nat, pic : 1..shot]
        BY <1>c, <2>1 DEF page
      <3>2. drain' = [drain EXCEPT !.page = page, !.pc = "memory"] \/ drain' = [drain EXCEPT !.page = page, !.pc = "looks"]
        BY <2>4
      <3> QED
        BY <1>c, <3>1, <3>2
    <2>3. pictureJobs' \in Seq(PictureJob) /\ stored
      BY <1>7, <1>e, <1>k, <1>c DEF Reads, Next1
    <2> QED
      BY <1>7, <1>b, <2>2, <2>3 DEF Reads, PicturesTypeOK, PictureJob
  <1>8. CASE NotRead
    <2>1. pictureJobs' \in Seq(PictureJob) /\ stored
      <3>1. PICK i \in 1..Len(pictureJobs) : pictureJobs' = SubSeq(pictureJobs, 1, i - 1) \o SubSeq(pictureJobs, i + 1, Len(pictureJobs))
        BY <1>8 DEF NotRead
      <3>2. pictureJobs' \in Seq(PictureJob)
        BY <1>c, <3>1, Withdrawn
      <3> QED
        BY <1>8, <1>k, <1>c, <3>2 DEF NotRead
    <2> QED
      BY <1>8, <1>b, <1>c, <2>1 DEF NotRead, PicturesTypeOK, PictureJob
  <1>9. CASE FlushPictures
    <2>1. pictureJobs' \in Seq(PictureJob) /\ (~stored => pictureJobs' = <<>>)
      BY <1>9, <1>c, <1>f, <1>k DEF FlushPictures, Asks, PictureJob
    <2> QED
      BY <1>9, <1>b, <1>c, <2>1 DEF FlushPictures, PicturesTypeOK, PictureJob
  <1>10. CASE Looks
    BY <1>10, <1>b, <1>c DEF Looks, PicturesTypeOK
  <1>11. CASE Sends
    <2>1. Current.pic \in 1..shot
      BY <1>11, <1>g, <1>h DEF Sends, FromFile
    <2>2. done' \cup sentUnremoved' \cup sent' \subseteq 1..shot
      BY <1>11, <1>c, <2>1 DEF Sends
    <2>3. drain' \in [pc : {"rests", "reads", "looks", "sends", "clears", "memory", "waiting", "pops"},
                      page : SUBSET [row : Nat, pic : 1..shot]]
      BY <1>11, <1>c DEF Sends
    <2> QED
      BY <1>11, <1>b, <1>c, <2>2, <2>3 DEF Sends, PicturesTypeOK
  <1>12. CASE Clears
    <2>1. Current.pic \in 1..shot /\ Current.row \in Nat /\ stored
      BY <1>12, <1>g, <1>h, <1>k, <1>c DEF Clears, FromFile
    <2>2. pictureJobs' \in Seq(PictureJob)
      <3>1. [op |-> "remove", pic |-> Current.pic] \in PictureJob /\ [op |-> "read", pic |-> Current.row] \in PictureJob
        BY <1>c, <2>1 DEF PictureJob
      <3> DEFINE cleared == Append(pictureJobs, [op |-> "remove", pic |-> Current.pic])
      <3>2. cleared \in Seq(PictureJob)
        BY <1>f, <3>1
      <3>3. Append(cleared, [op |-> "read", pic |-> Current.row]) \in Seq(PictureJob)
        BY <3>1, <3>2
      <3> QED
        BY <1>12, <3>2, <3>3 DEF Clears, After
    <2>3. drain' \in [pc : {"rests", "reads", "looks", "sends", "clears", "memory", "waiting", "pops"},
                      page : SUBSET [row : Nat, pic : 1..shot]]
      <3>1. Rest \in SUBSET [row : Nat, pic : 1..shot]
        BY <1>c DEF Rest
      <3>2. CASE Rest # {}
        <4>1. drain' = [drain EXCEPT !.pc = "looks", !.page = Rest]
          BY <1>12, <3>2 DEF Clears
        <4> QED
          BY <1>c, <3>1, <4>1
      <3>3. CASE Rest = {}
        BY <1>12, <3>3 DEF Clears
      <3> QED
        BY <3>2, <3>3
    <2> QED
      BY <1>12, <1>b, <2>1, <2>2, <2>3 DEF Clears, PicturesTypeOK, PictureJob
  <1>13. CASE Memory
    <2>1. {[row |-> 0, pic |-> p] : p \in memory} \subseteq [row : Nat, pic : 1..shot]
      BY <1>c
    <2>2. drain' \in [pc : {"rests", "reads", "looks", "sends", "clears", "memory", "waiting", "pops"},
                      page : SUBSET [row : Nat, pic : 1..shot]]
      BY <1>13, <2>1 DEF Memory
    <2> QED
      BY <1>13, <1>b, <2>2 DEF Memory, PicturesTypeOK
  <1>14. CASE SendsWaiting
    <2>1. Current.pic \in 1..shot
      BY <1>14, <1>g, <1>h DEF SendsWaiting
    <2>2. done' \subseteq 1..shot
      BY <1>14, <1>c, <2>1 DEF SendsWaiting
    <2>3. drain' \in [pc : {"rests", "reads", "looks", "sends", "clears", "memory", "waiting", "pops"},
                      page : SUBSET [row : Nat, pic : 1..shot]]
      BY <1>14, <1>c DEF SendsWaiting
    <2> QED
      BY <1>14, <1>b, <1>c, <2>2, <2>3 DEF SendsWaiting, PicturesTypeOK
  <1>15. CASE Pops
    <2>1. memory' \in SUBSET memory
      BY <1>15 DEF Pops
    <2>2. Cardinality(memory') <= MaxInMemory
      BY <1>i, <2>1
    <2>3. drain' \in [pc : {"rests", "reads", "looks", "sends", "clears", "memory", "waiting", "pops"},
                      page : SUBSET [row : Nat, pic : 1..shot]]
      BY <1>15, <1>c DEF Pops, Rest
    <2> QED
      BY <1>15, <1>b, <1>c, <2>1, <2>2, <2>3 DEF Pops, PicturesTypeOK
  <1>16. CASE StopsAndStarts
    <2>1. Cardinality({}) <= MaxInMemory
      BY <1>a, FS_EmptySet
    <2>2. stops' \in 0..MaxStops /\ picturesDropped' \in Nat
      BY <1>16, <1>a, <1>m DEF StopsAndStarts
    <2>3. sentUnremoved' \cup done' \cup sent' \cup forgiven' \subseteq 1..shot
      BY <1>16, <1>c DEF StopsAndStarts
    <2> QED
      BY <1>16, <1>b, <1>c, <2>1, <2>2, <2>3 DEF StopsAndStarts, PicturesTypeOK
  <1>17. CASE UNCHANGED picturesVars
    BY <1>17, <1>b DEF picturesVars, PicturesTypeOK
  <1> QED
    BY <1>1, <1>2, <1>3, <1>4, <1>5, <1>6, <1>7, <1>8, <1>9, <1>10, <1>11, <1>12, <1>13, <1>14, <1>15, <1>16,
       <1>17
       DEF PicturesNext, Disk, Drain

\* The types, for use in every step.
LEMMA PictureTyped ==
  ASSUME PicturesInv
  PROVE  /\ shot \in Nat /\ memory \subseteq 1..shot
         /\ file \subseteq [row : Nat \ {0}, pic : 1..shot]
         /\ pictureJobs \in Seq(PictureJob)
         /\ writer \in [pc : {"rests", "writes", "counts", "forgets"}, pic : 0..shot, n : Nat]
         /\ drain \in [pc : {"rests", "reads", "looks", "sends", "clears", "memory", "waiting", "pops"},
                       page : SUBSET [row : Nat, pic : 1..shot]]
         /\ sentUnremoved \cup done \cup sent \cup forgiven \subseteq 1..shot
         /\ \A r, q \in file : r.row < q.row <=> r.pic < q.pic
         /\ ~stored => pictureJobs = <<>>
         /\ picturesDropped \in Nat
  BY PictureOutboxAssumption DEF PicturesInv, PicturesTypeOK, PictureJob

\* What a page has left is its rows but the first.
LEMMA RestIs ==
  ASSUME PicturesInv, drain.page # {}
  PROVE  /\ Current \in drain.page /\ Current.pic \in OnPage
         /\ Rest \subseteq drain.page
         /\ \A r \in Rest : r.pic # Current.pic
         /\ {r.pic : r \in Rest} = OnPage \ {Current.pic}
  <1>1. Current \in drain.page
    BY CurrentIs DEF PicturesInv
  <1>2. \A r, q \in drain.page : r.pic = q.pic => r = q
    BY DEF PicturesInv, RowInv
  <1> DEFINE now == Current
  <1>3. Rest = drain.page \ {now}
    BY DEF Rest
  <1>4. now \in drain.page
    BY <1>1
  <1> HIDE DEF now
  <1>5. /\ now.pic \in OnPage /\ Rest \subseteq drain.page
        /\ \A r \in Rest : r.pic # now.pic
        /\ {r.pic : r \in Rest} = OnPage \ {now.pic}
    BY <1>2, <1>3, <1>4 DEF OnPage
  <1> QED
    BY <1>4, <1>5 DEF now

\* Every step keeps the rows in their order.
LEMMA RowStep ==
  ASSUME PicturesInv, [PicturesNext]_picturesVars
  PROVE  RowInv'
  <1> USE DEF pictureDisk, WriterRests, DrainRests, DrainAt, FromFile
  <1>a. RowInv /\ PicturesTypeOK
    BY DEF PicturesInv
  <1>b. \A r \in file : r.row <= r.pic
    BY <1>a DEF RowInv
  <1>c. \A r, q \in drain.page : (r.row < q.row => r.pic < q.pic) /\ (r.pic = q.pic => r = q)
    BY <1>a DEF RowInv
  <1>d. ~stored => writer.pc = "rests" /\ drain.pc \in {"rests", "memory", "waiting", "pops"}
    BY <1>a DEF RowInv
  <1>e. ~stored => pictureJobs = <<>>
    BY PictureTyped
  <1>f. drain.page # {} => Rest \subseteq drain.page
    BY DEF Rest
  <1>g. drain \in [pc : {"rests", "reads", "looks", "sends", "clears", "memory", "waiting", "pops"},
                   page : SUBSET [row : Nat, pic : 1..shot]]
    BY PictureTyped
  <1>1. CASE Takes
    BY <1>1, <1>a DEF Takes, RowInv
  <1>2. CASE Begins
    <2>1. stored
      BY <1>2, <1>e DEF Begins, Next1
    <2> QED
      BY <1>2, <1>a, <2>1 DEF Begins, RowInv
  <1>3. CASE Writes
    <2>1. writer.pc = "writes" /\ writer.pic \in 1..shot /\ \A r \in file : r.pic < writer.pic
      BY <1>3, PictureTyped DEF Writes, PicturesInv, WriteInv, TakenUp, OnFile
    <2>2. NewRow <= writer.pic
      <3>1. \A b \in Nat \ {0} : (\A r \in file : r.pic < b) => NewRow <= b
        BY <1>a, NewRowIs
      <3>2. writer.pic \in Nat \ {0}
        BY <2>1, PictureTyped
      <3> QED
        BY <2>1, <3>1, <3>2
    <2>3. file' \subseteq file \cup {[row |-> NewRow, pic |-> writer.pic]}
      BY <1>3 DEF Writes, Kept
    <2>4. \A r \in file' : r.row <= r.pic
      BY <1>b, <2>2, <2>3
    <2>5. stored /\ UNCHANGED <<stored, drain>>
      BY <1>3, <1>d, <2>1 DEF Writes
    <2> QED
      BY <1>a, <2>4, <2>5 DEF RowInv
  <1>4. CASE Counts
    BY <1>4, <1>a DEF Counts, RowInv
  <1>5. CASE Removes
    <2>1. stored
      BY <1>5, <1>e DEF Removes, Next1
    <2> QED
      BY <1>5, <1>a, <2>1 DEF Removes, RowInv
  <1>6. CASE Forgets
    BY <1>6, <1>a DEF Forgets, RowInv
  <1>7. CASE Reads
    <2> DEFINE page == Page(Head(pictureJobs).pic)
    <2>1. page \subseteq file
      BY DEF Page
    <2> HIDE DEF page
    <2>2. drain' = [drain EXCEPT !.page = page, !.pc = IF page = {} THEN "memory" ELSE "looks"]
      BY <1>7 DEF Reads, page
    <2>3. drain'.page = page /\ drain'.pc = IF page = {} THEN "memory" ELSE "looks"
      BY <1>g, <2>2
    <2>4. \A r, q \in page : (r.row < q.row => r.pic < q.pic) /\ (r.pic = q.pic => r = q)
      BY <2>1, PictureTyped
    <2>5. stored /\ UNCHANGED <<stored, file, writer>>
      BY <1>7, <1>e DEF Reads, Next1
    <2> QED
      BY <1>a, <2>3, <2>4, <2>5 DEF RowInv
  <1>8. CASE NotRead
    <2>1. stored
      BY <1>8, <1>d DEF NotRead
    <2> QED
      BY <1>8, <1>a, <1>g, <2>1 DEF NotRead, RowInv
  <1>9. CASE FlushPictures
    BY <1>9, <1>a, <1>g DEF FlushPictures, RowInv
  <1>10. CASE Looks
    BY <1>10, <1>a, <1>g DEF Looks, RowInv
  <1>11. CASE Sends
    BY <1>11, <1>a, <1>g DEF Sends, RowInv
  <1>12. CASE Clears
    <2>1. stored /\ UNCHANGED <<stored, file, writer>> /\ drain.page # {}
      BY <1>12, <1>a, <1>d DEF Clears, RowInv
    <2>2. CASE Rest # {}
      <3>1. drain' = [drain EXCEPT !.pc = "looks", !.page = Rest]
        BY <1>12, <2>2 DEF Clears
      <3>2. drain'.page = Rest /\ drain'.pc = "looks"
        BY <1>g, <3>1
      <3> QED
        BY <1>a, <1>f, <2>1, <2>2, <3>2 DEF RowInv
    <2>3. CASE Rest = {}
      <3>1. drain'.pc = "reads" /\ drain'.page = {}
        BY <1>12, <2>3 DEF Clears
      <3> QED
        BY <1>a, <2>1, <3>1 DEF RowInv
    <2> QED
      BY <2>2, <2>3
  <1>13. CASE Memory
    <2>1. UNCHANGED <<stored, file, writer>>
      BY <1>13 DEF Memory
    <2>2. CASE memory = {}
      BY <1>13, <1>a, <2>1, <2>2 DEF Memory, RowInv
    <2>3. CASE memory # {}
      <3> DEFINE page == {[row |-> 0, pic |-> p] : p \in memory}
      <3>1. drain'.page = page /\ drain'.pc = "waiting" /\ page # {}
        BY <1>13, <2>3 DEF Memory
      <3>2. \A r, q \in page : (r.row < q.row => r.pic < q.pic) /\ (r.pic = q.pic => r = q)
        OBVIOUS
      <3> HIDE DEF page
      <3> QED
        BY <1>a, <2>1, <3>1, <3>2 DEF RowInv
    <2> QED
      BY <2>2, <2>3
  <1>14. CASE SendsWaiting
    BY <1>14, <1>a, <1>g DEF SendsWaiting, RowInv
  <1>15. CASE Pops
    <2>1. UNCHANGED <<stored, file, writer>> /\ drain.page # {}
      BY <1>15, <1>a DEF Pops, RowInv
    <2>2. CASE Rest = {}
      BY <1>15, <1>a, <2>1, <2>2 DEF Pops, RowInv
    <2>3. CASE Rest # {}
      <3>1. drain'.page = Rest /\ drain'.pc = "waiting"
        BY <1>15, <2>3 DEF Pops
      <3> QED
        BY <1>a, <1>f, <2>1, <2>3, <3>1 DEF RowInv
    <2> QED
      BY <2>2, <2>3
  <1>16. CASE StopsAndStarts
    BY <1>16, <1>a DEF StopsAndStarts, RowInv
  <1>17. CASE UNCHANGED picturesVars
    BY <1>17, <1>a DEF picturesVars, RowInv
  <1> QED
    BY <1>1, <1>2, <1>3, <1>4, <1>5, <1>6, <1>7, <1>8, <1>9, <1>10, <1>11, <1>12, <1>13, <1>14, <1>15, <1>16,
       <1>17
       DEF PicturesNext, Disk, Drain

\* The jobs of a kind that a step leaves were there before it, in this order.
Follow(op) ==
  \E f \in [1..Len(pictureJobs') -> Nat] :
    /\ \A i \in 1..Len(pictureJobs') : pictureJobs'[i].op = op => f[i] \in 1..Len(pictureJobs) /\ pictureJobs'[i] = pictureJobs[f[i]]
    /\ \A i, j \in 1..Len(pictureJobs') : i < j => f[i] < f[j]

LEMMA JobsFollow ==
  ASSUME PicturesInv, [PicturesNext]_picturesVars
  PROVE  /\ ~Takes => Follow("write")
         /\ ~Clears => Follow("remove")
  <1> USE DEF pictureDisk
  <1>a. pictureJobs \in Seq(PictureJob)
    BY PictureTyped
  <1>b. Len(pictureJobs) \in Nat
    BY <1>a
  <1>1. CASE pictureJobs' = pictureJobs
    <2> DEFINE f == [i \in 1..Len(pictureJobs') |-> i]
    <2>1. f \in [1..Len(pictureJobs') -> Nat] /\ \A i \in 1..Len(pictureJobs') : f[i] = i
      BY <1>1, <1>b
    <2> HIDE DEF f
    <2>2. \A i, j \in 1..Len(pictureJobs') : i < j => f[i] < f[j]
      BY <1>1, <1>b, <2>1
    <2> QED
      BY <1>1, <2>1, <2>2 DEF Follow
  <1>2. CASE pictureJobs # <<>> /\ pictureJobs' = Tail(pictureJobs)
    <2>1. Len(pictureJobs') = Len(pictureJobs) - 1 /\ \A i \in 1..Len(pictureJobs) - 1 : pictureJobs'[i] = pictureJobs[i + 1]
      BY <1>2, <1>a, TakenOff
    <2> DEFINE f == [i \in 1..Len(pictureJobs') |-> i + 1]
    <2>2. f \in [1..Len(pictureJobs') -> Nat] /\ \A i \in 1..Len(pictureJobs') : f[i] = i + 1
      BY <1>b, <2>1
    <2> HIDE DEF f
    <2>3. \A i, j \in 1..Len(pictureJobs') : i < j => f[i] < f[j]
      BY <1>b, <2>1, <2>2
    <2>4. \A i \in 1..Len(pictureJobs') : f[i] \in 1..Len(pictureJobs) /\ pictureJobs'[i] = pictureJobs[f[i]]
      BY <1>b, <2>1, <2>2
    <2> QED
      BY <2>2, <2>3, <2>4 DEF Follow
  <1>3. ASSUME NEW e \in PictureJob, pictureJobs' = Append(pictureJobs, e), NEW op, op # e.op PROVE Follow(op)
    <2>1. Len(pictureJobs') = Len(pictureJobs) + 1 /\ (\A i \in 1..Len(pictureJobs) : pictureJobs'[i] = pictureJobs[i]) /\ pictureJobs'[Len(pictureJobs) + 1] = e
      BY <1>3, <1>a, HandedIn
    <2> DEFINE f == [i \in 1..Len(pictureJobs') |-> i]
    <2>2. f \in [1..Len(pictureJobs') -> Nat] /\ \A i \in 1..Len(pictureJobs') : f[i] = i
      BY <1>b, <2>1
    <2> HIDE DEF f
    <2>3. \A i, j \in 1..Len(pictureJobs') : i < j => f[i] < f[j]
      BY <1>b, <2>1, <2>2
    <2> QED
      BY <1>3, <1>b, <2>1, <2>2, <2>3 DEF Follow
  <1>4. ASSUME NEW d \in PictureJob, NEW e \in PictureJob, pictureJobs' = Append(Append(pictureJobs, d), e), NEW op, op # e.op, op # d.op
        PROVE  Follow(op)
    <2>1. /\ Append(pictureJobs, d) \in Seq(PictureJob) /\ Len(Append(pictureJobs, d)) = Len(pictureJobs) + 1
          /\ (\A i \in 1..Len(pictureJobs) : Append(pictureJobs, d)[i] = pictureJobs[i]) /\ Append(pictureJobs, d)[Len(pictureJobs) + 1] = d
      BY <1>a, HandedIn
    <2> DEFINE s == Append(pictureJobs, d)
    <2> HIDE DEF s
    <2>2. /\ Len(pictureJobs') = Len(s) + 1 /\ (\A i \in 1..Len(s) : pictureJobs'[i] = s[i]) /\ pictureJobs'[Len(s) + 1] = e
      BY <1>4, <2>1, HandedIn DEF s
    <2>3. /\ Len(pictureJobs') = Len(pictureJobs) + 2 /\ (\A i \in 1..Len(pictureJobs) : pictureJobs'[i] = pictureJobs[i])
          /\ pictureJobs'[Len(pictureJobs) + 1] = d /\ pictureJobs'[Len(pictureJobs) + 2] = e
      BY <1>b, <2>1, <2>2 DEF s
    <2> DEFINE f == [i \in 1..Len(pictureJobs') |-> i]
    <2>4. f \in [1..Len(pictureJobs') -> Nat] /\ \A i \in 1..Len(pictureJobs') : f[i] = i
      BY <1>b, <2>3
    <2> HIDE DEF f
    <2>5. \A i, j \in 1..Len(pictureJobs') : i < j => f[i] < f[j]
      BY <1>b, <2>3, <2>4
    <2>6. ASSUME NEW i \in 1..Len(pictureJobs'), pictureJobs'[i].op = op
          PROVE  i \in 1..Len(pictureJobs) /\ pictureJobs'[i] = pictureJobs[i]
      <3>1. i # Len(pictureJobs) + 1 /\ i # Len(pictureJobs) + 2
        BY <1>4, <2>3, <2>6
      <3> QED
        BY <1>b, <2>3, <3>1
    <2> QED
      BY <2>4, <2>5, <2>6 DEF Follow
  <1>5. CASE Takes
    <2>1. pictureJobs' = pictureJobs \/ pictureJobs' = Append(pictureJobs, [op |-> "write", pic |-> shot'])
      BY <1>5 DEF Takes
    <2>2. [op |-> "write", pic |-> shot'] \in PictureJob
      BY <1>5, PictureTyped DEF Takes, PictureJob
    <2> QED
      BY <1>1, <1>3, <1>5, <2>1, <2>2
  <1>6. CASE NotRead
    <2>1. PICK k \in 1..Len(pictureJobs) : pictureJobs' = SubSeq(pictureJobs, 1, k - 1) \o SubSeq(pictureJobs, k + 1, Len(pictureJobs))
      BY <1>6 DEF NotRead
    <2>2. Len(pictureJobs') = Len(pictureJobs) - 1 /\ \A i \in 1..Len(pictureJobs) - 1 : pictureJobs'[i] = IF i < k THEN pictureJobs[i] ELSE pictureJobs[i + 1]
      BY <1>a, <2>1, Withdrawn
    <2> DEFINE f == [i \in 1..Len(pictureJobs') |-> IF i < k THEN i ELSE i + 1]
    <2>3. f \in [1..Len(pictureJobs') -> Nat] /\ \A i \in 1..Len(pictureJobs') : f[i] = IF i < k THEN i ELSE i + 1
      BY <1>b, <2>2
    <2> HIDE DEF f
    <2>4. \A i, j \in 1..Len(pictureJobs') : i < j => f[i] < f[j]
      BY <1>b, <2>2, <2>3
    <2>5. \A i \in 1..Len(pictureJobs') : f[i] \in 1..Len(pictureJobs) /\ pictureJobs'[i] = pictureJobs[f[i]]
      <3> SUFFICES ASSUME NEW i \in 1..Len(pictureJobs') PROVE f[i] \in 1..Len(pictureJobs) /\ pictureJobs'[i] = pictureJobs[f[i]]
        OBVIOUS
      <3>1. CASE i < k
        BY <1>b, <2>2, <2>3, <3>1
      <3>2. CASE ~(i < k)
        BY <1>b, <2>2, <2>3, <3>2
      <3> QED
        BY <3>1, <3>2
    <2> QED
      BY <2>3, <2>4, <2>5 DEF Follow
  <1>7. CASE FlushPictures
    <2>1. pictureJobs' = pictureJobs \/ pictureJobs' = Append(pictureJobs, [op |-> "read", pic |-> 0])
      BY <1>7 DEF FlushPictures, Asks
    <2>2. [op |-> "read", pic |-> 0] \in PictureJob
      BY DEF PictureJob
    <2> QED
      BY <1>1, <1>3, <2>1, <2>2
  <1>8. CASE Clears
    <2> DEFINE d == [op |-> "remove", pic |-> Current.pic]
               e == [op |-> "read", pic |-> Current.row]
    <2>1. pictureJobs' = Append(pictureJobs, d) \/ pictureJobs' = Append(Append(pictureJobs, d), e)
      BY <1>8 DEF Clears, After
    <2>2. d \in PictureJob /\ e \in PictureJob
      <3>1. drain.page # {}
        BY <1>8 DEF Clears, DrainAt, PicturesInv, RowInv, FromFile
      <3>2. Current.pic \in Nat /\ Current.row \in Nat
        BY <3>1, CurrentIs, PictureTyped DEF PicturesInv
      <3> QED
        BY <3>2 DEF PictureJob
    <2>3. d.op = "remove" /\ e.op = "read"
      OBVIOUS
    <2> HIDE DEF d, e
    <2> QED
      BY <1>3, <1>4, <1>8, <2>1, <2>2, <2>3
  <1>9. CASE StopsAndStarts
    <2>1. pictureJobs' = <<>> /\ Len(pictureJobs') = 0
      BY <1>9 DEF StopsAndStarts
    <2> DEFINE f == [i \in 1..Len(pictureJobs') |-> i]
    <2>2. f \in [1..Len(pictureJobs') -> Nat] /\ \A i \in 1..Len(pictureJobs') : FALSE
      BY <2>1
    <2> HIDE DEF f
    <2> QED
      BY <2>2 DEF Follow
  <1>10. CASE Begins \/ Removes \/ Reads
    BY <1>2, <1>10 DEF Begins, Removes, Reads, Next1
  <1>11. CASE \/ Writes \/ Counts \/ Forgets \/ Looks \/ Sends \/ Memory \/ SendsWaiting
              \/ Pops \/ UNCHANGED picturesVars
    <2>1. pictureJobs' = pictureJobs
      BY <1>11 DEF Writes, Counts, Forgets, Looks, Sends, Memory, SendsWaiting, Pops, picturesVars
    <2> QED
      BY <1>1, <2>1
  <1> QED
    BY <1>5, <1>6, <1>7, <1>8, <1>9, <1>10, <1>11 DEF PicturesNext, Disk, Drain

\* What is taken up was taken up before, or is being written.
LEMMA TakenUpStep ==
  ASSUME PicturesInv, [PicturesNext]_picturesVars
  PROVE  TakenUp' \subseteq TakenUp \cup (IF Writes THEN {writer.pic} ELSE {})
  <1> USE DEF pictureDisk, WriterRests, DrainRests, DrainAt, FromFile, TakenUp, OnPage, OnFile
  <1>g. drain \in [pc : {"rests", "reads", "looks", "sends", "clears", "memory", "waiting", "pops"},
                   page : SUBSET [row : Nat, pic : 1..shot]]
    BY PictureTyped
  <1>h. FromFile => Current \in drain.page /\ Current.pic \in OnPage /\ Rest \subseteq drain.page
    BY RestIs DEF PicturesInv, RowInv
  <1>1. CASE Takes
    BY <1>1 DEF Takes
  <1>2. CASE Begins
    BY <1>2 DEF Begins
  <1>3. CASE Writes
    <2>1. file' \subseteq file \cup {[row |-> NewRow, pic |-> writer.pic]} /\ UNCHANGED <<sent, drain>>
      BY <1>3 DEF Writes, Kept
    <2>2. OnFile' \subseteq OnFile \cup {writer.pic}
      BY <2>1
    <2>3. OnPage' = OnPage /\ FromFile' = FromFile
      BY <2>1
    <2> QED
      BY <1>3, <2>1, <2>2, <2>3
  <1>4. CASE Counts
    BY <1>4 DEF Counts
  <1>5. CASE Removes
    BY <1>5 DEF Removes
  <1>6. CASE Forgets
    BY <1>6 DEF Forgets
  <1>7. CASE Reads
    <2> DEFINE page == Page(Head(pictureJobs).pic)
    <2>1. page \subseteq file
      BY DEF Page
    <2> HIDE DEF page
    <2>2. drain' = [drain EXCEPT !.page = page, !.pc = IF page = {} THEN "memory" ELSE "looks"]
      BY <1>7 DEF Reads, page
    <2>3. drain'.page = page
      BY <1>g, <2>2
    <2>4. UNCHANGED <<file, sent>>
      BY <1>7 DEF Reads
    <2> QED
      BY <2>1, <2>3, <2>4
  <1>8. CASE NotRead
    BY <1>8, <1>g DEF NotRead
  <1>9. CASE FlushPictures
    BY <1>9, <1>g DEF FlushPictures
  <1>10. CASE Looks
    BY <1>10, <1>g DEF Looks
  <1>11. CASE Sends
    BY <1>11, <1>g, <1>h DEF Sends
  <1>12. CASE Clears
    <2>1. drain'.page \subseteq drain.page
      BY <1>12, <1>g, <1>h DEF Clears
    <2>2. UNCHANGED <<file, sent>> /\ FromFile
      BY <1>12 DEF Clears
    <2> QED
      BY <2>1, <2>2
  <1>13. CASE Memory
    BY <1>13 DEF Memory
  <1>14. CASE SendsWaiting
    BY <1>14, <1>g DEF SendsWaiting
  <1>15. CASE Pops
    BY <1>15 DEF Pops
  <1>16. CASE StopsAndStarts
    BY <1>16 DEF StopsAndStarts
  <1>17. CASE UNCHANGED picturesVars
    BY <1>17 DEF picturesVars
  <1> QED
    BY <1>1, <1>2, <1>3, <1>4, <1>5, <1>6, <1>7, <1>8, <1>9, <1>10, <1>11, <1>12, <1>13, <1>14, <1>15, <1>16,
       <1>17
       DEF PicturesNext, Disk, Drain

\* Every step keeps the writes in their order.
LEMMA WriteStep ==
  ASSUME PicturesInv, [PicturesNext]_picturesVars
  PROVE  WriteInv'
  <1> USE DEF pictureDisk, WriterRests
  <1>a. /\ \A i \in 1..Len(pictureJobs) : pictureJobs[i].op = "write" => pictureJobs[i].pic \in 1..shot
        /\ \A i, j \in 1..Len(pictureJobs) :
             i < j /\ pictureJobs[i].op = "write" /\ pictureJobs[j].op = "write" => pictureJobs[i].pic < pictureJobs[j].pic
        /\ \A i \in 1..Len(pictureJobs) : \A p \in TakenUp : pictureJobs[i].op = "write" => p < pictureJobs[i].pic
        /\ writer.pc = "writes" =>
             /\ writer.pic # 0
             /\ \A i \in 1..Len(pictureJobs) : pictureJobs[i].op = "write" => writer.pic < pictureJobs[i].pic
             /\ \A p \in TakenUp : p < writer.pic
    BY DEF PicturesInv, WriteInv
  <1>b. /\ shot \in Nat /\ pictureJobs \in Seq(PictureJob) /\ Len(pictureJobs) \in Nat
        /\ writer \in [pc : {"rests", "writes", "counts", "forgets"}, pic : 0..shot, n : Nat]
    BY PictureTyped
  <1>c. TakenUp' \subseteq TakenUp \cup (IF Writes THEN {writer.pic} ELSE {})
    BY TakenUpStep
  <1>d. TakenUp \subseteq 1..shot
    BY PictureTyped DEF TakenUp, OnPage, OnFile
  <1>1. CASE Takes
    <2>1. shot' = shot + 1 /\ writer' = writer /\ TakenUp' = TakenUp
      BY <1>1 DEF Takes, TakenUp, OnPage, OnFile, FromFile
    <2>2. CASE pictureJobs' = pictureJobs
      BY <1>a, <1>b, <2>1, <2>2 DEF WriteInv
    <2>3. CASE pictureJobs' = Append(pictureJobs, [op |-> "write", pic |-> shot'])
      <3> DEFINE e == [op |-> "write", pic |-> shot']
      <3>1. e \in PictureJob /\ e.op = "write" /\ e.pic = shot + 1
        BY <1>b, <2>1 DEF PictureJob
      <3> HIDE DEF e
      <3>2. Len(pictureJobs') = Len(pictureJobs) + 1 /\ (\A i \in 1..Len(pictureJobs) : pictureJobs'[i] = pictureJobs[i]) /\ pictureJobs'[Len(pictureJobs) + 1] = e
        BY <1>b, <2>3, <3>1, HandedIn DEF e
      <3>3. \A i \in 1..Len(pictureJobs') : pictureJobs'[i].op = "write" => pictureJobs'[i].pic \in 1..shot'
        BY <1>a, <1>b, <2>1, <3>1, <3>2
      <3>4. \A i, j \in 1..Len(pictureJobs') :
              i < j /\ pictureJobs'[i].op = "write" /\ pictureJobs'[j].op = "write" => pictureJobs'[i].pic < pictureJobs'[j].pic
        <4> SUFFICES ASSUME NEW i \in 1..Len(pictureJobs'), NEW j \in 1..Len(pictureJobs'), i < j,
                            pictureJobs'[i].op = "write", pictureJobs'[j].op = "write"
                     PROVE  pictureJobs'[i].pic < pictureJobs'[j].pic
          OBVIOUS
        <4>1. i \in 1..Len(pictureJobs) /\ pictureJobs'[i] = pictureJobs[i]
          BY <1>b, <3>2
        <4>2. CASE j \in 1..Len(pictureJobs)
          BY <1>a, <3>2, <4>1, <4>2
        <4>3. CASE j = Len(pictureJobs) + 1
          BY <1>a, <1>b, <3>1, <3>2, <4>1, <4>3
        <4> QED
          BY <1>b, <3>2, <4>2, <4>3
      <3>5. \A i \in 1..Len(pictureJobs') : \A p \in TakenUp : pictureJobs'[i].op = "write" => p < pictureJobs'[i].pic
        <4> SUFFICES ASSUME NEW i \in 1..Len(pictureJobs'), NEW p \in TakenUp, pictureJobs'[i].op = "write" PROVE p < pictureJobs'[i].pic
          OBVIOUS
        <4>1. CASE i \in 1..Len(pictureJobs)
          BY <1>a, <3>2, <4>1
        <4>2. CASE i = Len(pictureJobs) + 1
          BY <1>b, <1>d, <3>1, <3>2, <4>2
        <4> QED
          BY <1>b, <3>2, <4>1, <4>2
      <3>6. writer.pc = "writes" => \A i \in 1..Len(pictureJobs') : pictureJobs'[i].op = "write" => writer.pic < pictureJobs'[i].pic
        <4> SUFFICES ASSUME writer.pc = "writes", NEW i \in 1..Len(pictureJobs'), pictureJobs'[i].op = "write"
                     PROVE  writer.pic < pictureJobs'[i].pic
          OBVIOUS
        <4>1. CASE i \in 1..Len(pictureJobs)
          BY <1>a, <3>2, <4>1
        <4>2. CASE i = Len(pictureJobs) + 1
          BY <1>b, <3>1, <3>2, <4>2
        <4> QED
          BY <1>b, <3>2, <4>1, <4>2
      <3> QED
        BY <1>a, <2>1, <3>3, <3>4, <3>5, <3>6 DEF WriteInv
    <2> QED
      BY <1>1, <2>2, <2>3 DEF Takes
  <1>2. CASE Begins
    <2>1. /\ pictureJobs # <<>> /\ Head(pictureJobs) = pictureJobs[1] /\ pictureJobs' = Tail(pictureJobs) /\ pictureJobs[1].op = "write" /\ 1 \in 1..Len(pictureJobs)
          /\ Len(pictureJobs') = Len(pictureJobs) - 1 /\ \A i \in 1..Len(pictureJobs) - 1 : pictureJobs'[i] = pictureJobs[i + 1]
      BY <1>2, <1>b, TakenOff DEF Begins, Next1
    <2>2. shot' = shot /\ TakenUp' \subseteq TakenUp
      BY <1>2, <1>c DEF Begins, TakenUp, OnPage, OnFile, FromFile
    <2>3. writer'.pc = "writes" => writer'.pic = pictureJobs[1].pic
      BY <1>2, <2>1 DEF Begins
    <2>4. \A i \in 1..Len(pictureJobs') : i + 1 \in 1..Len(pictureJobs) /\ 1 < i + 1 /\ pictureJobs'[i] = pictureJobs[i + 1]
      BY <1>b, <2>1
    <2>5. \A i, j \in 1..Len(pictureJobs') : i < j => i + 1 < j + 1
      BY <1>b, <2>1
    <2>6. pictureJobs[1].pic \in 1..shot /\ \A p \in TakenUp : p < pictureJobs[1].pic
      BY <1>a, <2>1
    <2>7. writer'.pc = "writes" =>
             /\ writer'.pic # 0
             /\ \A i \in 1..Len(pictureJobs') : pictureJobs'[i].op = "write" => writer'.pic < pictureJobs'[i].pic
             /\ \A p \in TakenUp' : p < writer'.pic
      BY <1>a, <2>1, <2>2, <2>3, <2>4, <2>6
    <2> QED
      BY <1>a, <2>2, <2>4, <2>5, <2>7 DEF WriteInv
  <1>3. CASE ~Takes /\ ~Begins
    <2>1. shot' = shot
      BY <1>3 DEF PicturesNext, Disk, Drain, Writes, Counts, Removes, Forgets, Reads, NotRead, FlushPictures,
                  Looks, Sends, Clears, Memory, SendsWaiting, Pops, StopsAndStarts, picturesVars
    <2>3. Writes => writer.pc = "writes" /\ writer'.pc # "writes"
      <3> SUFFICES ASSUME Writes PROVE writer.pc = "writes" /\ writer'.pc # "writes"
        OBVIOUS
      <3>1. \/ \E n : writer' = [writer EXCEPT !.pc = "counts", !.n = n]
            \/ writer' = WriterRests
        BY DEF Writes
      <3>2. \A n : [writer EXCEPT !.pc = "counts", !.n = n].pc = "counts"
        BY <1>b
      <3>3. writer'.pc \in {"counts", "rests"}
        <4>1. CASE writer' = WriterRests
          BY <4>1
        <4>2. ASSUME NEW n, writer' = [writer EXCEPT !.pc = "counts", !.n = n] PROVE writer'.pc = "counts"
          BY <3>2, <4>2
        <4> QED
          BY <3>1, <4>1, <4>2
      <3> QED
        BY <3>3 DEF Writes
    <2>2. writer'.pc = "writes" => writer' = writer
      <3>1. CASE Writes
        BY <2>3, <3>1
      <3>2. CASE Removes
        BY <3>2 DEF Removes
      <3>3. CASE Counts \/ Forgets \/ StopsAndStarts
        BY <3>3 DEF Counts, Forgets, StopsAndStarts
      <3>4. CASE Reads \/ NotRead \/ Drain \/ UNCHANGED picturesVars
        BY <3>4 DEF Drain, Reads, NotRead, FlushPictures, Looks, Sends, Clears, Memory, SendsWaiting,
                    Pops, picturesVars
      <3> QED
        BY <1>3, <3>1, <3>2, <3>3, <3>4 DEF PicturesNext, Disk
    <2>4. PICK f \in [1..Len(pictureJobs') -> Nat] :
            /\ \A i \in 1..Len(pictureJobs') : pictureJobs'[i].op = "write" => f[i] \in 1..Len(pictureJobs) /\ pictureJobs'[i] = pictureJobs[f[i]]
            /\ \A i, j \in 1..Len(pictureJobs') : i < j => f[i] < f[j]
      BY <1>3, JobsFollow DEF Follow
    <2>5. \A i \in 1..Len(pictureJobs') : pictureJobs'[i].op = "write" => pictureJobs'[i].pic \in 1..shot'
      BY <1>a, <2>1, <2>4
    <2>6. \A i, j \in 1..Len(pictureJobs') :
              i < j /\ pictureJobs'[i].op = "write" /\ pictureJobs'[j].op = "write" => pictureJobs'[i].pic < pictureJobs'[j].pic
      BY <1>a, <2>4
    <2>7. \A i \in 1..Len(pictureJobs') : \A p \in TakenUp' : pictureJobs'[i].op = "write" => p < pictureJobs'[i].pic
      <3>1. \A i \in 1..Len(pictureJobs) : \A p \in TakenUp' : pictureJobs[i].op = "write" => p < pictureJobs[i].pic
        BY <1>a, <1>c, <2>3
      <3> QED
        BY <2>4, <3>1
    <2>8. writer'.pc = "writes" =>
             /\ writer'.pic # 0
             /\ \A i \in 1..Len(pictureJobs') : pictureJobs'[i].op = "write" => writer'.pic < pictureJobs'[i].pic
             /\ \A p \in TakenUp' : p < writer'.pic
      BY <1>a, <1>c, <2>2, <2>3, <2>4
    <2> QED
      BY <2>5, <2>6, <2>7, <2>8 DEF WriteInv
  <1> QED
    BY <1>1, <1>2, <1>3

\* Every step keeps what is done with done.
LEMMA DoneStep ==
  ASSUME PicturesInv, [PicturesNext]_picturesVars
  PROVE  DoneInv'
  <1> USE DEF pictureDisk, WriterRests, DrainRests, DrainAt, FromFile
  <1>a. /\ sentUnremoved \cup sent \subseteq done
        /\ \A i \in 1..Len(pictureJobs) : pictureJobs[i].op = "remove" => pictureJobs[i].pic \in done
        /\ drain.pc \in {"clears", "pops"} => Current.pic \in done
    BY DEF PicturesInv, DoneInv
  <1>b. /\ pictureJobs \in Seq(PictureJob) /\ Len(pictureJobs) \in Nat
        /\ drain \in [pc : {"rests", "reads", "looks", "sends", "clears", "memory", "waiting", "pops"},
                      page : SUBSET [row : Nat, pic : 1..shot]]
    BY PictureTyped
  <1>1. done \subseteq done'
    BY DEF PicturesNext, Disk, Drain, Takes, Begins, Writes, Counts, Removes, Forgets, Reads, NotRead,
           FlushPictures, Looks, Sends, Clears, Memory, SendsWaiting, Pops, StopsAndStarts, picturesVars
  <1>2. sentUnremoved' \cup sent' \subseteq done'
    BY <1>a DEF PicturesNext, Disk, Drain, Takes, Begins, Writes, Counts, Removes, StillThere, Forgets,
           Reads, NotRead, FlushPictures, Looks, Sends, Clears, Memory, SendsWaiting, Pops, StopsAndStarts, picturesVars
  <1>3. drain'.pc \in {"clears", "pops"} => drain'.page = drain.page /\ Current.pic \in done'
    <2>1. CASE Looks
      BY <1>a, <1>b, <2>1 DEF Looks
    <2>2. CASE Sends
      BY <1>b, <2>2 DEF Sends
    <2>3. CASE SendsWaiting
      BY <1>b, <2>3 DEF SendsWaiting
    <2>4. CASE Reads
      BY <1>b, <2>4 DEF Reads
    <2>5. CASE Clears
      BY <1>b, <2>5 DEF Clears
    <2>6. CASE NotRead \/ FlushPictures \/ Memory \/ Pops \/ StopsAndStarts
      BY <1>b, <2>6 DEF NotRead, FlushPictures, Memory, Pops, StopsAndStarts
    <2>7. CASE Takes \/ Begins \/ Writes \/ Counts \/ Removes \/ Forgets \/ UNCHANGED picturesVars
      <3>1. drain' = drain
        BY <2>7 DEF Takes, Begins, Writes, Counts, Removes, Forgets, picturesVars
      <3> QED
        BY <1>1, <1>a, <3>1
    <2> QED
      BY <2>1, <2>2, <2>3, <2>4, <2>5, <2>6, <2>7 DEF PicturesNext, Disk, Drain
  <1>4. drain'.pc \in {"clears", "pops"} => Current'.pic \in done'
    <2>1. drain'.page = drain.page => Current' = Current
      BY DEF Current
    <2> QED
      BY <1>3, <2>1
  <1>5. \A i \in 1..Len(pictureJobs') : pictureJobs'[i].op = "remove" => pictureJobs'[i].pic \in done'
    <2>1. CASE ~Clears
      <3>1. Follow("remove")
        BY <2>1, JobsFollow
      <3> QED
        BY <1>1, <1>a, <3>1 DEF Follow
    <2>2. CASE Clears
      <3> DEFINE d == [op |-> "remove", pic |-> Current.pic]
                 e == [op |-> "read", pic |-> Current.row]
                 s == Append(pictureJobs, d)
      <3>1. pictureJobs' = s \/ pictureJobs' = Append(s, e)
        BY <2>2 DEF Clears, After
      <3>2. d \in PictureJob /\ e \in PictureJob
        <4>1. drain.page # {}
          BY <2>2 DEF Clears, PicturesInv, RowInv
        <4>2. Current.pic \in Nat /\ Current.row \in Nat
          BY <4>1, CurrentIs, PictureTyped DEF PicturesInv
        <4> QED
          BY <4>2 DEF PictureJob
      <3>3. d.pic \in done /\ e.op = "read"
        BY <2>2, <1>a DEF Clears
      <3> HIDE DEF d, e
      <3>4. /\ s \in Seq(PictureJob) /\ Len(s) = Len(pictureJobs) + 1
            /\ (\A i \in 1..Len(pictureJobs) : s[i] = pictureJobs[i]) /\ s[Len(pictureJobs) + 1] = d
        BY <1>b, <3>2, HandedIn
      <3>5. \A i \in 1..Len(s) : s[i].op = "remove" => s[i].pic \in done
        BY <1>a, <1>b, <3>3, <3>4
      <3> HIDE DEF s
      <3>6. Len(Append(s, e)) = Len(s) + 1 /\ (\A i \in 1..Len(s) : Append(s, e)[i] = s[i]) /\ Append(s, e)[Len(s) + 1] = e
        BY <3>2, <3>4, HandedIn
      <3>7. \A i \in 1..Len(Append(s, e)) : Append(s, e)[i].op = "remove" => Append(s, e)[i].pic \in done
        BY <1>b, <3>3, <3>4, <3>5, <3>6
      <3> QED
        BY <1>1, <3>1, <3>5, <3>7
    <2> QED
      BY <2>1, <2>2
  <1> QED
    BY <1>2, <1>4, <1>5 DEF DoneInv

\* Every step keeps what was sent from being read as unsent.
LEMMA SentStep ==
  ASSUME PicturesInv, [PicturesNext]_picturesVars
  PROVE  SentInv'
  <1> USE DEF pictureDisk, WriterRests, DrainRests, DrainAt, FromFile
  <1>a. /\ sent \cap OnFile \subseteq sentUnremoved
        /\ writer.pc = "forgets" => writer.pic \notin OnFile
        /\ \A i \in 1..Len(pictureJobs) :
             pictureJobs[i].op = "read" =>
               drain.pc = "reads" /\ \A j \in 1..Len(pictureJobs) : i < j => pictureJobs[j].op = "write"
        /\ FromFile =>
             /\ sent \cap OnPage \subseteq sentUnremoved
             /\ writer.pc = "forgets" => writer.pic \notin OnPage
             /\ \A i \in 1..Len(pictureJobs) : pictureJobs[i].op = "remove" => pictureJobs[i].pic \notin OnPage
        /\ drain.pc = "sends" => Current.pic \notin sentUnremoved
    BY DEF PicturesInv, SentInv
  <1>b. /\ pictureJobs \in Seq(PictureJob) /\ Len(pictureJobs) \in Nat
        /\ writer \in [pc : {"rests", "writes", "counts", "forgets"}, pic : 0..shot, n : Nat]
        /\ drain \in [pc : {"rests", "reads", "looks", "sends", "clears", "memory", "waiting", "pops"},
                      page : SUBSET [row : Nat, pic : 1..shot]]
    BY PictureTyped
  <1>c. drain'.page = drain.page => Current' = Current /\ OnPage' = OnPage
    BY DEF Current, OnPage
  <1>d. file' = file => OnFile' = OnFile
    BY DEF OnFile
  <1>e. drain' = drain => FromFile' = FromFile
    OBVIOUS
  <1>f. FromFile \/ drain.pc \in {"waiting", "pops"} => drain.page # {}
    BY DEF PicturesInv, RowInv
  <1>1. CASE Takes
    <2>1. UNCHANGED <<file, drain, sent, sentUnremoved, writer>>
      BY <1>1 DEF Takes
    <2>2. CASE pictureJobs' = pictureJobs
      BY <1>a, <1>c, <1>d, <1>e, <2>1, <2>2 DEF SentInv
    <2>3. CASE pictureJobs' = Append(pictureJobs, [op |-> "write", pic |-> shot'])
      <3> DEFINE e == [op |-> "write", pic |-> shot']
      <3>1. e \in PictureJob /\ e.op = "write"
        BY <1>1, PictureTyped DEF Takes, PictureJob
      <3> HIDE DEF e
      <3>2. Len(pictureJobs') = Len(pictureJobs) + 1 /\ (\A i \in 1..Len(pictureJobs) : pictureJobs'[i] = pictureJobs[i]) /\ pictureJobs'[Len(pictureJobs) + 1] = e
        BY <1>b, <2>3, <3>1, HandedIn DEF e
      <3>3. \A i \in 1..Len(pictureJobs') : (i \in 1..Len(pictureJobs) /\ pictureJobs'[i] = pictureJobs[i]) \/ pictureJobs'[i].op = "write"
        BY <1>b, <3>1, <3>2
      <3>4. \A i \in 1..Len(pictureJobs') :
             pictureJobs'[i].op = "read" =>
               drain.pc = "reads" /\ \A j \in 1..Len(pictureJobs') : i < j => pictureJobs'[j].op = "write"
        BY <1>a, <3>3
      <3>5. FromFile => \A i \in 1..Len(pictureJobs') : pictureJobs'[i].op = "remove" => pictureJobs'[i].pic \notin OnPage
        BY <1>a, <3>3
      <3> QED
        BY <1>a, <1>c, <1>d, <1>e, <2>1, <3>4, <3>5 DEF SentInv
    <2> QED
      BY <1>1, <2>2, <2>3 DEF Takes
  <1>2. CASE Begins \/ Removes \/ Reads
    <2>1. /\ pictureJobs # <<>> /\ Head(pictureJobs) = pictureJobs[1] /\ 1 \in 1..Len(pictureJobs) /\ writer.pc = "rests"
          /\ Len(pictureJobs') = Len(pictureJobs) - 1 /\ \A i \in 1..Len(pictureJobs) - 1 : pictureJobs'[i] = pictureJobs[i + 1]
      BY <1>2, <1>b, TakenOff DEF Begins, Removes, Reads, Next1
    <2>2. \A i \in 1..Len(pictureJobs') : i + 1 \in 1..Len(pictureJobs) /\ 1 < i + 1 /\ pictureJobs'[i] = pictureJobs[i + 1]
      BY <1>b, <2>1
    <2>3. \A i, j \in 1..Len(pictureJobs') : i < j => i + 1 < j + 1
      BY <1>b, <2>1
    <2>4. \A i \in 1..Len(pictureJobs') :
             pictureJobs'[i].op = "read" =>
               drain.pc = "reads" /\ \A j \in 1..Len(pictureJobs') : i < j => pictureJobs'[j].op = "write"
      <3> SUFFICES ASSUME NEW i \in 1..Len(pictureJobs'), pictureJobs'[i].op = "read"
                   PROVE  drain.pc = "reads" /\ \A j \in 1..Len(pictureJobs') : i < j => pictureJobs'[j].op = "write"
        OBVIOUS
      <3>1. drain.pc = "reads" /\ \A j \in 1..Len(pictureJobs) : i + 1 < j => pictureJobs[j].op = "write"
        BY <1>a, <2>2
      <3>2. \A j \in 1..Len(pictureJobs') : i < j => pictureJobs[j + 1].op = "write"
        BY <2>2, <2>3, <3>1
      <3> QED
        BY <2>2, <3>1, <3>2
    <2>5. FromFile => \A i \in 1..Len(pictureJobs') : pictureJobs'[i].op = "remove" => pictureJobs'[i].pic \notin OnPage
      BY <1>a, <2>2
    <2>6. UNCHANGED <<sent>>
      BY <1>2 DEF Begins, Removes, Reads
    <2>7. CASE Begins
      <3>1. UNCHANGED <<file, drain, sent, sentUnremoved>> /\ writer'.pc # "forgets"
        BY <2>7 DEF Begins
      <3> QED
        BY <1>a, <1>c, <1>d, <1>e, <2>4, <2>5, <3>1 DEF SentInv
    <2>8. CASE Removes
      <3> DEFINE p == Head(pictureJobs).pic
      <3>1. pictureJobs[1].op = "remove" /\ p = pictureJobs[1].pic /\ sentUnremoved' = sentUnremoved /\ UNCHANGED <<drain, sent>>
        BY <2>1, <2>8 DEF Removes, Next1, StillThere
      <3> HIDE DEF p
      <3>2. FromFile => p \notin OnPage
        BY <1>a, <2>1, <3>1
      <3>3. CASE file' = {r \in file : r.pic # p} /\ writer' = [pc |-> "forgets", pic |-> p, n |-> 0]
        <4>1. OnFile' \subseteq OnFile /\ p \notin OnFile' /\ writer'.pic = p
          BY <3>3 DEF OnFile
        <4> QED
          BY <1>a, <1>c, <1>e, <2>4, <2>5, <3>1, <3>2, <4>1 DEF SentInv
      <3>4. CASE UNCHANGED <<file, writer>>
        BY <1>a, <1>c, <1>d, <1>e, <2>4, <2>5, <3>1, <3>4 DEF SentInv
      <3> QED
        BY <2>8, <3>3, <3>4 DEF Removes, p
    <2>9. CASE Reads
      <3> DEFINE page == Page(Head(pictureJobs).pic)
      <3>1. page \subseteq file
        BY DEF Page
      <3> HIDE DEF page
      <3>2. drain' = [drain EXCEPT !.page = page, !.pc = IF page = {} THEN "memory" ELSE "looks"]
        BY <2>9 DEF Reads, page
      <3>3. drain'.page = page /\ drain'.pc \in {"memory", "looks"}
        BY <1>b, <3>2
      <3>4. UNCHANGED <<file, sent, sentUnremoved, writer>> /\ pictureJobs[1].op = "read"
        BY <2>1, <2>9 DEF Reads, Next1
      <3>5. OnPage' \subseteq OnFile
        BY <3>1, <3>3 DEF OnPage, OnFile
      <3>6. \A i \in 1..Len(pictureJobs') : pictureJobs'[i].op = "write"
        BY <1>a, <2>1, <2>2, <3>4
      <3> QED
        BY <1>a, <1>d, <2>1, <3>3, <3>4, <3>5, <3>6 DEF SentInv
    <2> QED
      BY <1>2, <2>7, <2>8, <2>9
  <1>3. CASE Writes
    <2>1. UNCHANGED <<drain, sent, sentUnremoved, pictureJobs>> /\ writer'.pc # "forgets"
      <3>1. \/ \E n : writer' = [writer EXCEPT !.pc = "counts", !.n = n]
            \/ writer' = WriterRests
        BY <1>3 DEF Writes
      <3>2. \A n : [writer EXCEPT !.pc = "counts", !.n = n].pc = "counts"
        BY <1>b
      <3>3. writer'.pc \in {"counts", "rests"}
        <4>1. CASE writer' = WriterRests
          BY <4>1
        <4>2. ASSUME NEW n, writer' = [writer EXCEPT !.pc = "counts", !.n = n] PROVE writer'.pc = "counts"
          BY <3>2, <4>2
        <4> QED
          BY <3>1, <4>1, <4>2
      <3> QED
        BY <1>3, <3>3 DEF Writes
    <2>2. file' \subseteq file \cup {[row |-> NewRow, pic |-> writer.pic]}
      BY <1>3 DEF Writes, Kept
    <2>3. OnFile' \subseteq OnFile \cup {writer.pic}
      BY <2>2 DEF OnFile
    <2>4. writer.pic \notin sent
      <3>1. \A p \in sent : p < writer.pic
        BY <1>3 DEF Writes, PicturesInv, WriteInv, TakenUp
      <3>2. writer.pic \in Int
        BY <1>b
      <3> QED
        BY <3>1, <3>2
    <2> QED
      BY <1>a, <1>c, <1>e, <2>1, <2>3, <2>4 DEF SentInv
  <1>4. CASE Counts
    <2>1. UNCHANGED <<file, drain, sent, sentUnremoved, pictureJobs>> /\ writer'.pc = "rests"
      BY <1>4 DEF Counts
    <2> QED
      BY <1>a, <1>c, <1>d, <1>e, <2>1 DEF SentInv
  <1>5. CASE Forgets
    <2>1. /\ UNCHANGED <<file, drain, sent, pictureJobs>>
          /\ writer'.pc = "rests" /\ sentUnremoved' = sentUnremoved \ {writer.pic} /\ writer.pc = "forgets"
      BY <1>5 DEF Forgets
    <2> QED
      BY <1>a, <1>c, <1>d, <1>e, <2>1 DEF SentInv
  <1>6. CASE NotRead
    <2>1. PICK k \in 1..Len(pictureJobs) :
            pictureJobs[k].op = "read" /\ pictureJobs' = SubSeq(pictureJobs, 1, k - 1) \o SubSeq(pictureJobs, k + 1, Len(pictureJobs))
      BY <1>6 DEF NotRead
    <2>2. Len(pictureJobs') = Len(pictureJobs) - 1 /\ \A i \in 1..Len(pictureJobs) - 1 : pictureJobs'[i] = IF i < k THEN pictureJobs[i] ELSE pictureJobs[i + 1]
      BY <1>b, <2>1, Withdrawn
    <2>3. \A i \in 1..Len(pictureJobs') : pictureJobs'[i].op # "read"
      <3> SUFFICES ASSUME NEW i \in 1..Len(pictureJobs'), pictureJobs'[i].op = "read" PROVE FALSE
        OBVIOUS
      <3>1. CASE i < k
        <4>1. i \in 1..Len(pictureJobs) /\ pictureJobs[i].op = "read"
          BY <1>b, <2>2, <3>1
        <4>2. pictureJobs[k].op = "write"
          BY <1>a, <2>1, <3>1, <4>1
        <4> QED
          BY <2>1, <4>2
      <3>2. CASE ~(i < k)
        <4>1. i + 1 \in 1..Len(pictureJobs) /\ pictureJobs[i + 1].op = "read" /\ k < i + 1
          BY <1>b, <2>2, <3>2
        <4>2. pictureJobs[i + 1].op = "write"
          BY <1>a, <2>1, <4>1
        <4> QED
          BY <4>1, <4>2
      <3> QED
        BY <3>1, <3>2
    <2>4. UNCHANGED <<file, sent, sentUnremoved, writer>> /\ drain'.pc = "memory"
      BY <1>6, <1>b DEF NotRead
    <2> QED
      BY <1>a, <1>d, <2>3, <2>4 DEF SentInv
  <1>7. CASE FlushPictures
    <2>1. UNCHANGED <<file, sent, sentUnremoved, writer>> /\ drain'.pc \in {"reads", "memory"} /\ drain.pc = "rests"
      BY <1>7 DEF FlushPictures
    <2>2. \A i \in 1..Len(pictureJobs) : pictureJobs[i].op # "read"
      BY <1>a, <2>1
    <2>3. CASE pictureJobs' = pictureJobs
      BY <1>a, <1>d, <2>1, <2>2, <2>3 DEF SentInv
    <2>4. CASE pictureJobs' = Append(pictureJobs, [op |-> "read", pic |-> 0]) /\ drain'.pc = "reads"
      <3> DEFINE e == [op |-> "read", pic |-> 0]
      <3>1. e \in PictureJob /\ e.op = "read"
        BY DEF PictureJob
      <3> HIDE DEF e
      <3>2. Len(pictureJobs') = Len(pictureJobs) + 1 /\ (\A i \in 1..Len(pictureJobs) : pictureJobs'[i] = pictureJobs[i]) /\ pictureJobs'[Len(pictureJobs) + 1] = e
        BY <1>b, <2>4, <3>1, HandedIn DEF e
      <3>3. \A i \in 1..Len(pictureJobs') : pictureJobs'[i].op = "read" => i = Len(pictureJobs')
        BY <1>b, <2>2, <3>2
      <3>4. \A i, j \in 1..Len(pictureJobs') : i < j => i # Len(pictureJobs')
        BY <1>b, <3>2
      <3> QED
        BY <1>a, <1>d, <2>1, <2>4, <3>3, <3>4 DEF SentInv
    <2> QED
      BY <1>7, <2>3, <2>4 DEF FlushPictures, Asks
  <1>8. CASE Looks
    <2>1. /\ UNCHANGED <<file, sent, sentUnremoved, writer, pictureJobs>> /\ drain.pc = "looks" /\ drain'.page = drain.page
          /\ drain'.pc = IF Current.pic \in sentUnremoved THEN "clears" ELSE "sends"
      BY <1>8, <1>b DEF Looks
    <2> QED
      BY <1>a, <1>c, <1>d, <2>1 DEF SentInv
  <1>9. CASE Sends
    <2>1. UNCHANGED <<file, writer, pictureJobs>> /\ drain.pc = "sends"
      BY <1>9 DEF Sends
    <2>2. CASE /\ sentUnremoved' = sentUnremoved \cup {Current.pic}
               /\ sent' = sent \cup {Current.pic}
               /\ drain' = [drain EXCEPT !.pc = "clears"]
      <3>1. drain'.pc = "clears" /\ drain'.page = drain.page
        BY <1>b, <2>2
      <3> QED
        BY <1>a, <1>c, <1>d, <2>1, <2>2, <3>1 DEF SentInv
    <2>3. CASE drain' = DrainRests /\ UNCHANGED <<sentUnremoved, sent>>
      BY <1>a, <1>d, <2>1, <2>3 DEF SentInv
    <2> QED
      BY <1>9, <2>2, <2>3 DEF Sends
  <1>10. CASE Clears
    <2> DEFINE d == [op |-> "remove", pic |-> Current.pic]
               e == [op |-> "read", pic |-> Current.row]
               s == Append(pictureJobs, d)
    <2>1. drain.pc = "clears" /\ UNCHANGED <<file, writer, sent, sentUnremoved>> /\ drain.page # {}
      BY <1>10, <1>f DEF Clears
    <2>2. d \in PictureJob /\ e \in PictureJob
      <3>1. Current.pic \in Nat /\ Current.row \in Nat
        BY <2>1, CurrentIs, PictureTyped DEF PicturesInv
      <3> QED
        BY <3>1 DEF PictureJob
    <2>3. d.op = "remove" /\ d.pic = Current.pic /\ e.op = "read"
      OBVIOUS
    <2> HIDE DEF d, e
    <2>4. /\ s \in Seq(PictureJob) /\ Len(s) = Len(pictureJobs) + 1
          /\ (\A i \in 1..Len(pictureJobs) : s[i] = pictureJobs[i]) /\ s[Len(pictureJobs) + 1] = d
      BY <1>b, <2>2, HandedIn
    <2> HIDE DEF s
    <2>5. \A i \in 1..Len(s) : s[i].op # "read"
      BY <1>a, <1>b, <2>1, <2>3, <2>4
    <2>6. CASE Rest # {}
      <3>1. drain' = [drain EXCEPT !.pc = "looks", !.page = Rest] /\ pictureJobs' = s
        BY <1>10, <2>6 DEF Clears, s, d
      <3>2. drain'.pc = "looks" /\ drain'.page = Rest
        BY <1>b, <3>1
      <3>3. OnPage' = OnPage \ {Current.pic}
        BY <2>1, <3>2, RestIs DEF OnPage
      <3>4. \A i \in 1..Len(s) : s[i].op = "remove" => s[i].pic \notin OnPage'
        BY <1>a, <1>b, <2>1, <2>3, <2>4, <3>3
      <3> QED
        BY <1>a, <1>d, <2>1, <2>5, <3>1, <3>2, <3>3, <3>4 DEF SentInv
    <2>7. CASE Rest = {}
      <3>1. drain'.pc = "reads" /\ pictureJobs' = Append(s, e)
        BY <1>10, <2>7 DEF Clears, After, s, d, e
      <3>2. Len(pictureJobs') = Len(s) + 1 /\ (\A i \in 1..Len(s) : pictureJobs'[i] = s[i]) /\ pictureJobs'[Len(s) + 1] = e
        BY <2>2, <2>4, <3>1, HandedIn
      <3>3. Len(s) \in Nat
        BY <1>b, <2>4
      <3>4. \A i \in 1..Len(pictureJobs') : pictureJobs'[i].op = "read" => i = Len(pictureJobs')
        BY <2>5, <3>2, <3>3
      <3>5. \A i, j \in 1..Len(pictureJobs') : i < j => i # Len(pictureJobs')
        BY <3>2, <3>3
      <3> QED
        BY <1>a, <1>d, <2>1, <3>1, <3>4, <3>5 DEF SentInv
    <2> QED
      BY <2>6, <2>7
  <1>11. CASE Memory \/ SendsWaiting \/ Pops
    <2>1. UNCHANGED <<file, sent, sentUnremoved, writer, pictureJobs>> /\ drain.pc \in {"memory", "waiting", "pops"}
      BY <1>11 DEF Memory, SendsWaiting, Pops
    <2>2. drain'.pc \in {"rests", "waiting", "pops"}
      <3>1. CASE Memory
        BY <3>1 DEF Memory
      <3>2. CASE SendsWaiting
        BY <1>b, <3>2 DEF SendsWaiting
      <3>3. CASE Pops
        BY <3>3 DEF Pops
      <3> QED
        BY <1>11, <3>1, <3>2, <3>3
    <2> QED
      BY <1>a, <1>d, <2>1, <2>2 DEF SentInv
  <1>12. CASE StopsAndStarts
    <2>1. file' = file /\ sent' = {} /\ pictureJobs' = <<>> /\ Len(pictureJobs') = 0 /\ writer'.pc = "rests" /\ drain'.pc = "rests"
      BY <1>12 DEF StopsAndStarts
    <2> QED
      BY <2>1 DEF SentInv
  <1>13. CASE UNCHANGED picturesVars
    <2>1. UNCHANGED <<file, sent, sentUnremoved, writer, pictureJobs, drain>>
      BY <1>13 DEF picturesVars
    <2> QED
      BY <1>a, <1>c, <1>d, <1>e, <2>1 DEF SentInv
  <1> QED
    BY <1>1, <1>2, <1>3, <1>4, <1>5, <1>6, <1>7, <1>8, <1>9, <1>10, <1>11, <1>12, <1>13
       DEF PicturesNext, Disk, Drain

\* What is gone and unsaid, at most what `pictures_dropped` will own up to.
Unsaid == (Gone \cup Doomed) \ forgiven

Owned == picturesDropped + (IF writer.pc = "counts" THEN writer.n ELSE 0)

\* No more is unsaid after a step that owns up to as much as it adds.
LEMMA NoMoreUnsaid ==
  ASSUME PicturesInv, PicturesTypeOK', NEW S, IsFiniteSet(S), Unsaid' \subseteq Unsaid \cup S,
         NEW n \in Nat, Cardinality(S) <= n, Owned' \in Nat, Owned + n <= Owned'
  PROVE  GoneInv'
  <1>1. shot \in Nat /\ Unsaid \subseteq 0..shot
    <2>1. shot \in Nat /\ writer.pic \in 0..shot /\ Gone \subseteq 0..shot
      BY PictureTyped DEF Gone
    <2> QED
      BY <2>1 DEF Unsaid, Doomed
  <1>2. IsFiniteSet(Unsaid) /\ Cardinality(Unsaid) \in Nat
    <2>1. IsFiniteSet(0..shot)
      BY <1>1, FS_Interval
    <2>2. Unsaid \in SUBSET (0..shot)
      BY <1>1
    <2> QED
      BY <2>1, <2>2, FS_Subset, FS_CardinalityType
  <1>3. Cardinality(Unsaid) <= Owned /\ Owned \in Nat
    <2>1. Owned \in Nat
      BY PictureTyped DEF Owned
    <2> QED
      BY <2>1 DEF PicturesInv, GoneInv, Unsaid, Owned
  <1>4. /\ IsFiniteSet(Unsaid \cup S) /\ Cardinality(Unsaid \cup S) \in Nat
        /\ Cardinality(Unsaid \cup S) <= Cardinality(Unsaid) + Cardinality(S)
    <2>1. /\ IsFiniteSet(Unsaid \cup S)
          /\ Cardinality(Unsaid \cup S) = Cardinality(Unsaid) + Cardinality(S) - Cardinality(Unsaid \cap S)
      BY <1>2, FS_Union
    <2>2. Cardinality(Unsaid \cap S) \in Nat /\ Cardinality(S) \in Nat /\ Cardinality(Unsaid \cup S) \in Nat
      <3>1. Unsaid \cap S \in SUBSET S
        OBVIOUS
      <3> QED
        BY <2>1, <3>1, FS_Subset, FS_CardinalityType
    <2> QED
      BY <1>2, <2>1, <2>2
  <1>5. Cardinality(Unsaid') \in Nat /\ Cardinality(Unsaid') <= Cardinality(Unsaid \cup S)
    <2>1. Unsaid' \in SUBSET (Unsaid \cup S)
      OBVIOUS
    <2> QED
      BY <1>4, <2>1, FS_Subset, FS_CardinalityType
  <1>6. Cardinality(S) \in Nat
    BY FS_CardinalityType
  <1>7. Cardinality(Unsaid') <= Owned'
    BY <1>2, <1>3, <1>4, <1>5, <1>6
  <1> QED
    BY <1>7 DEF GoneInv, Unsaid, Owned

LEMMA GoneStep ==
  ASSUME PicturesInv, PicturesTypeOK', [PicturesNext]_picturesVars
  PROVE  GoneInv'
  <1> USE DEF pictureDisk, WriterRests, DrainRests, DrainAt, FromFile
  <1>a. /\ shot \in Nat /\ memory \subseteq 1..shot /\ picturesDropped \in Nat
        /\ writer \in [pc : {"rests", "writes", "counts", "forgets"}, pic : 0..shot, n : Nat]
        /\ pictureJobs \in Seq(PictureJob)
    BY PictureTyped
  <1>b. picturesDropped' \in Nat /\ writer'.n \in Nat /\ Owned' \in Nat /\ Owned \in Nat
    <2>1. picturesDropped' \in Nat /\ writer' \in [pc : {"rests", "writes", "counts", "forgets"}, pic : 0..shot', n : Nat]
      BY DEF PicturesTypeOK
    <2>2. writer'.n \in Nat
      BY <2>1
    <2>3. writer.n \in Nat
      BY <1>a
    <2>4. \A c, n \in Nat : \A b \in BOOLEAN : c + (IF b THEN n ELSE 0) \in Nat
      OBVIOUS
    <2>5. Owned \in Nat
      BY <1>a, <2>3, <2>4 DEF Owned
    <2>6. Owned' \in Nat
      BY <2>1, <2>2, <2>4 DEF Owned
    <2> QED
      BY <2>1, <2>2, <2>5, <2>6
  <1>c. ASSUME Unsaid' \subseteq Unsaid, Owned' = Owned PROVE GoneInv'
    <2>1. IsFiniteSet({}) /\ Cardinality({}) <= 0
      BY FS_EmptySet
    <2>2. Unsaid' \subseteq Unsaid \cup {} /\ Owned + 0 <= Owned'
      BY <1>b, <1>c
    <2> QED
      BY <1>b, <2>1, <2>2, NoMoreUnsaid
  <1>d. \A x : IsFiniteSet({x}) /\ Cardinality({x}) = 1
    BY FS_Singleton
  <1>e. drain.pc = "pops" => Current.pic \in done
    BY DEF PicturesInv, DoneInv
  <1>f. file' = file => OnFile' = OnFile
    BY DEF OnFile
  <1>1. CASE Takes
    <2>1. UNCHANGED <<file, done, writer, forgiven>> /\ shot' = shot + 1 /\ shot' \in memory'
      BY <1>1 DEF Takes
    <2>2. Doomed' = Doomed /\ OnFile' = OnFile
      BY <2>1, <1>f DEF Doomed
    <2>3. \A x \in 1..shot' : x \in 1..shot \/ x = shot'
      BY <1>a, <2>1
    <2>4. CASE ~NoRoom
      <3>1. memory' = memory \cup {shot'} /\ picturesDropped' = picturesDropped
        BY <1>1, <2>4 DEF Takes
      <3>2. Gone' \subseteq Gone
        BY <2>1, <2>2, <2>3, <3>1 DEF Gone
      <3> QED
        BY <1>c, <2>1, <2>2, <3>1, <3>2 DEF Unsaid, Owned
    <2>5. CASE NoRoom
      <3>1. memory' = (memory \ Oldest) \cup {shot'} /\ picturesDropped' = picturesDropped + 1
        BY <1>1, <2>5 DEF Takes
      <3>2. \A x, y \in Oldest : x = y
        <4>1. \A x, y \in memory : x \in Nat /\ y \in Nat
          BY <1>a
        <4>2. \A x, y \in Oldest : x \in memory /\ y \in memory /\ x <= y /\ y <= x
          BY DEF Oldest
        <4> QED
          BY <4>1, <4>2
      <3>3. IsFiniteSet(Oldest) /\ Cardinality(Oldest) <= 1
        <4>1. CASE Oldest = {}
          BY <4>1, FS_EmptySet
        <4>2. CASE Oldest # {}
          <5>1. PICK x \in Oldest : TRUE
            BY <4>2
          <5>2. Oldest = {x}
            BY <3>2, <5>1
          <5>3. IsFiniteSet({x}) /\ Cardinality({x}) = 1
            BY <1>d
          <5> QED
            BY <5>2, <5>3
        <4> QED
          BY <4>1, <4>2
      <3>4. Gone' \subseteq Gone \cup Oldest
        BY <2>1, <2>2, <2>3, <3>1 DEF Gone
      <3>5. Unsaid' \subseteq Unsaid \cup Oldest
        BY <2>1, <2>2, <3>4 DEF Unsaid
      <3>6. Owned + 1 <= Owned'
        BY <1>a, <1>b, <2>1, <3>1 DEF Owned
      <3> QED
        BY <1>b, <3>3, <3>5, <3>6, NoMoreUnsaid
    <2> QED
      BY <2>4, <2>5
  <1>2. CASE Writes
    <2> DEFINE rows == file \cup {[row |-> NewRow, pic |-> writer.pic]}
    <2>1. /\ writer.pc = "writes" /\ UNCHANGED <<shot, memory, done, picturesDropped, forgiven>>
          /\ \/ file' = Kept(rows) /\ writer' = [writer EXCEPT !.pc = "counts", !.n = Cardinality(rows \ file')]
             \/ writer' = [writer EXCEPT !.pc = "counts", !.n = 1] /\ file' = file
             \/ writer' = WriterRests /\ file' = file
      BY <1>2 DEF Writes
    <2>2. Owned = picturesDropped /\ Doomed = {}
      BY <1>a, <2>1 DEF Owned, Doomed
    <2>3. CASE file' = Kept(rows) /\ writer' = [writer EXCEPT !.pc = "counts", !.n = Cardinality(rows \ file')]
      <3> DEFINE gone == rows \ file'
                 pics == {r.pic : r \in gone}
      <3>1. IsFiniteSet(gone)
        <4>1. IsFiniteSet(file)
          BY FileFinite DEF PicturesInv
        <4>2. IsFiniteSet(rows)
          BY <4>1, FS_AddElement
        <4> QED
          BY <4>2, FS_Subset
      <3>2. IsFiniteSet(pics) /\ Cardinality(pics) <= Cardinality(gone) /\ Cardinality(gone) \in Nat
        <4> HIDE DEF gone
        <4> QED
          BY <3>1, RowPictures, FS_CardinalityType
      <3>3. writer'.pc = "counts" /\ writer'.pic = writer.pic /\ writer'.n = Cardinality(gone)
        <4>1. writer' = [writer EXCEPT !.pc = "counts", !.n = Cardinality(gone)]
          BY <2>3
        <4> HIDE DEF gone
        <4> QED
          BY <1>a, <4>1
      <3>4. OnFile \cup {writer.pic} \subseteq OnFile' \cup pics
        <4>1. \A r \in rows : r.pic \in OnFile' \cup pics
          BY DEF OnFile
        <4>2. \A x \in OnFile \cup {writer.pic} : \E r \in rows : r.pic = x
          <5>1. [row |-> NewRow, pic |-> writer.pic] \in rows /\ [row |-> NewRow, pic |-> writer.pic].pic = writer.pic
            OBVIOUS
          <5>2. \A x \in OnFile : \E r \in rows : r.pic = x
            BY DEF OnFile
          <5> HIDE DEF rows
          <5> QED
            BY <5>1, <5>2
        <4> HIDE DEF rows, pics
        <4> QED
          BY <4>1, <4>2
      <3> HIDE DEF gone, pics, rows
      <3>5. Gone' \subseteq Gone \cup pics
        BY <2>1, <3>4 DEF Gone
      <3>6. Doomed' \subseteq pics
        BY <3>3, <3>4 DEF Doomed
      <3>7. Unsaid' \subseteq Unsaid \cup pics
        BY <2>1, <3>5, <3>6 DEF Unsaid
      <3>8. Owned' = picturesDropped + Cardinality(gone)
        BY <2>1, <3>3 DEF Owned
      <3>9. Owned + Cardinality(gone) <= Owned'
        BY <1>a, <2>2, <3>2, <3>8
      <3> QED
        BY <1>b, <3>2, <3>7, <3>9, NoMoreUnsaid
    <2>4. CASE writer' = [writer EXCEPT !.pc = "counts", !.n = 1] /\ file' = file
      <3>1. writer'.pc = "counts" /\ writer'.pic = writer.pic /\ writer'.n = 1
        BY <1>a, <2>4
      <3>2. Gone' = Gone /\ Doomed' \subseteq {writer.pic}
        BY <1>f, <2>1, <2>4, <3>1 DEF Gone, Doomed
      <3>3. Unsaid' \subseteq Unsaid \cup {writer.pic}
        BY <2>1, <3>2 DEF Unsaid
      <3>4. Owned + 1 <= Owned'
        BY <1>a, <2>1, <2>2, <3>1 DEF Owned
      <3>5. IsFiniteSet({writer.pic}) /\ Cardinality({writer.pic}) <= 1
        <4>1. IsFiniteSet({writer.pic}) /\ Cardinality({writer.pic}) = 1
          BY <1>d
        <4> HIDE <1>d
        <4> QED
          BY <4>1
      <3> QED
        BY <1>b, <3>3, <3>4, <3>5, NoMoreUnsaid
    <2>5. CASE writer' = WriterRests /\ file' = file
      <3>1. Owned' = Owned
        BY <2>1, <2>2, <2>5 DEF Owned
      <3>2. Gone' = Gone /\ Doomed' = {}
        BY <1>f, <2>1, <2>5 DEF Gone, Doomed
      <3> QED
        BY <1>c, <2>1, <3>1, <3>2 DEF Unsaid
    <2> QED
      BY <2>1, <2>3, <2>4, <2>5
  <1>3. CASE Counts
    <2>1. /\ writer.pc = "counts" /\ memory' = memory \ {writer.pic} /\ picturesDropped' = picturesDropped + writer.n
          /\ writer'.pc = "rests" /\ UNCHANGED <<shot, file, done, forgiven>>
      BY <1>3 DEF Counts, Counted
    <2>2. Gone' \subseteq Gone \cup Doomed /\ Doomed' = {}
      BY <1>f, <2>1 DEF Gone, Doomed
    <2>3. Owned' = Owned
      BY <1>a, <2>1 DEF Owned
    <2> QED
      BY <1>c, <2>1, <2>2, <2>3 DEF Unsaid
  <1>4. CASE Removes
    <2>1. Head(pictureJobs).pic \in done /\ writer.pc = "rests"
      <3>1. pictureJobs # <<>> /\ Head(pictureJobs).op = "remove" /\ writer.pc = "rests"
        BY <1>4 DEF Removes, Next1
      <3>2. Head(pictureJobs) = pictureJobs[1] /\ 1 \in 1..Len(pictureJobs)
        BY <1>a, <3>1, TakenOff
      <3> QED
        BY <3>1, <3>2 DEF PicturesInv, DoneInv
    <2>2. UNCHANGED <<shot, memory, done, picturesDropped, forgiven>> /\ writer'.pc # "counts"
      BY <1>4, <2>1 DEF Removes
    <2>3. OnFile \subseteq OnFile' \cup done
      BY <1>4, <2>1 DEF Removes, OnFile
    <2>4. Gone' \subseteq Gone
      BY <2>2, <2>3 DEF Gone
    <2>5. Doomed' = {} /\ Owned' = Owned
      BY <2>1, <2>2 DEF Doomed, Owned
    <2> QED
      BY <1>c, <2>2, <2>4, <2>5 DEF Unsaid
  <1>5. CASE Begins \/ Forgets
    <2>1. UNCHANGED <<shot, memory, file, done, picturesDropped, forgiven>> /\ writer.pc # "counts" /\ writer'.pc # "counts"
      BY <1>5 DEF Begins, Next1, Forgets
    <2>2. Gone' = Gone /\ Doomed' = {} /\ Owned' = Owned
      BY <1>f, <2>1 DEF Gone, Doomed, Owned
    <2> QED
      BY <1>c, <2>1, <2>2 DEF Unsaid
  <1>6. CASE Reads \/ NotRead \/ FlushPictures \/ Looks \/ Clears \/ Memory \/ UNCHANGED picturesVars
    <2>1. UNCHANGED <<shot, memory, file, done, picturesDropped, forgiven, writer>>
      BY <1>6 DEF Reads, NotRead, FlushPictures, Looks, Clears, Memory, picturesVars
    <2>2. Gone' = Gone /\ Doomed' = Doomed /\ Owned' = Owned
      BY <1>f, <2>1 DEF Gone, Doomed, Owned
    <2> QED
      BY <1>c, <2>1, <2>2 DEF Unsaid
  <1>7. CASE Sends \/ SendsWaiting
    <2>1. UNCHANGED <<shot, memory, file, picturesDropped, forgiven, writer>> /\ done \subseteq done'
      BY <1>7 DEF Sends, SendsWaiting
    <2>2. Gone' \subseteq Gone /\ Doomed' \subseteq Doomed /\ Owned' = Owned
      BY <1>f, <2>1 DEF Gone, Doomed, Owned
    <2> QED
      BY <1>c, <2>1, <2>2 DEF Unsaid
  <1>8. CASE Pops
    <2>1. /\ UNCHANGED <<shot, file, done, picturesDropped, forgiven, writer>>
          /\ memory' = memory \ {Current.pic} /\ Current.pic \in done
      BY <1>8, <1>e DEF Pops
    <2>2. Gone' \subseteq Gone /\ Doomed' = Doomed /\ Owned' = Owned
      BY <1>f, <2>1 DEF Gone, Doomed, Owned
    <2> QED
      BY <1>c, <2>1, <2>2 DEF Unsaid
  <1>9. CASE StopsAndStarts
    <2>1. /\ UNCHANGED <<shot, file, done>> /\ writer'.pc = "rests" /\ picturesDropped' = 0
          /\ forgiven' = forgiven \cup (1..shot \ (OnFile \cup done))
      BY <1>9 DEF StopsAndStarts
    <2>2. Gone' \subseteq forgiven' /\ Doomed' = {}
      BY <1>f, <2>1 DEF Gone, Doomed
    <2>3. (Gone' \cup Doomed') \ forgiven' = {}
      BY <2>2
    <2>4. Cardinality({}) <= picturesDropped' + 0
      BY <2>1, FS_EmptySet
    <2>5. Cardinality((Gone' \cup Doomed') \ forgiven') <= picturesDropped' + 0
      BY <2>3, <2>4
    <2> QED
      BY <2>1, <2>5 DEF GoneInv
  <1> QED
    BY <1>1, <1>2, <1>3, <1>4, <1>5, <1>6, <1>7, <1>8, <1>9 DEF PicturesNext, Disk, Drain

LEMMA PicturesInitially == PicturesInit => PicturesInv
  <1> SUFFICES ASSUME PicturesInit PROVE PicturesInv
    OBVIOUS
  <1> USE DEF PicturesInit, WriterRests, DrainRests, FromFile
  <1>1. /\ MaxInMemory \in Nat \ {0} /\ Ceiling \in Nat \ {0} /\ Batch \in Nat \ {0}
        /\ MaxPictures \in Nat /\ MaxStops \in Nat
    BY PictureOutboxAssumption
  <1>2. Cardinality({}) = 0
    BY FS_EmptySet
  <1>3. PicturesTypeOK
    BY <1>1, <1>2 DEF PicturesTypeOK
  <1>4. Len(pictureJobs) = 0
    OBVIOUS
  <1>5. RowInv
    BY DEF RowInv
  <1>6. WriteInv
    BY <1>4 DEF WriteInv
  <1>7. DoneInv /\ SentInv
    BY <1>4 DEF DoneInv, SentInv
  <1>8. GoneInv
    <2>1. (Gone \cup Doomed) \ forgiven = {}
      BY DEF Gone, Doomed
    <2> DEFINE unsaid == (Gone \cup Doomed) \ forgiven
    <2>3. unsaid = {} /\ picturesDropped = 0
      BY <2>1
    <2> HIDE DEF unsaid
    <2>4. Cardinality(unsaid) = 0
      BY <1>2, <2>3
    <2>2. Cardinality((Gone \cup Doomed) \ forgiven) <= picturesDropped + 0
      BY <2>3, <2>4 DEF unsaid
    <2> QED
      BY <2>2 DEF GoneInv
  <1> QED
    BY <1>3, <1>5, <1>6, <1>7, <1>8 DEF PicturesInv

LEMMA PicturesInvariance == PicturesSpec => []PicturesInv
  <1>1. PicturesInv /\ [PicturesNext]_picturesVars => PicturesInv'
    <2> SUFFICES ASSUME PicturesInv, [PicturesNext]_picturesVars PROVE PicturesInv'
      OBVIOUS
    <2> QED
      BY PictureTypes, RowStep, WriteStep, DoneStep, SentStep, GoneStep DEF PicturesInv
  <1> QED
    BY <1>1, PicturesInitially, PTL DEF PicturesSpec

\* A picture is never lost unsaid: one that is neither held, nor done with the
\* platform, nor lost with an earlier run is in `pictures_dropped`, or about to
\* be, whichever thread let it go and for whichever bound (queue_pictures,
\* add_picture, _write_picture, _flush_pictures); and the types hold.
THEOREM PicturesAreAccounted == PicturesSpec => []PicturesAccounted
  <1>1. PicturesInv => PicturesAccounted
    <2> SUFFICES ASSUME PicturesInv PROVE PicturesAccounted
      OBVIOUS
    <2>1. shot \in Nat /\ writer.pic \in 0..shot /\ Gone \subseteq 0..shot /\ picturesDropped \in Nat /\ writer.n \in Nat
      BY PictureTyped DEF Gone
    <2>2. (Gone \cup Doomed) \ forgiven \subseteq 0..shot
      BY <2>1 DEF Doomed
    <2>3. Gone \ forgiven \subseteq (Gone \cup Doomed) \ forgiven
      OBVIOUS
    <2> DEFINE all == (Gone \cup Doomed) \ forgiven
               part == Gone \ forgiven
    <2>4. part \in SUBSET all /\ all \in SUBSET (0..shot)
      BY <2>2, <2>3
    <2> HIDE DEF all, part
    <2>5. IsFiniteSet(all) /\ Cardinality(all) \in Nat
      <3>1. IsFiniteSet(0..shot)
        BY <2>1, FS_Interval
      <3> QED
        BY <2>4, <3>1, FS_Subset, FS_CardinalityType
    <2>6. Cardinality(part) <= Cardinality(all) /\ Cardinality(part) \in Nat
      BY <2>4, <2>5, FS_Subset, FS_CardinalityType
    <2>7. Cardinality(all) <= picturesDropped + (IF writer.pc = "counts" THEN writer.n ELSE 0)
      BY DEF PicturesInv, GoneInv, all
    <2>8. Cardinality(part) <= picturesDropped + (IF writer.pc = "counts" THEN writer.n ELSE 0)
      BY <2>1, <2>5, <2>6, <2>7
    <2> QED
      BY <2>8 DEF PicturesInv, PicturesAccounted, part
  <1> QED
    BY <1>1, PicturesInvariance, PTL

\* A picture of the file that the platform is done with is not sent from it
\* again by the same run, though its row is still there (_flush_disk_pictures,
\* `_sent_unremoved`).
THEOREM PicturesSentOnce == PicturesSpec => []NotSentAgain
  <1>1. PicturesInv => NotSentAgain
    <2> SUFFICES ASSUME PicturesInv, drain.pc = "sends" PROVE Current.pic \notin sent
      BY DEF NotSentAgain, DrainAt
    <2>1. Current.pic \in OnPage
      BY RestIs DEF PicturesInv, RowInv, FromFile
    <2> QED
      BY <2>1 DEF PicturesInv, SentInv, FromFile
  <1> QED
    BY <1>1, PicturesInvariance, PTL

=============================================================================
