-------------------------------- MODULE Outbox --------------------------------
(***************************************************************************)
(* The outbox of a lane with a platform and an outbox file                 *)
(* (EventQueue and DiskWriter in src/src/lane_controller/events.py,        *)
(* OutboxStore in durable.py, PlatformTransport in sync.py).               *)
(*                                                                         *)
(* Threads that record hand each session action to the disk thread and     *)
(* append it to memory.  One flush at a time takes a snapshot of memory    *)
(* and delivers it part by part, memory only: each session action alone,   *)
(* then the log events in chunks.  A chunk whose body is too large is       *)
(* posted in halves, and theirs in halves again; where one of them finds    *)
(* no platform the whole chunk is sent again.  A part leaves memory when    *)
(* the platform has answered for it all, and a removal follows the write    *)
(* on the disk thread's queue.  The process may stop between any two        *)
(* steps; what the file holds is what it starts again with.                 *)
(*                                                                         *)
(* Events are numbered in the order of their `at`.  Settled below means    *)
(* taken or refused for good: the outbox treats the two alike.             *)
(***************************************************************************)
EXTENDS Naturals, Sequences, FiniteSets

CONSTANTS
  Recorders,    \* the threads that record: the lane's, the settle workers
  LogBound,     \* EventQueue(max_events)
  Chunk,        \* LOG_CHUNK
  MaxEvents,    \* bound: how many events are recorded
  MaxRestarts   \* bound: how often the process stops and starts again

ASSUME OutboxAssumption ==
  /\ IsFiniteSet(Recorders)
  /\ LogBound \in Nat \ {0}
  /\ Chunk \in Nat \ {0}
  /\ MaxEvents \in Nat
  /\ MaxRestarts \in Nat

VARIABLES
  kind,      \* LaneEvent.kind of each event recorded so far
  record,    \* the event each recorder is recording, and how far it is
  sessions,  \* EventQueue._sessions
  logged,    \* EventQueue._log: each event, with its place in the order appended
  dropped,   \* EventQueue.dropped
  jobs,      \* DiskWriter._jobs
  disk,      \* the outbox table of the file
  batch,     \* the snapshot the flush delivers; {} when none runs
  unsent,    \* the part of it not yet sent
  sending,   \* the part the transport is sending
  posting,   \* what of that part the request out carries
  waiting,   \* the halves of it to be posted after that one
  reached,   \* whether the platform has read that request
  platform,  \* the events the platform has settled
  answered,  \* the events this process was told are settled
  halved,    \* those of them in a part that found no platform for a later half
  appended,  \* the log events this process appended
  unkept,    \* the session actions whose write failed in this process
  unremoved, \* the session actions whose removal failed in this process
  restarts   \* how often the process started again

recordVars == <<kind, record>>
memoryVars == <<sessions, logged, dropped>>
diskVars   == <<jobs, disk, unkept, unremoved>>
partVars   == <<posting, waiting, reached>>
flushVars  == <<batch, unsent, sending, partVars>>
toldVars   == <<answered, halved>>
vars == <<recordVars, memoryVars, diskVars, flushVars, platform, toldVars, appended, restarts>>

------------------------------------------------------------------------------
Events == 1..MaxEvents
Kinds  == {"none", "session", "log"}
Stages == {"idle", "made", "kept"}
Idle   == [event |-> 0, stage |-> "idle"]

Of(which) == {n \in Events : kind[n] = which}

\* The events recorded and not yet in memory.
InHand == {record[r].event : r \in Recorders} \ {0}

\* The first of a set of events, as a set.
First(events) == {n \in events : \A m \in events : n <= m}

\* The next part of a flush: a session action alone, then a chunk of log.
Part(events) ==
  IF events \cap Of("session") # {}
  THEN First(events \cap Of("session"))
  ELSE {n \in events : Cardinality({m \in events : m < n}) < Chunk}

\* The first half of a chunk.
Half(events) ==
  {n \in events : Cardinality({m \in events : m < n}) < Cardinality(events) \div 2}

InLog == {entry.event : entry \in logged}

Job(op, n) == [op |-> op, event |-> n]

Init ==
  /\ kind = [n \in Events |-> "none"]
  /\ record = [r \in Recorders |-> Idle]
  /\ sessions = {}
  /\ logged = {}
  /\ dropped = 0
  /\ jobs = <<>>
  /\ disk = {}
  /\ batch = {}
  /\ unsent = {}
  /\ sending = {}
  /\ posting = {}
  /\ waiting = {}
  /\ reached = FALSE
  /\ platform = {}
  /\ answered = {}
  /\ halved = {}
  /\ appended = {}
  /\ unkept = {}
  /\ unremoved = {}
  /\ restarts = 0

------------------------------------------------------------------------------
\* `record`, on any thread.

\* The event is made, and stamped.
Make(r) ==
  /\ record[r].stage = "idle"
  /\ \E n \in Events, k \in {"session", "log"} :
       /\ kind[n] = "none"
       /\ \A m \in Events : m < n => kind[m] # "none"
       /\ kind' = [kind EXCEPT ![n] = k]
       /\ record' = [record EXCEPT ![r] = [event |-> n, stage |-> "made"]]
  /\ UNCHANGED <<memoryVars, diskVars, flushVars, platform, toldVars, appended, restarts>>

\* A session action is handed to the disk thread, before memory has it.
Keep(r) ==
  /\ record[r].stage = "made"
  /\ kind[record[r].event] = "session"
  /\ record' = [record EXCEPT ![r].stage = "kept"]
  /\ jobs' = Append(jobs, Job("add", record[r].event))
  /\ UNCHANGED <<kind, memoryVars, disk, unkept, unremoved, flushVars, platform, toldVars, appended,
                 restarts>>

AppendSession(r) ==
  /\ record[r].stage = "kept"
  /\ sessions' = sessions \cup {record[r].event}
  /\ record' = [record EXCEPT ![r] = Idle]
  /\ UNCHANGED <<kind, logged, dropped, diskVars, flushVars, platform, toldVars, appended, restarts>>

Full == Cardinality(logged) = LogBound

\* The fault: the log has no bound.
Unbounded == logged
\* A full log drops its oldest.
MadeRoom ==
  IF Full THEN {entry \in logged : \E older \in logged : older.place < entry.place} ELSE logged

AppendLog(r) ==
  /\ record[r].stage = "made"
  /\ kind[record[r].event] = "log"
  /\ logged' = MadeRoom \cup {[event |-> record[r].event, place |-> Cardinality(appended) + 1]}
  /\ dropped' = IF Full THEN dropped + 1 ELSE dropped
  /\ appended' = appended \cup {record[r].event}
  /\ record' = [record EXCEPT ![r] = Idle]
  /\ UNCHANGED <<kind, sessions, diskVars, flushVars, platform, toldVars, restarts>>

------------------------------------------------------------------------------
\* A flush, one at a time under `_flushing`.

\* The snapshot is of memory, whatever the disk is doing.
Flush ==
  /\ batch = {}
  /\ sessions \cup InLog # {}
  /\ batch' = sessions \cup InLog
  /\ unsent' = batch'
  /\ UNCHANGED <<sending, partVars, recordVars, memoryVars, diskVars, platform, toldVars, appended,
                 restarts>>

Send ==
  /\ sending = {}
  /\ unsent # {}
  /\ sending' = Part(unsent)
  /\ unsent' = unsent \ sending'
  /\ posting' = sending'
  /\ waiting' = {}
  /\ reached' = FALSE
  /\ UNCHANGED <<batch, recordVars, memoryVars, diskVars, platform, toldVars, appended, restarts>>

\* The events to post are more than the platform takes at once -- by their
\* size, or because it answered 413 without reading them: their first half is
\* posted, and then the other.
Halve ==
  /\ sending \subseteq Of("log")
  /\ ~reached
  /\ Cardinality(posting) > 1
  /\ posting' = Half(posting)
  /\ waiting' = waiting \cup {posting \ Half(posting)}
  /\ UNCHANGED <<batch, unsent, sending, reached, recordVars, memoryVars, diskVars, platform, toldVars,
                 appended, restarts>>

\* The platform reads the request: it takes or refuses every item of it.
Reach ==
  /\ posting # {}
  /\ ~reached
  /\ platform' = platform \cup posting
  /\ reached' = TRUE
  /\ UNCHANGED <<batch, unsent, sending, posting, waiting, recordVars, memoryVars, diskVars, toldVars,
                 appended, restarts>>

\* The platform has answered for a half: the next one is posted.
NextHalf ==
  /\ reached
  /\ \E next \in waiting :
       /\ \A other \in waiting \ {next} : \A n \in next, m \in other : n < m
       /\ posting' = next
       /\ waiting' = waiting \ {next}
  /\ answered' = answered \cup posting
  /\ reached' = FALSE
  /\ UNCHANGED <<batch, unsent, sending, recordVars, memoryVars, diskVars, platform, halved, appended,
                 restarts>>

\* The fault: the whole queue is cleared, with what came during the send.
ClearedLog == {}
\* The log without the part just sent.
LogLeft == {entry \in logged : entry.event \notin sending}

\* The fault: the part stays in memory until the whole flush is done.
AllOrNothing == IF unsent = {} THEN sessions \ batch ELSE sessions
\* The fault: memory is cleared, with what was recorded during the send.
ClearedSessions == {}
\* The session actions without the part just sent.
SessionsLeft == sessions \ sending

\* The fault: the sender takes the row out itself, past the disk thread.
RemovedAtOnce(part) == jobs' = jobs /\ disk' = disk \ part
\* The removal of a session action, on the disk thread after its write.
Removal(part) ==
  /\ disk' = disk
  /\ jobs' = IF part \cap Of("session") = {} THEN jobs
             ELSE Append(jobs, Job("remove", CHOOSE n \in part : TRUE))

\* The transport says the part is settled, to its last half: it leaves memory,
\* and the file.
Settled ==
  /\ posting # {}
  /\ reached
  /\ waiting = {}
  /\ sessions' = SessionsLeft
  /\ logged' = LogLeft
  /\ Removal(sending)
  /\ answered' = answered \cup sending
  /\ sending' = {}
  /\ posting' = {}
  /\ reached' = FALSE
  /\ batch' = IF unsent = {} THEN {} ELSE batch
  /\ UNCHANGED <<unsent, waiting, recordVars, dropped, unkept, unremoved, platform, halved, appended,
                 restarts>>

\* The fault: the flush goes on to the next part.
NextPart == unsent
\* What is sent after a part that found no platform: nothing.
NoMoreParts == {}

\* The platform was not reached, or its answer was lost, or the transport
\* raised: this part -- the halves of it already answered for with it -- and
\* everything after it wait for the next flush.
Unreachable ==
  /\ posting # {}
  /\ sending' = {}
  /\ posting' = {}
  /\ waiting' = {}
  /\ reached' = FALSE
  /\ unsent' = NoMoreParts
  /\ batch' = IF unsent' = {} THEN {} ELSE batch
  /\ halved' = halved \cup (sending \cap answered)
  /\ UNCHANGED <<recordVars, memoryVars, diskVars, platform, answered, appended, restarts>>

------------------------------------------------------------------------------
\* The disk thread runs its jobs in the order handed in; a job that fails
\* is logged, and the next one runs.

DiskWrites ==
  /\ jobs # <<>>
  /\ jobs' = Tail(jobs)
  /\ \/ /\ Head(jobs).op = "add"
        /\ disk' = disk \cup {Head(jobs).event}
     \/ /\ Head(jobs).op = "remove"
        /\ disk' = disk \ {Head(jobs).event}
  /\ UNCHANGED <<recordVars, memoryVars, unkept, unremoved, flushVars, platform, toldVars, appended,
                 restarts>>

DiskFails ==
  /\ jobs # <<>>
  /\ jobs' = Tail(jobs)
  /\ \/ /\ Head(jobs).op = "add"
        /\ unkept' = unkept \cup {Head(jobs).event}
        /\ UNCHANGED unremoved
     \/ /\ Head(jobs).op = "remove"
        /\ unremoved' = unremoved \cup {Head(jobs).event}
        /\ UNCHANGED unkept
  /\ UNCHANGED <<disk, recordVars, memoryVars, flushVars, platform, toldVars, appended, restarts>>

\* The fault: the file is not read back at start.
StartsEmpty == {}
\* What the sessions are at start (`OutboxStore.held`).
HeldAtStart == disk

\* The process stops -- a power cut, a watchdog, an update -- and starts.
Restart ==
  /\ restarts < MaxRestarts
  /\ restarts' = restarts + 1
  /\ record' = [r \in Recorders |-> Idle]
  /\ sessions' = HeldAtStart
  /\ logged' = {}
  /\ dropped' = 0
  /\ jobs' = <<>>
  /\ unkept' = {}
  /\ unremoved' = {}
  /\ batch' = {}
  /\ unsent' = {}
  /\ sending' = {}
  /\ posting' = {}
  /\ waiting' = {}
  /\ reached' = FALSE
  /\ answered' = {}
  /\ halved' = {}
  /\ appended' = {}
  /\ UNCHANGED <<kind, disk, platform>>

Records == \E r \in Recorders : Make(r) \/ Keep(r) \/ AppendSession(r) \/ AppendLog(r)

Next ==
  \/ Records
  \/ Flush \/ Send \/ Halve \/ Reach \/ NextHalf \/ Settled \/ Unreachable
  \/ DiskWrites \/ DiskFails
  \/ Restart

Spec == Init /\ [][Next]_vars

\* Threads run; the platform is reached, and heard, again and again.
Delivers ==
  /\ \A r \in Recorders : WF_vars(Keep(r) \/ AppendSession(r) \/ AppendLog(r))
  /\ WF_vars(Flush)
  /\ WF_vars(Send)
  /\ SF_vars(Reach)
  /\ SF_vars(NextHalf)
  /\ SF_vars(Settled)

\* No fairness for the disk: it may hang for ever.
HungDiskSpec == Spec /\ Delivers

------------------------------------------------------------------------------
\* Properties.

\* Every variable holds a value of its type, and what memory and the file
\* hold as session actions are session actions; the log keeps its bound.
TypeOK ==
  /\ kind \in [Events -> Kinds]
  /\ record \in [Recorders -> [event : 0..MaxEvents, stage : Stages]]
  /\ sessions \subseteq Of("session")
  /\ logged \subseteq [event : Of("log"), place : Nat]
  /\ IsFiniteSet(logged) /\ Cardinality(logged) <= LogBound
  /\ dropped \in Nat
  /\ jobs \in Seq([op : {"add", "remove"}, event : Of("session")])
  /\ disk \subseteq Of("session")
  /\ batch \subseteq Events /\ unsent \subseteq batch /\ sending \subseteq batch
  /\ posting \subseteq sending /\ waiting \subseteq SUBSET sending
  /\ reached \in BOOLEAN
  /\ platform \subseteq Events /\ answered \subseteq platform /\ halved \subseteq Of("log")
  /\ appended \subseteq Of("log")
  /\ unkept \subseteq Of("session") /\ unremoved \subseteq Of("session")
  /\ restarts \in 0..MaxRestarts

\* What has become of a session action, as the ledger tells it.
Status(n) ==
  CASE kind[n] # "session"                  -> "none"
    [] kind[n] = "session" /\ n \in platform -> "settled"
    [] kind[n] = "session" /\ n \notin platform /\ n \in disk -> "kept"
    [] kind[n] = "session" /\ n \notin platform \cup disk /\ n \in sessions \cup InHand -> "held"
    [] OTHER                                -> "lost"

Ledger == INSTANCE SessionLedger WITH
  Actions <- Events, status <- [n \in Events |-> Status(n)]

\* The outbox keeps the ledger's promise: a session action leaves memory and
\* the file only once the platform has settled it, whatever is recorded while
\* a send waits, wherever a flush stops, whichever disk jobs fail; and a
\* restart loses only what the disk did not have.
LedgerKept == Ledger!Spec

\* A log event this process recorded is in memory, answered for, or counted
\* as dropped: none recorded while a send waits is lost with the part sent.
LogAccounted ==
  Cardinality(appended \ (InLog \cup answered)) <= dropped

\* Once the disk thread has done its jobs, the file holds the session
\* actions memory holds, but for the jobs that failed: no removal lands
\* before the write it undoes, and nothing settled is left to be sent again.
DiskFollowsMemory ==
  jobs = <<>> =>
    /\ sessions \ unkept \subseteq disk
    /\ disk \subseteq sessions \cup InHand \cup unremoved

\* This process does not send again what the platform has answered for, not
\* even when a later part of the same flush finds no platform: no session
\* action ever, and of the log only what was answered for in one half of a
\* chunk whose other half found no platform (the duplicates `send` speaks of).
AnsweredOnce ==
  [][sending' # sending => sending' \cap answered \subseteq halved]_vars

\* Of the session actions of one snapshot, the platform settles none before
\* the earlier ones are answered for: a flush stops at the first part that
\* does not get through, and does not go round it.
OrderKept ==
  [][\A n \in (platform' \ platform) \cap Of("session") :
       \A m \in batch \cap Of("session") : m < n => m \in answered]_vars

\* With a platform that is reached and heard again and again, and a disk
\* that may hang for ever, every session action is settled, but for those a
\* restart lost.
Delivered ==
  \A n \in Events : kind[n] = "session" ~> Status(n) \in {"settled", "lost"}
==============================================================================
