------------------------------- MODULE StayCache -------------------------------
(***************************************************************************)
(* The garage's open stays as an exit lane holds them, and which of them   *)
(* it asks a fee for (src/src/lane_controller/decision.py, exit_pricing.py *)
(* and the reads of sync.py).                                              *)
(*                                                                         *)
(* The refresh thread takes the stays whole, with a rules read, or change  *)
(* by change past a cursor, the changes being numbered by the platform.    *)
(* Meanwhile the lane prices an exit from the stays held, and drops the    *)
(* one whose close it has recorded; the close itself reaches the platform  *)
(* later (the outbox).  The process may stop at any moment and start again *)
(* from the file.                                                          *)
(*                                                                         *)
(* Rules, registers and closings are in DecisionCache, and so is the       *)
(* cache's age: whether it is past its bound is a choice here.  Of a price *)
(* there is only the stay it is of.  The names are other than those of     *)
(* ExitPricing, so that one module can extend the two.                     *)
(***************************************************************************)
EXTENDS Naturals, FiniteSets, FiniteSetsExt

CONSTANTS
  Stays,        \* the stays, numbered in the order the cars came in
  CarOf,        \* the car each stay is of
  CarsHere,     \* the cars that come to this exit
  PageSize,     \* how many changes the platform sends at a time
  MaxPages,     \* MAX_STAY_PAGES: how many pages one read follows
  StoreRaises,  \* whether a write of the cache file may raise
  MaxSeq,       \* bound: the changes after which no stay is opened or updated
  MaxStops      \* bound: how often the process stops and starts again

ASSUME StayAssumption ==
  /\ Stays \subseteq Nat /\ IsFiniteSet(Stays)
  /\ DOMAIN CarOf = Stays /\ CarsHere \subseteq {CarOf[s] : s \in Stays}
  /\ PageSize \in Nat \ {0} /\ MaxPages \in Nat \ {0}
  /\ StoreRaises \in BOOLEAN
  /\ MaxSeq \in Nat /\ MaxStops \in Nat

VARIABLES
  rows,     \* the platform: each stay's row, as committed
  pending,  \* the platform: a change numbered and not yet committed, if any
  list,     \* DecisionCache: the stays, and their cursor
  saved,    \* the row of the cache file, if there is one
  reading,  \* where the refresh thread is
  answer,   \* the answer it is loading
  page,     \* how many pages of changes this read has followed
  fee,      \* the stay the car at the exit is asked a fee for, if any
  queue,    \* the outbox: closes the platform has not taken
  dropped,  \* history: the stays this lane has closed and dropped
  reread,   \* history: of those, what an answer or the file has brought back
  stops

platform  == <<rows, pending>>
thread    == <<list, saved, reading, answer, page>>
staysVars == <<platform, thread, fee, queue, dropped, reread, stops>>

------------------------------------------------------------------------------
Opt(S) == {{}} \cup {{x} : x \in S}
Seqs   == 0..(MaxSeq + Cardinality(Stays))
Rows   == [seq : Seqs, open : BOOLEAN]

\* `gap` is no field of the code: the stays of which a copy has passed a change.
Caches ==
  [stays : SUBSET Stays, cursor : Opt(Seqs), gap : SUBSET Stays]

Empty == [stays |-> {}, cursor |-> {}, gap |-> {}]

Answers ==
  [kind : {"rules", "full", "delta"}, open : SUBSET Stays, closed : SUBSET Stays,
   cursor : Seqs, gap : SUBSET Stays, more : BOOLEAN]

StaysInit ==
  /\ rows = [s \in Stays |-> [seq |-> 0, open |-> FALSE]]
  /\ pending = {}
  /\ list = Empty
  /\ saved = {}
  /\ reading = "started"
  /\ answer = {}
  /\ page = 0
  /\ fee = {}
  /\ queue = {}
  /\ dropped = {}
  /\ reread = {}
  /\ stops = 0

------------------------------------------------------------------------------
(* The platform.  A change takes its number first and may be committed     *)
(* late: one of another stay, numbered after it, is then there before it.  *)

RowTop == Max({0} \cup {rows[s].seq : s \in Stays})

Top == Max({RowTop} \cup {r.seq : r \in pending})

Settled(s) == \A r \in pending : r.stay # s

\* A row changes: at once, or late (one change at a time).
Change(s, open) ==
  /\ Settled(s)
  /\ \/ /\ rows' = [rows EXCEPT ![s] = [seq |-> Top + 1, open |-> open]]
        /\ UNCHANGED pending
     \/ /\ pending = {}
        /\ pending' = {[stay |-> s, seq |-> Top + 1, open |-> open]}
        /\ UNCHANGED rows

\* A car comes in where it has no open stay.
Opened(s) ==
  /\ Top < MaxSeq
  /\ rows[s].seq = 0
  /\ \A t \in Stays : t < s => rows[t].seq > 0 \/ ~Settled(t)
  /\ \A t \in Stays : CarOf[t] = CarOf[s] => ~rows[t].open /\ Settled(t)
  /\ Change(s, TRUE)
  /\ UNCHANGED <<thread, fee, queue, dropped, reread, stops>>

\* An open stay's row changes: a plate put right, say.
Updated(s) ==
  /\ Top < MaxSeq
  /\ rows[s].open
  /\ Change(s, TRUE)
  /\ UNCHANGED <<thread, fee, queue, dropped, reread, stops>>

\* Another lane, or a person, closes it.
ClosedElsewhere(s) ==
  /\ rows[s].open
  /\ Change(s, FALSE)
  /\ UNCHANGED <<thread, fee, queue, dropped, reread, stops>>

\* The platform takes this lane's close from the outbox.
CloseTaken(s) ==
  /\ s \in queue /\ Settled(s)
  /\ queue' = queue \ {s}
  /\ IF rows[s].open THEN Change(s, FALSE) ELSE UNCHANGED platform
  /\ UNCHANGED <<thread, fee, dropped, reread, stops>>

Committed ==
  /\ \E r \in pending : rows' = [rows EXCEPT ![r.stay] = [seq |-> r.seq, open |-> r.open]]
  /\ pending' = {}
  /\ UNCHANGED <<thread, fee, queue, dropped, reread, stops>>

\* The stays of which a copy up to this number lacks a change still to be committed.
Gap(number) == {r.stay : r \in {p \in pending : p.seq <= number}}

\* The full set, and the cursor to continue from.
Full(kind) ==
  [kind |-> kind, open |-> {s \in Stays : rows[s].open}, closed |-> {},
   cursor |-> RowTop, gap |-> Gap(RowTop), more |-> FALSE]

\* The first changes past a cursor, in the order of their numbers.
Changed(since) == {s \in Stays : rows[s].seq > since}

Before(s, since) == {t \in Changed(since) : rows[t].seq < rows[s].seq}

Sent(since) == {s \in Changed(since) : Cardinality(Before(s, since)) < PageSize}

Last(since) == Max({since} \cup {rows[s].seq : s \in Sent(since)})

Delta(since) ==
  [kind |-> "delta", open |-> {s \in Sent(since) : rows[s].open},
   closed |-> {s \in Sent(since) : ~rows[s].open}, cursor |-> Last(since),
   gap |-> Gap(Last(since)), more |-> Sent(since) # Changed(since)]

------------------------------------------------------------------------------
(* The refresh thread. *)

\* A tick begins by wiping a cache past its age (`expire_if_past_bound`, `clear`).
Wake ==
  /\ reading \in {"started", "asleep"}
  /\ \/ reading' = "due" /\ UNCHANGED list
     \/ reading' = "cleared" /\ list' = Empty
  /\ UNCHANGED <<platform, saved, answer, page, fee, queue, dropped, reread, stops>>

DropRow ==
  /\ reading = "cleared"
  /\ reading' = "wiped"
  /\ saved' = {}
  /\ UNCHANGED <<platform, list, answer, page, fee, queue, dropped, reread, stops>>

\* The platform answers a read; what it answers is loaded from here on.
ReadAnswered(a) ==
  /\ reading' = "answered"
  /\ answer' = {a}
  /\ UNCHANGED <<platform, list, saved, fee, queue, dropped, reread, stops>>

\* `sync_rules`.
RulesRead == reading = "due" /\ ReadAnswered(Full("rules")) /\ UNCHANGED page

\* `sync_stays`: the full set when there is no cursor, else a page of changes.
StaysRead ==
  /\ reading \in {"due", "paging"}
  /\ page' = page + 1
  /\ IF list.cursor = {} THEN ReadAnswered(Full("full"))
       ELSE \E since \in list.cursor : ReadAnswered(Delta(since))

\* The platform is not reached, or nothing is due.
Unanswered ==
  /\ reading \in {"due", "paging"}
  /\ reading' = "asleep" /\ page' = 0
  /\ UNCHANGED <<platform, list, saved, answer, fee, queue, dropped, reread, stops>>

\* The platform will not take the cursor: the next read takes the full set.
CursorRefused ==
  /\ reading \in {"due", "paging"} /\ list.cursor # {}
  /\ reading' = "asleep" /\ page' = 0
  /\ list' = [list EXCEPT !.cursor = {}]
  /\ UNCHANGED <<platform, saved, answer, fee, queue, dropped, reread, stops>>

\* A rules read dates the cache and writes it (`load`) before the stays.
Dated ==
  /\ reading = "answered" /\ \E a \in answer : a.kind = "rules"
  /\ reading' = "dated"
  /\ UNCHANGED <<platform, list, saved, answer, page, fee, queue, dropped, reread, stops>>

\* `replace_stays`.
ReplacedStays(a) == [list EXCEPT !.stays = a.open, !.cursor = {a.cursor}, !.gap = a.gap]
\* The fault: a closed row is not dropped.
OpensApplied(a) ==
  [list EXCEPT !.stays = @ \cup a.open, !.cursor = {a.cursor},
                !.gap = (@ \ (a.open \cup a.closed)) \cup a.gap]
\* `apply_stay_changes`.
AppliedChanges(a) ==
  [list EXCEPT !.stays = (@ \cup a.open) \ a.closed, !.cursor = {a.cursor},
                !.gap = (@ \ (a.open \cup a.closed)) \cup a.gap]

\* Whether the read goes on to another page once this one has landed.
GoesOn(a) == a.more /\ page < MaxPages

LoadStays(a) ==
  /\ reading = IF a.kind = "rules" THEN "stored" ELSE "answered"
  /\ list' = IF a.kind = "delta" THEN AppliedChanges(a) ELSE ReplacedStays(a)
  /\ reading' = IF GoesOn(a) THEN "page landed" ELSE "landed"
  /\ answer' = {}
  /\ reread' = reread \cup (dropped \cap a.open)
  /\ UNCHANGED <<platform, saved, page, fee, queue, dropped, stops>>

\* The thread writes the cache to its file (`_persist`) here.
Writing == {"wiped", "dated", "landed", "page landed"}

\* The fault: a rules read is over with its first write.
WriteOnce ==
  [at \in Writing |-> CASE at = "wiped" -> "due" [] at = "page landed" -> "paging" [] OTHER -> "asleep"]
\* And where it goes on.
WriteSteps ==
  [at \in Writing |-> CASE at = "wiped" -> "due" [] at = "dated" -> "stored"
                        [] at = "landed" -> "asleep" [] at = "page landed" -> "paging"]

WriteFile ==
  /\ reading \in Writing
  /\ reading' = WriteSteps[reading]
  /\ saved' = {list}
  /\ page' = IF reading = "landed" THEN 0 ELSE page
  /\ UNCHANGED <<platform, list, answer, fee, queue, dropped, reread, stops>>

\* The file cannot be written: a read is over there and then; a wipe's raise
\* ends the thread.
WriteRaises ==
  /\ StoreRaises
  /\ reading \in Writing \cup {"cleared"}
  /\ reading' = IF reading \in {"cleared", "wiped"} THEN "dead" ELSE "asleep"
  /\ answer' = {} /\ page' = 0
  /\ UNCHANGED <<platform, list, saved, fee, queue, dropped, reread, stops>>

------------------------------------------------------------------------------
(* The exit. *)

\* `price_exit`: from a cache not past its age, the newest stay held for the car.
Priced(car) ==
  LET held == {s \in list.stays : CarOf[s] = car}
  IN  /\ fee = {} /\ held # {}
      /\ fee' = {Max(held)}
      /\ UNCHANGED <<platform, thread, queue, dropped, reread, stops>>

\* The car backs up, or is let out by a person.
BacksUp ==
  /\ fee # {}
  /\ fee' = {}
  /\ UNCHANGED <<platform, thread, queue, dropped, reread, stops>>

\* `drop_stay`.
WithoutIt == [list EXCEPT !.stays = @ \ fee]

\* It goes through: its close is recorded, and the stay dropped (`_record_session`).
GoesThrough ==
  /\ fee # {}
  /\ fee' = {}
  /\ queue' = queue \cup fee
  /\ list' = WithoutIt
  /\ dropped' = dropped \cup fee
  /\ reread' = reread \ fee
  /\ UNCHANGED <<platform, saved, reading, answer, page, stops>>

------------------------------------------------------------------------------
\* `_restore`: the file's, or of a file past its age, or never dated, nothing;
\* the latter stays on the disk as it is.
StopsAndStarts ==
  /\ stops < MaxStops
  /\ stops' = stops + 1
  /\ \/ list' = Empty /\ UNCHANGED saved
     \/ \E held \in saved : list' \in {held, Empty} /\ saved' = {list'}
  /\ reading' = "started" /\ answer' = {} /\ page' = 0
  /\ fee' = {}
  /\ reread' = reread \cup (dropped \cap list'.stays)
  /\ UNCHANGED <<platform, queue, dropped>>

Platform ==
  \/ \E s \in Stays : Opened(s) \/ Updated(s) \/ ClosedElsewhere(s) \/ CloseTaken(s)
  \/ Committed

Refresh ==
  \/ Wake \/ DropRow \/ RulesRead \/ StaysRead \/ Unanswered \/ CursorRefused
  \/ Dated \/ \E a \in answer : LoadStays(a)
  \/ WriteFile \/ WriteRaises

Exit ==
  \/ \E car \in CarsHere : Priced(car)
  \/ BacksUp \/ GoesThrough

StaysNext == Platform \/ Refresh \/ Exit \/ StopsAndStarts

StaysSpec == StaysInit /\ [][StaysNext]_staysVars

\* The refresh thread goes on, and of its reads the rules' is answered again
\* and again and its file written; changes are committed, and the drain
\* delivers the closes.
StaysFairSpec ==
  /\ StaysSpec
  /\ WF_staysVars(Refresh)
  /\ SF_staysVars(RulesRead)
  /\ SF_staysVars(WriteFile /\ reading = "dated")
  /\ WF_staysVars(Committed)
  /\ \A s \in Stays : WF_staysVars(CloseTaken(s))

------------------------------------------------------------------------------
(* Properties *)

AtMostOne(S) == \A x, y \in S : x = y

\* Every field holds what the code keeps in it.
StaysTypeOK ==
  /\ rows \in [Stays -> Rows]
  /\ pending \subseteq [stay : Stays, seq : Seqs, open : BOOLEAN] /\ AtMostOne(pending)
  /\ list \in Caches
  /\ saved \subseteq Caches /\ AtMostOne(saved)
  /\ answer \subseteq Answers /\ AtMostOne(answer)
  /\ page \in 0..MaxPages
  /\ fee \subseteq Stays /\ AtMostOne(fee)
  /\ queue \subseteq Stays
  /\ dropped \subseteq Stays /\ reread \subseteq Stays

\* A copy of the stays is what the platform's rows up to its cursor say.
UpTo(c, n) ==
  \A s \in Stays \ c.gap :
    rows[s].seq <= n =>
      /\ s \in c.stays => rows[s].open
      /\ rows[s].open => s \in c.stays \cup dropped

\* The cursor never passes a change the copy has not taken, in memory or in the
\* file, whatever read or write failed and wherever the process stopped: a stay
\* whose row it has passed is held if it is open and not if it is closed, but
\* for the changes the platform committed late and the stays closed here.
CursorHonest ==
  \A c \in saved \cup {list} : \A n \in c.cursor : UpTo(c, n)

\* A stay whose close is recorded and that the lane has dropped is not priced a
\* second time, whatever read was in flight -- unless what the platform answered
\* before it took the close, or the file, has brought it back.
DroppedStaysAreGone == dropped \cap list.stays \subseteq reread

\* The stays the lane prices from: their copy is what its cursor says, and what
\* the lane closed itself stays out of it.
ListHonest == StaysTypeOK /\ CursorHonest /\ DroppedStaysAreGone

\* A stay the platform has closed leaves the lane's list for good: also when
\* the change was committed late and no page of changes carries it, when the
\* lane's own drop was lost with the process, or undone by an older answer.
ClosedStaysLeave ==
  \A s \in Stays : rows[s].seq > 0 /\ ~rows[s].open ~> [](s \notin list.stays)
=============================================================================
