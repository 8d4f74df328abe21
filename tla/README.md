# A verification project for the lane controller

The lane controller (`src/src/lane_controller`) runs one lane of a car park: a
car arrives on the arming loop, its plate is read, the lane decides from cached
rules whether the barrier opens, the loops after the gate say whether it drove
through, and stays, fees and log entries go to the platform when it can be
reached. It is one Python process with several threads, a small SQLite file, and
a network it does not trust. This directory models those threads in TLA+, checks
them with TLC and proves what matters most with TLAPS.

`PROJECT.json` maps every definition to the lines it stands for, and lists the
runs, the mutants that each property refuses, the hazards and the findings.

## 1. Inventory

| Component | State it keeps | Operations | How it interacts | What makes it correct |
|---|---|---|---|---|
| Loop board and transits (`controller.py`, `vend.py`) | the published transit, `_reads_outstanding`, `_poll_reading`, the hand-over slot, the worker/deadline claim | begin and resolve a transit, read the loops, idle poll, deadline | lane thread, a worker and a settle thread per assisted vend share one lock and one loop driver | no two reads of the board at once; each crossing counted once; one outcome per transit; the poll is not held off for ever |
| Opening the barrier (`controller.py`, `vend.py`) | `last_decision`, `last_decision_completed_at`, `_exit_case`, the route's claim and its held answers | arrival, exit case's step, QR scan, `POST /v1/lane/vend` | lane thread and HTTP threads contend; checks are made before the claim | one decision opens once; a case ends once; a key vends once; a rule is not overridden |
| Outbox (`events.py`, `durable.py`, `sync.py`) | session actions, bounded log, the disk thread's queue, the file | record, flush, settle, write, remove, restart | recording threads, the drain, the disk thread, the platform | no action lost once kept, none re-sent after its answer (of the log, only halves), order kept, the log's bound counted |
| Exit case and card reader (`exit_case.py`, `controller.py`) | the waiting case, `sent_at`, `taken`, pending cancels, their file | step, hand over a fee, cancel, retry, settle | lane thread, vend route, drain, disk thread, platform, reader | no fee stays on the reader with nobody to cancel it; no two drivers' fees cross |
| Decision cache and `decide` (`decision.py`, `sync.py`, `runner.py`) | rules, registers, settings, closing, ages, the coverage index, the file | full read, fast read, age bound, ceiling, restore, decide | the refresh thread writes without a lock while the lane thread decides | nothing held or trusted past its age; settings outlive a wipe; a deny reaches; an unsure plate matches nobody |
| Open stays (`decision.py`, `sync.py`) | stays, cursor | full set, deltas, local drop | refresh thread and lane thread | a stay closed here does not come back priced |
| Ask-again and the close that follows (`controller.py`, `sync.py`) | superseded cases, `_ask_again_events`, `_close_follows`, `_let_out_by`, the close in the outbox | ask again for a covered QR, retry, take, note the authority, record, send, re-point | QR thread of the lane, vend route, drain, platform | the close reaches the case left open, carries who let the car out, and settles in the end |
| Pictures (`events.py`, `durable.py`, `sync.py`) | the pictures unwritten, the file and its ceiling, the removals that failed | take, write, page, send, remove | lane thread, drain, disk thread, platform | none lost unsaid, none sent again from the file, every one leaves |
| Read window of the log (`events.py`, `service.py`) | `_cursor`, `_history` | record, evict, `GET /v1/lane/events` | a follower of the feed and the recording threads | no gap unannounced |
| Exit pricing (`exit_pricing.py`) | none: it reads the cache | price a car, field by field | lane thread, refresh thread, platform | a fee the platform takes is of its class and its tax sets |
| Threads (`runner.py`) | schedules, hand-offs, error counts | lane turn, refresh tick, drain, reader hand-off | everything above | each turn is guarded |
| Loops (`controller.py`, `loop_watch.py`, `board.py`) | the stamps of the two dwells, the open hold | sample, hold, arm | lane thread and health page sample the same loops | a hold ends; a sample of one thread does not break the other's |
| Contract surface and health (`service.py`, `contract.py`) | published copies, the read of the identification service | `GET` state, events, health | HTTP threads read what the lane thread is writing | a page's fee is its decision's; a check is a check, one at a time |
| Reader, Vehicle ID client, platform client, configuration, demo | | I/O, validation | the components above | validation of data |

What is hard in this code: threads that read the same driver with no lock held
across the call; checks made before a claim that is taken later; a disk thread
that falls behind; answers that are lost; a process that stops between two
writes; a cache written field by field while another thread decides from it. Each
such place is a hazard in `PROJECT.json`, at its line, with the properties that
would catch it.

## 2. Modules

| Module | Stands for | Built on |
|---|---|---|
| `LoopBoard` | loop board and transits | |
| `LoopBoardProofs` | its theorems | `LoopBoard` |
| `Opening` | who opens the barrier, for which decision | |
| `OpeningProofs` | its theorems | `Opening` |
| `SessionLedger` | abstract: what is promised of a stay's open and close | |
| `Outbox` | events, flush, disk thread, file, restarts; implements `SessionLedger` | `SessionLedger` |
| `OutboxProofs` | its theorems, and those of `PictureOutbox` | `Outbox`, `PictureOutbox` |
| `ReaderFees` | fees on the card reader and their cancels | |
| `ReaderFeesProofs` | its theorems | `ReaderFees` |
| `DecisionCache` | rules, registers, settings, the refresh thread, the table of `decide` | |
| `DecisionCacheProofs` | its theorems | `DecisionCache` |
| `StayCache` | open stays: full sets, deltas, the local drop, the stay an exit prices | |
| `ExitPricing` | `price_exit` reading the cache while it is loaded or wiped, and what the platform takes | |
| `ExitPricingProofs` | its theorems, and those of `StayCache` | `ExitPricing`, `StayCache` |
| `ExitClose` | the ask-again, the person who opens meanwhile, the close that follows | |
| `ExitCloseProofs` | its theorems | `ExitClose` |
| `PictureOutbox` | the pictures: memory, file, disk thread, drain | |
| `LaneService` | arming and holds, what the lane publishes, and the GETs that read it; the read window | |
| `LaneServiceProofs` | its theorems | `LaneService` |
| `*MC` | model values and small sets for TLC | the module of that name |

An action is one critical section, one call that leaves the process, or one
unlocked stretch of one thread. Operators whose comment begins "The fault:" are
not part of a specification: they are the plausible bugs the mutants of
`PROJECT.json` put in the place of the definition that follows them.

### LoopBoard

`hasLoops`, `transitState`, `transitSince`, `published`, `reads`, `pollReading`
and `handed` are the fields `_board` guards. Each transit has a `step` (where the
thread that reads for it is), what it `got` from the driver, its `claim` (`_Once`:
worker or deadline) and its `outcome` and `session`. A crossing is its number in
the order the loops completed it, and the driver reports each once, to whoever
asks first: that is the whole difficulty, since a poll that takes a vend's
crossing leaves that vend unread. A driver call is a pair of actions with
everything else in between, may raise, and may never return. Timestamps
are unique: the source's comment at `_handed` says so of a clock that moves forward.

### Opening

`last` and `completed` are `last_decision` and `last_decision_completed_at`,
`exitCase` is `_exit_case`, `Again` a case asked again; `lane`, `arriving`, `laneCase` and `scanned` say where
the lane thread is, `call` and `request` where each vend call is. The arrival is
split at its unlocked moments (publish, then reset); the step of an exit case
leaves the process between `StepCase` and `LetOut`; a call is judged, waits, claims,
opens, consumes and answers. `_supersede_idle` is any wait of the call. The
close that follows a let-out, the reader's cancels and the eviction of answers
past 256 keys are left out. Arrivals and calls are bounded, so the system stops:
deadlock is not checked.

### Outbox

`record` is what each recording thread has in hand, `sessions` and `logged` are
memory, `jobs` the disk thread's queue, `disk` the file. `Flush` takes a
snapshot; `Send`, `Reach`, then `Settled` or `Unreachable` deliver it part by part. A chunk of log
too large for one body is posted in halves (`Halve`, `NextHalf`): `posting` is what the request out
carries, `waiting` the halves still to be posted. The chunk leaves memory only when its last half is
answered for; where one finds no platform the whole chunk waits for the next flush, and the halves
answered for are sent again (`halved`). `platform` is what has been settled at the far end and
`answered` what this process was told. The disk thread writes or fails, and `Restart` may come between any two steps. Events are numbered in the order of their `at` (a wall clock
that does not step back). Which body
is too large is a choice. Left out: a lane with no store, pictures and cancels. An unexpected exception of the transport is one more
way the platform is not reached.

`SessionLedger` is the abstract specification: an action is held, kept, settled
or lost, and only a restart loses one, only before the disk had it. `Status(n)` in `Outbox` is
the refinement mapping, `LedgerKept` the property.

### ReaderFees

`exitCase`, `laneCase`, `first`, `feeHeld`, `left` are the lane thread's;
`taken` and `vend` the vend route's; `owed`, `asking` the pending cancels and the
drain; `jobs`, `file`, `unkept` the disk; `reader` and `settled` are what the
platform and the reader hold, `late` the `/pay`s the lane has given up on that may
still arrive. A `/pay` is three steps, the hand-over, its
arrival at the platform and its answer, with a person's vend possible between
any two; the lane may give up on it before or after it arrived (`PayUnanswered`), and it may then
arrive at any time, before or after a cancel of the case (`PayLands`). A case is its car: a case asked
again is not told apart from the one
before it. A cancel and its disk job are handed over in one step (the code submits outside the
lock; the hazard is listed). The case waiting at a restart is forgotten, as in the code; its car, seen
again, counts as another one. A cancel given up on that arrives late only frees the reader: left out.

Two groups of fees are excepted by `FeeAccounted`, by name. `stranded`: those of a vend whose
relay raised, and those that were only in memory when the process stopped -- a cancel the disk had not
written, a case whose cancel was not queued yet, the waiting case itself. `slipped`: those that
came to the reader, or were left there, with the lane untold or told too late -- the answer of the `/pay` was
lost, or the `/pay` arrived when the lane had no cancel of it to ask any more, or
the cancel was to be queued once more while an earlier one was already confirmed (`add` returns
where it finds it pending, `exit_case.py:676`). Each is added to at the very step at which the lane
loses the fee, and a fee whose next `/pay` is answered leaves `slipped` again. Like `refused`, both are
of the fee on the reader, and end when it comes off (`Off`): one that comes back counts anew.

### DecisionCache

`cache` is the part of `DecisionCache.state` that decides whether the barrier
opens, `covered` the coverage index for the one plate that stands for all,
`file` the row of the cache file. `refresh` is where the refresh thread is: a tick
enforces the bound (`Wake`), then at most one read is answered; a rules read is
loaded field by field as `load_payload` assigns them, with the file written in
the middle (`load` persists) and at the end. `Decide` is the decision table, in
the order of the code, evaluated on whatever the cache holds at that moment; it is evaluated
atomically. `Restored` is `_restore`, its file writes folded into the restart.
A plate is a read the lane stands behind, one it is unsure of, none, or no
engine. Left out: stays (`StayCache`), plans, taxes, boards, banned cars and the presentation
of a QR. `told`, `answeredAt` and `hurt` are history.

### StayCache

`rows` and `pending` are the platform's (external): every change takes a number,
and one may be committed after a later one. `list`, `saved`, `reading`, `answer`
and `page` are the refresh thread's: `Full` or `Delta` is what it is answered,
`LoadStays` what it makes of it, `WriteFile` and `WriteRaises` the disk. `Priced`
takes the newest stay held for a car; `GoesThrough` records its close and drops
it. Record and drop are one step: they are consecutive on one thread, and a load
between them is as one before both. `queue` is the outbox's closes, which
`CloseTaken` delivers. How old the cache is is a choice at each wake, price and restart; an undated file is left by
a restart as it is. A closing carried by the same answer is written before the
stays (`apply_lane`); that write is `DecisionCache`'s. `gap`, `dropped` and
`reread` are history. A held exit, which also closes, is a car that goes through.

### ExitPricing

`garage` is what the platform has, `cache` the fields the exit reads, `file` the
row, `refresh` what a load (`LoadOrder`) or a wipe (`ClearOrder`) has still to
write and with which answer; `lane` is where `price_exit` is and what it has
read. `Asks`, `LooksUp`, `Charges` and `Records` are its reads of the cache, one
step each, with `class` and `tax_sets` read twice as the code does. `Judged` is
the platform's: it takes the fee if the class is its own and the count and the
newest of the tax sets are, and `mistaken` notes of the fee judged last, if it was taken wrongly, which of the two
fields read twice had two values (`Torn`). The tax is taken in the quote's currency, whatever the cache has of it
by then. The class goes over to another and may come back, a tax set is the moment it takes
effect. Left out: the arithmetic, and the days of a register row; whether a
register covers the car is a choice (`DecisionCache` has it), and so is whether
its stay is found (`StayCache`).

### ExitClose

One car at an exit. Case `n + 1` is the one case `n` is asked again as, so its
number is also the event it is opened with. `case`, `taken`, `completed`, `idle`,
`retry`, `asked`, `follows` and `letOutBy` are the controller's fields; `lane`,
`person`, `crossing` and `drain` say where each thread is; `queue` is the close in
the outbox; `status`, `settled` and `record` are the platform's, and `late` the
requests given up on that may still land. A vend is `PersonComes`, a wait of
its own, `Claims`, `PersonOpens` and `PersonNotes`, because the authority is noted
outside the lock. A close refused for its case is followed (`Followed`); or the case ended otherwise
(`NotFollowed`); or the platform refuses to say, or says it in another shape, and the close is refused
for good whatever became of the case (`NotSaid`, noted in `silent`). Left out: a close the platform takes without echoing its case
(`status` null), and a second exit with a case of its own.

### PictureOutbox

Pictures are numbered as they are taken, so that memory, the file's rows and a page are
sets, whose order the numbers are. `memory` is `_unwritten` (without a file, `_pictures`), `file` the rows, `pictureJobs`
and `writer` the disk thread, `sentUnremoved` is `_sent_unremoved`, `drain` the flush:
its page, what it sends, what it hands back for removal. A write is three
steps (write, count, forget) and a read that is not answered in time sends the
drain on to the memory. Pictures weigh one, or too much. Left out: a transport
that carries no pictures.

### LaneService

The lane thread from `wait_for_vehicle` to the decision it publishes: sampling
the loops, holding, arming, deciding, `_note_exit_screen`, recording. `shown` is
what is published, field by field in the order of the code; `cursor` and
`history` the read window, with the cursor moved before the event is appended. A
`GET` is a thread of the server that reads those fields one at a time; the health
page samples the same loops and asks the identification service, which may never
answer. A behaviour has one consumer, of one of the three pages, which
share no state. On the screen is nothing before a decision has a time (`Noted`), as the code has it. Left out: routing, authentication, the shapes of pages, the length of a
dwell in seconds.

## 3. Runs

| Run | Shows |
|---|---|
| `board` | both doors of an entry lane in use, drivers that hang, are late or raise: the poll and the vends' reads exclude each other (`ReadsNeverOverlap`), every crossing and every transit is recorded once (`CrossingRecordedOnce`, `OneOutcome`), the poll never takes a pending vend's crossing (`NoUnadmittedWhilePending`), and if driver calls come back, every crossing is read (`EveryCrossingRead`) |
| `opening` | the lane, a QR and two calls with one key over two cars: `CaseEndsOnce`, `OneClaim`, `OpensForTheCarAtTheLane`, `KeyVendsOnce` |
| `opening_override` | **violation**: a call judged on a fallback opens for a deny (finding 1) |
| `outbox` | two recorders, a flush, a failing or hung disk, a restart: the ledger is implemented (`LedgerKept`), memory and file agree (`DiskFollowsMemory`), nothing is sent again after its answer, but the halves of a chunk cut short (`AnsweredOnce`), order is kept (`OrderKept`), dropped log events are counted (`LogAccounted`), and everything is delivered in the end (`Delivered`) |
| `reader_fees` | two cars, a person, answers lost and requests late, a failing disk, a restart: no fee stays on the reader with nobody to cancel it but the `stranded` and `slipped` ones, and what is owed is on the disk (`FeeAccounted`); no fee follows another whose cancel is unconfirmed (`FeeWaits`) |
| `reader_fees_live` | the fee of a car that is gone comes off the reader, or a person is told, or it is a `slipped` or `stranded` one (`FeeComesOff`) |
| `cache` | outage, bound, ceiling, refusal, a raising file, a stop at any step of a load or wipe: `RetentionBound`, `SettingsOutlive`, `DenyReaches`, `UnsureIsUnread`, `StaleOpensNothing` |
| `stays` | changes committed late, pages, a refused cursor, a raising file, a stop at any step, a car priced meanwhile: the cursor passes nothing the copy lacks and a stay dropped here is not priced again (`ListHonest`), and a stay closed by the platform leaves the list for good (`ClosedStaysLeave`) |
| `exit_pricing` | a garage that edits its class and tax sets, a load, a wipe, a torn file and a restart under a price being worked out: a fee the platform takes is of the garage's class and taxed on its sets, unless one of the two read differently the second time (`ConsumedAtTheGaragesTax`) |
| `exit_close` | three cases of one car, answers lost and late, a person, the drain, a restart: the close finds the case left open, unless the platform ended it or would not say what became of it (`ReachesTheCase`), carries the authority that opened (`AuthorityKept`), and leaves the outbox (`CloseSettles`) |
| `pictures` | three pictures, a memory and a file of two, failing writes, removals and sends, reads that time out, a restart, with a file and without: none lost unsaid (`PicturesAccounted`), none sent again from the file (`NotSentAgain`), each leaves in the end (`EveryPictureLeaves`) |
| `lane_service` | recording while a page of the feed is read, a restart under a follower, publishing for a second car while a state page is read, a health page whose service never answers, a hold: `FeedNoSilentGap`, `FeeOfItsDecision`, `IdentityIsACheck`, `HoldEnds` |

The type invariant of a module is checked in its run, by itself or as a named
part of one of its safety invariants (`CaseEndsOnce`, `FeeAccounted`, `ListHonest`,
`ReachesTheCase`, `PicturesAccounted`, `ConsumedAtTheGaragesTax`).

**Bounds, and why they are enough.** Two crossings: one can belong to the wrong
vend only if there is another. One ordinary and one assisted transit at the
entry, one of each door. Two larger boards pass too and are kept to run by hand: `LoopBoardEntry.cfg` adds a
second assisted vend while the first one's worker is still out (2.3 million
states), `LoopBoardLive.cfg` is an exit. Two arrivals, two calls, one key, one QR: every race of `Opening` is
between a decision and the next, or between two claimants. Three events, log of
two, chunks of two, two recorders, one restart: an eviction, two parts of one flush, an open and its close, a
chunk posted in halves, and one recorder overtaking another. Two cars and one restart for the fees: a fee and the one that
must wait for it. For the cache, ages 1 and 2 and a clock up to 3, so that each
age is reached and passed; one restart; four answers, chosen to hold each kind
of garage, rule, register (one module unavailable) and closing, one of them unsaid. Two stays of
two cars, only one of which comes to this exit, so that one stay is closed here and one elsewhere; pages of one change,
two pages a read, so that a backlog outlasts a read; one change uncommitted at a
time: two are enough to be out of order, one that waits and one that passes it.
After `MaxSeq` changes only closes come. Three edits for
the pricing: one before the price, one between two reads of it, and one before
the platform judges. Three cases for the close: one superseded under another
that is superseded itself; one retry of the two, so that retries end; one
restart. Three pictures against a memory and a file of two and pages of one: a
bound reached in each, a page behind a row that cannot be removed. For the read surface a
window of two and one restart: recordings are
more than the window holds, and a follower's cursor can be of an earlier run. One vehicle comes for the events
and the health page, two for the state page, so that there is a last car's fee. The theorems of
section 5 hold for every bound.

**What stops.** `CHECK_DEADLOCK FALSE` is set where the bounds, not the system,
end a behaviour: arrivals, events, cars, restarts and the clock are finite. The loop board is
checked for deadlock.

**Fairness.** Threads that can run do (weak fairness of each thread's own
steps); this is the scheduling of Python threads and nothing more.
- `ThreadSpec` (LoopBoard): no driver call is assumed to return. `EveryCrossingRead` is an
  implication whose premise (`DriverFairness`) adds that driver calls come back,
  a poll's at last with an answer, which the code cannot guarantee and says so.
- `HungDiskSpec` (Outbox): the platform is reached, and its answers heard, again and again; the disk may hang for ever.
- `FairSpec` (ReaderFees): threads run, the platform confirms a cancel it is
  asked again and again; nothing of the disk.
- `StaysFairSpec` (StayCache): the refresh thread goes on; a rules read is answered
  and its first write succeeds again and again; a change begun is committed, and
  the outbox delivers (which is `Delivered` of `Outbox`). If the disk never
  takes a rules read's first write, its stays are never loaded: that is how
  `load` is written, and the assumption says so.
- `FairSpec` (ExitClose): the drain goes on; the platform, sent the same close or asked the same
  question about a superseded case again and again, is heard in the end.
  Nothing is assumed of the lane, the person or a restart.
- `PicturesFairSpec` (PictureOutbox): the disk thread and the drain go on, and a picture sent
  again and again is answered; nothing of writes and removals.
  `EveryPictureLeaves` has the premise that reads time out only finitely often: a
  disk that answers no read leaves the file's pictures where they are.
- `Fairness` (LaneService): the lane thread goes round; nothing of vehicles, consumers or the
  identification service. `HoldEnds` says of the vehicles what it needs.

## 4. Findings

1. **Override** (`controller.py:913`): `complete_vend` re-checks that the
   decision is not completed, not that it is the one the route judged; a
   `human_open_and_flag` judged on a fallback opens for a deny published since,
   which `docs/CONTRACT.md` says no authority but `human_open_now` does.

Five more disagreements have a configuration to run by hand, and are no
part of the runs:

- `CacheThread.cfg` (`runner.py:321`): the retention bound is enforced
  before, and outside, the guard of `_refresh`. A write of the cache file that
  raises in the wipe ends the thread, and the lane is neither refreshed nor wiped
  until it restarts; the module's docstring says neither thread is allowed to
  die on an exception.
- `LoopBoardTwoDoors.cfg` (`controller.py:2248`): `_nothing_pending` asks the transit
  published last. With both doors open, one door's outcome hides the other's
  transit while it begins, and the poll records its crossing as `entry_unadmitted`.
- `OpeningConsumed.cfg` (`controller.py:946`): the second, unlocked write of
  `last_decision_completed_at` may land on a newer decision, which is then
  consumed without vending.
- `ReaderFeesLost.cfg` (`exit_case.py:440`): the answer to a `/pay` is lost; `sent_at`
  stays unset though the fee may be on the reader, and letting go of the case
  queues no cancel. The module's docstring (`exit_case.py:53-57`) says of every case the lane lets go of that
  it "has its payment taken off the reader through the platform". `EveryFeeTakenOff` is
  `FeeAccounted` without `slipped`.
- `ExitPricingTorn.cfg` (`exit_pricing.py:342`): `tax_sets_held` reads the sets again after the engine took the
  tax from them. A load in between makes the record name the garage's new sets for a tax of the old, and the
  platform takes the fee; `exit_pricing.py:52-57` says a fee it takes was
  "taxed with the garage's current tax sets" and that these facts "are how it tells". `TaxSetsTell` speaks
  of fees whose class did not change under them.

Seen while modelling, and not given a run.

*Cache and stays.* `load_payload` is not "one replacement" but a
sequence of assignments with a disk write in it, and a write that raises there
leaves the cache freshly dated with the old plans and tax sets, where
`_refresh` logs that "the cache is as it was"; a stop between the wipe of the
cache's row and its rewriting loses the settings the wipe was to keep; at a
pass-only garage an unread car is refused before `full` is asked
(`decision.py:1242`), and that refusal is one a QR may open, where the docstring
of `qr_may_open` says never at a full garage;
a stay dropped by the lane comes back with an answer made before the platform
took its close, or with the file after a restart, though `drop_stay` is there to
keep it from being priced twice (`reread`); stays kept before any rules read are
never past the bound (`decision.py:750`).

*Pricing.* A wipe between the tax and `tax_sets_held` leaves `max()` nothing to choose from, and the
turn ends in an error. The two reads of `space_class` race with a load as those of the tax sets
do: the fee is worked out in the new class and the record says the old.

*Exit case.* `_let_out_by` is written by the vend route without `_exit_lock`
(`controller.py:939`) while an ask-again's answer may re-point it: the close of
a case a person opened then carries no authority (`AuthorityKept` excepts it by
name, `slipped`). The order: a QR's ask-again goes out; a person comes and waits
for it until the wait runs out; they claim; the ask-again is answered and the
new case, and the close that follows, are noted; only then the person's
authority, for the old case.

*Pictures.* One sent from memory while the disk thread is writing it is sent
again from the file (the platform drops the copy by its `picture_ref`);
`pictures_dropped` can count one twice; a row number used again after
a removal makes a page miss a picture until the next flush.

*Read surface.* A cursor of an earlier run that is not beyond the new one is
taken for one of this run, and the follower is not told `reset`; the state page reads a
decision's fields while the next is published, and between a transit's two
fields raises; the loop's stamp is checked and then used (`observe_*`), with
the health page clearing it in between, so a sample may raise on the lane
thread after the arrival was consumed; clock health says `ok` while no attempt
was ever answered; a vehicle swapped for another between two polls is let go as the
one that was held.

## 5. Proofs

All for every value of the constants that satisfies the assumption the module states.
`OutboxProofs` and `ExitPricingProofs` each prove about two components side by side, those
that share the code; the two modules have no name in common. Each proof
follows one pattern: an inductive invariant `Inv`, `Init => Inv`, one lemma or step per
action for `Inv /\ [Next]_vars => Inv'`, and `Inv => property`.

**LoopBoardProofs** (`BoardAssumption`: finite sets of transits, distinct
timestamps). `TypeCorrect`; `PollExcludesReads` (`ReadsNeverOverlap`);
`CountIsRight` (`CrossingRecordedOnce`); `OneOutcomePerTransit` (`OneOutcome`);
`PendingHoldsThePollOff` (`NoUnadmittedWhilePending`). None of these is inductive:
that the poll and a read exclude each other needs that the claim and the count
mean what they say (`ClaimInv`: the claim is up exactly while the poll is out,
the count is the number of reads out); that a crossing is recorded once needs to know where
each crossing taken now is -- with the poll, in the slot, with a read, recorded -- and that
these places are disjoint (`CrossingInv`); one outcome needs who may still answer (`AnswerInv`).

**OutboxProofs** (`OutboxAssumption`). `TypeCorrect`; `FileFollows`
(`DiskFollowsMemory`); `NoResend` (`AnsweredOnce`); `InOrder` (`OrderKept`);
`LogIsAccounted` (`LogAccounted`);
`LedgerRefined` (`LedgerKept`: `Outbox` implements `SessionLedger`). `HandInv` says
an event in a recorder's hand is nowhere else; `FlushInv` that what a flush has
still to send is in memory, and what was answered is not, but for log events of a chunk posted in
halves, and that of such a chunk all is answered for, posted or waiting; `DiskInv` that a write
and a removal of one action stand in that order in the queue, which is what keeps
a late write from resurrecting a delivered action. `LogInv` that a log event is appended
once, at a place of its own in the log: so an eviction loses one event and counts one,
and what leaves with an answer is not counted.

*Pictures, in the same module* (`PictureOutboxAssumption`). `PicturesAreAccounted`
(`PicturesAccounted`, the type invariant with it) and `PicturesSentOnce` (`NotSentAgain`), for any bounds
of memory, file and page. The invariant `PicturesInv` has five parts over the types. `RowInv`: rows stand in
the order of their pictures, also where a number is used again. `WriteInv`:
the writes waiting are of pictures later than all that reached the file. `DoneInv`:
what is to be removed is done with the platform. `SentInv` is the heart of the second theorem: a
picture sent and still on file is one the lane knows of (`_sent_unremoved`), and of the jobs
handed to the disk thread only writes come after a read still awaited, so that no
removal is under way of a picture on the page being sent. `GoneInv` counts: what is
gone undelivered, with the one the disk thread is about to let go (`Doomed`), is at most what
is counted. That a page leaves nothing out of order, and that the rows the ceiling takes
are as many as the count says, are counting lemmas about finite sets.

**DecisionCacheProofs** (`CacheAssumption`). `TypeCorrect`; `HeldWithinTheBound`
(`RetentionBound`); `NothingStaleOpens` (`StaleOpensNothing`);
`UnsureMatchesNobody` (`UnsureIsUnread`); `SettingsStay` (`SettingsOutlive`);
`DenialReaches` (`DenyReaches`). `Sound`, of the cache and of the file
alike: no age in it is later than the platform's last answer, and registers kept
past the bound are a pass-only garage's, of a known age, with no rules. `LoadInv`
says how far a load has come, `HeldInv` what a tick has left, `SameInv` when file
and index say what the cache says. The lemmas `ClearedIsHeld` and `RestoredIsHeld` are the heart:
what `clear` and `_restore` leave is within the bound whenever what they were given is sound.
The last two theorems rest on `ToldInv`: between loads the cache agrees with the last
answer loaded whole, but for a rule wiped past its bound (`Agrees`); during a load the fields
already reached are the new answer's. `RestoreKeeps` shows that a restart loses no setting.

**OpeningProofs** (`OpeningAssumption`). `CaseEndsOnceForAll` (`CaseEndsOnce`, the type
invariant with it); `OneClaimForAll` (`OneClaim`); `OpensForItsCar` (`OpensForTheCarAtTheLane`);
`KeyVendsOnceForAll` (`KeyVendsOnce`): for any calls, keys, QRs and number of arrivals.
That the lane lets out only who nobody claimed needs that a case waits only
while its decision is unclaimed (`ClaimInv`); that a case ends once, that those of cars to come have not ended
(`EndInv`); that its car is the one at the lane, where the lane
thread has got to (`CaseInv`); that a key vends once, that a call holds the route
from its check of the key to its answer (`RouteInv`).

**LaneServiceProofs** (`LaneServiceAssumption`). `FeedIsWhole` (`FeedNoSilentGap`),
for any depth of the window: `WindowInv` says what the window holds at every moment -- the
last events, one behind the cursor while one is being recorded -- and `PageInv` that a
page half read misses only what is gone by the time its oldest is read.
`FeeNamesItsDecision` (`FeeOfItsDecision`, by `FeeInv`) and `OneIdentityRead`
(`IdentityIsACheck`, by `IdentityInv`). `TypeCorrect` (`TypeOK`) is not inductive either: the
decisions stay within their bound because each arrival is decided on, on its way there,
held, or still to be reported, and only one of these at a time (`ArrivalInv`).

**ReaderFeesProofs** (`FeesAssumption`). `NoFeeForgotten` (`FeeAccounted`), of a platform whose
answers may be lost and whose requests may be late. `FeeInv` says whose each fee on the reader is at each step of the lane, which
`FeeAccounted` is too weak to carry: a case leaves the exit with its `sent_at`
known (`Minded`), a fee whose answer is still under way apart. It rests on `StepInv` (the case stepped is a new car's, the
waiting one, or one a person took), `PlatformInv` (a settled case has no fee on the reader) and
`DebtInv` (each cancel owed is in the file, or its
addition comes after every removal of it in the disk thread's queue).
`FeesWait` (`FeeWaits`) is by `WaitInv`.

**ExitPricingProofs** (`PricingAssumption`). `TaxedAsTheGarageDoes`
(`ConsumedAtTheGaragesTax`), for any number of edits and restarts: `HeardInv` says the sets the
cache, the file, a refresh and the lane hold are the garage's, as they are or as they were,
and an edit leaves a newest set newer than before (`GarageInv`), so that the two facts the
platform compares tell the sets apart (`FactsTell`); `ReadInv` that the facts on a decision are of the
sets it was made from. That these are the sets the tax was taken from is no fact of the code, and is what
the property excepts.

*Open stays, in the same module* (`StayAssumption`). `ListIsHonest` (`ListHonest`, the type
invariant with it), for any stays, cars, pages and restarts. `Honest(c)` says of one copy that up to
its cursor it is what the platform's rows say, and that a change taken and not yet committed below
the cursor is of a stay in its `gap`. `CopyInv` asks it of the list, the file, and the list as the
answer under way will leave it (`Loaded`): the lane may drop a stay while the answer waits,
so the honesty of an answer has to be carried together with the list it will be applied to. What
the platform does keeps it, since a change moves a row past every cursor there is, or commits one
that is in every gap it is below (`StaysHonest`, from `Moved`). That a full set is honest is plain; of a page of changes
it rests on `PageIsWhole`: a page takes every change up to the number it ends with. `PlatformInv` bounds the
numbers given -- after `MaxSeq` only closes come, one a stay -- and `ThreadInv` says that an answer is
loaded or dropped before the next read.

**ExitCloseProofs** (`ExitCloseAssumption`). `CloseReachesTheCase` (`ReachesTheCase`, the
type invariant with it) and `AuthorityFollows` (`AuthorityKept`). The platform's cases are a
chain while it ends none itself (`ChainInv`); an ask-again still on its way is of the car's
case, with its event noted, or of an older one (`PendingInv`); so the close names the open
case, or the one superseded under it with the event that names the next (`OpenInv`), and the
drain, which reads that off the refusal, names one of the two (`DrainInv`), so that who is told is told of
what the platform did or would not say (`ToldInv`). Who opened is told by
where the threads have got to (`ClaimInv`), and the authority is held for the case the
close will name (`AuthorityInv`).

**Only model-checked.** Liveness (`EveryCrossingRead`, `Delivered`, `FeeComesOff`,
`ClosedStaysLeave`, `CloseSettles`, `EveryPictureLeaves`, `HoldEnds`), which is out of
the prover's reach. Every safety property of a passing run is also a theorem.

## 6. Limits of the properties

- `AnsweredOnce` excepts the log events answered for in one half of a chunk whose other half
  found no platform (`halved`): the code sends the whole chunk again and says so (`sync.py:349`).
- `LogAccounted` is an inequality: a log event in the hand of a thread is not counted yet.
- `OrderKept` orders what memory holds when a flush begins; two threads that
  record at the same time may append in either order.
- `FeeWaits` excepts the case the lane is stepping when a person takes it: `fee_held` is read before
  the step's network calls.
- `OneClaim` counts claims between resets and says nothing of a claim the reset wipes.
- `RetentionBound` excepts a file that could not be written; `SettingsOutlive` and
  `DenyReaches` a stop or a failing disk in the middle of a load or wipe, until the next
  full load.
- `ListHonest` excepts a stay that an older answer or the file brought back, and,
  of the cursor, the changes the platform committed late.
- `FeeAccounted` and `FeeComesOff` except the fees `stranded` and `slipped` (section 2).
- `EveryCrossingRead` excepts the transit of a worker that died of its driver.
- `ConsumedAtTheGaragesTax` excepts a fee whose class, or whose tax sets, read differently
  the second time (`Torn`): section 4. A tax set replaced under the
  instant it takes effect cannot be told apart by what the close carries.
- `ReachesTheCase` excepts a close whose case the platform itself ended, and one refused while the platform,
  asked what became of the case, refused to say or answered in another shape (`silent`): the code
  then gives the close up though its case may only be superseded (`sync.py:623-638`).
  `AuthorityKept` excepts the race of section 4.
- `PicturesAccounted` is an inequality, and speaks of one run: what a restart
  loses is `forgiven`.
- `FeedNoSilentGap` speaks of a cursor of the same run.
- Beyond the hazards of `PROJECT.json`, and not covered by any property: a clock
  that steps back sorts a close before its open (`events.py:284`); a transport
  that raises what nobody expects stops every flush at the same part
  (`events.py:338`); a cancel's removal can overtake its write
  (`exit_case.py:681`), leaving a row that is asked again after a restart; between the steps of a load the
  new default may stand beside the old `transient_available` (`decision.py:780`).
- A module the platform could not read keeps its register with the new answer's
  age (as the code does): the bound is one on answers, not on each module.

## 7. Not modelled, and the plan

What remains, most important first:

1. An abstract fee ledger that `ReaderFees` implements, as `Outbox` implements `SessionLedger`.
2. The composition of `ExitClose` and `ReaderFees` over one exit case: a case asked
   again while its fee is on the reader.
3. The refresh schedule and the reader hand-off of `runner.py`; the prices the
   board shows; stays' ages in an undated cache (`decision.py:750`).

Not planned: routing, authentication and validation of the contract's bodies, the
shapes of pages and counters of faults, the arithmetic of prices (a library of its own), edges and
sampling periods of `LoopWatch`, the clients of the reader, the Vehicle ID service
and the platform (I/O, whose outcomes are the inputs of the models), configuration, command line, demo and
simulated hardware: there is no state of theirs that steps of two
actors could disorder.

## 8. Running

    tlc -workers 2 -config LoopBoard.cfg LoopBoardMC.tla
    tlapm LoopBoardProofs.tla

and likewise for the others; `PROJECT.json` names each run's module and
configuration. The longest run takes two to three minutes.
The configurations named in section 4 are run in the same way, and end in a
counterexample.
