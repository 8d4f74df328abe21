----------------------------- MODULE DecisionCache -----------------------------
(***************************************************************************)
(* The rules, the registers and the settings a lane decides from           *)
(* (src/src/lane_controller/decision.py), and the thread that keeps them   *)
(* fresh (runner.py, sync.py).                                             *)
(*                                                                         *)
(* The refresh thread wakes, wipes a cache past its bound, and reads the   *)
(* platform.  It writes the cache field by field and without a lock, with  *)
(* writes of the file in between; the lane's thread may decide at any of   *)
(* those moments (`Decide`, of what the cache holds then), and the process *)
(* may stop at any of them and start again from the file.                  *)
(*                                                                         *)
(* One plate stands for all: what its rule is, and whether a register      *)
(* covers it today.  Open stays, plans, taxes and boards are left out.     *)
(***************************************************************************)
EXTENDS Naturals, FiniteSets

CONSTANTS
  Payloads,     \* the answers to GET /lane/rules
  LaneReads,    \* the closings the fast read of the stays may carry
  MaxAge,       \* max_age_seconds: the age past which nothing is trusted or held
  OfflineMax,   \* pass_registers_offline_s: the ceiling on registers kept past it
  StoreRaises,  \* whether a write of the cache file may raise
  MaxTime,      \* bound: the clock, in units of the two ages
  MaxRestarts   \* bound: how often the process stops and starts again

Rules      == {"none", "allow", "deny"}
Defaults   == {"none", "allow", "deny"}
Transients == {"unsaid", "yes", "no"}
Registers  == {"none", "other", "covers"}
Closings   == {"open", "full", "everyone"}

AllPayloads == [rule : Rules, default : Defaults, transient : Transients,
                register : {"unavailable", "other", "covers"}, closed : Closings \cup {"unsaid"}]

ASSUME CacheAssumption ==
  /\ Payloads \subseteq AllPayloads /\ LaneReads \subseteq Closings
  /\ MaxAge \in Nat /\ OfflineMax \in Nat
  /\ StoreRaises \in BOOLEAN
  /\ MaxTime \in Nat /\ MaxRestarts \in Nat

VARIABLES
  now,        \* the clock
  cache,      \* DecisionCache, as `state` lists it
  covered,    \* whether _coverage_index has a row for the plate
  file,       \* the row of the cache file, if there is one
  refresh,    \* where the refresh thread is
  payload,    \* the answer it is loading
  told,       \* history: the last answer it has loaded whole
  answeredAt, \* history: when the platform last answered a rules read
  hurt,       \* history: a load or a wipe was left half done
  restarts

history == <<told, answeredAt, hurt, restarts>>
vars    == <<now, cache, covered, file, refresh, payload, history>>

------------------------------------------------------------------------------
Times == {{}} \cup {{t} : t \in 0..MaxTime}

Caches ==
  [rule : Rules, default : Defaults, transient : Transients, refreshedAt : Times,
   register : Registers, pastBound : BOOLEAN, confirmedAt : Times, closed : Closings]

\* A cache nothing was ever loaded into.
Empty ==
  [rule |-> "none", default |-> "none", transient |-> "unsaid", refreshedAt |-> {},
   register |-> "none", pastBound |-> FALSE, confirmedAt |-> {}, closed |-> "open"]

Steps == {"started", "asleep", "due", "wiped", "cleared", "emptied", "dropped", "refused",
          "closing", "answered", "rules", "default", "stored", "transient", "register",
          "index", "loaded", "dead"}

\* Whether more than `age` has passed since the instant, if there is one.
Past(instant, age) == \E t \in instant : now - t > age

\* `garage_admits`.
GarageAdmits(c) ==
  CASE c.transient = "unsaid"                        -> "unsaid"
    [] c.transient = "yes" /\ c.default # "deny"     -> "transients"
    [] OTHER                                         -> "passes"

\* The fault: a cache is trusted until a tick has wiped it.
UntilWiped == cache.refreshedAt = {}
\* `is_stale`.
IsStale == cache.refreshedAt = {} \/ Past(cache.refreshedAt, MaxAge)

------------------------------------------------------------------------------
(* `decide`: the table, of what the cache holds at this moment. *)

Reads      == {"nothing", "no engine", "no plate", "unsure", "plate"}
Directions == {"entry", "exit"}

Decision(outcome, fallback, qr) == [outcome |-> outcome, fallback |-> fallback, qr |-> qr]
Allow            == Decision("allow", "none", FALSE)
Deny             == Decision("deny", "none", FALSE)
Person(fallback) == Decision("fallback", fallback, FALSE)
MayScan(d)       == [d EXCEPT !.qr = TRUE]

\* `closed_to`: full is an entry's reason; at an exit it is closed to everyone.
ClosedTo(direction) ==
  IF cache.closed = "full" /\ direction = "exit" THEN "everyone" ELSE cache.closed

\* The fault: a rule past its age denies no more, as it allows no more.
DeniesWhileTrusted(read) == read \in {"unsure", "plate"} /\ ~IsStale /\ cache.rule = "deny"
\* `owner_denies`, `plate_seen`: the plate read at any confidence, at any age.
OwnerDenies(read) == read \in {"unsure", "plate"} /\ cache.rule = "deny"

ByRule == IF cache.rule = "deny" THEN Deny ELSE Allow

\* `_not_confirmed`: the fallback of a car whose plate nobody stands behind.
Unread(read) ==
  CASE read = "no engine" -> "engine_unreachable"
    [] read = "no plate"  -> "no_plate_read"
    [] OTHER              -> "low_confidence"

\* The fault: a plate the lane is unsure of is looked up in the registers.
AtFullSeen(read, uncovered) == IF read \in {"unsure", "plate"} /\ covered THEN Allow ELSE uncovered
\* What a car a register covers is told, and any other, at a garage full.
AtFull(read, uncovered) == IF read = "plate" /\ covered THEN Allow ELSE uncovered

\* The rule the entry goes by: of a plate read, from a cache still trusted.
RuleApplies(read) == read = "plate" /\ ~IsStale /\ cache.rule # "none"

\* `_decide_entry` at a pass-only garage.
DecidePasses(read, full) ==
  IF read # "plate" THEN MayScan(Person(Unread(read)))
  ELSE IF full
    THEN AtFull(read, IF cache.register = "none" THEN Person("stale_rules") ELSE Deny)
  ELSE IF RuleApplies(read) THEN ByRule
  ELSE IF cache.register = "none" THEN MayScan(Person("stale_rules"))
  ELSE IF covered THEN Allow ELSE MayScan(Deny)

\* `_decide_entry` at a garage that takes transients.
DecideTransients(read, full) ==
  IF full THEN AtFull(read, Person("lane_closed"))
  ELSE IF RuleApplies(read) THEN ByRule ELSE Allow

\* The rest of `decide`: an exit, or a garage that has not said what it takes.
DecideUnsaid(direction, read) ==
  IF read # "plate" THEN Person(Unread(read))
  ELSE IF IsStale THEN Person("stale_rules")
  ELSE IF ClosedTo(direction) = "full" THEN AtFull(read, Person("lane_closed"))
  ELSE IF cache.rule # "none" THEN ByRule
  ELSE IF cache.default = "allow" \/ (cache.default = "deny" /\ direction = "exit") THEN Allow
  ELSE IF cache.default = "deny" THEN Deny ELSE Person("unknown_vehicle")

Decide(direction, read) ==
  LET full   == ClosedTo(direction) = "full"
      admits == GarageAdmits(cache)
  IN  IF read = "nothing" THEN Decision("no_vehicle", "none", FALSE)
      ELSE IF ClosedTo(direction) = "everyone" THEN Person("lane_closed")
      ELSE IF direction = "entry" /\ OwnerDenies(read) THEN Deny
      ELSE IF direction = "entry" /\ admits = "passes" THEN DecidePasses(read, full)
      ELSE IF direction = "entry" /\ admits = "transients" THEN DecideTransients(read, full)
      ELSE DecideUnsaid(direction, read)

Opens(direction, read) == Decide(direction, read).outcome = "allow"

------------------------------------------------------------------------------
(* The refresh thread (`_refresh_loop`, `refresh_tick`). *)

Init ==
  /\ now = 0
  /\ cache = Empty
  /\ covered = FALSE
  /\ file = {}
  /\ refresh = "started"
  /\ payload = {}
  /\ told = Empty
  /\ answeredAt = {}
  /\ hurt = {}
  /\ restarts = 0

WithoutRegisters(c) ==
  [c EXCEPT !.register = "none", !.pastBound = FALSE, !.confirmedAt = {}]

\* When the platform last confirmed the registers.
Confirmed(c) == IF c.pastBound THEN c.confirmedAt ELSE c.refreshedAt

\* A pass-only garage keeps its registers past the bound, below the ceiling.
KeepsRegisters(c) ==
  /\ GarageAdmits(c) = "passes"
  /\ c.register # "none"
  /\ Confirmed(c) # {} /\ ~Past(Confirmed(c), OfflineMax)

\* The fault: the settings are wiped with the rest.
Emptied(c) == Empty
\* `clear`: no personal data; the garage's settings stay.
Cleared(c) ==
  LET bare == [c EXCEPT !.rule = "none", !.refreshedAt = {}]
  IN  IF KeepsRegisters(c)
        THEN [bare EXCEPT !.pastBound = TRUE, !.confirmedAt = Confirmed(c)]
        ELSE WithoutRegisters(bare)

\* The fault: the ceiling is not looked at.
NoCeiling(c) == FALSE
\* `_registers_past_ceiling`.
PastCeiling(c) == c.pastBound /\ (c.confirmedAt = {} \/ Past(c.confirmedAt, OfflineMax))

\* A tick begins by enforcing the bound (`expire_if_past_bound`).
Wake ==
  /\ refresh \in {"asleep", "started"}
  /\ \/ /\ PastCeiling(cache)
        /\ refresh' = "wiped"
        /\ cache' = WithoutRegisters(cache) /\ covered' = FALSE
     \/ /\ ~PastCeiling(cache) /\ Past(cache.refreshedAt, MaxAge)
        /\ refresh' = "cleared"
        /\ cache' = Cleared(cache) /\ UNCHANGED covered
     \/ /\ ~PastCeiling(cache) /\ ~Past(cache.refreshedAt, MaxAge)
        /\ refresh' = "due"
        /\ UNCHANGED <<cache, covered>>
  /\ UNCHANGED <<now, file, payload, history>>

\* `clear` empties the index with the registers, last.
ClearIndex ==
  /\ refresh = "cleared"
  /\ refresh' = "emptied"
  /\ covered' = (covered /\ cache.pastBound)
  /\ UNCHANGED <<now, cache, file, payload, history>>

\* And the file: the row goes, and what is left is written back.
DropRow ==
  /\ refresh = "emptied"
  /\ refresh' = "dropped"
  /\ file' = {}
  /\ UNCHANGED <<now, cache, covered, payload, history>>

\* The platform is not reached, or nothing is due.
Unanswered ==
  /\ refresh = "due"
  /\ refresh' = "asleep"
  /\ UNCHANGED <<now, cache, covered, file, payload, history>>

\* The platform refuses this lane outright: its registers go.
LaneRefused ==
  /\ refresh = "due"
  /\ refresh' = "refused"
  /\ cache' = WithoutRegisters(cache) /\ covered' = FALSE
  /\ UNCHANGED <<now, file, payload, history>>

\* The stays' read, which carries the lane's closing (`apply_lane`).
ClosingRead(closing) ==
  /\ refresh = "due"
  /\ refresh' = "closing"
  /\ cache' = [cache EXCEPT !.closed = closing]
  /\ told' = [told EXCEPT !.closed = closing]
  /\ UNCHANGED <<now, covered, file, payload, answeredAt, hurt, restarts>>

\* The fault: registers kept past the bound are kept on.
KeptOn(c) == c
\* The platform answers again: registers kept past the bound are forgotten.
Forgotten(c) == IF c.pastBound THEN WithoutRegisters(c) ELSE c

\* The rules' read is answered, and loaded field by field (`load_payload`).
Answered(p) ==
  /\ refresh = "due"
  /\ refresh' = "answered"
  /\ payload' = {p}
  /\ answeredAt' = {now}
  /\ cache' = Forgotten(cache)
  /\ UNCHANGED <<now, covered, file, told, hurt, restarts>>

Load(step, next, c) ==
  /\ refresh = step
  /\ refresh' = next
  /\ cache' = c
  /\ UNCHANGED <<now, covered, file, payload, history>>

LoadRule(p)      == Load("answered", "rules", [cache EXCEPT !.rule = p.rule])
LoadDefault(p)   == Load("rules", "default", [cache EXCEPT !.default = p.default, !.refreshedAt = {now}])
LoadTransient(p) == Load("stored", "transient", [cache EXCEPT !.transient = p.transient])

\* A module the platform could not read keeps the register held.
LoadRegister(p) ==
  Load("transient", "register",
       IF p.register = "unavailable" THEN cache ELSE [cache EXCEPT !.register = p.register])

LoadIndex(p) ==
  /\ refresh = "register"
  /\ refresh' = "index"
  /\ covered' = (cache.register = "covers")
  /\ UNCHANGED <<now, cache, file, payload, history>>

\* A closing the answer does not carry is the one the cache holds.
LoadClosing(p) ==
  Load("index", "loaded", IF p.closed = "unsaid" THEN cache ELSE [cache EXCEPT !.closed = p.closed])

LoadField(p) ==
  \/ LoadRule(p) \/ LoadDefault(p) \/ LoadTransient(p) \/ LoadRegister(p) \/ LoadIndex(p)
  \/ LoadClosing(p)

\* Where the thread writes the cache to its file (`_persist`), and where it goes on.
WriteSteps == [wiped |-> "due", dropped |-> "due", refused |-> "asleep", closing |-> "asleep",
               default |-> "stored", loaded |-> "asleep"]

\* The settings and the rule an answer leaves the lane with.
Told(p) ==
  [Empty EXCEPT !.rule = p.rule, !.default = p.default, !.transient = p.transient,
                !.closed = IF p.closed = "unsaid" THEN told.closed ELSE p.closed]

WriteFile ==
  /\ refresh \in DOMAIN WriteSteps
  /\ refresh' = WriteSteps[refresh]
  /\ file' = {cache}
  /\ IF refresh = "loaded"
       THEN /\ payload' = {}
            /\ \E p \in payload :
                 /\ told' = Told(p)
                 /\ hurt' = IF p.closed = "unsaid" THEN hurt ELSE {}
       ELSE UNCHANGED <<told, payload, hurt>>
  /\ UNCHANGED <<now, cache, covered, answeredAt, restarts>>

\* The file cannot be written: a read's turn is over, half loaded as it may
\* be; a wipe's raise is the tick's, which nothing guards.
FileRaises ==
  /\ StoreRaises
  /\ refresh \in DOMAIN WriteSteps \cup {"emptied"}
  /\ refresh' = IF refresh \in {"wiped", "emptied", "dropped"} THEN "dead" ELSE "asleep"
  /\ payload' = {}
  /\ hurt' = hurt \cup {"disk"}
  /\ UNCHANGED <<now, cache, covered, file, told, answeredAt, restarts>>

\* The waits between the ticks are long, and the calls in them short.
TimePasses ==
  /\ now < MaxTime
  /\ refresh \in {"asleep", "dead"}
  /\ now' = now + 1
  /\ UNCHANGED <<cache, covered, file, refresh, payload, history>>

------------------------------------------------------------------------------
(* The process stops, at any moment, and starts again from the file. *)

\* `_restore`.
Restored(c) ==
  LET settings == [Empty EXCEPT !.default = c.default, !.transient = c.transient, !.closed = c.closed]
      kept     == [settings EXCEPT !.register = c.register, !.pastBound = TRUE,
                                   !.confirmedAt = Confirmed(c)]
      held     == IF c.pastBound /\ ~PastCeiling(c) THEN kept ELSE settings
  IN  CASE c.refreshedAt = {}             -> held
        [] Past(c.refreshedAt, MaxAge)    -> Cleared(IF GarageAdmits(settings) = "passes" THEN kept ELSE held)
        [] OTHER                          -> c

Quiet == {"asleep", "started", "due"}

Restart ==
  /\ restarts < MaxRestarts
  /\ restarts' = restarts + 1
  /\ refresh' = "started"
  /\ payload' = {}
  /\ cache' = IF file = {} THEN Empty ELSE Restored(CHOOSE c \in file : TRUE)
  /\ covered' = (cache'.register = "covers")
  /\ file' = IF file = {} THEN {} ELSE {cache'}
  /\ hurt' = IF refresh \in Quiet \cup {"dead"} THEN hurt ELSE hurt \cup {"stop"}
  /\ UNCHANGED <<now, told, answeredAt>>

------------------------------------------------------------------------------
RefreshNext ==
  \/ Wake \/ ClearIndex \/ DropRow \/ Unanswered \/ LaneRefused
  \/ \E closing \in LaneReads : ClosingRead(closing)
  \/ \E p \in Payloads : Answered(p)
  \/ \E p \in payload : LoadField(p)
  \/ WriteFile \/ FileRaises

Next == RefreshNext \/ TimePasses \/ Restart

Spec == Init /\ [][Next]_vars

------------------------------------------------------------------------------
(* Properties *)

\* Every field holds what the code keeps in it, and registers kept past the
\* bound are kept in a cache that has no rules.
TypeOK ==
  /\ now \in 0..MaxTime
  /\ cache \in Caches
  /\ covered \in BOOLEAN
  /\ file \subseteq Caches /\ Cardinality(file) <= 1
  /\ refresh \in Steps
  /\ payload \subseteq Payloads /\ Cardinality(payload) <= 1
  /\ told \in Caches
  /\ answeredAt \in Times
  /\ hurt \subseteq {"stop", "disk"}
  /\ restarts \in 0..MaxRestarts
  /\ cache.pastBound => cache.refreshedAt = {} /\ cache.rule = "none"

\* What a cache may hold once the bound has been enforced.
HeldWithin(c) ==
  /\ c.rule # "none" => ~Past(answeredAt, MaxAge)
  /\ c.register # "none" =>
       \/ ~Past(answeredAt, MaxAge)
       \/ GarageAdmits(c) = "passes" /\ ~Past(answeredAt, OfflineMax)

\* Once a tick has enforced the bound, and from the start of a process, neither
\* memory, its index nor the file holds a rule or a register of an answer past
\* its age -- but a pass-only garage's registers, below the ceiling -- wherever
\* the process stopped before.  (A file that could not be written is excepted.)
RetentionBound ==
  refresh \in {"started", "due"} /\ "disk" \notin hurt =>
    /\ \A c \in file \cup {cache} : HeldWithin(c)
    /\ covered => cache.register = "covers"

\* The garage's settings and the lane's closing are what the platform last
\* said, whatever was wiped since and however often the process started again
\* -- unless it stopped, or its disk failed, in the middle of a load or wipe.
SettingsOutlive ==
  refresh \in Quiet /\ hurt = {} =>
    /\ cache.default = told.default
    /\ cache.transient = told.transient
    /\ cache.closed = told.closed

\* A plate the platform last said is denied, read at any confidence, opens the
\* entry only where the bound has wiped the rule -- it is not in the cache, and
\* is past its age: never while the rule is held, however old it is, never for
\* a restart, on a pass or at a garage that has not said what it takes.
DenyReaches ==
  refresh \in Quiet /\ hurt = {} /\ told.rule = "deny" =>
    \A read \in {"unsure", "plate"} :
      Opens("entry", read) => cache.rule = "none" /\ Past(answeredAt, MaxAge)

\* A plate the lane does not stand behind opens nothing that no plate at all
\* would not: whatever the cache holds, even half loaded, it is matched to
\* nobody's rule or register.
UnsureIsUnread ==
  \A direction \in Directions : Opens(direction, "unsure") => Opens(direction, "no plate")

\* Past the age of the last answer, whether the tick has come round yet or not
\* and wherever a load stopped, no rule and no default opens: only a register
\* does, or a garage that takes every car, and at an exit nothing.
StaleOpensNothing ==
  Past(answeredAt, MaxAge) =>
    \A direction \in Directions :
      Opens(direction, "plate") =>
        direction = "entry" /\ (covered \/ GarageAdmits(cache) = "transients")

\* No exception ends the refresh thread: what a turn raises is logged, and the
\* loop goes round again, as the runner's docstring says.  The code does not
\* keep it: CacheThread.cfg shows how (README, section 4).
RefreshThreadLives == refresh # "dead"
==============================================================================
