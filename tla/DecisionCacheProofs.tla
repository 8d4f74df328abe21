-------------------------- MODULE DecisionCacheProofs --------------------------
(***************************************************************************)
(* Proofs about DecisionCache, for any answers of the platform, ages,      *)
(* clock and number of restarts, and a file that may or may not raise.     *)
(* The inductive invariant is stated in parts: what holds of the cache and *)
(* of its file alike (Sound), how far a load has come (LoadInv), what a    *)
(* tick that has enforced the bound may hold (HeldInv), when the index and *)
(* the file say what the cache says (SameInv), and how much of the cache   *)
(* is what the platform last said (ToldInv).                               *)
(***************************************************************************)
EXTENDS DecisionCache, FiniteSetTheorems, TLAPS

\* No age is later than the platform's last answer; registers kept past the
\* bound are a pass-only garage's, of a known age, with no rules beside them.
Sound(c) ==
  /\ \A t \in c.refreshedAt \cup c.confirmedAt : t <= now /\ \A s \in answeredAt : t <= s
  /\ c.pastBound =>
       /\ GarageAdmits(c) = "passes"
       /\ c.refreshedAt = {} /\ c.confirmedAt # {} /\ c.rule = "none"
  /\ c.register # "none" => c.refreshedAt # {} \/ c.pastBound

Dated     == {"default", "stored", "transient", "register", "index", "loaded"}
Loading   == {"answered", "rules"} \cup Dated
Enforced  == {"started", "due", "wiped", "cleared", "emptied", "dropped"}
Settled   == {"asleep", "started", "due"}
Unindexed == {"answered", "rules", "default", "stored", "transient", "register", "cleared", "dead"}

SoundInv ==
  /\ \A s \in answeredAt : s <= now
  /\ \A c \in file \cup {cache} : Sound(c)
  /\ \A c \in file : c.rule # "none" => c.refreshedAt # {}

LoadInv ==
  /\ refresh \in Loading => ~cache.pastBound
  /\ refresh \in {"answered", "rules"} => answeredAt = {now}
  /\ refresh \in Dated => cache.refreshedAt # {}
  /\ refresh # "rules" => (cache.rule # "none" => cache.refreshedAt # {})
  /\ refresh \in {"index", "loaded"} => (covered => cache.register = "covers")

HeldInv == refresh \in Enforced => HeldWithin(cache)

SameInv ==
  "disk" \notin hurt =>
    /\ refresh \in Settled => file \subseteq {cache}
    /\ refresh \notin Unindexed \/ (refresh = "cleared" /\ cache.pastBound) =>
         (covered => cache.register = "covers")

Inv == TypeOK /\ SoundInv /\ LoadInv /\ HeldInv /\ SameInv

------------------------------------------------------------------------------
(* The operators. *)

\* What a garage takes is told by its default and its transients alone.
LEMMA AdmitsBySettings ==
  ASSUME NEW c, NEW d, c.default = d.default, c.transient = d.transient
  PROVE  GarageAdmits(c) = GarageAdmits(d)
BY DEF GarageAdmits

LEMMA NoTime == {} \in Times
BY DEF Times

LEMMA NowIsTime == ASSUME TypeOK PROVE {now} \in Times
BY DEF TypeOK, Times

\* The helpers that wipe yield caches.
LEMMA WipesAreCaches ==
  ASSUME CacheAssumption, NEW c \in Caches
  PROVE  /\ WithoutRegisters(c) \in Caches
         /\ Confirmed(c) \in Times
         /\ Cleared(c) \in Caches
         /\ Forgotten(c) \in Caches
         /\ Empty \in Caches
<1>1. {} \in Times
  BY NoTime
<1>2. WithoutRegisters(c) \in Caches /\ Confirmed(c) \in Times /\ Empty \in Caches
  BY <1>1 DEF WithoutRegisters, Confirmed, Empty, Caches, Rules, Defaults, Transients, Registers, Closings
<1>3. Cleared(c) \in Caches
  BY <1>1, <1>2 DEF Cleared, WithoutRegisters, Caches, Rules
<1>4. Forgotten(c) \in Caches
  BY <1>2 DEF Forgotten
<1> QED BY <1>2, <1>3, <1>4

\* The order of two instants, and what is past.
LEMMA PastOrder ==
  ASSUME TypeOK, CacheAssumption, NEW c \in Caches, NEW age \in Nat,
         \A t \in c.refreshedAt \cup c.confirmedAt : \A s \in answeredAt : t <= s
  PROVE  /\ c.refreshedAt # {} /\ ~Past(c.refreshedAt, age) => ~Past(answeredAt, age)
         /\ c.confirmedAt # {} /\ ~Past(c.confirmedAt, age) => ~Past(answeredAt, age)
         /\ Past(answeredAt, age) /\ c.refreshedAt # {} => Past(c.refreshedAt, age)
<1>1. /\ now \in Int /\ age \in Int
      /\ \A t \in c.refreshedAt \cup c.confirmedAt \cup answeredAt : t \in Int
  BY DEF TypeOK, CacheAssumption, Caches, Times
<1>2. \A t \in c.refreshedAt \cup c.confirmedAt, s \in answeredAt :
        now - s > age => now - t > age
  BY <1>1
<1> QED BY <1>2 DEF Past

\* A cache without registers is sound, and holds no register.
LEMMA WipedIsSound ==
  ASSUME NEW c \in Caches, Sound(c)
  PROVE  Sound(WithoutRegisters(c))
<1> DEFINE d == WithoutRegisters(c)
<1>1. d.refreshedAt = c.refreshedAt /\ d.confirmedAt = {} /\ ~d.pastBound /\ d.register = "none"
  BY DEF WithoutRegisters, Caches
<1>2. Sound(d)
  <2> HIDE DEF d
  <2> QED BY <1>1 DEF Sound
<1> QED BY <1>2

\* `clear` leaves a sound cache, that holds what the bound lets it.
LEMMA ClearedIsHeld ==
  ASSUME TypeOK, CacheAssumption, NEW c \in Caches, Sound(c)
  PROVE  Sound(Cleared(c)) /\ HeldWithin(Cleared(c)) /\ Cleared(c).rule = "none"
<1> DEFINE d == Cleared(c)
<1>1. d.rule = "none" /\ d.refreshedAt = {} /\ d.default = c.default /\ d.transient = c.transient
  BY DEF Cleared, WithoutRegisters, Caches
<1>2. CASE KeepsRegisters(c)
  <2>1. d.pastBound /\ d.confirmedAt = Confirmed(c) /\ d.register = c.register
    BY <1>2 DEF Cleared, Caches
  <2>2. Confirmed(c) # {} /\ Confirmed(c) \in {c.refreshedAt, c.confirmedAt}
    BY <1>2 DEF KeepsRegisters, Confirmed
  <2>3. GarageAdmits(d) = "passes"
    BY <1>1, <1>2, AdmitsBySettings DEF KeepsRegisters
  <2>4. ~Past(answeredAt, OfflineMax)
    <3>1. ~Past(Confirmed(c), OfflineMax)
      BY <1>2 DEF KeepsRegisters
    <3>2. OfflineMax \in Nat
      BY DEF CacheAssumption
    <3> QED BY <2>2, <3>1, <3>2, PastOrder DEF Sound
  <2>5. Sound(d)
    <3> HIDE DEF d
    <3> QED BY <1>1, <2>1, <2>2, <2>3 DEF Sound
  <2>6. HeldWithin(d)
    <3> HIDE DEF d
    <3> QED BY <1>1, <2>3, <2>4 DEF HeldWithin
  <2> QED BY <1>1, <2>5, <2>6
<1>3. CASE ~KeepsRegisters(c)
  <2>1. ~d.pastBound /\ d.confirmedAt = {} /\ d.register = "none"
    BY <1>3 DEF Cleared, WithoutRegisters, Caches
  <2> HIDE DEF d
  <2>2. Sound(d) /\ HeldWithin(d) /\ d.rule = "none"
    BY <1>1, <2>1 DEF Sound, HeldWithin
  <2> QED BY <2>2 DEF d
<1> QED BY <1>2, <1>3

\* What a tick lets be is held within its age.
LEMMA KeptIsHeld ==
  ASSUME TypeOK, CacheAssumption, NEW c \in Caches, Sound(c),
         c.rule # "none" => c.refreshedAt # {},
         ~PastCeiling(c), ~Past(c.refreshedAt, MaxAge)
  PROVE  HeldWithin(c)
<1>1. MaxAge \in Nat /\ OfflineMax \in Nat
  BY DEF CacheAssumption
<1>2. c.refreshedAt # {} => ~Past(answeredAt, MaxAge)
  BY <1>1, PastOrder DEF Sound
<1>3. c.pastBound => GarageAdmits(c) = "passes" /\ ~Past(answeredAt, OfflineMax)
  BY <1>1, PastOrder DEF Sound, PastCeiling
<1> QED BY <1>2, <1>3 DEF Sound, HeldWithin

\* A cache restored from a sound file is sound, and within its bound.
LEMMA RestoredIsHeld ==
  ASSUME TypeOK, CacheAssumption, NEW c \in Caches, Sound(c), c.rule # "none" => c.refreshedAt # {}
  PROVE  /\ Restored(c) \in Caches /\ Sound(Restored(c)) /\ HeldWithin(Restored(c))
         /\ Restored(c).rule # "none" => Restored(c).refreshedAt # {}
<1> DEFINE settings == [Empty EXCEPT !.default = c.default, !.transient = c.transient, !.closed = c.closed]
           kept     == [settings EXCEPT !.register = c.register, !.pastBound = TRUE,
                                        !.confirmedAt = Confirmed(c)]
           held     == IF c.pastBound /\ ~PastCeiling(c) THEN kept ELSE settings
<1>1. Confirmed(c) \in Times /\ Empty \in Caches
  BY WipesAreCaches
<1>2. settings \in Caches /\ kept \in Caches
  BY <1>1 DEF Caches
<1>3. /\ settings.rule = "none" /\ settings.refreshedAt = {} /\ settings.confirmedAt = {}
      /\ settings.register = "none" /\ ~settings.pastBound
      /\ settings.default = c.default /\ settings.transient = c.transient
  BY DEF Empty
<1>4. /\ kept.rule = "none" /\ kept.refreshedAt = {} /\ kept.confirmedAt = Confirmed(c)
      /\ kept.register = c.register /\ kept.pastBound
      /\ kept.default = c.default /\ kept.transient = c.transient
  BY DEF Empty
<1> HIDE DEF settings, kept
<1>5. Sound(settings)
  BY <1>3 DEF Sound
<1>6. Confirmed(c) # {} /\ GarageAdmits(settings) = "passes" => Sound(kept)
  <2>1. GarageAdmits(settings) = GarageAdmits(kept)
    BY <1>3, <1>4, AdmitsBySettings
  <2>2. Confirmed(c) \in {c.refreshedAt, c.confirmedAt}
    BY DEF Confirmed
  <2> QED BY <1>4, <2>1, <2>2 DEF Sound
<1>7. c.pastBound => Confirmed(c) # {} /\ GarageAdmits(settings) = "passes"
  BY <1>3, AdmitsBySettings DEF Sound, Confirmed
<1>8. held \in Caches /\ Sound(held) /\ held.rule = "none"
  BY <1>2, <1>3, <1>4, <1>5, <1>6, <1>7
<1>9. c.refreshedAt = {} => HeldWithin(held)
  <2>1. CASE c.pastBound /\ ~PastCeiling(c)
    <3>1. ~PastCeiling(kept)
      BY <1>4, <2>1 DEF PastCeiling, Confirmed
    <3>2. ~Past(kept.refreshedAt, MaxAge)
      BY <1>4 DEF Past
    <3>3. HeldWithin(kept)
      BY <1>2, <1>4, <1>6, <1>7, <2>1, <3>1, <3>2, KeptIsHeld
    <3> QED BY <2>1, <3>3
  <2>2. CASE ~(c.pastBound /\ ~PastCeiling(c))
    BY <1>3, <2>2 DEF HeldWithin
  <2> QED BY <2>1, <2>2
<1>10. CASE c.refreshedAt = {}
  <2>1. ~Past(c.refreshedAt, MaxAge)
    BY <1>10 DEF Past
  <2>2. Restored(c) = held
    BY <1>10, <2>1 DEF Restored, settings, kept
  <2> HIDE DEF held
  <2> QED BY <1>8, <1>9, <1>10, <2>2
<1>11. CASE c.refreshedAt # {} /\ Past(c.refreshedAt, MaxAge)
  <2> DEFINE taken == IF GarageAdmits(settings) = "passes" THEN kept ELSE held
  <2>1. Restored(c) = Cleared(taken)
    BY <1>11 DEF Restored, settings, kept
  <2>2. ~c.pastBound /\ Confirmed(c) # {}
    BY <1>11 DEF Sound, Confirmed
  <2>3. taken \in Caches /\ Sound(taken)
    BY <1>2, <1>6, <1>8, <2>2
  <2> HIDE DEF taken
  <2>4. Cleared(taken) \in Caches
    BY <2>3, WipesAreCaches
  <2> QED BY <2>1, <2>3, <2>4, ClearedIsHeld
<1>12. CASE c.refreshedAt # {} /\ ~Past(c.refreshedAt, MaxAge)
  <2>1. Restored(c) = c
    BY <1>12 DEF Restored
  <2>2. ~PastCeiling(c)
    BY <1>12 DEF Sound, PastCeiling
  <2> QED BY <1>12, <2>1, <2>2, KeptIsHeld
<1> QED BY <1>10, <1>11, <1>12

------------------------------------------------------------------------------
(* The invariant. *)

LEMMA InvInit == Init => Inv
<1> SUFFICES ASSUME Init PROVE Inv
  OBVIOUS
<1>1. Empty \in Caches /\ {} \in Times
  BY NoTime DEF Empty, Caches, Rules, Defaults, Transients, Registers, Closings
<1>2. /\ Empty.refreshedAt = {} /\ Empty.confirmedAt = {} /\ ~Empty.pastBound
      /\ Empty.rule = "none" /\ Empty.register = "none"
  BY DEF Empty
<1>3. TypeOK
  <2>1. Cardinality({}) = 0
    BY FS_EmptySet
  <2>2. now \in 0..MaxTime /\ restarts \in 0..MaxRestarts
    BY CacheAssumption DEF CacheAssumption, Init
  <2>3. file \subseteq Caches /\ Cardinality(file) <= 1 /\ payload \subseteq Payloads /\ Cardinality(payload) <= 1
    BY <2>1 DEF Init
  <2>4. cache \in Caches /\ told \in Caches /\ answeredAt \in Times
    BY <1>1 DEF Init
  <2>5. covered \in BOOLEAN /\ refresh \in Steps /\ hurt \subseteq {"stop", "disk"}
    BY DEF Init, Steps
  <2>6. cache.pastBound => cache.refreshedAt = {} /\ cache.rule = "none"
    BY <1>2 DEF Init
  <2> QED BY <2>2, <2>3, <2>4, <2>5, <2>6 DEF TypeOK
<1>4. SoundInv
  BY <1>2 DEF Init, SoundInv, Sound
<1>5. LoadInv /\ HeldInv /\ SameInv
  BY <1>2 DEF Init, LoadInv, HeldInv, HeldWithin, SameInv, Loading, Dated, Enforced, Settled, Unindexed
<1> QED BY <1>3, <1>4, <1>5 DEF Inv

\* The clock and the platform's last answer do not move.
Still == UNCHANGED <<now, answeredAt>>

\* A tick enforces the bound: it leaves a cache within it, or wipes it.
LEMMA InvWake == Inv /\ Wake => Inv'
<1> SUFFICES ASSUME Inv, Wake PROVE Inv'
  OBVIOUS
<1>1. Still /\ cache \in Caches /\ Sound(cache) /\ UNCHANGED <<file, payload, history>>
  BY DEF Inv, TypeOK, SoundInv, Wake, Still, vars, history
<1>2. cache.rule # "none" => cache.refreshedAt # {}
  BY DEF Inv, LoadInv, Wake
<1>3. CASE PastCeiling(cache) /\ refresh' = "wiped" /\ cache' = WithoutRegisters(cache) /\ covered' = FALSE
  <2>1. cache' \in Caches /\ Sound(cache')
    BY <1>1, <1>3, WipesAreCaches, WipedIsSound, CacheAssumption
  <2>2. ~cache'.pastBound /\ cache'.register = "none" /\ cache'.rule = "none" /\ cache'.refreshedAt = {}
    BY <1>1, <1>3 DEF WithoutRegisters, Caches, PastCeiling, Sound
  <2>3. TypeOK'
    BY <1>1, <1>3, <2>1, <2>2 DEF Inv, TypeOK, Still, history, Steps
  <2>4. SoundInv'
    BY <1>1, <2>1 DEF Inv, SoundInv, Still, Sound
  <2>5. LoadInv' /\ HeldInv' /\ SameInv'
    BY <1>3, <2>2 DEF LoadInv, HeldInv, HeldWithin, SameInv, Loading, Dated, Settled, Unindexed
  <2> QED BY <2>3, <2>4, <2>5 DEF Inv
<1>4. CASE ~PastCeiling(cache) /\ refresh' = "cleared" /\ cache' = Cleared(cache) /\ UNCHANGED covered
  <2>1. cache' \in Caches /\ Sound(cache') /\ HeldWithin(cache') /\ cache'.rule = "none"
    BY <1>1, <1>4, WipesAreCaches, ClearedIsHeld, CacheAssumption DEF Inv
  <2>2. cache'.pastBound => cache'.register = cache.register /\ cache'.refreshedAt = {}
    BY <1>1, <1>4 DEF Cleared, WithoutRegisters, Caches
  <2>3. "disk" \notin hurt => (covered => cache.register = "covers")
    BY DEF Inv, SameInv, Wake, Unindexed
  <2>4. TypeOK'
    BY <1>1, <1>4, <2>1, <2>2 DEF Inv, TypeOK, Still, history, Steps
  <2>5. SoundInv'
    BY <1>1, <2>1 DEF Inv, SoundInv, Still, Sound
  <2>6. HeldInv'
    BY <1>1, <2>1 DEF Still, HeldInv, HeldWithin, Past
  <2>7. LoadInv' /\ SameInv'
    BY <1>1, <1>4, <2>1, <2>2, <2>3 DEF LoadInv, SameInv, Loading, Dated, Settled, Unindexed, history
  <2> QED BY <2>4, <2>5, <2>6, <2>7 DEF Inv
<1>5. CASE /\ ~PastCeiling(cache) /\ ~Past(cache.refreshedAt, MaxAge)
           /\ refresh' = "due" /\ UNCHANGED <<cache, covered>>
  <2>1. HeldWithin(cache)
    BY <1>1, <1>2, <1>5, KeptIsHeld, CacheAssumption DEF Inv
  <2>2. TypeOK' /\ SoundInv'
    BY <1>1, <1>5 DEF Inv, TypeOK, SoundInv, Sound, Still, history, Steps
  <2>3. HeldInv'
    BY <1>1, <1>5, <2>1 DEF Still, HeldInv, HeldWithin, Past
  <2>4. LoadInv' /\ SameInv'
    BY <1>1, <1>2, <1>5 DEF Inv, LoadInv, SameInv, Wake, Loading, Dated, Settled, Unindexed, history
  <2> QED BY <2>2, <2>3, <2>4 DEF Inv
<1> QED BY <1>3, <1>4, <1>5 DEF Wake

USE DEF Loading, Dated, Enforced, Settled, Unindexed

\* The steps that move the refresh thread, the index or the file alone.
LEMMA InvQuietSteps == Inv /\ (ClearIndex \/ DropRow \/ Unanswered) => Inv'
<1> SUFFICES ASSUME Inv, ClearIndex \/ DropRow \/ Unanswered PROVE Inv'
  OBVIOUS
<1>1. Still /\ UNCHANGED <<cache, payload, history>>
  BY DEF ClearIndex, DropRow, Unanswered, Still, vars, history
<1>2. file' \subseteq file /\ (file' = file \/ file' = {}) /\ refresh' \in Steps /\ covered' \in BOOLEAN
  BY DEF Inv, TypeOK, ClearIndex, DropRow, Unanswered, Steps
<1>3. TypeOK'
  <2>1. Cardinality({}) = 0
    BY FS_EmptySet
  <2> QED BY <1>1, <1>2, <2>1 DEF Inv, TypeOK, Still, history
<1>4. SoundInv'
  BY <1>1, <1>2 DEF Inv, SoundInv, Sound, Still
<1>5. HeldInv'
  BY <1>1 DEF Inv, HeldInv, HeldWithin, Past, Still, ClearIndex, DropRow, Unanswered
<1>6. LoadInv'
  BY <1>1 DEF Inv, LoadInv, ClearIndex, DropRow, Unanswered
<1>7. SameInv'
  <2>1. CASE ClearIndex
    <3>1. covered' => covered /\ cache.pastBound
      BY <2>1, Zenon DEF ClearIndex
    <3> QED BY <1>1, <2>1, <3>1 DEF Inv, SameInv, ClearIndex, history
  <2>2. CASE DropRow \/ Unanswered
    BY <1>1, <2>2 DEF Inv, SameInv, history, DropRow, Unanswered
  <2> QED BY <2>1, <2>2
<1> QED BY <1>3, <1>4, <1>5, <1>6, <1>7 DEF Inv

\* A refused lane's registers go, its settings stay.
LEMMA InvRefused == Inv /\ LaneRefused => Inv'
<1> SUFFICES ASSUME Inv, LaneRefused PROVE Inv'
  OBVIOUS
<1>1. Still /\ cache \in Caches /\ Sound(cache) /\ UNCHANGED <<file, payload, history>>
  BY DEF Inv, TypeOK, SoundInv, LaneRefused, Still, vars, history
<1>2. cache' \in Caches /\ Sound(cache')
  BY <1>1, WipesAreCaches, WipedIsSound, CacheAssumption DEF LaneRefused
<1>3. ~cache'.pastBound /\ cache'.rule = cache.rule /\ cache'.refreshedAt = cache.refreshedAt
  BY <1>1 DEF LaneRefused, WithoutRegisters, Caches
<1>4. TypeOK'
  BY <1>1, <1>2, <1>3 DEF Inv, TypeOK, Still, history, Steps, LaneRefused
<1>5. SoundInv'
  BY <1>1, <1>2 DEF Inv, SoundInv, Still, Sound
<1>6. LoadInv' /\ HeldInv' /\ SameInv'
  BY <1>1, <1>3 DEF Inv, LoadInv, HeldInv, SameInv, LaneRefused
<1> QED BY <1>4, <1>5, <1>6 DEF Inv

\* The fast read changes the closing alone.
LEMMA InvClosing == Inv /\ (\E closing \in LaneReads : ClosingRead(closing)) => Inv'
<1> SUFFICES ASSUME Inv, NEW closing \in LaneReads, ClosingRead(closing) PROVE Inv'
  OBVIOUS
<1>1. Still /\ cache \in Caches /\ told \in Caches /\ closing \in Closings /\ file' = file
  BY CacheAssumption DEF Inv, TypeOK, ClosingRead, Still, vars, CacheAssumption
<1>2. cache' \in Caches /\ told' \in Caches
  BY <1>1 DEF ClosingRead, Caches
<1>3. /\ cache'.rule = cache.rule /\ cache'.refreshedAt = cache.refreshedAt
      /\ cache'.register = cache.register /\ cache'.pastBound = cache.pastBound
      /\ cache'.confirmedAt = cache.confirmedAt
      /\ GarageAdmits(cache') = GarageAdmits(cache)
  <2>1. cache'.default = cache.default /\ cache'.transient = cache.transient
    BY <1>1 DEF ClosingRead, Caches
  <2> QED BY <1>1, <2>1, AdmitsBySettings DEF ClosingRead, Caches
<1>4. TypeOK'
  BY <1>1, <1>2, <1>3 DEF Inv, TypeOK, Still, Steps, ClosingRead
<1>5. SoundInv'
  BY <1>1, <1>3 DEF Inv, SoundInv, Still, Sound
<1>6. LoadInv' /\ HeldInv' /\ SameInv'
  BY <1>1, <1>3 DEF Inv, LoadInv, HeldInv, SameInv, ClosingRead
<1> QED BY <1>4, <1>5, <1>6 DEF Inv

\* An answer begins a load, of a cache with nothing kept past the bound.
LEMMA InvAnswered == Inv /\ (\E p \in Payloads : Answered(p)) => Inv'
<1> SUFFICES ASSUME Inv, NEW p \in Payloads, Answered(p) PROVE Inv'
  OBVIOUS
<1>1. cache \in Caches /\ Sound(cache) /\ UNCHANGED <<now, covered, file, told, hurt, restarts>>
  BY DEF Inv, TypeOK, SoundInv, Answered
<1>2. cache' \in Caches
  BY <1>1, WipesAreCaches, CacheAssumption DEF Answered
<1>3. /\ ~cache'.pastBound /\ cache'.rule = cache.rule /\ cache'.refreshedAt = cache.refreshedAt
      /\ cache'.confirmedAt \subseteq cache.confirmedAt
      /\ cache'.register # "none" => cache'.refreshedAt # {}
  BY <1>1 DEF Answered, Forgotten, WithoutRegisters, Caches, Sound
<1>4. TypeOK'
  <2>1. Cardinality({p}) = 1
    BY FS_Singleton
  <2>2. {now} \in Times
    BY NowIsTime DEF Inv
  <2> QED BY <1>1, <1>2, <1>3, <2>1, <2>2 DEF Inv, TypeOK, Steps, Answered
<1>5. SoundInv'
  <2>1. answeredAt' = {now} /\ now' = now /\ now \in Int
    BY <1>1 DEF Inv, TypeOK, Answered
  <2> QED BY <1>1, <1>3, <2>1 DEF Inv, SoundInv, Sound
<1>6. LoadInv' /\ HeldInv' /\ SameInv'
  BY <1>1, <1>3 DEF Inv, LoadInv, HeldInv, SameInv, Answered
<1> QED BY <1>4, <1>5, <1>6 DEF Inv

\* A field of the answer lands in a cache with nothing kept past the bound.
LEMMA InvLoad == Inv /\ (\E p \in payload : LoadField(p)) => Inv'
<1> SUFFICES ASSUME Inv, NEW p \in payload, LoadField(p) PROVE Inv'
  OBVIOUS
<1>1. /\ cache \in Caches /\ p \in AllPayloads /\ Sound(cache) /\ refresh \in Loading
      /\ ~cache.pastBound /\ (refresh \in Dated => cache.refreshedAt # {})
  BY CacheAssumption
  DEF Inv, TypeOK, SoundInv, LoadInv, LoadField, Load, LoadRule, LoadDefault, LoadTransient,
      LoadRegister, LoadIndex, LoadClosing, CacheAssumption
<1>2. Still /\ UNCHANGED <<file, payload, history>>
  BY DEF LoadField, Load, LoadRule, LoadDefault, LoadTransient, LoadRegister, LoadIndex,
         LoadClosing, Still, history
<1>3. {now} \in Times
  BY NowIsTime DEF Inv
<1>4. /\ cache' \in Caches
      /\ cache'.refreshedAt \in {cache.refreshedAt, {now}} /\ cache'.confirmedAt = cache.confirmedAt
      /\ ~cache'.pastBound
      /\ refresh' \in {"rules", "default", "transient", "register", "index", "loaded"}
      /\ refresh' # "rules" => cache'.refreshedAt # {}
      /\ cache'.register # "none" => cache'.refreshedAt # {}
  <2>1. CASE LoadRule(p)
    BY <1>1, <2>1 DEF LoadRule, Load, Caches, AllPayloads, Sound
  <2>2. CASE LoadDefault(p)
    BY <1>1, <1>3, <2>2 DEF LoadDefault, Load, Caches, AllPayloads
  <2>3. CASE LoadTransient(p)
    BY <1>1, <2>3 DEF LoadTransient, Load, Caches, AllPayloads
  <2>4. CASE LoadRegister(p)
    <3>1. p.register \in {"unavailable", "other", "covers"}
      BY <1>1 DEF AllPayloads
    <3> QED BY <1>1, <2>4, <3>1 DEF LoadRegister, Load, Caches, Registers
  <2>5. CASE LoadIndex(p)
    BY <1>1, <2>5 DEF LoadIndex
  <2>6. CASE LoadClosing(p)
    <3>1. p.closed # "unsaid" => p.closed \in Closings
      BY <1>1 DEF AllPayloads
    <3> QED BY <1>1, <2>6, <3>1 DEF LoadClosing, Load, Caches
  <2> QED BY <2>1, <2>2, <2>3, <2>4, <2>5, <2>6 DEF LoadField
<1>5. /\ covered' \in BOOLEAN
      /\ refresh' = "index" => (covered' => cache'.register = "covers")
      /\ refresh' = "loaded" => (covered' => cache'.register = "covers")
  <2>1. CASE LoadIndex(p)
    BY <2>1 DEF LoadIndex
  <2>2. CASE LoadClosing(p)
    <3>1. UNCHANGED covered /\ cache'.register = cache.register /\ refresh = "index"
      BY <1>1, <2>2 DEF LoadClosing, Load, Caches
    <3> QED BY <2>2, <3>1 DEF Inv, TypeOK, LoadInv
  <2>3. CASE LoadRule(p) \/ LoadDefault(p) \/ LoadTransient(p) \/ LoadRegister(p)
    BY <2>3 DEF Inv, TypeOK, LoadRule, LoadDefault, LoadTransient, LoadRegister, Load
  <2> QED BY <2>1, <2>2, <2>3 DEF LoadField
<1>6. TypeOK'
  BY <1>2, <1>4, <1>5 DEF Inv, TypeOK, Still, history, Steps
<1>7. SoundInv'
  <2>1. now \in Int /\ \A s \in answeredAt : s <= now
    BY DEF Inv, TypeOK, SoundInv
  <2>2. cache'.refreshedAt = cache.refreshedAt \/ (cache'.refreshedAt = {now} /\ answeredAt = {now})
    <3>1. CASE LoadDefault(p)
      BY <1>1, <3>1 DEF Inv, LoadInv, LoadDefault, Load, Caches
    <3>2. CASE LoadRule(p) \/ LoadTransient(p) \/ LoadRegister(p) \/ LoadIndex(p) \/ LoadClosing(p)
      BY <1>1, <3>2 DEF LoadRule, LoadTransient, LoadRegister, LoadIndex, LoadClosing, Load, Caches
    <3> QED BY <3>1, <3>2 DEF LoadField
  <2>3. Sound(cache')
    BY <1>1, <1>4, <2>1, <2>2 DEF Sound
  <2> QED BY <1>2, <2>3 DEF Inv, SoundInv, Sound, Still
<1>8. LoadInv' /\ HeldInv'
  <2>1. refresh' = "rules" => answeredAt' = {now'}
    BY <1>2 DEF Inv, LoadInv, LoadField, Load, LoadRule, LoadDefault, LoadTransient, LoadRegister,
                LoadIndex, LoadClosing, Still
  <2> QED BY <1>4, <1>5, <2>1 DEF LoadInv, HeldInv
<1>9. SameInv'
  BY <1>2, <1>4, <1>5 DEF Inv, SameInv, history
<1> QED BY <1>6, <1>7, <1>8, <1>9 DEF Inv

\* The file becomes the cache; the last write of a load ends it.
LEMMA InvWrite == Inv /\ WriteFile => Inv'
<1> SUFFICES ASSUME Inv, WriteFile PROVE Inv'
  OBVIOUS
<1>1. /\ refresh \in {"wiped", "dropped", "refused", "closing", "default", "loaded"}
      /\ refresh \in {"wiped", "dropped"} => refresh' = "due"
      /\ refresh = "default" => refresh' = "stored"
      /\ refresh \in {"refused", "closing", "loaded"} => refresh' = "asleep"
  BY DEF WriteFile, WriteSteps
<1>2. Still /\ UNCHANGED <<cache, covered, restarts>> /\ file' = {cache}
  BY DEF WriteFile, Still
<1>3. \/ UNCHANGED <<told, payload, hurt>>
      \/ /\ refresh = "loaded"
         /\ \E p \in payload : payload' = {} /\ told' = Told(p) /\ hurt' \in {hurt, {}}
  BY DEF WriteFile
<1>4. told' \in Caches
  <2>1. ASSUME NEW p \in payload, told' = Told(p)
        PROVE  told' \in Caches
    <3>1. p \in AllPayloads /\ told \in Caches
      BY CacheAssumption DEF Inv, TypeOK, CacheAssumption
    <3>2. Empty \in Caches
      BY NoTime DEF Empty, Caches, Rules, Defaults, Transients, Registers, Closings
    <3> QED BY <2>1, <3>1, <3>2 DEF Told, Caches, AllPayloads
  <2> QED BY <1>3, <2>1 DEF Inv, TypeOK
<1>5. TypeOK'
  <2>1. Cardinality({}) = 0 /\ Cardinality({cache}) = 1
    BY FS_EmptySet, FS_Singleton
  <2>2. payload' \in {payload, {}} /\ hurt' \in {hurt, {}}
    BY <1>3
  <2>3. refresh' \in Steps
    BY <1>1 DEF Steps
  <2> QED BY <1>2, <1>4, <2>1, <2>2, <2>3 DEF Inv, TypeOK, Still
<1>6. SoundInv'
  BY <1>1, <1>2 DEF Inv, SoundInv, Sound, Still, LoadInv
<1>7. LoadInv'
  BY <1>1, <1>2 DEF Inv, LoadInv
<1>8. HeldInv'
  BY <1>1, <1>2 DEF Inv, HeldInv, HeldWithin, Past, Still
<1>9. SameInv'
  <2>1. /\ refresh \in {"wiped", "dropped", "refused", "closing"} /\ "disk" \notin hurt =>
             (covered => cache.register = "covers")
        /\ refresh = "loaded" => (covered => cache.register = "covers")
    BY DEF Inv, LoadInv, SameInv
  <2> QED BY <1>1, <1>2, <1>3, <2>1 DEF SameInv
<1> QED BY <1>5, <1>6, <1>7, <1>8, <1>9 DEF Inv

\* A write that raises leaves the cache as it is, and the file too.
LEMMA InvRaises == Inv /\ FileRaises => Inv'
<1> SUFFICES ASSUME Inv, FileRaises PROVE Inv'
  OBVIOUS
<1>1. /\ Still /\ UNCHANGED <<cache, covered, file, told, restarts>>
      /\ payload' = {} /\ hurt' = hurt \cup {"disk"} /\ refresh' \in {"dead", "asleep"}
  BY DEF FileRaises, Still
<1>2. refresh \in {"wiped", "dropped", "refused", "closing", "default", "loaded", "emptied"}
  BY DEF FileRaises, WriteSteps
<1>3. TypeOK'
  <2>1. Cardinality({}) = 0
    BY FS_EmptySet
  <2> QED BY <1>1, <2>1 DEF Inv, TypeOK, Still, Steps
<1>4. SoundInv'
  BY <1>1 DEF Inv, SoundInv, Sound, Still
<1>5. LoadInv' /\ HeldInv' /\ SameInv'
  BY <1>1, <1>2 DEF Inv, LoadInv, HeldInv, SameInv
<1> QED BY <1>3, <1>4, <1>5 DEF Inv

\* The clock moves between ticks only.
LEMMA InvTime == Inv /\ TimePasses => Inv'
<1> SUFFICES ASSUME Inv, TimePasses PROVE Inv'
  OBVIOUS
<1>1. /\ now' = now + 1 /\ now < MaxTime /\ refresh \in {"asleep", "dead"}
      /\ UNCHANGED <<cache, covered, file, refresh, payload, told, answeredAt, hurt, restarts>>
  BY DEF TimePasses, history
<1>2. now \in Int /\ \A s \in answeredAt : s \in Int
  BY DEF Inv, TypeOK, Times
<1>3. TypeOK'
  <2>1. now' \in 0..MaxTime
    BY <1>1, CacheAssumption DEF Inv, TypeOK, CacheAssumption
  <2> QED BY <1>1, <2>1 DEF Inv, TypeOK
<1>4. SoundInv'
  <2>1. \A s \in answeredAt' : s <= now'
    BY <1>1, <1>2 DEF Inv, SoundInv
  <2>2. ASSUME NEW c \in file \cup {cache}, NEW t \in c.refreshedAt \cup c.confirmedAt
        PROVE  t <= now'
    <3>1. c \in Caches /\ t <= now
      BY DEF Inv, TypeOK, SoundInv, Sound
    <3>2. t \in Int
      BY <3>1 DEF Caches, Times
    <3> QED BY <1>1, <1>2, <3>1, <3>2
  <2> QED BY <1>1, <2>1, <2>2 DEF Inv, SoundInv, Sound
<1>5. LoadInv' /\ HeldInv' /\ SameInv'
  BY <1>1 DEF Inv, LoadInv, HeldInv, SameInv
<1> QED BY <1>3, <1>4, <1>5 DEF Inv

\* A process starts from nothing, or from a sound file: within the bound.
LEMMA InvRestart == Inv /\ Restart => Inv'
<1> SUFFICES ASSUME Inv, Restart PROVE Inv'
  OBVIOUS
<1>1. /\ Still /\ told' = told /\ restarts' = restarts + 1 /\ restarts < MaxRestarts
      /\ refresh' = "started" /\ payload' = {} /\ hurt' \in {hurt, hurt \cup {"stop"}}
      /\ covered' = (cache'.register = "covers")
      /\ file' \subseteq {cache'} /\ file' \in {{}, {cache'}}
  BY DEF Restart, Still
<1>2. /\ cache' \in Caches /\ Sound(cache') /\ HeldWithin(cache')
      /\ cache'.rule # "none" => cache'.refreshedAt # {}
  <2>1. CASE file = {}
    <3>1. Empty \in Caches
      BY NoTime DEF Empty, Caches, Rules, Defaults, Transients, Registers, Closings
    <3>2. Sound(Empty) /\ HeldWithin(Empty) /\ Empty.rule = "none"
      BY DEF Empty, Sound, HeldWithin
    <3> QED BY <2>1, <3>1, <3>2 DEF Restart
  <2>2. CASE file # {}
    <3> DEFINE c == CHOOSE d \in file : TRUE
    <3>1. c \in file
      BY <2>2
    <3>2. cache' = Restored(c)
      BY <2>2 DEF Restart
    <3> HIDE DEF c
    <3>3. c \in Caches /\ Sound(c) /\ (c.rule # "none" => c.refreshedAt # {})
      BY <3>1 DEF Inv, TypeOK, SoundInv
    <3> QED BY <3>2, <3>3, RestoredIsHeld, CacheAssumption DEF Inv
  <2> QED BY <2>1, <2>2
<1>3. cache'.pastBound => cache'.refreshedAt = {} /\ cache'.rule = "none"
  BY <1>2 DEF Sound
<1>4. TypeOK'
  <2>1. Cardinality({}) = 0 /\ Cardinality({cache'}) = 1
    BY FS_EmptySet, FS_Singleton
  <2>2. restarts' \in 0..MaxRestarts
    BY <1>1, CacheAssumption DEF Inv, TypeOK, CacheAssumption
  <2>3. covered' \in BOOLEAN
    BY <1>1
  <2> QED BY <1>1, <1>2, <1>3, <2>1, <2>2, <2>3 DEF Inv, TypeOK, Still, Steps
<1>5. SoundInv'
  BY <1>1, <1>2 DEF Inv, SoundInv, Sound, Still
<1>6. HeldInv'
  BY <1>1, <1>2 DEF HeldInv, HeldWithin, Past, Still
<1>7. LoadInv' /\ SameInv'
  BY <1>1, <1>2 DEF LoadInv, SameInv
<1> QED BY <1>4, <1>5, <1>6, <1>7 DEF Inv

LEMMA InvNext == Inv /\ [Next]_vars => Inv'
<1> SUFFICES ASSUME Inv, [Next]_vars PROVE Inv'
  OBVIOUS
<1>1. CASE Wake
  BY <1>1, InvWake
<1>2. CASE ClearIndex \/ DropRow \/ Unanswered
  BY <1>2, InvQuietSteps
<1>3. CASE LaneRefused
  BY <1>3, InvRefused
<1>4. CASE \E closing \in LaneReads : ClosingRead(closing)
  BY <1>4, InvClosing
<1>5. CASE \E p \in Payloads : Answered(p)
  BY <1>5, InvAnswered
<1>6. CASE \E p \in payload : LoadField(p)
  BY <1>6, InvLoad
<1>7. CASE WriteFile
  BY <1>7, InvWrite
<1>8. CASE FileRaises
  BY <1>8, InvRaises
<1>9. CASE TimePasses
  BY <1>9, InvTime
<1>10. CASE Restart
  BY <1>10, InvRestart
<1>11. CASE UNCHANGED vars
  <2>1. UNCHANGED <<now, cache, covered, file, refresh, payload, told, answeredAt, hurt, restarts>>
    BY <1>11 DEF vars, history
  <2>2. TypeOK' /\ LoadInv'
    BY <2>1 DEF Inv, TypeOK, LoadInv
  <2>3. SoundInv' /\ HeldInv' /\ SameInv'
    BY <2>1 DEF Inv, SoundInv, Sound, HeldInv, HeldWithin, Past, SameInv
  <2> QED BY <2>2, <2>3 DEF Inv
<1> QED BY <1>1, <1>2, <1>3, <1>4, <1>5, <1>6, <1>7, <1>8, <1>9, <1>10, <1>11 DEF Next, RefreshNext

LEMMA InvAlways == Spec => []Inv
<1> QED BY InvInit, InvNext, PTL DEF Spec

------------------------------------------------------------------------------
(* What the platform last said. *)

\* What the cache holds is of the last answer loaded whole; its rule may be
\* gone, past its age.
Agrees ==
  /\ cache.default = told.default /\ cache.transient = told.transient /\ cache.closed = told.closed
  /\ cache.rule = told.rule \/ (cache.rule = "none" /\ Past(answeredAt, MaxAge))
  /\ cache.refreshedAt # {} => cache.refreshedAt = answeredAt

\* As a load goes on, so much of the cache is of the answer being loaded.
LoadedInv ==
  /\ \A p, q \in payload : p = q
  /\ refresh \in Loading => answeredAt = {now}
  /\ refresh \in Dated => cache.refreshedAt = {now}
  /\ \A p \in payload :
       /\ refresh \in Dated \cup {"rules"} => cache.rule = p.rule
       /\ refresh \in Dated => cache.default = p.default
       /\ refresh \in Dated \ {"default", "stored"} => cache.transient = p.transient
       /\ refresh = "loaded" /\ p.closed # "unsaid" => cache.closed = p.closed

\* What holds of a cache nothing was left half done to.
UnhurtInv ==
  hurt = {} =>
    /\ refresh # "dead"
    /\ refresh \notin Loading => Agrees
    /\ refresh \in Loading \ {"loaded"} => cache.closed = told.closed
    /\ refresh = "loaded" => \A p \in payload : p.closed = "unsaid" => cache.closed = told.closed
    /\ refresh \in Settled /\ file = {} =>
         /\ cache.rule = "none" /\ cache.default = "none"
         /\ cache.transient = "unsaid" /\ cache.closed = "open"

ToldInv == LoadedInv /\ UnhurtInv

\* What was wiped from c, or restored from it: the settings stay as they were,
\* and the rule goes only with its age, or past it.
Wiped(d, c) ==
  /\ d.default = c.default /\ d.transient = c.transient /\ d.closed = c.closed
  /\ d.rule = c.rule \/ (d.rule = "none" /\ Past(c.refreshedAt, MaxAge))
  /\ d.refreshedAt \in {c.refreshedAt, {}}

LEMMA WipesKeep ==
  ASSUME NEW c \in Caches
  PROVE  /\ Wiped(WithoutRegisters(c), c) /\ Wiped(Forgotten(c), c)
         /\ Past(c.refreshedAt, MaxAge) => Wiped(Cleared(c), c)
<1>1. Wiped(WithoutRegisters(c), c) /\ Wiped(c, c)
  BY DEF Wiped, WithoutRegisters, Caches
<1>2. Wiped(Forgotten(c), c)
  BY <1>1 DEF Forgotten
<1>3. ASSUME Past(c.refreshedAt, MaxAge) PROVE Wiped(Cleared(c), c)
  BY <1>3 DEF Wiped, Cleared, WithoutRegisters, Caches
<1> QED BY <1>1, <1>2, <1>3

LEMMA ClearedIsBare ==
  ASSUME NEW c \in Caches
  PROVE  /\ Cleared(c).default = c.default /\ Cleared(c).transient = c.transient
         /\ Cleared(c).closed = c.closed /\ Cleared(c).rule = "none" /\ Cleared(c).refreshedAt = {}
BY DEF Cleared, WithoutRegisters, Caches

LEMMA RestoreKeeps ==
  ASSUME CacheAssumption, NEW c \in Caches, c.rule # "none" => c.refreshedAt # {}
  PROVE  Wiped(Restored(c), c)
<1> DEFINE settings == [Empty EXCEPT !.default = c.default, !.transient = c.transient, !.closed = c.closed]
           kept     == [settings EXCEPT !.register = c.register, !.pastBound = TRUE,
                                        !.confirmedAt = Confirmed(c)]
           held     == IF c.pastBound /\ ~PastCeiling(c) THEN kept ELSE settings
<1>1. Confirmed(c) \in Times /\ Empty \in Caches
  BY WipesAreCaches
<1>2. \A d \in {settings, kept, held} :
        /\ d \in Caches /\ d.rule = "none" /\ d.refreshedAt = {}
        /\ d.default = c.default /\ d.transient = c.transient /\ d.closed = c.closed
  <2>1. settings \in Caches /\ kept \in Caches
    BY <1>1 DEF Caches
  <2>2. /\ settings.rule = "none" /\ settings.refreshedAt = {}
        /\ settings.default = c.default /\ settings.transient = c.transient /\ settings.closed = c.closed
    BY DEF Empty
  <2>3. /\ kept.rule = "none" /\ kept.refreshedAt = {}
        /\ kept.default = c.default /\ kept.transient = c.transient /\ kept.closed = c.closed
    BY DEF Empty
  <2> HIDE DEF settings, kept
  <2> QED BY <2>1, <2>2, <2>3
<1>3. CASE c.refreshedAt = {}
  <2>1. ~Past(c.refreshedAt, MaxAge)
    BY <1>3 DEF Past
  <2>2. Restored(c) = held
    BY <1>3, <2>1 DEF Restored
  <2> HIDE DEF held
  <2> QED BY <1>2, <1>3, <2>2 DEF Wiped
<1>4. CASE c.refreshedAt # {} /\ Past(c.refreshedAt, MaxAge)
  <2> DEFINE taken == IF GarageAdmits(settings) = "passes" THEN kept ELSE held
  <2>1. Restored(c) = Cleared(taken)
    BY <1>4 DEF Restored
  <2>2. taken \in {settings, kept, held}
    OBVIOUS
  <2> HIDE DEF taken, settings, kept, held
  <2> QED BY <1>2, <1>4, <2>1, <2>2, ClearedIsBare DEF Wiped
<1>5. CASE c.refreshedAt # {} /\ ~Past(c.refreshedAt, MaxAge)
  BY <1>5 DEF Restored, Wiped
<1> QED BY <1>3, <1>4, <1>5

LEMMA ToldInit == Init => ToldInv
BY DEF Init, ToldInv, LoadedInv, UnhurtInv, Agrees, Empty

\* A step of a tick that loads nothing, and goes on with the cache as it was
\* or wiped.
LEMMA ToldKept ==
  ASSUME Inv, ToldInv, now' = now, answeredAt' = answeredAt, payload' = payload,
         told' = told, hurt' = hurt, refresh \notin Loading, refresh' \notin Loading \cup {"dead"},
         Wiped(cache', cache), refresh' \in Settled => UNCHANGED <<cache, file>> /\ refresh \in Settled
  PROVE  ToldInv'
<1>1. LoadedInv'
  BY DEF ToldInv, LoadedInv
<1>2. hurt = {} => Agrees'
  BY DEF ToldInv, UnhurtInv, Agrees, Wiped, Past
<1>3. UnhurtInv'
  BY <1>2 DEF ToldInv, UnhurtInv
<1> QED BY <1>1, <1>3 DEF ToldInv

LEMMA ToldTick ==
  ASSUME Inv, ToldInv, Wake \/ ClearIndex \/ DropRow \/ Unanswered \/ LaneRefused
  PROVE  ToldInv'
<1>1. cache \in Caches /\ UNCHANGED <<now, payload, told, answeredAt, hurt>>
  BY DEF Inv, TypeOK, Wake, ClearIndex, DropRow, Unanswered, LaneRefused, history
<1>2. Wiped(cache, cache)
  BY DEF Wiped
<1>3. CASE Wake
  <2>1. Wiped(cache', cache)
    BY <1>1, <1>2, <1>3, WipesKeep DEF Wake
  <2>2. /\ refresh \in Settled /\ refresh' \in {"wiped", "cleared", "due"}
        /\ refresh' = "due" => UNCHANGED <<cache, file>>
    BY <1>3 DEF Wake
  <2> QED BY <1>1, <2>1, <2>2, ToldKept
<1>4. CASE ClearIndex \/ DropRow
  <2>1. cache' = cache /\ refresh \in {"cleared", "emptied"} /\ refresh' \in {"emptied", "dropped"}
    BY <1>4 DEF ClearIndex, DropRow
  <2> QED BY <1>1, <1>2, <2>1, ToldKept
<1>5. CASE Unanswered
  <2>1. UNCHANGED <<cache, file>> /\ refresh = "due" /\ refresh' = "asleep"
    BY <1>5 DEF Unanswered
  <2> QED BY <1>1, <1>2, <2>1, ToldKept
<1>6. CASE LaneRefused
  <2>1. cache' = WithoutRegisters(cache) /\ refresh = "due" /\ refresh' = "refused"
    BY <1>6 DEF LaneRefused
  <2> QED BY <1>1, <2>1, WipesKeep, ToldKept
<1> QED BY <1>3, <1>4, <1>5, <1>6

LEMMA ToldRead ==
  ASSUME Inv, ToldInv,
         (\E closing \in LaneReads : ClosingRead(closing)) \/ (\E p \in Payloads : Answered(p))
  PROVE  ToldInv'
<1>1. CASE \E closing \in LaneReads : ClosingRead(closing)
  <2>1. PICK closing \in LaneReads : ClosingRead(closing)
    BY <1>1
  <2>2. /\ UNCHANGED <<now, file, payload, answeredAt, hurt>> /\ refresh = "due" /\ refresh' = "closing"
        /\ cache' = [cache EXCEPT !.closed = closing] /\ told' = [told EXCEPT !.closed = closing]
        /\ cache \in Caches /\ told \in Caches
    BY <2>1 DEF ClosingRead, Inv, TypeOK
  <2>3. hurt = {} => Agrees'
    BY <2>2 DEF ToldInv, UnhurtInv, Agrees, Past, Caches
  <2>4. LoadedInv' /\ UnhurtInv'
    BY <2>2, <2>3 DEF ToldInv, LoadedInv, UnhurtInv
  <2> QED BY <2>4 DEF ToldInv
<1>2. CASE \E p \in Payloads : Answered(p)
  <2>1. PICK p \in Payloads : Answered(p)
    BY <1>2
  <2>2. /\ UNCHANGED <<now, file, told, hurt>> /\ refresh = "due" /\ refresh' = "answered"
        /\ payload' = {p} /\ answeredAt' = {now} /\ Wiped(cache', cache)
    BY <2>1, WipesKeep DEF Answered, Inv, TypeOK
  <2> QED BY <2>2 DEF ToldInv, LoadedInv, UnhurtInv, Agrees, Wiped
<1> QED BY <1>1, <1>2

LEMMA ToldLoad ==
  ASSUME Inv, ToldInv, \E p \in payload : LoadField(p)
  PROVE  ToldInv'
<1>1. PICK p \in payload : LoadField(p)
  OBVIOUS
<1>2. /\ cache \in Caches /\ payload = {p} /\ UNCHANGED <<now, file, payload, told, answeredAt, hurt>>
  BY <1>1 DEF Inv, TypeOK, ToldInv, LoadedInv, LoadField, LoadRule, LoadDefault, LoadTransient,
              LoadRegister, LoadIndex, LoadClosing, Load, history
<1> USE DEF ToldInv, LoadedInv, UnhurtInv, Caches
<1>3. CASE LoadRule(p)
  BY <1>2, <1>3 DEF LoadRule, Load
<1>4. CASE LoadDefault(p)
  BY <1>2, <1>4 DEF LoadDefault, Load
<1>5. CASE LoadTransient(p)
  BY <1>2, <1>5 DEF LoadTransient, Load
<1>6. CASE LoadRegister(p)
  BY <1>2, <1>6 DEF LoadRegister, Load
<1>7. CASE LoadIndex(p)
  BY <1>2, <1>7 DEF LoadIndex
<1>8. CASE LoadClosing(p)
  BY <1>2, <1>8 DEF LoadClosing, Load
<1> QED BY <1>1, <1>3, <1>4, <1>5, <1>6, <1>7, <1>8 DEF LoadField

LEMMA ToldWrite ==
  ASSUME Inv, ToldInv, WriteFile
  PROVE  ToldInv'
<1>1. UNCHANGED <<now, cache, answeredAt>> /\ file' = {cache}
  BY DEF WriteFile
<1>2. CASE refresh = "loaded"
  <2>1. PICK p \in payload : told' = Told(p) /\ hurt' = IF p.closed = "unsaid" THEN hurt ELSE {}
    BY <1>2 DEF WriteFile
  <2>2. payload' = {} /\ refresh' = "asleep"
    BY <1>2 DEF WriteFile, WriteSteps
  <2>3. /\ told'.rule = p.rule /\ told'.default = p.default /\ told'.transient = p.transient
        /\ told'.closed = IF p.closed = "unsaid" THEN told.closed ELSE p.closed
    BY <2>1 DEF Told, Empty
  <2>4. hurt' = {} => Agrees'
    BY <1>1, <1>2, <2>1, <2>3 DEF ToldInv, LoadedInv, UnhurtInv, Agrees, Past
  <2>5. LoadedInv' /\ UnhurtInv'
    BY <1>1, <2>2, <2>4 DEF LoadedInv, UnhurtInv
  <2> QED BY <2>5 DEF ToldInv
<1>3. CASE refresh # "loaded"
  <2>1. /\ UNCHANGED <<told, payload, hurt>>
        /\ \/ refresh \in {"wiped", "dropped"} /\ refresh' = "due"
           \/ refresh = "default" /\ refresh' = "stored"
           \/ refresh \in {"refused", "closing"} /\ refresh' = "asleep"
    BY <1>3 DEF WriteFile, WriteSteps
  <2> QED BY <1>1, <2>1 DEF ToldInv, LoadedInv, UnhurtInv, Agrees, Past
<1> QED BY <1>2, <1>3

LEMMA ToldRest ==
  ASSUME Inv, ToldInv, FileRaises \/ TimePasses \/ UNCHANGED vars
  PROVE  ToldInv'
<1>1. CASE FileRaises
  BY <1>1 DEF FileRaises, ToldInv, LoadedInv, UnhurtInv
<1>2. CASE TimePasses
  <2>1. /\ now' = now + 1 /\ UNCHANGED <<cache, file, refresh, payload, told, answeredAt, hurt>>
        /\ refresh \in {"asleep", "dead"}
    BY <1>2 DEF TimePasses, history
  <2>2. Past(answeredAt, MaxAge) => Past(answeredAt, MaxAge)'
    <3>1. now \in Nat /\ MaxAge \in Nat /\ answeredAt \subseteq Nat
      BY CacheAssumption DEF Inv, TypeOK, Times, CacheAssumption
    <3> QED BY <2>1, <3>1 DEF Past
  <2> QED BY <2>1, <2>2 DEF ToldInv, LoadedInv, UnhurtInv, Agrees
<1>3. CASE UNCHANGED vars
  BY <1>3 DEF vars, history, ToldInv, LoadedInv, UnhurtInv, Agrees, Past
<1> QED BY <1>1, <1>2, <1>3

LEMMA ToldRestart ==
  ASSUME Inv, ToldInv, Restart
  PROVE  ToldInv'
<1>1. /\ UNCHANGED <<now, told, answeredAt>> /\ refresh' = "started" /\ payload' = {}
      /\ hurt' = {} => hurt = {} /\ refresh \in Settled \cup {"dead"}
      /\ file' = IF file = {} THEN {} ELSE {cache'}
  BY DEF Restart, Quiet
<1>2. LoadedInv'
  BY <1>1 DEF LoadedInv
<1>3. CASE hurt' = {}
  <2>1. hurt = {} /\ refresh \in Settled /\ Agrees
    BY <1>1, <1>3 DEF ToldInv, UnhurtInv, Settled, Loading, Dated
  <2>2. CASE file = {}
    <3>1. cache' = Empty
      BY <2>2 DEF Restart
    <3>2. cache.rule = cache'.rule /\ cache.default = cache'.default
          /\ cache.transient = cache'.transient /\ cache.closed = cache'.closed
          /\ cache'.refreshedAt = {} /\ cache'.rule = "none" /\ cache'.default = "none"
          /\ cache'.transient = "unsaid" /\ cache'.closed = "open"
      BY <2>1, <2>2, <3>1 DEF ToldInv, UnhurtInv, Empty
    <3>3. Agrees'
      BY <1>1, <2>1, <3>2 DEF Agrees, Past
    <3> QED BY <1>1, <1>2, <3>2, <3>3 DEF ToldInv, UnhurtInv, Loading, Dated
  <2>3. CASE file # {}
    <3>1. cache \in Caches /\ file = {cache} /\ (cache.rule # "none" => cache.refreshedAt # {})
      BY <1>1, <1>3, <2>1, <2>3 DEF Inv, TypeOK, SameInv, SoundInv
    <3>2. cache' = Restored(cache)
      BY <3>1 DEF Restart
    <3>3. Wiped(cache', cache)
      BY <3>1, <3>2, RestoreKeeps, CacheAssumption
    <3>4. Agrees'
      BY <1>1, <2>1, <3>3 DEF Agrees, Wiped, Past
    <3> QED BY <1>1, <1>2, <2>3, <3>4 DEF ToldInv, UnhurtInv, Loading, Dated
  <2> QED BY <2>2, <2>3
<1> QED BY <1>2, <1>3 DEF ToldInv, UnhurtInv

LEMMA ToldAlways == Spec => [](Inv /\ ToldInv)
<1>1. Inv /\ ToldInv /\ [Next]_vars => Inv' /\ ToldInv'
  BY InvNext, ToldTick, ToldRead, ToldLoad, ToldWrite, ToldRest, ToldRestart DEF Next, RefreshNext
<1> QED BY <1>1, InvInit, ToldInit, PTL DEF Spec

------------------------------------------------------------------------------
(* The theorems. *)

\* Every variable of the refresh thread and of its cache stays within its type.
THEOREM TypeCorrect == Spec => []TypeOK
<1>1. Inv => TypeOK
  BY DEF Inv
<1> QED BY <1>1, InvAlways, PTL

\* Whatever the platform answers, however the file fails and wherever the
\* process stops: once a tick has enforced the bound nothing is held past it.
THEOREM HeldWithinTheBound == Spec => []RetentionBound
<1>1. Inv => RetentionBound
  <2> SUFFICES ASSUME Inv, refresh \in {"started", "due"}, "disk" \notin hurt
               PROVE  /\ \A c \in file \cup {cache} : HeldWithin(c)
                      /\ covered => cache.register = "covers"
    BY DEF RetentionBound
  <2>1. HeldWithin(cache)
    BY DEF Inv, HeldInv
  <2>2. file \subseteq {cache} /\ (covered => cache.register = "covers")
    BY DEF Inv, SameInv
  <2> QED BY <2>1, <2>2
<1> QED BY <1>1, InvAlways, PTL

\* Past the age of the last answer only a register, or a garage that takes
\* every car, opens, and only at an entry: at every step of a load or a wipe.
THEOREM NothingStaleOpens == Spec => []StaleOpensNothing
<1>1. Inv => StaleOpensNothing
  <2> SUFFICES ASSUME Inv, Past(answeredAt, MaxAge), NEW direction \in Directions,
                      Opens(direction, "plate")
               PROVE  direction = "entry" /\ (covered \/ GarageAdmits(cache) = "transients")
    BY DEF StaleOpensNothing
  <2>1. IsStale
    <3>1. cache \in Caches /\ Sound(cache) /\ MaxAge \in Nat
      BY CacheAssumption DEF Inv, TypeOK, SoundInv, CacheAssumption
    <3> QED BY <3>1, PastOrder, CacheAssumption DEF Inv, Sound, IsStale
  <2>2. DecideUnsaid(direction, "plate").outcome # "allow"
    BY <2>1 DEF DecideUnsaid, Person, Decision
  <2>3. DecidePasses("plate", ClosedTo(direction) = "full").outcome = "allow" => covered
    BY <2>1 DEF DecidePasses, AtFull, RuleApplies, MayScan, Person, Deny, Allow, Decision
  <2> QED BY <2>2, <2>3 DEF Opens, Decide, Person, Deny, Decision, Directions
<1> QED BY <1>1, InvAlways, PTL

\* A plate the lane does not stand behind is matched to nobody's rule or
\* register, whatever the cache holds.
THEOREM UnsureMatchesNobody == Spec => []UnsureIsUnread
<1>1. UnsureIsUnread
  <2> SUFFICES ASSUME NEW direction \in Directions, Opens(direction, "unsure")
               PROVE  Opens(direction, "no plate")
    BY DEF UnsureIsUnread
  <2> DEFINE full == ClosedTo(direction) = "full"
  <2>1. /\ DecideUnsaid(direction, "unsure").outcome # "allow"
        /\ DecidePasses("unsure", full).outcome # "allow"
    BY DEF DecideUnsaid, DecidePasses, MayScan, Person, Decision
  <2>2. ClosedTo(direction) # "everyone" /\ direction = "entry" /\ GarageAdmits(cache) = "transients"
    BY <2>1 DEF Opens, Decide, Person, Deny, Decision
  <2>3. DecideTransients("unsure", full).outcome = "allow"
    BY <2>1, <2>2 DEF Opens, Decide, Person, Deny, Decision
  <2>4. ~full /\ DecideTransients("no plate", full) = Allow
    BY <2>3 DEF DecideTransients, AtFull, RuleApplies, Person, Decision
  <2>5. Decide(direction, "no plate") = DecideTransients("no plate", full)
    BY <2>2 DEF Decide, OwnerDenies
  <2> QED
    <3>1. Decide(direction, "no plate") = Allow
      BY <2>4, <2>5
    <3>2. Allow.outcome = "allow"
      BY DEF Allow, Decision
    <3> QED BY <3>1, <3>2 DEF Opens
<1> QED BY <1>1, PTL

\* The settings and the closing a lane decides by are the platform's last word:
\* no wipe, and no number of restarts, loses them.
THEOREM SettingsStay == Spec => []SettingsOutlive
<1>1. ToldInv => SettingsOutlive
  BY DEF ToldInv, UnhurtInv, Agrees, SettingsOutlive, Quiet, Loading, Dated
<1> QED BY <1>1, ToldAlways, PTL

\* A plate the platform last said is denied does not open the entry, however
\* surely it is read, while its rule is held; and the rule is held until the
\* bound has passed.
THEOREM DenialReaches == Spec => []DenyReaches
<1>1. ToldInv => DenyReaches
  <2> SUFFICES ASSUME ToldInv, refresh \in Quiet, hurt = {}, told.rule = "deny",
                      NEW read \in {"unsure", "plate"}, Opens("entry", read)
               PROVE  cache.rule = "none" /\ Past(answeredAt, MaxAge)
    BY DEF DenyReaches
  <2>1. cache.rule # "deny"
    <3> SUFFICES ASSUME cache.rule = "deny" PROVE FALSE
      OBVIOUS
    <3>1. OwnerDenies(read)
      BY DEF OwnerDenies
    <3> QED BY <3>1 DEF Opens, Decide, Person, Deny, Decision
  <2>2. cache.rule = told.rule \/ (cache.rule = "none" /\ Past(answeredAt, MaxAge))
    BY DEF ToldInv, UnhurtInv, Agrees, Quiet, Loading, Dated
  <2> QED BY <2>1, <2>2
<1> QED BY <1>1, ToldAlways, PTL
==============================================================================
