-------------------------- MODULE SpinRwLockProofs --------------------------
(***************************************************************************)
(* Mutual exclusion of the spinlock, for any number of reader and writer   *)
(* threads.  MutualExclusion alone is not inductive: what keeps an         *)
(* exchange that starts from a stale s harmless is that state counts the   *)
(* guards exactly, so the two are proved together.                         *)
(***************************************************************************)
EXTENDS SpinRwLock, FiniteSetTheorems, TLAPS

LockInv == TypeOK /\ StateCountsGuards /\ MutualExclusion

(* The read guards are a finite set, no larger than the set of threads.    *)
LEMMA ReadingFinite ==
  /\ IsFiniteSet(Reading)
  /\ Cardinality(Reading) \in Nat
  /\ 2 * Cardinality(Reading) + 1 < UsizeMax
<1>1. Reading \in SUBSET Threads
  BY DEF Reading
<1>2. IsFiniteSet(Reading) /\ Cardinality(Reading) <= Cardinality(Threads)
  BY <1>1, FS_Subset, ThreadsAssumption
<1>3. Cardinality(Reading) \in Nat /\ Cardinality(Threads) \in Nat
  BY <1>2, FS_CardinalityType, ThreadsAssumption
<1> QED
  BY <1>2, <1>3, ThreadsAssumption

(* Thread t enters or leaves the set of read guards.                       *)
LEMMA ReadingChanges ==
  ASSUME TypeOK, NEW t \in Threads, NEW l \in PCs, Goto(t, l)
  PROVE  /\ l = "reading" => Reading' = Reading \cup {t}
         /\ l # "reading" => Reading' = Reading \ {t}
         /\ l = "writing" => Writing' = Writing \cup {t}
         /\ l # "writing" => Writing' = Writing \ {t}
BY DEF TypeOK, Goto, Reading, Writing

(* The initial state has no guard and a zero count.                        *)
LEMMA LockInit ==
  Init => LockInv
<1> SUFFICES ASSUME Init PROVE LockInv
  OBVIOUS
<1>1. Reading = {} /\ Writing = {}
  BY DEF Init, Reading, Writing
<1>2. TypeOK
  BY ThreadsAssumption DEF Init, TypeOK, PCs
<1>3. 0 # UsizeMax /\ Cardinality({}) = 0
  BY ThreadsAssumption, FS_EmptySet
<1> QED
  BY <1>1, <1>2, <1>3 DEF Init, LockInv, StateCountsGuards, MutualExclusion

(* A step that neither changes state nor moves a guard keeps the invariant.*)
LEMMA QuietStep ==
  ASSUME StateCountsGuards, MutualExclusion,
         state' = state, Reading' = Reading, Writing' = Writing
  PROVE  StateCountsGuards' /\ MutualExclusion'
BY DEF StateCountsGuards, MutualExclusion

(* Every step keeps the types: sums stay below usize::MAX because the      *)
(* count of guards does.                                                   *)
LEMMA TypePreserved ==
  ASSUME LockInv, NEW t \in Threads, Step(t)
  PROVE  TypeOK'
<1> USE DEF LockInv
<1>1. state \in Nat /\ UsizeMax \in Nat /\ WakeMod \in Nat \ {0, 1} /\ writer_wake_counter \in Nat
  BY ThreadsAssumption DEF TypeOK
<1>2. ASSUME NEW l \in PCs, Goto(t, l) PROVE pc' \in [Threads -> PCs]
  BY <1>2 DEF TypeOK, Goto
<1>3. ASSUME s' = [s EXCEPT ![t] = state] PROVE s' \in [Threads -> 0 .. UsizeMax]
  BY <1>3 DEF TypeOK
<1>4. ASSUME state = s[t], state < UsizeMax, Even(s[t]) PROVE s[t] + 2 \in 0 .. UsizeMax
  BY <1>1, <1>4, ReadingFinite, ThreadsAssumption DEF Even, StateCountsGuards
<1>5. CASE BeginShared(t) \/ BeginExclusive(t)
  BY <1>2, <1>5 DEF BeginShared, BeginExclusive, TypeOK, PCs
<1>6. CASE LoadState(t)
  BY <1>2, <1>3, <1>6 DEF LoadState, TypeOK, PCs
<1>7. CASE SharedAcquire(t) \/ TryShared(t)
  <2>1. state' \in 0 .. UsizeMax
    <3>1. CASE Even(s[t]) /\ state = s[t] /\ state' = s[t] + 2
      BY <1>1, <1>4, <3>1, ThreadsAssumption DEF Even, TypeOK
    <3>2. CASE UNCHANGED state
      BY <3>2 DEF TypeOK
    <3> QED
      BY <1>7, <3>1, <3>2 DEF SharedAcquire, TryShared
  <2>2. pc' \in [Threads -> PCs]
    BY <1>2, <1>7 DEF SharedAcquire, TryShared, PCs
  <2> QED
    BY <1>7, <2>1, <2>2 DEF SharedAcquire, TryShared, TypeOK
<1>8. CASE SharedRetry(t) \/ SharedSpin(t) \/ ExclRetry(t)
  BY <1>3, <1>8 DEF SharedRetry, SharedSpin, ExclRetry, TypeOK
<1>9. CASE UnlockShared(t)
  <2>1. t \in Reading
    BY <1>9 DEF UnlockShared, Reading
  <2>2. state # UsizeMax
    BY <2>1 DEF StateCountsGuards, MutualExclusion
  <2>3. Cardinality(Reading) >= 1
    BY <2>1, ReadingFinite, FS_EmptySet
  <2>4. state - 2 \in 0 .. UsizeMax
    BY <1>1, <2>2, <2>3, ReadingFinite DEF StateCountsGuards, TypeOK
  <2>5. pc' \in [Threads -> PCs]
    BY <1>2, <1>9 DEF UnlockShared, PCs
  <2> QED
    BY <1>9, <2>4, <2>5 DEF UnlockShared, TypeOK
<1>10. CASE Wake(t)
  <2>1. (writer_wake_counter + 1) % WakeMod \in 0 .. WakeMod - 1
    BY <1>1
  <2>2. pc' \in [Threads -> PCs]
    BY <1>2, <1>10 DEF Wake, PCs
  <2> QED
    BY <1>10, <2>1, <2>2 DEF Wake, TypeOK
<1>11. CASE ExclAcquire(t) \/ TryExcl(t)
  BY <1>1, <1>2, <1>11 DEF ExclAcquire, TryExcl, TypeOK, PCs
<1>12. CASE ExclSetBit(t)
  <2>1. s[t] + 1 \in 0 .. UsizeMax
    BY <1>1, <1>12, ThreadsAssumption DEF ExclSetBit, Even, TypeOK
  <2> QED
    BY <1>2, <1>12, <2>1 DEF ExclSetBit, TypeOK, PCs
<1>13. CASE ExclBitSeen(t) \/ Unpark(t)
  BY <1>2, <1>13 DEF ExclBitSeen, Unpark, TypeOK, PCs
<1>14. CASE DrainCounter(t)
  BY <1>2, <1>14 DEF DrainCounter, TypeOK, PCs
<1>15. CASE DrainState(t) \/ Reload(t)
  BY <1>2, <1>3, <1>15 DEF DrainState, Reload, TypeOK, PCs
<1>16. CASE UnlockExclusive(t)
  BY <1>1, <1>2, <1>16 DEF UnlockExclusive, TypeOK, PCs
<1> QED
  BY <1>5, <1>6, <1>7, <1>8, <1>9, <1>10, <1>11, <1>12, <1>13, <1>14, <1>15, <1>16
  DEF Step

(* Taking a read guard: the exchange succeeds only from an even value, so  *)
(* not from the sentinel, and no writer is inside.                         *)
LEMMA AcquireShared ==
  ASSUME LockInv, NEW t \in Threads, pc[t] # "reading", pc[t] # "writing",
         Even(s[t]), state = s[t], state' = s[t] + 2, Goto(t, "reading")
  PROVE  StateCountsGuards' /\ MutualExclusion'
<1> USE DEF LockInv
<1>1. Reading' = Reading \cup {t} /\ t \notin Reading /\ Writing' = Writing
  BY ReadingChanges DEF PCs, Reading, Writing
<1>2. state # UsizeMax /\ state \in Nat
  BY ThreadsAssumption DEF Even, TypeOK
<1>3. Writing = {}
  BY <1>2 DEF StateCountsGuards
<1>4. Cardinality(Reading') = Cardinality(Reading) + 1
  BY <1>1, FS_AddElement, ReadingFinite
<1>5. state = 2 * Cardinality(Reading)
  BY <1>2, ReadingFinite DEF StateCountsGuards, Even
<1>6. state' = 2 * Cardinality(Reading')
  BY <1>4, <1>5, ReadingFinite
<1>7. Cardinality(Reading') \in Nat /\ 2 * Cardinality(Reading') + 1 < UsizeMax
  <2>1. Reading' \in SUBSET Threads
    BY <1>1 DEF Reading
  <2>2. IsFiniteSet(Reading') /\ Cardinality(Reading') <= Cardinality(Threads)
    BY <2>1, FS_Subset, ThreadsAssumption
  <2>3. Cardinality(Reading') \in Nat /\ Cardinality(Threads) \in Nat
    BY <2>2, FS_CardinalityType, ThreadsAssumption
  <2> QED
    BY <2>2, <2>3, ThreadsAssumption
<1>8. state' # UsizeMax
  BY <1>6, <1>7, ThreadsAssumption
<1> QED
  BY <1>1, <1>3, <1>6, <1>8 DEF StateCountsGuards, MutualExclusion

(* Taking the write guard: from 0 or 1 there is no guard of either kind.   *)
LEMMA AcquireExclusive ==
  ASSUME LockInv, NEW t \in Threads, pc[t] # "reading", pc[t] # "writing",
         s[t] <= 1, state = s[t], state' = UsizeMax, Goto(t, "writing")
  PROVE  StateCountsGuards' /\ MutualExclusion'
<1> USE DEF LockInv
<1>1. Reading' = Reading /\ Writing' = Writing \cup {t}
  BY ReadingChanges DEF PCs, Reading, Writing
<1>2. state # UsizeMax /\ state \in {0, 1}
  BY ThreadsAssumption, ReadingFinite DEF TypeOK
<1>3. Writing = {}
  BY <1>2 DEF StateCountsGuards
<1>4. Cardinality(Reading) = 0
  BY <1>2, ReadingFinite DEF StateCountsGuards
<1>5. Reading = {}
  BY <1>4, ReadingFinite, FS_EmptySet
<1> QED
  BY <1>1, <1>3, <1>5 DEF StateCountsGuards, MutualExclusion

(* Dropping a read guard.                                                  *)
LEMMA ReleaseShared ==
  ASSUME LockInv, NEW t \in Threads, UnlockShared(t)
  PROVE  StateCountsGuards' /\ MutualExclusion'
<1> USE DEF LockInv
<1>1. t \in Reading
  BY DEF UnlockShared, Reading
<1>2. Reading' = Reading \ {t} /\ Writing' = Writing
  <2>1. PICK l \in PCs : Goto(t, l) /\ l # "reading" /\ l # "writing"
    BY DEF UnlockShared, PCs
  <2> QED
    BY <1>1, <2>1, ReadingChanges DEF Reading, Writing
<1>3. Writing = {} /\ state # UsizeMax
  BY <1>1 DEF StateCountsGuards, MutualExclusion
<1>4. Cardinality(Reading') = Cardinality(Reading) - 1
  BY <1>1, <1>2, FS_RemoveElement, ReadingFinite
<1>5. state' = state - 2 /\ state \in Nat
  BY DEF UnlockShared, TypeOK
<1>6. state' \in {2 * Cardinality(Reading'), 2 * Cardinality(Reading') + 1}
  <2>1. PICK n \in Nat : n = Cardinality(Reading)
    BY ReadingFinite
  <2>2. state \in {2 * n, 2 * n + 1} /\ Cardinality(Reading') = n - 1
    BY <1>3, <1>4, <2>1 DEF StateCountsGuards
  <2> QED
    BY <1>5, <2>2
<1>7. state' # UsizeMax
  BY <1>5, ThreadsAssumption DEF TypeOK
<1> QED
  BY <1>2, <1>3, <1>6, <1>7 DEF StateCountsGuards, MutualExclusion

(* Dropping the write guard: the store of 0 erases nothing but the         *)
(* sentinel.                                                               *)
LEMMA ReleaseExclusive ==
  ASSUME LockInv, NEW t \in Threads, UnlockExclusive(t)
  PROVE  StateCountsGuards' /\ MutualExclusion'
<1> USE DEF LockInv
<1>1. t \in Writing
  BY DEF UnlockExclusive, Writing
<1>2. Reading = {} /\ Writing = {t}
  BY <1>1 DEF MutualExclusion
<1>3. Reading' = {} /\ Writing' = {}
  BY <1>2, ReadingChanges DEF UnlockExclusive, PCs
<1>4. state' = 0 /\ 0 # UsizeMax /\ Cardinality({}) = 0
  BY ThreadsAssumption, FS_EmptySet DEF UnlockExclusive
<1> QED
  BY <1>3, <1>4 DEF StateCountsGuards, MutualExclusion

(* Setting the exclusive bit changes no guard.                             *)
LEMMA SetBit ==
  ASSUME LockInv, NEW t \in Threads, ExclSetBit(t)
  PROVE  StateCountsGuards' /\ MutualExclusion'
<1> USE DEF LockInv
<1>1. Reading' = Reading /\ Writing' = Writing
  BY ReadingChanges DEF ExclSetBit, PCs, Reading, Writing
<1>2. state # UsizeMax /\ state \in Nat /\ state' = state + 1
  BY ThreadsAssumption DEF ExclSetBit, Even, TypeOK
<1>3. state = 2 * Cardinality(Reading)
  BY <1>2, ReadingFinite DEF StateCountsGuards, ExclSetBit, Even
<1>4. state' # UsizeMax
  BY <1>2, <1>3, ReadingFinite, ThreadsAssumption
<1> QED
  BY <1>1, <1>2, <1>3, <1>4 DEF StateCountsGuards, MutualExclusion

(* Every step of every thread preserves the invariant.                     *)
LEMMA LockStep ==
  ASSUME LockInv, NEW t \in Threads, Step(t)
  PROVE  StateCountsGuards' /\ MutualExclusion'
<1> USE DEF LockInv
<1>1. ASSUME NEW l \in PCs, Goto(t, l), l # "reading", l # "writing",
             pc[t] # "reading", pc[t] # "writing", state' = state
      PROVE  StateCountsGuards' /\ MutualExclusion'
  <2>1. Reading' = Reading /\ Writing' = Writing
    BY <1>1, ReadingChanges DEF Reading, Writing
  <2> QED
    BY <1>1, <2>1, QuietStep
<1>2. ASSUME UNCHANGED <<pc, state>>
      PROVE  StateCountsGuards' /\ MutualExclusion'
  BY <1>2, QuietStep DEF Reading, Writing
<1>3. CASE BeginShared(t) \/ BeginExclusive(t)
  BY <1>1, <1>3 DEF BeginShared, BeginExclusive, PCs
<1>4. CASE LoadState(t)
  BY <1>1, <1>4 DEF LoadState, PCs
<1>5. CASE SharedAcquire(t)
  BY <1>5, AcquireShared DEF SharedAcquire
<1>6. CASE SharedRetry(t) \/ SharedSpin(t) \/ ExclRetry(t)
  BY <1>2, <1>6 DEF SharedRetry, SharedSpin, ExclRetry
<1>7. CASE TryShared(t)
  BY <1>1, <1>7, AcquireShared DEF TryShared, PCs
<1>8. CASE Wake(t)
  BY <1>1, <1>8 DEF Wake, PCs
<1>9. CASE ExclAcquire(t)
  BY <1>9, AcquireExclusive DEF ExclAcquire
<1>10. CASE ExclBitSeen(t) \/ DrainCounter(t) \/ Unpark(t) \/ Reload(t)
  BY <1>1, <1>10 DEF ExclBitSeen, DrainCounter, Unpark, Reload, PCs
<1>11. CASE DrainState(t)
  BY <1>1, <1>11 DEF DrainState, PCs
<1>12. CASE TryExcl(t)
  BY <1>1, <1>12, AcquireExclusive DEF TryExcl, PCs
<1> QED
  BY <1>3, <1>4, <1>5, <1>6, <1>7, <1>8, <1>9, <1>10, <1>11, <1>12,
     ReleaseShared, ReleaseExclusive, SetBit
  DEF Step

(* For any number of readers and writers, any of them using the blocking   *)
(* or the try_ operation, a write guard excludes every other guard and     *)
(* state counts the guards exactly.                                        *)
THEOREM LockIsExclusive ==
  Spec => [](MutualExclusion /\ StateCountsGuards)
<1>1. Init => LockInv
  BY LockInit
<1>2. LockInv /\ [Next]_vars => LockInv'
  <2> SUFFICES ASSUME LockInv, [Next]_vars PROVE LockInv'
    OBVIOUS
  <2>1. CASE Next
    BY <2>1, TypePreserved, LockStep DEF Next, LockInv
  <2>2. CASE UNCHANGED vars
    BY <2>2 DEF vars, LockInv, TypeOK, StateCountsGuards, MutualExclusion, Reading, Writing
  <2> QED
    BY <2>1, <2>2
<1>3. LockInv => MutualExclusion /\ StateCountsGuards
  BY DEF LockInv
<1> QED
  BY <1>1, <1>2, <1>3, PTL DEF Spec

(* The same invariant, for the count alone: no release underflows state    *)
(* and no acquisition counts up to the sentinel.                           *)
THEOREM StateIsGuardCount ==
  Spec => []StateCountsGuards
BY LockIsExclusive, PTL

-----------------------------------------------------------------------------
(***************************************************************************)
(* The wake-up of a parked writer.  rw_lock_wake shows that it may be lost *)
(* when two writers compete; with a single writer it is not, for any       *)
(* number of readers.  WakeInv says why: while the writer drains the       *)
(* readers the exclusive bit is set, so no reader enters, every thread     *)
(* increments the counter at most once, and the counter cannot come back   *)
(* to the value the writer read by wrapping around.                        *)
(***************************************************************************)
Waking == {t \in Threads : pc[t] \in {"wake_last", "wake_release"}}
BitSet == state # UsizeMax /\ ~Even(state)

Entering == {"excl_load", "try_excl_load", "try_excl", "writing", "wake_release"}
Draining == {"drain_counter", "drain_state", "parked", "woken"}

(* How often the counter was incremented since t read it.                  *)
Wakes(t) ==
  IF writer_wake_counter >= w[t] THEN writer_wake_counter - w[t]
  ELSE writer_wake_counter + WakeMod - w[t]

(* Only writers call the exclusive operations.                             *)
WritersOnly ==
  \A t \in Threads : pc[t] \in Entering \cup Draining \cup {"excl"} => t \in Writers

(* The exclusive bit is set while the writer drains, or is about to take   *)
(* the lock from a state in which it saw the bit, and only then.           *)
BitIsDraining ==
  /\ \A t \in Threads :
       pc[t] \in Draining \/ (pc[t] = "excl" /\ ~Even(s[t])) => BitSet
  /\ \A t \in Threads : pc[t] \in Entering => ~BitSet
  /\ BitSet => \E t \in Threads : pc[t] \in Draining \cup {"excl"}

(* The increments since t read the counter and those still to come are     *)
(* fewer than the threads.                                                 *)
WakesAreBounded ==
  \A t \in Threads :
    pc[t] \in {"drain_state", "parked"} =>
      Wakes(t) + Cardinality(Reading \cup Waking) < Cardinality(Threads)

(* Once the last reader has left, the increment has happened or will.      *)
LastReaderWakes ==
  \A t \in Threads :
    pc[t] = "parked" /\ state = 1 => Wakes(t) > 0 \/ Waking # {}

WakeInv ==
  LockInv /\ WritersOnly /\ BitIsDraining /\ WakesAreBounded /\ LastReaderWakes

SoleWriter == \A a, b \in Writers : a = b

(* The counter's successor, without the remainder.                         *)
LEMMA CounterSuccessor ==
  ASSUME NEW m \in Nat \ {0, 1}, NEW c \in 0 .. m - 1
  PROVE  (c + 1) % m = IF c + 1 = m THEN 0 ELSE c + 1
OBVIOUS

(* Two threads inside the exclusive operations are one and the same.       *)
LEMMA OneInside ==
  ASSUME WakeInv, SoleWriter, NEW t \in Threads, NEW u \in Threads,
         pc[t] \in Entering \cup Draining \cup {"excl"},
         pc[u] \in Entering \cup Draining \cup {"excl"}
  PROVE  t = u
BY DEF WakeInv, WritersOnly, SoleWriter

(* The sentinel is there only while the writer holds the lock.             *)
LEMMA NotLocked ==
  ASSUME WakeInv, SoleWriter, NEW t \in Threads, pc[t] # "writing",
         pc[t] \in Entering \cup Draining \cup {"excl"}
  PROVE  state # UsizeMax
<1> SUFFICES ASSUME state = UsizeMax PROVE FALSE
  OBVIOUS
<1>1. PICK u \in Threads : pc[u] = "writing"
  BY DEF WakeInv, LockInv, StateCountsGuards, Writing
<1>2. t = u
  BY <1>1, OneInside DEF Entering
<1> QED
  BY <1>1, <1>2

(* Where a step of thread u leads: every other thread stays.               *)
LEMMA OthersStay ==
  ASSUME TypeOK, NEW u \in Threads, NEW l, Goto(u, l)
  PROVE  /\ pc'[u] = l
         /\ \A t \in Threads : t # u => pc'[t] = pc[t]
BY DEF TypeOK, Goto

LEMMA WritersOnlyStep ==
  ASSUME WakeInv, NEW u \in Threads, Step(u)
  PROVE  WritersOnly'
<1> USE DEF WakeInv, LockInv
<1> DEFINE Inside == Entering \cup Draining \cup {"excl"}
<1>1. ASSUME NEW l, Goto(u, l), l \in Inside => u \in Writers
      PROVE  WritersOnly'
  BY <1>1, OthersStay DEF WritersOnly
<1>2. CASE UNCHANGED pc
  BY <1>2 DEF WritersOnly
<1>3. CASE BeginShared(u) \/ TryShared(u) \/ SharedAcquire(u)
  BY <1>1, <1>3 DEF BeginShared, TryShared, SharedAcquire, Entering, Draining
<1>4. CASE BeginExclusive(u)
  BY <1>1, <1>4 DEF BeginExclusive
<1>5. CASE LoadState(u)
  BY <1>1, <1>5 DEF LoadState, WritersOnly, Entering, Draining
<1>6. CASE UnlockShared(u) \/ Wake(u)
  BY <1>1, <1>6 DEF UnlockShared, Wake, Entering, Draining
<1>7. CASE ExclAcquire(u) \/ ExclSetBit(u) \/ ExclBitSeen(u)
  BY <1>1, <1>7 DEF ExclAcquire, ExclSetBit, ExclBitSeen, WritersOnly
<1>8. CASE DrainCounter(u) \/ DrainState(u) \/ Unpark(u) \/ Reload(u)
  BY <1>1, <1>8 DEF DrainCounter, DrainState, Unpark, Reload, WritersOnly, Draining
<1>9. CASE TryExcl(u) \/ UnlockExclusive(u)
  BY <1>1, <1>9 DEF TryExcl, UnlockExclusive, WritersOnly, Entering
<1>10. CASE SharedRetry(u) \/ SharedSpin(u) \/ ExclRetry(u)
  BY <1>2, <1>10 DEF SharedRetry, SharedSpin, ExclRetry
<1> QED
  BY <1>3, <1>4, <1>5, <1>6, <1>7, <1>8, <1>9, <1>10 DEF Step

(* A step that neither enters nor leaves the exclusive operations keeps    *)
(* the bit's meaning if it keeps the bit.                                  *)
LEMMA BitKept ==
  ASSUME WakeInv, NEW u \in Threads, NEW l, Goto(u, l),
         l \notin Entering \cup Draining \cup {"excl"},
         pc[u] \notin Draining \cup {"excl"},
         BitSet' <=> BitSet, \A t \in Threads : t # u => s'[t] = s[t]
  PROVE  BitIsDraining'
<1> USE DEF WakeInv, LockInv
<1>1. \A t \in Threads : t # u => pc'[t] = pc[t]
  BY OthersStay
<1>2. pc'[u] = l
  BY OthersStay
<1> QED
  BY <1>1, <1>2 DEF BitIsDraining

(* A step of the writer, which is the only thread inside.                  *)
LEMMA BitOfWriter ==
  ASSUME WakeInv, SoleWriter, NEW u \in Threads, NEW l, Goto(u, l),
         pc[u] \in Entering \cup Draining \cup {"excl"},
         l \in Draining \/ (l = "excl" /\ ~Even(s'[u])) => BitSet',
         BitSet' => l \in Draining \cup {"excl"}
  PROVE  BitIsDraining'
<1> USE DEF WakeInv, LockInv
<1>1. \A t \in Threads : t # u => pc'[t] = pc[t] /\ pc'[t] \notin Entering \cup Draining \cup {"excl"}
  BY OthersStay, OneInside
<1>2. pc'[u] = l
  BY OthersStay
<1>3. Entering \cap (Draining \cup {"excl"}) = {}
  BY DEF Entering, Draining
<1> QED
  BY <1>1, <1>2, <1>3 DEF BitIsDraining

LEMMA BitStep ==
  ASSUME WakeInv, SoleWriter, NEW u \in Threads, Step(u)
  PROVE  BitIsDraining'
<1> USE DEF WakeInv, LockInv
<1>0. /\ state \in Nat /\ UsizeMax \in Nat /\ s[u] \in Nat /\ ~Even(UsizeMax)
      /\ s \in [Threads -> 0 .. UsizeMax] /\ pc \in [Threads -> PCs]
  BY ThreadsAssumption DEF TypeOK, Even
<1>1. CASE BeginShared(u)
  BY <1>1, BitKept DEF BeginShared, Entering, Draining, BitSet
<1>2. CASE SharedAcquire(u) \/ TryShared(u)
  <2>1. BitSet' <=> BitSet
    <3>1. CASE UNCHANGED state
      BY <3>1 DEF BitSet
    <3>2. CASE Even(s[u]) /\ state = s[u] /\ state' = s[u] + 2
      BY <1>0, <3>2 DEF BitSet, Even
    <3> QED
      BY <1>2, <3>1, <3>2 DEF SharedAcquire, TryShared
  <2> QED
    BY <1>2, <2>1, BitKept DEF SharedAcquire, TryShared, Entering, Draining
<1>3. CASE UnlockShared(u)
  <2>1. u \in Reading
    BY <1>3 DEF UnlockShared, Reading
  <2>2. state # UsizeMax
    BY <2>1 DEF StateCountsGuards, MutualExclusion
  <2>3. state' = state - 2 /\ state' \in 0 .. UsizeMax /\ state <= UsizeMax
    <3>1. TypeOK'
      BY <1>3, TypePreserved
    <3> QED
      BY <1>3, <3>1 DEF UnlockShared, TypeOK
  <2>4. BitSet' <=> BitSet
    BY <1>0, <2>2, <2>3 DEF BitSet, Even
  <2> QED
    BY <1>3, <2>4, BitKept DEF UnlockShared, Entering, Draining
<1>4. CASE Wake(u)
  BY <1>4, BitKept DEF Wake, Entering, Draining, BitSet
<1>5. CASE SharedRetry(u) \/ SharedSpin(u)
  <2>1. \A t \in Threads : pc[t] = "excl" => s'[t] = s[t]
    BY <1>0, <1>5 DEF SharedRetry, SharedSpin
  <2> QED
    BY <1>5, <2>1 DEF SharedRetry, SharedSpin, BitIsDraining, BitSet
<1>6. CASE BeginExclusive(u)
  <2>1. PICK l \in {"excl_load", "try_excl_load"} : Goto(u, l)
    BY <1>6 DEF BeginExclusive
  <2>2. ~BitSet
    <3> SUFFICES ASSUME BitSet PROVE FALSE
      OBVIOUS
    <3>1. PICK t \in Threads : pc[t] \in Draining \cup {"excl"}
      BY DEF BitIsDraining
    <3>2. t \in Writers /\ u \in Writers
      BY <1>6, <3>1 DEF WritersOnly, BeginExclusive
    <3> QED
      BY <1>6, <3>1, <3>2 DEF SoleWriter, BeginExclusive, Draining
  <2>3. ~BitSet' /\ s' = s
    BY <1>6, <2>2 DEF BeginExclusive, BitSet
  <2>4. pc'[u] = l /\ \A t \in Threads : t # u => pc'[t] = pc[t]
    BY <2>1, OthersStay
  <2> QED
    BY <2>2, <2>3, <2>4 DEF BitIsDraining, Draining
<1>7. CASE LoadState(u)
  <2>1. BitSet' <=> BitSet
    BY <1>7 DEF LoadState, BitSet
  <2>2. CASE pc[u] \in {"shared_load", "try_shared_load"}
    BY <1>0, <1>7, <2>1, <2>2, BitKept DEF LoadState, Entering, Draining
  <2>3. CASE pc[u] \in {"excl_load", "try_excl_load"}
    <3>1. pc[u] \in Entering /\ pc[u] # "writing"
      BY <2>3 DEF Entering
    <3>2. ~BitSet /\ state # UsizeMax
      BY <3>1, NotLocked DEF BitIsDraining
    <3>3. s'[u] = state /\ Even(state)
      BY <1>0, <1>7, <3>2 DEF LoadState, BitSet
    <3>4. PICK l \in {"excl", "try_excl"} : Goto(u, l)
      BY <1>7, <2>3 DEF LoadState
    <3> QED
      BY <2>1, <3>1, <3>2, <3>3, <3>4, BitOfWriter DEF Draining
  <2> QED
    BY <1>7, <2>2, <2>3 DEF LoadState
<1>8. CASE ExclAcquire(u)
  BY <1>8, BitOfWriter DEF ExclAcquire, BitSet, Draining
<1>9. CASE ExclRetry(u)
  <2>1. state # UsizeMax
    BY <1>9, NotLocked DEF ExclRetry
  <2>2. s'[u] = state /\ state' = state /\ pc' = pc /\ pc[u] = "excl"
    BY <1>0, <1>9 DEF ExclRetry
  <2>3. \A t \in Threads : t # u => s'[t] = s[t]
    BY <1>0, <1>9 DEF ExclRetry
  <2>4. "excl" \notin Draining \cup Entering
    BY DEF Draining, Entering
  <2> QED
    BY <2>1, <2>2, <2>3, <2>4 DEF BitIsDraining, BitSet
<1>10. CASE ExclSetBit(u)
  <2>1. state' # UsizeMax /\ ~Even(state')
    <3>1. state' = state + 1 /\ Even(state) /\ state > 1
      BY <1>10 DEF ExclSetBit
    <3>2. state # UsizeMax
      BY <1>0, <3>1
    <3>3. state <= 2 * Cardinality(Reading)
      BY <1>0, <3>1, <3>2, ReadingFinite DEF StateCountsGuards, Even
    <3> QED
      BY <1>0, <3>1, <3>3, ReadingFinite DEF Even
  <2> QED
    BY <1>10, <2>1, BitOfWriter DEF ExclSetBit, BitSet, Draining
<1>11. CASE ExclBitSeen(u)
  <2>1. BitSet
    BY <1>11 DEF ExclBitSeen, BitIsDraining
  <2> QED
    BY <1>11, <2>1, BitOfWriter DEF ExclBitSeen, BitSet, Draining
<1>12. CASE DrainCounter(u) \/ DrainState(u) \/ Unpark(u) \/ Reload(u)
  <2>1. pc[u] \in Draining
    BY <1>12 DEF DrainCounter, DrainState, Unpark, Reload, Draining
  <2>2. BitSet /\ state' = state
    BY <1>12, <2>1 DEF BitIsDraining, DrainCounter, DrainState, Unpark, Reload
  <2>3. PICK l \in Draining \cup {"excl"} : Goto(u, l)
    BY <1>12 DEF DrainCounter, DrainState, Unpark, Reload, Draining
  <2> QED
    BY <2>1, <2>2, <2>3, BitOfWriter DEF BitSet
<1>13. CASE TryExcl(u)
  <2>1. pc[u] \in Entering
    BY <1>13 DEF TryExcl, Entering
  <2>2. ~BitSet'
    BY <1>13, <2>1 DEF TryExcl, BitIsDraining, BitSet
  <2>3. PICK l \in {"writing", "idle"} : Goto(u, l)
    BY <1>13 DEF TryExcl
  <2> QED
    BY <2>1, <2>2, <2>3, BitOfWriter DEF Draining
<1>14. CASE UnlockExclusive(u)
  <2>1. ~BitSet'
    BY <1>14 DEF UnlockExclusive, BitSet, Even
  <2> QED
    BY <1>14, <2>1, BitOfWriter DEF UnlockExclusive, Entering, Draining
<1> QED
  BY <1>1, <1>2, <1>3, <1>4, <1>5, <1>6, <1>7, <1>8, <1>9, <1>10, <1>11, <1>12,
     <1>13, <1>14 DEF Step

Active == Reading \cup Waking

(* Threads that hold a read guard or owe an increment.                     *)
LEMMA ActiveFinite ==
  ASSUME NEW t \in Threads, t \notin Active
  PROVE  /\ IsFiniteSet(Active) /\ Cardinality(Active) \in Nat
         /\ Cardinality(Threads) \in Nat
         /\ Cardinality(Active) < Cardinality(Threads)
<1>1. Active \subseteq Threads \ {t}
  BY DEF Active, Reading, Waking
<1>2. IsFiniteSet(Threads \ {t}) /\ Cardinality(Threads \ {t}) = Cardinality(Threads) - 1
  BY FS_RemoveElement, ThreadsAssumption
<1>3. IsFiniteSet(Active) /\ Cardinality(Active) <= Cardinality(Threads \ {t})
  BY <1>1, <1>2, FS_Subset
<1>4. Cardinality(Active) \in Nat /\ Cardinality(Threads) \in Nat
  BY <1>3, FS_CardinalityType, ThreadsAssumption
<1> QED
  BY <1>2, <1>3, <1>4

(* While thread t drains, no thread becomes active: the bit keeps readers  *)
(* out, and t is the only writer.                                          *)
LEMMA ActiveShrinks ==
  ASSUME WakeInv, SoleWriter, NEW t \in Threads, pc[t] \in Draining,
         NEW u \in Threads, Step(u)
  PROVE  /\ t \notin Active /\ t \notin Active'
         /\ Wake(u) => u \in Active /\ Active' = Active \ {u}
         /\ ~Wake(u) => Active' \in {Active, Active \ {u}}
         /\ state' = 1 /\ state # 1 => u \in Waking'
         /\ Waking' = Waking \/ Waking' = Waking \cup {u} \/ (Wake(u) /\ Waking' = Waking \ {u})
<1> USE DEF WakeInv, LockInv
<1>0. BitSet /\ state \in Nat /\ s[u] \in Nat /\ pc \in [Threads -> PCs]
  BY DEF BitIsDraining, TypeOK
<1>1. t \notin Active
  BY DEF Active, Reading, Waking, Draining
<1>2. ASSUME NEW l, Goto(u, l), l \notin {"reading", "wake_last", "wake_release"},
             u \notin Active
      PROVE  Active' = Active /\ Waking' = Waking
  BY <1>0, <1>2, OthersStay DEF Active, Reading, Waking
<1>3. CASE UNCHANGED <<pc, state>> /\ ~Wake(u)
  BY <1>1, <1>3 DEF Active, Reading, Waking
<1>4. CASE /\ \E l \in PCs : Goto(u, l) /\ l \notin {"reading", "wake_last", "wake_release"}
           /\ u \notin Active /\ ~Wake(u) /\ (state' = state \/ state' # 1)
  BY <1>1, <1>2, <1>4
<1>5. CASE BeginShared(u) \/ BeginExclusive(u) \/ LoadState(u)
  <2>1. u \notin Active /\ ~Wake(u) /\ state' = state
    BY <1>5 DEF BeginShared, BeginExclusive, LoadState, Active, Reading, Waking, Wake
  <2> QED
    BY <1>4, <1>5, <2>1 DEF BeginShared, BeginExclusive, LoadState, PCs
<1>6. CASE SharedAcquire(u)
  BY <1>0, <1>6 DEF SharedAcquire, BitSet
<1>7. CASE TryShared(u)
  <2>1. u \notin Active /\ ~Wake(u) /\ state' = state /\ Goto(u, "idle")
    BY <1>0, <1>7 DEF TryShared, BitSet, Active, Reading, Waking, Wake
  <2> QED
    BY <1>4, <2>1 DEF PCs
<1>8. CASE SharedRetry(u) \/ SharedSpin(u) \/ ExclRetry(u)
  BY <1>3, <1>8 DEF SharedRetry, SharedSpin, ExclRetry, Wake
<1>9. CASE UnlockShared(u)
  <2>1. u \in Reading /\ u \notin Waking /\ ~Wake(u)
    BY <1>9 DEF UnlockShared, Reading, Waking, Wake
  <2>2. CASE state = 3
    <3>1. Goto(u, "wake_last")
      BY <1>9, <2>2 DEF UnlockShared
    <3>2. Reading' = Reading \ {u} /\ Waking' = Waking \cup {u}
      BY <1>0, <3>1, OthersStay DEF Reading, Waking
    <3> QED
      BY <1>1, <2>1, <3>2 DEF Active
  <2>3. CASE state # 3
    <3>1. Goto(u, "idle") /\ state' = state - 2
      BY <1>9, <2>3 DEF UnlockShared
    <3>2. Reading' = Reading \ {u} /\ Waking' = Waking
      BY <1>0, <2>1, <3>1, OthersStay DEF Reading, Waking
    <3>3. state' # 1
      BY <1>0, <2>3, <3>1
    <3> QED
      BY <1>1, <2>1, <3>2, <3>3 DEF Active
  <2> QED
    BY <2>2, <2>3
<1>10. CASE Wake(u)
  <2>1. u \in Waking /\ u \notin Reading /\ state' = state
    BY <1>10 DEF Wake, Reading, Waking
  <2>2. Reading' = Reading /\ Waking' = Waking \ {u}
    BY <1>0, <1>10, <2>1, OthersStay DEF Wake, Reading, Waking
  <2> QED
    BY <1>1, <1>10, <2>1, <2>2 DEF Active
<1>11. CASE ExclAcquire(u) \/ ExclSetBit(u) \/ TryExcl(u) \/ UnlockExclusive(u)
  <2>1. pc[u] \in Entering \cup {"excl"} /\ pc[u] \notin Draining
    BY <1>11 DEF ExclAcquire, ExclSetBit, TryExcl, UnlockExclusive, Entering, Draining
  <2> QED
    BY <2>1, OneInside
<1>12. CASE ExclBitSeen(u) \/ DrainCounter(u) \/ DrainState(u) \/ Unpark(u) \/ Reload(u)
  <2>1. u \notin Active /\ ~Wake(u) /\ state' = state
    BY <1>12 DEF ExclBitSeen, DrainCounter, DrainState, Unpark, Reload,
                 Active, Reading, Waking, Wake
  <2> QED
    BY <1>4, <1>12, <2>1 DEF ExclBitSeen, DrainCounter, DrainState, Unpark, Reload, PCs
<1> QED
  BY <1>5, <1>6, <1>7, <1>8, <1>9, <1>10, <1>11, <1>12 DEF Step

LEMMA WakesType ==
  ASSUME TypeOK, NEW t \in Threads
  PROVE  Wakes(t) \in 0 .. WakeMod - 1
BY ThreadsAssumption DEF TypeOK, Wakes

(* One more increment, as long as the count does not reach WakeMod.        *)
LEMMA WakeCounts ==
  ASSUME TypeOK, NEW t \in Threads, NEW u \in Threads, Wake(u),
         Wakes(t) + 1 < WakeMod
  PROVE  Wakes(t)' = Wakes(t) + 1
<1>1. writer_wake_counter' = IF writer_wake_counter + 1 = WakeMod THEN 0
                             ELSE writer_wake_counter + 1
  BY CounterSuccessor, ThreadsAssumption DEF Wake, TypeOK
<1>2. w'[t] = w[t] /\ w[t] \in 0 .. WakeMod - 1 /\ writer_wake_counter \in 0 .. WakeMod - 1
  BY DEF Wake, TypeOK
<1> QED
  BY <1>1, <1>2, ThreadsAssumption DEF Wakes

LEMMA OnlyWakeCounts ==
  ASSUME NEW u \in Threads, Step(u), ~Wake(u)
  PROVE  writer_wake_counter' = writer_wake_counter
BY DEF Step, BeginShared, BeginExclusive, LoadState, SharedAcquire, SharedRetry,
       SharedSpin, TryShared, UnlockShared, ExclAcquire, ExclRetry, ExclSetBit,
       ExclBitSeen, DrainCounter, DrainState, Unpark, Reload, TryExcl, UnlockExclusive

(* A thread that drains after a step either drained before it with the     *)
(* same w, or has just read the counter.                                   *)
LEMMA DrainingStep ==
  ASSUME TypeOK, NEW t \in Threads, pc'[t] \in {"drain_state", "parked"},
         NEW u \in Threads, Step(u)
  PROVE  \/ /\ pc[t] \in {"drain_state", "parked"} /\ w'[t] = w[t]
            /\ pc[t] = "parked" \/ pc'[t] = "drain_state" \/ (~Wake(u) /\ state' = state /\ state >= 2)
         \/ /\ pc[t] = "drain_counter" /\ pc'[t] = "drain_state"
            /\ w'[t] = writer_wake_counter /\ writer_wake_counter' = writer_wake_counter
<1>1. CASE t # u
  <2>1. pc'[t] = pc[t] /\ w'[t] = w[t]
    BY <1>1 DEF Step, BeginShared, BeginExclusive, LoadState, SharedAcquire, SharedRetry,
       SharedSpin, TryShared, UnlockShared, Wake, ExclAcquire, ExclRetry, ExclSetBit,
       ExclBitSeen, DrainCounter, DrainState, Unpark, Reload, TryExcl, UnlockExclusive,
       Goto, TypeOK
  <2> QED
    BY <2>1
<1>2. CASE t = u
  <2>1. CASE DrainCounter(u)
    BY <1>2, <2>1 DEF DrainCounter, Goto, TypeOK
  <2>2. CASE DrainState(u)
    BY <1>2, <2>2 DEF DrainState, Goto, TypeOK, Wake
  <2>3. CASE ~DrainCounter(u) /\ ~DrainState(u)
    <3>1. pc'[u] \notin {"drain_state", "parked"}
      BY <2>3 DEF Step, BeginShared, BeginExclusive, LoadState, SharedAcquire, SharedRetry,
       SharedSpin, TryShared, UnlockShared, Wake, ExclAcquire, ExclRetry, ExclSetBit,
       ExclBitSeen, Unpark, Reload, TryExcl, UnlockExclusive, Goto, TypeOK
    <3> QED
      BY <1>2, <3>1
  <2> QED
    BY <2>1, <2>2, <2>3
<1> QED
  BY <1>1, <1>2

LEMMA WakesStep ==
  ASSUME WakeInv, SoleWriter, Cardinality(Threads) <= WakeMod,
         NEW u \in Threads, Step(u)
  PROVE  WakesAreBounded'
<1> USE DEF WakeInv, LockInv
<1> SUFFICES ASSUME NEW t \in Threads, pc'[t] \in {"drain_state", "parked"}
             PROVE  Wakes(t)' + Cardinality(Active') < Cardinality(Threads)
  BY DEF WakesAreBounded, Active
<1>0. WakeMod \in Nat /\ TypeOK'
  BY ThreadsAssumption, TypePreserved
<1>1. t \notin Active /\ t \notin Active'
  <2>1. pc[t] \in Draining
    BY DrainingStep DEF Draining
  <2> QED
    BY <2>1, ActiveShrinks
<1>2. IsFiniteSet(Active) /\ Cardinality(Active) \in Nat /\ Cardinality(Threads) \in Nat
  BY <1>1, ActiveFinite
<1>3. CASE pc[t] \in {"drain_state", "parked"} /\ w'[t] = w[t]
  <2>1. Wakes(t) + Cardinality(Active) < Cardinality(Threads)
    BY <1>3 DEF WakesAreBounded, Active
  <2>2. Wakes(t) \in Nat
    BY <1>0, WakesType
  <2>3. CASE Wake(u)
    <3>1. u \in Active /\ Active' = Active \ {u}
      BY <1>3, <2>3, ActiveShrinks DEF Draining
    <3>2. Cardinality(Active') = Cardinality(Active) - 1 /\ Cardinality(Active) # 0
      BY <1>2, <3>1, FS_RemoveElement, FS_EmptySet
    <3>3. Wakes(t)' = Wakes(t) + 1
      BY <1>0, <1>2, <2>1, <2>2, <2>3, <3>2, WakeCounts
    <3> QED
      BY <1>2, <2>1, <2>2, <3>2, <3>3
  <2>4. CASE ~Wake(u)
    <3>1. Wakes(t)' = Wakes(t)
      BY <1>3, <2>4, OnlyWakeCounts DEF Wakes
    <3>2. Active' \subseteq Active
      BY <1>3, <2>4, ActiveShrinks DEF Draining
    <3>3. Cardinality(Active') <= Cardinality(Active) /\ Cardinality(Active') \in Nat
      BY <1>2, <3>2, FS_Subset, FS_CardinalityType
    <3> QED
      BY <1>2, <2>1, <2>2, <3>1, <3>3
  <2> QED
    BY <2>3, <2>4
<1>4. CASE /\ pc[t] = "drain_counter" /\ w'[t] = writer_wake_counter
           /\ writer_wake_counter' = writer_wake_counter
  <2>1. Wakes(t)' = 0
    BY <1>0, <1>4 DEF Wakes, TypeOK
  <2>2. Active' \subseteq Threads \ {t}
    BY <1>1 DEF Active, Reading, Waking
  <2>3. Cardinality(Threads \ {t}) = Cardinality(Threads) - 1 /\ IsFiniteSet(Threads \ {t})
    BY FS_RemoveElement, ThreadsAssumption
  <2>4. Cardinality(Active') \in Nat /\ Cardinality(Active') <= Cardinality(Threads) - 1
    BY <2>2, <2>3, FS_Subset, FS_CardinalityType
  <2> QED
    BY <1>2, <2>1, <2>4
<1> QED
  BY <1>3, <1>4, DrainingStep

LEMMA LastReaderStep ==
  ASSUME WakeInv, SoleWriter, Cardinality(Threads) <= WakeMod,
         NEW u \in Threads, Step(u)
  PROVE  LastReaderWakes'
<1> USE DEF WakeInv, LockInv
<1> SUFFICES ASSUME NEW t \in Threads, pc'[t] = "parked", state' = 1
             PROVE  Wakes(t)' > 0 \/ Waking' # {}
  BY DEF LastReaderWakes
<1>0. WakeMod \in Nat /\ Wakes(t) \in Nat
  BY ThreadsAssumption, WakesType
<1>1. pc[t] = "parked" /\ w'[t] = w[t]
  BY DrainingStep
<1>2. CASE state # 1
  BY <1>1, <1>2, ActiveShrinks DEF Draining
<1>3. CASE state = 1 /\ Wake(u)
  <2>1. u \in Active
    BY <1>1, <1>3, ActiveShrinks DEF Draining
  <2>2. Cardinality(Active) \in Nat /\ Cardinality(Active) # 0 /\ Cardinality(Threads) \in Nat
    BY <1>1, <2>1, ActiveFinite, ActiveShrinks, FS_EmptySet DEF Draining
  <2>3. Wakes(t) + Cardinality(Active) < Cardinality(Threads)
    BY <1>1 DEF WakesAreBounded, Active
  <2>4. Wakes(t)' = Wakes(t) + 1
    BY <1>0, <1>3, <2>2, <2>3, WakeCounts
  <2> QED
    BY <1>0, <2>4
<1>4. CASE state = 1 /\ ~Wake(u)
  <2>1. Wakes(t)' = Wakes(t)
    BY <1>1, <1>4, OnlyWakeCounts DEF Wakes
  <2>2. Waking \subseteq Waking'
    BY <1>1, <1>4, ActiveShrinks DEF Draining
  <2>3. Wakes(t) > 0 \/ Waking # {}
    BY <1>1, <1>4 DEF LastReaderWakes
  <2> QED
    BY <2>1, <2>2, <2>3
<1> QED
  BY <1>2, <1>3, <1>4

(* With one writer and any number of readers, blocking or not, no wake-up  *)
(* of lock_exclusive is lost: while the counter still has the value the    *)
(* parked writer read, the last reader will find state = 3, or an          *)
(* increment is under way.  The threads must be no more than the values    *)
(* of the counter, 2^64 in the code: otherwise it could wrap around.       *)
THEOREM SoleWriterIsWoken ==
  ASSUME SoleWriter, Cardinality(Threads) <= WakeMod
  PROVE  Spec => []WakeIsOwed
<1>1. Init => WakeInv
  <2> SUFFICES ASSUME Init PROVE WakeInv
    OBVIOUS
  <2>1. LockInv
    BY LockInit
  <2>2. \A t \in Threads : pc[t] = "idle"
    BY DEF Init
  <2>3. ~BitSet
    BY DEF Init, BitSet, Even
  <2> QED
    BY <2>1, <2>2, <2>3
    DEF WakeInv, WritersOnly, BitIsDraining, WakesAreBounded, LastReaderWakes,
        Entering, Draining
<1>2. WakeInv /\ [Next]_vars => WakeInv'
  <2> SUFFICES ASSUME WakeInv, [Next]_vars PROVE WakeInv'
    OBVIOUS
  <2>1. CASE Next
    <3>1. PICK u \in Threads : Step(u)
      BY <2>1 DEF Next
    <3>2. LockInv'
      BY <3>1, TypePreserved, LockStep DEF WakeInv, LockInv
    <3> QED
      BY <3>1, <3>2, WritersOnlyStep, BitStep, WakesStep, LastReaderStep DEF WakeInv
  <2>2. CASE UNCHANGED vars
    BY <2>2 DEF vars, WakeInv, LockInv, TypeOK, StateCountsGuards, MutualExclusion,
       Reading, Writing, Waking, WritersOnly, BitIsDraining, BitSet, WakesAreBounded,
       Wakes, LastReaderWakes
  <2> QED
    BY <2>1, <2>2
<1>3. WakeInv => WakeIsOwed
  <2> SUFFICES ASSUME WakeInv, NEW t \in Threads, pc[t] = "parked",
                      writer_wake_counter = w[t], ~(state >= 3 /\ ~Even(state))
               PROVE  \E u \in Threads : pc[u] \in {"wake_last", "wake_release"}
    BY DEF WakeIsOwed
  <2>1. BitSet /\ state \in Nat /\ writer_wake_counter \in Nat
    BY DEF WakeInv, LockInv, TypeOK, BitIsDraining, Draining
  <2>2. state = 1
    BY <2>1 DEF BitSet, Even
  <2>3. Wakes(t) = 0
    BY <2>1 DEF Wakes
  <2> QED
    BY <2>2, <2>3 DEF WakeInv, LastReaderWakes, Waking
<1> QED
  BY <1>1, <1>2, <1>3, PTL DEF Spec
=============================================================================
