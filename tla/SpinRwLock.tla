------------------------------ MODULE SpinRwLock ------------------------------
(***************************************************************************)
(* The reader-writer spinlock that stands for RwLock in builds without the *)
(* standard library (miden-vm/crates/utils-sync/src/rw_lock.rs).           *)
(*                                                                         *)
(* Every step is one atomic access to state or to writer_wake_counter;     *)
(* between two steps of a thread any other thread may run.  pc[t] names    *)
(* the access thread t performs next, s[t] and w[t] are the locals of the  *)
(* two blocking operations.  Accesses are sequentially consistent: the     *)
(* code's Acquire/Release orderings are not weakened further.              *)
(***************************************************************************)
EXTENDS Naturals, FiniteSets

CONSTANTS Readers,   \* threads that call read() and try_read()
          Writers,   \* threads that call write() and try_write()
          UsizeMax,  \* usize::MAX, the "exclusively locked" sentinel
          WakeMod    \* writer_wake_counter wraps around at this value

Threads == Readers \cup Writers

(* A guard adds 2 to state; state never reaches the sentinel by counting.  *)
ASSUME ThreadsAssumption ==
  /\ IsFiniteSet(Threads)
  /\ UsizeMax \in Nat /\ UsizeMax % 2 = 1
  /\ 2 * Cardinality(Threads) + 1 < UsizeMax
  /\ WakeMod \in Nat \ {0, 1}

VARIABLES state, writer_wake_counter, pc, s, w

vars == <<state, writer_wake_counter, pc, s, w>>

PCs == {"idle",
        "shared_load", "shared", "try_shared_load", "try_shared", "reading", "wake_last",
        "excl_load", "excl", "drain_counter", "drain_state", "parked", "woken",
        "try_excl_load", "try_excl", "writing", "wake_release"}

Even(n) == n % 2 = 0

Goto(t, l) == pc' = [pc EXCEPT ![t] = l]

Init ==
  /\ state = 0
  /\ writer_wake_counter = 0
  /\ pc = [t \in Threads |-> "idle"]
  /\ s = [t \in Threads |-> 0]
  /\ w = [t \in Threads |-> 0]

-----------------------------------------------------------------------------
(* Entry points: lock_api calls one of the four operations.                *)

BeginShared(t) ==
  /\ t \in Readers /\ pc[t] = "idle"
  /\ \E op \in {"shared_load", "try_shared_load"} : Goto(t, op)
  /\ UNCHANGED <<state, writer_wake_counter, s, w>>

BeginExclusive(t) ==
  /\ t \in Writers /\ pc[t] = "idle"
  /\ \E op \in {"excl_load", "try_excl_load"} : Goto(t, op)
  /\ UNCHANGED <<state, writer_wake_counter, s, w>>

(* The Relaxed load each operation starts with.                            *)
LoadState(t) ==
  /\ \/ pc[t] = "shared_load" /\ Goto(t, "shared")
     \/ pc[t] = "try_shared_load" /\ Goto(t, "try_shared")
     \/ pc[t] = "excl_load" /\ Goto(t, "excl")
     \/ pc[t] = "try_excl_load" /\ Goto(t, "try_excl")
  /\ s' = [s EXCEPT ![t] = state]
  /\ UNCHANGED <<state, writer_wake_counter, w>>

-----------------------------------------------------------------------------
SharedAcquireOverBit(t) ==
  /\ pc[t] = "shared" /\ s[t] \notin {1, UsizeMax}
  /\ state = s[t]
  /\ state' = s[t] + 2
  /\ Goto(t, "reading")
  /\ UNCHANGED <<writer_wake_counter, s, w>>

(* lock_shared: with the exclusive bit clear, compare_exchange_weak from s *)
(* to s + 2, which may also fail spuriously.                               *)
SharedAcquire(t) ==
  /\ pc[t] = "shared" /\ Even(s[t])
  /\ state = s[t]
  /\ state' = s[t] + 2
  /\ Goto(t, "reading")
  /\ UNCHANGED <<writer_wake_counter, s, w>>

SharedRetry(t) ==
  /\ pc[t] = "shared" /\ Even(s[t])
  /\ s' = [s EXCEPT ![t] = state]
  /\ UNCHANGED <<state, writer_wake_counter, pc, w>>

(* With the bit set: spin until the state is not the one last seen.        *)
SharedSpin(t) ==
  /\ pc[t] = "shared" /\ ~Even(s[t])
  /\ state # s[t]
  /\ s' = [s EXCEPT ![t] = state]
  /\ UNCHANGED <<state, writer_wake_counter, pc, w>>

(* try_lock_shared: one attempt, true only if the exchange succeeds.       *)
TryShared(t) ==
  /\ pc[t] = "try_shared"
  /\ \/ /\ Even(s[t]) /\ state = s[t]
        /\ state' = s[t] + 2
        /\ Goto(t, "reading")
     \/ Goto(t, "idle") /\ UNCHANGED state
  /\ UNCHANGED <<writer_wake_counter, s, w>>

UnlockSharedLastGuard(t) ==
  /\ pc[t] = "reading"
  /\ state' = state - 2
  /\ Goto(t, IF state = 2 THEN "wake_last" ELSE "idle")
  /\ UNCHANGED <<writer_wake_counter, s, w>>

(* unlock_shared: the guard that leaves only the exclusive bit behind owes *)
(* the waiting writer an increment of the wake counter.                    *)
UnlockShared(t) ==
  /\ pc[t] = "reading"
  /\ state' = state - 2
  /\ Goto(t, IF state = 3 THEN "wake_last" ELSE "idle")
  /\ UNCHANGED <<writer_wake_counter, s, w>>

Wake(t) ==
  /\ pc[t] \in {"wake_last", "wake_release"}
  /\ writer_wake_counter' = (writer_wake_counter + 1) % WakeMod
  /\ Goto(t, "idle")
  /\ UNCHANGED <<state, s, w>>

-----------------------------------------------------------------------------
ExclAcquireStale(t) ==
  /\ pc[t] = "excl" /\ s[t] <= 1
  /\ state' = UsizeMax
  /\ Goto(t, "writing")
  /\ UNCHANGED <<writer_wake_counter, s, w>>

(* lock_exclusive, free (or only the bit set): exchange for the sentinel.  *)
ExclAcquire(t) ==
  /\ pc[t] = "excl" /\ s[t] <= 1
  /\ state = s[t]
  /\ state' = UsizeMax
  /\ Goto(t, "writing")
  /\ UNCHANGED <<writer_wake_counter, s, w>>

(* A failed exchange, of either kind: adopt the state seen and start over. *)
ExclRetry(t) ==
  /\ pc[t] = "excl" /\ (s[t] <= 1 \/ Even(s[t]))
  /\ state # s[t]
  /\ s' = [s EXCEPT ![t] = state]
  /\ UNCHANGED <<state, writer_wake_counter, pc, w>>

ExclSetBitStale(t) ==
  /\ pc[t] = "excl" /\ s[t] > 1 /\ Even(s[t])
  /\ state' = s[t] + 1
  /\ Goto(t, "drain_counter")
  /\ UNCHANGED <<writer_wake_counter, s, w>>

(* Readers inside and the bit clear: set the bit.                          *)
ExclSetBit(t) ==
  /\ pc[t] = "excl" /\ s[t] > 1 /\ Even(s[t])
  /\ state = s[t]
  /\ state' = s[t] + 1
  /\ Goto(t, "drain_counter")
  /\ UNCHANGED <<writer_wake_counter, s, w>>

(* The bit was already set in the state seen, or the sentinel was.         *)
ExclBitSeen(t) ==
  /\ pc[t] = "excl" /\ s[t] > 1 /\ ~Even(s[t])
  /\ Goto(t, "drain_counter")
  /\ UNCHANGED <<state, writer_wake_counter, s, w>>

DrainCounter(t) ==
  /\ pc[t] = "drain_counter"
  /\ w' = [w EXCEPT ![t] = writer_wake_counter]
  /\ Goto(t, "drain_state")
  /\ UNCHANGED <<state, writer_wake_counter, s>>

DrainState(t) ==
  /\ pc[t] = "drain_state"
  /\ s' = [s EXCEPT ![t] = state]
  /\ Goto(t, IF state >= 2 THEN "parked" ELSE "excl")
  /\ UNCHANGED <<state, writer_wake_counter, w>>

(* The parked loop leaves once the counter differs from w, then reloads.   *)
Unpark(t) ==
  /\ pc[t] = "parked"
  /\ writer_wake_counter # w[t]
  /\ Goto(t, "woken")
  /\ UNCHANGED <<state, writer_wake_counter, s, w>>

Reload(t) ==
  /\ pc[t] = "woken"
  /\ s' = [s EXCEPT ![t] = state]
  /\ Goto(t, "excl")
  /\ UNCHANGED <<state, writer_wake_counter, w>>

(* try_lock_exclusive: one attempt.                                        *)
TryExcl(t) ==
  /\ pc[t] = "try_excl"
  /\ \/ /\ s[t] <= 1 /\ state = s[t]
        /\ state' = UsizeMax
        /\ Goto(t, "writing")
     \/ /\ s[t] > 1 \/ state # s[t]
        /\ Goto(t, "idle") /\ UNCHANGED state
  /\ UNCHANGED <<writer_wake_counter, s, w>>

(* unlock_exclusive: store 0, then increment the wake counter (Wake).      *)
UnlockExclusive(t) ==
  /\ pc[t] = "writing"
  /\ state' = 0
  /\ Goto(t, "wake_release")
  /\ UNCHANGED <<writer_wake_counter, s, w>>

Step(t) ==
  \/ BeginShared(t) \/ BeginExclusive(t) \/ LoadState(t)
  \/ SharedAcquire(t) \/ SharedRetry(t) \/ SharedSpin(t) \/ TryShared(t)
  \/ UnlockShared(t) \/ Wake(t)
  \/ ExclAcquire(t) \/ ExclRetry(t) \/ ExclSetBit(t) \/ ExclBitSeen(t)
  \/ DrainCounter(t) \/ DrainState(t) \/ Unpark(t) \/ Reload(t)
  \/ TryExcl(t) \/ UnlockExclusive(t)

Next == \E t \in Threads : Step(t)

Spec == Init /\ [][Next]_vars

(* Each thread is scheduled, and drops a guard it holds; nothing obliges a *)
(* thread to begin an operation, and no exchange is obliged to succeed     *)
(* while other threads keep changing the state.                            *)
Fairness ==
  \A t \in Threads :
    WF_vars(Step(t) /\ ~BeginShared(t) /\ ~BeginExclusive(t))

FairSpec == Spec /\ Fairness

-----------------------------------------------------------------------------
Reading == {t \in Threads : pc[t] = "reading"}
Writing == {t \in Threads : pc[t] = "writing"}

(* The variables have the types of the code's atomics and locals.          *)
TypeOK ==
  /\ state \in 0 .. UsizeMax
  /\ writer_wake_counter \in 0 .. WakeMod - 1
  /\ pc \in [Threads -> PCs]
  /\ s \in [Threads -> 0 .. UsizeMax]
  /\ w \in [Threads -> 0 .. WakeMod - 1]

(* lock_api's contract for RawRwLock: while a write guard exists there is  *)
(* no other guard of either kind, whatever stale value of state the        *)
(* exchanges of other threads started from.                                *)
MutualExclusion ==
  \A t \in Writing : Reading = {} /\ Writing = {t}

(* "The lock state is based on a locked count": the sentinel stands for    *)
(* exactly one write guard, any other value counts two for every read      *)
(* guard plus the exclusive bit.  No release can underflow it.             *)
StateCountsGuards ==
  /\ state = UsizeMax <=> Writing # {}
  /\ state # UsizeMax =>
       state \in {2 * Cardinality(Reading), 2 * Cardinality(Reading) + 1}

(* A parked writer is waiting "until the release of the last shared lock,  *)
(* which is communicated to us by it incrementing the wake counter": as    *)
(* long as the counter still has the value the writer read, somebody is    *)
(* going to increment it, because the last reader will find state = 3, a   *)
(* write guard will be dropped, or an increment is already under way.      *)
WakeIsOwed ==
  \A t \in Threads :
    pc[t] = "parked" /\ writer_wake_counter = w[t] =>
      \/ state >= 3 /\ ~Even(state)
      \/ \E u \in Threads : pc[u] \in {"wake_last", "wake_release"}

(* write() "blocks the caller until acquired": a writer that parked does   *)
(* acquire the lock, once every guard is dropped.                          *)
ParkedWriterAcquires ==
  \A t \in Threads : pc[t] = "parked" ~> pc[t] = "writing"
=============================================================================
