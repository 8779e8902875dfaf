----------------------------- MODULE MCClientSync -----------------------------
(* Two transactions of this client in a chain (t1: s0 -> s1, t2: s1 -> s2)  *)
(* and one made elsewhere that competes with the first (x1: s0 -> a1). t1   *)
(* consumes a note n1 made outside and creates n2, which t2 consumes.       *)
EXTENDS ClientSync, TLC

CONSTANTS t1, t2, x1, n1, n2

MCTx == {t1, t2}
MCOtherTx == {x1}
MCState == {"s0", "s1", "s2", "a1"}
MCNonce == [s \in MCState |-> CASE s = "s0" -> 0 [] s = "s2" -> 2 [] OTHER -> 1]
MCNote == {n1, n2}
MCInitState == t1 :> "s0" @@ t2 :> "s1" @@ x1 :> "s0"
MCFinalState == t1 :> "s1" @@ t2 :> "s2" @@ x1 :> "a1"
MCInputs == t1 :> {n1} @@ t2 :> {n2} @@ x1 :> {}
MCOutputs == t1 :> {n2} @@ t2 :> {} @@ x1 :> {}
MCExpiration == t1 :> 3 @@ t2 :> 2 @@ x1 :> 3

\* Whether two calls of the pipeline, or one and a sync, have overlapped: the
\* caller of execute_transaction, submit_proven_transaction and
\* apply_transaction may let them, submit_new_transaction does not.
VARIABLE overlapped

Overlaps ==
  LET busy == {t \in Tx : stage[t] # "idle"}
  IN  Cardinality(busy) > 1 \/ (busy # {} /\ target # 0)

HistoryInit == Init /\ overlapped = FALSE
HistoryNext == Next /\ overlapped' = (overlapped \/ Overlaps')
HistorySpec == HistoryInit /\ [][HistoryNext]_<<vars, overlapped>>

\* A pending transaction can be undone as long as the caller has made its
\* calls one by one: apply_transaction put both its states into the store.
SerialPendingCanBeUndone == overlapped \/ PendingCanBeUndone

\* For a caller that makes its calls one by one, rollback, refresh and lock
\* leave the client with a state of the chain or a locked account.
SerialSettledMatchesChain == overlapped \/ SettledMatchesChain
==============================================================================
