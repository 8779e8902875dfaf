-------------------------- MODULE MCClientSyncPublic --------------------------
(* A public account: one transaction of this client (t1: s0 -> s1), which    *)
(* consumes n1 and creates n2, and one that another client makes from the    *)
(* state it leaves (x1: s1 -> s2), consuming n2. Both notes are public. Small *)
(* enough to follow every infinite behaviour.                                *)
EXTENDS ClientSync, TLC

CONSTANTS t1, x1, n1, n2

MCTx == {t1}
MCOtherTx == {x1}
MCState == {"s0", "s1", "s2"}
MCNonce == [s \in MCState |-> CASE s = "s0" -> 0 [] s = "s1" -> 1 [] OTHER -> 2]
MCNote == {n1, n2}
MCInitState == t1 :> "s0" @@ x1 :> "s1"
MCFinalState == t1 :> "s1" @@ x1 :> "s2"
MCInputs == t1 :> {n1} @@ x1 :> {n2}
MCOutputs == t1 :> {n2} @@ x1 :> {}
MCExpiration == t1 :> 4 @@ x1 :> 3
==============================================================================
