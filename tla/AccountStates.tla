---------------------------- MODULE AccountStates ----------------------------
(* The states the tracked account goes through, named by their commitment,  *)
(* and the nonce each of them carries. Shared by the network and the store. *)
EXTENDS Naturals

CONSTANTS
  State,      \* account states (commitments)
  NoState,    \* no state: no row, or no roots
  Nonce       \* the nonce of a state

ASSUME StateAssumption ==
  /\ NoState \notin State
  /\ Nonce \in [State -> Nat]
==============================================================================
