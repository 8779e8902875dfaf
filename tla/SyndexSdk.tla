------------------------------ MODULE SyndexSdk ------------------------------
(***************************************************************************)
(* The Syndex SDK: SyndexClient, one institution's view of the shared model.*)
(* A hash is a word of limbs; the model root is the xor of the accepted     *)
(* gradient hashes, limb by limb. Timestamps are left out: nothing reads    *)
(* them.                                                                    *)
(***************************************************************************)
EXTENDS Naturals, Sequences, SequencesExt, Bitwise

CONSTANTS
  Limb,           \* indices of a word's limbs
  LimbValue,      \* the values a limb may have
  BOUND,          \* 1_000_000_000_000: limbs of a gradient stay below it
  U32Max,         \* the largest u32
  InstitutionId,  \* ids to register with
  Unregistered,   \* no id
  MaxUpdates      \* bound: calls that push to the history (a Vec has none)

ASSUME SdkAssumption ==
  /\ LimbValue \subseteq Nat /\ BOUND \in Nat /\ U32Max \in Nat
  /\ Unregistered \notin InstitutionId /\ MaxUpdates \in Nat

VARIABLES
  institution,        \* its id, or Unregistered
  model_root, participant_count,
  gradient_history,   \* the pushed updates
  result              \* what the last call returned

vars == <<institution, model_root, participant_count, gradient_history, result>>

Word == [Limb -> LimbValue]
Zero == [i \in Limb |-> 0]
XorWords(v, w) == [i \in Limb |-> v[i] ^^ w[i]]

Init ==
  /\ institution = Unregistered
  /\ model_root = Zero /\ participant_count = 0
  /\ gradient_history = <<>> /\ result = "none"

Register(id) ==
  /\ institution' = IF institution = Unregistered THEN id ELSE institution
  /\ result' = IF institution = Unregistered THEN "ok" ELSE "already registered"
  /\ UNCHANGED <<model_root, participant_count, gradient_history>>

\* Wrong on purpose: a zero gradient passes.
ValidOrZero(gradient, proof) ==
  /\ proof # Zero
  /\ \A i \in Limb : gradient[i] < BOUND
  /\ proof # gradient

\* Wrong on purpose: a limb may be as large as the bound.
ValidAtBound(gradient, proof) ==
  /\ gradient # Zero /\ proof # Zero
  /\ \A i \in Limb : gradient[i] <= BOUND
  /\ proof # gradient

\* verify_gradient_validity; the id of an update the client makes is its own.
Valid(gradient, proof) ==
  /\ gradient # Zero /\ proof # Zero
  /\ \A i \in Limb : gradient[i] < BOUND
  /\ proof # gradient

SubmitRejected(gradient, proof) ==
  /\ institution = Unregistered \/ ~Valid(gradient, proof)
  /\ result' = IF institution = Unregistered THEN "not registered" ELSE "invalid"
  /\ UNCHANGED <<institution, model_root, participant_count, gradient_history>>

\* Wrong on purpose: the newest gradient becomes the root.
Replaced(root, gradient) == gradient

\* The root a gradient leads to.
Aggregated(root, gradient) == XorWords(root, gradient)

\* submit_gradient_update past its checks: the history and the root change
\* before the last check, the count only after it.
Submit(gradient, proof) ==
  LET root == Aggregated(model_root, gradient)
      moved == root # model_root
  IN
  /\ institution # Unregistered /\ Valid(gradient, proof)
  /\ Len(gradient_history) < MaxUpdates
  /\ gradient_history' = Append(gradient_history, [gradient |-> gradient, proof |-> proof])
  /\ model_root' = root
  /\ participant_count' = IF moved /\ participant_count < U32Max
                          THEN participant_count + 1 ELSE participant_count
  /\ result' = IF moved THEN "ok" ELSE "unchanged"
  /\ UNCHANGED institution

Next ==
  \/ \E id \in InstitutionId : Register(id)
  \/ \E gradient, proof \in Word : SubmitRejected(gradient, proof) \/ Submit(gradient, proof)

Spec == Init /\ [][Next]_vars
------------------------------------------------------------------------------
\* The history holds words whose gradients are within the bound and differ
\* from their proofs, as verify_gradient_validity demands.
TypeOK ==
  /\ institution \in InstitutionId \union {Unregistered}
  /\ model_root \in [Limb -> Nat] /\ participant_count \in 0 .. U32Max
  /\ result \in {"none", "ok", "already registered", "not registered", "invalid", "unchanged"}
  /\ \A k \in DOMAIN gradient_history :
       LET u == gradient_history[k] IN
       /\ u.gradient \in [Limb -> 0 .. BOUND - 1]
       /\ u.proof \in Word \ {Zero, u.gradient}

\* The root is the xor of every gradient in the history, whatever was
\* rejected in between (submit_gradient_update changes both or neither).
RootIsHistory ==
  model_root = FoldLeft(LAMBDA root, u : XorWords(root, u.gradient), Zero, gradient_history)

\* The update that fails after the push does not exist: the count is the
\* length of the history up to the largest u32, so no call ended in "model
\* root unchanged after update" with the update already in the history.
CountIsHistory ==
  participant_count = IF Len(gradient_history) > U32Max THEN U32Max ELSE Len(gradient_history)
==============================================================================
