--------------------------- MODULE InputNoteRecord ---------------------------
(***************************************************************************)
(* One input note record and the data its states carry: the transitions of  *)
(* InputNoteStates driven by proofs, headers, nullifiers and transactions   *)
(* that arrive in any order and may be wrong. A field a state does not have *)
(* is None; a handler that fails leaves the record as it was.               *)
(***************************************************************************)
EXTENDS Naturals, InputNoteStates

CONSTANTS
  Proof,      \* inclusion proofs (with the metadata they come with)
  Root,       \* note roots of block headers
  Verifies,   \* the pairs <<proof, root>> that verify
  TxId,       \* local transactions that may consume the note
  Height,     \* block numbers
  None        \* a field the current state does not have

ASSUME RecordAssumption ==
  /\ Verifies \subseteq Proof \X Root
  /\ None \notin Proof \union Root \union TxId \union Height

VARIABLE note

Unknown(state, meta) ==
  [state |-> state, meta |-> meta, proof |-> None, root |-> None,
   tx |-> None, height |-> None]

Init == note \in {Unknown("Expected", meta) : meta \in BOOLEAN}

\* Wrong on purpose: accepts a proof without storing it.
KeepOldProof(p) ==
  LET next == Transition(note.state, "proof", p = note.proof) IN
  /\ next # Failed
  /\ note' = [note EXCEPT !.state = next, !.meta = TRUE]

\* A proof is stored by the states that have not verified one yet.
InclusionProofReceived(p) ==
  LET next == Transition(note.state, "proof", p = note.proof) IN
  /\ next # Failed
  /\ note' = IF next = "Unverified"
             THEN [Unknown(next, TRUE) EXCEPT !.proof = p]
             ELSE note

\* Wrong on purpose: commits without verifying the proof.
CommitUnverified(r) ==
  LET ok   == TRUE
      next == Transition(note.state, "header", ok) IN
  /\ next # Failed
  /\ note' = IF next = note.state THEN note
             ELSE [note EXCEPT !.state = next, !.root = r]

\* A header settles an unverified note: committed, or invalid.
BlockHeaderReceived(r) ==
  LET ok   == \/ note.state = "Committed" /\ r = note.root
              \/ note.state # "Committed" /\ <<note.proof, r>> \in Verifies
      next == Transition(note.state, "header", ok) IN
  /\ next # Failed
  /\ note' = IF next = note.state THEN note
             ELSE [note EXCEPT !.state = next, !.root = r]

\* Wrong on purpose: a second nullifier report overwrites the first.
ConsumedAgain(h) ==
  note' = [Unknown("ConsumedExternal", FALSE) EXCEPT !.height = h]

\* The nullifier appeared on chain and no local transaction accounts for it.
ConsumedExternally(h) ==
  LET next == Transition(note.state, "nullified", TRUE) IN
  note' = IF next = note.state THEN note
          ELSE [Unknown(next, FALSE) EXCEPT !.height = h]

\* A local transaction takes the note; an unverified proof is dropped.
ConsumedLocally(t) ==
  LET next == Transition(note.state, "local", note.meta) IN
  /\ next # Failed
  /\ note' = IF next = "ProcessingAuthenticated"
             THEN [note EXCEPT !.state = next, !.tx = t]
             ELSE [Unknown(next, TRUE) EXCEPT !.tx = t]

TransactionCommitted(t, h) ==
  LET next == Transition(note.state, "committed", t = note.tx) IN
  /\ next # Failed
  /\ note' = [note EXCEPT !.state = next, !.height = h]

\* Wrong on purpose: the request also resets authenticated notes.
ResetUnlessConsumed ==
  /\ note.state \notin Consumed
  /\ note' = Unknown("Expected", TRUE)

\* Executing a transaction request stores each of its notes that is not
\* authenticated as Expected, whatever state it was in.
UpsertRequestNote ==
  /\ note.state \notin Consumed \union Authenticated
  /\ note' = Unknown("Expected", TRUE)

Next ==
  \/ \E p \in Proof : InclusionProofReceived(p)
  \/ \E r \in Root : BlockHeaderReceived(r)
  \/ \E h \in Height : ConsumedExternally(h)
  \/ \E t \in TxId : ConsumedLocally(t)
  \/ \E t \in TxId, h \in Height : TransactionCommitted(t, h)
  \/ UpsertRequestNote

Spec == Init /\ [][Next]_note
------------------------------------------------------------------------------
\* The fields a record has are the ones its state type declares.
TypeOK ==
  /\ note \in [state : InputNoteState, meta : BOOLEAN,
               proof : Proof \union {None}, root : Root \union {None},
               tx : TxId \union {None}, height : Height \union {None}]
  /\ note.proof # None <=> note.state \in Authenticated \union {"Unverified", "Invalid"}
  /\ note.root # None <=> note.state \in Authenticated \union {"Invalid"}
  /\ note.tx # None <=>
       note.state \in (Processing \union Consumed) \ {"ConsumedExternal"}
  /\ note.height # None <=> note.state \in Consumed
  /\ note.meta \/ note.state \in {"Expected", "ConsumedExternal"}

\* is_authenticated is sound: a note it accepts holds a proof that verifies
\* against the note root it was checked with, whatever proofs and headers
\* came before, in whatever order, and whichever local transaction took it.
AuthenticatedIsVerified ==
  note.state \in Authenticated => <<note.proof, note.root>> \in Verifies

\* A consumed note is final: no late proof, header, nullifier or transaction
\* changes its state, its consumer or the height it was consumed at.
ConsumedIsFinal ==
  [][note.state \in Consumed => note' = note]_note

\* Authentication is never lost or swapped for another proof; the one way
\* out of it is to learn that the note was consumed elsewhere.
AuthenticationIsKept ==
  [][note.state \in Authenticated =>
       \/ note'.state = "ConsumedExternal"
       \/ note'.state \in Authenticated /\ note'.proof = note.proof]_note
==============================================================================
