------------------------ MODULE InputNoteRecordProofs ------------------------
(* Proofs about one input note record, for every set of proofs, note roots, *)
(* transactions and heights. TypeOK and AuthenticatedIsVerified together    *)
(* are inductive: a header can only commit the proof that is stored because *)
(* TypeOK ties the stored fields to the state.                              *)
EXTENDS InputNoteRecord, TLAPS

------------------------------------------------------------------------------
(* The events, read off the transition table once.                          *)

\* inclusion_proof_received: a note without a verified proof takes it.
LEMMA ProofTransition ==
  ASSUME NEW s \in InputNoteState, NEW ok \in BOOLEAN
  PROVE  Transition(s, "proof", ok) \in
           IF s \in {"Expected", "Unverified", "Invalid"} THEN {"Unverified"}
           ELSE {s, Failed}
BY SMT DEF InputNoteState, Transition, Failed,
  ExpectedNoteState, UnverifiedNoteState, CommittedNoteState, InvalidNoteState,
  ProcessingAuthenticatedNoteState, ProcessingUnauthenticatedNoteState,
  ConsumedAuthenticatedLocalNoteState, ConsumedUnauthenticatedLocalNoteState,
  ConsumedExternalNoteState

\* block_header_received: it settles a proof that is not verified yet.
LEMMA HeaderTransition ==
  ASSUME NEW s \in InputNoteState, NEW ok \in BOOLEAN
  PROVE  Transition(s, "header", ok) \in
           IF s \in {"Unverified", "Invalid"}
           THEN IF ok THEN {"Committed"} ELSE {"Invalid"}
           ELSE {s, Failed}
BY SMT DEF InputNoteState, Transition, Failed,
  ExpectedNoteState, UnverifiedNoteState, CommittedNoteState, InvalidNoteState,
  ProcessingAuthenticatedNoteState, ProcessingUnauthenticatedNoteState,
  ConsumedAuthenticatedLocalNoteState, ConsumedUnauthenticatedLocalNoteState,
  ConsumedExternalNoteState

\* consumed_externally: never fails, and leaves a consumed note alone.
LEMMA NullifiedTransition ==
  ASSUME NEW s \in InputNoteState, NEW ok \in BOOLEAN
  PROVE  Transition(s, "nullified", ok) =
           IF s \in Consumed THEN s ELSE "ConsumedExternal"
BY SMT DEF InputNoteState, Transition, Consumed,
  ExpectedNoteState, UnverifiedNoteState, CommittedNoteState, InvalidNoteState,
  ProcessingAuthenticatedNoteState, ProcessingUnauthenticatedNoteState,
  ConsumedAuthenticatedLocalNoteState, ConsumedUnauthenticatedLocalNoteState,
  ConsumedExternalNoteState

\* consumed_locally: only a note that nobody is consuming can be taken.
LEMMA LocalTransition ==
  ASSUME NEW s \in InputNoteState, NEW ok \in BOOLEAN
  PROVE  Transition(s, "local", ok) \in
           IF s = "Committed" THEN {"ProcessingAuthenticated"}
           ELSE IF s \in {"Expected", "Unverified"}
                THEN {"ProcessingUnauthenticated", Failed}
                ELSE {Failed}
BY SMT DEF InputNoteState, Transition, Failed,
  ExpectedNoteState, UnverifiedNoteState, CommittedNoteState, InvalidNoteState,
  ProcessingAuthenticatedNoteState, ProcessingUnauthenticatedNoteState,
  ConsumedAuthenticatedLocalNoteState, ConsumedUnauthenticatedLocalNoteState,
  ConsumedExternalNoteState

\* transaction_committed: only for a note that transaction is processing.
LEMMA CommittedTransition ==
  ASSUME NEW s \in InputNoteState, NEW ok \in BOOLEAN
  PROVE  Transition(s, "committed", ok) =
           IF s = "ProcessingAuthenticated" /\ ok THEN "ConsumedAuthenticatedLocal"
           ELSE IF s = "ProcessingUnauthenticated" /\ ok
                THEN "ConsumedUnauthenticatedLocal"
                ELSE Failed
BY SMT DEF InputNoteState, Transition, Failed,
  ExpectedNoteState, UnverifiedNoteState, CommittedNoteState, InvalidNoteState,
  ProcessingAuthenticatedNoteState, ProcessingUnauthenticatedNoteState,
  ConsumedAuthenticatedLocalNoteState, ConsumedUnauthenticatedLocalNoteState,
  ConsumedExternalNoteState

------------------------------------------------------------------------------

\* The invariant that the steps preserve.
RecordInv == TypeOK /\ AuthenticatedIsVerified

LEMMA InitRecordInv == Init => RecordInv
BY RecordAssumption
DEF Init, RecordInv, TypeOK, AuthenticatedIsVerified, Unknown, InputNoteState,
    Authenticated, Processing, Consumed

LEMMA NextRecordInv == RecordInv /\ [Next]_note => RecordInv'
<1> SUFFICES ASSUME RecordInv, [Next]_note PROVE RecordInv'
  OBVIOUS
<1> USE RecordAssumption DEF RecordInv
<1>s. note.state \in InputNoteState /\ note.meta \in BOOLEAN
  BY DEF TypeOK
<1>1. ASSUME NEW p \in Proof, InclusionProofReceived(p) PROVE RecordInv'
  <2> DEFINE next == Transition(note.state, "proof", p = note.proof)
  <2>1. next \in IF note.state \in {"Expected", "Unverified", "Invalid"}
                 THEN {"Unverified"} ELSE {note.state, Failed}
    BY <1>s, ProofTransition
  <2>2. note' = IF next = "Unverified"
                THEN [Unknown(next, TRUE) EXCEPT !.proof = p] ELSE note
    BY <1>1 DEF InclusionProofReceived
  <2> HIDE DEF next
  <2> QED
    BY <2>1, <2>2 DEF TypeOK, AuthenticatedIsVerified, Unknown, InputNoteState,
      Authenticated, Processing, Consumed
<1>2. ASSUME NEW r \in Root, BlockHeaderReceived(r) PROVE RecordInv'
  <2> DEFINE ok == \/ note.state = "Committed" /\ r = note.root
                   \/ note.state # "Committed" /\ <<note.proof, r>> \in Verifies
             next == Transition(note.state, "header", ok)
  <2>0. ok \in BOOLEAN
    OBVIOUS
  <2>a. ok /\ note.state # "Committed" => <<note.proof, r>> \in Verifies
    OBVIOUS
  <2>2. /\ next # Failed
        /\ note' = IF next = note.state THEN note
                   ELSE [note EXCEPT !.state = next, !.root = r]
    BY <1>2 DEF BlockHeaderReceived
  <2> HIDE DEF ok
  <2>1. next \in IF note.state \in {"Unverified", "Invalid"}
                 THEN IF ok THEN {"Committed"} ELSE {"Invalid"}
                 ELSE {note.state, Failed}
    BY <1>s, <2>0, HeaderTransition
  <2> HIDE DEF next
  <2> QED
    BY <2>a, <2>1, <2>2 DEF TypeOK, AuthenticatedIsVerified, InputNoteState,
      Authenticated, Processing, Consumed
<1>3. ASSUME NEW h \in Height, ConsumedExternally(h) PROVE RecordInv'
  <2>1. note' = IF note.state \in Consumed THEN note
                ELSE [Unknown("ConsumedExternal", FALSE) EXCEPT !.height = h]
    BY <1>s, <1>3, NullifiedTransition DEF ConsumedExternally, Consumed
  <2> QED
    BY <2>1 DEF TypeOK, AuthenticatedIsVerified, Unknown, InputNoteState,
      Authenticated, Processing, Consumed
<1>4. ASSUME NEW t \in TxId, ConsumedLocally(t) PROVE RecordInv'
  <2> DEFINE next == Transition(note.state, "local", note.meta)
  <2>1. next \in IF note.state = "Committed" THEN {"ProcessingAuthenticated"}
                 ELSE IF note.state \in {"Expected", "Unverified"}
                      THEN {"ProcessingUnauthenticated", Failed}
                      ELSE {Failed}
    BY <1>s, LocalTransition
  <2>2. /\ next # Failed
        /\ note' = IF next = "ProcessingAuthenticated"
                   THEN [note EXCEPT !.state = next, !.tx = t]
                   ELSE [Unknown(next, TRUE) EXCEPT !.tx = t]
    BY <1>4 DEF ConsumedLocally
  <2> HIDE DEF next
  <2> QED
    BY <2>1, <2>2 DEF TypeOK, AuthenticatedIsVerified, Unknown, InputNoteState,
      Authenticated, Processing, Consumed
<1>5. ASSUME NEW t \in TxId, NEW h \in Height, TransactionCommitted(t, h)
      PROVE  RecordInv'
  <2> DEFINE next == Transition(note.state, "committed", t = note.tx)
  <2>1. /\ next # Failed
        /\ note' = [note EXCEPT !.state = next, !.height = h]
    BY <1>5 DEF TransactionCommitted
  <2>2. \/ note.state = "ProcessingAuthenticated" /\ next = "ConsumedAuthenticatedLocal"
        \/ note.state = "ProcessingUnauthenticated" /\ next = "ConsumedUnauthenticatedLocal"
    BY <1>s, <2>1, CommittedTransition
  <2> HIDE DEF next
  <2> QED
    BY <2>1, <2>2 DEF TypeOK, AuthenticatedIsVerified, InputNoteState,
      Authenticated, Processing, Consumed
<1>6. CASE UpsertRequestNote
  BY <1>6 DEF UpsertRequestNote, TypeOK, AuthenticatedIsVerified, Unknown,
    InputNoteState, Authenticated, Processing, Consumed
<1>7. CASE UNCHANGED note
  BY <1>7 DEF TypeOK, AuthenticatedIsVerified
<1> QED
  BY <1>1, <1>2, <1>3, <1>4, <1>5, <1>6, <1>7 DEF Next

\* is_authenticated is sound in every reachable record: the stored proof of
\* an authenticated note verifies against the stored note root, and every
\* record has exactly the fields of its state.
THEOREM AuthenticationSound == Spec => [](TypeOK /\ AuthenticatedIsVerified)
BY InitRecordInv, NextRecordInv, PTL DEF Spec, RecordInv

LEMMA ConsumedStep ==
  TypeOK /\ [Next]_note => (note.state \in Consumed => note' = note)
<1> SUFFICES ASSUME TypeOK, [Next]_note, note.state \in Consumed PROVE note' = note
  OBVIOUS
<1>s. note.state \in InputNoteState /\ note.meta \in BOOLEAN
  BY DEF TypeOK
<1>1. ASSUME NEW p \in Proof, InclusionProofReceived(p) PROVE note' = note
  <2>1. Transition(note.state, "proof", p = note.proof) \in {note.state, Failed}
    BY <1>s, ProofTransition DEF Consumed
  <2> QED
    BY <1>1, <2>1 DEF InclusionProofReceived, Consumed, Failed
<1>2. ASSUME NEW r \in Root, BlockHeaderReceived(r) PROVE note' = note
  <2> DEFINE ok == \/ note.state = "Committed" /\ r = note.root
                   \/ note.state # "Committed" /\ <<note.proof, r>> \in Verifies
  <2>1. ok \in BOOLEAN
    OBVIOUS
  <2>2. Transition(note.state, "header", ok) # Failed
    BY <1>2 DEF BlockHeaderReceived
  <2>3. note' = IF Transition(note.state, "header", ok) = note.state THEN note
                ELSE [note EXCEPT !.state = Transition(note.state, "header", ok),
                                  !.root = r]
    BY <1>2 DEF BlockHeaderReceived
  <2> HIDE DEF ok
  <2>4. Transition(note.state, "header", ok) = note.state
    BY <1>s, <2>1, <2>2, HeaderTransition DEF Consumed
  <2> QED
    BY <2>3, <2>4
<1>3. ASSUME NEW h \in Height, ConsumedExternally(h) PROVE note' = note
  <2>1. Transition(note.state, "nullified", TRUE) = note.state
    BY <1>s, NullifiedTransition
  <2> QED
    BY <1>3, <2>1 DEF ConsumedExternally
<1>4. ASSUME NEW t \in TxId, ConsumedLocally(t) PROVE FALSE
  <2>1. Transition(note.state, "local", note.meta) = Failed
    BY <1>s, LocalTransition DEF Consumed
  <2> QED
    BY <1>4, <2>1 DEF ConsumedLocally
<1>5. ASSUME NEW t \in TxId, NEW h \in Height, TransactionCommitted(t, h) PROVE FALSE
  <2>1. Transition(note.state, "committed", t = note.tx) = Failed
    BY <1>s, CommittedTransition DEF Consumed
  <2> QED
    BY <1>5, <2>1 DEF TransactionCommitted
<1>6. CASE UpsertRequestNote
  BY <1>6 DEF UpsertRequestNote
<1> QED
  BY <1>1, <1>2, <1>3, <1>4, <1>5, <1>6 DEF Next

\* No event that arrives after a note counts as consumed changes anything
\* about it: its state, its consumer, the height it was consumed at.
THEOREM ConsumedFinal == Spec => ConsumedIsFinal
<1>1. TypeOK /\ [Next]_note => [note.state \in Consumed => note' = note]_note
  BY ConsumedStep
<1> QED
  BY <1>1, AuthenticationSound, PTL DEF Spec, ConsumedIsFinal

\* Every record has exactly the fields of its state, for every set of proofs,
\* roots, transactions and heights.
THEOREM FieldsFitState == Spec => []TypeOK
BY AuthenticationSound, PTL

\* What may follow an authenticated record.
Kept ==
  \/ note'.state = "ConsumedExternal"
  \/ note'.state \in Authenticated /\ note'.proof = note.proof

LEMMA AuthenticatedStep ==
  TypeOK /\ [Next]_note => (note.state \in Authenticated => Kept)
<1> SUFFICES ASSUME TypeOK, [Next]_note, note.state \in Authenticated PROVE Kept
  OBVIOUS
<1>s. note.state \in InputNoteState /\ note.meta \in BOOLEAN
  BY DEF TypeOK
<1>0. ASSUME note' = note PROVE Kept
  BY <1>0 DEF Kept
<1>1. ASSUME NEW p \in Proof, InclusionProofReceived(p) PROVE Kept
  <2>1. Transition(note.state, "proof", p = note.proof) \in {note.state, Failed}
    BY <1>s, ProofTransition DEF Authenticated
  <2> QED
    BY <1>0, <1>1, <2>1 DEF InclusionProofReceived, Authenticated, Failed
<1>2. ASSUME NEW r \in Root, BlockHeaderReceived(r) PROVE Kept
  <2> DEFINE ok == \/ note.state = "Committed" /\ r = note.root
                   \/ note.state # "Committed" /\ <<note.proof, r>> \in Verifies
  <2>1. ok \in BOOLEAN
    OBVIOUS
  <2>2. Transition(note.state, "header", ok) # Failed
    BY <1>2 DEF BlockHeaderReceived
  <2>3. note' = IF Transition(note.state, "header", ok) = note.state THEN note
                ELSE [note EXCEPT !.state = Transition(note.state, "header", ok),
                                  !.root = r]
    BY <1>2 DEF BlockHeaderReceived
  <2> HIDE DEF ok
  <2>4. Transition(note.state, "header", ok) = note.state
    BY <1>s, <2>1, <2>2, HeaderTransition DEF Authenticated
  <2> QED
    BY <1>0, <2>3, <2>4
<1>3. ASSUME NEW h \in Height, ConsumedExternally(h) PROVE Kept
  <2>1. note' = IF note.state \in Consumed THEN note
                ELSE [Unknown("ConsumedExternal", FALSE) EXCEPT !.height = h]
    BY <1>s, <1>3, NullifiedTransition DEF ConsumedExternally, Consumed
  <2> QED
    BY <1>0, <2>1 DEF Kept, Unknown
<1>4. ASSUME NEW t \in TxId, ConsumedLocally(t) PROVE Kept
  <2>1. Transition(note.state, "local", note.meta) = "ProcessingAuthenticated"
    BY <1>s, <1>4, LocalTransition DEF ConsumedLocally, Authenticated
  <2>2. note' = [note EXCEPT !.state = "ProcessingAuthenticated", !.tx = t]
    BY <1>4, <2>1 DEF ConsumedLocally
  <2> QED
    BY <2>2 DEF Kept, TypeOK, Authenticated
<1>5. ASSUME NEW t \in TxId, NEW h \in Height, TransactionCommitted(t, h) PROVE Kept
  <2>1. Transition(note.state, "committed", t = note.tx) = "ConsumedAuthenticatedLocal"
    BY <1>s, <1>5, CommittedTransition DEF TransactionCommitted, Authenticated
  <2>2. note' = [note EXCEPT !.state = "ConsumedAuthenticatedLocal", !.height = h]
    BY <1>5, <2>1 DEF TransactionCommitted
  <2> QED
    BY <2>2 DEF Kept, TypeOK, Authenticated
<1>6. CASE UpsertRequestNote
  BY <1>6 DEF UpsertRequestNote
<1> QED
  BY <1>0, <1>1, <1>2, <1>3, <1>4, <1>5, <1>6 DEF Next

\* Authentication is never lost to a later proof, header or transaction, nor
\* swapped for another proof: an authenticated note stays so with the proof
\* it has, until the network reports that somebody else consumed it.
THEOREM AuthenticationKept == Spec => AuthenticationIsKept
<1>1. TypeOK /\ [Next]_note => [note.state \in Authenticated => Kept]_note
  BY AuthenticatedStep
<1> QED
  BY <1>1, AuthenticationSound, PTL DEF Spec, AuthenticationIsKept, Kept
=============================================================================
