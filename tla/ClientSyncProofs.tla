--------------------------- MODULE ClientSyncProofs ---------------------------
(***************************************************************************)
(* Proofs about the client and its store against the network, for every set *)
(* of transactions, notes and account states, in every interleaving of the  *)
(* pipeline, the syncs, the network and restarts.                           *)
(***************************************************************************)
EXTENDS ClientSync, TLAPS

------------------------------------------------------------------------------
(* The events of an input note, read off its transition table once.         *)

\* consumed_externally: never fails, and leaves a consumed note alone.
LEMMA NullifiedTransition ==
  ASSUME NEW s \in InputNoteState, NEW ok \in BOOLEAN
  PROVE  Transition(s, "nullified", ok) =
           IF s \in Consumed THEN s ELSE "ConsumedExternal"
BY SMT DEF InputNoteState, Transition, Consumed,
  ExpectedNoteState, UnverifiedNoteState, CommittedNoteState, InvalidNoteState,
  ProcessingAuthenticatedNoteState, ProcessingUnauthenticatedNoteState,
  ConsumedAuthenticatedLocalNoteState, ConsumedUnauthenticatedLocalNoteState,
  ConsumedExternalNoteState

\* consumed_locally: only a note that nobody is consuming can be taken.
LEMMA LocalTransition ==
  ASSUME NEW s \in InputNoteState, NEW ok \in BOOLEAN
  PROVE  Transition(s, "local", ok) \in
           IF s = "Committed" THEN {"ProcessingAuthenticated"}
           ELSE IF s \in {"Expected", "Unverified"}
                THEN {"ProcessingUnauthenticated", Failed}
                ELSE {Failed}
BY SMT DEF InputNoteState, Transition, Failed,
  ExpectedNoteState, UnverifiedNoteState, CommittedNoteState, InvalidNoteState,
  ProcessingAuthenticatedNoteState, ProcessingUnauthenticatedNoteState,
  ConsumedAuthenticatedLocalNoteState, ConsumedUnauthenticatedLocalNoteState,
  ConsumedExternalNoteState

\* transaction_committed: only for a note that transaction is processing.
LEMMA CommittedTransition ==
  ASSUME NEW s \in InputNoteState, NEW ok \in BOOLEAN
  PROVE  Transition(s, "committed", ok) =
           IF s = "ProcessingAuthenticated" /\ ok THEN "ConsumedAuthenticatedLocal"
           ELSE IF s = "ProcessingUnauthenticated" /\ ok
                THEN "ConsumedUnauthenticatedLocal"
                ELSE Failed
BY SMT DEF InputNoteState, Transition, Failed,
  ExpectedNoteState, UnverifiedNoteState, CommittedNoteState, InvalidNoteState,
  ProcessingAuthenticatedNoteState, ProcessingUnauthenticatedNoteState,
  ConsumedAuthenticatedLocalNoteState, ConsumedUnauthenticatedLocalNoteState,
  ConsumedExternalNoteState

\* A sync hands a note its proof and the matching header together.
LEMMA InclusionTransition ==
  ASSUME NEW s \in Unspent
  PROVE  Transition(Transition(s, "proof", TRUE), "header", TRUE) =
           IF s \in Processing THEN s ELSE "Committed"
<1> USE DEF Transition
<1>1. CASE s \in {"Expected", "Unverified"}
  <2>1. Transition(s, "proof", TRUE) = "Unverified"
    BY <1>1 DEF ExpectedNoteState, UnverifiedNoteState
  <2>2. Transition("Unverified", "header", TRUE) = "Committed"
    BY DEF UnverifiedNoteState
  <2> QED
    BY <1>1, <2>1, <2>2 DEF Processing
<1>2. CASE s = "Committed"
  BY <1>2 DEF CommittedNoteState, Processing
<1>3. CASE s = "ProcessingAuthenticated"
  BY <1>3 DEF ProcessingAuthenticatedNoteState, Processing
<1>4. CASE s = "ProcessingUnauthenticated"
  BY <1>4 DEF ProcessingUnauthenticatedNoteState, Processing
<1> QED
  BY <1>1, <1>2, <1>3, <1>4 DEF Unspent, InputNoteState, Consumed
------------------------------------------------------------------------------
(* The account store.                                                       *)

LEMMA EmptyStack == <<>> \in Seq(State \union {NoState})
OBVIOUS

LEMMA NewStoreType == ASSUME NEW s \in State PROVE NewStore(s) \in Store
BY EmptyStack DEF NewStore, Store

LEMMA InsertHeaderType ==
  ASSUME NEW a \in Store, NEW new \in State, NEW old \in State \union {NoState}
  PROVE  InsertHeader(a, new, old) \in Store
<1> USE StateAssumption
<1>1. CASE old = NoState
  BY <1>1 DEF InsertHeader, Store
<1>2. CASE old # NoState
  <2>1. [a.history EXCEPT ![old] = Nonce[new]] \in [State -> Nat]
    BY <1>2 DEF Store
  <2>2. (IF a.locked THEN a.frozen \union {old} ELSE a.frozen \ {old}) \in SUBSET State
    BY <1>2 DEF Store
  <2> QED
    BY <1>2, <2>1, <2>2 DEF InsertHeader, Store
<1> QED
  BY <1>1, <1>2

LEMMA ApplyDeltaType ==
  ASSUME NEW a \in Store, NEW new \in State, NEW old \in State \union {NoState}
  PROVE  ApplyDelta(a, old, new) \in Store
<1>1. InsertHeader(a, new, old) \in Store
  BY InsertHeaderType
<1>2. Append(a.staged, a.roots) \in Seq(State \union {NoState})
  BY DEF Store
<1> QED
  BY <1>1, <1>2 DEF ApplyDelta, Store

LEMMA UpdateStateType ==
  ASSUME NEW a \in Store, NEW new \in State
  PROVE  UpdateState(a, new) \in Store
<1>1. InsertHeader(a, new, a.latest) \in Store
  BY InsertHeaderType DEF Store
<1> QED
  BY <1>1 DEF UpdateState, Store

LEMMA CommitRootsType == ASSUME NEW a \in Store PROVE CommitRoots(a) \in Store
BY EmptyStack DEF CommitRoots, Store

LEMMA DiscardRootsType ==
  ASSUME NEW a \in Store, NEW k \in Nat PROVE DiscardRoots(a, k) \in Store
<1> DEFINE n == Len(a.staged)
<1>0. a.staged \in Seq(State \union {NoState}) /\ n \in Nat
  BY DEF Store
<1>1. CASE k = 0
  BY <1>1 DEF DiscardRoots
<1>2. CASE k > 0 /\ k <= n
  <2>1. a.staged[n - k + 1] \in State \union {NoState}
    BY <1>0, <1>2
  <2>2. SubSeq(a.staged, 1, n - k) \in Seq(State \union {NoState})
    BY <1>0, <1>2
  <2>3. DiscardRoots(a, k) = [a EXCEPT !.roots = a.staged[n - k + 1],
                                       !.staged = SubSeq(a.staged, 1, n - k)]
    BY <1>0, <1>2 DEF DiscardRoots
  <2> QED
    BY <2>1, <2>2, <2>3 DEF Store
<1>3. CASE k > n
  <2>1. DiscardRoots(a, k) = [a EXCEPT !.roots = NoState, !.staged = <<>>]
    BY <1>0, <1>3 DEF DiscardRoots
  <2> QED
    BY <2>1, EmptyStack DEF Store
<1> QED
  BY <1>0, <1>1, <1>2, <1>3

LEMMA UndoHeadersType ==
  ASSUME NEW a \in Store, NEW discarded \in SUBSET State
  PROVE  UndoHeaders(a, discarded) \in Store
<1> DEFINE nonces == DiscardedNonces(a, discarded)
           prior == PriorStates(a, nonces)
           old == CHOOSE s \in prior : TRUE
           latest == IF prior = {} THEN NoState ELSE old
           locked == prior # {} /\ old \in a.frozen
           history == [s \in State |-> IF a.history[s] \in nonces THEN 0 ELSE a.history[s]]
           frozen == {s \in a.frozen : a.history[s] \notin nonces}
<1>1. latest \in State \union {NoState}
  BY DEF PriorStates, Archived
<1>2. locked \in BOOLEAN
  OBVIOUS
<1>3. history \in [State -> Nat]
  BY DEF Store
<1>4. frozen \in SUBSET State
  BY DEF Store
<1>5. UndoHeaders(a, discarded) =
        IF nonces = {} THEN a
        ELSE [a EXCEPT !.latest = latest, !.locked = locked,
                       !.history = history, !.frozen = frozen]
  BY DEF UndoHeaders
<1> HIDE DEF nonces, latest, locked, history, frozen
<1> QED
  BY <1>1, <1>2, <1>3, <1>4, <1>5 DEF Store

LEMMA UndoType ==
  ASSUME NEW a \in Store, NEW finals \in SUBSET State, NEW count \in Nat
  PROVE  Undo(a, finals, count) \in Store
BY UndoHeadersType, DiscardRootsType DEF Undo

LEMMA LockOnType ==
  ASSUME NEW a \in Store, NEW digest PROVE LockOn(a, digest) \in Store
<1>1. Archived(a) \in SUBSET State
  BY DEF Archived
<1>2. (a.latest # NoState) \in BOOLEAN
  OBVIOUS
<1> QED
  BY <1>1, <1>2 DEF LockOn, Store

LEMMA ReopenType == ASSUME NEW a \in Store PROVE Reopen(a) \in Store
BY EmptyStack DEF Reopen, Store
------------------------------------------------------------------------------
\* Discarding a transaction right after it was applied gives back the very
\* store it was applied to: header, lock, history and forest alike. The
\* header must not be archived already and the nonce must be new, which is
\* what the nonce increment of every transaction provides.
THEOREM UndoInvertsApply ==
  ASSUME NEW a \in Store, a.latest # NoState,
         NEW new \in State, Nonce[new] # 0,
         \A s \in State : a.history[s] # Nonce[new],
         a.history[a.latest] = 0, a.latest \notin a.frozen
  PROVE  Undo(ApplyDelta(a, a.latest, new), {new}, 1) = a
<1> DEFINE old == a.latest
           b == ApplyDelta(a, old, new)
           nonces == DiscardedNonces(b, {new})
           c == UndoHeaders(b, {new})
<1>0. old \in State /\ Nonce[new] \in Nat
  BY StateAssumption DEF Store
<1>1. /\ b \in Store
      /\ b.latest = new
      /\ b.history = [a.history EXCEPT ![old] = Nonce[new]]
      /\ b.frozen = IF a.locked THEN a.frozen \union {old} ELSE a.frozen \ {old}
      /\ b.roots = new
      /\ b.staged = Append(a.staged, a.roots)
  <2> DEFINE h == InsertHeader(a, new, old)
  <2>1. h \in Store
    BY <1>0, InsertHeaderType
  <2>2. /\ h.latest = new
        /\ h.history = [a.history EXCEPT ![old] = Nonce[new]]
        /\ h.frozen = IF a.locked THEN a.frozen \union {old} ELSE a.frozen \ {old}
    BY <1>0, StateAssumption DEF InsertHeader, Store
  <2>3. b = [h EXCEPT !.roots = new, !.staged = Append(a.staged, a.roots)]
    BY DEF ApplyDelta
  <2>4. b \in Store
    BY <1>0, ApplyDeltaType
  <2> HIDE DEF h, b
  <2> QED
    BY <2>1, <2>2, <2>3, <2>4 DEF Store
<1> HIDE DEF b
<1>2. nonces = {Nonce[new]}
  BY <1>1 DEF DiscardedNonces
<1>3. \A s \in State : b.history[s] = IF s = old THEN Nonce[new] ELSE a.history[s]
  BY <1>0, <1>1 DEF Store
<1>4. PriorStates(b, nonces) = {old}
  BY <1>0, <1>2, <1>3 DEF PriorStates, Archived
<1> HIDE DEF nonces
<1>5. /\ c \in Store
      /\ c.latest = old
      /\ c.locked = (old \in b.frozen)
      /\ c.history = [s \in State |-> IF b.history[s] \in nonces THEN 0 ELSE b.history[s]]
      /\ c.frozen = {s \in b.frozen : b.history[s] \notin nonces}
      /\ c.roots = b.roots
      /\ c.staged = b.staged
  <2>1. {new} \in SUBSET State /\ c \in Store
    BY <1>1, UndoHeadersType
  <2>2. c = [b EXCEPT !.latest = old,
                      !.locked = (old \in b.frozen),
                      !.history = [s \in State |-> IF b.history[s] \in nonces THEN 0
                                                   ELSE b.history[s]],
                      !.frozen = {s \in b.frozen : b.history[s] \notin nonces}]
    <3> DEFINE prior == PriorStates(b, nonces)
               first == CHOOSE s \in prior : TRUE
    <3>1. prior # {} /\ nonces # {}
      BY <1>2, <1>4
    <3>2. first = old
      BY <1>4
    <3>3. c = [b EXCEPT !.latest = IF prior = {} THEN NoState ELSE first,
                        !.locked = prior # {} /\ first \in b.frozen,
                        !.history = [s \in State |-> IF b.history[s] \in nonces THEN 0
                                                     ELSE b.history[s]],
                        !.frozen = {s \in b.frozen : b.history[s] \notin nonces}]
      BY <3>1 DEF UndoHeaders, nonces
    <3>4. (prior # {} /\ first \in b.frozen) = (old \in b.frozen)
      <4>1. (prior # {} /\ first \in b.frozen) <=> (old \in b.frozen)
        BY <3>1, <3>2, Zenon
      <4> QED
        BY <4>1
    <3>5. (IF prior = {} THEN NoState ELSE first) = old
      BY <3>1, <3>2
    <3> QED
      BY <3>3, <3>4, <3>5, Zenon
  <2> QED
    BY <1>1, <2>1, <2>2 DEF Store
<1> HIDE DEF c
<1>6. c.history = a.history
  BY <1>0, <1>2, <1>3, <1>5 DEF Store
<1>7. c.frozen = a.frozen
  BY <1>0, <1>1, <1>2, <1>3, <1>5 DEF Store
<1>8. c.locked = a.locked
  BY <1>1, <1>5 DEF Store
<1>9. /\ Len(c.staged) = Len(a.staged) + 1
      /\ c.staged[Len(a.staged) + 1] = a.roots
      /\ SubSeq(c.staged, 1, Len(a.staged)) = a.staged
  <2>1. a.staged \in Seq(State \union {NoState}) /\ a.roots \in State \union {NoState}
    BY DEF Store
  <2> QED
    BY <1>1, <1>5, <2>1
<1>10. DiscardRoots(c, 1) = [c EXCEPT !.roots = a.roots, !.staged = a.staged]
  <2>1. Len(a.staged) \in Nat
    BY DEF Store
  <2>2. /\ Len(c.staged) - 1 + 1 = Len(a.staged) + 1
        /\ Len(c.staged) - 1 = Len(a.staged)
        /\ 1 > 0 /\ 1 <= Len(c.staged) /\ 1 # 0
    BY <1>9, <2>1
  <2>3. DiscardRoots(c, 1) =
          [c EXCEPT !.roots = c.staged[Len(c.staged) - 1 + 1],
                    !.staged = SubSeq(c.staged, 1, Len(c.staged) - 1)]
    BY <2>2 DEF DiscardRoots
  <2> QED
    BY <1>9, <2>2, <2>3
<1>11. DiscardRoots(c, 1) = a
  <2> DEFINE d == DiscardRoots(c, 1)
  <2>1. d \in Store
    BY <1>5, DiscardRootsType
  <2>2. /\ d.latest = c.latest /\ d.locked = c.locked
        /\ d.history = c.history /\ d.frozen = c.frozen
        /\ d.roots = a.roots /\ d.staged = a.staged
    BY <1>5, <1>10 DEF Store
  <2> HIDE DEF d
  <2>3. /\ d.latest = a.latest /\ d.locked = a.locked
        /\ d.history = a.history /\ d.frozen = a.frozen
        /\ d.roots = a.roots /\ d.staged = a.staged
    BY <1>5, <1>6, <1>7, <1>8, <2>2
  <2>4. d = a
    BY <2>1, <2>3 DEF Store
  <2> QED
    BY <2>4 DEF d
<1> QED
  BY <1>11 DEF Undo, c, b


------------------------------------------------------------------------------
(* The client.                                                              *)

\* What the network and a running sync guarantee and ConsumedIsNullified
\* rests on: an output exists exactly when its transaction is included, an
\* erased note lived within one block, a sync leads forward.
ChainInv ==
  /\ \A x \in AllTx : \A n \in Outputs[x] : created[n] = included[x]
  /\ \A n \in erased : created[n] # 0 /\ nullified[n] = created[n]
  /\ target # 0 => synced <= target

\* The inductive invariant.
SyncInv == TypeOK /\ ChainInv /\ ConsumedIsNullified

LEMMA InitInv == Init => SyncInv
<1> SUFFICES ASSUME Init PROVE SyncInv
  OBVIOUS
<1> USE NodeAssumption, ClientAssumption DEF Init, NodeInit, Block
<1>1. NodeTypeOK
  BY DEF NodeTypeOK
<1>2. acct \in Store
  BY NewStoreType
<1>3. TypeOK
  <2>1. \A n \in Note : notes[n] \in {"Expected", Untracked} /\ consumer[n] = NoTx
    OBVIOUS
  <2>2. \A n \in Note : consumer[n] # NoTx <=> notes[n] \in Processing
    BY <2>1 DEF Processing, Untracked
  <2>3. notes \in [Note -> InputNoteState \union {Untracked}]
    BY DEF InputNoteState
  <2>4. synced \in Block /\ target \in Block /\ loose \subseteq Tx
    OBVIOUS
  <2>7. poisoned \in BOOLEAN
    BY Zenon
  <2>5. stage \in [Tx -> Stage] /\ height \in [Tx -> Block] /\ status \in [Tx -> Status]
    BY DEF Stage, Status
  <2>6. /\ consumer \in [Note -> Tx \union {NoTx}]
        /\ outnotes \in [Note -> {Untracked, "Expected", "Committed", "Consumed"}]
    OBVIOUS
  <2> QED
    BY <1>1, <1>2, <2>2, <2>3, <2>4, <2>5, <2>6, <2>7 DEF TypeOK
<1>4. ChainInv
  BY DEF ChainInv, AllTx
<1>5. ConsumedIsNullified
  BY DEF ConsumedIsNullified, Consumed, Untracked
<1> QED
  BY <1>3, <1>4, <1>5 DEF SyncInv
------------------------------------------------------------------------------
(* Steps of the network.                                                    *)

\* The part of the invariant that is the network's own, and what its steps
\* never do: a nullifier or a transaction is not moved to another block.
NodeStep ==
  /\ NodeTypeOK'
  /\ \A x \in AllTx : \A n \in Outputs[x] : created'[n] = included'[x]
  /\ \A n \in erased' : created'[n] # 0 /\ nullified'[n] = created'[n]
  /\ \A n \in Note : nullified[n] # 0 => nullified'[n] = nullified[n]
  /\ \A x \in AllTx : included[x] # 0 => included'[x] = included[x]

LEMMA AddToBlockStep ==
  ASSUME SyncInv, NEW t \in AllTx, NEW gone, AddToBlock(t, gone),
         mempool' \subseteq Tx, renamed' \subseteq Tx
  PROVE  NodeStep
<1> USE NodeAssumption
<1>1. NodeTypeOK /\ ChainInv
  BY DEF SyncInv, TypeOK
<1>2. /\ tip + 1 \in Block /\ tip + 1 # 0
      /\ \A n \in Inputs[t] : nullified[n] = 0 /\ n \notin erased
  BY <1>1 DEF AddToBlock, NodeTypeOK, Block, Available, ChainInv
<1>3. NodeTypeOK'
  BY <1>1, <1>2 DEF AddToBlock, NodeTypeOK
<1>4. \A x \in AllTx : \A n \in Outputs[x] : created'[n] = included'[x]
  BY <1>1, <1>2 DEF AddToBlock, NodeTypeOK, ChainInv
<1>5. \A n \in erased : n \notin Outputs[t] /\ n \notin Inputs[t] /\ n \in Note
  BY <1>1, <1>2 DEF AddToBlock, ChainInv, NodeTypeOK
<1>6. \A n \in gone : n \in Inputs[t] /\ n \notin Outputs[t] /\ n \in Note /\ created[n] = tip + 1
  BY <1>1 DEF AddToBlock
<1>7. \A n \in erased' : created'[n] # 0 /\ nullified'[n] = created'[n]
  BY <1>1, <1>2, <1>5, <1>6 DEF AddToBlock, ChainInv
<1>8. \A n \in Note : nullified[n] # 0 => nullified'[n] = nullified[n]
  BY <1>2 DEF AddToBlock
<1>9. \A x \in AllTx : included[x] # 0 => included'[x] = included[x]
  BY <1>1 DEF AddToBlock, NodeTypeOK
<1> QED
  BY <1>3, <1>4, <1>7, <1>8, <1>9 DEF NodeStep

LEMMA NodeNextStep == SyncInv /\ NodeNext(loose) => NodeStep
<1> SUFFICES ASSUME SyncInv, NodeNext(loose) PROVE NodeStep
  OBVIOUS
<1> USE NodeAssumption
<1>0. NodeTypeOK /\ ChainInv
  BY DEF SyncInv, TypeOK
<1>1. ASSUME NEW t \in Tx, Include(t, t \in loose) PROVE NodeStep
  <2>1. mempool' \subseteq Tx /\ renamed' \subseteq Tx
    BY <1>0, <1>1 DEF Include, NodeTypeOK
  <2>2. PICK gone : AddToBlock(t, gone)
    BY <1>1 DEF Include
  <2> QED
    BY <2>1, <2>2, AddToBlockStep DEF AllTx
<1>2. ASSUME NEW t \in Tx, Drop(t) PROVE NodeStep
  BY <1>0, <1>2 DEF Drop, NodeStep, NodeTypeOK, ChainInv
<1>3. ASSUME NEW t \in OtherTx, IncludeOther(t) PROVE NodeStep
  <2>1. mempool' \subseteq Tx /\ renamed' \subseteq Tx
    BY <1>0, <1>3 DEF IncludeOther, NodeTypeOK
  <2>2. PICK gone : AddToBlock(t, gone)
    BY <1>3 DEF IncludeOther
  <2> QED
    BY <2>1, <2>2, AddToBlockStep DEF AllTx
<1>4. ASSUME NEW n \in Outside, CreateOutside(n) PROVE NodeStep
  <2>1. n \in Note /\ \A x \in AllTx : n \notin Outputs[x]
    BY DEF Outside
  <2>2. n \notin erased /\ tip + 1 \in Block
    BY <1>0, <1>4 DEF CreateOutside, ChainInv, NodeTypeOK, Block
  <2> QED
    BY <1>0, <1>4, <2>1, <2>2 DEF CreateOutside, NodeStep, NodeTypeOK, ChainInv
<1>5. ASSUME NEW n \in Note, ConsumeOutside(n) PROVE NodeStep
  <2>1. n \notin erased /\ tip + 1 \in Block /\ tip + 1 # 0 /\ nullified[n] = 0
    BY <1>0, <1>5 DEF ConsumeOutside, Available, ChainInv, NodeTypeOK, Block
  <2> QED
    BY <1>0, <1>5, <2>1 DEF ConsumeOutside, NodeStep, NodeTypeOK, ChainInv
<1>6. CASE SealBlock
  BY <1>0, <1>6 DEF SealBlock, NodeStep, NodeTypeOK, ChainInv, Block
<1> QED
  BY <1>1, <1>2, <1>3, <1>4, <1>5, <1>6 DEF NodeNext
------------------------------------------------------------------------------
(* What a sync computes for one note.                                       *)

LEMMA AfterInclusionFacts ==
  ASSUME TypeOK, NEW n \in Note
  PROVE  /\ AfterInclusion(n) \in InputNoteState \union {Untracked}
         /\ AfterInclusion(n) \in Consumed => notes[n] \in Consumed
         /\ AfterInclusion(n) \in Processing => notes[n] \in Processing
<1>1. notes[n] \in InputNoteState \union {Untracked}
  BY DEF TypeOK
<1>2. CASE Arrives(n) /\ notes[n] \in Unspent
  <2>1. AfterInclusion(n) = IF notes[n] \in Processing THEN notes[n] ELSE "Committed"
    <3>1. AfterInclusion(n) = Transition(Transition(notes[n], "proof", TRUE), "header", TRUE)
      <4>1. notes[n] # Untracked
        BY <1>2 DEF Unspent, InputNoteState, Untracked
      <4> QED
        BY <1>2, <4>1 DEF AfterInclusion
    <3> QED
      BY <1>2, <3>1, InclusionTransition, Zenon
  <2> QED
    BY <1>1, <2>1 DEF InputNoteState, Consumed, Processing
<1>3. CASE Arrives(n) /\ notes[n] = Untracked
  <2>1. AfterInclusion(n) \in {"Committed", Untracked}
    BY <1>3 DEF AfterInclusion, Unspent, InputNoteState, Untracked
  <2> QED
    BY <2>1 DEF InputNoteState, Consumed, Processing, Untracked
<1>4. CASE ~ Arrives(n) \/ (notes[n] \notin Unspent /\ notes[n] # Untracked)
  BY <1>1, <1>4, Zenon DEF AfterInclusion
<1> QED
  BY <1>2, <1>3, <1>4

LEMMA AfterErasureFacts ==
  ASSUME TypeOK, NEW n \in Note
  PROVE  /\ AfterErasure(n) \in InputNoteState \union {Untracked}
         /\ AfterErasure(n) \in Consumed => notes[n] \in Consumed \/ Erased(n)
         /\ AfterErasure(n) \in Processing => notes[n] \in Processing
<1>1. CASE Erased(n) /\ AfterInclusion(n) \in Unspent
  <2>1. AfterErasure(n) = "ConsumedExternal"
    BY <1>1, NullifiedTransition, Zenon DEF AfterErasure, Unspent
  <2> QED
    BY <1>1, <2>1 DEF InputNoteState, Processing
<1>2. CASE ~ (Erased(n) /\ AfterInclusion(n) \in Unspent)
  BY <1>2, AfterInclusionFacts, Zenon DEF AfterErasure
<1> QED
  BY <1>1, <1>2

LEMMA AfterNullifiersFacts ==
  ASSUME TypeOK, NEW n \in Note, NEW committed
  PROVE  /\ AfterNullifiers(n, committed) \in InputNoteState \union {Untracked}
         /\ AfterNullifiers(n, committed) \in Consumed
              => notes[n] \in Consumed \/ Erased(n) \/ Reported(n)
         /\ AfterNullifiers(n, committed) \in Processing => notes[n] \in Processing
<1> DEFINE before == AfterErasure(n)
           after == AfterNullifiers(n, committed)
<1>1. CASE Reported(n) /\ before \in Unspent
  <2>1. before \in InputNoteState /\ before \notin Consumed
    BY <1>1 DEF Unspent
  <2>2. CASE before \in Processing /\ consumer[n] \in committed
    <3>1. after = Transition(before, "committed", TRUE)
      BY <1>1, <2>2 DEF AfterNullifiers
    <3>2. after \in {"ConsumedAuthenticatedLocal", "ConsumedUnauthenticatedLocal"}
      BY <2>1, <2>2, <3>1, CommittedTransition, Zenon DEF Processing
    <3> QED
      BY <1>1, <3>2 DEF InputNoteState, Processing
  <2>3. CASE ~ (before \in Processing /\ consumer[n] \in committed)
    <3>1. after = Transition(before, "nullified", TRUE)
      BY <1>1, <2>3, Zenon DEF AfterNullifiers
    <3>2. after = "ConsumedExternal"
      BY <2>1, <3>1, NullifiedTransition, Zenon
    <3> QED
      BY <1>1, <3>2 DEF InputNoteState, Processing
  <2> QED
    BY <2>2, <2>3
<1>2. CASE ~ (Reported(n) /\ before \in Unspent)
  <2>1. after = before
    BY <1>2, Zenon DEF AfterNullifiers
  <2> QED
    BY <2>1, AfterErasureFacts
<1> QED
  BY <1>1, <1>2

LEMMA OutAfterNullifiersFacts ==
  ASSUME TypeOK, NEW n \in Note
  PROVE  /\ OutAfterNullifiers(n) \in {Untracked, "Expected", "Committed", "Consumed"}
         /\ OutAfterNullifiers(n) = "Consumed"
              => outnotes[n] = "Consumed" \/ Erased(n) \/ Reported(n)
<1>1. outnotes[n] \in {Untracked, "Expected", "Committed", "Consumed"}
  BY DEF TypeOK
<1>2. /\ OutAfterInclusion(n) \in {Untracked, "Expected", "Committed", "Consumed"}
      /\ OutAfterInclusion(n) = "Consumed" => outnotes[n] = "Consumed" \/ Erased(n)
  BY <1>1 DEF OutAfterInclusion
<1> QED
  BY <1>2 DEF OutAfterNullifiers, Untracked

\* What a sync takes for consumed is nullified, at the target or before.
LEMMA SyncConsumes ==
  ASSUME SyncInv, target # 0, NEW n \in Note, Erased(n) \/ Reported(n)
  PROVE  nullified[n] # 0 /\ nullified[n] <= target
<1>1. CASE Reported(n)
  BY <1>1 DEF Reported
<1>2. CASE Erased(n)
  <2>1. PICK x \in Records : n \in Outputs[x] /\ n \in erased
    BY <1>2 DEF Erased
  <2>2. x \in AllTx /\ included[x] <= target
    BY <2>1 DEF Records, Seen
  <2>3. nullified[n] = included[x] /\ nullified[n] # 0
    BY <2>1, <2>2 DEF SyncInv, ChainInv
  <2> QED
    BY <2>2, <2>3
<1> QED
  BY <1>1, <1>2
------------------------------------------------------------------------------
(* Steps of the client.                                                     *)

LEMMA NodeKept ==
  ASSUME SyncInv, UNCHANGED nodeVars, target' # 0 => synced' <= target'
  PROVE  NodeTypeOK' /\ ChainInv'
BY DEF SyncInv, TypeOK, NodeTypeOK, ChainInv, nodeVars

LEMMA ExecuteInv == ASSUME SyncInv, NEW t \in Tx, Execute(t) PROVE SyncInv'
<1> USE NodeAssumption DEF Execute
<1>1. NodeTypeOK' /\ ChainInv'
  BY NodeKept DEF SyncInv, ChainInv
<1>2. stage' \in [Tx -> Stage] /\ loose' \subseteq Tx
  BY DEF SyncInv, TypeOK, Stage
<1>3. \A n \in Note : \/ notes'[n] = "Expected" /\ consumer'[n] = NoTx
                      \/ notes'[n] = notes[n] /\ consumer'[n] = consumer[n]
  OBVIOUS
<1>4. notes' \in [Note -> InputNoteState \union {Untracked}]
  BY <1>3 DEF SyncInv, TypeOK, InputNoteState
<1>5. consumer' \in [Note -> Tx \union {NoTx}]
  BY <1>3 DEF SyncInv, TypeOK
<1>6. \A n \in Note : consumer'[n] # NoTx <=> notes'[n] \in Processing
  BY <1>3 DEF SyncInv, TypeOK, Processing
<1>7. TypeOK'
  BY <1>1, <1>2, <1>4, <1>5, <1>6 DEF SyncInv, TypeOK, Block
<1>8. ConsumedIsNullified'
  BY <1>3, Zenon DEF SyncInv, ConsumedIsNullified, Consumed, nodeVars
<1> QED
  BY <1>1, <1>7, <1>8 DEF SyncInv

LEMMA SubmitInv == ASSUME SyncInv, NEW t \in Tx, Submit(t) PROVE SyncInv'
<1> USE NodeAssumption DEF Submit
<1>1. NodeTypeOK' /\ ChainInv'
  BY DEF SyncInv, TypeOK, NodeTypeOK, ChainInv
<1>2. stage' \in [Tx -> Stage] /\ height' \in [Tx -> Block]
  BY DEF SyncInv, TypeOK, NodeTypeOK, Stage
<1>3. TypeOK'
  BY <1>1, <1>2 DEF SyncInv, TypeOK, Block
<1>4. ConsumedIsNullified'
  BY DEF SyncInv, ConsumedIsNullified
<1> QED
  BY <1>1, <1>3, <1>4 DEF SyncInv

\* Abandon, Refused and ApplyFails only take the transaction out of the
\* pipeline.
LEMMA LeavePipelineInv ==
  ASSUME SyncInv, NEW t \in Tx, Abandon(t) \/ Refused(t) \/ ApplyFails(t) PROVE SyncInv'
<1>1. /\ stage' = [stage EXCEPT ![t] = "idle"]
      /\ UNCHANGED <<nodeVars, synced, target, loose, height, status, notes, consumer,
                     outnotes, acct, poisoned>>
  BY DEF Abandon, Refused, ApplyFails
<1>2. NodeTypeOK' /\ ChainInv'
  BY <1>1, NodeKept, Zenon DEF SyncInv, ChainInv
<1>3. stage' \in [Tx -> Stage]
  BY <1>1 DEF SyncInv, TypeOK, Stage
<1>4. TypeOK'
  BY <1>1, <1>2, <1>3 DEF SyncInv, TypeOK
<1>5. ConsumedIsNullified'
  BY <1>1, Zenon DEF SyncInv, ConsumedIsNullified, nodeVars
<1> QED
  BY <1>2, <1>4, <1>5 DEF SyncInv

LEMMA ApplyInv == ASSUME SyncInv, NEW t \in Tx, Apply(t) PROVE SyncInv'
<1> USE NodeAssumption, ClientAssumption
<1>0. t \in AllTx
  BY DEF AllTx
<1>1. NodeTypeOK' /\ ChainInv'
  BY NodeKept DEF Apply, SyncInv, ChainInv
<1>2. stage' \in [Tx -> Stage] /\ status' \in [Tx -> Status]
  BY DEF Apply, SyncInv, TypeOK, Stage, Status
<1>3. \A n \in Note :
        \/ notes'[n] \in Processing /\ consumer'[n] = t
        \/ notes'[n] = "Expected" /\ consumer'[n] = NoTx
        \/ notes'[n] = notes[n] /\ consumer'[n] = consumer[n]
  <2> SUFFICES ASSUME NEW n \in Note
               PROVE  \/ notes'[n] \in Processing /\ consumer'[n] = t
                      \/ notes'[n] = "Expected" /\ consumer'[n] = NoTx
                      \/ notes'[n] = notes[n] /\ consumer'[n] = consumer[n]
    OBVIOUS
  <2>1. CASE n \in Inputs[t] /\ notes[n] # Untracked
    <3>1. notes[n] \in InputNoteState
      BY <2>1 DEF SyncInv, TypeOK
    <3>2. TakeInput(n) # Failed
      BY <2>1 DEF Apply, MustFail
    <3>3. TakeInput(n) \in Processing
      BY <3>1, <3>2, LocalTransition, Zenon DEF TakeInput, Processing
    <3> QED
      BY <2>1, <3>3 DEF Apply
  <2>2. CASE ~ (n \in Inputs[t] /\ notes[n] # Untracked)
    BY <2>2 DEF Apply
  <2> QED
    BY <2>1, <2>2
<1>4. notes' \in [Note -> InputNoteState \union {Untracked}]
  <2>1. notes' = [n \in Note |-> notes'[n]]
    BY DEF Apply
  <2> QED
    BY <1>3, <2>1 DEF SyncInv, TypeOK, InputNoteState, Processing
<1>5. consumer' \in [Note -> Tx \union {NoTx}]
  <2>1. consumer' = [n \in Note |-> consumer'[n]]
    BY DEF Apply
  <2> QED
    BY <1>3, <2>1 DEF SyncInv, TypeOK
<1>6. \A n \in Note : consumer'[n] # NoTx <=> notes'[n] \in Processing
  BY <1>0, <1>3 DEF SyncInv, TypeOK, Processing
<1>7. outnotes' \in [Note -> {Untracked, "Expected", "Committed", "Consumed"}]
  BY DEF Apply, SyncInv, TypeOK
<1>8. acct' \in Store
  BY <1>0, ApplyDeltaType DEF Apply, SyncInv, TypeOK
<1>9. TypeOK'
  BY <1>1, <1>2, <1>4, <1>5, <1>6, <1>7, <1>8 DEF Apply, SyncInv, TypeOK
<1>10. ConsumedIsNullified'
  <2>1. \A n \in Note : outnotes'[n] = "Consumed" => outnotes[n] = "Consumed"
    BY DEF Apply
  <2> QED
    BY <1>3, <2>1 DEF Apply, SyncInv, ConsumedIsNullified, Consumed, Processing, nodeVars
<1> QED
  BY <1>1, <1>9, <1>10 DEF SyncInv

LEMMA RestartInv == ASSUME SyncInv, Restart PROVE SyncInv'
<1> USE NodeAssumption DEF Restart
<1>1. NodeTypeOK' /\ ChainInv'
  BY NodeKept
<1>2. acct' \in Store /\ stage' \in [Tx -> Stage] /\ target' \in Block
  BY ReopenType DEF SyncInv, TypeOK, Stage, Block
<1>3. poisoned' \in BOOLEAN
  BY Zenon
<1>4. TypeOK'
  BY <1>1, <1>2, <1>3 DEF SyncInv, TypeOK, Block
<1>5. ConsumedIsNullified'
  BY DEF SyncInv, ConsumedIsNullified, nodeVars
<1> QED
  BY <1>1, <1>4, <1>5 DEF SyncInv

LEMMA SyncStartInv == ASSUME SyncInv, SyncStart PROVE SyncInv'
<1> USE DEF SyncStart
<1>1. tip \in Nat /\ synced \in Nat /\ tip \in Block
  BY NodeAssumption DEF SyncInv, TypeOK, NodeTypeOK, Block
<1>2. NodeTypeOK' /\ ChainInv'
  BY <1>1, NodeKept
<1>3. TypeOK'
  BY <1>1, <1>2 DEF SyncInv, TypeOK
<1>4. ConsumedIsNullified'
  BY DEF SyncInv, ConsumedIsNullified, nodeVars
<1> QED
  BY <1>2, <1>3, <1>4 DEF SyncInv

\* The account after a sync is a store, whatever is committed, discarded,
\* refreshed or locked.
LEMMA ResolvedType == ASSUME TypeOK, NEW committed PROVE Resolved(committed) \in Store
<1> USE NodeAssumption
<1> DEFINE discarded == Discards(committed)
           finals == {FinalState[t] : t \in discarded}
<1>1. discarded \subseteq Tx
  BY DEF Discards, Cascade, Pending
<1>2. finals \in SUBSET State
  BY <1>1 DEF AllTx
<1>3. Cardinality(discarded) \in Nat
  BY <1>1
<1>4. acct \in Store
  BY DEF TypeOK
<1>5. Undo(acct, finals, Cardinality(discarded)) \in Store
  BY <1>2, <1>3, <1>4, UndoType
<1> DEFINE undone == IF discarded = {} THEN acct ELSE Undo(acct, finals, Cardinality(discarded))
<1>6. undone \in Store
  BY <1>4, <1>5
<1>7. Resolved(committed) = IF committed = {} THEN undone ELSE CommitRoots(undone)
  BY DEF Resolved
<1> HIDE DEF undone
<1> QED
  BY <1>6, <1>7, CommitRootsType

LEMMA UpdatedType ==
  ASSUME TypeOK, NEW committed, NEW digest, NEW large
  PROVE  Updated(committed, digest, large) \in Store
<1> DEFINE a == Resolved(committed)
<1>1. a \in Store /\ sealed \in State /\ a.latest \in State \union {NoState}
  BY ResolvedType DEF TypeOK, NodeTypeOK, Store
<1>2. /\ ApplyDelta(a, a.latest, sealed) \in Store
      /\ UpdateState(a, sealed) \in Store
      /\ LockOn(a, digest) \in Store
  BY <1>1, ApplyDeltaType, UpdateStateType, LockOnType
<1>3. Updated(committed, digest, large) \in
        {ApplyDelta(a, a.latest, sealed), UpdateState(a, sealed), LockOn(a, digest), a}
  BY DEF Updated
<1> QED
  BY <1>1, <1>2, <1>3

LEMMA SyncApplyInv ==
  ASSUME SyncInv, NEW committed, NEW digest, NEW large,
         SyncApply(committed, digest, large)
  PROVE  SyncInv'
<1>0. TypeOK
  BY DEF SyncInv
<1>1. NodeTypeOK' /\ ChainInv'
  BY NodeKept DEF SyncApply
<1>2. /\ synced' \in Block /\ target' \in Block
      /\ status' \in [Tx -> Status]
  BY NodeAssumption, <1>0 DEF SyncApply, TypeOK, Status, Block
<1>3. /\ notes' \in [Note -> InputNoteState \union {Untracked}]
      /\ outnotes' \in [Note -> {Untracked, "Expected", "Committed", "Consumed"}]
  BY <1>0, AfterNullifiersFacts, OutAfterNullifiersFacts DEF SyncApply
<1>4. /\ consumer' \in [Note -> Tx \union {NoTx}]
      /\ \A n \in Note : consumer'[n] # NoTx <=> notes'[n] \in Processing
  BY <1>0, AfterNullifiersFacts DEF SyncApply, TypeOK
<1>5. acct' \in Store
  BY <1>0, UpdatedType DEF SyncApply
<1>6. TypeOK'
  BY <1>0, <1>1, <1>2, <1>3, <1>4, <1>5 DEF SyncApply, TypeOK
<1>7. ASSUME NEW n \in Note, notes'[n] \in Consumed \/ outnotes'[n] = "Consumed"
      PROVE  nullified'[n] # 0 /\ nullified'[n] <= synced'
  <2>1. nullified' = nullified /\ synced' = target /\ target # 0
    BY DEF SyncApply, nodeVars
  <2>2. \/ notes[n] \in Consumed \/ outnotes[n] = "Consumed"
        \/ Erased(n) \/ Reported(n)
    BY <1>0, <1>7, AfterNullifiersFacts, OutAfterNullifiersFacts DEF SyncApply
  <2>3. CASE notes[n] \in Consumed \/ outnotes[n] = "Consumed"
    <3>1. nullified[n] # 0 /\ nullified[n] <= synced /\ synced <= target
      BY <2>1, <2>3 DEF SyncInv, ConsumedIsNullified, ChainInv
    <3>2. nullified[n] \in Nat /\ synced \in Nat /\ target \in Nat
      BY <1>0, NodeAssumption DEF TypeOK, NodeTypeOK, Block
    <3> QED
      BY <2>1, <3>1, <3>2
  <2>4. CASE Erased(n) \/ Reported(n)
    BY <2>1, <2>4, SyncConsumes
  <2> QED
    BY <2>2, <2>3, <2>4, Zenon
<1>8. ConsumedIsNullified'
  BY <1>7 DEF ConsumedIsNullified
<1> QED
  BY <1>1, <1>6, <1>8 DEF SyncInv

\* SyncFail, SyncStoreError and SyncPanic end a sync with nothing stored.
LEMMA SyncEndsInv ==
  ASSUME SyncInv, target' = 0, acct' \in Store, poisoned' \in BOOLEAN,
         UNCHANGED <<nodeVars, synced, stage, loose, height, status, notes, consumer,
                     outnotes>>
  PROVE  SyncInv'
<1>1. NodeTypeOK' /\ ChainInv'
  BY NodeKept
<1>2. target' \in Block
  BY NodeAssumption DEF Block
<1>3. TypeOK'
  BY <1>1, <1>2 DEF SyncInv, TypeOK
<1>4. ConsumedIsNullified'
  BY Zenon DEF SyncInv, ConsumedIsNullified, nodeVars
<1> QED
  BY <1>1, <1>3, <1>4 DEF SyncInv

LEMMA SyncStepInv == ASSUME SyncInv, Sync PROVE SyncInv'
<1>0. acct \in Store /\ poisoned \in BOOLEAN /\ TypeOK
  BY DEF SyncInv, TypeOK
<1>1. CASE SyncStart
  BY <1>1, SyncStartInv
<1>2. CASE SyncFail
  BY <1>0, <1>2, SyncEndsInv DEF SyncFail
<1>3. ASSUME NEW committed, NEW digest, NEW large, SyncApply(committed, digest, large)
      PROVE  SyncInv'
  BY <1>3, SyncApplyInv
<1>4. ASSUME NEW committed, NEW digest, SyncStoreError(committed, digest)
      PROVE  SyncInv'
  <2>1. Resolved(committed) \in Store
    BY <1>0, ResolvedType
  <2>2. acct' \in Store
    BY <1>0, <1>4, <2>1, Zenon DEF SyncStoreError, Store
  <2> QED
    BY <1>0, <1>4, <2>2, SyncEndsInv DEF SyncStoreError
<1>5. ASSUME NEW committed, NEW digest, SyncPanic(committed, digest)
      PROVE  SyncInv'
  <2>1. poisoned' \in BOOLEAN
    BY <1>5, Zenon DEF SyncPanic
  <2> QED
    BY <1>0, <1>5, <2>1, SyncEndsInv DEF SyncPanic
<1> QED
  BY <1>1, <1>2, <1>3, <1>4, <1>5 DEF Sync
------------------------------------------------------------------------------
LEMMA NextInv == SyncInv /\ [Next]_vars => SyncInv'
<1> SUFFICES ASSUME SyncInv, [Next]_vars PROVE SyncInv'
  OBVIOUS
<1>1. CASE NodeNext(loose) /\ UNCHANGED clientVars
  <2>1. NodeStep
    BY <1>1, NodeNextStep
  <2>2. ChainInv'
    BY <1>1, <2>1 DEF NodeStep, ChainInv, SyncInv, clientVars
  <2>3. TypeOK'
    BY <1>1, <2>1 DEF NodeStep, TypeOK, SyncInv, clientVars
  <2>4. ConsumedIsNullified'
    BY <1>1, <2>1, Zenon DEF NodeStep, ConsumedIsNullified, SyncInv, clientVars
  <2> QED
    BY <2>2, <2>3, <2>4 DEF SyncInv
<1>2. ASSUME NEW t \in Tx, Pipeline(t) PROVE SyncInv'
  BY <1>2, ExecuteInv, SubmitInv, ApplyInv, LeavePipelineInv DEF Pipeline
<1>3. CASE Sync
  BY <1>3, SyncStepInv
<1>4. CASE Restart
  BY <1>4, RestartInv
<1>5. CASE UNCHANGED vars
  BY <1>5, Zenon DEF vars, nodeVars, clientVars, SyncInv, TypeOK, NodeTypeOK, ChainInv,
    ConsumedIsNullified
<1> QED
  BY <1>1, <1>2, <1>3, <1>4, <1>5 DEF Next

\* Every note the client counts as consumed has its nullifier on chain, in a
\* block the client has synced; along the way every record keeps its type
\* and a note names its consumer exactly while it is processing.
THEOREM ConsumedSound == Spec => [](TypeOK /\ ConsumedIsNullified)
BY InitInv, NextInv, PTL DEF Spec, SyncInv

\* Every table of the client's store keeps its type, whatever fails, restarts
\* or overlaps.
THEOREM TypesHold == Spec => []TypeOK
BY ConsumedSound, PTL

------------------------------------------------------------------------------
\* discard_transaction_with_predicate is closed under dependency.
LEMMA CascadeClosed ==
  ASSUME NEW pending, NEW seeds, NEW t \in Cascade(pending, seeds), NEW u \in pending,
         InitState[u] = FinalState[t]
  PROVE  u \in Cascade(pending, seeds)
BY DEF Cascade

\* The status of a transaction changes only by applying it, which makes it
\* pending, or by a sync.
LEMMA StatusSteps ==
  ASSUME TypeOK, [Next]_vars, NEW t \in Tx, status[t] = "Pending", status'[t] = "Discarded"
  PROVE  \E committed, digest, large : SyncApply(committed, digest, large)
<1>1. ASSUME NEW u \in Tx, Pipeline(u) PROVE status' = status \/ status'[t] # "Discarded"
  <2>1. CASE Apply(u)
    BY <2>1 DEF Apply, TypeOK
  <2>2. CASE ~ Apply(u)
    BY <1>1, <2>2 DEF Pipeline, Execute, Abandon, Submit, Refused, ApplyFails
  <2> QED
    BY <2>1, <2>2
<1>2. CASE NodeNext(loose) /\ UNCHANGED clientVars
  BY <1>2 DEF clientVars
<1>3. CASE Restart
  BY <1>3 DEF Restart
<1>4. CASE UNCHANGED vars
  BY <1>4 DEF vars, clientVars
<1>5. CASE Sync
  BY <1>5, Zenon DEF Sync, SyncStart, SyncFail, SyncStoreError, SyncPanic
<1> QED
  BY <1>1, <1>2, <1>3, <1>4, <1>5 DEF Next

LEMMA DiscardStep ==
  ASSUME TypeOK, [Next]_vars, NEW t \in Tx, NEW u \in Tx,
         status[t] = "Pending", status'[t] = "Discarded", InitState[u] = FinalState[t]
  PROVE  status'[u] # "Pending"
<1>1. PICK committed, digest, large : SyncApply(committed, digest, large)
  BY StatusSteps
<1>2. \A v \in Tx : status'[v] = CASE v \in committed           -> "Committed"
                                   [] v \in Discards(committed) -> "Discarded"
                                   [] OTHER                     -> status[v]
  BY <1>1 DEF SyncApply
<1>3. t \in Discards(committed)
  BY <1>2
<1>4. CASE u \in Pending \ committed
  <2>1. u \in Discards(committed)
    BY <1>3, <1>4, CascadeClosed DEF Discards
  <2> QED
    BY <1>2, <2>1
<1>5. CASE u \notin Pending \/ u \in committed
  BY <1>2, <1>5 DEF Pending
<1> QED
  BY <1>4, <1>5

\* The sync that discards a transaction discards or commits every pending
\* transaction that was built on it, in every reachable state.
THEOREM DiscardComplete == Spec => DiscardReachesDependents
<1>1. TypeOK /\ [Next]_vars =>
        [\A t, u \in Tx :
           (status[t] = "Pending" /\ status'[t] = "Discarded" /\ InitState[u] = FinalState[t])
             => status'[u] # "Pending"]_vars
  BY DiscardStep
<1> QED
  BY <1>1, ConsumedSound, PTL DEF Spec, DiscardReachesDependents

------------------------------------------------------------------------------
(* What the client's records of settled transactions mean.                  *)

Local == Consumed \ {"ConsumedExternal"}

\* A processing note is an input of the transaction it names.
ConsumerTakesNote ==
  \A n \in Note : consumer[n] # NoTx => n \in Inputs[consumer[n]]

\* The invariant that adds the meaning of committed records to SyncInv.
SettleInv ==
  SyncInv /\ ConsumerTakesNote /\ CommittedStateIsSpent /\ LocalConsumptionIsCommitted

\* A note comes to count as consumed locally only by the transaction that
\* was processing it, when that transaction is committed.
LEMMA LocalConsumption ==
  ASSUME TypeOK, NEW n \in Note, NEW committed, AfterNullifiers(n, committed) \in Local
  PROVE  notes[n] \in Local \/ (notes[n] \in Processing /\ consumer[n] \in committed)
<1> USE DEF Local
<1>1. notes[n] \in InputNoteState \union {Untracked}
  BY DEF TypeOK
<1>2. AfterInclusion(n) \in Local => notes[n] \in Local
  <2>1. CASE Arrives(n) /\ notes[n] \in Unspent
    <3>1. notes[n] # Untracked
      BY <2>1 DEF Unspent, InputNoteState, Untracked
    <3>2. AfterInclusion(n) = IF notes[n] \in Processing THEN notes[n] ELSE "Committed"
      BY <2>1, <3>1, InclusionTransition, Zenon DEF AfterInclusion
    <3> QED
      BY <3>2 DEF Consumed, Processing
  <2>2. CASE Arrives(n) /\ notes[n] = Untracked
    <3>1. AfterInclusion(n) \in {"Committed", Untracked}
      BY <2>2 DEF AfterInclusion, Unspent, InputNoteState, Untracked
    <3> QED
      BY <3>1 DEF Consumed, Untracked
  <2>3. CASE ~ Arrives(n) \/ (notes[n] \notin Unspent /\ notes[n] # Untracked)
    BY <2>3, Zenon DEF AfterInclusion
  <2> QED
    BY <2>1, <2>2, <2>3
<1>3. AfterErasure(n) \in Local => notes[n] \in Local
  <2>1. CASE Erased(n) /\ AfterInclusion(n) \in Unspent
    BY <2>1, NullifiedTransition, Zenon DEF AfterErasure, Unspent
  <2>2. CASE ~ (Erased(n) /\ AfterInclusion(n) \in Unspent)
    BY <1>2, <2>2, Zenon DEF AfterErasure
  <2> QED
    BY <2>1, <2>2
<1>4. CASE ~ Reported(n) \/ AfterErasure(n) \notin Unspent
  BY <1>3, <1>4, Zenon DEF AfterNullifiers
<1>5. CASE Reported(n) /\ AfterErasure(n) \in Unspent
  <2>1. AfterErasure(n) \in InputNoteState /\ AfterErasure(n) \notin Consumed
    BY <1>5 DEF Unspent
  <2>2. CASE AfterErasure(n) \in Processing /\ consumer[n] \in committed
    BY <2>2, AfterErasureFacts
  <2>3. CASE ~ (AfterErasure(n) \in Processing /\ consumer[n] \in committed)
    <3>1. AfterNullifiers(n, committed) = Transition(AfterErasure(n), "nullified", TRUE)
      BY <1>5, <2>3, Zenon DEF AfterNullifiers
    <3> QED
      BY <2>1, <3>1, NullifiedTransition, Zenon
  <2> QED
    BY <2>2, <2>3
<1> QED
  BY <1>4, <1>5

\* What a sync commits is pending, and a transaction of the account that
\* starts from the same state is in a block of this sync.
LEMMA CommitsFacts ==
  ASSUME TypeOK, NEW committed \in Commits, NEW t \in committed
  PROVE  /\ t \in Pending
         /\ \E x \in Records : t \in Matches(x) /\ InitState[x] = InitState[t]
<1> DEFINE matched == {x \in Records : Matches(x) # {}}
<1>1. PICK f \in [matched -> Pending] :
        /\ \A x \in matched : f[x] \in Matches(x)
        /\ committed = {f[x] : x \in matched}
  BY Zenon DEF Commits
<1>2. PICK x \in matched : t = f[x]
  BY <1>1
<1>3. t \in Matches(x) /\ x \in Records
  BY <1>1, <1>2
<1>4. t \in Pending /\ InitState[x] = InitState[t]
  BY <1>3 DEF Matches
<1> QED
  BY <1>3, <1>4

LEMMA SettleSync ==
  ASSUME SettleInv, NEW committed \in Commits, NEW digest, NEW large,
         SyncApply(committed, digest, large)
  PROVE  SettleInv'
<1> USE DEF SettleInv
<1>0. TypeOK /\ SyncInv'
  BY SyncApplyInv DEF SyncInv
<1>1. /\ target \in Nat /\ synced \in Nat /\ synced <= target
      /\ synced' = target /\ included' = included
      /\ included \in [AllTx -> Nat]
  BY NodeAssumption DEF SyncApply, nodeVars, SyncInv, ChainInv, TypeOK, NodeTypeOK, Block
<1>2. \A t \in Tx : status'[t] = CASE t \in committed           -> "Committed"
                                   [] t \in Discards(committed) -> "Discarded"
                                   [] OTHER                     -> status[t]
  BY DEF SyncApply
<1>c. \A t \in Tx : t \in committed => status'[t] = "Committed"
  <2>1. Discards(committed) \intersect committed = {}
    BY DEF Discards, Cascade
  <2> QED
    BY <1>2, <2>1
<1>3. ConsumerTakesNote'
  BY DEF SyncApply, ConsumerTakesNote
<1>4. ASSUME NEW t \in Tx, status'[t] = "Committed"
      PROVE  \E x \in AllTx : InitState[x] = InitState[t] /\ included'[x] \in 1 .. synced'
  <2>1. CASE t \in committed
    <3>1. PICK x \in Records : InitState[x] = InitState[t]
      BY <1>0, <2>1, CommitsFacts
    <3>2. x \in AllTx /\ synced < included[x] /\ included[x] <= target
      BY <3>1 DEF Records, Seen
    <3> QED
      BY <1>1, <3>1, <3>2
  <2>2. CASE t \notin committed
    <3>1. status[t] = "Committed"
      BY <1>2, <1>4, <2>2
    <3>2. PICK x \in AllTx : InitState[x] = InitState[t] /\ included[x] \in 1 .. synced
      BY <3>1 DEF CommittedStateIsSpent
    <3> QED
      BY <1>1, <3>2
  <2> QED
    BY <2>1, <2>2
<1>5. ASSUME NEW n \in Note, notes'[n] \in Local
      PROVE  \E t \in Tx : n \in Inputs[t] /\ status'[t] = "Committed"
  <2>1. notes'[n] = AfterNullifiers(n, committed)
    BY DEF SyncApply
  <2>2. CASE notes[n] \in Processing /\ consumer[n] \in committed
    <3>1. consumer[n] # NoTx /\ consumer[n] \in Tx
      BY <1>0, <2>2 DEF TypeOK
    <3>2. n \in Inputs[consumer[n]]
      BY <3>1 DEF ConsumerTakesNote
    <3>3. status'[consumer[n]] = "Committed"
      BY <1>c, <2>2, <3>1
    <3> QED
      BY <3>1, <3>2, <3>3
  <2>3. CASE notes[n] \in Local
    <3>1. PICK t \in Tx : n \in Inputs[t] /\ status[t] = "Committed"
      BY <2>3 DEF LocalConsumptionIsCommitted, Local
    <3>2. t \notin Discards(committed)
      BY <3>1 DEF Discards, Cascade, Pending
    <3> QED
      BY <1>2, <3>1, <3>2
  <2> QED
    BY <1>0, <1>5, <2>1, <2>2, <2>3, LocalConsumption
<1> QED
  BY <1>0, <1>3, <1>4, <1>5 DEF CommittedStateIsSpent, LocalConsumptionIsCommitted, Local

\* A transaction that takes a note nobody has consumed cannot reopen the
\* record of the one that consumed it: consumed_locally fails first.
LEMMA SettleApply ==
  ASSUME SettleInv, NEW t \in Tx, Apply(t) PROVE SettleInv'
<1> USE DEF SettleInv
<1>0. SyncInv' /\ TypeOK
  BY ApplyInv DEF SyncInv
<1>1. /\ synced' = synced /\ included' = included
      /\ \A u \in Tx : status'[u] = IF u = t THEN "Pending" ELSE status[u]
  BY <1>0 DEF Apply, nodeVars, TypeOK
<1>2. ConsumerTakesNote'
  BY DEF Apply, ConsumerTakesNote
<1>3. CommittedStateIsSpent'
  BY <1>1 DEF CommittedStateIsSpent
<1>4. ASSUME NEW n \in Note, notes'[n] \in Local
      PROVE  \E u \in Tx : n \in Inputs[u] /\ status'[u] = "Committed"
  <2>1. CASE n \in Inputs[t] /\ notes[n] # Untracked
    <3>1. notes[n] \in InputNoteState
      BY <1>0, <2>1 DEF TypeOK
    <3>2. TakeInput(n) # Failed
      BY <2>1 DEF Apply, MustFail
    <3>3. TakeInput(n) \in Processing
      BY <3>1, <3>2, LocalTransition, Zenon DEF TakeInput, Processing
    <3>4. notes'[n] = TakeInput(n)
      <4>1. n \notin Outputs[t]
        BY <2>1, NodeAssumption DEF AllTx
      <4> QED
        BY <2>1, <4>1 DEF Apply
    <3> QED
      BY <1>4, <3>3, <3>4 DEF Local, Consumed, Processing
  <2>2. CASE ~ (n \in Inputs[t] /\ notes[n] # Untracked)
    <3>1. notes'[n] \in {"Expected", notes[n]}
      BY <2>2 DEF Apply
    <3>2. notes[n] \in Local
      BY <1>4, <3>1 DEF Local, Consumed
    <3>3. PICK u \in Tx : n \in Inputs[u] /\ status[u] = "Committed"
      BY <3>2 DEF LocalConsumptionIsCommitted, Local
    <3>4. u # t
      BY <2>2, <3>2, <3>3 DEF Local, Consumed, Untracked
    <3> QED
      BY <1>1, <3>3, <3>4
  <2> QED
    BY <2>1, <2>2
<1> QED
  BY <1>0, <1>2, <1>3, <1>4 DEF LocalConsumptionIsCommitted, Local

\* Steps that change no status and consume nothing.
LEMMA SettleKept ==
  ASSUME SettleInv, SyncInv',
         UNCHANGED <<status, synced>>,
         \A x \in AllTx : included[x] # 0 => included'[x] = included[x],
         \A n \in Note : \/ consumer'[n] = consumer[n] /\ notes'[n] = notes[n]
                         \/ consumer'[n] = NoTx /\ notes'[n] = "Expected"
  PROVE  SettleInv'
<1> USE DEF SettleInv
<1>1. ConsumerTakesNote'
  BY DEF ConsumerTakesNote
<1>2. CommittedStateIsSpent'
  <2> SUFFICES ASSUME NEW t \in Tx, status'[t] = "Committed"
               PROVE  \E x \in AllTx : InitState[x] = InitState[t] /\ included'[x] \in 1 .. synced'
    BY DEF CommittedStateIsSpent
  <2>1. PICK x \in AllTx : InitState[x] = InitState[t] /\ included[x] \in 1 .. synced
    BY DEF CommittedStateIsSpent
  <2> QED
    BY <2>1
<1>3. LocalConsumptionIsCommitted'
  BY DEF LocalConsumptionIsCommitted, Consumed
<1> QED
  BY <1>1, <1>2, <1>3

LEMMA NextSettle == SettleInv /\ [Next]_vars => SettleInv'
<1> SUFFICES ASSUME SettleInv, [Next]_vars PROVE SettleInv'
  OBVIOUS
<1>0. SyncInv /\ SyncInv'
  BY NextInv DEF SettleInv
<1>1. CASE NodeNext(loose) /\ UNCHANGED clientVars
  <2>1. \A x \in AllTx : included[x] # 0 => included'[x] = included[x]
    BY <1>0, <1>1, NodeNextStep, Zenon DEF NodeStep
  <2> QED
    BY <1>0, <1>1, <2>1, SettleKept DEF clientVars
<1>2. ASSUME NEW t \in Tx, Execute(t) PROVE SettleInv'
  <2>1. \A n \in Note : \/ consumer'[n] = consumer[n] /\ notes'[n] = notes[n]
                        \/ consumer'[n] = NoTx /\ notes'[n] = "Expected"
    BY <1>2 DEF Execute
  <2>2. UNCHANGED <<status, synced, included>>
    BY <1>2 DEF Execute, nodeVars
  <2> QED
    BY <1>0, <2>1, <2>2, SettleKept
<1>3. ASSUME NEW t \in Tx, Submit(t) \/ Abandon(t) \/ Refused(t) \/ ApplyFails(t)
      PROVE  SettleInv'
  <2>1. UNCHANGED <<status, synced, included, notes, consumer>>
    BY <1>3 DEF Submit, Abandon, Refused, ApplyFails, nodeVars
  <2> QED
    BY <1>0, <2>1, SettleKept
<1>4. ASSUME NEW t \in Tx, Apply(t) PROVE SettleInv'
  BY <1>4, SettleApply
<1>5. CASE Restart \/ SyncStart \/ SyncFail
  <2>1. UNCHANGED <<status, synced, included, notes, consumer>>
    BY <1>5 DEF Restart, SyncStart, SyncFail, nodeVars
  <2> QED
    BY <1>0, <2>1, SettleKept
<1>6. ASSUME NEW committed \in Commits, NEW digest, NEW large,
             SyncApply(committed, digest, large)
      PROVE  SettleInv'
  BY <1>6, SettleSync
<1>7. ASSUME NEW committed, NEW digest,
             SyncStoreError(committed, digest) \/ SyncPanic(committed, digest)
      PROVE  SettleInv'
  <2>1. UNCHANGED <<status, synced, included, notes, consumer>>
    BY <1>7 DEF SyncStoreError, SyncPanic, nodeVars
  <2> QED
    BY <1>0, <2>1, SettleKept
<1>8. CASE UNCHANGED vars
  <2>1. UNCHANGED <<status, synced, included, notes, consumer>>
    BY <1>8 DEF vars, nodeVars, clientVars
  <2> QED
    BY <1>0, <2>1, SettleKept
<1> QED
  BY <1>1, <1>2, <1>3, <1>4, <1>5, <1>6, <1>7, <1>8 DEF Next, Pipeline, Sync

LEMMA InitSettle == Init => SettleInv
<1> SUFFICES ASSUME Init PROVE SettleInv
  OBVIOUS
<1>1. SyncInv
  BY InitInv
<1>2. \A n \in Note : consumer[n] = NoTx /\ notes[n] \in {"Expected", Untracked}
  BY DEF Init
<1>3. \A t \in Tx : status[t] = "None"
  BY DEF Init
<1> QED
  BY <1>1, <1>2, <1>3
  DEF SettleInv, ConsumerTakesNote, CommittedStateIsSpent, LocalConsumptionIsCommitted,
      Consumed, Untracked

\* A transaction the client has recorded as committed was not made up: in a
\* block the client has synced, the account left the state it starts from,
\* although matching by initial state may have taken another transaction
\* for it.
THEOREM CommittedSound == Spec => []CommittedStateIsSpent
BY InitSettle, NextSettle, PTL DEF Spec, SettleInv

\* A note the client counts as consumed by its own transaction is an input
\* of one that it has on record as committed, also when the same transaction
\* is executed again, after restarts and failed syncs.
THEOREM LocalConsumptionSound == Spec => []LocalConsumptionIsCommitted
BY InitSettle, NextSettle, PTL DEF Spec, SettleInv
==============================================================================
