------------------------------ MODULE MidenNode ------------------------------
(***************************************************************************)
(* The network as the client meets it: a node that takes transactions into  *)
(* its mempool, includes them in the open block (number tip + 1) and seals  *)
(* it. One account matters: the tracked account, whose transactions may     *)
(* also come from other clients (OtherTx). Not code of this repository:     *)
(* taken from what the client's requests and responses rely on.             *)
(***************************************************************************)
EXTENDS AccountStates, FiniteSets

CONSTANTS
  Tx,          \* transactions of the tracked account made by this client
  OtherTx,     \* transactions of the tracked account made elsewhere
  Genesis,     \* the account's state when the client starts tracking it
  Note,        \* notes
  InitState,   \* the state each transaction starts from
  FinalState,  \* the state it leaves
  Inputs,      \* the notes it consumes
  Outputs,     \* the notes it creates
  Expiration,  \* the last block it may be included in
  Spread,      \* TRUE: a block has at most one transaction of the account
  MaxBlock     \* bound: blocks produced

AllTx == Tx \union OtherTx

ASSUME NodeAssumption ==
  /\ Tx \intersect OtherTx = {}
  \* The client's transactions can be counted.
  /\ \A S \in SUBSET Tx : Cardinality(S) \in Nat
  /\ Genesis \in State
  /\ InitState \in [AllTx -> State] /\ FinalState \in [AllTx -> State]
  /\ Inputs \in [AllTx -> SUBSET Note] /\ Outputs \in [AllTx -> SUBSET Note]
  /\ Expiration \in [AllTx -> Nat]
  /\ Spread \in BOOLEAN /\ MaxBlock \in Nat
  \* A note has one creator.
  /\ \A t, u \in AllTx : t # u => Outputs[t] \intersect Outputs[u] = {}
  /\ \A t \in AllTx : Inputs[t] \intersect Outputs[t] = {}

VARIABLES
  tip,         \* the last sealed block
  mempool,     \* transactions waiting for inclusion
  included,    \* block of each transaction, 0 while it has none
  renamed,     \* included transactions whose id changed on the way
  head,        \* account state with the open block applied
  sealed,      \* account state at tip
  created,     \* block that created each note, 0 while it does not exist
  nullified,   \* block that consumed each note, 0 while it is unspent
  erased       \* notes created and consumed in one batch: in no block body

nodeVars == <<tip, mempool, included, renamed, head, sealed, created, nullified, erased>>

Block == 0 .. MaxBlock
Outside == {n \in Note : \A t \in AllTx : n \notin Outputs[t]}
Available(n) == created[n] # 0 /\ nullified[n] = 0

NodeInit ==
  /\ tip = 0 /\ mempool = {} /\ renamed = {} /\ erased = {}
  /\ head = Genesis /\ sealed = Genesis
  /\ included = [t \in AllTx |-> 0]
  /\ created = [n \in Note |-> 0]
  /\ nullified = [n \in Note |-> 0]

NodeTypeOK ==
  /\ tip \in Block
  /\ mempool \subseteq Tx /\ renamed \subseteq Tx /\ erased \subseteq Note
  /\ head \in State /\ sealed \in State
  /\ included \in [AllTx -> Block]
  /\ created \in [Note -> Block] /\ nullified \in [Note -> Block]

\* Admission to the mempool: the transaction has not expired, the account
\* state must be the one the mempool leads to and no transaction in flight
\* may start from it.
Admits(t) ==
  /\ t \notin mempool /\ included[t] = 0 /\ tip < Expiration[t]
  /\ InitState[t] \in {head} \union {FinalState[u] : u \in mempool}
  /\ \A u \in mempool : InitState[u] # InitState[t]
  /\ \A n \in Inputs[t] : nullified[n] = 0

\* t runs in the open block; of its inputs created in this very block, some
\* may have been in the same batch and are erased.
AddToBlock(t, gone) ==
  /\ tip < MaxBlock /\ included[t] = 0 /\ InitState[t] = head
  /\ tip + 1 <= Expiration[t]
  /\ Spread => \A u \in AllTx : included[u] # tip + 1
  /\ \A n \in Inputs[t] : Available(n)
  /\ gone \subseteq {n \in Inputs[t] : created[n] = tip + 1}
  /\ included' = [included EXCEPT ![t] = tip + 1]
  /\ head' = FinalState[t]
  /\ created' = [n \in Note |-> IF n \in Outputs[t] THEN tip + 1 ELSE created[n]]
  /\ nullified' = [n \in Note |-> IF n \in Inputs[t] THEN tip + 1 ELSE nullified[n]]
  /\ erased' = erased \union gone
  /\ UNCHANGED <<tip, sealed>>

\* A transaction of this client. If it has unauthenticated inputs (loose),
\* authenticating them may change its id.
Include(t, loose) ==
  /\ t \in mempool
  /\ mempool' = mempool \ {t}
  /\ \E gone \in SUBSET Inputs[t] :
       /\ AddToBlock(t, gone)
       /\ \/ renamed' = renamed
          \/ loose /\ renamed' = renamed \union {t}

\* A transaction of another client of the same account.
IncludeOther(t) ==
  /\ \A u \in mempool : InitState[u] # head
  /\ \E gone \in SUBSET Inputs[t] : AddToBlock(t, gone)
  /\ UNCHANGED <<mempool, renamed>>

\* The mempool gives up on a transaction without a word to its sender.
Drop(t) ==
  /\ t \in mempool
  /\ mempool' = mempool \ {t}
  /\ UNCHANGED <<tip, included, renamed, head, sealed, created, nullified, erased>>

SealBlock ==
  /\ tip < MaxBlock
  /\ tip' = tip + 1 /\ sealed' = head
  /\ UNCHANGED <<mempool, included, renamed, head, created, nullified, erased>>

\* Other accounts create notes and consume them.
CreateOutside(n) ==
  /\ tip < MaxBlock /\ created[n] = 0
  /\ created' = [created EXCEPT ![n] = tip + 1]
  /\ UNCHANGED <<tip, mempool, included, renamed, head, sealed, nullified, erased>>

ConsumeOutside(n) ==
  /\ tip < MaxBlock /\ Available(n)
  /\ nullified' = [nullified EXCEPT ![n] = tip + 1]
  /\ \/ erased' = erased
     \/ created[n] = tip + 1 /\ erased' = erased \union {n}
  /\ UNCHANGED <<tip, mempool, included, renamed, head, sealed, created>>

NodeNext(loose) ==
  \/ \E t \in Tx : Include(t, t \in loose) \/ Drop(t)
  \/ \E t \in OtherTx : IncludeOther(t)
  \/ \E n \in Outside : CreateOutside(n)
  \/ \E n \in Note : ConsumeOutside(n)
  \/ SealBlock
==============================================================================
