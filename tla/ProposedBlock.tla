---------------------------- MODULE ProposedBlock ----------------------------
(***************************************************************************)
(* Building batches and blocks (tools/miden-protocol/src/batch and         *)
(* .../block/proposed_block.rs).  Proven transactions become a             *)
(* ProposedBatch against the latest block; batches wait, go stale, are     *)
(* retried or dropped; a ProposedBlock is made of some of them and of      *)
(* witnesses that may have been read from an older block, and the header   *)
(* computed from it becomes the next block.                                *)
(*                                                                         *)
(* A transaction is [account, init, final, inputs, outputs, exp], states   *)
(* and notes being values of the constants.  Hashes are injective: a root  *)
(* or commitment is the value it commits to.  The timestamp, which nothing *)
(* else reads, is left out.                                                *)
(***************************************************************************)
EXTENDS NoteTracker, Sequences, FiniteSets, Functions, FiniteSetsExt

CONSTANTS Accounts, Txs, Genesis,
          NoteValue,                   \* what the note with a given id carries
          MAX_TXS,                     \* bound: transactions offered per batch
          MAX_ACCOUNTS_PER_BATCH, MAX_INPUT_NOTES_PER_BATCH,
          MAX_OUTPUT_NOTES_PER_BATCH, MAX_BATCHES_PER_BLOCK,
          MaxPending, MaxHeight        \* bounds: waiting batches, blocks

(* An unauthenticated input's header is the note its nullifier belongs to; *)
(* the genesis block consumes nothing; an expiration is a block number.    *)
ASSUME BlockAssumption ==
  /\ Genesis.nullifiers = {} /\ MAX_TXS \in Nat
  /\ \A tx \in Txs :
       /\ tx.exp \in Nat
       /\ \A j \in DOMAIN tx.inputs :
            /\ \A h \in tx.inputs[j].header : h.id = tx.inputs[j].nullifier
            /\ \A g, h \in tx.inputs[j].header : g = h

(* An account's state includes its nonce, which a transaction that changes *)
(* the account raises (AccountDelta::new).                                 *)
ASSUME NonceAssumption ==
  /\ DOMAIN Genesis.accounts = Accounts
  /\ \A tx \in Txs : /\ tx.init.nonce \in Nat /\ tx.final.nonce \in Nat
                     /\ tx.init # tx.final => tx.init.nonce < tx.final.nonce

VARIABLES chain,     \* chain[k + 1]: the notes of block k and the state after it
          body,      \* the batches of the latest block, by id
          batches    \* the proven batches that wait

vars == <<chain, body, batches>>

Height == Len(chain) - 1
Blk(k) == chain[k + 1]
Tip == Blk(Height)
NotesOf == [k \in 0 .. Height |-> Blk(k).notes]

Init ==
  /\ chain = <<Genesis>>
  /\ body = {}
  /\ batches = {}

-----------------------------------------------------------------------------
(* The union of the transactions' inputs and of their outputs.             *)
TxInputs(txs) ==
  UNION {{[tag |-> <<i, j>>, nullifier |-> txs[i].inputs[j].nullifier,
           header |-> txs[i].inputs[j].header] : j \in DOMAIN txs[i].inputs} : i \in DOMAIN txs}

TxOutputs(txs) ==
  UNION {{[tag |-> <<i, j>>, note |-> txs[i].outputs[j]] : j \in DOMAIN txs[i].outputs}
         : i \in DOMAIN txs}

(* A proven transaction's authenticated inputs were on chain at its        *)
(* reference block, so they are at any later one.                          *)
ProvenBy(tx, ref) ==
  \A j \in DOMAIN tx.inputs :
    tx.inputs[j].header = {} =>
      \E k \in 0 .. ref : \E n \in NotesOf[k] : n.id = tx.inputs[j].nullifier

Touched(txs) == {txs[i].account : i \in DOMAIN txs}

(* merge_proven_tx: a later transaction of an account starts at the state  *)
(* the earlier ones reached, so that A -> B -> C becomes A -> C.           *)
UpdatesChain(txs) ==
  \A i, j \in DOMAIN txs :
    /\ i < j /\ txs[i].account = txs[j].account
    /\ \A k \in i + 1 .. j - 1 : txs[k].account # txs[i].account
    => txs[j].init = txs[i].final

MergedUpdate(txs, a) ==
  LET own == {i \in DOMAIN txs : txs[i].account = a}
  IN  [init  |-> txs[CHOOSE i \in own : \A j \in own : i <= j].init,
       final |-> txs[CHOOSE i \in own : \A j \in own : j <= i].final]

(* The earliest expiration of the transactions.                            *)
BatchExpirationLatest(txs) ==
  CHOOSE e \in {txs[i].exp : i \in DOMAIN txs} : \A i \in DOMAIN txs : e >= txs[i].exp

BatchExpiration(txs) ==
  CHOOSE e \in {txs[i].exp : i \in DOMAIN txs} : \A i \in DOMAIN txs : e <= txs[i].exp

(* Inclusion proofs the node has for some of the unauthenticated inputs.   *)
ProofsFor(inputs) ==
  LET ids == UNION {HeaderIds(x) : x \in inputs}
      known == {id \in ids : \E k \in 0 .. Height : \E n \in NotesOf[k] : n.id = id}
  IN  UNION {{p \in [S -> 0 .. Height] :
                \A id \in S : \E n \in NotesOf[p[id]] : n.id = id} : S \in SUBSET known}

(* ProposedBatch::new and the proven batch it leads to.                    *)
ProposeBatch(txs, proofs) ==
  LET ref == Height
      authenticated == AuthenticateAll(TxInputs(txs), proofs)
      inputs == KeptInputs(authenticated, TxOutputs(txs))
      outputs == KeptOutputs(authenticated, TxOutputs(txs))
  IN  /\ Cardinality(batches) < MaxPending
      /\ txs # <<>> /\ IsInjective(txs)
      /\ \A i \in DOMAIN txs : ProvenBy(txs[i], ref)
      /\ UpdatesChain(txs)
      /\ Cardinality(Touched(txs)) <= MAX_ACCOUNTS_PER_BATCH
      /\ \A i \in DOMAIN txs : txs[i].exp > ref
      /\ TrackerAccepts(TxInputs(txs), TxOutputs(txs), proofs, NotesOf, ref)
      /\ Cardinality(inputs) <= MAX_INPUT_NOTES_PER_BATCH
      /\ Cardinality(outputs) <= MAX_OUTPUT_NOTES_PER_BATCH
      /\ batches' = batches \cup {[txs |-> txs, ref |-> ref, exp |-> BatchExpiration(txs),
                                   updates |-> [a \in Touched(txs) |-> MergedUpdate(txs, a)],
                                   inputs |-> inputs, outputs |-> outputs]}
      /\ UNCHANGED <<chain, body>>

(* The node forgets a waiting batch.                                       *)
DropBatch ==
  /\ \E b \in batches : batches' = batches \ {b}
  /\ UNCHANGED <<chain, body>>

-----------------------------------------------------------------------------
(* The union of the batches' inputs and outputs.  The id of a batch is a   *)
(* commitment to its transactions.                                         *)
BlockInputs(bs) ==
  UNION {{[tag |-> <<b.txs, x.tag>>, nullifier |-> x.nullifier, header |-> x.header]
          : x \in b.inputs} : b \in bs}

BlockOutputs(bs) ==
  UNION {{[tag |-> <<b.txs, o.tag>>, note |-> o.note] : o \in b.outputs} : b \in bs}

(* check_duplicate_batches, check_batch_expiration,                        *)
(* check_batch_reference_blocks.                                           *)
BatchesFit(bs) ==
  /\ Cardinality(bs) <= MAX_BATCHES_PER_BLOCK
  /\ \A b, c \in bs : b.txs = c.txs => b = c
  /\ \A b \in bs : b.exp >= Height + 1 /\ b.ref <= Height

(* insert_update: updates that change nothing are ignored.                 *)
UpdatesOf(bs, a) ==
  {u \in {[batch |-> b.txs, init |-> b.updates[a].init, final |-> b.updates[a].final]
          : b \in {c \in bs : a \in DOMAIN c.updates}} : u.init # u.final}

NoConflict(updates) == \A u, v \in updates : u.init = v.init => u = v

(* aggregate_account: remove the update that starts at the current state   *)
(* until none is left; Reached[k] is the state after k of them.            *)
Reached(updates, start) ==
  LET walk[k \in 0 .. Cardinality(updates)] ==
        IF k = 0 THEN start
        ELSE LET from == walk[k - 1]
             IN  IF \E u \in updates : u.init = from
                 THEN (CHOOSE u \in updates : u.init = from).final
                 ELSE from
  IN  walk

(* No update is left over: every one was found along the walk.             *)
Aggregates(updates, start) ==
  \A u \in updates :
    \E k \in 0 .. Cardinality(updates) - 1 : Reached(updates, start)[k] = u.init

(* compute_account_root and compute_nullifier_root: witnesses of a state   *)
(* other than the previous block's are refused where they are used.        *)
FreshWitnessesNoNullifierRoot(updated, inputs, ha, hn) ==
  updated # {} => Blk(ha).accounts = Tip.accounts

FreshWitnesses(updated, inputs, ha, hn) ==
  /\ updated # {} => Blk(ha).accounts = Tip.accounts
  /\ inputs # {} => Blk(hn).nullifiers = Tip.nullifiers

(* ProposedBlock::new_at with account witnesses read at block ha and       *)
(* nullifier witnesses read at block hn, then into_header_and_body. The    *)
(* nullifier witnesses are those of the consumed notes, as BlockInputs     *)
(* says: the block marks the nullifier of every witness that is not of an  *)
(* erased note.                                                            *)
ProposeBlock(bs, proofs, ha, hn) ==
  LET authenticated == AuthenticateAll(BlockInputs(bs), proofs)
      inputs == KeptInputs(authenticated, BlockOutputs(bs))
      outputs == KeptOutputs(authenticated, BlockOutputs(bs))
      updated == {a \in Accounts : UpdatesOf(bs, a) # {}}
      final(a) == Reached(UpdatesOf(bs, a), Blk(ha).accounts[a])[Cardinality(UpdatesOf(bs, a))]
  IN  /\ BatchesFit(bs)
      /\ TrackerAccepts(BlockInputs(bs), BlockOutputs(bs), proofs, NotesOf, Height)
      /\ \A x \in inputs : IsAuthenticated(x)
      /\ \A x \in inputs : x.nullifier \notin Blk(hn).nullifiers
      /\ \A a \in updated : /\ NoConflict(UpdatesOf(bs, a))
                            /\ Aggregates(UpdatesOf(bs, a), Blk(ha).accounts[a])
      /\ FreshWitnesses(updated, inputs, ha, hn)
      /\ chain' = Append(chain,
           [notes      |-> {o.note : o \in outputs},
            nullifiers |-> Tip.nullifiers \cup {x.nullifier : x \in inputs},
            accounts   |-> [a \in Accounts |-> IF a \in updated THEN final(a)
                                               ELSE Tip.accounts[a]]])
      /\ body' = {b.txs : b \in bs}
      /\ UNCHANGED batches

-----------------------------------------------------------------------------
TxSeqs == UNION {[1 .. n -> Txs] : n \in 1 .. MAX_TXS}

Next ==
  /\ Height < MaxHeight
  /\ \/ \E txs \in TxSeqs : \E proofs \in ProofsFor(TxInputs(txs)) : ProposeBatch(txs, proofs)
     \/ DropBatch
     \/ \E bs \in SUBSET batches : \E proofs \in ProofsFor(BlockInputs(bs)) :
          \E ha, hn \in 0 .. Height : ProposeBlock(bs, proofs, ha, hn)

Spec == Init /\ [][Next]_vars

-----------------------------------------------------------------------------
Created == UNION {NotesOf[k] : k \in 0 .. Height}

Executions == UNION {{[key |-> <<txs, i>>, tx |-> txs[i]] : i \in DOMAIN txs} : txs \in body}

(* The chain implements the ledger: whatever was erased inside a batch or  *)
(* a block, authenticated early or late, aggregated across batches or      *)
(* retried, the block applies its transactions as one atomic step of the   *)
(* ledger, in which every note consumed is an unspent one or is handed     *)
(* over by its creator, and every account moves along its transactions.    *)
L == INSTANCE Ledger WITH accounts <- Tip.accounts, created <- Created,
                          nullified <- Tip.nullifiers, last <- Executions

ImplementsLedger == L!Spec

(* What the accounts and the unspent notes hold never grows: a note that   *)
(* is erased, recreated under the same id or consumed in two batches is    *)
(* never counted twice.                                                    *)
Circulation(block, created) ==
  LET unspent == {n.id : n \in created} \ block.nullifiers
  IN  MapThenSumSet(LAMBDA a : block.accounts[a].balance, Accounts)
      + MapThenSumSet(LAMBDA id : NoteValue[id], unspent)

NoInflation == Circulation(Tip, Created) <= Circulation(Genesis, Genesis.notes)

(* A transaction is never included after its expiration block, although    *)
(* only the batch's expiration is looked at when the block is built.       *)
ExpiredIsNotIncluded ==
  \A txs \in body : \A i \in DOMAIN txs : Height <= txs[i].exp

(* Every nullifier of the chain belongs to a note the chain recorded in an *)
(* earlier block.                                                          *)
NullifierHasNote ==
  \A k \in 1 .. Height : \A id \in Blk(k).nullifiers :
    \E j \in 0 .. k - 1 : \E n \in NotesOf[j] : n.id = id
=============================================================================
