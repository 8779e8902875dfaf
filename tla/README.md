# Verification of the Miden workspace

TLA+ models of the parts of this workspace that keep state and meet concurrency,
failure or arithmetic limits, TLC runs that check them on small instances, and
TLAPS proofs of the results that matter most. `PROJECT.json` lists components,
runs, mutants, the map from definitions to source lines, findings, hazards and
theorems in machine-readable form; this file explains them.

## 1. The system

| Part | Where | What it does | Modelled |
|---|---|---|---|
| Input note record | `miden-client/crates/rust-client/src/store/note_record` | state machine of one note: nine states, five events | `InputNoteStates`, `InputNoteRecord` |
| Account store, SMT forest | `sqlite-store/src/account`, `rust-client/src/store/smt_forest.rs` | latest and archived account headers, lock flag, in-memory roots with a rollback stack | `AccountStore` |
| Transaction pipeline | `rust-client/src/transaction`, `sqlite-store/src/transaction.rs` | execute, prove, submit, apply | `ClientSync` |
| State sync | `rust-client/src/sync`, `rust-client/src/note/note_update_tracker.rs`, `sqlite-store/src/sync.rs` | fetch the changes since the last sync, settle transactions and notes, one atomic store update | `ClientSync` |
| Node | not in the repository | mempool, blocks, notes, nullifiers | `MidenNode` (external) |
| Sealed SDK | `projects/sealed/sdk` | private credential vault with a mock root, score, threshold proof | `SealedVault` |
| Sealed contract | `projects/sealed/contracts/sealed-account/sealed_account.masm` | the same in Miden assembly | `SealedContract` (score and threshold) |
| Syndex SDK | `projects/syndex/sdk` | gradient updates of one institution | `SyndexSdk` |
| Syndex shared store | `projects/syndex/frontend/lib/shared-store.ts`, `app/api`, pages | activity list shared by browsers through one JSON document | `SharedStore` |
| Batch and block building | `tools/miden-protocol/src/batch`, `.../src/block/proposed_block.rs` | proven transactions become batches, batches a block: notes erased or authenticated, account updates chained | `NoteTracker`, `ProposedBlock`, `Ledger` |
| VM execution | `miden-vm/processor/src/execution`, `.../fast` | the loop over program nodes, the operand stack in a fixed buffer | `MastExecution`, `FastStack`, `CallStack` |
| VM trace generation | `miden-vm/processor/src/trace` | one execution recorded in fragments, each replayed on its own into rows | `ExecutionTracer`, `TraceReplay`, `VmTrace` |
| Spinlock | `miden-vm/crates/utils-sync/src/rw_lock.rs` | `RwLock` for builds without the standard library | `SpinRwLock` |
| Syndex contract | `projects/syndex/contracts` | registration and updates in assembly | no: its `adv_push.4` is not accepted by the assembler in the tree |
| Frontends' other pages, scripts, `tools/activity-generator`, `tools/compiler` | `projects`, `tools` | display, straight-line command-line programs | no |
| Note import and screening, tags, note transport, block headers and partial MMR | `rust-client/src/note`, `sync/tag.rs`, `note_transport`, `sync/block_header.rs` | how notes come to be tracked and stay provable | no, see section 5 |
| Assembler, AIR, prover, verifier, core library, rest of the protocol, STARK patches | `miden-vm`, `tools` | compilers, proof systems, data types | no, see section 5 |

How they interact: applications and the command line call the client. The client
executes transactions against its store, submits them to the node and learns
their fate only through later syncs. The store is the one place where the
pipeline and the sync meet. What the node does with transactions it accepted,
batching them and building blocks, is code of the protocol crate. Every
transaction is executed and traced by the virtual machine. The Sealed and Syndex
projects stand on their own.

## 2. Modules

- Client: `AccountStates` (constants) is extended by `MidenNode` and `AccountStore`;
  `ClientSync` composes `MidenNode`, `AccountStore` and `InputNoteStates`;
  `InputNoteRecord` uses `InputNoteStates` on one record with its data.
- Protocol: `ProposedBlock` extends `NoteTracker` and is shown to implement `Ledger`.
- Machine: `VmTrace` extends `FastStack`, instantiates `MastExecution` twice (for the
  processor that runs and for the one that replays), and uses `ExecutionTracer` and
  `TraceReplay`; `FastStack` is shown to implement `CallStack`.
- `SpinRwLock`, `SealedVault`, `SealedContract`, `SyndexSdk`, `SharedStore` stand alone.

`MC*` modules give the constants values, `*Proofs` modules hold theorems. Definitions that begin with "Wrong on purpose" are mutated forms of the
definition that follows; nothing in the specifications uses them.

**InputNoteStates.** One operator per state file (`expected.rs` ...), each giving
the next state for the events *proof*, *header*, *nullified*, *local*,
*committed*, or `Failed` where the handler returns an error. `Transition`
dispatches on the state. A Boolean stands for the test a handler makes (the proof
verifies, the metadata is known, the transaction is the expected one).

**InputNoteRecord.** One record with its proof, note root, consumer and height.
Actions are the five `InputNoteRecord` methods and the upsert that
`execute_transaction` makes. Proofs and headers are arbitrary, `Verifies` says
which pairs match.

**AccountStore.** Pure operators on a store record; the module's header names the
tables its fields stand for. `ApplyDelta`, `UpdateState`, `Undo`, `LockOn`,
`CommitRoots`, `DiscardRoots`, `Reopen` follow the functions of `accounts.rs` and
`smt_forest.rs`. A state stands for a header together with its vault and storage
rows and its roots, which the code moves together.

**MidenNode.** External. One tracked account, whose transactions may also come
from other clients. It drops transactions silently, includes them late, changes
the id of a transaction with unauthenticated inputs, puts several transactions of
the account in a block (`Spread = FALSE`) and erases notes created and consumed
in one batch.

**ClientSync.** `Execute`, `Abandon`, `Submit`, `Refused`, `Apply`, `ApplyFails`
are the pipeline; `SyncStart`, `SyncFail`, `SyncApply`, `SyncStoreError`,
`SyncPanic` the sync; `Restart` ends the process at any point. The operators
between them (`Records`, `Matches`, `Commits`, `AfterInclusion`, `AfterErasure`,
`Reported`, `AfterNullifiers`, `Cascade`, `Discards`, `Digests`, `Resolved`,
`Updated`) are the steps of `sync_state` and `apply_state_sync` in the code's
order. The client's methods take `&mut self`, so only the network runs beside a
sync, and syncs fall between pipeline calls only when the caller makes these one
by one (`OneCall = FALSE`). `target` is fixed by the first request, the public
account is read at the tip of a later one. An undetermined outcome (which record
of a block comes first, whether a delta applied to another state than its own
fails) is a nondeterministic choice.

**SealedVault**, **SyndexSdk.** The SDK clients, one action per method and
outcome. Words that are only xored are sets of bits in `SealedVault`; `SyndexSdk`
uses bitwise xor. `U32Max`, `MaxAge` and `BOUND` are constants so that saturation
and the window's edge happen in small instances.

**SealedContract.** `prove_threshold` from entry to assertion, stack cells as
variables, field arithmetic modulo `P`. For `[b, a]` with `b` on top, the VM's `sub`
is `a - b` and `gte` is `a >= b`.

**SharedStore.** Each browser has threads for the pages' own writes (`Form`) and for
auto-syncs (`Loop`), since a page load and every 30 s poll starts a detached loop that
waits for none of the others. A loop reads the document (`Load`), compares it with the
storage as it is after that await (`Compare`) and writes what is missing one by one
(`AutoSync`); a write has two awaits, for the read and for the post. Ids are tagged
text or number, because the code parses them on the way into the document. A tick
is a fraction of the 60 s that are both cooldown and rate-limit window.
`Provisioned` says which browsers hold the key `syndex_institution_id`, which the
submit page reads and no page of the repository writes.

**SpinRwLock.** One step per atomic access to `state` or `writer_wake_counter`. `pc`
names the access a thread performs next; `s` and `w` are the locals of `lock_shared`
and `lock_exclusive`. Accesses are sequentially consistent; `compare_exchange_weak` may
fail spuriously. `UsizeMax` is the sentinel
of the locked state, `WakeMod` the width of the counter.

**NoteTracker.** `InputOutputNoteTracker` as operators on sets of tagged inputs and
outputs: duplicates refused, an unauthenticated input authenticated by its block,
erased against the output of the same note, or kept.

**ProposedBlock.** `ProposeBatch` is `ProposedBatch::new`, `ProposeBlock` is
`ProposedBlock::new_at` with the header and body computed from it; batches wait in
between, are dropped, or are offered again in a later block. Witnesses for accounts and nullifiers may come
from an earlier block. Hashes are injective: a root is the value it commits to.

**Ledger.** What a chain promises: a set of executions is applied at once, each
account's updates form a chain from its state, every consumed note is an unspent
note of the ledger or is handed over, once, from its creator in the same step.
`ProposedBlock` implements it with the account states of the latest block, all notes
and nullifiers of the chain, and the transactions of the latest block.

**FastStack.** The operand stack: a slice of one buffer between `stack_bot_idx` and
`stack_top_idx`. Growing, shrinking, `start_context`, `restore_context` and the move
of the slice when it reaches the lower end of the buffer are operators on a record of
the processor's fields; the module's own actions call them in any order a program
could. **CallStack** is the stack a program sees: sequences, and a fresh view per call.

**MastExecution.** `execute_impl`: one continuation of the continuation stack per
step, for join, split, loop, call, syscall, dyn, dyncall, external nodes and basic
blocks, with every error exit. The processor is a parameter, as in the code. Of the
operations there is one for each effect on the stack's depth.

**ExecutionTracer.** What `start_clock_cycle`, the record functions and
`finish_fragment` note down: a snapshot every `fragment_size` rows, and queues for
what a replay cannot compute from it.

**TraceReplay.** `ReplayProcessor`, fed from these queues, and the generator of rows.

**VmTrace.** Both together: a program runs to its end or to an error, then all its
fragments are replayed and put together. `log` is a history variable: the row that
the running processor stands for in each clock cycle.

## 3. Runs

Passing runs.

| Run | Instance | Shows |
|---|---|---|
| `note_record` | 3 proofs, 3 roots, 3 transactions, 7 heights | fields fit the state, authentication is sound and never lost, consumption is final |
| `sync_private` | private account; chain t1 (s0 to s1), t2 (s1 to s2), competitor x1 from s0; t1 creates a note that t2 consumes; 4 blocks; calls one by one | consumed notes are nullified on chain by the synced block; a committed record's initial state was left on chain; local consumption has a committed transaction; committed is final; discarding reaches dependents; while no two calls overlapped, a pending transaction can be undone and settled means equal to the chain or locked |
| `sync_public` | public account, one transaction, continued by another client; refresh in full or as delta; 4 blocks, fair | the same agreement for an account refreshed from the network; pending transactions are resolved, nullifiers are learned |
| `sealed_vault` | 2 clients, 2 credentials each, 4-bit words, largest u32 15 | the saturating score is the capped sum whatever the order; a threshold once proved for a timestamp stays provable for it whatever is issued later |
| `syndex_sdk` | 2 limbs, count limit 2, 3 updates | root and count follow the history; the error after the push cannot occur |
| `shared_store` | 2 browsers (symmetric), each with a page write and an auto-sync, registrations, failures | the document stays consistent and holds nothing nobody stored |
| `shared_live` | 1 browser with a page write and two auto-syncs, submissions, no failures, fair | with updates too the document stays consistent; auto-sync brings a registration into the document for good, once the loops no longer overlap and the route no longer refuses |
| `rw_lock` | 2 readers, 1 writer, state up to 9, counter modulo 4, fair | guards exclude each other, `state` counts them; a parked writer is owed a wake-up and acquires the lock, while readers keep coming |
| `block` | 2 accounts, 2 notes, 8 transactions, 2 per batch, 2 batches per block, 2 waiting, 2 blocks | no value is created; nothing expired is included; every nullifier has its note; blocks implement the ledger |
| `vm` | 538 small programs over all kinds of node, 5 inputs, fragments of 1, 2, 3 and 5 rows; stack depth 2, buffer of 8 | the slice stays in the buffer, the tracer's overflow table is what lies below the top, the buffer implements the call stack, the replayed fragments together are the execution |

Two runs refute a statement of the repository; `findings` quotes the lines.

| Run | Statement | What happens |
|---|---|---|
| `contract_threshold` | `prove_threshold` asserts score >= threshold | the score is on top of the threshold, and `gte` compares the element below the top with the top |
| `rw_lock_wake` | a writer waits "until the release of the last shared lock, which is communicated to us by it incrementing the wake counter" (`rw_lock.rs:195`) | with two writers and a reader: one writer loads the state while the other holds the lock, takes its odd value for the exclusive bit and does not set it; the other releases, and a reader enters; then the first one reads counter and state and parks with the bit not set, so the reader's release increments nothing and the writer spins until another writer comes by |

Other statements of comments and tests do not hold as written either. The modules
state them in a section of their own or at their end; putting the name in place of the
properties of the configuration named here gives TLC's trace.

| Statement (definition) | Where it is made | What happens | Configuration |
|---|---|---|---|
| `ProcessingHasPendingTx` | `input_note_record/mod.rs:180` | discarding a transaction leaves its inputs processing | `MCClientSync` |
| `CommittedIsIncluded` | `transaction/record.rs:203` | matching by initial state (`state_sync_update.rs:232`) takes another client's transaction for it; `CommittedStateIsSpent` is what holds | `MCClientSync` |
| `DiscardedIsNotIncluded` | `transaction/record.rs:210` | discarded by age, included later; holds with `Delta = 9`, where nothing is discarded by age | `MCClientSync` |
| `ExternalMeansNotOurs` | `states/mod.rs:59` | the answer to the submission was lost | `MCClientSync` |
| `RootsFollowLatest` | `smt_forest.rs:27` | after a restart the stack is empty, so a discard removes the roots | `MCClientSync` |
| `ExecuteLeavesStore` (property) | `transaction/mod.rs:234` | unauthenticated inputs are upserted | `MCClientSync` |
| `LockMeansUnknown` | `accounts.rs:868` | one sync commits a transaction and discards its successor: undoing removes the archived row the lock condition looks for and makes it the latest, which the condition does not look at, so the account is locked in the very state the chain has | `MCClientSync` |
| `DigestIsLatest` | `state_sync.rs:1180` | several transactions in a block: the first record wins | `MCClientSync` with `Spread = FALSE` |
| `ForestNeverPanics` | `smt_forest.rs:134` | a delta update stages roots that nothing commits | `MCClientSyncPublic` |
| `RootChangesOnIssue` (property) | `projects/sealed/tests/src/unit/mod.rs:39` | fields that cancel under xor | `MCSealedVault` |
| `WindowIsOneYear` | `sealed_account.masm:91` | both operands the other way round, and wrap-around | `MCSealedContract` |
| `TimestampComesFirst` | `sealed_account.masm:59` | the count is popped first | `MCSealedContract` |
| `UpdateIsShared` (property) | `network/page.tsx:105` | text and number ids never match; the needless write starts the cooldown that drops the next one | `MCSharedStoreLive` |
| `TraceIsExecution` | `trace/parallel/tracer/mod.rs:82` | two cases. A loop that is not entered ends in a cycle of its own, in which the element below the condition is on top; `get_finish_loop_condition` (`:288`) looks at that element and not at `was_entered`, so if it is ONE the row is REPEAT instead of END (`execution_tracer.rs:535` does look at `was_entered`). And an external entry point is resolved before the first snapshot (`execution_tracer.rs:383`), so its resolution stays at the head of the first fragment's queue. `RegularTraceIsExecution` is the statement without these two cases | `MCVmTrace` |

Not stated in a module: `shared-store.ts:102` announces that a rate-limited entry will
be retried on the next submission; no code keeps it, the next submission carries only
its own entry.

**Bounds.** `MaxBlock = 4` leaves room for a submission, an inclusion, an
expiry and a sync in different blocks, with `Delta = 1` so that discarding by age
comes before expiry. Two local transactions are the shortest chain for cascades,
stacked roots and undoing more than one nonce; one competitor suffices for every
conflict on a state. `MaxCredentials`, `MaxAdvice`, `MaxUpdates` bound lists at the
length where two elements interact. The caps of the shared document are reached
in `shared_store`. `MAX_UPDATES = 0` there makes the route refuse documents with
updates, which keeps that run on registrations; `shared_live` has the updates, and
two auto-syncs, the least that overlap.
`UsizeMax = 9` is the least sentinel that counting three guards does not reach, and
`WakeMod = 4` lets the counter wrap. Two transactions per batch, two batches per
block and two blocks are the least at which a note passes within a batch, between
batches of a block and between blocks; the transactions include a fork of an
account, a note created twice, notes passed in a circle, wrong metadata, a note
consumed twice by one transaction and an expiration. `MIN_STACK_DEPTH = 2` and a
buffer of 8 make growth, the move of the slice and the overflow error frequent;
`MAX_CYCLES` and `MAX_CONTS` end endless loops with the code's own errors.
`CHECK_DEADLOCK FALSE` appears for the contract, whose call ends, for a chain at
`MaxHeight` and for a machine whose program ended. Symmetry is used for the browsers
in safety runs only.

**What holds only for some callers.** `PendingCanBeUndone` and `SettledMatchesChain`
do not hold once a sync overlaps a pipeline call: it can settle the account before
the delta is applied to it. `MCClientSync` therefore keeps a history variable
`overlapped`, and the `Serial` forms state them as long as it is false; in
`sync_public` the whole pipeline is one call (`OneCall = TRUE`).
`SettledMatchesChain` also needs at most one transaction of the account per block
(`Spread = TRUE`), and for a public account that no other client competes for the
same state: with `Private = FALSE` and `OneCall = TRUE` in `MCClientSync`, the
competitor's transaction matches the local one by its initial state, the local one
is recorded as committed, and the account is neither refreshed, since the network's nonce
is not above the local one, nor locked, since it is public.

`PendingCanBeUndone` and `SettledMatchesChain` further need that no two transactions
lead from different states to the same one (`OneHistory` in `ClientAccountProofs`),
which the instances of the runs satisfy. Otherwise another client can reach a state of
the local chain by a different path. Take t1 from s0 to a, t2 from a to c, t3 from c to
d and t4 from d to e, all pending, and another client's transactions from s0 to b, b to c
and c to f in one block, with t1 and t2 expired. Matching by initial state commits t1
and t3; t2 is discarded as expired and undone to a, while t4 stays pending and its
final state is gone from the store.

`RegistrationIsShared` has two conditions of its own. The first is that the auto-syncs of
a browser overlap only finitely often, which the code does not see to. With three of
them (`Loop = {l1, l2, l3}`) there can always be two that hold documents read before the
other's write, one with the registration and without an update and the other the
reverse, so that each write removes what the one before added. With the two loops of the
run the property holds without that condition too. The second is that the
browser is not rate limited forever: the route logs the requests it refuses as well, so a
browser with many entries that a full document does not take can keep itself over the
limit.

**Fairness.** `ClientSync`: the network keeps sealing blocks (weak); a pipeline
call that has begun ends (weak, the calls are sequential code); the caller keeps
syncing, and of infinitely many syncs not all fail (strong, since a restart or a
failing request may interrupt any one of them); a client whose store panicked is
restarted. No fairness on inclusion: the network may drop any transaction.
`SharedStore`: pages poll every 30 s, loops and calls go on, requests are answered,
time passes (all weak). Nobody has to register or submit. `SpinRwLock`: every thread
that has begun an operation, or holds a guard, goes on (weak); no thread has to begin
one, and nothing is assumed about who wins a contended exchange.

## 4. Proofs

All for arbitrary constants under the named assumptions of the modules. A theorem
with further conditions has them as its own hypotheses.

- `InputNoteRecordProofs`: `FieldsFitState`, `AuthenticationSound`, `ConsumedFinal`,
  `AuthenticationKept`. The inductive invariant `RecordInv` is the type invariant with
  the fields each state must have, plus soundness of authentication: soundness alone is
  not inductive, since an unverified record must be known to hold the proof that the
  header is checked against. One lemma per event says what `Transition` does with it.
- `ClientSyncProofs`: `ConsumedSound`, `TypesHold`, `CommittedSound`,
  `LocalConsumptionSound`, `DiscardComplete` and `UndoInvertsApply`.
  The inductive invariant `SyncInv` adds `ChainInv` to the types and
  `ConsumedIsNullified`: outputs are created in the block of their transaction, an
  erased note is consumed in the block that created it, and a running sync leads
  forward. Erasure needs the first two: the client concludes consumption from the
  creator's record alone. There is one lemma per action and one per stage of a note's
  way through a sync. `DiscardComplete` rests on `CascadeClosed`: the set `Cascade`
  defines is closed under "starts from the state that a member leaves".
  `UndoInvertsApply` is about the store alone: undoing a transaction right after
  applying it is the identity, for a nonce not yet in the history and a current state
  not archived.
- `ClientAccountProofs`: `PendingUndoable`, that a pending transaction of a private
  account can always be undone, with the pipeline as one call, transactions that raise
  the nonce (`NonceGrows`) and `OneHistory` (section 3). The invariant `AccountInv` says
  of the network that the included transactions are a path to the account's head in
  the order of the blocks (`PathInv`); of the pipeline that one transaction at a time
  starts from the latest state (`PipelineInv`); of the store that its archived rows
  cover disjoint ranges of nonces below the latest header (`RowsInv`); and of the
  pending transactions that they are the upper end of these rows, one for each row
  from the lowest of them up, with no transaction of a synced block leaving their
  states (`PendingInv`). The last clause is what makes a sync commit a lower part of
  the pending chain and discard an upper one. `CommittedFinal`: under the same conditions
  a committed transaction is never reopened or discarded. Only applying it again could
  reopen it, and what is applied starts from a state that no synced block has left
  (`PipelineInv`), while a committed one starts from a state that one has left
  (`CommittedStateIsSpent`).
- `ClientSettledProofs`: `SettledSound`, that an account with nothing pending is in the
  state of the synced chain or locked, with in addition one transaction of the account
  per block (`Spread`). `SettledInv` adds to `AccountInv` that the blocks order the path
  strictly (`OrderInv`), that archived rows are locked all together or not at all
  (`LocksInv`), and that, unless the account is locked, what is pending starts from the
  state the account had at the last synced block (`AnchorInv`).
- `SharedStoreProofs`: `SharedDocumentSound` and `SharedFromStorage`, for any browsers,
  hashes and limits and any number of page writes and auto-syncs under way in each.
  `SharedInv` follows every copy of the document: the stored one, the ones calls and
  auto-syncs have read, and what an auto-sync still has to write
  are all built from what is in some browser's storage, which only grows. That
  auto-sync takes entries only from the history (`UnsharedIsLocal`) is an induction on
  the length of the list.
- `SpinRwLockProofs`: `LockIsExclusive` and `StateIsGuardCount`, for any finite sets of
  readers and writers whose guards do not count up to the sentinel. `LockInv` adds to
  exclusion that `state` is the sentinel exactly while a writer holds the lock and
  otherwise twice the number of read guards, with or without the exclusive bit:
  exclusion alone says nothing about what an exchange finds. `SoleWriterIsWoken`: with
  one writer and no more threads than values of the wake counter, no wake-up is lost.
  `WakeInv` adds that the exclusive bit is set only while the writer drains readers, and
  that the increments since the writer read the counter, with those still to come, are
  fewer than the threads. Both hypotheses are needed: `rw_lock_wake` has two writers, and four threads with
  three values of the counter let it wrap around.
- `FastStackProofs`: `SliceStaysInBuffer` and `BufferIsCallStack`, for every buffer
  size and every minimum depth above 1. `SliceIsInBuffer` says that the slice is in range, holds
  at least the minimum depth, and has only zeros below it, which is what makes a
  drop at the minimum depth pull in a zero. It is not inductive: the invariant `Good`
  adds that what each call put aside fits under a minimal slice at the upper end of
  the buffer, where a return that finds no room moves the slice.
- `ProposedBlockProofs`, under `BlockAssumption` (an unauthenticated input names the
  note its nullifier belongs to, genesis consumes nothing): `NoExpiredInclusion`, from
  the fact that a batch's expiration is the least of its transactions', and
  `NullifiersHaveNotes`. The latter's invariant `LedgerInv` says of every waiting batch
  that its inputs and outputs come from its transactions and that what it erased it
  also created, for as long as the batch waits. `ChainImplementsLedger`: every block is a
  step of `Ledger`. For the notes, the pairs of consumption and creation erased in the
  batches or in the block are exhibited (`Handed`) and shown to be one-to-one; what is
  left over on each side is what the block records as nullifiers and notes. For the
  accounts, `AccountInv` says that each waiting batch's update of an account is the merge
  of a chain of its transactions' updates (`UpdatesInv`). The block orders the merged
  updates of its batches, and putting the chain of each batch in its place orders all
  the executions that change the account. That needs `NonceAssumption`, that a
  transaction which changes an account raises its nonce: without it a batch could lead
  an account back to where it was, and the merged update would show no change.

Facts about a least number and inductions on a length come from the well-foundedness of
the natural numbers (`NatMinimum`, `Induction`), applied to a set instead of a predicate.

Only model-checked:

- `PendingCanBeUndone`, `SettledMatchesChain` and `CommittedIsFinal` for public accounts
  and for callers that make the pipeline's calls one by one.
- `NoInflation`: sums over functions need induction with an operator as parameter.
- The trace properties of `VmTrace` (folds over programs).
- `SealedVault`, a sum by a fold over the credentials, and `SyndexSdk`, whose bitwise xor
  the prover cannot load.
- All liveness: fairness and ENABLED are out of the prover's reach.

## 5. Not modelled

In the modelled parts: foreign accounts and network-transaction script registration
in the pipeline; a database error in the middle of applying a transaction, which rolls the
tables back and leaves the new roots staged in the forest; `prune_account_history`; switching nullifier sync off; paging and
retries of the RPC client; staleness of the shared document behind its CDN; text
sanitising; SDK methods that only read; `issue_credential` of the contract, one update of
the machine's Merkle store; timestamps of blocks; in the machine, memory, the advice
provider, chiplets, decorators, and the async twin of the execution loop, which
takes the same steps; memory orderings weaker than sequential consistency in the lock.

Parts of the client that keep state and are not modelled: note import, tags, late
tracking of notes, block headers with the partial MMR and its pruning, and note
transport with its cursor. The instances of `ClientSync` start from records that an
import may leave, follow every note, and take authentication paths as given; whether
a pruned MMR still has the path of an unspent note is therefore not shown.

The rest of the tree has no state machine to model. Most of its lines are the
assembler and its syntax tree, constraint systems, prover and verifier, hash functions
and field arithmetic, serialisation, the protocol's data types and transaction
kernel, command-line programs, and generated or test code: pure functions of large
inputs over 64-bit fields, whose faults do not show in instances small enough to
enumerate, or straight-line code. The models therefore cover a small share of the
lines of the workspace; they were placed where several actors, failures or stale data meet.
