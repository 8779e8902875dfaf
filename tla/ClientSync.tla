------------------------------ MODULE ClientSync ------------------------------
(***************************************************************************)
(* miden-client and its store against the network: the transaction pipeline *)
(* (execute, submit, apply) and the state sync (fetch, then one atomic      *)
(* store update), for one tracked account and a set of notes.               *)
(*                                                                          *)
(* Client methods that change anything take &mut self, so a sync never runs *)
(* beside a local operation; what interleaves is the network, and the three *)
(* pipeline calls with syncs when the caller makes them one by one (OneCall *)
(* = FALSE) instead of through submit_new_transaction. The network moves on *)
(* between the requests of one sync: target is fixed by the first, the      *)
(* account is read at the chain tip of a later one.                         *)
(***************************************************************************)
EXTENDS MidenNode, AccountStore, InputNoteStates

CONSTANTS
  NoTx,       \* no transaction
  Private,    \* TRUE: the account is private, only its digest is on chain
  Public,     \* notes with public details that the account can consume
  Relevant,   \* output notes that the client can consume itself
  Imported,   \* notes imported before, waiting for their inclusion
  Delta,      \* tx_discard_delta
  OneCall     \* TRUE: transactions are made by submit_new_transaction only

ASSUME ClientAssumption ==
  /\ NoTx \notin AllTx
  /\ Private \in BOOLEAN /\ OneCall \in BOOLEAN
  /\ Public \subseteq Note /\ Relevant \subseteq Note
  /\ Imported \subseteq Note
  /\ Delta \in Nat

VARIABLES
  synced,     \* block of the last applied sync
  target,     \* block a running sync leads to, 0 when none runs
  stage,      \* where each transaction is in the pipeline
  loose,      \* transactions executed with an unauthenticated input
  height,     \* submission height the node returned
  status,     \* status of each transaction record, None without record
  notes,      \* state of each input note record
  consumer,   \* the transaction a processing note is consumed by
  outnotes,   \* state of each output note record
  acct,       \* the account store
  poisoned    \* a panic left the forest's lock poisoned

clientVars == <<synced, target, stage, loose, height, status, notes, consumer,
                outnotes, acct, poisoned>>
vars == <<nodeVars, clientVars>>

Untracked == "Untracked"

\* Wrong on purpose: a sync loads every transaction record.
AllRecords == {t \in Tx : status[t] # "None"}

\* The records a sync loads (TransactionFilter::Uncommitted).
Pending == {t \in Tx : status[t] = "Pending"}
Idle == target = 0 /\ ~poisoned

Init ==
  /\ NodeInit
  /\ synced = 0 /\ target = 0 /\ poisoned = FALSE /\ loose = {}
  /\ stage = [t \in Tx |-> "idle"]
  /\ height = [t \in Tx |-> 0]
  /\ status = [t \in Tx |-> "None"]
  /\ notes = [n \in Note |-> IF n \in Imported THEN "Expected" ELSE Untracked]
  /\ consumer = [n \in Note |-> NoTx]
  /\ outnotes = [n \in Note |-> Untracked]
  /\ acct = NewStore(Genesis)
------------------------------------------------------------------------------
(* The transaction pipeline.                                                *)

\* execute_transaction: refuses consumed inputs and stores the inputs that
\* are not authenticated as Expected.
Execute(t) ==
  LET unauthenticated == {n \in Inputs[t] : notes[n] \notin Authenticated} IN
  /\ Idle /\ stage[t] = "idle"
  /\ OneCall => \A u \in Tx : stage[u] = "idle"
  /\ acct.latest = InitState[t]
  /\ \A n \in Inputs[t] : notes[n] \notin Consumed
  /\ stage' = [stage EXCEPT ![t] = "executed"]
  /\ loose' = IF unauthenticated = {} THEN loose \ {t} ELSE loose \union {t}
  /\ notes' = [n \in Note |-> IF n \in unauthenticated THEN "Expected" ELSE notes[n]]
  /\ consumer' = [n \in Note |-> IF n \in unauthenticated THEN NoTx ELSE consumer[n]]
  /\ UNCHANGED <<nodeVars, synced, target, height, status, outnotes, acct, poisoned>>

\* prove_transaction fails, or the caller drops the result.
Abandon(t) ==
  /\ Idle /\ stage[t] = "executed"
  /\ stage' = [stage EXCEPT ![t] = "idle"]
  /\ UNCHANGED <<nodeVars, synced, target, loose, height, status, notes, consumer,
                 outnotes, acct, poisoned>>

\* submit_proven_transaction: the node takes the transaction and answers
\* with its tip, but the answer may be lost; or the node refuses.
Submit(t) ==
  /\ Idle /\ stage[t] = "executed" /\ Admits(t)
  /\ mempool' = mempool \union {t}
  /\ height' = [height EXCEPT ![t] = tip]
  /\ \E reply \in {"submitted", "idle"} : stage' = [stage EXCEPT ![t] = reply]
  /\ UNCHANGED <<tip, included, renamed, head, sealed, created, nullified, erased,
                 synced, target, loose, status, notes, consumer, outnotes, acct,
                 poisoned>>

Refused(t) ==
  /\ Idle /\ stage[t] = "executed" /\ ~ Admits(t)
  /\ stage' = [stage EXCEPT ![t] = "idle"]
  /\ UNCHANGED <<nodeVars, synced, target, loose, height, status, notes, consumer,
                 outnotes, acct, poisoned>>

\* Wrong on purpose: the note does not notice that it is being consumed.
LeaveInput(n) == notes[n]

\* consumed_locally on each tracked input; the metadata came with the
\* request, or was imported with the note.
TakeInput(n) == Transition(notes[n], "local", TRUE)

\* Why apply_transaction returns an error with the transaction already
\* submitted: an input cannot be taken, the account is locked or gone, the
\* forest has no roots for it. A delta applied to another state than the
\* one it was made for usually fails too, but not always.
MustFail(t) ==
  \/ \E n \in Inputs[t] : notes[n] # Untracked /\ TakeInput(n) = Failed
  \/ acct.locked
  \/ acct.latest = NoState
  \/ acct.roots = NoState

MayFail(t) == MustFail(t) \/ acct.latest # InitState[t]

\* apply_transaction: the transaction becomes a pending record, the account
\* moves on, its inputs are processing and its outputs expected. Records of
\* outputs replace whatever the store had.
Apply(t) ==
  LET taken == {n \in Inputs[t] : notes[n] # Untracked} IN
  /\ Idle /\ stage[t] = "submitted" /\ ~ MustFail(t)
  /\ stage' = [stage EXCEPT ![t] = "idle"]
  /\ status' = [status EXCEPT ![t] = "Pending"]
  /\ acct' = ApplyDelta(acct, InitState[t], FinalState[t])
  /\ notes' = [n \in Note |->
                 CASE n \in taken                           -> TakeInput(n)
                   [] n \in Outputs[t] \intersect Relevant  -> "Expected"
                   [] OTHER                                 -> notes[n]]
  /\ consumer' = [n \in Note |->
                    CASE n \in taken                          -> t
                      [] n \in Outputs[t] \intersect Relevant -> NoTx
                      [] OTHER                                -> consumer[n]]
  /\ outnotes' = [n \in Note |-> IF n \in Outputs[t] THEN "Expected" ELSE outnotes[n]]
  /\ UNCHANGED <<nodeVars, synced, target, loose, height, poisoned>>

ApplyFails(t) ==
  /\ Idle /\ stage[t] = "submitted" /\ MayFail(t)
  /\ stage' = [stage EXCEPT ![t] = "idle"]
  /\ UNCHANGED <<nodeVars, synced, target, loose, height, status, notes, consumer,
                 outnotes, acct, poisoned>>

\* The process ends at any point and starts again: what is not in the
\* database is lost.
Restart ==
  /\ target' = 0 /\ poisoned' = FALSE
  /\ stage' = [t \in Tx |-> "idle"]
  /\ acct' = Reopen(acct)
  /\ UNCHANGED <<nodeVars, synced, loose, height, status, notes, consumer, outnotes>>
------------------------------------------------------------------------------
(* The state sync: what one update computes from the network's answers.     *)

\* New to the client: in a block after the last sync, up to the target.
Seen(b) == synced < b /\ b <= target

\* sync_transactions: the account's transactions in that range, for an
\* account the store still has.
Records == {x \in AllTx : Seen(included[x]) /\ acct.latest # NoState}

\* Wrong on purpose: an unknown id matches whatever is pending.
MatchesAny(x) == IF x \in Pending /\ x \notin renamed THEN {x} ELSE Pending

\* apply_transaction_inclusion: a record is matched by id, or by the state
\* it starts from.
Matches(x) ==
  IF x \in Pending /\ x \notin renamed THEN {x}
  ELSE {t \in Pending : InitState[t] = InitState[x]}

\* The sets of pending transactions the records may commit.
Commits ==
  LET matched == {x \in Records : Matches(x) # {}} IN
  {{f[x] : x \in matched} :
     f \in {g \in [matched -> Pending] : \A x \in matched : g[x] \in Matches(x)}}

\* on_note_received: a tracked note is committed by its proof and header, a
\* public note the client can consume is inserted, the others are ignored.
Arrives(n) == Seen(created[n]) /\ n \notin erased

AfterInclusion(n) ==
  CASE ~ Arrives(n) -> notes[n]
    [] Arrives(n) /\ notes[n] \in Unspent ->
         Transition(Transition(notes[n], "proof", TRUE), "header", TRUE)
    [] Arrives(n) /\ notes[n] = Untracked ->
         IF n \in Public /\ outnotes[n] = Untracked THEN "Committed" ELSE Untracked
    [] OTHER -> notes[n]

\* mark_erased_notes_as_consumed: outputs of the account's transactions that
\* were erased count as consumed by somebody else.
Erased(n) == n \in erased /\ \E x \in Records : n \in Outputs[x]

AfterErasure(n) ==
  IF Erased(n) /\ AfterInclusion(n) \in Unspent
  THEN Transition(AfterInclusion(n), "nullified", TRUE)
  ELSE AfterInclusion(n)

OutAfterInclusion(n) ==
  CASE outnotes[n] = "Expected" /\ Arrives(n) -> "Committed"
    [] outnotes[n] = "Expected" /\ Erased(n)  -> "Consumed"
    [] OTHER                                  -> outnotes[n]

OutUnspent == {"Expected", "Committed"}

\* Wrong on purpose: takes what the network reports beyond the target.
ReportedAhead(n) ==
  /\ nullified[n] # 0 /\ synced <= nullified[n] /\ nullified[n] <= tip
  /\ n \notin erased
  /\ AfterErasure(n) \in Unspent \/ OutAfterInclusion(n) \in OutUnspent

\* Wrong on purpose: does not ask for notes that are being processed.
ReportedUnlessProcessing(n) ==
  /\ nullified[n] # 0 /\ synced <= nullified[n] /\ nullified[n] <= target
  /\ n \notin erased
  /\ AfterErasure(n) \in Unspent \ Processing

\* nullifiers_state_sync: nullifiers of the notes that are still unspent, in
\* the range of the sync; what is newer than the target is put off.
Reported(n) ==
  /\ nullified[n] # 0 /\ synced <= nullified[n] /\ nullified[n] <= target
  /\ n \notin erased
  /\ AfterErasure(n) \in Unspent \/ OutAfterInclusion(n) \in OutUnspent

\* Wrong on purpose: any local transaction that wanted the note has got it.
AfterNullifiersUnchecked(n, committed) ==
  CASE ~ Reported(n) \/ AfterErasure(n) \notin Unspent -> AfterErasure(n)
    [] OTHER ->
         IF AfterErasure(n) \in Processing
         THEN Transition(AfterErasure(n), "committed", TRUE)
         ELSE Transition(AfterErasure(n), "nullified", TRUE)

\* A local transaction that this sync commits consumed the note, or else
\* somebody outside did.
AfterNullifiers(n, committed) ==
  CASE ~ Reported(n) \/ AfterErasure(n) \notin Unspent -> AfterErasure(n)
    [] OTHER ->
         IF AfterErasure(n) \in Processing /\ consumer[n] \in committed
         THEN Transition(AfterErasure(n), "committed", TRUE)
         ELSE Transition(AfterErasure(n), "nullified", TRUE)

OutAfterNullifiers(n) ==
  IF Reported(n) /\ OutAfterInclusion(n) \in OutUnspent THEN "Consumed"
  ELSE OutAfterInclusion(n)

\* Wrong on purpose: one block too late.
ExpiredLate(t) == Expiration[t] < target

\* apply_sync_height_update and apply_input_note_nullified.
Stale(t) == height[t] + Delta < target
Expired(t) == Expiration[t] <= target
InputConsumed(t) == \E n \in Inputs[t] : Reported(n)

\* Wrong on purpose: stops at the transactions that match.
SeedsOnly(pending, seeds) == seeds

\* discard_transaction_with_predicate: the pending transactions from which
\* discarding the seeds propagates along the states they would have left.
Cascade(pending, seeds) ==
  {t \in pending :
     \A S \in SUBSET pending :
       (/\ seeds \subseteq S
        /\ \A u \in S, v \in pending : InitState[v] = FinalState[u] => v \in S)
         => t \in S}

Discards(committed) ==
  LET open == Pending \ committed IN
  Cascade(open, {t \in open : Stale(t) \/ Expired(t) \/ InputConsumed(t)})

\* derive_account_commitment_updates: the final state of a transaction in
\* the last block; which one, when the block has several, is the order of
\* the answer. Without records the account counts as unchanged.
Digests ==
  IF Records = {} THEN {acct.latest}
  ELSE {FinalState[x] : x \in {y \in Records : \A z \in Records : included[z] <= included[y]}}

\* apply_state_sync on the account, up to the network's updates: undo the
\* discarded transactions, release the roots of the committed ones.
Resolved(committed) ==
  LET discarded == Discards(committed)
      undone    == IF discarded = {} THEN acct
                   ELSE Undo(acct, {FinalState[t] : t \in discarded}, Cardinality(discarded))
  IN  IF committed = {} THEN undone ELSE CommitRoots(undone)

\* Wrong on purpose: misses an account that is one transaction ahead.
RefreshLate(digest) ==
  /\ digest # acct.latest /\ ~Private
  /\ Nonce[sealed] > Nonce[acct.latest] + 1

\* sync_public_accounts: refreshed from the chain tip when the digest
\* differs and the network's nonce is ahead.
Refresh(digest) ==
  /\ digest # acct.latest /\ ~Private
  /\ Nonce[sealed] > Nonce[acct.latest]

\* The update of a large account arrives as a delta, otherwise in full.
Updated(committed, digest, large) ==
  LET a == Resolved(committed) IN
  CASE Refresh(digest) /\ large           -> ApplyDelta(a, a.latest, sealed)
    [] Refresh(digest) /\ ~large          -> UpdateState(a, sealed)
    [] digest # acct.latest /\ Private    -> LockOn(a, digest)
    [] OTHER                              -> a

\* The store rejects a delta without a header or roots to apply it to, and
\* usually one that was made against a header that has just been undone.
DeltaMustFail(a) == a.latest = NoState \/ a.roots = NoState
DeltaMayFail(a) == DeltaMustFail(a) \/ a.latest # acct.latest
------------------------------------------------------------------------------
(* The state sync: its steps.                                               *)

\* sync_chain_mmr fixes the target; at the tip there is nothing to do.
SyncStart ==
  /\ Idle /\ tip > synced
  /\ OneCall => \A t \in Tx : stage[t] = "idle"
  /\ target' = tip
  /\ UNCHANGED <<nodeVars, synced, stage, loose, height, status, notes, consumer,
                 outnotes, acct, poisoned>>

\* A request fails: nothing has been stored.
SyncFail ==
  /\ target # 0 /\ target' = 0
  /\ UNCHANGED <<nodeVars, synced, stage, loose, height, status, notes, consumer,
                 outnotes, acct, poisoned>>

\* apply_state_sync: one database transaction for everything.
SyncApply(committed, digest, large) ==
  LET resolved == Resolved(committed) IN
  /\ target # 0
  /\ Refresh(digest) /\ large => ~ DeltaMustFail(resolved)
  /\ Refresh(digest) /\ ~large => CanReplaceRoots(resolved)
  /\ synced' = target /\ target' = 0
  /\ status' = [t \in Tx |-> CASE t \in committed           -> "Committed"
                               [] t \in Discards(committed) -> "Discarded"
                               [] OTHER                     -> status[t]]
  /\ notes' = [n \in Note |-> AfterNullifiers(n, committed)]
  /\ consumer' = [n \in Note |->
                    IF AfterNullifiers(n, committed) \in Processing
                    THEN consumer[n] ELSE NoTx]
  /\ outnotes' = [n \in Note |-> OutAfterNullifiers(n)]
  /\ acct' = Updated(committed, digest, large)
  /\ UNCHANGED <<nodeVars, stage, loose, height, poisoned>>

\* The store returns an error: the database is as before, the forest in
\* memory keeps what undoing and committing did to it.
SyncStoreError(committed, digest) ==
  LET resolved == Resolved(committed) IN
  /\ target # 0 /\ target' = 0
  /\ Refresh(digest) /\ DeltaMayFail(resolved)
  /\ acct' = [acct EXCEPT !.roots = resolved.roots, !.staged = resolved.staged]
  /\ UNCHANGED <<nodeVars, synced, stage, loose, height, status, notes, consumer,
                 outnotes, poisoned>>

\* replace_roots panics on staged roots, with the forest's lock held.
SyncPanic(committed, digest) ==
  /\ target # 0 /\ target' = 0
  /\ Refresh(digest) /\ ~ CanReplaceRoots(Resolved(committed))
  /\ poisoned' = TRUE
  /\ UNCHANGED <<nodeVars, synced, stage, loose, height, status, notes, consumer,
                 outnotes, acct>>

Sync ==
  \/ SyncStart
  \/ SyncFail
  \/ \E committed \in Commits, digest \in Digests :
       \/ \E large \in BOOLEAN : SyncApply(committed, digest, large)
       \/ SyncStoreError(committed, digest)
       \/ SyncPanic(committed, digest)

Pipeline(t) ==
  Execute(t) \/ Abandon(t) \/ Submit(t) \/ Refused(t) \/ Apply(t) \/ ApplyFails(t)

Next ==
  \/ NodeNext(loose) /\ UNCHANGED clientVars
  \/ \E t \in Tx : Pipeline(t)
  \/ Sync
  \/ Restart

Spec == Init /\ [][Next]_vars

\* The network keeps producing blocks; the caller lets a transaction it has
\* begun run to its end and keeps syncing, and not every sync meets a
\* failing request; a client whose store panicked is started again.
Fairness ==
  /\ WF_vars(SealBlock /\ UNCHANGED clientVars)
  /\ \A t \in Tx :
       WF_vars(Abandon(t) \/ Submit(t) \/ Refused(t) \/ Apply(t) \/ ApplyFails(t))
  /\ SF_vars(SyncStart)
  /\ SF_vars(\E committed \in Commits, digest \in Digests, large \in BOOLEAN :
               SyncApply(committed, digest, large))
  /\ WF_vars(poisoned /\ Restart)

FairSpec == Spec /\ Fairness
------------------------------------------------------------------------------
(* Properties.                                                              *)

Stage == {"idle", "executed", "submitted"}
Status == {"None", "Pending", "Committed", "Discarded"}

\* Every record holds values of its type, and a note names the transaction
\* that consumes it exactly while it is processing.
TypeOK ==
  /\ NodeTypeOK
  /\ synced \in Block /\ target \in Block /\ poisoned \in BOOLEAN
  /\ stage \in [Tx -> Stage] /\ loose \subseteq Tx
  /\ height \in [Tx -> Block]
  /\ status \in [Tx -> Status]
  /\ notes \in [Note -> InputNoteState \union {Untracked}]
  /\ consumer \in [Note -> Tx \union {NoTx}]
  /\ outnotes \in [Note -> {Untracked, "Expected", "Committed", "Consumed"}]
  /\ acct \in Store
  /\ \A n \in Note : consumer[n] # NoTx <=> notes[n] \in Processing

\* is_consumed "returns true if the note has been nullified on chain": and
\* it was at a block the client has synced, whatever the network did while
\* the sync was fetching.
ConsumedIsNullified ==
  \A n \in Note :
    notes[n] \in Consumed \/ outnotes[n] = "Consumed"
      => nullified[n] # 0 /\ nullified[n] <= synced

\* A note counts as consumed by a local transaction only if the client has
\* that transaction on record as committed.
LocalConsumptionIsCommitted ==
  \A n \in Note :
    notes[n] \in Consumed \ {"ConsumedExternal"}
      => \E t \in Tx : n \in Inputs[t] /\ status[t] = "Committed"

\* A committed record may stand for a transaction that was included under
\* another id or made by another client, but the account did leave the state
\* the record starts from, in a block the client has synced.
CommittedStateIsSpent ==
  \A t \in Tx :
    status[t] = "Committed" =>
      \E x \in AllTx : InitState[x] = InitState[t] /\ included[x] \in 1 .. synced

\* A committed transaction is never reopened or discarded.
CommittedIsFinal ==
  [][\A t \in Tx : status[t] = "Committed" => status'[t] = "Committed"]_vars

\* Discarding reaches the whole chain: the sync that discards a transaction
\* leaves none pending that starts from the state it would have left.
DiscardReachesDependents ==
  [][\A t, u \in Tx :
       (status[t] = "Pending" /\ status'[t] = "Discarded" /\ InitState[u] = FinalState[t])
         => status'[u] # "Pending"]_vars

\* A pending transaction's initial and final state are both in the store:
\* it can be undone.
PendingCanBeUndone ==
  \A t \in Pending :
    /\ InitState[t] \in Archived(acct)
    /\ FinalState[t] \in Archived(acct) \union {acct.latest}

\* The account's state after block b.
ChainState(b) ==
  LET done == {x \in AllTx : included[x] \in 1 .. b}
      last == {x \in done : \A y \in done : InitState[y] # FinalState[x]}
  IN  IF done = {} THEN Genesis ELSE FinalState[CHOOSE x \in last : TRUE]

\* When nothing is pending or under way, the client either holds a state
\* the account had on chain from the last synced block on, or has locked
\* the account: rollback, refresh and lock leave no other outcome.
SettledMatchesChain ==
  Pending = {} /\ Idle /\ (\A t \in Tx : stage[t] = "idle")
    => \/ acct.locked
       \/ \E b \in synced .. tip : acct.latest = ChainState(b)

\* Every pending transaction is committed or discarded in the end: a
\* transaction the network drops without a word does not stay pending once
\* its expiration block is synced.
PendingIsResolved ==
  \A t \in Tx : (status[t] = "Pending" /\ Expiration[t] <= MaxBlock)
                  ~> status[t] # "Pending"

\* The client learns of every nullifier: a note it tracks that is consumed
\* in a block it has not synced becomes consumed in its records, also when
\* syncs fail halfway or the process restarts.
NullifierIsLearned ==
  \A n \in Note :
    (notes[n] \in Unspent /\ nullified[n] > synced /\ n \notin erased)
      ~> (notes[n] \in Consumed \/ n \in erased)

------------------------------------------------------------------------------
(* What the code's comments say and does not hold in general.              *)

\* is_processing: "true if the note is currently being processed by a local
\* transaction".
ProcessingHasPendingTx ==
  \A n \in Note : notes[n] \in Processing => status[consumer[n]] = "Pending"

\* TransactionStatus::Committed: "committed and included at the specified
\* block number".
CommittedIsIncluded ==
  \A t \in Tx : status[t] = "Committed" => included[t] # 0

\* TransactionStatus::Discarded: "discarded and isn't included in the node".
\* Holds when no transaction is discarded for its age (tx_discard_delta is
\* None or large); age alone does not keep the network from including it.
DiscardedIsNotIncluded ==
  \A t \in Tx : status[t] = "Discarded" => included[t] = 0

\* replace_roots is called when no staged changes are pending.
ForestNeverPanics == ~poisoned

\* ConsumedExternal: "consumed by a transaction not submitted by this
\* client".
ExternalMeansNotOurs ==
  \A n \in Note :
    notes[n] = "ConsumedExternal" =>
      ~ \E t \in Tx : n \in Inputs[t] /\ included[t] # 0

\* An account is locked when the chain's digest is not a state the store
\* knows.
LockMeansUnknown == acct.locked => acct.latest # ChainState(synced)

\* execute_transaction "doesn't change the local database".
ExecuteLeavesStore ==
  [][\A t \in Tx : stage[t] = "idle" /\ stage'[t] = "executed" => notes' = notes]_vars

\* derive_account_commitment_updates "replicates the old SyncState behavior
\* where the node returned the latest account commitment per account in the
\* synced range".
DigestIsLatest == target # 0 /\ Records # {} => Digests = {ChainState(target)}

\* account_roots: "current roots per account".
RootsFollowLatest == acct.roots = acct.latest
==============================================================================
