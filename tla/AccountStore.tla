----------------------------- MODULE AccountStore -----------------------------
(***************************************************************************)
(* What the SQLite store keeps of one tracked account and how each of its   *)
(* operations changes it. A store is a record with                          *)
(*   latest   the header in latest_account_headers (NoState: row deleted)   *)
(*   locked   that row's locked flag                                        *)
(*   history  historical_account_headers: for each archived state the nonce *)
(*            that replaced it, 0 when there is no such row                 *)
(*   frozen   the archived states whose row is locked                       *)
(*   roots    the account's roots in the in-memory SMT forest               *)
(*   staged   the forest's stack of old roots awaiting commit or discard    *)
(* A state stands for its header, its data tables and its SMT roots, which  *)
(* the code moves together.                                                 *)
(***************************************************************************)
EXTENDS AccountStates, Sequences

Store ==
  [latest : State \union {NoState}, locked : BOOLEAN,
   history : [State -> Nat], frozen : SUBSET State,
   roots : State \union {NoState}, staged : Seq(State \union {NoState})]

\* insert_account, for an account the store does not know.
NewStore(s) ==
  [latest |-> s, locked |-> FALSE, history |-> [x \in State |-> 0],
   frozen |-> {}, roots |-> s, staged |-> <<>>]

Archived(a) == {s \in State : a.history[s] # 0}

\* Wrong on purpose: the old header is overwritten without a trace.
InsertHeaderOnly(a, new, old) == [a EXCEPT !.latest = new, !.locked = FALSE]

\* insert_account_header: the old header is archived under the new nonce
\* with the lock of the row it leaves; the new row is never locked.
InsertHeader(a, new, old) ==
  IF old = NoState
  THEN [a EXCEPT !.latest = new, !.locked = FALSE]
  ELSE [a EXCEPT !.latest = new, !.locked = FALSE,
                 !.history = [a.history EXCEPT ![old] = Nonce[new]],
                 !.frozen = IF a.locked THEN a.frozen \union {old}
                            ELSE a.frozen \ {old}]

\* apply_account_delta: the old roots go on the stack.
ApplyDelta(a, old, new) ==
  [InsertHeader(a, new, old) EXCEPT !.roots = new,
                                    !.staged = Append(a.staged, a.roots)]

\* update_account_state; replace_roots panics while roots are staged.
CanReplaceRoots(a) == a.staged = <<>>

UpdateState(a, new) == [InsertHeader(a, new, a.latest) EXCEPT !.roots = new]

\* commit_roots drops the whole stack.
CommitRoots(a) == [a EXCEPT !.staged = <<>>]

\* discard_roots, called k times: one pop each, and no roots at all once
\* the stack is empty.
DiscardRoots(a, k) ==
  LET n == Len(a.staged) IN
  CASE k = 0            -> a
    [] k > 0 /\ k <= n  -> [a EXCEPT !.roots = a.staged[n - k + 1],
                                     !.staged = SubSeq(a.staged, 1, n - k)]
    [] k > n            -> [a EXCEPT !.roots = NoState, !.staged = <<>>]

\* The nonces at which the store holds one of the discarded states.
DiscardedNonces(a, discarded) ==
  {Nonce[s] : s \in {x \in discarded : x = a.latest \/ x \in Archived(a)}}

\* Wrong on purpose: restores what the latest discarded nonce replaced.
LastPriorStates(a, nonces) ==
  {s \in Archived(a) : /\ a.history[s] \in nonces
                       /\ \A n \in nonces : n <= a.history[s]}

\* The archived header that the earliest of these nonces replaced.
PriorStates(a, nonces) ==
  {s \in Archived(a) : /\ a.history[s] \in nonces
                       /\ \A n \in nonces : a.history[s] <= n}

\* undo_account_state for the headers: restore the state before the
\* earliest discarded nonce, or delete the account if there is none, then
\* drop the archived rows of every discarded nonce.
UndoHeaders(a, discarded) ==
  LET nonces == DiscardedNonces(a, discarded)
      prior  == PriorStates(a, nonces)
      old    == CHOOSE s \in prior : TRUE
  IN  IF nonces = {} THEN a
      ELSE [a EXCEPT
              !.latest = IF prior = {} THEN NoState ELSE old,
              !.locked = prior # {} /\ old \in a.frozen,
              !.history = [s \in State |-> IF a.history[s] \in nonces THEN 0
                                           ELSE a.history[s]],
              !.frozen = {s \in a.frozen : a.history[s] \notin nonces}]

\* undo_account_state: finals are the final states of count transactions.
Undo(a, finals, count) == DiscardRoots(UndoHeaders(a, finals), count)

\* lock_account_on_unexpected_commitment: unless the digest is archived.
LockOn(a, digest) ==
  IF digest \in Archived(a) THEN a
  ELSE [a EXCEPT !.locked = (a.latest # NoState), !.frozen = Archived(a)]

\* SqliteStore::new: the forest is rebuilt from the latest rows.
Reopen(a) == [a EXCEPT !.roots = a.latest, !.staged = <<>>]
==============================================================================
