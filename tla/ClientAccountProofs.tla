-------------------------- MODULE ClientAccountProofs --------------------------
(***************************************************************************)
(* The account store of a private account under submit_new_transaction: a   *)
(* pending transaction can always be undone. The store's rows are then a    *)
(* chain of nonces, the pending transactions are the upper end of it, and a *)
(* sync commits a lower end of them and discards an upper end.              *)
(***************************************************************************)
EXTENDS WellFoundedInduction, ClientSyncProofs

------------------------------------------------------------------------------
(* The rows an operation leaves: headers, locks and archive.                *)

\* A set of naturals has a least element, a bounded one a greatest.
LEMMA NatMinimum ==
  ASSUME NEW T, T \subseteq Nat, T # {}
  PROVE  \E x \in T : \A y \in T : x <= y
<1>1. PICK x \in T : \A y \in T : ~(<<y, x>> \in OpToRel(<, Nat))
  BY WFMin, NatLessThanWellFounded
<1>2. ASSUME NEW y \in T PROVE x <= y
  <2>1. x \in Nat /\ y \in Nat
    OBVIOUS
  <2>2. ~(y < x)
    BY <1>1, <2>1 DEF OpToRel
  <2> QED
    BY <2>1, <2>2
<1> QED
  BY <1>2

LEMMA NatMaximum ==
  ASSUME NEW T, T \subseteq Nat, T # {}, NEW bound \in Nat, \A x \in T : x <= bound
  PROVE  \E x \in T : \A y \in T : y <= x
<1> DEFINE gaps == {bound - x : x \in T}
<1>1. \A x \in T : x \in Nat /\ bound - x \in Nat
  OBVIOUS
<1>2. gaps \subseteq Nat
  BY <1>1, Zenon
<1>3. gaps # {}
  <2>1. PICK x \in T : TRUE
    BY Zenon
  <2>2. bound - x \in gaps
    BY Zenon
  <2> QED
    BY <2>2, Zenon
<1>4. PICK g \in gaps : \A h \in gaps : g <= h
  BY <1>2, <1>3, NatMinimum, Zenon
<1>5. PICK x \in T : g = bound - x
  BY Zenon
<1>6. ASSUME NEW y \in T PROVE y <= x
  <2>1. bound - y \in gaps
    BY Zenon
  <2>2. bound - x <= bound - y
    BY <1>4, <1>5, <2>1, Zenon
  <2> HIDE DEF gaps
  <2> QED
    BY <1>1, <2>2
<1> QED
  BY <1>6, Zenon

\* The four fields that are rows of the database.
SameRows(a, b) ==
  /\ a.latest = b.latest /\ a.locked = b.locked
  /\ a.history = b.history /\ a.frozen = b.frozen

LEMMA DiscardRootsRows ==
  ASSUME NEW a \in Store, NEW k \in Nat PROVE SameRows(DiscardRoots(a, k), a)
<1> DEFINE n == Len(a.staged)
<1>0. n \in Nat
  BY DEF Store
<1>1. CASE k = 0
  BY <1>1 DEF DiscardRoots, SameRows
<1>2. CASE k > 0 /\ k <= n
  <2>1. DiscardRoots(a, k) = [a EXCEPT !.roots = a.staged[n - k + 1],
                                       !.staged = SubSeq(a.staged, 1, n - k)]
    BY <1>0, <1>2 DEF DiscardRoots
  <2> QED
    BY <2>1 DEF Store, SameRows
<1>3. CASE k > n
  <2>1. DiscardRoots(a, k) = [a EXCEPT !.roots = NoState, !.staged = <<>>]
    BY <1>0, <1>3 DEF DiscardRoots
  <2> QED
    BY <2>1 DEF Store, SameRows
<1> QED
  BY <1>0, <1>1, <1>2, <1>3

\* apply_account_delta.
AppliedRows(b, a, old, new) ==
  b.latest = new /\ b.history = [a.history EXCEPT ![old] = Nonce[new]]

LEMMA ApplyDeltaRows ==
  ASSUME NEW a \in Store, NEW old \in State, NEW new \in State
  PROVE  AppliedRows(ApplyDelta(a, old, new), a, old, new)
<1> DEFINE h == InsertHeader(a, new, old)
<1>1. h \in Store
  BY InsertHeaderType
<1>2. h.latest = new /\ h.history = [a.history EXCEPT ![old] = Nonce[new]]
  BY StateAssumption DEF InsertHeader, Store
<1>4. ApplyDelta(a, old, new) = [h EXCEPT !.roots = new, !.staged = Append(a.staged, a.roots)]
  BY DEF ApplyDelta
<1> HIDE DEF h
<1> QED
  BY <1>1, <1>2, <1>4 DEF Store, AppliedRows

LEMMA ApplyDeltaLocks ==
  ASSUME NEW a \in Store, ~a.locked, NEW old \in State, NEW new \in State
  PROVE  /\ ~ ApplyDelta(a, old, new).locked
         /\ ApplyDelta(a, old, new).frozen = a.frozen \ {old}
<1> DEFINE h == InsertHeader(a, new, old)
<1>1. h \in Store
  BY InsertHeaderType
<1>2. h.frozen = a.frozen \ {old}
  BY StateAssumption DEF InsertHeader, Store
<1>3. ~ h.locked
  BY StateAssumption DEF InsertHeader, Store
<1>4. ApplyDelta(a, old, new) = [h EXCEPT !.roots = new, !.staged = Append(a.staged, a.roots)]
  BY DEF ApplyDelta
<1> HIDE DEF h
<1> QED
  BY <1>1, <1>2, <1>3, <1>4 DEF Store

\* Store b is a with the rows of these nonces removed and row r the latest
\* header again, with its own lock.
UndoneTo(b, a, r, nonces) ==
  /\ b.latest = r
  /\ b.locked = (r \in a.frozen)
  /\ b.history = [s \in State |-> IF a.history[s] \in nonces THEN 0 ELSE a.history[s]]
  /\ b.frozen = {s \in a.frozen : a.history[s] \notin nonces}

\* undo_account_state when the earliest discarded nonce replaced row r.
LEMMA UndoRows ==
  ASSUME NEW a \in Store, NEW finals \in SUBSET State, NEW count \in Nat,
         NEW r \in Archived(a), a.history[r] \in DiscardedNonces(a, finals),
         \A n \in DiscardedNonces(a, finals) : a.history[r] <= n,
         \A s \in Archived(a) : a.history[s] = a.history[r] => s = r
  PROVE  UndoneTo(Undo(a, finals, count), a, r, DiscardedNonces(a, finals))
<1> DEFINE nonces == DiscardedNonces(a, finals)
           prior == PriorStates(a, nonces)
           first == CHOOSE s \in prior : TRUE
           history == [s \in State |-> IF a.history[s] \in nonces THEN 0 ELSE a.history[s]]
           frozen == {s \in a.frozen : a.history[s] \notin nonces}
           c == UndoHeaders(a, finals)
<1>1. nonces \subseteq Nat /\ a.history \in [State -> Nat]
  BY StateAssumption DEF DiscardedNonces, Store, Archived
<1>2. prior = {r}
  <2>1. ASSUME NEW s \in prior PROVE s = r
    BY <1>1, <2>1 DEF PriorStates, Archived
  <2>2. r \in prior
    BY DEF PriorStates
  <2> QED
    BY <2>1, <2>2
<1>3. first = r /\ prior # {} /\ nonces # {}
  BY <1>2
<1>4. c = [a EXCEPT !.latest = IF prior = {} THEN NoState ELSE first,
                    !.locked = prior # {} /\ first \in a.frozen,
                    !.history = history, !.frozen = frozen]
  BY <1>3 DEF UndoHeaders
<1>5. c \in Store
  BY UndoHeadersType
<1>6. c.latest = r /\ c.history = history /\ c.frozen = frozen
  BY <1>3, <1>4 DEF Store
<1>7. c.locked = (r \in a.frozen)
  <2>1. c.locked = (prior # {} /\ first \in a.frozen)
    BY <1>4 DEF Store
  <2>2. (prior # {} /\ first \in a.frozen) <=> (r \in a.frozen)
    BY <1>3, Zenon
  <2> QED
    BY <2>1, <2>2
<1>8. SameRows(Undo(a, finals, count), c)
  BY <1>5, DiscardRootsRows DEF Undo
<1> HIDE DEF c
<1> QED
  BY <1>6, <1>7, <1>8 DEF SameRows, UndoneTo

------------------------------------------------------------------------------
(* The invariants.                                                          *)

\* The transaction kernel increments the nonce of an account it changes.
NonceGrows == \A t \in AllTx : Nonce[InitState[t]] < Nonce[FinalState[t]]

\* No two transactions lead from different states to the same one.
OneHistory ==
  \A t, u \in AllTx : FinalState[t] = FinalState[u] => InitState[t] = InitState[u]

\* The network: what is included is a path from the genesis state to head,
\* in the order of the blocks, and the mempool continues it.
PathInv ==
  /\ synced <= tip /\ target <= tip
  /\ Nonce[Genesis] <= Nonce[head]
  /\ head = Genesis \/ \E y \in AllTx : included[y] # 0 /\ FinalState[y] = head
  /\ \A x \in AllTx : included[x] # 0 =>
       /\ Nonce[FinalState[x]] <= Nonce[head] /\ included[x] <= tip + 1
       /\ \/ InitState[x] = Genesis
          \/ \E y \in AllTx : FinalState[y] = InitState[x] /\ included[y] \in 1 .. included[x]
  /\ \A u \in mempool :
       /\ included[u] = 0 /\ Nonce[Genesis] <= Nonce[InitState[u]]
       /\ \A y \in AllTx : InitState[y] = InitState[u] => included[y] = 0
       /\ \A v \in mempool : InitState[u] = InitState[v] => u = v

\* No transaction in a synced block leaves state s.
UnspentAt(s) ==
  \A y \in AllTx : InitState[y] = s => included[y] = 0 \/ synced < included[y]

\* One transaction at a time is under way, from the latest state, and no
\* sync runs.
PipelineInv ==
  \A t \in Tx : stage[t] # "idle" =>
    /\ target = 0 /\ acct.latest = InitState[t]
    /\ \A u \in Tx : stage[u] # "idle" => u = t
    /\ stage[t] = "submitted" => UnspentAt(InitState[t])

\* The rows of the store cover disjoint ranges of nonces, the latest header
\* is above them.
RowsInv ==
  /\ acct.latest \in State /\ Nonce[Genesis] <= Nonce[acct.latest]
  /\ \A s \in Archived(acct) :
       /\ Nonce[Genesis] <= Nonce[s] /\ Nonce[s] < acct.history[s]
       /\ acct.history[s] <= Nonce[acct.latest]
  /\ \A r, s \in Archived(acct) :
       r = s \/ acct.history[r] <= Nonce[s] \/ acct.history[s] <= Nonce[r]

\* The pending transactions are the upper end of the rows, one for each.
PendingInv ==
  /\ \A t \in Pending :
       /\ acct.history[InitState[t]] = Nonce[FinalState[t]]
       /\ FinalState[t] = acct.latest \/ \E v \in Pending : InitState[v] = FinalState[t]
       /\ \A s \in Archived(acct) : Nonce[FinalState[t]] <= acct.history[s] =>
            \E v \in Pending : InitState[v] = s
       /\ UnspentAt(InitState[t])
  /\ \A t, u \in Pending : InitState[t] = InitState[u] => t = u

AccountInv == SyncInv /\ PathInv /\ PipelineInv /\ RowsInv /\ PendingInv

------------------------------------------------------------------------------
(* Consequences of the invariant.                                           *)

LEMMA TxTypes ==
  ASSUME NEW t \in AllTx
  PROVE  /\ InitState[t] \in State /\ FinalState[t] \in State
         /\ Nonce[InitState[t]] \in Nat /\ Nonce[FinalState[t]] \in Nat
BY NodeAssumption, StateAssumption

LEMMA Heights ==
  ASSUME TypeOK
  PROVE  /\ tip \in Nat /\ synced \in Nat /\ target \in Nat
         /\ Nonce[head] \in Nat /\ Nonce[Genesis] \in Nat
BY NodeAssumption, StateAssumption DEF TypeOK, NodeTypeOK, Block

LEMMA IncludedType == ASSUME TypeOK, NEW x \in AllTx PROVE included[x] \in Nat
BY NodeAssumption DEF TypeOK, NodeTypeOK, Block

LEMMA StoreTypes == ASSUME TypeOK PROVE acct \in Store /\ acct.history \in [State -> Nat]
BY DEF TypeOK, Store

LEMMA NetworkTypes == ASSUME TypeOK PROVE included \in [AllTx -> Block] /\ mempool \subseteq AllTx
<1>1. included \in [AllTx -> Block] /\ mempool \in SUBSET Tx
  BY Zenon DEF TypeOK, NodeTypeOK
<1> QED
  BY <1>1 DEF AllTx

LEMMA NatChain ==
  ASSUME NEW i \in Nat, NEW j \in Nat, NEW k \in Nat, NEW l \in Nat, i <= j, j < k, k <= l
  PROVE  i # l
OBVIOUS

LEMMA NatCycle ==
  ASSUME NEW i \in Nat, NEW j \in Nat, NEW k \in Nat, i < j, j <= k, k <= i
  PROVE  FALSE
OBVIOUS

\* Nothing has left the head of the chain, or where the mempool leads to.
LEMMA HeadUnspent ==
  ASSUME NonceGrows, TypeOK, PathInv, NEW y \in AllTx, InitState[y] = head
  PROVE  included[y] = 0
<1>1. included[y] # 0 => Nonce[FinalState[y]] <= Nonce[head]
  BY DEF PathInv
<1> QED
  BY <1>1, TxTypes, Heights, IncludedType, StoreTypes DEF NonceGrows

LEMMA MempoolUnspent ==
  ASSUME NonceGrows, OneHistory, TypeOK, PathInv, NEW u \in mempool, NEW y \in AllTx,
         InitState[y] = FinalState[u]
  PROVE  included[y] = 0
<1>0. u \in AllTx /\ Nonce[Genesis] <= Nonce[InitState[u]]
  BY DEF PathInv, TypeOK, NodeTypeOK, AllTx
<1> SUFFICES ASSUME included[y] # 0 PROVE FALSE
  OBVIOUS
<1>1. \/ InitState[y] = Genesis
      \/ \E z \in AllTx : FinalState[z] = InitState[y] /\ included[z] \in 1 .. included[y]
  BY DEF PathInv
<1>2. CASE InitState[y] = Genesis
  <2>1. Nonce[InitState[u]] < Nonce[FinalState[u]]
    BY <1>0 DEF NonceGrows
  <2> QED
    BY <1>0, <1>2, <2>1, TxTypes
<1>3. ASSUME NEW z \in AllTx, FinalState[z] = InitState[y], included[z] \in 1 .. included[y]
      PROVE FALSE
  <2>1. InitState[z] = InitState[u]
    BY <1>0, <1>3 DEF OneHistory
  <2>2. included[z] = 0
    BY <2>1 DEF PathInv
  <2> QED
    BY <1>3, <2>2
<1> QED
  BY <1>1, <1>2, <1>3

\* The latest header is not archived, and a pending transaction's states are
\* in the store.
LEMMA LatestNotArchived ==
  ASSUME TypeOK, RowsInv PROVE acct.latest \notin Archived(acct)
<1>1. acct.latest \in Archived(acct) =>
        Nonce[acct.latest] < acct.history[acct.latest]
        /\ acct.history[acct.latest] <= Nonce[acct.latest]
  BY DEF RowsInv
<1>2. acct.latest \in State /\ Nonce[acct.latest] \in Nat /\ acct.history[acct.latest] \in Nat
  BY StoreTypes, StateAssumption DEF RowsInv
<1> QED
  BY <1>1, <1>2

LEMMA PendingRow ==
  ASSUME NonceGrows, TypeOK, RowsInv, PendingInv, NEW t \in Pending
  PROVE  /\ t \in AllTx /\ t \in Tx
         /\ InitState[t] \in Archived(acct)
         /\ acct.history[InitState[t]] = Nonce[FinalState[t]]
         /\ Nonce[InitState[t]] < Nonce[FinalState[t]]
         /\ Nonce[FinalState[t]] <= Nonce[acct.latest]
         /\ Nonce[Genesis] <= Nonce[InitState[t]]
         /\ Nonce[acct.latest] \in Nat
<1>1. t \in AllTx /\ t \in Tx
  BY DEF Pending, AllTx
<1>2. acct.history[InitState[t]] = Nonce[FinalState[t]]
  BY DEF PendingInv
<1>3. Nonce[InitState[t]] < Nonce[FinalState[t]] /\ Nonce[FinalState[t]] # 0
  BY <1>1, TxTypes DEF NonceGrows
<1>4. InitState[t] \in Archived(acct)
  BY <1>1, <1>2, <1>3, TxTypes DEF Archived
<1>5. Nonce[acct.latest] \in Nat
  BY StateAssumption DEF RowsInv
<1> QED
  BY <1>1, <1>2, <1>3, <1>4, <1>5 DEF RowsInv

\* Two pending transactions are one, or one lies above the other.
LEMMA PendingOrder ==
  ASSUME NonceGrows, TypeOK, RowsInv, PendingInv, NEW t \in Pending, NEW u \in Pending
  PROVE  \/ t = u
         \/ Nonce[FinalState[t]] <= Nonce[InitState[u]]
         \/ Nonce[FinalState[u]] <= Nonce[InitState[t]]
<1>1. /\ InitState[t] \in Archived(acct) /\ acct.history[InitState[t]] = Nonce[FinalState[t]]
      /\ InitState[u] \in Archived(acct) /\ acct.history[InitState[u]] = Nonce[FinalState[u]]
  BY PendingRow
<1>2. InitState[t] = InitState[u] => t = u
  BY DEF PendingInv
<1> QED
  BY <1>1, <1>2 DEF RowsInv

\* A set of pending transactions that has with each one those that start
\* from the state it leaves has everything above it.
LEMMA UpperEnd ==
  ASSUME NonceGrows, TypeOK, RowsInv, PendingInv, NEW U \in SUBSET Pending,
         \A w \in U, u \in Pending : InitState[u] = FinalState[w] => u \in U,
         NEW w \in U, NEW v \in Pending, Nonce[FinalState[w]] <= Nonce[InitState[v]]
  PROVE  v \in U
<1> DEFINE below == {x \in U : Nonce[FinalState[x]] <= Nonce[InitState[v]]}
           nonces == {Nonce[FinalState[x]] : x \in below}
<1>0. \A x \in Pending : x \in AllTx
  BY DEF Pending, AllTx
<1>1. nonces \subseteq Nat /\ Nonce[InitState[v]] \in Nat
  BY <1>0, TxTypes
<1>2. Nonce[FinalState[w]] \in nonces
  OBVIOUS
<1>3. \A n \in nonces : n <= Nonce[InitState[v]]
  OBVIOUS
<1>4. PICK n \in nonces : \A m \in nonces : m <= n
  BY <1>1, <1>2, <1>3, NatMaximum, Zenon
<1>5. PICK x \in below : n = Nonce[FinalState[x]]
  OBVIOUS
<1>6. x \in U /\ x \in Pending /\ Nonce[FinalState[x]] <= Nonce[InitState[v]]
  OBVIOUS
<1>7. FinalState[x] # acct.latest
  BY <1>0, <1>6, PendingRow, TxTypes
<1>8. PICK u \in Pending : InitState[u] = FinalState[x]
  BY <1>6, <1>7 DEF PendingInv
<1>9. u \in U
  BY <1>6, <1>8
<1>10. ~(Nonce[FinalState[u]] <= Nonce[InitState[v]])
  <2> SUFFICES ASSUME Nonce[FinalState[u]] <= Nonce[InitState[v]] PROVE FALSE
    OBVIOUS
  <2>1. Nonce[FinalState[u]] \in nonces
    BY <1>9
  <2>2. Nonce[FinalState[u]] <= Nonce[FinalState[x]]
    BY <1>4, <1>5, <2>1
  <2> QED
    BY <1>0, <1>6, <1>8, <2>2, TxTypes, PendingRow
<1>11. ~(Nonce[FinalState[v]] <= Nonce[InitState[u]])
  BY <1>0, <1>6, <1>8, TxTypes, PendingRow
<1>12. u = v
  BY <1>10, <1>11, PendingOrder
<1> QED
  BY <1>9, <1>12

------------------------------------------------------------------------------
(* Steps of the network.                                                    *)

\* A transaction of the account enters the open block.
LEMMA PathAdd ==
  ASSUME NonceGrows, TypeOK, PathInv, UNCHANGED <<synced, target>>,
         NEW t \in AllTx, NEW gone, AddToBlock(t, gone), mempool' \subseteq mempool,
         \A u \in mempool' : InitState[u] # InitState[t]
  PROVE  PathInv'
<1>0. /\ included \in [AllTx -> Block] /\ tip \in Nat /\ tip' = tip
      /\ included' = [included EXCEPT ![t] = tip + 1]
      /\ included[t] = 0 /\ InitState[t] = head /\ head' = FinalState[t]
      /\ mempool \subseteq AllTx
  BY Heights, NetworkTypes, Zenon DEF AddToBlock
<1>1. included'[t] = tip + 1 /\ \A x \in AllTx : x # t => included'[x] = included[x]
  BY <1>0
<1>2. /\ Nonce[head] < Nonce[head'] /\ Nonce[head] \in Nat /\ Nonce[head'] \in Nat
      /\ Nonce[Genesis] \in Nat
  BY <1>0, TxTypes, Heights DEF NonceGrows
<1>3. synced' <= tip' /\ target' <= tip'
  BY <1>0 DEF PathInv
<1>4. Nonce[Genesis] <= Nonce[head']
  BY <1>2 DEF PathInv
<1>5. \E y \in AllTx : included'[y] # 0 /\ FinalState[y] = head'
  BY <1>0, <1>1
<1>6. ASSUME NEW x \in AllTx, included'[x] # 0
      PROVE  /\ Nonce[FinalState[x]] <= Nonce[head'] /\ included'[x] <= tip' + 1
             /\ \/ InitState[x] = Genesis
                \/ \E y \in AllTx : FinalState[y] = InitState[x]
                                    /\ included'[y] \in 1 .. included'[x]
  <2>1. CASE x = t
    <3>1. Nonce[FinalState[x]] <= Nonce[head'] /\ included'[x] <= tip' + 1
      BY <1>0, <1>1, <1>2, <2>1
    <3>2. CASE head = Genesis
      BY <1>0, <2>1, <3>1, <3>2
    <3>3. CASE head # Genesis
      <4>1. PICK y \in AllTx : included[y] # 0 /\ FinalState[y] = head
        BY <3>3 DEF PathInv
      <4>2. included[y] <= tip + 1 /\ included[y] \in Nat /\ included'[y] = included[y]
        BY <1>0, <1>1, <4>1, Heights, IncludedType DEF PathInv
      <4> QED
        BY <1>0, <1>1, <2>1, <3>1, <4>1, <4>2
    <3> QED
      BY <3>2, <3>3
  <2>2. CASE x # t
    <3>1. included[x] # 0 /\ included'[x] = included[x]
      BY <1>1, <1>6, <2>2
    <3>2. Nonce[FinalState[x]] <= Nonce[head] /\ included[x] <= tip + 1
      BY <3>1 DEF PathInv
    <3>3. Nonce[FinalState[x]] <= Nonce[head'] /\ included'[x] <= tip' + 1
      BY <1>0, <1>2, <3>1, <3>2, TxTypes
    <3>4. CASE InitState[x] = Genesis
      BY <3>3, <3>4
    <3>5. CASE InitState[x] # Genesis
      <4>1. PICK y \in AllTx : FinalState[y] = InitState[x] /\ included[y] \in 1 .. included[x]
        BY <3>1, <3>5 DEF PathInv
      <4>2. included'[y] = included[y]
        BY <1>0, <1>1, <4>1
      <4> QED
        BY <3>1, <3>3, <4>1, <4>2
    <3> QED
      BY <3>4, <3>5
  <2> QED
    BY <2>1, <2>2
<1>7. ASSUME NEW u \in mempool'
      PROVE  /\ included'[u] = 0 /\ Nonce[Genesis] <= Nonce[InitState[u]]
             /\ \A y \in AllTx : InitState[y] = InitState[u] => included'[y] = 0
             /\ \A v \in mempool' : InitState[u] = InitState[v] => u = v
  BY <1>0, <1>1, <1>7 DEF PathInv
<1> QED
  BY <1>3, <1>4, <1>5, <1>6, <1>7 DEF PathInv

\* The path is not touched.
LEMMA PathKept ==
  ASSUME TypeOK, PathInv, tip' \in {tip, tip + 1}, included' = included, head' = head,
         mempool' \subseteq mempool, synced' <= tip, target' <= tip,
         synced' \in Nat, target' \in Nat
  PROVE  PathInv'
<1>0. tip \in Nat /\ \A x \in AllTx : included[x] \in Nat
  BY Heights, IncludedType
<1>1. synced' <= tip' /\ target' <= tip'
  BY <1>0
<1>2. \A x \in AllTx : included[x] # 0 => included[x] <= tip' + 1
  BY <1>0 DEF PathInv
<1>3. /\ Nonce[Genesis] <= Nonce[head']
      /\ head' = Genesis \/ \E y \in AllTx : included'[y] # 0 /\ FinalState[y] = head'
  BY DEF PathInv
<1>4. \A x \in AllTx : included'[x] # 0 =>
       /\ Nonce[FinalState[x]] <= Nonce[head'] /\ included'[x] <= tip' + 1
       /\ \/ InitState[x] = Genesis
          \/ \E y \in AllTx : FinalState[y] = InitState[x] /\ included'[y] \in 1 .. included'[x]
  BY <1>2, Zenon DEF PathInv
<1>5. \A u \in mempool' :
       /\ included'[u] = 0 /\ Nonce[Genesis] <= Nonce[InitState[u]]
       /\ \A y \in AllTx : InitState[y] = InitState[u] => included'[y] = 0
       /\ \A v \in mempool' : InitState[u] = InitState[v] => u = v
  BY DEF PathInv
<1> QED
  BY <1>1, <1>3, <1>4, <1>5 DEF PathInv

\* What a step of the network changes for the client: a transaction may be
\* included, in a block that is not synced.
LEMMA NetworkStep ==
  ASSUME NonceGrows, SyncInv, PathInv, NodeNext(loose), UNCHANGED clientVars
  PROVE  /\ PathInv'
         /\ \A x \in AllTx : included'[x] = included[x] \/ synced < included'[x]
<1>0. /\ TypeOK /\ UNCHANGED <<synced, target>> /\ mempool \subseteq AllTx
      /\ included \in [AllTx -> Block] /\ tip \in Nat /\ synced \in Nat /\ synced <= tip
  BY Heights, NetworkTypes, Zenon DEF SyncInv, clientVars, PathInv
<1>1. ASSUME NEW t \in AllTx, NEW gone, AddToBlock(t, gone)
      PROVE  \A x \in AllTx : included'[x] = included[x] \/ synced < included'[x]
  <2>1. included' = [included EXCEPT ![t] = tip + 1]
    BY <1>1, Zenon DEF AddToBlock
  <2>2. included'[t] = tip + 1 /\ \A x \in AllTx : x # t => included'[x] = included[x]
    BY <1>0, <2>1, Zenon
  <2>3. synced < tip + 1
    BY <1>0
  <2> QED
    BY <2>2, <2>3, Zenon
<1>2. ASSUME NEW t \in Tx, Include(t, t \in loose)
      PROVE  /\ PathInv'
             /\ \A x \in AllTx : included'[x] = included[x] \/ synced < included'[x]
  <2>1. PICK gone : AddToBlock(t, gone)
    BY <1>2 DEF Include
  <2>2. t \in AllTx /\ t \in mempool /\ mempool' = mempool \ {t}
    BY <1>2 DEF Include, AllTx
  <2>3. \A u \in mempool' : InitState[u] # InitState[t]
    BY <2>2 DEF PathInv
  <2>4. PathInv'
    BY <1>0, <2>1, <2>2, <2>3, PathAdd
  <2> QED
    BY <1>1, <2>1, <2>2, <2>4
<1>3. ASSUME NEW t \in OtherTx, IncludeOther(t)
      PROVE  /\ PathInv'
             /\ \A x \in AllTx : included'[x] = included[x] \/ synced < included'[x]
  <2>1. PICK gone : AddToBlock(t, gone)
    BY <1>3 DEF IncludeOther
  <2>2. t \in AllTx /\ mempool' = mempool
    BY <1>3 DEF IncludeOther, AllTx
  <2>3. \A u \in mempool' : InitState[u] # InitState[t]
    BY <1>3, <2>1, <2>2 DEF IncludeOther, AddToBlock
  <2>4. PathInv'
    BY <1>0, <2>1, <2>2, <2>3, PathAdd
  <2> QED
    BY <1>1, <2>1, <2>2, <2>4
<1>4. ASSUME tip' \in {tip, tip + 1}, included' = included, head' = head,
             mempool' \subseteq mempool
      PROVE  /\ PathInv'
             /\ \A x \in AllTx : included'[x] = included[x] \/ synced < included'[x]
  <2>1. synced' <= tip /\ target' <= tip /\ synced' \in Nat /\ target' \in Nat
    BY <1>0, Heights DEF PathInv
  <2>2. PathInv'
    BY <1>0, <1>4, <2>1, PathKept
  <2> QED
    BY <1>4, <2>2
<1>5. ASSUME NEW t \in Tx, Drop(t) PROVE mempool' \subseteq mempool /\ tip' = tip
                                        /\ included' = included /\ head' = head
  BY <1>5 DEF Drop
<1>6. ASSUME NEW n, CreateOutside(n) \/ ConsumeOutside(n)
      PROVE  mempool' \subseteq mempool /\ tip' = tip /\ included' = included /\ head' = head
  BY <1>6 DEF CreateOutside, ConsumeOutside
<1>7. CASE SealBlock
  BY <1>4, <1>7 DEF SealBlock
<1> QED
  BY <1>2, <1>3, <1>4, <1>5, <1>6, <1>7 DEF NodeNext

\* The client's part of the invariant survives what the network does.
LEMMA NetworkKeeps ==
  ASSUME NonceGrows, AccountInv, NodeNext(loose), UNCHANGED clientVars
  PROVE  PathInv' /\ PipelineInv' /\ RowsInv' /\ PendingInv'
<1>1. /\ PathInv'
      /\ \A x \in AllTx : included'[x] = included[x] \/ synced < included'[x]
  BY NetworkStep DEF AccountInv
<1>2. /\ synced' = synced /\ target' = target /\ stage' = stage /\ status' = status
      /\ acct' = acct /\ Pending' = Pending
  BY DEF clientVars, Pending
<1>3. ASSUME NEW s, UnspentAt(s) PROVE UnspentAt(s)'
  BY <1>1, <1>2, <1>3 DEF UnspentAt
<1>4. PipelineInv'
  BY <1>2, <1>3 DEF PipelineInv, AccountInv
<1>5. RowsInv'
  BY <1>2 DEF RowsInv, AccountInv
<1>6. PendingInv'
  BY <1>2, <1>3 DEF PendingInv, AccountInv
<1> QED
  BY <1>1, <1>4, <1>5, <1>6

------------------------------------------------------------------------------
(* Steps of the pipeline.                                                   *)

\* A step that leaves the rows and the records alone.
LEMMA StoreKept ==
  ASSUME RowsInv, PendingInv, UNCHANGED <<synced, status, included>>,
         acct'.latest = acct.latest, acct'.history = acct.history
  PROVE  RowsInv' /\ PendingInv'
<1>1. Pending' = Pending /\ Archived(acct)' = Archived(acct)
  BY DEF Pending, Archived
<1>2. \A s : UnspentAt(s)' <=> UnspentAt(s)
  BY DEF UnspentAt
<1>3. RowsInv'
  BY <1>1 DEF RowsInv
<1>4. PendingInv'
  BY <1>1, <1>2 DEF PendingInv
<1> QED
  BY <1>3, <1>4

\* execute_transaction in submit_new_transaction.
LEMMA ExecuteAccount ==
  ASSUME OneCall, AccountInv, NEW t \in Tx, Execute(t)
  PROVE  PathInv' /\ PipelineInv' /\ RowsInv' /\ PendingInv'
<1>0. /\ TypeOK /\ target = 0 /\ \A u \in Tx : stage[u] = "idle"
      /\ acct.latest = InitState[t] /\ stage' = [stage EXCEPT ![t] = "executed"]
      /\ UNCHANGED <<nodeVars, synced, target, status, acct>>
  BY DEF AccountInv, SyncInv, Execute, Idle
<1>1. PathInv'
  BY <1>0 DEF nodeVars, PathInv, AccountInv
<1>2. stage \in [Tx -> Stage]
  BY <1>0 DEF TypeOK
<1>3. \A u \in Tx : stage'[u] = IF u = t THEN "executed" ELSE "idle"
  BY <1>0, <1>2
<1>5. /\ stage'[t] = "executed" /\ "executed" # "submitted"
      /\ \A u \in Tx : stage'[u] # "idle" => u = t
  BY <1>3
<1>4. PipelineInv'
  BY <1>0, <1>5, Zenon DEF PipelineInv
<1> QED
  BY <1>0, <1>1, <1>4, StoreKept, Zenon DEF AccountInv, nodeVars

\* submit_proven_transaction: what the node admits, nothing has replaced.
LEMMA SubmitAccount ==
  ASSUME NonceGrows, OneHistory, AccountInv, NEW t \in Tx, Submit(t)
  PROVE  PathInv' /\ PipelineInv' /\ RowsInv' /\ PendingInv'
<1>0. /\ TypeOK /\ PathInv /\ PipelineInv /\ t \in AllTx /\ stage[t] = "executed"
      /\ mempool' = mempool \union {t} /\ mempool \subseteq Tx
      /\ UNCHANGED <<tip, included, head, synced, target, status, acct>>
  BY DEF AccountInv, SyncInv, Submit, AllTx, TypeOK, NodeTypeOK
<1>1. Admits(t)
  BY DEF Submit
<1>2. \A y \in AllTx : InitState[y] = InitState[t] => included[y] = 0
  <2>1. CASE InitState[t] = head
    BY <1>0, <2>1, HeadUnspent
  <2>2. CASE InitState[t] # head
    <3>1. PICK u \in mempool : InitState[t] = FinalState[u]
      BY <1>1, <2>2 DEF Admits
    <3> QED
      BY <1>0, <3>1, MempoolUnspent
  <2> QED
    BY <2>1, <2>2
<1>3. Nonce[Genesis] <= Nonce[InitState[t]]
  <2>1. CASE InitState[t] = head
    BY <1>0, <2>1 DEF PathInv
  <2>2. CASE InitState[t] # head
    <3>1. PICK u \in mempool : InitState[t] = FinalState[u]
      BY <1>1, <2>2 DEF Admits
    <3>2. Nonce[Genesis] <= Nonce[InitState[u]] /\ u \in AllTx
      BY <1>0, <3>1, Zenon DEF PathInv, AllTx
    <3>3. Nonce[InitState[u]] < Nonce[FinalState[u]]
      BY <3>2 DEF NonceGrows
    <3>4. Nonce[Genesis] \in Nat
      BY NodeAssumption, StateAssumption
    <3> QED
      <4>1. Nonce[InitState[u]] \in Nat /\ Nonce[FinalState[u]] \in Nat
        BY <3>2, TxTypes, Zenon
      <4>2. Nonce[Genesis] <= Nonce[FinalState[u]]
        BY <3>2, <3>3, <3>4, <4>1
      <4> QED
        BY <3>1, <4>2, Zenon
  <2> QED
    BY <2>1, <2>2
<1>4. PathInv'
  <2>1. included[t] = 0 /\ \A u \in mempool : InitState[u] # InitState[t]
    BY <1>1 DEF Admits
  <2>2. \A u \in mempool' :
       /\ included[u] = 0 /\ Nonce[Genesis] <= Nonce[InitState[u]]
       /\ \A y \in AllTx : InitState[y] = InitState[u] => included[y] = 0
       /\ \A v \in mempool' : InitState[u] = InitState[v] => u = v
    BY <1>0, <1>2, <1>3, <2>1, Zenon DEF PathInv
  <2> QED
    BY <1>0, <2>2 DEF PathInv
<1>5. PipelineInv'
  <2>1. PICK reply \in {"submitted", "idle"} : stage' = [stage EXCEPT ![t] = reply]
    BY Zenon DEF Submit
  <2>2. stage \in [Tx -> Stage]
    BY <1>0 DEF TypeOK
  <2>3. stage'[t] = reply /\ \A u \in Tx : u # t => stage'[u] = stage[u]
    BY <2>1, <2>2
  <2>4. target = 0 /\ acct.latest = InitState[t] /\ \A u \in Tx : stage[u] # "idle" => u = t
    BY <1>0, Zenon DEF PipelineInv
  <2>5. UnspentAt(InitState[t])'
    BY <1>0, <1>2, Zenon DEF UnspentAt
  <2> QED
    BY <1>0, <2>3, <2>4, <2>5, Zenon DEF PipelineInv
<1> QED
  BY <1>0, <1>4, <1>5, StoreKept DEF AccountInv

\* The pipeline is left without a change to the store.
LEMMA LeavePipelineAccount ==
  ASSUME AccountInv, NEW t \in Tx, Abandon(t) \/ Refused(t) \/ ApplyFails(t)
  PROVE  PathInv' /\ PipelineInv' /\ RowsInv' /\ PendingInv'
<1>0. /\ TypeOK /\ stage' = [stage EXCEPT ![t] = "idle"]
      /\ UNCHANGED <<nodeVars, synced, target, status, acct>>
  BY DEF AccountInv, SyncInv, Abandon, Refused, ApplyFails
<1>1. PathInv'
  BY <1>0, Zenon DEF nodeVars, PathInv, AccountInv
<1>2. stage \in [Tx -> Stage]
  BY <1>0 DEF TypeOK
<1>3. stage'[t] = "idle" /\ \A u \in Tx : u # t => stage'[u] = stage[u]
  BY <1>0, <1>2
<1>4. \A s : UnspentAt(s)' <=> UnspentAt(s)
  BY <1>0, Zenon DEF UnspentAt, nodeVars
<1>5. PipelineInv'
  BY <1>0, <1>3, <1>4, Zenon DEF PipelineInv, AccountInv
<1> QED
  BY <1>0, <1>1, <1>5, StoreKept DEF AccountInv, nodeVars

\* apply_transaction: a row for the state the transaction starts from, above
\* all others.
LEMMA ApplyAccount ==
  ASSUME NonceGrows, AccountInv, NEW t \in Tx, Apply(t)
  PROVE  PathInv' /\ PipelineInv' /\ RowsInv' /\ PendingInv'
<1>0. /\ TypeOK /\ PathInv /\ PipelineInv /\ RowsInv /\ PendingInv
      /\ t \in AllTx /\ stage[t] = "submitted" /\ stage' = [stage EXCEPT ![t] = "idle"]
      /\ stage \in [Tx -> Stage] /\ status \in [Tx -> Status]
      /\ status' = [status EXCEPT ![t] = "Pending"]
      /\ acct' = ApplyDelta(acct, InitState[t], FinalState[t])
      /\ UNCHANGED <<nodeVars, synced, target>>
  BY DEF AccountInv, SyncInv, Apply, AllTx, TypeOK
<1>1. /\ acct \in Store /\ acct.history \in [State -> Nat]
      /\ InitState[t] \in State /\ FinalState[t] \in State
      /\ Nonce[InitState[t]] \in Nat /\ Nonce[FinalState[t]] \in Nat /\ Nonce[Genesis] \in Nat
      /\ Nonce[InitState[t]] < Nonce[FinalState[t]]
  BY <1>0, TxTypes, Heights, StoreTypes, Zenon DEF NonceGrows
<1>2. /\ acct.latest = InitState[t] /\ UnspentAt(InitState[t])
      /\ \A u \in Tx : stage[u] # "idle" => u = t
  BY <1>0, Zenon DEF PipelineInv
<1>17. AppliedRows(acct', acct, InitState[t], FinalState[t])
  BY <1>0, <1>1, ApplyDeltaRows, Zenon
<1>3. acct'.latest = FinalState[t]
  BY <1>17, Zenon DEF AppliedRows
<1>4. acct'.history = [acct.history EXCEPT ![InitState[t]] = Nonce[FinalState[t]]]
  BY <1>17, Zenon DEF AppliedRows
<1>5. /\ acct'.history[InitState[t]] = Nonce[FinalState[t]]
      /\ \A s \in State : s # InitState[t] => acct'.history[s] = acct.history[s]
  BY <1>1, <1>4, Zenon
<1>6. Archived(acct)' = Archived(acct) \union {InitState[t]}
  <2>1. Nonce[FinalState[t]] # 0
    BY <1>1
  <2> QED
    BY <1>1, <1>5, <2>1, Zenon DEF Archived
<1>7. InitState[t] \notin Archived(acct)
  BY <1>0, <1>2, LatestNotArchived
<1>8. Pending' = Pending \union {t}
  BY <1>0 DEF Pending
<1>9. t \notin Pending
  BY <1>0, <1>7, PendingRow, Zenon
<1>10. \A s \in Archived(acct) : /\ acct'.history[s] = acct.history[s]
                                 /\ acct.history[s] <= Nonce[InitState[t]]
                                 /\ acct.history[s] \in Nat /\ Nonce[s] \in Nat
  BY <1>0, <1>1, <1>2, <1>5, <1>7, StateAssumption, Zenon DEF RowsInv, Archived
<1>11. RowsInv'
  <2>1. acct'.latest \in State /\ Nonce[Genesis] <= Nonce[acct'.latest]
    <3>1. Nonce[Genesis] <= Nonce[InitState[t]]
      BY <1>0, <1>2, Zenon DEF RowsInv
    <3>2. Nonce[Genesis] <= Nonce[FinalState[t]]
      BY <1>1, <3>1
    <3> QED
      BY <1>1, <1>3, <3>2, Zenon
  <2>2. ASSUME NEW s \in Archived(acct)'
        PROVE  /\ Nonce[Genesis] <= Nonce[s] /\ Nonce[s] < acct'.history[s]
               /\ acct'.history[s] <= Nonce[acct'.latest]
    <3>1. CASE s = InitState[t]
      <4>1. Nonce[Genesis] <= Nonce[InitState[t]]
        BY <1>0, <1>2, Zenon DEF RowsInv
      <4>2. Nonce[FinalState[t]] <= Nonce[FinalState[t]]
        BY <1>1
      <4> QED
        BY <1>1, <1>3, <1>5, <3>1, <4>1, <4>2, Zenon
    <3>2. CASE s \in Archived(acct)
      <4>1. Nonce[Genesis] <= Nonce[s] /\ Nonce[s] < acct.history[s]
        BY <1>0, <3>2, Zenon DEF RowsInv
      <4>2. acct.history[s] <= Nonce[InitState[t]] /\ acct.history[s] \in Nat
        BY <1>10, <3>2, Zenon
      <4>3. acct.history[s] <= Nonce[FinalState[t]]
        BY <1>1, <4>2
      <4> QED
        BY <1>3, <1>10, <3>2, <4>1, <4>3, Zenon
    <3> QED
      BY <1>6, <2>2, <3>1, <3>2, Zenon
  <2>3. ASSUME NEW r \in Archived(acct)', NEW s \in Archived(acct)'
        PROVE  r = s \/ acct'.history[r] <= Nonce[s] \/ acct'.history[s] <= Nonce[r]
    BY <1>0, <1>6, <1>10, <2>3, Zenon DEF RowsInv
  <2> QED
    BY <2>1, <2>2, <2>3 DEF RowsInv
<1>12. \A s : UnspentAt(s)' <=> UnspentAt(s)
  BY <1>0, Zenon DEF UnspentAt, nodeVars
<1>13. \A u \in Pending : /\ InitState[u] # InitState[t]
                          /\ InitState[u] \in Archived(acct)
                          /\ acct.history[InitState[u]] = Nonce[FinalState[u]]
  BY <1>0, <1>7, PendingRow, Zenon
<1>14. PendingInv'
  <2>1. ASSUME NEW u \in Pending'
        PROVE  acct'.history[InitState[u]] = Nonce[FinalState[u]]
    BY <1>5, <1>8, <1>10, <1>13, <2>1, Zenon
  <2>2. ASSUME NEW u \in Pending'
        PROVE  FinalState[u] = acct'.latest \/ \E v \in Pending' : InitState[v] = FinalState[u]
    BY <1>0, <1>2, <1>3, <1>8, <2>2, Zenon DEF PendingInv
  <2>3. ASSUME NEW u \in Pending', NEW s \in Archived(acct)',
               Nonce[FinalState[u]] <= acct'.history[s]
        PROVE  \E v \in Pending' : InitState[v] = s
    <3>1. CASE s = InitState[t]
      BY <1>8, <3>1
    <3>2. CASE s \in Archived(acct) /\ u \in Pending
      BY <1>0, <1>8, <1>10, <2>3, <3>2, Zenon DEF PendingInv
    <3>3. CASE s \in Archived(acct) /\ u = t
      BY <1>1, <1>10, <2>3, <3>3, NatCycle, Zenon
    <3> QED
      BY <1>6, <1>8, <2>3, <3>1, <3>2, <3>3, Zenon
  <2>4. \A u \in Pending' : UnspentAt(InitState[u])'
    BY <1>0, <1>2, <1>8, <1>12, Zenon DEF PendingInv
  <2>5. \A u, v \in Pending' : InitState[u] = InitState[v] => u = v
    BY <1>0, <1>8, <1>13, Zenon DEF PendingInv
  <2> QED
    BY <2>1, <2>2, <2>3, <2>4, <2>5, Zenon DEF PendingInv
<1>15. PathInv'
  BY <1>0, Zenon DEF nodeVars, PathInv
<1>16. PipelineInv'
  <2>1. \A u \in Tx : stage'[u] = "idle"
    BY <1>0, <1>2, Zenon
  <2> QED
    BY <2>1 DEF PipelineInv
<1> QED
  BY <1>11, <1>14, <1>15, <1>16

\* A restart keeps what is in the database.
LEMMA RestartAccount ==
  ASSUME AccountInv, Restart
  PROVE  PathInv' /\ PipelineInv' /\ RowsInv' /\ PendingInv'
<1>0. /\ TypeOK /\ PathInv /\ target' = 0 /\ synced' = synced /\ synced <= tip
      /\ \A t \in Tx : stage'[t] = "idle"
      /\ acct' = Reopen(acct) /\ UNCHANGED <<nodeVars, synced, status>>
  BY Zenon DEF AccountInv, SyncInv, Restart, PathInv
<1>1. acct'.latest = acct.latest /\ acct'.history = acct.history
  BY <1>0, StoreTypes DEF Reopen, Store
<1>2. PathInv'
  <2>1. tip \in Nat /\ synced \in Nat
    BY <1>0, Heights, Zenon
  <2>2. 0 <= tip /\ 0 \in Nat
    BY <2>1
  <2> QED
    BY <1>0, <2>1, <2>2, PathKept DEF nodeVars
<1>3. PipelineInv'
  BY <1>0, Zenon DEF PipelineInv
<1> QED
  BY <1>0, <1>1, <1>2, <1>3, StoreKept, Zenon DEF AccountInv, nodeVars
------------------------------------------------------------------------------
(* The sync of a private account.                                           *)

\* A pending transaction is committed by every transaction in the synced
\* range that starts from the same state.
LEMMA MustCommit ==
  ASSUME AccountInv, target # 0, NEW committed \in Commits, NEW t \in Pending,
         NEW y \in AllTx, InitState[y] = InitState[t], included[y] \in 1 .. target
  PROVE  t \in committed
<1> DEFINE matched == {x \in Records : Matches(x) # {}}
<1>0. TypeOK /\ RowsInv /\ PendingInv
  BY DEF AccountInv, SyncInv
<1>1. y \in Records
  <2>1. UnspentAt(InitState[t]) /\ acct.latest # NoState
    BY <1>0, StateAssumption DEF PendingInv, RowsInv
  <2>2. synced < included[y] /\ included[y] <= target
    <3>1. included[y] \in Nat /\ target \in Nat
      BY <1>0, Heights, IncludedType, Zenon
    <3>2. included[y] # 0 /\ included[y] <= target
      BY <3>1
    <3> QED
      BY <2>1, <3>2, Zenon DEF UnspentAt
  <2> QED
    BY <2>1, <2>2 DEF Records, Seen
<1>2. Matches(y) = {t}
  <2>1. \A u \in Pending : InitState[u] = InitState[y] => u = t
    BY <1>0 DEF PendingInv
  <2> QED
    BY <2>1, Zenon DEF Matches
<1>3. y \in matched
  BY <1>1, <1>2
<1>4. PICK f \in [matched -> Pending] :
        /\ \A x \in matched : f[x] \in Matches(x)
        /\ committed = {f[x] : x \in matched}
  BY Zenon DEF Commits
<1>5. f[y] = t
  BY <1>2, <1>3, <1>4
<1> QED
  BY <1>3, <1>4, <1>5

\* With a transaction the sync commits the one it was built on.
LEMMA CommitsDown ==
  ASSUME NonceGrows, OneHistory, AccountInv, target # 0, NEW committed \in Commits,
         NEW v \in committed, NEW t \in Pending, FinalState[t] = InitState[v]
  PROVE  t \in committed
<1>0. TypeOK /\ PathInv /\ RowsInv /\ PendingInv /\ t \in AllTx
  BY DEF AccountInv, SyncInv, Pending, AllTx
<1>1. PICK x \in Records : InitState[x] = InitState[v]
  BY <1>0, CommitsFacts
<1>2. x \in AllTx /\ included[x] # 0 /\ included[x] <= target
  BY <1>0, <1>1, Heights, IncludedType DEF Records, Seen
<1>3. InitState[x] # Genesis
  <2>1. /\ Nonce[Genesis] <= Nonce[InitState[t]] /\ Nonce[InitState[t]] < Nonce[InitState[x]]
        /\ Nonce[Genesis] \in Nat /\ Nonce[InitState[t]] \in Nat /\ Nonce[InitState[x]] \in Nat
    BY <1>0, <1>1, <1>2, PendingRow, TxTypes, Heights, Zenon
  <2>2. Nonce[InitState[x]] <= Nonce[InitState[x]]
    BY <2>1
  <2> QED
    BY <2>1, <2>2, NatChain, Zenon
<1>4. PICK y \in AllTx : FinalState[y] = InitState[x] /\ included[y] \in 1 .. included[x]
  BY <1>0, <1>2, <1>3 DEF PathInv
<1>5. InitState[y] = InitState[t]
  BY <1>0, <1>1, <1>4, Zenon DEF OneHistory
<1>6. included[y] \in 1 .. target
  BY <1>0, <1>2, <1>4, Heights, IncludedType
<1> QED
  BY <1>5, <1>6, MustCommit

\* What is not committed, and what is discarded, are upper ends.
LEMMA DiscardsSubset ==
  ASSUME NEW committed
  PROVE  Discards(committed) \subseteq Pending \ committed
BY DEF Discards, Cascade

LEMMA KeptIsUpper ==
  ASSUME NonceGrows, OneHistory, AccountInv, target # 0, NEW committed \in Commits,
         NEW w \in Pending \ committed, NEW v \in Pending,
         Nonce[FinalState[w]] <= Nonce[InitState[v]]
  PROVE  v \notin committed
<1> DEFINE U == Pending \ committed
<1>1. \A x \in U, u \in Pending : InitState[u] = FinalState[x] => u \in U
  BY CommitsDown
<1>2. U \in SUBSET Pending /\ w \in U
  OBVIOUS
<1>3. TypeOK /\ RowsInv /\ PendingInv
  BY DEF AccountInv, SyncInv
<1> HIDE DEF U
<1>4. v \in U
  BY <1>1, <1>2, <1>3, UpperEnd
<1> QED
  BY <1>4 DEF U

LEMMA DiscardedIsUpper ==
  ASSUME NonceGrows, OneHistory, AccountInv, target # 0, NEW committed \in Commits,
         NEW w \in Discards(committed), NEW v \in Pending,
         Nonce[FinalState[w]] <= Nonce[InitState[v]]
  PROVE  v \in Discards(committed)
<1> DEFINE U == Discards(committed)
<1>1. ASSUME NEW x \in U, NEW u \in Pending, InitState[u] = FinalState[x] PROVE u \in U
  <2>1. x \in Pending /\ x \notin committed
    BY DiscardsSubset
  <2>2. u \notin committed
    BY <1>1, <2>1, CommitsDown
  <2> QED
    BY <1>1, <2>2, CascadeClosed DEF Discards
<1>2. U \in SUBSET Pending
  BY DiscardsSubset
<1>3. TypeOK /\ RowsInv /\ PendingInv
  BY DEF AccountInv, SyncInv
<1> HIDE DEF U
<1>4. w \in U
  BY DEF U
<1>5. v \in U
  BY <1>1, <1>2, <1>3, <1>4, UpperEnd
<1> QED
  BY <1>5 DEF U

\* Without a refresh a sync changes the rows by undoing, and may lock them.
LEMMA ResolvedRows ==
  ASSUME TypeOK, NEW committed
  PROVE  SameRows(Resolved(committed),
                  IF Discards(committed) = {} THEN acct
                  ELSE Undo(acct, {FinalState[t] : t \in Discards(committed)},
                            Cardinality(Discards(committed))))
<1> DEFINE undone == IF Discards(committed) = {} THEN acct
                     ELSE Undo(acct, {FinalState[t] : t \in Discards(committed)},
                               Cardinality(Discards(committed)))
<1>1. Resolved(committed) = IF committed = {} THEN undone ELSE CommitRoots(undone)
  BY Zenon DEF Resolved
<1>2. SameRows(undone, undone)
  BY Zenon DEF SameRows
<1>3. Resolved(committed) \in Store
  BY ResolvedType
<1>4. undone \in Store
  <2>1. Discards(committed) \subseteq Tx
    BY DiscardsSubset DEF Pending
  <2>2. {FinalState[t] : t \in Discards(committed)} \in SUBSET State
    BY <2>1, NodeAssumption DEF AllTx
  <2>3. Cardinality(Discards(committed)) \in Nat
    BY <2>1, NodeAssumption
  <2>4. acct \in Store
    BY DEF TypeOK
  <2>5. Undo(acct, {FinalState[t] : t \in Discards(committed)},
             Cardinality(Discards(committed))) \in Store
    BY <2>2, <2>3, <2>4, UndoType
  <2> QED
    BY <2>4, <2>5
<1> HIDE DEF undone
<1>5. SameRows(CommitRoots(undone), undone)
  BY <1>4 DEF CommitRoots, SameRows, Store
<1>6. SameRows(Resolved(committed), undone)
  BY <1>1, <1>2, <1>5
<1> QED
  BY <1>6, Zenon DEF undone

\* The nonces of what a sync discards.
Nonces(discarded) == {Nonce[FinalState[t]] : t \in discarded}

\* Undoing restores the state the lowest discarded transaction starts from,
\* and removes the rows of the discarded transactions and no others.
LEMMA DiscardedRows ==
  ASSUME NonceGrows, AccountInv, NEW committed, Discards(committed) # {}
  PROVE  \E t \in Discards(committed) :
           /\ \A n \in Nonces(Discards(committed)) : Nonce[FinalState[t]] <= n
           /\ UndoneTo(Resolved(committed), acct, InitState[t], Nonces(Discards(committed)))
<1> DEFINE D == Discards(committed)
           finals == {FinalState[t] : t \in D}
           c == Undo(acct, finals, Cardinality(D))
<1>0. /\ TypeOK /\ RowsInv /\ PendingInv /\ acct \in Store
      /\ D \subseteq Pending /\ D \subseteq Tx /\ D \subseteq AllTx
  BY DiscardsSubset DEF AccountInv, SyncInv, TypeOK, Pending, AllTx
<1>1. finals \in SUBSET State /\ Nonces(D) \subseteq Nat
  BY <1>0, TxTypes, Zenon DEF Nonces
<1>2. Cardinality(D) \in Nat
  BY <1>0, NodeAssumption
<1>3. Nonces(D) # {}
  BY Zenon DEF Nonces
<1>4. PICK n \in Nonces(D) : \A m \in Nonces(D) : n <= m
  BY <1>1, <1>3, NatMinimum
<1>5. PICK t \in D : n = Nonce[FinalState[t]]
  BY DEF Nonces
<1>6. DiscardedNonces(acct, finals) = Nonces(D)
  <2>1. ASSUME NEW u \in D PROVE FinalState[u] = acct.latest \/ FinalState[u] \in Archived(acct)
    <3>1. u \in Pending
      BY <1>0
    <3>2. FinalState[u] = acct.latest \/ \E v \in Pending : InitState[v] = FinalState[u]
      BY <1>0, <3>1, Zenon DEF PendingInv
    <3> QED
      BY <1>0, <3>2, PendingRow, Zenon
  <2>2. {x \in finals : x = acct.latest \/ x \in Archived(acct)} = finals
    BY <2>1, Zenon
  <2> QED
    BY <2>2 DEF DiscardedNonces, Nonces
<1>7. /\ InitState[t] \in Archived(acct) /\ acct.history[InitState[t]] = n
      /\ Nonce[InitState[t]] < n
  BY <1>0, <1>5, PendingRow, Zenon
<1>8. \A s \in Archived(acct) : acct.history[s] = n => s = InitState[t]
  <2> SUFFICES ASSUME NEW s \in Archived(acct), acct.history[s] = n, s # InitState[t]
               PROVE  FALSE
    OBVIOUS
  <2>1. n <= Nonce[InitState[t]] \/ n <= Nonce[s]
    BY <1>0, <1>7, Zenon DEF RowsInv
  <2>2. Nonce[s] < n
    BY <1>0, Zenon DEF RowsInv
  <2>3. n \in Nat /\ Nonce[s] \in Nat /\ Nonce[InitState[t]] \in Nat
    BY <1>0, <1>1, TxTypes, StateAssumption, Zenon DEF Archived
  <2> QED
    <3>1. n <= n
      BY <2>3
    <3> QED
      BY <1>7, <2>1, <2>2, <2>3, <3>1, NatCycle, Zenon
<1>9. UndoneTo(c, acct, InitState[t], Nonces(D))
  <2>1. acct.history[InitState[t]] \in DiscardedNonces(acct, finals)
    BY <1>6, <1>7, Zenon
  <2>2. \A m \in DiscardedNonces(acct, finals) : acct.history[InitState[t]] <= m
    BY <1>4, <1>6, <1>7
  <2>3. \A s \in Archived(acct) : acct.history[s] = acct.history[InitState[t]] => s = InitState[t]
    BY <1>7, <1>8
  <2>4. InitState[t] \in Archived(acct) /\ acct \in Store
    BY <1>0, <1>7
  <2> HIDE DEF finals, D
  <2>5. UndoneTo(Undo(acct, finals, Cardinality(D)), acct, InitState[t],
                 DiscardedNonces(acct, finals))
    BY <1>1, <1>2, <2>1, <2>2, <2>3, <2>4, UndoRows, Zenon
  <2> QED
    BY <1>6, <2>5
<1>10. SameRows(Resolved(committed), c)
  BY <1>0, ResolvedRows, Zenon
<1> HIDE DEF c
<1> QED
  BY <1>4, <1>5, <1>9, <1>10, Zenon DEF SameRows, UndoneTo

\* A private account is never refreshed, only locked.
LEMMA PrivateUpdate ==
  ASSUME Private, NEW committed, NEW digest, NEW large, SyncApply(committed, digest, large)
  PROVE  acct' = IF digest = acct.latest THEN Resolved(committed)
                 ELSE LockOn(Resolved(committed), digest)
<1>1. ~ Refresh(digest)
  BY DEF Refresh
<1>2. acct' = Updated(committed, digest, large)
  BY DEF SyncApply
<1> QED
  BY <1>1, <1>2 DEF Updated

LEMMA PrivateRows ==
  ASSUME Private, TypeOK, NEW committed, NEW digest, NEW large,
         SyncApply(committed, digest, large)
  PROVE  acct'.latest = Resolved(committed).latest
         /\ acct'.history = Resolved(committed).history
<1> DEFINE a == Resolved(committed)
<1>1. a \in Store
  BY ResolvedType
<1>2. acct' = a \/ acct' = LockOn(a, digest)
  BY PrivateUpdate
<1> HIDE DEF a
<1>3. LockOn(a, digest).latest = a.latest /\ LockOn(a, digest).history = a.history
  BY <1>1 DEF LockOn, Store
<1>4. acct'.latest = a.latest /\ acct'.history = a.history
  BY <1>2, <1>3
<1> QED
  BY <1>4 DEF a

LEMMA SyncPending ==
  ASSUME TypeOK, NEW committed, committed \subseteq Pending, NEW digest, NEW large,
         SyncApply(committed, digest, large)
  PROVE  Pending' = (Pending \ committed) \ Discards(committed)
<1>1. Discards(committed) \subseteq Pending \ committed
  BY DiscardsSubset
<1>2. ASSUME NEW t \in Tx
      PROVE  status'[t] = "Pending" <=> t \in (Pending \ committed) \ Discards(committed)
  <2>1. status'[t] = CASE t \in committed           -> "Committed"
                       [] t \in Discards(committed) -> "Discarded"
                       [] OTHER                     -> status[t]
    BY DEF SyncApply
  <2>2. CASE t \in committed
    <3>1. t \notin Discards(committed)
      BY <1>1, <2>2
    <3> QED
      BY <2>1, <2>2, <3>1
  <2>3. CASE t \in Discards(committed)
    <3>1. t \notin committed
      BY <1>1, <2>3
    <3> QED
      BY <2>1, <2>3, <3>1
  <2>4. CASE t \notin committed /\ t \notin Discards(committed)
    BY <2>1, <2>4 DEF Pending
  <2> QED
    BY <2>2, <2>3, <2>4
<1>3. Pending \subseteq Tx
  BY DEF Pending
<1> QED
  BY <1>2, <1>3 DEF Pending

\* What stays pending is below everything that is discarded.
LEMMA KeptIsBelow ==
  ASSUME NonceGrows, OneHistory, AccountInv, target # 0, NEW committed \in Commits,
         NEW d \in Discards(committed), NEW t \in (Pending \ committed) \ Discards(committed)
  PROVE  Nonce[FinalState[t]] <= Nonce[InitState[d]]
<1>1. TypeOK /\ RowsInv /\ PendingInv /\ d \in Pending
  BY DiscardsSubset DEF AccountInv, SyncInv
<1>2. ~(Nonce[FinalState[d]] <= Nonce[InitState[t]])
  BY DiscardedIsUpper
<1> QED
  BY <1>1, <1>2, PendingOrder

\* A row above the lowest discarded transaction's is a discarded one's.
LEMMA RowsAbove ==
  ASSUME NonceGrows, OneHistory, AccountInv, target # 0, NEW committed \in Commits,
         NEW d \in Discards(committed), NEW s \in Archived(acct),
         acct.history[s] \notin Nonces(Discards(committed))
  PROVE  acct.history[s] <= Nonce[InitState[d]]
<1>1. TypeOK /\ RowsInv /\ PendingInv /\ d \in Pending
  BY DiscardsSubset DEF AccountInv, SyncInv
<1>2. /\ InitState[d] \in Archived(acct)
      /\ acct.history[InitState[d]] = Nonce[FinalState[d]]
  BY <1>1, PendingRow, Zenon
<1>3. s # InitState[d]
  BY <1>2, Zenon DEF Nonces
<1>4. acct.history[s] <= Nonce[InitState[d]] \/ Nonce[FinalState[d]] <= Nonce[s]
  BY <1>1, <1>2, <1>3, Zenon DEF RowsInv
<1>5. ASSUME Nonce[FinalState[d]] <= Nonce[s] PROVE FALSE
  <2>1. Nonce[s] \in Nat /\ acct.history[s] \in Nat /\ Nonce[FinalState[d]] \in Nat
        /\ Nonce[s] < acct.history[s]
    BY <1>1, TxTypes, StoreTypes, StateAssumption, Zenon DEF Archived, RowsInv, Pending, AllTx
  <2>2. Nonce[FinalState[d]] <= acct.history[s]
    BY <1>5, <2>1
  <2>3. PICK v \in Pending : InitState[v] = s
    BY <1>1, <2>2, Zenon DEF PendingInv
  <2>4. v \in Discards(committed)
    BY <1>5, <2>3, DiscardedIsUpper
  <2>5. acct.history[s] = Nonce[FinalState[v]]
    BY <1>1, <2>3, PendingRow, Zenon
  <2> QED
    BY <2>4, <2>5 DEF Nonces
<1> QED
  BY <1>4, <1>5

LEMMA SyncRowsInv ==
  ASSUME NonceGrows, OneHistory, Private, AccountInv, NEW committed \in Commits,
         NEW digest, NEW large, SyncApply(committed, digest, large)
  PROVE  RowsInv'
<1> DEFINE a == Resolved(committed)
           D == Discards(committed)
<1>0. /\ TypeOK /\ RowsInv /\ PendingInv /\ target # 0 /\ acct.history \in [State -> Nat]
      /\ acct'.latest = a.latest /\ acct'.history = a.history
  BY PrivateRows, Heights, StoreTypes DEF AccountInv, SyncInv, SyncApply
<1>1. CASE D = {}
  <2>1. acct'.latest = acct.latest /\ acct'.history = acct.history
    BY <1>0, <1>1, ResolvedRows, Zenon DEF SameRows
  <2>2. Archived(acct)' = Archived(acct)
    BY <2>1, Zenon DEF Archived
  <2> QED
    BY <1>0, <2>1, <2>2, Zenon DEF RowsInv
<1>2. CASE D # {}
  <2>1. PICK t \in D : /\ \A n \in Nonces(D) : Nonce[FinalState[t]] <= n
                       /\ UndoneTo(a, acct, InitState[t], Nonces(D))
    BY <1>2, DiscardedRows, Zenon
  <2>2. /\ acct'.latest = InitState[t]
        /\ \A s \in State : acct'.history[s] = IF acct.history[s] \in Nonces(D) THEN 0
                                               ELSE acct.history[s]
    BY <1>0, <2>1, Zenon DEF UndoneTo
  <2>3. ASSUME NEW s \in Archived(acct)'
        PROVE  /\ s \in Archived(acct) /\ acct'.history[s] = acct.history[s]
               /\ acct.history[s] \notin Nonces(D)
    BY <2>2, <2>3, Zenon DEF Archived
  <2>4. t \in Pending
    BY DiscardsSubset
  <2>5. InitState[t] \in State /\ Nonce[Genesis] <= Nonce[InitState[t]]
    BY <1>0, <2>4, PendingRow, TxTypes, Zenon
  <2>6. \A s \in Archived(acct)' : acct'.history[s] <= Nonce[acct'.latest]
    BY <1>0, <2>2, <2>3, RowsAbove, Zenon
  <2> QED
    BY <1>0, <2>2, <2>3, <2>5, <2>6, Zenon DEF RowsInv
<1> QED
  BY <1>1, <1>2

LEMMA SyncPendingInv ==
  ASSUME NonceGrows, OneHistory, Private, AccountInv, NEW committed \in Commits,
         NEW digest, NEW large, SyncApply(committed, digest, large)
  PROVE  PendingInv'
<1> DEFINE a == Resolved(committed)
           D == Discards(committed)
<1>0. /\ TypeOK /\ RowsInv /\ PendingInv /\ target # 0 /\ acct.history \in [State -> Nat]
      /\ acct'.latest = a.latest /\ acct'.history = a.history
      /\ included' = included /\ synced' = target
  BY PrivateRows, Heights, IncludedType, StoreTypes DEF AccountInv, SyncInv, SyncApply, nodeVars
<1>1. committed \subseteq Pending
  BY <1>0, CommitsFacts
<1>2. Pending' = (Pending \ committed) \ D
  BY <1>0, <1>1, SyncPending
<1>3. ASSUME NEW t \in Pending' PROVE UnspentAt(InitState[t])'
  <2>1. t \in Pending /\ t \notin committed
    BY <1>2
  <2>2. ASSUME NEW y \in AllTx, InitState[y] = InitState[t], included[y] # 0,
               ~(target < included[y])
        PROVE FALSE
    <3>1. included[y] \in 1 .. target
      <4>1. included[y] \in Nat /\ target \in Nat
        BY <1>0, Heights, IncludedType, Zenon
      <4> QED
        BY <2>2, <4>1
    <3> QED
      BY <1>0, <2>1, <2>2, <3>1, MustCommit, Zenon
  <2> QED
    BY <1>0, <2>2 DEF UnspentAt
\* What a row that stays looked like before, and the state that a kept
\* transaction leaves.
<1>4. /\ \A s \in Archived(acct)' : s \in Archived(acct) /\ acct'.history[s] = acct.history[s]
                                    /\ acct.history[s] \notin Nonces(D)
      /\ \A t \in Pending' : acct'.history[InitState[t]] = Nonce[FinalState[t]]
      /\ \A t \in Pending' : FinalState[t] = acct'.latest
                             \/ \E v \in Pending' : InitState[v] = FinalState[t]
  <2>1. CASE D = {}
    <3>1. acct'.latest = acct.latest /\ acct'.history = acct.history
      BY <1>0, <2>1, ResolvedRows, Zenon DEF SameRows
    <3>2. Archived(acct)' = Archived(acct) /\ Nonces(D) = {}
      BY <2>1, <3>1, Zenon DEF Archived, Nonces
    <3>3. ASSUME NEW t \in Pending'
          PROVE  /\ acct'.history[InitState[t]] = Nonce[FinalState[t]]
                 /\ FinalState[t] = acct'.latest
                    \/ \E v \in Pending' : InitState[v] = FinalState[t]
      <4>1. t \in Pending /\ t \notin committed
        BY <1>2
      <4>2. acct.history[InitState[t]] = Nonce[FinalState[t]]
        BY <1>0, <4>1, Zenon DEF PendingInv
      <4>3. ASSUME NEW v \in Pending, InitState[v] = FinalState[t] PROVE v \in Pending'
        BY <1>0, <1>2, <2>1, <4>1, <4>3, CommitsDown, Zenon
      <4>4. FinalState[t] = acct.latest \/ \E v \in Pending : InitState[v] = FinalState[t]
        BY <1>0, <4>1, Zenon DEF PendingInv
      <4> QED
        BY <3>1, <4>2, <4>3, <4>4, Zenon
    <3> QED
      BY <3>1, <3>2, <3>3, Zenon
  <2>2. CASE D # {}
    <3>1. PICK d \in D : /\ \A n \in Nonces(D) : Nonce[FinalState[d]] <= n
                         /\ UndoneTo(a, acct, InitState[d], Nonces(D))
      BY <2>2, DiscardedRows, Zenon
    <3>2. /\ acct'.latest = InitState[d]
          /\ \A s \in State : acct'.history[s] = IF acct.history[s] \in Nonces(D) THEN 0
                                                 ELSE acct.history[s]
      BY <1>0, <3>1, Zenon DEF UndoneTo
    <3>3. d \in Pending /\ d \in AllTx
      BY DiscardsSubset DEF Pending, AllTx
    <3>4. ASSUME NEW s \in Archived(acct)'
          PROVE  /\ s \in Archived(acct) /\ acct'.history[s] = acct.history[s]
                 /\ acct.history[s] \notin Nonces(D)
      BY <3>2, <3>4, Zenon DEF Archived
    <3>5. ASSUME NEW t \in Pending'
          PROVE  /\ acct'.history[InitState[t]] = Nonce[FinalState[t]]
                 /\ FinalState[t] = acct'.latest
                    \/ \E v \in Pending' : InitState[v] = FinalState[t]
      <4>0. t \in Pending /\ t \notin committed /\ t \notin D /\ t \in AllTx
        BY <1>2, Zenon DEF Pending, AllTx
      <4>1. Nonce[FinalState[t]] <= Nonce[InitState[d]]
        BY <1>0, <1>2, KeptIsBelow, Zenon
      <4>2. /\ Nonce[FinalState[t]] \in Nat /\ Nonce[InitState[d]] \in Nat
            /\ Nonce[FinalState[d]] \in Nat /\ Nonce[InitState[d]] < Nonce[FinalState[d]]
            /\ Nonce[FinalState[d]] <= Nonce[acct.latest] /\ Nonce[acct.latest] \in Nat
        BY <1>0, <3>3, <4>0, PendingRow, TxTypes, Zenon
      <4>3. acct.history[InitState[t]] = Nonce[FinalState[t]]
        BY <1>0, <4>0, Zenon DEF PendingInv
      <4>4. Nonce[FinalState[t]] \notin Nonces(D)
        BY <3>1, <4>1, <4>2, NatCycle, Zenon
      <4>5. acct'.history[InitState[t]] = Nonce[FinalState[t]]
        BY <3>2, <4>0, <4>3, <4>4, TxTypes, Zenon
      <4>6. FinalState[t] # acct.latest
        BY <4>1, <4>2, NatChain, Zenon
      <4>7. PICK v \in Pending : InitState[v] = FinalState[t]
        BY <1>0, <4>0, <4>6, Zenon DEF PendingInv
      <4>8. v \notin committed
        BY <1>0, <4>0, <4>7, CommitsDown, Zenon
      <4>9. CASE v \notin D
        BY <1>2, <4>5, <4>7, <4>8, <4>9, Zenon
      <4>10. CASE v \in D
        <5>1. Nonce[FinalState[v]] \in Nonces(D)
          BY <4>10 DEF Nonces
        <5>2. /\ Nonce[FinalState[d]] <= Nonce[FinalState[v]]
              /\ Nonce[InitState[v]] <= Nonce[InitState[d]]
          BY <3>1, <4>1, <4>7, <5>1, Zenon
        <5>3. v \in AllTx
          BY DEF Pending, AllTx
        <5>4. v = d
          <6>1. Nonce[FinalState[v]] \in Nat /\ Nonce[InitState[v]] \in Nat
            BY <5>3, TxTypes, Zenon
          <6>2. \/ v = d
                \/ Nonce[FinalState[v]] <= Nonce[InitState[d]]
                \/ Nonce[FinalState[d]] <= Nonce[InitState[v]]
            BY <1>0, <3>3, PendingOrder, Zenon
          <6> QED
            BY <4>2, <5>2, <6>1, <6>2, NatCycle, Zenon
        <5> QED
          BY <3>2, <4>5, <4>7, <5>4, Zenon
      <4> QED
        BY <4>9, <4>10, Zenon
    <3> QED
      BY <3>4, <3>5, Zenon
  <2> QED
    BY <2>1, <2>2, Zenon
<1>5. ASSUME NEW t \in Pending', NEW s \in Archived(acct)',
             Nonce[FinalState[t]] <= acct'.history[s]
      PROVE  \E v \in Pending' : InitState[v] = s
  <2>1. t \in Pending /\ t \notin committed /\ t \notin D /\ t \in AllTx
    BY <1>2 DEF Pending, AllTx
  <2>2. PICK v \in Pending : InitState[v] = s
    BY <1>0, <1>4, <1>5, <2>1, Zenon DEF PendingInv
  <2>3. acct.history[s] = Nonce[FinalState[v]] /\ v \in AllTx
    BY <1>0, <2>2, PendingRow, Zenon
  <2>4. v \notin D
    <3>1. v \in D => Nonce[FinalState[v]] \in Nonces(D)
      BY DEF Nonces
    <3> QED
      BY <1>4, <1>5, <2>3, <3>1, Zenon
  <2>5. Nonce[FinalState[t]] <= Nonce[FinalState[v]]
    BY <1>4, <1>5, <2>3, Zenon
  <2>6. v = t \/ Nonce[FinalState[t]] <= Nonce[InitState[v]]
    <3>1. Nonce[InitState[t]] < Nonce[FinalState[t]]
      BY <2>1, Zenon DEF NonceGrows
    <3> QED
      <4>1. /\ Nonce[FinalState[t]] \in Nat /\ Nonce[InitState[t]] \in Nat
            /\ Nonce[FinalState[v]] \in Nat /\ Nonce[InitState[v]] \in Nat
        BY <2>1, <2>3, TxTypes, Zenon
      <4>2. \/ v = t
            \/ Nonce[FinalState[v]] <= Nonce[InitState[t]]
            \/ Nonce[FinalState[t]] <= Nonce[InitState[v]]
        BY <1>0, <2>1, <2>2, PendingOrder, Zenon
      <4> QED
        BY <2>5, <3>1, <4>1, <4>2, NatCycle, Zenon
  <2>7. v \notin committed
    BY <1>0, <2>1, <2>6, KeptIsUpper, Zenon
  <2> QED
    BY <1>2, <2>2, <2>4, <2>7
<1>6. \A t, u \in Pending' : InitState[t] = InitState[u] => t = u
  BY <1>0, <1>2, Zenon DEF PendingInv
<1> HIDE DEF D, a
<1> QED
  BY <1>3, <1>4, <1>5, <1>6, Zenon DEF PendingInv

LEMMA SyncAccount ==
  ASSUME NonceGrows, OneHistory, Private, OneCall, AccountInv, Sync
  PROVE  PathInv' /\ PipelineInv' /\ RowsInv' /\ PendingInv'
<1>0. TypeOK /\ PathInv /\ PipelineInv /\ RowsInv /\ PendingInv
  BY DEF AccountInv, SyncInv
<1>9. /\ tip \in Nat /\ synced \in Nat /\ target \in Nat /\ synced <= tip /\ target <= tip
      /\ tip <= tip /\ 0 <= tip /\ 0 \in Nat
  <2>1. tip \in Nat /\ synced \in Nat /\ target \in Nat /\ synced <= tip /\ target <= tip
    BY <1>0, Heights, Zenon DEF PathInv
  <2> QED
    BY <2>1
<1>1. \A digest : ~ Refresh(digest)
  BY DEF Refresh
<1>2. CASE SyncStart
  <2>1. /\ target' = tip /\ \A t \in Tx : stage'[t] = "idle"
        /\ UNCHANGED <<nodeVars, synced, status, acct>>
    BY <1>2 DEF SyncStart
  <2>6. synced' <= tip /\ target' <= tip /\ synced' \in Nat /\ target' \in Nat
    BY <1>9, <2>1, Zenon DEF nodeVars
  <2>2. PathInv'
    BY <1>0, <2>1, <2>6, PathKept DEF nodeVars
  <2>3. PipelineInv'
    BY <2>1 DEF PipelineInv
  <2> QED
    BY <1>0, <2>1, <2>2, <2>3, StoreKept DEF nodeVars
<1>3. CASE SyncFail
  <2>1. /\ target # 0 /\ target' = 0 /\ stage' = stage
        /\ UNCHANGED <<nodeVars, synced, status, acct>>
    BY <1>3 DEF SyncFail
  <2>6. synced' <= tip /\ target' <= tip /\ synced' \in Nat /\ target' \in Nat
    BY <1>9, <2>1, Zenon DEF nodeVars
  <2>2. PathInv'
    BY <1>0, <2>1, <2>6, PathKept DEF nodeVars
  <2>3. PipelineInv'
    BY <1>0, <2>1 DEF PipelineInv
  <2> QED
    BY <1>0, <2>1, <2>2, <2>3, StoreKept DEF nodeVars
<1>4. ASSUME NEW committed \in Commits, NEW digest, NEW large,
             SyncApply(committed, digest, large)
      PROVE  PathInv' /\ PipelineInv' /\ RowsInv' /\ PendingInv'
  <2>1. /\ target # 0 /\ target' = 0 /\ synced' = target /\ stage' = stage
        /\ UNCHANGED nodeVars
    BY <1>4 DEF SyncApply
  <2>6. synced' <= tip /\ target' <= tip /\ synced' \in Nat /\ target' \in Nat
    BY <1>9, <2>1, Zenon DEF nodeVars
  <2>2. PathInv'
    BY <1>0, <2>1, <2>6, PathKept DEF nodeVars
  <2>3. PipelineInv'
    BY <1>0, <2>1, Zenon DEF PipelineInv
  <2>4. RowsInv'
    BY <1>4, SyncRowsInv
  <2>5. PendingInv'
    BY <1>4, SyncPendingInv
  <2> QED
    BY <2>2, <2>3, <2>4, <2>5
<1>5. ASSUME NEW committed, NEW digest,
             SyncStoreError(committed, digest) \/ SyncPanic(committed, digest)
      PROVE  FALSE
  BY <1>1, <1>5 DEF SyncStoreError, SyncPanic
<1> QED
  BY <1>2, <1>3, <1>4, <1>5 DEF Sync
------------------------------------------------------------------------------
LEMMA NextAccount ==
  ASSUME NonceGrows, OneHistory, Private, OneCall, AccountInv, [Next]_vars
  PROVE  AccountInv'
<1>1. SyncInv'
  BY NextInv DEF AccountInv
<1>2. CASE NodeNext(loose) /\ UNCHANGED clientVars
  BY <1>1, <1>2, NetworkKeeps DEF AccountInv
<1>3. ASSUME NEW t \in Tx, Pipeline(t) PROVE PathInv' /\ PipelineInv' /\ RowsInv' /\ PendingInv'
  BY <1>3, ExecuteAccount, SubmitAccount, LeavePipelineAccount, ApplyAccount DEF Pipeline
<1>4. CASE Sync
  BY <1>1, <1>4, SyncAccount DEF AccountInv
<1>5. CASE Restart
  BY <1>1, <1>5, RestartAccount DEF AccountInv
<1>6. CASE UNCHANGED vars
  <2>1. PathInv' /\ PipelineInv'
    BY <1>6, Zenon DEF vars, nodeVars, clientVars, PathInv, PipelineInv, UnspentAt, AccountInv
  <2>2. RowsInv' /\ PendingInv'
    BY <1>6, StoreKept DEF vars, nodeVars, clientVars, AccountInv
  <2> QED
    BY <1>1, <2>1, <2>2 DEF AccountInv
<1> QED
  BY <1>1, <1>2, <1>3, <1>4, <1>5, <1>6 DEF Next, AccountInv

LEMMA InitAccount == Init => AccountInv
<1> SUFFICES ASSUME Init PROVE AccountInv
  OBVIOUS
<1>1. SyncInv
  BY InitInv
<1>2. /\ tip = 0 /\ synced = 0 /\ target = 0 /\ mempool = {} /\ head = Genesis
      /\ \A x \in AllTx : included[x] = 0
      /\ \A t \in Tx : stage[t] = "idle" /\ status[t] = "None"
      /\ acct = NewStore(Genesis) /\ Genesis \in State /\ Nonce[Genesis] \in Nat
  BY NodeAssumption, StateAssumption, Zenon DEF Init, NodeInit
<1>3. acct.latest = Genesis /\ Archived(acct) = {} /\ Pending = {}
  BY <1>2, Zenon DEF NewStore, Archived, Pending
<1>7. 0 <= 0 /\ Nonce[Genesis] <= Nonce[Genesis]
  BY <1>2
<1>4. PathInv
  BY <1>2, <1>7, Zenon DEF PathInv
<1>5. PipelineInv
  BY <1>2 DEF PipelineInv
<1>6. RowsInv /\ PendingInv
  BY <1>2, <1>3, <1>7, Zenon DEF RowsInv, PendingInv
<1> QED
  BY <1>1, <1>4, <1>5, <1>6 DEF AccountInv

\* Whatever the network includes, drops or renames, whoever else uses the
\* account, and wherever requests fail or the process restarts: the states a
\* pending transaction of a private account leads from and to are in the
\* store, so undo_account_state can take it back.
THEOREM PendingUndoable ==
  ASSUME Private, OneCall, NonceGrows, OneHistory
  PROVE  Spec => []PendingCanBeUndone
<1>1. Init => AccountInv
  BY InitAccount
<1>2. AccountInv /\ [Next]_vars => AccountInv'
  BY NextAccount
<1>3. AccountInv => PendingCanBeUndone
  <2> SUFFICES ASSUME AccountInv, NEW t \in Pending
               PROVE  /\ InitState[t] \in Archived(acct)
                      /\ FinalState[t] \in Archived(acct) \union {acct.latest}
    BY DEF PendingCanBeUndone
  <2>1. TypeOK /\ RowsInv /\ PendingInv
    BY DEF AccountInv, SyncInv
  <2>2. FinalState[t] = acct.latest \/ \E v \in Pending : InitState[v] = FinalState[t]
    BY <2>1, Zenon DEF PendingInv
  <2> QED
    BY <2>1, <2>2, PendingRow, Zenon
<1> QED
  BY <1>1, <1>2, <1>3, PTL DEF Spec

\* What apply_transaction makes pending again has not left its state in a
\* synced block, what is committed has; and a sync looks only at what is
\* pending.
LEMMA CommittedStays ==
  ASSUME AccountInv, CommittedStateIsSpent, [Next]_vars,
         NEW t \in Tx, status[t] = "Committed"
  PROVE  status'[t] = "Committed"
<1>1. /\ TypeOK /\ status \in [Tx -> Status] /\ synced \in Nat
      /\ \A x \in AllTx : included[x] \in Nat
  BY Heights, IncludedType DEF AccountInv, SyncInv, TypeOK
<1>2. ASSUME NEW u \in Tx, Apply(u) PROVE status'[t] = "Committed"
  <2>1. stage[u] = "submitted" /\ status' = [status EXCEPT ![u] = "Pending"]
    BY <1>2 DEF Apply
  <2>2. UnspentAt(InitState[u])
    BY <2>1 DEF AccountInv, PipelineInv
  <2>3. u # t
    <3> SUFFICES ASSUME u = t PROVE FALSE
      OBVIOUS
    <3>1. PICK x \in AllTx : InitState[x] = InitState[t] /\ included[x] \in 1 .. synced
      BY Zenon DEF CommittedStateIsSpent
    <3>2. included[x] = 0 \/ synced < included[x]
      BY <2>2, <3>1, Zenon DEF UnspentAt
    <3> QED
      BY <1>1, <3>1, <3>2
  <2> QED
    BY <1>1, <2>1, <2>3, Zenon
<1>3. ASSUME NEW u \in Tx, Pipeline(u), ~ Apply(u) PROVE status' = status
  BY <1>3, Zenon DEF Pipeline, Execute, Abandon, Submit, Refused, ApplyFails
<1>4. ASSUME NEW committed, NEW digest, NEW large, SyncApply(committed, digest, large)
      PROVE  status'[t] = "Committed"
  <2>1. t \notin Discards(committed)
    BY DiscardsSubset DEF Pending
  <2>2. status'[t] = CASE t \in committed           -> "Committed"
                       [] t \in Discards(committed) -> "Discarded"
                       [] OTHER                     -> status[t]
    BY <1>4, Zenon DEF SyncApply
  <2> QED
    BY <2>1, <2>2
<1>5. CASE Sync
  <2>1. \/ \E committed, digest, large : SyncApply(committed, digest, large)
        \/ status' = status
    BY <1>5, Zenon DEF Sync, SyncStart, SyncFail, SyncStoreError, SyncPanic
  <2> QED
    BY <1>4, <2>1, Zenon
<1>6. CASE NodeNext(loose) /\ UNCHANGED clientVars
  BY <1>6 DEF clientVars
<1>7. CASE Restart
  BY <1>7 DEF Restart
<1>8. CASE UNCHANGED vars
  BY <1>8 DEF vars, clientVars
<1> QED
  BY <1>2, <1>3, <1>5, <1>6, <1>7, <1>8, Zenon DEF Next

\* A transaction of a private account that the client has recorded as
\* committed is never reopened or discarded, although the same transaction
\* may be executed, submitted and applied again after it was dropped.
THEOREM CommittedFinal ==
  ASSUME Private, OneCall, NonceGrows, OneHistory
  PROVE  Spec => CommittedIsFinal
<1>1. Init => AccountInv
  BY InitAccount
<1>2. AccountInv /\ [Next]_vars => AccountInv'
  BY NextAccount
<1>3. AccountInv /\ CommittedStateIsSpent /\ [Next]_vars =>
        [\A t \in Tx : status[t] = "Committed" => status'[t] = "Committed"]_vars
  BY CommittedStays
<1> QED
  BY <1>1, <1>2, <1>3, CommittedSound, PTL DEF Spec, CommittedIsFinal
==============================================================================
