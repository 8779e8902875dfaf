-------------------------- MODULE ClientSettledProofs --------------------------
(***************************************************************************)
(* The account store of a private account when nothing is pending: it holds *)
(* the state the account has at the last synced block. The network's        *)
(* transactions are ordered by nonce and block alike, and what is pending   *)
(* starts where the last synced block ended.                                *)
(***************************************************************************)
EXTENDS ClientAccountProofs

\* In a block order with one transaction of the account for each block.
Before(x, y) == Nonce[FinalState[x]] <= Nonce[InitState[y]] /\ included[x] < included[y]

OrderInv ==
  /\ \A x \in AllTx : included[x] # 0 => Nonce[Genesis] <= Nonce[InitState[x]]
  /\ \A x \in AllTx : included[x] # 0 =>
       FinalState[x] = head \/ \E y \in AllTx : included[y] # 0 /\ InitState[y] = FinalState[x]
  /\ \A x, y \in AllTx :
       included[x] # 0 /\ included[y] # 0 => x = y \/ Before(x, y) \/ Before(y, x)

\* The account is in state s at block b.
AtBlock(s, b) ==
  /\ \/ s = Genesis /\ \A x \in AllTx : included[x] \notin 1 .. b
     \/ \E x \in AllTx : included[x] \in 1 .. b /\ FinalState[x] = s
  /\ \A y \in AllTx : included[y] \in 1 .. b => InitState[y] # s

\* Rows are locked all together or not at all.
LocksInv == IF acct.locked THEN Archived(acct) \subseteq acct.frozen ELSE acct.frozen = {}

Lowest(t) == t \in Pending /\ \A u \in Pending : Nonce[InitState[t]] <= Nonce[InitState[u]]

\* Unless the account is locked, what is pending starts from the state the
\* account had at the last synced block.
AnchorInv ==
  ~ acct.locked =>
    /\ Pending = {} => AtBlock(acct.latest, synced)
    /\ \A t \in Pending : Lowest(t) => AtBlock(InitState[t], synced)

SettledInv == AccountInv /\ OrderInv /\ LocksInv /\ AnchorInv

LEMMA AtBlockUnique ==
  ASSUME NonceGrows, TypeOK, PathInv, OrderInv, NEW b \in Nat,
         NEW s, AtBlock(s, b)
  PROVE  s = ChainState(b)
<1> DEFINE done == {x \in AllTx : included[x] \in 1 .. b}
           last == {x \in done : \A y \in done : InitState[y] # FinalState[x]}
<1>0. ChainState(b) = IF done = {} THEN Genesis ELSE FinalState[CHOOSE x \in last : TRUE]
  BY DEF ChainState
<1>1. CASE done = {}
  BY <1>0, <1>1 DEF AtBlock
<1>2. CASE done # {}
  <2>1. PICK x \in AllTx : included[x] \in 1 .. b /\ FinalState[x] = s
    BY <1>2 DEF AtBlock
  <2>2. x \in last
    BY <2>1 DEF AtBlock
  <2>3. ASSUME NEW y \in last, NEW z \in last PROVE ~ Before(y, z)
    <3> SUFFICES ASSUME Before(y, z) PROVE FALSE
      BY Zenon
    <3>1. /\ y \in AllTx /\ z \in AllTx /\ included[y] # 0 /\ included[z] # 0
          /\ included[z] <= b /\ included[z] \in Nat
          /\ \A u \in AllTx : included[u] \in 1 .. b => InitState[u] # FinalState[y]
      BY IncludedType
    <3>2. /\ Nonce[FinalState[y]] <= Nonce[InitState[z]]
          /\ Nonce[InitState[z]] < Nonce[FinalState[z]]
          /\ Nonce[FinalState[z]] <= Nonce[head]
      BY <3>1, Zenon DEF Before, NonceGrows, PathInv
    <3>3. FinalState[y] # head
      BY <3>1, <3>2, TxTypes
    <3>4. PICK u \in AllTx : included[u] # 0 /\ InitState[u] = FinalState[y]
      BY <3>1, <3>3, Zenon DEF OrderInv
    <3>5. u # z
      BY <3>1, <3>4, Zenon
    <3>6. Before(u, z) \/ Before(z, u)
      BY <3>1, <3>4, <3>5, Zenon DEF OrderInv
    <3>7. ~ Before(z, u)
      BY <3>1, <3>2, <3>4, TxTypes DEF Before
    <3>8. included[u] \in 1 .. b
      BY <3>1, <3>4, <3>6, <3>7, IncludedType DEF Before
    <3> QED
      BY <3>1, <3>4, <3>8, Zenon
  <2>4. \A y \in last : y = x
    <3> SUFFICES ASSUME NEW y \in last, y # x PROVE FALSE
      BY Zenon
    <3>1. included[y] # 0 /\ included[x] # 0 /\ y \in AllTx
      BY <2>1, IncludedType
    <3>2. Before(x, y) \/ Before(y, x)
      BY <3>1, Zenon DEF OrderInv
    <3> QED
      BY <2>2, <2>3, <3>2, Zenon
  <2>5. (CHOOSE y \in last : TRUE) = x
    BY <2>2, <2>4, Zenon
  <2> QED
    BY <1>0, <1>2, <2>1, <2>5, Zenon
<1> QED
  BY <1>1, <1>2

\* Steps of the network leave what is synced alone.
LEMMA NetworkOrder ==
  ASSUME NonceGrows, Spread, SettledInv, NodeNext(loose), UNCHANGED clientVars
  PROVE  OrderInv' /\ LocksInv' /\ AnchorInv'
<1>0. /\ SyncInv /\ TypeOK /\ PathInv /\ OrderInv /\ tip \in Nat /\ synced \in Nat
      /\ included \in [AllTx -> Block] /\ UNCHANGED <<synced, acct, status>>
      /\ \A x \in AllTx : included[x] \in Nat
  BY Heights, IncludedType, StoreTypes, Zenon DEF SettledInv, AccountInv, SyncInv, clientVars, TypeOK, NodeTypeOK
<1>1. ASSUME NEW t \in AllTx, NEW gone, AddToBlock(t, gone) PROVE OrderInv'
  <2>0. /\ included[t] = 0 /\ InitState[t] = head /\ head' = FinalState[t]
        /\ included' = [included EXCEPT ![t] = tip + 1]
        /\ \A x \in AllTx : included[x] # tip + 1
    BY <1>1, Zenon DEF AddToBlock
  <2>1. included'[t] = tip + 1 /\ \A x \in AllTx : x # t => included'[x] = included[x]
    BY <1>0, <2>0, Zenon
  <2>2. ASSUME NEW x \in AllTx, included'[x] # 0
        PROVE  FinalState[x] = head'
               \/ \E y \in AllTx : included'[y] # 0 /\ InitState[y] = FinalState[x]
    <3>1. CASE x = t
      BY <2>0, <3>1, Zenon
    <3>2. CASE x # t /\ FinalState[x] = head
      BY <1>0, <2>0, <2>1, <3>2, Zenon
    <3>3. CASE x # t /\ FinalState[x] # head
      <4>1. PICK y \in AllTx : included[y] # 0 /\ InitState[y] = FinalState[x]
        BY <1>0, <2>1, <2>2, <3>3, Zenon DEF OrderInv
      <4> QED
        BY <2>0, <2>1, <4>1, Zenon
    <3> QED
      BY <3>1, <3>2, <3>3, Zenon
  <2>3. ASSUME NEW x \in AllTx, x # t, included[x] # 0 PROVE Before(x, t)'
    <3>1. Nonce[FinalState[x]] <= Nonce[InitState[t]] /\ included[x] <= tip + 1
      BY <1>0, <2>0, <2>3, Zenon DEF PathInv
    <3>2. included'[x] < included'[t]
      BY <1>0, <2>0, <2>1, <2>3, <3>1
    <3> QED
      BY <3>1, <3>2 DEF Before
  <2>4. ASSUME NEW x \in AllTx, NEW y \in AllTx, included'[x] # 0, included'[y] # 0
        PROVE  x = y \/ Before(x, y)' \/ Before(y, x)'
    <3>1. CASE x = t \/ y = t
      BY <2>1, <2>3, <2>4, <3>1
    <3>2. CASE x # t /\ y # t
      BY <1>0, <2>1, <2>4, <3>2, Zenon DEF OrderInv, Before
    <3> QED
      BY <3>1, <3>2
  <2>5. \A x \in AllTx : included'[x] # 0 => Nonce[Genesis] <= Nonce[InitState[x]]
    BY <1>0, <2>0, <2>1, Zenon DEF OrderInv, PathInv
  <2> QED
    BY <2>2, <2>4, <2>5, Zenon DEF OrderInv
<1>2. ASSUME included' = included, head' = head PROVE OrderInv'
  BY <1>0, <1>2, Zenon DEF OrderInv, Before
<1>3. OrderInv'
  <2>1. ASSUME NEW t \in Tx, Include(t, t \in loose) PROVE OrderInv'
    BY <1>1, <2>1, Zenon DEF Include, AllTx
  <2>2. ASSUME NEW t \in OtherTx, IncludeOther(t) PROVE OrderInv'
    BY <1>1, <2>2 DEF IncludeOther, AllTx
  <2>3. ASSUME NEW t \in Tx, Drop(t) PROVE OrderInv'
    BY <1>2, <2>3 DEF Drop
  <2>4. ASSUME NEW n, CreateOutside(n) \/ ConsumeOutside(n) PROVE OrderInv'
    BY <1>2, <2>4 DEF CreateOutside, ConsumeOutside
  <2>5. CASE SealBlock
    BY <1>2, <2>5 DEF SealBlock
  <2> QED
    BY <2>1, <2>2, <2>3, <2>4, <2>5 DEF NodeNext
<1>4. \A x \in AllTx : included'[x] \in 1 .. synced <=> included[x] \in 1 .. synced
  <2>1. \A x \in AllTx : included[x] # 0 => included'[x] = included[x]
    BY <1>0, NodeNextStep, Zenon DEF NodeStep
  <2>2. \A x \in AllTx : included'[x] = included[x] \/ synced < included'[x]
    BY <1>0, NetworkStep
  <2>3. \A x \in AllTx : included'[x] \in Nat
    BY <1>0, NodeNextStep, NodeAssumption DEF NodeStep, NodeTypeOK, Block
  <2> QED
    BY <1>0, <2>1, <2>2, <2>3
<1>5. \A s : AtBlock(s, synced) => AtBlock(s, synced)'
  BY <1>0, <1>4, Zenon DEF AtBlock
<1>6. Pending' = Pending /\ acct' = acct
  BY <1>0 DEF Pending
<1>7. AnchorInv'
  BY <1>5, <1>6, Zenon DEF SettledInv, AnchorInv, Lowest
<1>8. LocksInv'
  BY <1>6 DEF SettledInv, LocksInv
<1> QED
  BY <1>3, <1>7, <1>8

\* A step that leaves chain, rows and records alone.
LEMMA SettledKept ==
  ASSUME OrderInv, LocksInv, AnchorInv, UNCHANGED <<included, head, synced, status>>,
         SameRows(acct', acct)
  PROVE  OrderInv' /\ LocksInv' /\ AnchorInv'
<1>0. /\ acct'.latest = acct.latest /\ acct'.locked = acct.locked
      /\ acct'.history = acct.history /\ acct'.frozen = acct.frozen
  BY DEF SameRows
<1>1. OrderInv'
  BY Zenon DEF OrderInv, Before
<1>2. LocksInv'
  BY <1>0, Zenon DEF LocksInv, Archived
<1>3. Pending' = Pending
  BY DEF Pending
<1>4. \A s : AtBlock(s, synced) => AtBlock(s, synced)'
  BY Zenon DEF AtBlock
<1>5. AnchorInv'
  BY <1>0, <1>3, <1>4, Zenon DEF AnchorInv, Lowest
<1> QED
  BY <1>1, <1>2, <1>5

\* A transaction is applied on top of what is pending.
LEMMA ApplySettled ==
  ASSUME NonceGrows, SettledInv, NEW t \in Tx, Apply(t)
  PROVE  OrderInv' /\ LocksInv' /\ AnchorInv'
<1>0. /\ TypeOK /\ PipelineInv /\ RowsInv /\ PendingInv /\ OrderInv /\ LocksInv /\ AnchorInv
      /\ t \in AllTx /\ stage[t] = "submitted" /\ ~ acct.locked
      /\ status \in [Tx -> Status] /\ status' = [status EXCEPT ![t] = "Pending"]
      /\ acct' = ApplyDelta(acct, InitState[t], FinalState[t])
      /\ UNCHANGED <<nodeVars, synced>>
  BY DEF SettledInv, AccountInv, SyncInv, Apply, AllTx, TypeOK, MustFail
<1>1. acct.latest = InitState[t]
  BY <1>0, Zenon DEF PipelineInv
<1>2. ~ acct'.locked /\ acct'.frozen = acct.frozen \ {InitState[t]}
  <2>1. acct \in Store /\ InitState[t] \in State /\ FinalState[t] \in State
    BY <1>0, TxTypes, Zenon DEF TypeOK
  <2> QED
    BY <1>0, <2>1, ApplyDeltaLocks, Zenon
<1>3. LocksInv'
  BY <1>0, <1>2, Zenon DEF LocksInv
<1>4. OrderInv'
  BY <1>0, Zenon DEF OrderInv, Before, nodeVars
<1>5. \A s : AtBlock(s, synced) => AtBlock(s, synced)'
  BY <1>0, Zenon DEF AtBlock, nodeVars
<1>6. Pending' = Pending \union {t}
  BY <1>0, Zenon DEF Pending
<1>7. ASSUME NEW u \in Pending', Lowest(u)' PROVE AtBlock(InitState[u], synced)'
  <2>1. CASE Pending = {}
    <3>1. u = t
      BY <1>6, <2>1
    <3> QED
      BY <1>0, <1>1, <1>5, <2>1, <3>1, Zenon DEF AnchorInv
  <2>2. CASE Pending # {}
    <3>1. PICK v \in Pending : TRUE
      BY <2>2
    <3>2. /\ Nonce[InitState[v]] < Nonce[FinalState[v]]
          /\ Nonce[FinalState[v]] <= Nonce[InitState[t]] /\ v \in AllTx
      BY <1>0, <1>1, PendingRow, Zenon
    <3>3. Nonce[InitState[u]] <= Nonce[InitState[v]]
      BY <1>6, <1>7 DEF Lowest
    <3>4. u # t
      <4> SUFFICES ASSUME u = t PROVE FALSE
        OBVIOUS
      <4>1. /\ Nonce[InitState[v]] \in Nat /\ Nonce[FinalState[v]] \in Nat
            /\ Nonce[InitState[t]] \in Nat
        BY <1>0, <3>2, TxTypes, Zenon
      <4>2. Nonce[InitState[t]] <= Nonce[InitState[v]]
        BY <3>3, Zenon
      <4> QED
        BY <3>2, <4>1, <4>2, NatCycle, Zenon
    <3>5. Lowest(u)
      BY <1>6, <1>7, <3>4 DEF Lowest
    <3> QED
      BY <1>0, <1>5, <3>5, Zenon DEF AnchorInv, Lowest
  <2> QED
    BY <2>1, <2>2
<1>8. AnchorInv'
  BY <1>6, <1>7, Zenon DEF AnchorInv
<1> QED
  BY <1>3, <1>4, <1>8

\* The end of the chain of what is pending below a state, and its top.
LEMMA Predecessor ==
  ASSUME NonceGrows, TypeOK, RowsInv, PendingInv, NEW t \in Pending, NEW v \in Pending,
         Nonce[FinalState[t]] <= Nonce[InitState[v]]
  PROVE  \E p \in Pending : FinalState[p] = InitState[v]
<1> SUFFICES ASSUME ~ \E p \in Pending : FinalState[p] = InitState[v] PROVE FALSE
  OBVIOUS
<1> DEFINE U == Pending \ {v}
<1>1. \A w \in U, u \in Pending : InitState[u] = FinalState[w] => u \in U
  OBVIOUS
<1>2. t # v
  <2>1. t \in AllTx /\ Nonce[InitState[t]] < Nonce[FinalState[t]]
    BY PendingRow, Zenon
  <2> QED
    BY <2>1, TxTypes
<1>3. t \in U /\ U \in SUBSET Pending
  BY <1>2
<1> HIDE DEF U
<1>4. v \in U
  BY <1>1, <1>3, UpperEnd, Zenon
<1> QED
  BY <1>4 DEF U

LEMMA TopPending ==
  ASSUME NonceGrows, TypeOK, RowsInv, PendingInv, Pending # {}
  PROVE  \E p \in Pending : FinalState[p] = acct.latest
<1> DEFINE nonces == {Nonce[FinalState[u]] : u \in Pending}
<1>0. \A u \in Pending : /\ u \in AllTx /\ Nonce[FinalState[u]] \in Nat
                         /\ Nonce[FinalState[u]] <= Nonce[acct.latest]
                         /\ Nonce[InitState[u]] < Nonce[FinalState[u]]
                         /\ Nonce[acct.latest] \in Nat
  BY PendingRow, TxTypes, Zenon
<1>1. PICK w \in Pending : TRUE
  OBVIOUS
<1>2. nonces \subseteq Nat /\ Nonce[acct.latest] \in Nat
  BY <1>0, <1>1
<1>3. nonces # {}
  BY <1>1
<1>4. \A n \in nonces : n <= Nonce[acct.latest]
  BY <1>0, Zenon
<1>5. PICK n \in nonces : \A m \in nonces : m <= n
  BY <1>2, <1>3, <1>4, NatMaximum, Zenon
<1>6. PICK p \in Pending : n = Nonce[FinalState[p]]
  BY Zenon
<1>7. ASSUME NEW v \in Pending, InitState[v] = FinalState[p] PROVE FALSE
  <2>1. Nonce[FinalState[v]] \in nonces
    OBVIOUS
  <2>2. Nonce[FinalState[v]] <= Nonce[InitState[v]]
    BY <1>5, <1>6, <1>7, <2>1, Zenon
  <2> QED
    BY <1>0, <2>2, TxTypes
<1> QED
  BY <1>7, Zenon DEF PendingInv

LEMMA LowestExists ==
  ASSUME TypeOK, Pending # {} PROVE \E t \in Pending : Lowest(t)
<1> DEFINE nonces == {Nonce[InitState[u]] : u \in Pending}
<1>1. nonces \subseteq Nat
  BY TxTypes DEF Pending, AllTx
<1>2. nonces # {}
  <2>1. PICK w \in Pending : TRUE
    OBVIOUS
  <2> QED
    BY <2>1
<1>3. PICK n \in nonces : \A m \in nonces : n <= m
  BY <1>1, <1>2, NatMinimum, Zenon
<1>4. PICK t \in Pending : n = Nonce[InitState[t]]
  OBVIOUS
<1> QED
  BY <1>3, <1>4 DEF Lowest

\* The digest of a sync with records is the account's state at its target.
LEMMA DigestAtTarget ==
  ASSUME NonceGrows, TypeOK, OrderInv, Records # {}, NEW digest \in Digests
  PROVE  /\ AtBlock(digest, target)
         /\ \E x \in Records : FinalState[x] = digest
<1>1. PICK x \in Records : digest = FinalState[x] /\ \A z \in Records : included[z] <= included[x]
  BY DEF Digests
<1>2. /\ x \in AllTx /\ included[x] # 0 /\ included[x] \in 1 .. target /\ synced < included[x]
      /\ acct.latest # NoState
  BY Heights, IncludedType, StoreTypes DEF Records, Seen
<1>3. ASSUME NEW y \in AllTx, included[y] \in 1 .. target, InitState[y] = digest PROVE FALSE
  <2>1. included[y] # 0 /\ included[y] <= target
    BY <1>3, Heights, IncludedType
  <2>2. x # y /\ ~ Before(y, x)
    BY <1>1, <1>2, <1>3, TxTypes DEF NonceGrows, Before
  <2>3. Before(x, y)
    BY <1>2, <1>3, <2>1, <2>2, Zenon DEF OrderInv
  <2>4. included[x] < included[y] /\ synced < included[y]
    BY <1>2, <1>3, <2>3, Heights, IncludedType DEF Before
  <2>5. y \in Records
    BY <1>2, <2>1, <2>4 DEF Records, Seen
  <2> QED
    BY <1>1, <1>2, <2>4, <2>5, Heights, IncludedType, StoreTypes
<1> QED
  BY <1>1, <1>2, <1>3 DEF AtBlock

\* What is newer than block b starts from the state at b or a later one.
LEMMA NewerIsAbove ==
  ASSUME NonceGrows, TypeOK, PathInv, OrderInv, NEW b \in Nat, NEW s, AtBlock(s, b),
         NEW x \in AllTx, b < included[x]
  PROVE  Nonce[s] < Nonce[FinalState[x]]
<1>0. included[x] # 0 /\ Nonce[InitState[x]] < Nonce[FinalState[x]]
  BY IncludedType DEF NonceGrows
<1>1. CASE s = Genesis
  BY <1>0, <1>1, TxTypes, Heights DEF OrderInv
<1>2. CASE s # Genesis
  <2>1. PICK y \in AllTx : included[y] \in 1 .. b /\ FinalState[y] = s
    BY <1>2 DEF AtBlock
  <2>2. x # y /\ included[y] # 0 /\ ~ Before(x, y)
    BY <2>1, IncludedType DEF Before
  <2>3. Before(y, x)
    BY <1>0, <2>1, <2>2, Zenon DEF OrderInv
  <2> QED
    BY <1>0, <2>1, <2>3, TxTypes DEF Before
<1> QED
  BY <1>1, <1>2

\* The lowest of what is discarded is the lowest of what is pending, when
\* nothing is kept, and what is kept is below it otherwise.
LEMMA KeptLowest ==
  ASSUME NonceGrows, OneHistory, AccountInv, target # 0, NEW committed \in Commits,
         committed = {}, NEW t \in Pending \ Discards(committed),
         \A u \in Pending \ Discards(committed) : Nonce[InitState[t]] <= Nonce[InitState[u]]
  PROVE  Lowest(t)
<1>0. TypeOK /\ RowsInv /\ PendingInv
  BY DEF AccountInv, SyncInv
<1>1. ASSUME NEW d \in Discards(committed) PROVE Nonce[InitState[t]] <= Nonce[InitState[d]]
  <2>1. Nonce[FinalState[t]] <= Nonce[InitState[d]]
    BY KeptIsBelow, Zenon
  <2>2. d \in AllTx /\ t \in AllTx
    BY DiscardsSubset DEF Pending, AllTx
  <2>3. Nonce[InitState[t]] < Nonce[FinalState[t]]
    BY <2>2 DEF NonceGrows
  <2> QED
    BY <2>1, <2>2, <2>3, TxTypes
<1> QED
  BY <1>1, Zenon DEF Lowest

LEMMA DiscardedLowest ==
  ASSUME NonceGrows, AccountInv, NEW committed, NEW t \in Discards(committed),
         Pending \subseteq Discards(committed),
         \A n \in Nonces(Discards(committed)) : Nonce[FinalState[t]] <= n
  PROVE  Lowest(t)
<1>0. TypeOK /\ RowsInv /\ PendingInv /\ t \in Pending
  BY DiscardsSubset DEF AccountInv, SyncInv
<1>1. ASSUME NEW u \in Pending PROVE Nonce[InitState[t]] <= Nonce[InitState[u]]
  <2>1. Nonce[FinalState[t]] <= Nonce[FinalState[u]]
    BY DEF Nonces
  <2>2. t \in AllTx /\ u \in AllTx
    BY <1>0 DEF Pending, AllTx
  <2>3. Nonce[InitState[t]] < Nonce[FinalState[t]] /\ Nonce[InitState[u]] < Nonce[FinalState[u]]
    BY <2>2, Zenon DEF NonceGrows
  <2>4. \/ t = u \/ Nonce[FinalState[t]] <= Nonce[InitState[u]]
        \/ Nonce[FinalState[u]] <= Nonce[InitState[t]]
    BY <1>0, PendingOrder
  <2> QED
    BY <2>1, <2>2, <2>3, <2>4, TxTypes
<1> QED
  BY <1>0, <1>1 DEF Lowest

\* A sync without records of the account leaves the anchor where it is.
LEMMA QuietSync ==
  ASSUME NonceGrows, OneHistory, Private, SettledInv, ~ acct.locked,
         NEW committed \in Commits, NEW digest \in Digests, NEW large,
         SyncApply(committed, digest, large), Records = {}
  PROVE  /\ Pending' = {} => AtBlock(acct.latest, synced)'
         /\ \A t \in Pending' : Lowest(t)' => AtBlock(InitState[t], synced)'
<1> DEFINE D == Discards(committed)
           a == Resolved(committed)
<1>0. /\ AccountInv /\ TypeOK /\ RowsInv /\ PendingInv /\ OrderInv /\ AnchorInv
      /\ target # 0 /\ included' = included /\ synced' = target /\ synced <= target
      /\ acct.latest # NoState
  BY StateAssumption DEF SettledInv, AccountInv, SyncInv, SyncApply, nodeVars, ChainInv, RowsInv
<1>1. committed = {}
  <2> SUFFICES ASSUME NEW t \in committed PROVE FALSE
    OBVIOUS
  <2> QED
    BY <1>0, CommitsFacts
<1>2. Pending' = Pending \ D
  BY <1>0, <1>1, SyncPending, Zenon
<1>3. \A x \in AllTx : included[x] \in 1 .. target <=> included[x] \in 1 .. synced
  BY <1>0, Heights, IncludedType DEF Records, Seen
<1>4. \A s : AtBlock(s, synced) => AtBlock(s, synced)'
  <2>1. \A s : AtBlock(s, synced) => AtBlock(s, target)
    BY <1>3 DEF AtBlock
  <2>2. \A s : AtBlock(s, target) => AtBlock(s, synced)'
    BY <1>0 DEF AtBlock
  <2> QED
    BY <2>1, <2>2
<1>5. ASSUME NEW t \in Pending', Lowest(t)' PROVE AtBlock(InitState[t], synced)'
  <2>1. \A u \in Pending \ D : Nonce[InitState[t]] <= Nonce[InitState[u]]
    BY <1>2, <1>5, Zenon DEF Lowest
  <2>2. Lowest(t)
    BY <1>0, <1>1, <1>2, <2>1, KeptLowest, Zenon
  <2> QED
    BY <1>0, <1>4, <2>2, Zenon DEF AnchorInv, Lowest
<1>6. ASSUME Pending' = {} PROVE AtBlock(acct.latest, synced)'
  <2>0. acct'.latest = a.latest
    BY <1>0, PrivateRows, Zenon
  <2>1. CASE D = {}
    <3>1. acct'.latest = acct.latest /\ Pending = {}
      BY <1>0, <1>2, <1>6, <2>0, <2>1, ResolvedRows, Zenon DEF SameRows
    <3>2. AtBlock(acct.latest, synced)
      BY <1>0, <3>1, Zenon DEF AnchorInv
    <3>3. \A x \in AllTx : included'[x] \in 1 .. synced' <=> included[x] \in 1 .. synced
      BY <1>0, <1>3
    <3> QED
      BY <3>1, <3>2, <3>3, Zenon DEF AtBlock
  <2>2. CASE D # {}
    <3>1. PICK t \in D : /\ \A n \in Nonces(D) : Nonce[FinalState[t]] <= n
                         /\ UndoneTo(a, acct, InitState[t], Nonces(D))
      BY <1>0, <2>2, DiscardedRows, Zenon
    <3>2. acct'.latest = InitState[t]
      BY <2>0, <3>1, Zenon DEF UndoneTo
    <3>3. Lowest(t)
      BY <1>0, <1>2, <1>6, <3>1, DiscardedLowest, Zenon
    <3>4. AtBlock(InitState[t], synced)'
      BY <1>0, <1>4, <3>3, Zenon DEF AnchorInv, Lowest
    <3> QED
      BY <3>2, <3>4, Zenon DEF AtBlock
  <2> QED
    BY <2>1, <2>2
<1> QED
  BY <1>5, <1>6, Zenon

\* The chain reached the latest header: everything pending is committed.
LEMMA ReachedLatest ==
  ASSUME NonceGrows, OneHistory, AccountInv, target # 0, NEW committed \in Commits,
         NEW x \in Records, FinalState[x] = acct.latest
  PROVE  Pending \subseteq committed
<1>0. /\ TypeOK /\ RowsInv /\ PendingInv /\ x \in AllTx
      /\ included[x] \in 1 .. target
  BY Heights, IncludedType DEF AccountInv, SyncInv, Records, Seen
<1> SUFFICES ASSUME NEW u \in Pending, u \notin committed PROVE FALSE
  BY Zenon
<1>1. PICK p \in Pending : FinalState[p] = acct.latest
  BY <1>0, TopPending
<1>2. InitState[x] = InitState[p]
  BY <1>0, <1>1 DEF OneHistory, Pending, AllTx
<1>3. p \in committed
  BY <1>0, <1>2, MustCommit, Zenon
<1>4. ~ (Nonce[FinalState[u]] <= Nonce[InitState[p]])
  BY <1>3, KeptIsUpper
<1>5. Nonce[FinalState[p]] <= Nonce[InitState[u]]
  BY <1>0, <1>3, <1>4, PendingOrder, Zenon
<1>6. /\ Nonce[InitState[u]] < Nonce[FinalState[u]] /\ u \in AllTx
      /\ Nonce[FinalState[u]] <= Nonce[acct.latest] /\ Nonce[acct.latest] \in Nat
  BY <1>0, PendingRow, Zenon
<1> QED
  BY <1>1, <1>5, <1>6, TxTypes

\* The chain reached an archived state: it is where a pending transaction
\* starts from, which becomes the lowest one.
LEMMA ReachedRow ==
  ASSUME NonceGrows, OneHistory, SettledInv, ~ acct.locked, target # 0,
         NEW committed \in Commits, NEW x \in Records,
         FinalState[x] \in Archived(acct), AtBlock(FinalState[x], target)
  PROVE  \E v \in Pending \ committed :
           /\ InitState[v] = FinalState[x]
           /\ \A u \in Pending \ committed : u = v \/ Nonce[InitState[v]] < Nonce[InitState[u]]
<1> DEFINE s == FinalState[x]
<1>0. /\ AccountInv /\ TypeOK /\ PathInv /\ RowsInv /\ PendingInv /\ OrderInv /\ AnchorInv
      /\ x \in AllTx /\ included[x] \in 1 .. target /\ synced < included[x] /\ synced \in Nat
  BY Heights, IncludedType DEF SettledInv, AccountInv, SyncInv, Records, Seen
<1>1. /\ s \in State /\ Nonce[s] \in Nat /\ acct.history[s] \in Nat
      /\ Nonce[s] < acct.history[s] /\ acct.history[s] <= Nonce[acct.latest]
      /\ Nonce[acct.latest] \in Nat
  BY <1>0, TxTypes, StoreTypes, StateAssumption, Zenon DEF RowsInv
<1>2. ASSUME NEW r, AtBlock(r, synced) PROVE Nonce[r] < Nonce[s]
  BY <1>0, <1>2, NewerIsAbove, Zenon
<1>3. Pending # {}
  <2> SUFFICES ASSUME Pending = {} PROVE FALSE
    OBVIOUS
  <2>1. AtBlock(acct.latest, synced)
    BY <1>0, Zenon DEF AnchorInv
  <2>2. Nonce[acct.latest] < Nonce[s]
    BY <1>0, <2>1, NewerIsAbove, Zenon
  <2> QED
    BY <1>1, <2>2
<1>4. PICK t \in Pending : Lowest(t)
  BY <1>0, <1>3, LowestExists
<1>5. /\ Nonce[InitState[t]] < Nonce[s] /\ t \in AllTx
      /\ InitState[t] \in Archived(acct)
      /\ acct.history[InitState[t]] = Nonce[FinalState[t]]
  BY <1>0, <1>2, <1>4, PendingRow, Zenon DEF AnchorInv
<1>6. Nonce[FinalState[t]] <= Nonce[s]
  <2>1. s # InitState[t]
    BY <1>1, <1>5
  <2>2. acct.history[s] <= Nonce[InitState[t]] \/ Nonce[FinalState[t]] <= Nonce[s]
    BY <1>0, <1>5, <2>1, Zenon DEF RowsInv
  <2> QED
    BY <1>1, <1>5, <2>2, TxTypes
<1>7. PICK v \in Pending : InitState[v] = s
  <2>1. Nonce[FinalState[t]] <= acct.history[s]
    BY <1>1, <1>5, <1>6, TxTypes
  <2> QED
    BY <1>0, <2>1, Zenon DEF PendingInv
<1>8. v \notin committed
  <2> SUFFICES ASSUME v \in committed PROVE FALSE
    OBVIOUS
  <2>1. PICK y \in Records : InitState[y] = InitState[v]
    BY <1>0, CommitsFacts, Zenon
  <2>2. y \in AllTx /\ included[y] \in 1 .. target
    BY <1>0, Heights, IncludedType DEF Records, Seen
  <2> QED
    BY <1>7, <2>1, <2>2, Zenon DEF AtBlock
<1>9. PICK p \in Pending : FinalState[p] = InitState[v]
  BY <1>0, <1>6, <1>7, Predecessor, Zenon
<1>10. p \in committed
  <2>1. InitState[x] = InitState[p]
    BY <1>0, <1>7, <1>9, Zenon DEF OneHistory, Pending, AllTx
  <2> QED
    BY <1>0, <2>1, MustCommit, Zenon
<1>11. ASSUME NEW u \in Pending \ committed, u # v
       PROVE  Nonce[InitState[v]] < Nonce[InitState[u]]
  <2>1. /\ Nonce[InitState[u]] < Nonce[FinalState[u]] /\ u \in AllTx
        /\ Nonce[InitState[v]] < Nonce[FinalState[v]] /\ v \in AllTx /\ p \in AllTx
    BY <1>0, PendingRow, Zenon
  <2>2. ~ (Nonce[FinalState[u]] <= Nonce[InitState[p]])
    BY <1>0, <1>10, KeptIsUpper, Zenon
  <2>3. Nonce[FinalState[p]] <= Nonce[InitState[u]]
    BY <1>0, <1>10, <2>2, PendingOrder, Zenon
  <2>4. ~ (Nonce[FinalState[u]] <= Nonce[InitState[v]])
    BY <1>9, <2>1, <2>3, TxTypes
  <2>5. Nonce[FinalState[v]] <= Nonce[InitState[u]]
    BY <1>0, <1>11, <2>4, PendingOrder, Zenon
  <2> QED
    BY <2>1, <2>5, TxTypes
<1> QED
  BY <1>7, <1>8, <1>11, Zenon

\* Undoing keeps rows locked together.
LEMMA ResolvedLocks ==
  ASSUME NonceGrows, AccountInv, LocksInv, NEW committed
  PROVE  /\ Resolved(committed).locked <=> acct.locked
         /\ Resolved(committed).latest \in State
         /\ IF acct.locked THEN Archived(Resolved(committed)) \subseteq Resolved(committed).frozen
            ELSE Resolved(committed).frozen = {}
<1> DEFINE D == Discards(committed)
           a == Resolved(committed)
<1>0. TypeOK /\ RowsInv /\ PendingInv /\ acct.history \in [State -> Nat]
  BY StoreTypes DEF AccountInv, SyncInv
<1>1. CASE D = {}
  <2>1. SameRows(a, acct)
    BY <1>0, <1>1, ResolvedRows, Zenon
  <2>2. Archived(a) = Archived(acct)
    BY <2>1 DEF SameRows, Archived
  <2>3. a.latest \in State /\ a.frozen = acct.frozen /\ (a.locked <=> acct.locked)
    BY <1>0, <2>1, Zenon DEF SameRows, RowsInv
  <2> HIDE DEF a
  <2>4. IF acct.locked THEN Archived(a) \subseteq a.frozen ELSE a.frozen = {}
    BY <2>2, <2>3, Zenon DEF LocksInv
  <2> QED
    BY <2>3, <2>4, Zenon DEF a
<1>2. CASE D # {}
  <2>1. PICK t \in D : UndoneTo(a, acct, InitState[t], Nonces(D))
    BY <1>2, DiscardedRows, Zenon
  <2>2. t \in Pending
    BY DiscardsSubset
  <2>3. InitState[t] \in Archived(acct) /\ InitState[t] \in State
    BY <1>0, <2>2, PendingRow, Zenon DEF Archived
  <2> HIDE DEF a, D
  <2>4. /\ a.latest = InitState[t] /\ (a.locked <=> InitState[t] \in acct.frozen)
        /\ a.frozen = {s \in acct.frozen : acct.history[s] \notin Nonces(D)}
    BY <2>1, Zenon DEF UndoneTo
  <2>5. ASSUME NEW s \in Archived(a)
        PROVE  s \in Archived(acct) /\ acct.history[s] \notin Nonces(D)
    BY <2>1, <2>5, Zenon DEF UndoneTo, Archived
  <2>6. a.locked <=> acct.locked
    BY <2>3, <2>4 DEF LocksInv
  <2>7. IF acct.locked THEN Archived(a) \subseteq a.frozen ELSE a.frozen = {}
    BY <2>4, <2>5, Zenon DEF LocksInv
  <2> QED
    BY <2>3, <2>4, <2>6, <2>7, Zenon DEF a
<1> QED
  BY <1>1, <1>2, Zenon

\* lock_account_on_unexpected_commitment locks every row.
LEMMA LockOnLocks ==
  ASSUME NEW a \in Store, a.latest \in State, NEW digest, digest \notin Archived(a)
  PROVE  /\ LockOn(a, digest).locked
         /\ Archived(LockOn(a, digest)) = LockOn(a, digest).frozen
<1>1. LockOn(a, digest) = [a EXCEPT !.locked = (a.latest # NoState), !.frozen = Archived(a)]
  BY DEF LockOn
<1>2. LockOn(a, digest).locked
  BY <1>1, StateAssumption, Zenon DEF Store
<1>3. LockOn(a, digest).frozen = Archived(a) /\ LockOn(a, digest).history = a.history
  BY <1>1 DEF Store
<1>4. Archived(LockOn(a, digest)) = Archived(a)
  BY <1>3 DEF Archived
<1> QED
  BY <1>2, <1>3, <1>4, Zenon

LEMMA SyncLocks ==
  ASSUME NonceGrows, Private, AccountInv, LocksInv, NEW committed, NEW digest, NEW large,
         SyncApply(committed, digest, large)
  PROVE  /\ LocksInv'
         /\ ~ acct'.locked =>
              ~ acct.locked /\ (digest = acct.latest \/ digest \in Archived(Resolved(committed)))
<1> DEFINE a == Resolved(committed)
<1>0. a \in Store
  BY ResolvedType DEF AccountInv, SyncInv
<1>1. acct' = IF digest = acct.latest THEN a ELSE LockOn(a, digest)
  BY PrivateUpdate
<1>2. /\ a.locked <=> acct.locked
      /\ a.latest \in State
      /\ IF acct.locked THEN Archived(a) \subseteq a.frozen ELSE a.frozen = {}
  BY ResolvedLocks, Zenon
<1> HIDE DEF a
<1>3. CASE digest = acct.latest
  BY <1>1, <1>2, <1>3, Zenon DEF LocksInv
<1>4. CASE digest # acct.latest /\ digest \in Archived(a)
  <2>1. acct' = a
    BY <1>1, <1>4 DEF LockOn
  <2>2. LocksInv'
    BY <1>2, <2>1, Zenon DEF LocksInv
  <2>3. ~ acct'.locked => ~ acct.locked
    BY <1>2, <2>1
  <2> QED
    BY <1>4, <2>2, <2>3 DEF a
<1>5. CASE digest # acct.latest /\ digest \notin Archived(a)
  <2>1. acct' = LockOn(a, digest)
    BY <1>1, <1>5
  <2>2. acct'.locked /\ Archived(acct') = acct'.frozen
    BY <1>0, <1>2, <1>5, <2>1, LockOnLocks, Zenon
  <2> QED
    BY <2>2, Zenon DEF LocksInv
<1> QED
  BY <1>3, <1>4, <1>5

LEMMA BusySync ==
  ASSUME NonceGrows, OneHistory, Private, SettledInv, ~ acct.locked,
         NEW committed \in Commits, NEW digest \in Digests, NEW large,
         SyncApply(committed, digest, large), Records # {},
         digest = acct.latest \/ digest \in Archived(Resolved(committed))
  PROVE  /\ Pending' = {} => AtBlock(acct.latest, synced)'
         /\ \A t \in Pending' : Lowest(t)' => AtBlock(InitState[t], synced)'
<1> DEFINE D == Discards(committed)
           a == Resolved(committed)
<1>0. /\ AccountInv /\ TypeOK /\ RowsInv /\ PendingInv /\ OrderInv
      /\ target # 0 /\ included' = included /\ synced' = target
  BY DEF SettledInv, AccountInv, SyncInv, SyncApply, nodeVars
<1>1. PICK x \in Records : FinalState[x] = digest
  BY <1>0, DigestAtTarget, Zenon
<1>2. AtBlock(digest, target)
  BY <1>0, DigestAtTarget, Zenon
<1>3. \A s : AtBlock(s, target) => AtBlock(s, synced)'
  BY <1>0, Zenon DEF AtBlock
<1>4. committed \subseteq Pending
  BY <1>0, CommitsFacts
<1>5. Pending' = (Pending \ committed) \ D
  BY <1>0, <1>4, SyncPending
<1>6. CASE digest = acct.latest
  <2>1. Pending \subseteq committed
    BY <1>0, <1>1, <1>6, ReachedLatest, Zenon
  <2>2. Pending' = {} /\ D = {}
    BY <1>5, <2>1, DiscardsSubset
  <2>3. acct'.latest = acct.latest
    BY <1>0, <2>2, PrivateRows, ResolvedRows, Zenon DEF SameRows
  <2>4. AtBlock(acct.latest, synced)'
    <3>1. AtBlock(acct.latest, target)
      BY <1>2, <1>6
    <3> QED
      BY <1>0, <2>3, <3>1, Zenon DEF AtBlock
  <2> QED
    BY <2>2, <2>4, Zenon
<1>7. CASE digest \in Archived(a)
  <2>1. digest \in Archived(acct) /\ acct.history[digest] \notin Nonces(D)
    <3>1. CASE D = {}
      <4>1. a.history = acct.history /\ Nonces(D) = {}
        BY <1>0, <3>1, ResolvedRows, Zenon DEF SameRows, Nonces
      <4> QED
        BY <1>7, <4>1, Zenon DEF Archived
    <3>2. CASE D # {}
      <4>1. PICK t \in D : UndoneTo(a, acct, InitState[t], Nonces(D))
        BY <1>0, <3>2, DiscardedRows, Zenon
      <4> HIDE DEF a, D
      <4> QED
        BY <1>7, <4>1, Zenon DEF UndoneTo, Archived
    <3> QED
      BY <3>1, <3>2, Zenon
  <2>2. PICK v \in Pending \ committed :
          /\ InitState[v] = digest
          /\ \A u \in Pending \ committed : u = v \/ Nonce[InitState[v]] < Nonce[InitState[u]]
    <3>1. FinalState[x] \in Archived(acct) /\ AtBlock(FinalState[x], target)
      BY <1>1, <1>2, <2>1, Zenon
    <3>2. \E v \in Pending \ committed :
            /\ InitState[v] = FinalState[x]
            /\ \A u \in Pending \ committed : u = v \/ Nonce[InitState[v]] < Nonce[InitState[u]]
      BY <1>0, <1>1, <3>1, ReachedRow, Zenon
    <3> QED
      BY <1>1, <3>2, Zenon
  <2>3. v \in Pending'
    <3>1. acct.history[digest] = Nonce[FinalState[v]]
      BY <1>0, <2>2, Zenon DEF PendingInv
    <3> QED
      BY <1>5, <2>1, <2>2, <3>1, Zenon DEF Nonces
  <2>4. ASSUME NEW t \in Pending', Lowest(t)' PROVE t = v
    <3>1. Nonce[InitState[t]] <= Nonce[InitState[v]]
      BY <2>3, <2>4, Zenon DEF Lowest
    <3>2. t \in Pending \ committed /\ t \in AllTx /\ v \in AllTx
      BY <1>5, Zenon DEF Pending, AllTx
    <3> QED
      BY <2>2, <3>1, <3>2, TxTypes
  <2> QED
    BY <1>2, <1>3, <2>2, <2>3, <2>4, Zenon
<1> QED
  BY <1>6, <1>7, Zenon

LEMMA SyncSettled ==
  ASSUME NonceGrows, OneHistory, Private, SettledInv, Sync
  PROVE  OrderInv' /\ LocksInv' /\ AnchorInv'
<1>0. OrderInv /\ LocksInv /\ AnchorInv
  BY DEF SettledInv
<1>1. CASE SyncStart \/ SyncFail
  <2>1. UNCHANGED <<included, head, synced, status, acct>>
    BY <1>1 DEF SyncStart, SyncFail, nodeVars
  <2>2. SameRows(acct', acct)
    BY <2>1 DEF SameRows
  <2> QED
    BY <1>0, <2>1, <2>2, SettledKept
<1>2. ASSUME NEW committed \in Commits, NEW digest \in Digests, NEW large,
             SyncApply(committed, digest, large)
      PROVE  OrderInv' /\ LocksInv' /\ AnchorInv'
  <2>1. OrderInv'
    BY <1>0, <1>2 DEF OrderInv, Before, SyncApply, nodeVars
  <2>2. LocksInv'
    BY <1>2, SyncLocks DEF SettledInv
  <2>3. ASSUME ~ acct'.locked
        PROVE  /\ Pending' = {} => AtBlock(acct.latest, synced)'
               /\ \A t \in Pending' : Lowest(t)' => AtBlock(InitState[t], synced)'
    <3>1. ~ acct.locked /\ (digest = acct.latest \/ digest \in Archived(Resolved(committed)))
      BY <1>2, <2>3, SyncLocks DEF SettledInv
    <3> QED
      BY <1>2, <3>1, QuietSync, BusySync, Zenon
  <2> QED
    BY <2>1, <2>2, <2>3, Zenon DEF AnchorInv
<1>3. ASSUME NEW committed, NEW digest,
             SyncStoreError(committed, digest) \/ SyncPanic(committed, digest)
      PROVE  FALSE
  BY <1>3 DEF SyncStoreError, SyncPanic, Refresh
<1> QED
  BY <1>1, <1>2, <1>3 DEF Sync

LEMMA NextSettled ==
  ASSUME NonceGrows, OneHistory, Private, OneCall, Spread, SettledInv, [Next]_vars
  PROVE  SettledInv'
<1>0. AccountInv /\ OrderInv /\ LocksInv /\ AnchorInv /\ acct \in Store
  BY DEF SettledInv, AccountInv, SyncInv, TypeOK
<1>1. AccountInv'
  BY <1>0, NextAccount
<1>2. CASE NodeNext(loose) /\ UNCHANGED clientVars
  BY <1>1, <1>2, NetworkOrder DEF SettledInv
<1>3. ASSUME UNCHANGED <<included, head, synced, status, acct>> PROVE SettledInv'
  <2>1. SameRows(acct', acct)
    BY <1>3 DEF SameRows
  <2> QED
    BY <1>0, <1>1, <1>3, <2>1, SettledKept DEF SettledInv
<1>4. ASSUME NEW t \in Tx, Pipeline(t) PROVE SettledInv'
  <2>1. CASE Apply(t)
    BY <1>1, <2>1, ApplySettled DEF SettledInv
  <2>2. CASE ~ Apply(t)
    BY <1>3, <1>4, <2>2, Zenon
       DEF Pipeline, Execute, Abandon, Submit, Refused, ApplyFails, nodeVars
  <2> QED
    BY <2>1, <2>2
<1>5. CASE Sync
  BY <1>1, <1>5, SyncSettled DEF SettledInv
<1>6. CASE Restart
  <2>1. SameRows(acct', acct)
    BY <1>0, <1>6 DEF Restart, Reopen, SameRows, Store
  <2> QED
    BY <1>0, <1>1, <1>6, <2>1, SettledKept DEF SettledInv, Restart, nodeVars
<1>7. CASE UNCHANGED vars
  BY <1>3, <1>7 DEF vars, nodeVars, clientVars
<1> QED
  BY <1>2, <1>4, <1>5, <1>6, <1>7 DEF Next

LEMMA InitSettled == Init => SettledInv
<1> SUFFICES ASSUME Init PROVE SettledInv
  OBVIOUS
<1>1. AccountInv
  BY InitAccount
<1>2. /\ synced = 0 /\ \A x \in AllTx : included[x] = 0
      /\ \A t \in Tx : status[t] = "None"
      /\ acct = NewStore(Genesis)
  BY DEF Init, NodeInit
<1>3. acct.latest = Genesis /\ ~ acct.locked /\ acct.frozen = {} /\ Pending = {}
  BY <1>2 DEF NewStore, Pending
<1>4. OrderInv
  BY <1>2, Zenon DEF OrderInv
<1>5. LocksInv
  BY <1>3 DEF LocksInv
<1>6. AtBlock(Genesis, synced)
  BY <1>2 DEF AtBlock
<1>7. AnchorInv
  BY <1>3, <1>6 DEF AnchorInv
<1> QED
  BY <1>1, <1>4, <1>5, <1>7 DEF SettledInv

\* Once nothing is pending or under way, the store of a private account holds
\* the state the account had at the last synced block, or the account is
\* locked, when a block has at most one transaction of the account.
THEOREM SettledSound ==
  ASSUME Private, OneCall, Spread, NonceGrows, OneHistory
  PROVE  Spec => []SettledMatchesChain
<1>1. Init => SettledInv
  BY InitSettled
<1>2. SettledInv /\ [Next]_vars => SettledInv'
  BY NextSettled
<1>3. SettledInv => SettledMatchesChain
  <2> SUFFICES ASSUME SettledInv, Pending = {}, ~ acct.locked
               PROVE  \E b \in synced .. tip : acct.latest = ChainState(b)
    BY DEF SettledMatchesChain
  <2>1. /\ TypeOK /\ PathInv /\ OrderInv /\ synced \in Nat /\ tip \in Nat /\ synced <= tip
        /\ AtBlock(acct.latest, synced)
    BY Heights, StoreTypes, Zenon DEF SettledInv, AccountInv, SyncInv, AnchorInv, PathInv
  <2>2. acct.latest = ChainState(synced)
    BY <2>1, AtBlockUnique
  <2>3. synced \in synced .. tip
    BY <2>1
  <2> QED
    BY <2>2, <2>3
<1> QED
  BY <1>1, <1>2, <1>3, PTL DEF Spec
=============================================================================
