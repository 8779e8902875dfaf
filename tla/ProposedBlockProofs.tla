------------------------- MODULE ProposedBlockProofs -------------------------
(***************************************************************************)
(* Proofs about batches and blocks, for any set of transactions, any chain *)
(* length and any limits: no block holds an expired transaction, no        *)
(* nullifier enters the chain without its note, and building a block is    *)
(* one step of the ledger, accounts and notes.                             *)
(***************************************************************************)
EXTENDS WellFoundedInduction, ProposedBlock, FiniteSetTheorems, TLAPS

-----------------------------------------------------------------------------
(* Facts about sequences, sets of numbers and the chain.                   *)

LEMMA AppendFacts ==
  ASSUME NEW S, NEW s \in Seq(S), NEW e
  PROVE  /\ Append(s, e) \in Seq(S \cup {e})
         /\ Len(Append(s, e)) = Len(s) + 1 /\ Len(s) \in Nat
         /\ \A i \in 1 .. Len(s) : Append(s, e)[i] = s[i]
         /\ Append(s, e)[Len(s) + 1] = e
<1>1. s \in Seq(S \cup {e})
  OBVIOUS
<1>2. e \in S \cup {e}
  OBVIOUS
<1>. QED  BY <1>1, <1>2

LEMMA NatMinimum ==
  ASSUME NEW T, T \subseteq Nat, T # {}
  PROVE  \E x \in T : \A y \in T : x <= y
<1>1. PICK x \in T : \A y \in T : ~(<<y, x>> \in OpToRel(<, Nat))
  BY WFMin, NatLessThanWellFounded, Zenon
<1>2. ASSUME NEW y \in T
      PROVE  x <= y
  <2>1. x \in Nat /\ y \in Nat
    OBVIOUS
  <2>2. ~(y < x)
    BY <1>1, <2>1, Zenon DEF OpToRel
  <2>. QED  BY <2>1, <2>2
<1>. QED  BY <1>2

LEMMA Induction ==
  ASSUME NEW T, 0 \in T, \A n \in Nat : n \in T => n + 1 \in T
  PROVE  \A n \in Nat : n \in T
<1>. SUFFICES ASSUME Nat \ T # {}
              PROVE  FALSE
  OBVIOUS
<1>1. PICK x \in Nat \ T : \A y \in Nat \ T : ~(<<y, x>> \in OpToRel(<, Nat))
  BY WFMin, NatLessThanWellFounded, Zenon
<1>2. x # 0 /\ x \in Nat
  OBVIOUS
<1>3. x - 1 \in Nat /\ x - 1 < x /\ (x - 1) + 1 = x
  BY <1>2
<1>4. x - 1 \in T
  BY <1>1, <1>2, <1>3, Zenon DEF OpToRel
<1>. QED  BY <1>3, <1>4

(* The batch's expiration is that of one of its transactions, and none of  *)
(* them expires earlier.                                                   *)
LEMMA ExpirationIsEarliest ==
  ASSUME NEW txs \in TxSeqs
  PROVE  /\ BatchExpiration(txs) \in Nat
         /\ \A i \in DOMAIN txs : BatchExpiration(txs) <= txs[i].exp /\ txs[i].exp \in Nat
<1>1. PICK n \in 1 .. MAX_TXS : txs \in [1 .. n -> Txs]
  BY DEF TxSeqs
<1>2. 1 \in DOMAIN txs
  BY <1>1, BlockAssumption
<1>. DEFINE E == {txs[i].exp : i \in DOMAIN txs}
<1>3. E \subseteq Nat /\ E # {}
  BY <1>1, <1>2, BlockAssumption
<1>4. \E e \in E : \A f \in E : e <= f
  BY <1>3, NatMinimum, Zenon
<1>5. \E e \in E : \A i \in DOMAIN txs : e <= txs[i].exp
  BY <1>4
<1>6. /\ BatchExpiration(txs) \in E
      /\ \A i \in DOMAIN txs : BatchExpiration(txs) <= txs[i].exp
  BY <1>5 DEF BatchExpiration
<1>. QED  BY <1>3, <1>6

(* What ProposedBatch::new adds to the waiting batches.                    *)
BatchInputs(txs, proofs) ==
  KeptInputs(AuthenticateAll(TxInputs(txs), proofs), TxOutputs(txs))

BatchOutputs(txs, proofs) ==
  KeptOutputs(AuthenticateAll(TxInputs(txs), proofs), TxOutputs(txs))

NewBatch(txs, proofs) ==
  [txs |-> txs, ref |-> Height, exp |-> BatchExpiration(txs),
   updates |-> [a \in Touched(txs) |-> MergedUpdate(txs, a)],
   inputs |-> BatchInputs(txs, proofs), outputs |-> BatchOutputs(txs, proofs)]

LEMMA BatchMade ==
  ASSUME NEW txs, NEW proofs, ProposeBatch(txs, proofs)
  PROVE  /\ batches' = batches \cup {NewBatch(txs, proofs)}
         /\ chain' = chain /\ body' = body
         /\ UpdatesChain(txs)
         /\ \A i \in DOMAIN txs : ProvenBy(txs[i], Height)
         /\ TrackerAccepts(TxInputs(txs), TxOutputs(txs), proofs, NotesOf, Height)
BY DEF ProposeBatch, NewBatch, BatchInputs, BatchOutputs

LEMMA BatchFields ==
  ASSUME NEW txs, NEW proofs
  PROVE  /\ NewBatch(txs, proofs).txs = txs
         /\ NewBatch(txs, proofs).exp = BatchExpiration(txs)
         /\ NewBatch(txs, proofs).updates = [a \in Touched(txs) |-> MergedUpdate(txs, a)]
         /\ NewBatch(txs, proofs).inputs = BatchInputs(txs, proofs)
         /\ NewBatch(txs, proofs).outputs = BatchOutputs(txs, proofs)
BY DEF NewBatch

-----------------------------------------------------------------------------
(* The chain is a sequence that begins with the genesis block.             *)
IsChain == /\ \E S : chain \in Seq(S)
           /\ Len(chain) >= 1
           /\ chain[1] = Genesis

(* What a waiting batch promises about its expiration.                     *)
ExpirationInv ==
  \A b \in batches : /\ b.exp \in Nat
                     /\ \A i \in DOMAIN b.txs : b.exp <= b.txs[i].exp /\ b.txs[i].exp \in Nat

LEMMA ChainFacts ==
  ASSUME IsChain
  PROVE  /\ Height \in Nat /\ Len(chain) = Height + 1
         /\ Blk(0) = Genesis
BY DEF IsChain, Height, Blk

(* A block is added behind the others.                                     *)
LEMMA ChainGrows ==
  ASSUME IsChain, NEW e, chain' = Append(chain, e)
  PROVE  /\ IsChain' /\ Height' = Height + 1 /\ Tip' = e
         /\ \A k \in 0 .. Height : Blk(k)' = Blk(k) /\ NotesOf'[k] = NotesOf[k]
         /\ \A k \in 0 .. Height : NotesOf[k] = Blk(k).notes
<1>1. PICK S : chain \in Seq(S)
  BY DEF IsChain
<1>2. /\ chain' \in Seq(S \cup {e}) /\ Len(chain') = Len(chain) + 1 /\ Len(chain) \in Nat
      /\ \A i \in 1 .. Len(chain) : chain'[i] = chain[i]
      /\ chain'[Len(chain) + 1] = e
  BY <1>1, AppendFacts
<1>3. Height \in Nat /\ Len(chain) = Height + 1
  BY ChainFacts
<1>4. IsChain'
  BY <1>2 DEF IsChain
<1>5. Height' = Height + 1
  BY <1>2, <1>3 DEF Height
<1>6. Tip' = e
  BY <1>2, <1>3, <1>5 DEF Tip, Blk
<1>7. \A k \in 0 .. Height : Blk(k)' = Blk(k)
  BY <1>2, <1>3 DEF Blk
<1>8. \A k \in 0 .. Height : NotesOf[k] = Blk(k).notes
  BY DEF NotesOf
<1>9. \A k \in 0 .. Height : NotesOf'[k] = NotesOf[k]
  <2>1. \A k \in 0 .. Height' : NotesOf'[k] = Blk(k)'.notes
    BY DEF NotesOf
  <2>2. \A k \in 0 .. Height : k \in 0 .. Height'
    BY <1>3, <1>5
  <2>. QED  BY <1>7, <1>8, <2>1, <2>2
<1>. QED  BY <1>4, <1>5, <1>6, <1>7, <1>8, <1>9

-----------------------------------------------------------------------------
(* Expiration.                                                             *)
ExpiryInv == IsChain /\ ExpirationInv /\ ExpiredIsNotIncluded

LEMMA GenesisIsChain ==
  ASSUME Init
  PROVE  IsChain /\ Height = 0 /\ Tip = Genesis
<1>1. chain = <<Genesis>>
  BY DEF Init
<1>2. chain \in Seq({Genesis}) /\ Len(chain) = 1 /\ chain[1] = Genesis
  BY <1>1
<1>. QED  BY <1>2 DEF IsChain, Height, Tip, Blk

LEMMA BatchKeepsExpiry ==
  ASSUME ExpiryInv, NEW txs \in TxSeqs, NEW proofs, ProposeBatch(txs, proofs)
  PROVE  ExpiryInv'
<1>1. /\ batches' = batches \cup {NewBatch(txs, proofs)}
      /\ chain' = chain /\ body' = body
  BY BatchMade
<1>2. ExpirationInv'
  <2>1. /\ NewBatch(txs, proofs).exp \in Nat
        /\ \A i \in DOMAIN NewBatch(txs, proofs).txs :
             /\ NewBatch(txs, proofs).exp <= NewBatch(txs, proofs).txs[i].exp
             /\ NewBatch(txs, proofs).txs[i].exp \in Nat
    <3>1. /\ NewBatch(txs, proofs).txs = txs
          /\ NewBatch(txs, proofs).exp = BatchExpiration(txs)
      BY BatchFields, Zenon
    <3>. QED  BY <3>1, ExpirationIsEarliest, Zenon
  <2>. QED  BY <1>1, <2>1 DEF ExpiryInv, ExpirationInv
<1>3. IsChain' /\ ExpiredIsNotIncluded'
  BY <1>1 DEF ExpiryInv, IsChain, ExpiredIsNotIncluded, Height
<1>. QED  BY <1>2, <1>3 DEF ExpiryInv

LEMMA BlockKeepsExpiry ==
  ASSUME ExpiryInv, NEW bs \in SUBSET batches, NEW proofs,
         NEW ha, NEW hn, ProposeBlock(bs, proofs, ha, hn)
  PROVE  ExpiryInv'
<1>1. PICK e : chain' = Append(chain, e)
  BY Zenon DEF ProposeBlock
<1>2. BatchesFit(bs) /\ body' = {b.txs : b \in bs} /\ batches' = batches
  BY DEF ProposeBlock
<1>3. IsChain' /\ Height' = Height + 1 /\ Height \in Nat
  BY <1>1, ChainGrows, ChainFacts DEF ExpiryInv
<1>4. ASSUME NEW b \in bs, NEW i \in DOMAIN b.txs
      PROVE  Height' <= b.txs[i].exp
  <2>1. b.exp \in Nat /\ b.exp <= b.txs[i].exp /\ b.txs[i].exp \in Nat
    BY <1>4 DEF ExpiryInv, ExpirationInv
  <2>2. b.exp >= Height'
    BY <1>2, <1>3, <1>4 DEF BatchesFit
  <2>. QED  BY <1>3, <2>1, <2>2
<1>5. ExpiredIsNotIncluded'
  BY <1>2, <1>4 DEF ExpiredIsNotIncluded
<1>. QED  BY <1>2, <1>3, <1>5 DEF ExpiryInv, ExpirationInv

(* No block holds a transaction whose expiration block has passed, however *)
(* long its batch waited: check_batch_expiration looks at the batch only,  *)
(* and ProposedBatch::new gives that the earliest of its expirations.      *)
THEOREM NoExpiredInclusion == Spec => []ExpiredIsNotIncluded
<1>1. Init => ExpiryInv
  BY GenesisIsChain DEF Init, ExpiryInv, ExpirationInv, ExpiredIsNotIncluded
<1>2. ExpiryInv /\ [Next]_vars => ExpiryInv'
  <2>. SUFFICES ASSUME ExpiryInv, [Next]_vars
                PROVE  ExpiryInv'
    OBVIOUS
  <2>1. CASE \E txs \in TxSeqs : \E proofs \in ProofsFor(TxInputs(txs)) :
               ProposeBatch(txs, proofs)
    BY <2>1, BatchKeepsExpiry
  <2>2. CASE DropBatch
    BY <2>2 DEF DropBatch, ExpiryInv, IsChain, ExpirationInv, ExpiredIsNotIncluded, Height
  <2>3. CASE \E bs \in SUBSET batches : \E proofs \in ProofsFor(BlockInputs(bs)) :
               \E ha, hn \in 0 .. Height : ProposeBlock(bs, proofs, ha, hn)
    BY <2>3, BlockKeepsExpiry
  <2>4. CASE UNCHANGED vars
    BY <2>4 DEF vars, ExpiryInv, IsChain, ExpirationInv, ExpiredIsNotIncluded, Height
  <2>. QED  BY <2>1, <2>2, <2>3, <2>4 DEF Next
<1>3. ExpiryInv => ExpiredIsNotIncluded
  BY DEF ExpiryInv
<1>. QED  BY <1>1, <1>2, <1>3, PTL DEF Spec

-----------------------------------------------------------------------------
(* The executions of S, in some order, lead from state s to state f.       *)
Ordered(S, s, f, n, o) ==
  /\ n \in Nat /\ o \in [1 .. n -> S]
  /\ \A i, j \in 1 .. n : o[i] = o[j] => i = j
  /\ \A e \in S : \E i \in 1 .. n : o[i] = e
  /\ \A i \in 1 .. n : o[i].tx.init = IF i = 1 THEN s ELSE o[i - 1].tx.final
  /\ f = IF n = 0 THEN s ELSE o[n].tx.final

Leads(S, s, f) == \E n, o : Ordered(S, s, f, n, o)

LEMMA EmptyLeads ==
  ASSUME NEW s
  PROVE  Leads({}, s, s)
<1>. DEFINE o == [i \in 1 .. 0 |-> i]
<1>1. Ordered({}, s, s, 0, o)
  BY DEF Ordered
<1>. QED  BY <1>1, Zenon DEF Leads

LEMMA SingleLeads ==
  ASSUME NEW e
  PROVE  Leads({e}, e.tx.init, e.tx.final)
<1>. DEFINE o == [i \in 1 .. 1 |-> e]
<1>1. Ordered({e}, e.tx.init, e.tx.final, 1, o)
  BY DEF Ordered
<1>. QED  BY <1>1, Zenon DEF Leads

(* One order behind another.                                               *)
LEMMA LeadsOn ==
  ASSUME NEW S, NEW T, S \cap T = {}, NEW s, NEW g, NEW f, Leads(S, s, g), Leads(T, g, f)
  PROVE  Leads(S \cup T, s, f)
<1>1. PICK n, o : Ordered(S, s, g, n, o)
  BY Zenon DEF Leads
<1>2. PICK m, p : Ordered(T, g, f, m, p)
  BY Zenon DEF Leads
<1>. DEFINE r == [i \in 1 .. n + m |-> IF i <= n THEN o[i] ELSE p[i - n]]
<1>3. n \in Nat /\ m \in Nat /\ n + m \in Nat
  BY <1>1, <1>2 DEF Ordered
<1>4. \A i \in 1 .. n + m : IF i <= n THEN i \in 1 .. n ELSE i - n \in 1 .. m
  BY <1>3
<1>5. o \in [1 .. n -> S] /\ p \in [1 .. m -> T]
  BY <1>1, <1>2 DEF Ordered
<1>6. r \in [1 .. n + m -> S \cup T]
  BY <1>4, <1>5
<1>7. ASSUME NEW i \in 1 .. n + m, NEW j \in 1 .. n + m, r[i] = r[j]
      PROVE  i = j
  <2>1. CASE i <= n /\ j <= n
    <3>1. i \in 1 .. n /\ j \in 1 .. n /\ o[i] = o[j]
      BY <1>4, <1>7, <2>1
    <3>. QED  BY <1>1, <3>1, Zenon DEF Ordered
  <2>2. CASE ~(i <= n) /\ ~(j <= n)
    <3>1. i - n \in 1 .. m /\ j - n \in 1 .. m /\ p[i - n] = p[j - n]
      BY <1>4, <1>7, <2>2
    <3>2. i - n = j - n
      BY <1>2, <3>1, Zenon DEF Ordered
    <3>. QED  BY <1>3, <3>2
  <2>3. CASE i <= n /\ ~(j <= n)
    BY <1>4, <1>5, <1>7, <2>3
  <2>4. CASE ~(i <= n) /\ j <= n
    BY <1>4, <1>5, <1>7, <2>4
  <2>. QED  BY <2>1, <2>2, <2>3, <2>4
<1>8. ASSUME NEW e \in S \cup T
      PROVE  \E i \in 1 .. n + m : r[i] = e
  <2>1. CASE e \in S
    <3>1. PICK i \in 1 .. n : o[i] = e
      BY <1>1, <2>1, Zenon DEF Ordered
    <3>2. i \in 1 .. n + m /\ i <= n
      BY <1>3
    <3>. QED  BY <3>1, <3>2
  <2>2. CASE e \in T
    <3>1. PICK i \in 1 .. m : p[i] = e
      BY <1>2, <2>2, Zenon DEF Ordered
    <3>2. i + n \in 1 .. n + m /\ ~(i + n <= n) /\ (i + n) - n = i
      BY <1>3
    <3>3. r[i + n] = e
      BY <3>1, <3>2
    <3>. QED  BY <3>2, <3>3
  <2>. QED  BY <2>1, <2>2
<1>9. ASSUME NEW i \in 1 .. n + m
      PROVE  r[i].tx.init = IF i = 1 THEN s ELSE r[i - 1].tx.final
  <2>1. CASE i <= n
    <3>1. i \in 1 .. n /\ r[i] = o[i]
      BY <1>4, <2>1
    <3>2. i # 1 => i - 1 \in 1 .. n + m /\ i - 1 <= n
      BY <1>3, <2>1
    <3>3. i # 1 => r[i - 1] = o[i - 1]
      BY <3>2
    <3>4. o[i].tx.init = IF i = 1 THEN s ELSE o[i - 1].tx.final
      BY <1>1, <3>1, Zenon DEF Ordered
    <3>. HIDE DEF r
    <3>. QED  BY <3>1, <3>3, <3>4
  <2>2. CASE ~(i <= n)
    <3>1. i - n \in 1 .. m /\ r[i] = p[i - n]
      BY <1>4, <2>2
    <3>2. p[i - n].tx.init = IF i - n = 1 THEN g ELSE p[(i - n) - 1].tx.final
      BY <1>2, <3>1, Zenon DEF Ordered
    <3>3. CASE i - n = 1
      <4>1. p[i - n].tx.init = g /\ g = IF n = 0 THEN s ELSE o[n].tx.final
        BY <1>1, <3>2, <3>3 DEF Ordered
      <4>2. CASE n = 0
        <5>1. i = 1
          BY <3>3, <4>2
        <5>. QED  BY <3>1, <4>1, <4>2, <5>1
      <4>3. CASE n # 0
        <5>1. i # 1 /\ i - 1 = n /\ n \in 1 .. n + m
          BY <1>3, <3>3, <4>3
        <5>2. r[i - 1] = o[n]
          BY <1>3, <5>1
        <5>. HIDE DEF r
        <5>. QED  BY <3>1, <4>1, <4>3, <5>1, <5>2
      <4>. QED  BY <4>2, <4>3
    <3>4. CASE i - n # 1
      <4>1. i # 1 /\ i - 1 \in 1 .. n + m /\ ~(i - 1 <= n) /\ (i - 1) - n = (i - n) - 1
        BY <1>3, <3>1, <3>4
      <4>2. r[i - 1] = p[(i - n) - 1]
        BY <4>1
      <4>. HIDE DEF r
      <4>. QED  BY <3>1, <3>2, <3>4, <4>1, <4>2
    <3>. QED  BY <3>3, <3>4
  <2>. QED  BY <2>1, <2>2
<1>10. f = IF n + m = 0 THEN s ELSE r[n + m].tx.final
  <2>1. /\ g = IF n = 0 THEN s ELSE o[n].tx.final
        /\ f = IF m = 0 THEN g ELSE p[m].tx.final
    BY <1>1, <1>2 DEF Ordered
  <2>2. CASE m = 0
    <3>1. n + m = n /\ n <= n
      BY <1>3, <2>2
    <3>2. n # 0 => r[n + m] = o[n]
      BY <1>3, <3>1
    <3>. HIDE DEF r
    <3>. QED  BY <2>1, <2>2, <3>1, <3>2
  <2>3. CASE m # 0
    <3>1. n + m # 0 /\ n + m \in 1 .. n + m /\ ~(n + m <= n) /\ (n + m) - n = m
      BY <1>3, <2>3
    <3>2. r[n + m] = p[m]
      BY <3>1
    <3>. HIDE DEF r
    <3>. QED  BY <2>1, <2>3, <3>1, <3>2
  <2>. QED  BY <2>2, <2>3
<1>. HIDE DEF r
<1>11. Ordered(S \cup T, s, f, n + m, r)
  BY <1>3, <1>6, <1>7, <1>8, <1>9, <1>10, Zenon DEF Ordered
<1>. QED  BY <1>11, Zenon DEF Leads

-----------------------------------------------------------------------------
(* The transactions of a batch that change account a lead from the initial *)
(* to the final state of its merged update.                                *)
Exec(txs, i) == [key |-> <<txs, i>>, tx |-> txs[i]]

Changes(txs, a, i) == txs[i].account = a /\ txs[i].init # txs[i].final

ChangesTo(txs, a, k) == {Exec(txs, i) : i \in {j \in 1 .. k : Changes(txs, a, j)}}

ReachedIn(txs, a, s, k) ==
  \/ \A i \in 1 .. k : txs[i].account # a
  \/ \E l \in 1 .. k :
       /\ txs[l].account = a /\ \A i \in l + 1 .. k : txs[i].account # a
       /\ Leads(ChangesTo(txs, a, k), s, txs[l].final)
       /\ s.nonce \in Nat /\ s.nonce <= txs[l].final.nonce
       /\ ChangesTo(txs, a, k) # {} => s.nonce < txs[l].final.nonce

LEMMA ChangesGrow ==
  ASSUME NEW txs, NEW a, NEW k \in Nat
  PROVE  /\ Changes(txs, a, k + 1) =>
              /\ ChangesTo(txs, a, k + 1) = ChangesTo(txs, a, k) \cup {Exec(txs, k + 1)}
              /\ ChangesTo(txs, a, k) \cap {Exec(txs, k + 1)} = {}
         /\ ~Changes(txs, a, k + 1) => ChangesTo(txs, a, k + 1) = ChangesTo(txs, a, k)
<1>1. \A i : i \in 1 .. k + 1 <=> i \in 1 .. k \/ i = k + 1
  OBVIOUS
<1>2. k + 1 \notin 1 .. k
  OBVIOUS
<1>3. ASSUME NEW i \in 1 .. k, Exec(txs, i) = Exec(txs, k + 1)
      PROVE  FALSE
  <2>1. Exec(txs, i).key = <<txs, i>> /\ Exec(txs, k + 1).key = <<txs, k + 1>>
    BY DEF Exec
  <2>2. <<txs, i>>[2] = i /\ <<txs, k + 1>>[2] = k + 1
    OBVIOUS
  <2>. QED  BY <1>2, <1>3, <2>1, <2>2
<1>4. ASSUME NEW e
      PROVE  e \in ChangesTo(txs, a, k + 1)
               <=> \/ e \in ChangesTo(txs, a, k)
                   \/ Changes(txs, a, k + 1) /\ e = Exec(txs, k + 1)
  BY <1>1, Zenon DEF ChangesTo
<1>5. Exec(txs, k + 1) \notin ChangesTo(txs, a, k)
  BY <1>3, Zenon DEF ChangesTo
<1>. QED  BY <1>4, <1>5

LEMMA NonceFacts ==
  ASSUME NEW tx \in Txs
  PROVE  /\ tx.init.nonce \in Nat /\ tx.final.nonce \in Nat
         /\ tx.init.nonce <= tx.final.nonce
         /\ tx.init # tx.final => tx.init.nonce < tx.final.nonce
<1>1. /\ tx.init.nonce \in Nat /\ tx.final.nonce \in Nat
      /\ tx.init # tx.final => tx.init.nonce < tx.final.nonce
  BY NonceAssumption, Zenon
<1>. QED  BY <1>1

LEMMA ReachedNext ==
  ASSUME NEW n \in Nat, NEW txs \in [1 .. n -> Txs], UpdatesChain(txs), NEW a, NEW s,
         \A i \in 1 .. n : txs[i].account = a /\ (\A j \in 1 .. i - 1 : txs[j].account # a)
                             => txs[i].init = s,
         NEW k \in Nat, k + 1 <= n, ReachedIn(txs, a, s, k)
  PROVE  ReachedIn(txs, a, s, k + 1)
<1>. DEFINE l == k + 1
            C == ChangesTo(txs, a, k)
            D == ChangesTo(txs, a, l)
<1>1. /\ l \in 1 .. n /\ l \in 1 .. l /\ l \in Nat
      /\ \A i : i \in 1 .. l <=> i \in 1 .. k \/ i = l
      /\ \A i : i \in 1 .. k => i \in 1 .. n
  OBVIOUS
<1>2. txs[l] \in Txs
  BY <1>1
<1>3. CASE txs[l].account # a
  <2>1. D = C
    BY <1>3, ChangesGrow DEF Changes
  <2>2. CASE \A i \in 1 .. k : txs[i].account # a
    BY <1>1, <1>3, <2>2 DEF ReachedIn
  <2>3. CASE \E m \in 1 .. k :
               /\ txs[m].account = a /\ \A i \in m + 1 .. k : txs[i].account # a
               /\ Leads(C, s, txs[m].final)
               /\ s.nonce \in Nat /\ s.nonce <= txs[m].final.nonce
               /\ C # {} => s.nonce < txs[m].final.nonce
    <3>1. PICK m \in 1 .. k :
               /\ txs[m].account = a /\ \A i \in m + 1 .. k : txs[i].account # a
               /\ Leads(C, s, txs[m].final)
               /\ s.nonce \in Nat /\ s.nonce <= txs[m].final.nonce
               /\ C # {} => s.nonce < txs[m].final.nonce
      BY <2>3
    <3>2. m \in 1 .. l /\ \A i \in m + 1 .. l : i \in m + 1 .. k \/ i = l
      BY <1>1
    <3>3. \A i \in m + 1 .. l : txs[i].account # a
      BY <1>3, <3>1, <3>2
    <3>. HIDE DEF l, C, D
    <3>4. ReachedIn(txs, a, s, l)
      BY <2>1, <3>1, <3>2, <3>3, Zenon DEF ReachedIn, C, D
    <3>. QED  BY <3>4 DEF l
  <2>. QED  BY <2>2, <2>3 DEF ReachedIn
<1>4. CASE txs[l].account = a
  (* Where the transaction starts is where the earlier ones have led.      *)
  <2>1. /\ Leads(C, s, txs[l].init)
        /\ s.nonce \in Nat /\ s.nonce <= txs[l].init.nonce
        /\ C # {} => s.nonce < txs[l].init.nonce
    <3>1. CASE \A i \in 1 .. k : txs[i].account # a
      <4>1. l - 1 = k
        OBVIOUS
      <4>2. txs[l].init = s
        BY <1>1, <1>4, <3>1, <4>1
      <4>3. C = {}
        BY <3>1 DEF ChangesTo, Changes
      <4>4. s.nonce \in Nat
        BY <1>2, <4>2, NonceFacts
      <4>5. s.nonce <= s.nonce
        BY <4>4
      <4>6. Leads({}, s, s)
        BY EmptyLeads
      <4>. HIDE DEF C, l
      <4>. QED  BY <4>2, <4>3, <4>4, <4>5, <4>6
    <3>2. CASE \E m \in 1 .. k :
                 /\ txs[m].account = a /\ \A i \in m + 1 .. k : txs[i].account # a
                 /\ Leads(C, s, txs[m].final)
                 /\ s.nonce \in Nat /\ s.nonce <= txs[m].final.nonce
                 /\ C # {} => s.nonce < txs[m].final.nonce
      <4>1. PICK m \in 1 .. k :
                 /\ txs[m].account = a /\ \A i \in m + 1 .. k : txs[i].account # a
                 /\ Leads(C, s, txs[m].final)
                 /\ s.nonce \in Nat /\ s.nonce <= txs[m].final.nonce
                 /\ C # {} => s.nonce < txs[m].final.nonce
        BY <3>2
      <4>2. m \in DOMAIN txs /\ l \in DOMAIN txs /\ m < l /\ l - 1 = k
        BY <1>1
      <4>3. txs[l].init = txs[m].final
        <5>1. \A i \in m + 1 .. l - 1 : txs[i].account # txs[m].account
          BY <4>1, <4>2
        <5>2. txs[m].account = txs[l].account
          BY <1>4, <4>1
        <5>. HIDE DEF l
        <5>. QED  BY <4>2, <5>1, <5>2, Zenon DEF UpdatesChain
      <4>. HIDE DEF C, l
      <4>. QED  BY <4>1, <4>3
    <3>. QED  BY <3>1, <3>2 DEF ReachedIn
  <2>2. /\ txs[l].init.nonce \in Nat /\ txs[l].final.nonce \in Nat
        /\ txs[l].init.nonce <= txs[l].final.nonce
        /\ txs[l].init # txs[l].final => txs[l].init.nonce < txs[l].final.nonce
    BY <1>2, NonceFacts, Zenon
  <2>3. /\ s.nonce \in Nat /\ s.nonce <= txs[l].final.nonce
        /\ C # {} \/ txs[l].init # txs[l].final => s.nonce < txs[l].final.nonce
    <3>. DEFINE x == s.nonce
                y == txs[l].init.nonce
                z == txs[l].final.nonce
    <3>. HIDE DEF x, y, z, C, l
    <3>1. x \in Nat /\ y \in Nat /\ z \in Nat /\ x <= y /\ y <= z
      BY <2>1, <2>2, Zenon DEF x, y, z
    <3>2. /\ C # {} => x < y
          /\ txs[l].init # txs[l].final => y < z
      BY <2>1, <2>2, Zenon DEF x, y, z
    <3>3. x <= z /\ (x < y \/ y < z => x < z)
      BY <3>1
    <3>. QED  BY <3>1, <3>2, <3>3, Zenon DEF x, z
  <2>4. Leads(D, s, txs[l].final) /\ (D # {} => C # {} \/ txs[l].init # txs[l].final)
    <3>1. CASE txs[l].init = txs[l].final
      <4>1. D = C
        BY <3>1, ChangesGrow DEF Changes
      <4>. HIDE DEF C, D, l
      <4>. QED  BY <2>1, <3>1, <4>1
    <3>2. CASE txs[l].init # txs[l].final
      <4>. DEFINE e == Exec(txs, l)
      <4>1. D = C \cup {e} /\ C \cap {e} = {}
        BY <1>4, <3>2, ChangesGrow DEF Changes
      <4>2. e.tx = txs[l]
        BY DEF Exec
      <4>3. Leads({e}, e.tx.init, e.tx.final)
        BY SingleLeads, Zenon
      <4>. HIDE DEF e, C, D, l
      <4>4. Leads({e}, txs[l].init, txs[l].final)
        BY <4>2, <4>3
      <4>5. Leads(C \cup {e}, s, txs[l].final)
        BY <2>1, <4>1, <4>4, LeadsOn, Zenon
      <4>. QED  BY <3>2, <4>1, <4>5
    <3>. QED  BY <3>1, <3>2
  <2>5. \A i \in l + 1 .. l : txs[i].account # a
    BY <1>1
  <2>. HIDE DEF C, D, l
  <2>6. ReachedIn(txs, a, s, l)
    BY <1>1, <1>4, <2>3, <2>4, <2>5, Zenon DEF ReachedIn, D
  <2>. QED  BY <2>6 DEF l
<1>. QED  BY <1>3, <1>4

BatchChanges(txs, a) == {Exec(txs, i) : i \in {j \in DOMAIN txs : Changes(txs, a, j)}}

LEMMA BatchLeads ==
  ASSUME NEW txs \in TxSeqs, UpdatesChain(txs), NEW a \in Touched(txs)
  PROVE  /\ Leads(BatchChanges(txs, a), MergedUpdate(txs, a).init, MergedUpdate(txs, a).final)
         /\ MergedUpdate(txs, a).init = MergedUpdate(txs, a).final => BatchChanges(txs, a) = {}
<1>. DEFINE own == {i \in DOMAIN txs : txs[i].account = a}
            first == CHOOSE i \in own : \A j \in own : i <= j
            last == CHOOSE i \in own : \A j \in own : j <= i
            s == txs[first].init
<1>1. PICK n \in 1 .. MAX_TXS : txs \in [1 .. n -> Txs]
  BY DEF TxSeqs
<1>2. n \in Nat /\ DOMAIN txs = 1 .. n
  BY <1>1, BlockAssumption
<1>3. own \subseteq Nat /\ own # {}
  BY <1>2 DEF Touched
<1>4. first \in own /\ \A j \in own : first <= j
  <2>1. \E i \in own : \A j \in own : i <= j
    BY <1>3, NatMinimum, Zenon
  <2>. QED  BY <2>1, Zenon
<1>5. MergedUpdate(txs, a).init = s /\ MergedUpdate(txs, a).final = txs[last].final
  BY DEF MergedUpdate
<1>. HIDE DEF first, last
<1>6. ASSUME NEW i \in 1 .. n, txs[i].account = a, \A j \in 1 .. i - 1 : txs[j].account # a
      PROVE  txs[i].init = s
  <2>1. i \in own /\ first <= i /\ first \in 1 .. n
    BY <1>2, <1>4, <1>6
  <2>2. first \notin 1 .. i - 1
    BY <1>4, <1>6
  <2>3. first = i
    BY <1>2, <2>1, <2>2
  <2>. QED  BY <2>3
<1>. DEFINE T == {k \in Nat : k <= n => ReachedIn(txs, a, s, k)}
<1>7. \A k \in Nat : k \in T
  <2>1. 0 \in T
    <3>1. ReachedIn(txs, a, s, 0)
      BY DEF ReachedIn
    <3>. QED  BY <3>1
  <2>2. ASSUME NEW k \in Nat, k \in T
        PROVE  k + 1 \in T
    <3>. SUFFICES ASSUME k + 1 <= n
                  PROVE  ReachedIn(txs, a, s, k + 1)
      OBVIOUS
    <3>1. ReachedIn(txs, a, s, k)
      BY <1>2, <2>2
    <3>. HIDE DEF s
    <3>. QED  BY <1>1, <1>2, <1>6, <3>1, ReachedNext
  <2>3. \A k \in Nat : k \in T => k + 1 \in T
    BY <2>2, Zenon
  <2>. HIDE DEF T
  <2>. QED  BY <2>1, <2>3, Induction, Zenon
<1>8. ReachedIn(txs, a, s, n)
  BY <1>2, <1>7
<1>9. ChangesTo(txs, a, n) = BatchChanges(txs, a)
  BY <1>2 DEF ChangesTo, BatchChanges
<1>10. first \in 1 .. n /\ txs[first].account = a
  BY <1>2, <1>4
<1>. DEFINE C == BatchChanges(txs, a)
<1>. HIDE DEF s
<1>11. PICK l \in 1 .. n :
         /\ txs[l].account = a /\ \A i \in l + 1 .. n : txs[i].account # a
         /\ Leads(C, s, txs[l].final)
         /\ s.nonce \in Nat
         /\ C # {} => s.nonce < txs[l].final.nonce
  BY <1>8, <1>9, <1>10, Zenon DEF ReachedIn
<1>12. l \in own /\ \A j \in own : j <= l
  BY <1>2, <1>11
<1>13. last \in own /\ \A j \in own : j <= last
  BY <1>12 DEF last
<1>14. last = l
  <2>1. last <= l /\ l <= last /\ last \in Nat /\ l \in Nat
    BY <1>3, <1>12, <1>13
  <2>. QED  BY <2>1
<1>15. s = txs[l].final => C = {}
  <2>. SUFFICES ASSUME s = txs[l].final, s.nonce < s.nonce
                PROVE  FALSE
    BY <1>11
  <2>1. s.nonce \in Nat
    BY <1>11
  <2>. QED  BY <2>1
<1>. QED  BY <1>5, <1>11, <1>14, <1>15

-----------------------------------------------------------------------------
(* The walk of aggregate_account.                                          *)
After(updates, from) ==
  IF \E u \in updates : u.init = from
  THEN (CHOOSE u \in updates : u.init = from).final
  ELSE from

LEMMA WalkSteps ==
  ASSUME NEW U, Cardinality(U) \in Nat, NEW s
  PROVE  /\ Reached(U, s)[0] = s
         /\ \A k \in 0 .. Cardinality(U) - 1 : Reached(U, s)[k + 1] = After(U, Reached(U, s)[k])
<1>. DEFINE Rule(g, n) == [k \in 0 .. n |-> IF k = 0 THEN s ELSE After(U, g[k - 1])]
            Defined == {n \in Nat : \E g : g = Rule(g, n)}
            N == Cardinality(U)
<1>1. 0 \in Defined
  <2>. DEFINE g == [k \in 0 .. 0 |-> s]
  <2>1. g = Rule(g, 0)
    OBVIOUS
  <2>. QED  BY <2>1, Zenon
<1>2. ASSUME NEW n \in Nat, n \in Defined
      PROVE  n + 1 \in Defined
  <2>1. PICK g : g = Rule(g, n)
    BY <1>2
  <2>. DEFINE h == [k \in 0 .. n + 1 |-> IF k <= n THEN g[k] ELSE After(U, g[k - 1])]
  <2>2. ASSUME NEW k \in 0 .. n + 1
        PROVE  h[k] = IF k = 0 THEN s ELSE After(U, h[k - 1])
    <3>1. CASE k = 0
      BY <2>1, <3>1
    <3>2. CASE k # 0
      <4>1. k - 1 \in 0 .. n /\ k - 1 \in 0 .. n + 1 /\ k - 1 <= n
        BY <3>2
      <4>2. h[k - 1] = g[k - 1]
        BY <4>1
      <4>3. CASE k <= n
        <5>1. k \in 0 .. n /\ h[k] = g[k]
          BY <4>3
        <5>2. g[k] = Rule(g, n)[k]
          BY <2>1
        <5>. QED  BY <3>2, <4>2, <5>1, <5>2
      <4>4. CASE ~(k <= n)
        BY <3>2, <4>2, <4>4
      <4>. QED  BY <4>3, <4>4
    <3>. QED  BY <3>1, <3>2
  <2>3. h = Rule(h, n + 1)
    BY <2>2
  <2>4. \E g2 : g2 = Rule(g2, n + 1)
    <3>. HIDE DEF h, Rule
    <3>. QED  BY <2>3, Zenon
  <2>5. n + 1 \in Nat
    OBVIOUS
  <2>. HIDE DEF Rule
  <2>. QED  BY <2>4, <2>5, Zenon
<1>3. N \in Defined
  <2>1. \A n \in Nat : n \in Defined => n + 1 \in Defined
    BY <1>2, Zenon
  <2>. HIDE DEF Defined
  <2>. QED  BY <1>1, <2>1, Induction, Zenon
<1>. DEFINE w == CHOOSE g : g = Rule(g, N)
<1>4. w = Rule(w, N)
  BY <1>3
<1>5. Reached(U, s) = w
  BY DEF Reached, After
<1>. HIDE DEF w
<1>6. w[0] = s
  BY <1>4
<1>7. ASSUME NEW k \in 0 .. N - 1
      PROVE  w[k + 1] = After(U, w[k])
  <2>1. k + 1 \in 0 .. N /\ k + 1 # 0 /\ (k + 1) - 1 = k
    OBVIOUS
  <2>2. w[k + 1] = Rule(w, N)[k + 1]
    BY <1>4, Zenon
  <2>. QED  BY <2>1, <2>2
<1>. QED  BY <1>5, <1>6, <1>7

(* Every update is met at a place of the walk of its own, and there are as *)
(* many places as updates.                                                 *)
LEMMA WalkMeetsAll ==
  ASSUME NEW U, IsFiniteSet(U), NEW s, NoConflict(U), Aggregates(U, s)
  PROVE  \E h \in [U -> 0 .. Cardinality(U) - 1] :
           /\ \A u, v \in U : h[u] = h[v] => u = v
           /\ \A k \in 0 .. Cardinality(U) - 1 : \E u \in U : h[u] = k
           /\ \A u \in U : /\ Reached(U, s)[h[u]] = u.init
                           /\ Reached(U, s)[h[u] + 1] = u.final
<1>. DEFINE N == Cardinality(U)
            P == 0 .. N - 1
            w == Reached(U, s)
            h == [u \in U |-> CHOOSE k \in P : w[k] = u.init]
<1>1. N \in Nat
  BY FS_CardinalityType
<1>2. \A u \in U : \E k \in P : w[k] = u.init
  BY Zenon DEF Aggregates
<1>3. /\ h \in [U -> P]
      /\ \A u \in U : w[h[u]] = u.init
  <2>. HIDE DEF w, P
  <2>. QED  BY <1>2
<1>4. \A k \in P : w[k + 1] = After(U, w[k])
  BY <1>1, WalkSteps
<1>. HIDE DEF h, w
<1>5. \A u, v \in U : h[u] = h[v] => u = v
  <2>1. ASSUME NEW u \in U, NEW v \in U, h[u] = h[v]
        PROVE  u = v
    <3>1. u.init = v.init
      BY <1>3, <2>1
    <3>. QED  BY <3>1 DEF NoConflict
  <2>. QED  BY <2>1
<1>6. \A k \in P : \E u \in U : h[u] = k
  <2>1. IsFiniteSet(P) /\ Cardinality(P) = N
    <3>1. 0 \in Int /\ N - 1 \in Int
      BY <1>1
    <3>2. IsFiniteSet(P) /\ Cardinality(P) = IF 0 > N - 1 THEN 0 ELSE (N - 1) - 0 + 1
      BY <3>1, FS_Interval
    <3>. QED  BY <1>1, <3>2
  <2>2. h \in Injection(U, P)
    BY <1>3, <1>5 DEF Injection, IsInjective
  <2>. HIDE DEF P
  <2>3. h \in Surjection(U, P)
    BY <2>1, <2>2, FS_Injection
  <2>. QED  BY <2>3 DEF Surjection
<1>7. \A u \in U : w[h[u] + 1] = u.final
  <2>1. ASSUME NEW u \in U
        PROVE  w[h[u] + 1] = u.final
    <3>1. w[h[u]] = u.init /\ h[u] \in P
      BY <1>3
    <3>2. w[h[u] + 1] = After(U, u.init)
      BY <1>4, <3>1
    <3>3. (CHOOSE v \in U : v.init = u.init) = u
      BY DEF NoConflict
    <3>4. After(U, u.init) = u.final
      BY <3>3, Zenon DEF After
    <3>. QED  BY <3>2, <3>4
  <2>. QED  BY <2>1
<1>. QED  BY <1>3, <1>5, <1>6, <1>7 DEF w

(* The updates of the walk, each a batch's, lead where the walk ends.      *)
MergesBatches(U, a) ==
  /\ \A u \in U : Leads(BatchChanges(u.batch, a), u.init, u.final)
  /\ \A u, v \in U : u.batch = v.batch => u = v

LEMMA BatchesApart ==
  ASSUME NEW a, NEW t1, NEW t2, t1 # t2
  PROVE  BatchChanges(t1, a) \cap BatchChanges(t2, a) = {}
<1>1. ASSUME NEW i, NEW j, Exec(t1, i) = Exec(t2, j)
      PROVE  FALSE
  <2>1. Exec(t1, i).key = <<t1, i>> /\ Exec(t2, j).key = <<t2, j>>
    BY DEF Exec
  <2>2. <<t1, i>>[1] = t1 /\ <<t2, j>>[1] = t2
    OBVIOUS
  <2>. QED  BY <1>1, <2>1, <2>2
<1>. QED  BY <1>1, Zenon DEF BatchChanges

LEMMA WalkLeads ==
  ASSUME NEW U, IsFiniteSet(U), NEW s, NEW a, NoConflict(U), Aggregates(U, s),
         MergesBatches(U, a)
  PROVE  Leads(UNION {BatchChanges(u.batch, a) : u \in U}, s, Reached(U, s)[Cardinality(U)])
<1>. DEFINE N == Cardinality(U)
            w == Reached(U, s)
<1>1. N \in Nat
  BY FS_CardinalityType
<1>2. PICK h \in [U -> 0 .. N - 1] :
        /\ \A u, v \in U : h[u] = h[v] => u = v
        /\ \A k \in 0 .. N - 1 : \E u \in U : h[u] = k
        /\ \A u \in U : w[h[u]] = u.init /\ w[h[u] + 1] = u.final
  BY WalkMeetsAll
<1>3. w[0] = s
  BY <1>1, WalkSteps
<1>. HIDE DEF w, N
<1>4. \A u \in U : h[u] \in Nat /\ h[u] < N
  BY <1>1, <1>2
<1>. DEFINE Met(k) == UNION {BatchChanges(u.batch, a) : u \in {v \in U : h[v] < k}}
            T == {k \in Nat : k <= N => Leads(Met(k), s, w[k])}
<1>. HIDE DEF Met
<1>5. 0 \in T
  <2>1. Met(0) = {}
    BY <1>4 DEF Met
  <2>2. Leads(Met(0), s, w[0])
    BY <1>3, <2>1, EmptyLeads
  <2>. QED  BY <2>2
<1>6. ASSUME NEW k \in Nat, k \in T
      PROVE  k + 1 \in T
  <2>. SUFFICES ASSUME k + 1 <= N
                PROVE  Leads(Met(k + 1), s, w[k + 1])
    OBVIOUS
  <2>1. k \in 0 .. N - 1 /\ k <= N
    BY <1>1
  <2>2. PICK u \in U : h[u] = k
    BY <1>2, <2>1
  <2>3. Leads(Met(k), s, u.init)
    <3>1. w[k] = u.init
      BY <1>2, <2>2
    <3>. QED  BY <1>6, <2>1, <3>1
  <2>4. Leads(BatchChanges(u.batch, a), u.init, w[k + 1])
    <3>1. w[k + 1] = u.final
      BY <1>2, <2>2
    <3>2. Leads(BatchChanges(u.batch, a), u.init, u.final)
      BY DEF MergesBatches
    <3>. QED  BY <3>1, <3>2
  <2>5. \A v \in U : h[v] < k + 1 <=> h[v] < k \/ v = u
    <3>1. \A v \in U : h[v] = k <=> v = u
      BY <1>2, <2>2
    <3>. QED  BY <1>4, <3>1
  <2>6. Met(k + 1) = Met(k) \cup BatchChanges(u.batch, a)
    BY <2>5 DEF Met
  <2>7. Met(k) \cap BatchChanges(u.batch, a) = {}
    <3>1. ASSUME NEW v \in U, h[v] < k
          PROVE  BatchChanges(v.batch, a) \cap BatchChanges(u.batch, a) = {}
      <4>1. v # u
        BY <1>4, <2>2, <3>1
      <4>2. v.batch # u.batch
        BY <4>1 DEF MergesBatches
      <4>. QED  BY <4>2, BatchesApart, Zenon
    <3>. QED  BY <3>1 DEF Met
  <2>. QED  BY <2>3, <2>4, <2>6, <2>7, LeadsOn
<1>7. N \in T
  <2>1. \A k \in Nat : k \in T => k + 1 \in T
    BY <1>6, Zenon
  <2>. HIDE DEF T
  <2>. QED  BY <1>1, <1>5, <2>1, Induction, Zenon
<1>8. Met(N) = UNION {BatchChanges(u.batch, a) : u \in U}
  BY <1>4 DEF Met
<1>9. Leads(Met(N), s, w[N])
  <2>1. N <= N
    BY <1>1
  <2>. QED  BY <1>7, <2>1
<1>. QED  BY <1>8, <1>9 DEF w, N

-----------------------------------------------------------------------------
(* What the waiting batches promise about their accounts.                  *)
UpdatesInv ==
  /\ IsFiniteSet(batches)
  /\ \A b \in batches : /\ b.txs \in TxSeqs /\ UpdatesChain(b.txs)
                        /\ b.updates = [a \in Touched(b.txs) |-> MergedUpdate(b.txs, a)]

Merged(txs, a) ==
  [batch |-> txs, init |-> MergedUpdate(txs, a).init, final |-> MergedUpdate(txs, a).final]

LEMMA UpdatesAreMerged ==
  ASSUME UpdatesInv, NEW bs \in SUBSET batches, NEW a, NEW u
  PROVE  u \in UpdatesOf(bs, a)
           <=> \E b \in bs : a \in Touched(b.txs) /\ u = Merged(b.txs, a) /\ u.init # u.final
<1>1. \A b \in bs : /\ DOMAIN b.updates = Touched(b.txs)
                    /\ a \in Touched(b.txs) => b.updates[a] = MergedUpdate(b.txs, a)
  BY Zenon DEF UpdatesInv
<1>2. \A b \in bs : a \in Touched(b.txs) =>
        Merged(b.txs, a)
          = [batch |-> b.txs, init |-> b.updates[a].init, final |-> b.updates[a].final]
  BY <1>1, Zenon DEF Merged
<1>3. UpdatesOf(bs, a) = {v \in {Merged(b.txs, a) : b \in {c \in bs : a \in Touched(c.txs)}} :
                            v.init # v.final}
  BY <1>1, <1>2, Zenon DEF UpdatesOf
<1>. QED  BY <1>3, Zenon

LEMMA UpdatesMergeBatches ==
  ASSUME UpdatesInv, NEW bs \in SUBSET batches, NEW a
  PROVE  /\ IsFiniteSet(UpdatesOf(bs, a))
         /\ MergesBatches(UpdatesOf(bs, a), a)
         /\ UNION {BatchChanges(u.batch, a) : u \in UpdatesOf(bs, a)}
              = UNION {BatchChanges(b.txs, a) : b \in bs}
<1>. DEFINE U == UpdatesOf(bs, a)
<1>1. \A u : u \in U <=> \E b \in bs : a \in Touched(b.txs) /\ u = Merged(b.txs, a)
                                         /\ u.init # u.final
  BY UpdatesAreMerged
<1>2. \A t : /\ Merged(t, a).batch = t
             /\ Merged(t, a).init = MergedUpdate(t, a).init
             /\ Merged(t, a).final = MergedUpdate(t, a).final
  BY DEF Merged
<1>. HIDE DEF U
<1>3. \A u \in U : u = Merged(u.batch, a) /\ \E b \in bs : b.txs = u.batch
  BY <1>1, <1>2
<1>4. \A u, v \in U : u.batch = v.batch => u = v
  <2>1. ASSUME NEW u \in U, NEW v \in U, u.batch = v.batch
        PROVE  u = v
    <3>1. u = Merged(u.batch, a) /\ v = Merged(v.batch, a)
      BY <1>3, Zenon
    <3>. QED  BY <2>1, <3>1, Zenon
  <2>. QED  BY <2>1, Zenon
<1>5. IsFiniteSet(U)
  <2>1. IsFiniteSet(bs)
    BY FS_Subset DEF UpdatesInv
  <2>. DEFINE f == [u \in U |-> CHOOSE b \in bs : b.txs = u.batch]
  <2>2. f \in [U -> bs] /\ \A u \in U : f[u].txs = u.batch
    BY <1>3
  <2>. HIDE DEF f
  <2>3. f \in Injection(U, bs)
    BY <1>4, <2>2 DEF Injection, IsInjective
  <2>. QED  BY <2>1, <2>3, FS_Injection
<1>6. ASSUME NEW b \in bs, a \in Touched(b.txs)
      PROVE  /\ Leads(BatchChanges(b.txs, a), MergedUpdate(b.txs, a).init,
                      MergedUpdate(b.txs, a).final)
             /\ MergedUpdate(b.txs, a).init = MergedUpdate(b.txs, a).final
                  => BatchChanges(b.txs, a) = {}
  <2>1. b.txs \in TxSeqs /\ UpdatesChain(b.txs)
    BY Zenon DEF UpdatesInv
  <2>. QED  BY <1>6, <2>1, BatchLeads, Zenon
<1>7. \A u \in U : Leads(BatchChanges(u.batch, a), u.init, u.final)
  <2>1. ASSUME NEW u \in U
        PROVE  Leads(BatchChanges(u.batch, a), u.init, u.final)
    <3>1. PICK b \in bs : a \in Touched(b.txs) /\ u = Merged(b.txs, a)
      BY <1>1, Zenon
    <3>. QED  BY <1>2, <1>6, <3>1, Zenon
  <2>. QED  BY <2>1, Zenon
<1>8. ASSUME NEW b \in bs, BatchChanges(b.txs, a) # {}
      PROVE  \E u \in U : u.batch = b.txs
  <2>1. a \in Touched(b.txs)
    BY <1>8 DEF BatchChanges, Changes, Touched
  <2>2. MergedUpdate(b.txs, a).init # MergedUpdate(b.txs, a).final
    BY <1>6, <1>8, <2>1, Zenon
  <2>3. Merged(b.txs, a) \in U
    BY <1>1, <1>2, <2>1, <2>2, Zenon
  <2>. QED  BY <1>2, <2>3, Zenon
<1>9. UNION {BatchChanges(u.batch, a) : u \in U} = UNION {BatchChanges(b.txs, a) : b \in bs}
  <2>1. ASSUME NEW e
        PROVE  (\E u \in U : e \in BatchChanges(u.batch, a))
                 <=> (\E b \in bs : e \in BatchChanges(b.txs, a))
    <3>1. ASSUME NEW u \in U, e \in BatchChanges(u.batch, a)
          PROVE  \E b \in bs : e \in BatchChanges(b.txs, a)
      BY <1>3, <3>1, Zenon
    <3>2. ASSUME NEW b \in bs, e \in BatchChanges(b.txs, a)
          PROVE  \E u \in U : e \in BatchChanges(u.batch, a)
      <4>1. PICK u \in U : u.batch = b.txs
        BY <1>8, <3>2
      <4>. QED  BY <3>2, <4>1, Zenon
    <3>. QED  BY <3>1, <3>2, Zenon
  <2>. QED  BY <2>1, Zenon
<1>. QED  BY <1>4, <1>5, <1>7, <1>9, Zenon DEF U, MergesBatches

-----------------------------------------------------------------------------
(* What the accounts of a block need of ProposedBlock::new_at.             *)
NewState(bs, ha, a) ==
  IF UpdatesOf(bs, a) = {} THEN Tip.accounts[a]
  ELSE Reached(UpdatesOf(bs, a), Blk(ha).accounts[a])[Cardinality(UpdatesOf(bs, a))]

NewAccounts(bs, ha) == [a \in Accounts |-> NewState(bs, ha, a)]

LEMMA BlockAccounts ==
  ASSUME NEW bs, NEW proofs, NEW ha, NEW hn, ProposeBlock(bs, proofs, ha, hn)
  PROVE  /\ \A a \in Accounts : UpdatesOf(bs, a) # {} =>
              /\ NoConflict(UpdatesOf(bs, a))
              /\ Aggregates(UpdatesOf(bs, a), Blk(ha).accounts[a])
              /\ Blk(ha).accounts = Tip.accounts
         /\ body' = {b.txs : b \in bs} /\ batches' = batches
         /\ \E e : /\ chain' = Append(chain, e)
                   /\ e.accounts = NewAccounts(bs, ha)
<1>. DEFINE updated == {a \in Accounts : UpdatesOf(bs, a) # {}}
            final(a) == Reached(UpdatesOf(bs, a), Blk(ha).accounts[a])[Cardinality(UpdatesOf(bs, a))]
            acc == [a \in Accounts |-> IF a \in updated THEN final(a) ELSE Tip.accounts[a]]
<1>1. /\ \A a \in updated : /\ NoConflict(UpdatesOf(bs, a))
                            /\ Aggregates(UpdatesOf(bs, a), Blk(ha).accounts[a])
      /\ updated # {} => Blk(ha).accounts = Tip.accounts
      /\ body' = {b.txs : b \in bs} /\ batches' = batches
  BY Zenon DEF ProposeBlock, FreshWitnesses
<1>2. \E x, y : chain' = Append(chain, [notes |-> x, nullifiers |-> y, accounts |-> acc])
  BY Zenon DEF ProposeBlock
<1>3. PICK x, y : chain' = Append(chain, [notes |-> x, nullifiers |-> y, accounts |-> acc])
  BY <1>2, Zenon
<1>4. acc = NewAccounts(bs, ha)
  <2>1. \A a \in Accounts : acc[a] = NewState(bs, ha, a)
    BY Zenon DEF NewState
  <2>. HIDE DEF final
  <2>. QED  BY <2>1 DEF NewAccounts
<1>. DEFINE e == [notes |-> x, nullifiers |-> y, accounts |-> acc]
<1>. HIDE DEF acc
<1>5. e.accounts = acc /\ chain' = Append(chain, e)
  BY <1>3
<1>. HIDE DEF e
<1>6. \A a \in Accounts : UpdatesOf(bs, a) # {} =>
        /\ NoConflict(UpdatesOf(bs, a))
        /\ Aggregates(UpdatesOf(bs, a), Blk(ha).accounts[a])
        /\ Blk(ha).accounts = Tip.accounts
  BY <1>1, Zenon
<1>. QED  BY <1>1, <1>4, <1>5, <1>6, Zenon

(* Each account moves along the transactions of the block that change it.  *)
LEMMA BlockLeads ==
  ASSUME UpdatesInv, NEW bs \in SUBSET batches, NEW a \in Accounts, NEW ha,
         UpdatesOf(bs, a) # {} =>
           /\ NoConflict(UpdatesOf(bs, a))
           /\ Aggregates(UpdatesOf(bs, a), Blk(ha).accounts[a])
           /\ Blk(ha).accounts = Tip.accounts
  PROVE  Leads(UNION {BatchChanges(b.txs, a) : b \in bs}, Tip.accounts[a], NewState(bs, ha, a))
<1>. DEFINE U == UpdatesOf(bs, a)
<1>1. /\ IsFiniteSet(U) /\ MergesBatches(U, a)
      /\ UNION {BatchChanges(u.batch, a) : u \in U} = UNION {BatchChanges(b.txs, a) : b \in bs}
  BY UpdatesMergeBatches, Zenon
<1>2. CASE U = {}
  <2>1. UNION {BatchChanges(u.batch, a) : u \in U} = {}
    BY <1>2
  <2>2. NewState(bs, ha, a) = Tip.accounts[a]
    BY <1>2 DEF NewState
  <2>3. Leads({}, Tip.accounts[a], Tip.accounts[a])
    BY EmptyLeads, Zenon
  <2>. HIDE DEF U
  <2>. QED  BY <1>1, <2>1, <2>2, <2>3, Zenon
<1>3. CASE U # {}
  <2>1. NewState(bs, ha, a) = Reached(U, Tip.accounts[a])[Cardinality(U)]
    BY <1>3 DEF NewState
  <2>2. NoConflict(U) /\ Aggregates(U, Tip.accounts[a])
    BY <1>3
  <2>. HIDE DEF U
  <2>3. Leads(UNION {BatchChanges(u.batch, a) : u \in U}, Tip.accounts[a],
              Reached(U, Tip.accounts[a])[Cardinality(U)])
    BY <1>1, <2>2, WalkLeads, Zenon
  <2>. QED  BY <1>1, <2>1, <2>3
<1>. QED  BY <1>2, <1>3

(* An INSTANCE has the standard modules' operators under its own name.     *)
LEMMA SameCardinality == \A S : L!Cardinality(S) = Cardinality(S)
BY DEF L!Cardinality, Cardinality

(* What the ledger asks of an account's executions.                        *)
Moves(updates, s, f) ==
  LET n == L!Cardinality(updates)
  IN  \E order \in [1 .. n -> updates] :
        /\ \A i, j \in 1 .. n : order[i] = order[j] => i = j
        /\ \A i \in 1 .. n : order[i].tx.init = IF i = 1 THEN s ELSE order[i - 1].tx.final
        /\ f = IF n = 0 THEN s ELSE order[n].tx.final

LEMMA LeadsCounted ==
  ASSUME NEW S, NEW s, NEW f, Leads(S, s, f)
  PROVE  Moves(S, s, f)
<1>1. PICK n, o : Ordered(S, s, f, n, o)
  BY Zenon DEF Leads
<1>2. o \in Bijection(1 .. n, S) /\ n \in Nat
  BY <1>1 DEF Ordered, Bijection, Injection, Surjection, IsInjective
<1>3. L!Cardinality(S) = n
  <2>1. ExistsBijection(1 .. n, S)
    BY <1>2, Zenon DEF ExistsBijection
  <2>. QED  BY <1>2, <2>1, FS_CountingElements, SameCardinality
<1>. QED  BY <1>1, <1>3, Zenon DEF Ordered, Moves

AccountInv ==
  /\ IsChain
  /\ DOMAIN Tip.accounts = Accounts
  /\ UpdatesInv

ChangesOf(execs, a) == {e \in execs : e.tx.account = a /\ e.tx.init # e.tx.final}

LEMMA BlockIsAccountStep ==
  ASSUME AccountInv, NEW bs \in SUBSET batches, NEW proofs, NEW ha, NEW hn,
         ProposeBlock(bs, proofs, ha, hn)
  PROVE  AccountInv' /\ L!AccountStep(Executions')
<1>1. /\ \A a \in Accounts : UpdatesOf(bs, a) # {} =>
              /\ NoConflict(UpdatesOf(bs, a))
              /\ Aggregates(UpdatesOf(bs, a), Blk(ha).accounts[a])
              /\ Blk(ha).accounts = Tip.accounts
      /\ body' = {b.txs : b \in bs} /\ batches' = batches
  BY BlockAccounts, Zenon
<1>2. Tip'.accounts = NewAccounts(bs, ha) /\ IsChain'
  <2>1. PICK e : /\ chain' = Append(chain, e)
                 /\ e.accounts = NewAccounts(bs, ha)
    BY BlockAccounts, Zenon
  <2>2. Tip' = e /\ IsChain'
    BY <2>1, ChainGrows, Zenon DEF AccountInv
  <2>. QED  BY <2>1, <2>2, Zenon
<1>3. AccountInv'
  BY <1>1, <1>2, Zenon DEF AccountInv, UpdatesInv, NewAccounts
<1>4. \A a : ChangesOf(Executions', a)
               = UNION {BatchChanges(b.txs, a) : b \in bs}
  <2>1. ASSUME NEW a, NEW e
        PROVE  e \in Executions' /\ e.tx.account = a /\ e.tx.init # e.tx.final
                 <=> \E b \in bs : e \in BatchChanges(b.txs, a)
    <3>1. \A txs, i : Exec(txs, i).tx = txs[i]
      BY DEF Exec
    <3>2. e \in Executions' <=> \E b \in bs : \E i \in DOMAIN b.txs : e = Exec(b.txs, i)
      <4>1. e \in Executions' <=> \E txs \in body' : \E i \in DOMAIN txs : e = Exec(txs, i)
        <5>1. Executions' = UNION {{Exec(txs, i) : i \in DOMAIN txs} : txs \in body'}
          BY Zenon DEF Executions, Exec
        <5>. QED  BY <5>1
      <4>. QED  BY <1>1, <4>1, Zenon
    <3>3. \A b : e \in BatchChanges(b.txs, a)
                   <=> \E i \in DOMAIN b.txs : Changes(b.txs, a, i) /\ e = Exec(b.txs, i)
      BY Zenon DEF BatchChanges
    <3>4. \A txs, i : e = Exec(txs, i) =>
            (e.tx.account = a /\ e.tx.init # e.tx.final <=> Changes(txs, a, i))
      <4>. SUFFICES ASSUME NEW txs, NEW i, e = Exec(txs, i)
                    PROVE  e.tx.account = a /\ e.tx.init # e.tx.final <=> Changes(txs, a, i)
        BY Zenon
      <4>1. e.tx = txs[i]
        BY <3>1, Zenon
      <4>. QED  BY <4>1 DEF Changes
    <3>. QED  BY <3>2, <3>3, <3>4, Zenon
  <2>. QED  BY <2>1 DEF ChangesOf
<1>5. ASSUME NEW a \in Accounts
      PROVE  Leads(ChangesOf(Executions', a),
                   Tip.accounts[a], Tip'.accounts[a])
  <2>1. Leads(UNION {BatchChanges(b.txs, a) : b \in bs}, Tip.accounts[a], NewState(bs, ha, a))
    BY <1>1, BlockLeads, Zenon DEF AccountInv
  <2>2. Tip'.accounts[a] = NewState(bs, ha, a)
    BY <1>2 DEF NewAccounts
  <2>. QED  BY <1>4, <2>1, <2>2, Zenon
<1>6. L!AccountStep(Executions')
  <2>1. DOMAIN Tip.accounts = Accounts
    BY DEF AccountInv
  <2>2. \A a \in DOMAIN Tip.accounts :
          Moves({e \in Executions' : e.tx.account = a /\ e.tx.init # e.tx.final},
                Tip.accounts[a], Tip'.accounts[a])
    BY <1>5, <2>1, LeadsCounted, Zenon DEF ChangesOf
  <2>. QED  BY <2>2, Zenon DEF L!AccountStep, Moves
<1>. QED  BY <1>3, <1>6

(* The invariant holds: ProposedBatch::new refuses transactions that do    *)
(* not follow each other, and nothing changes a batch while it waits.      *)
LEMMA BatchKeepsAccountInv ==
  ASSUME AccountInv, NEW txs \in TxSeqs, NEW proofs, ProposeBatch(txs, proofs)
  PROVE  AccountInv'
<1>. DEFINE b == NewBatch(txs, proofs)
<1>1. batches' = batches \cup {b} /\ chain' = chain /\ UpdatesChain(txs)
  BY BatchMade
<1>2. b.txs = txs /\ b.updates = [a \in Touched(txs) |-> MergedUpdate(txs, a)]
  BY BatchFields
<1>. HIDE DEF b
<1>3. IsFiniteSet(batches')
  BY <1>1, FS_AddElement DEF AccountInv, UpdatesInv
<1>4. /\ b.txs \in TxSeqs /\ UpdatesChain(b.txs)
      /\ b.updates = [a \in Touched(b.txs) |-> MergedUpdate(b.txs, a)]
  BY <1>1, <1>2, Zenon
<1>5. UpdatesInv'
  BY <1>1, <1>3, <1>4, Zenon DEF AccountInv, UpdatesInv
<1>6. IsChain' /\ DOMAIN Tip'.accounts = Accounts
  BY <1>1 DEF AccountInv, IsChain, Tip, Blk, Height
<1>. QED  BY <1>5, <1>6 DEF AccountInv

LEMMA AccountInvHolds == Spec => []AccountInv
<1>1. Init => AccountInv
  <2>. SUFFICES ASSUME Init
                PROVE  AccountInv
    OBVIOUS
  <2>1. IsChain /\ DOMAIN Tip.accounts = Accounts
    BY GenesisIsChain, NonceAssumption
  <2>2. batches = {}
    BY DEF Init
  <2>. QED  BY <2>1, <2>2, FS_EmptySet DEF AccountInv, UpdatesInv
<1>2. AccountInv /\ [Next]_vars => AccountInv'
  <2>. SUFFICES ASSUME AccountInv, [Next]_vars
                PROVE  AccountInv'
    OBVIOUS
  <2>1. CASE \E txs \in TxSeqs : \E proofs \in ProofsFor(TxInputs(txs)) :
               ProposeBatch(txs, proofs)
    BY <2>1, BatchKeepsAccountInv, Zenon
  <2>2. CASE chain' = chain /\ batches' \subseteq batches
    <3>1. IsChain' /\ DOMAIN Tip'.accounts = Accounts
      BY <2>2 DEF AccountInv, IsChain, Tip, Blk, Height
    <3>2. IsFiniteSet(batches')
      BY <2>2, FS_Subset DEF AccountInv, UpdatesInv
    <3>. QED  BY <2>2, <3>1, <3>2 DEF AccountInv, UpdatesInv
  <2>3. DropBatch \/ UNCHANGED vars => chain' = chain /\ batches' \subseteq batches
    BY DEF DropBatch, vars
  <2>4. CASE \E bs \in SUBSET batches : \E proofs \in ProofsFor(BlockInputs(bs)) :
               \E ha, hn \in 0 .. Height : ProposeBlock(bs, proofs, ha, hn)
    BY <2>4, BlockIsAccountStep, Zenon
  <2>. QED  BY <2>1, <2>2, <2>3, <2>4, Zenon DEF Next
<1>. QED  BY <1>1, <1>2, PTL DEF Spec

-----------------------------------------------------------------------------
(* The tracker.  A container turns the inputs and outputs of its parts     *)
(* into its own; created are the notes on chain.                           *)

WellFormed(inputs) ==
  /\ \A x \in inputs : /\ x = [tag |-> x.tag, nullifier |-> x.nullifier, header |-> x.header]
                       /\ \A h \in x.header : h.id = x.nullifier
                       /\ \A g, h \in x.header : g = h
  /\ \A x, y \in inputs : x.tag = y.tag => x = y

(* Authenticated inputs consume notes that are on chain.                   *)
Backed(inputs, created) ==
  \A x \in inputs : IsAuthenticated(x) => \E n \in created : n.id = x.nullifier

(* Inclusion proofs are about notes that are on chain.                     *)
ProofsHold(inputs, proofs, created) ==
  \A x \in inputs : HasProof(x, proofs) => x.header \subseteq created /\ x.header # {}

(* Input y lost its header only because its note is on chain.              *)
Same(x, y, created) ==
  /\ x.tag = y.tag /\ x.nullifier = y.nullifier
  /\ x.header = y.header \/ (x.header = {} /\ y.header \subseteq created)

KeptTag(kept, tag) == \E x \in kept : x.tag = tag

(* The kept inputs and outputs come from the container's parts, and what   *)
(* disappeared did so in pairs of an input and the output it names.        *)
Traced(inputs, outputs, keptIn, keptOut, created) ==
  /\ \A x \in keptIn : \E y \in inputs : Same(x, y, created)
  /\ keptOut \subseteq outputs
  /\ \A y \in inputs : KeptTag(keptIn, y.tag) \/ \E o \in outputs \ keptOut : o.note \in y.header
  /\ \A o \in outputs \ keptOut : \E y \in inputs : o.note \in y.header /\ ~KeptTag(keptIn, y.tag)

LEMMA AuthenticateFacts ==
  ASSUME NEW inputs, NEW proofs, NEW created, WellFormed(inputs),
         ProofsHold(inputs, proofs, created), NEW y \in inputs
  PROVE  /\ Same(Authenticate(y, proofs), y, created)
         /\ Authenticate(y, proofs).header # {} => Authenticate(y, proofs) = y
         /\ Authenticate(y, proofs) = [tag |-> y.tag, nullifier |-> y.nullifier,
                                       header |-> Authenticate(y, proofs).header]
         /\ Authenticate(y, proofs).header \subseteq y.header
<1>. DEFINE a == [tag |-> y.tag, nullifier |-> y.nullifier, header |-> y.header]
<1>1. y = a
  BY DEF WellFormed
<1>2. CASE HasProof(y, proofs)
  <2>1. Authenticate(y, proofs) = [a EXCEPT !.header = {}]
    BY <1>1, <1>2 DEF Authenticate
  <2>2. Authenticate(y, proofs) = [tag |-> y.tag, nullifier |-> y.nullifier, header |-> {}]
    BY <2>1
  <2>3. y.header \subseteq created
    BY <1>2 DEF ProofsHold
  <2>. QED  BY <2>2, <2>3 DEF Same
<1>3. CASE ~HasProof(y, proofs)
  <2>1. Authenticate(y, proofs) = y
    BY <1>3 DEF Authenticate
  <2>. QED  BY <1>1, <2>1 DEF Same
<1>. QED  BY <1>2, <1>3

(* KeptInputs and KeptOutputs of an accepted container.                    *)
LEMMA TrackerTraces ==
  ASSUME NEW inputs, NEW outputs, NEW proofs, NEW created, WellFormed(inputs),
         ProofsHold(inputs, proofs, created), NoDuplicates(inputs, outputs),
         NoMismatch(AuthenticateAll(inputs, proofs), outputs)
  PROVE  Traced(inputs, outputs,
                KeptInputs(AuthenticateAll(inputs, proofs), outputs),
                KeptOutputs(AuthenticateAll(inputs, proofs), outputs), created)
<1>. DEFINE A == AuthenticateAll(inputs, proofs)
            K == KeptInputs(A, outputs)
            O == KeptOutputs(A, outputs)
<1>1. \A x \in A : \E y \in inputs : x = Authenticate(y, proofs)
  BY DEF AuthenticateAll
<1>2. \A y \in inputs : Authenticate(y, proofs) \in A
  BY DEF AuthenticateAll
<1>3. K \subseteq A /\ \A x \in A : x \in K <=> ~\E o \in outputs : o.note.id \in HeaderIds(x)
  BY DEF KeptInputs, ErasedInputs, Creates
<1>4. O \subseteq outputs /\ \A o \in outputs : o \in O <=> \A x \in A : o.note.id \notin HeaderIds(x)
  BY DEF KeptOutputs
<1>5. \A x \in A, o \in outputs : o.note.id \in HeaderIds(x) => o.note \in x.header
  BY DEF NoMismatch, HeaderIds
<1>6. \A x \in A, o \in outputs : o.note \in x.header => o.note.id \in HeaderIds(x)
  BY DEF HeaderIds
<1>. HIDE DEF A, K, O
<1>7. \A x \in K : \E y \in inputs : Same(x, y, created)
  BY <1>1, <1>3, AuthenticateFacts
<1>8. ASSUME NEW y \in inputs
      PROVE  KeptTag(K, y.tag) \/ \E o \in outputs \ O : o.note \in y.header
  <2>. DEFINE x == Authenticate(y, proofs)
  <2>1. x \in A /\ x.tag = y.tag /\ x.header \subseteq y.header
    BY <1>2, AuthenticateFacts DEF Same
  <2>. HIDE DEF x
  <2>2. CASE x \in K
    BY <2>1, <2>2 DEF KeptTag
  <2>3. CASE x \notin K
    <3>1. PICK o \in outputs : o.note.id \in HeaderIds(x)
      BY <1>3, <2>1, <2>3
    <3>. QED  BY <1>4, <1>5, <2>1, <3>1
  <2>. QED  BY <2>2, <2>3
<1>9. ASSUME NEW o \in outputs \ O
      PROVE  \E y \in inputs : o.note \in y.header /\ ~KeptTag(K, y.tag)
  <2>1. PICK x \in A : o.note.id \in HeaderIds(x)
    BY <1>4
  <2>2. PICK y \in inputs : x = Authenticate(y, proofs)
    BY <1>1
  <2>3. o.note \in x.header
    BY <1>5, <2>1
  <2>4. x = y
    BY <2>2, <2>3, AuthenticateFacts
  <2>5. ASSUME NEW z \in K, z.tag = y.tag
        PROVE  FALSE
    <3>1. PICK w \in inputs : z = Authenticate(w, proofs)
      BY <1>1, <1>3
    <3>2. w.tag = y.tag
      BY <2>5, <3>1, AuthenticateFacts DEF Same
    <3>3. w = y
      BY <3>2 DEF WellFormed
    <3>4. z = x
      BY <2>2, <3>1, <3>3
    <3>. QED  BY <1>3, <2>1, <2>5, <3>4
  <2>. QED  BY <2>3, <2>4, <2>5 DEF KeptTag
<1>. QED  BY <1>4, <1>7, <1>8, <1>9, Zenon DEF Traced, A, K, O

LEMMA TrackerKeepsForm ==
  ASSUME NEW inputs, NEW outputs, NEW proofs, NEW created, WellFormed(inputs),
         ProofsHold(inputs, proofs, created), Backed(inputs, created)
  PROVE  /\ WellFormed(KeptInputs(AuthenticateAll(inputs, proofs), outputs))
         /\ Backed(KeptInputs(AuthenticateAll(inputs, proofs), outputs), created)
<1>. DEFINE K == KeptInputs(AuthenticateAll(inputs, proofs), outputs)
<1>1. \A x \in K : \E y \in inputs : x = Authenticate(y, proofs)
  BY DEF KeptInputs, AuthenticateAll
<1>. HIDE DEF K
<1>2. ASSUME NEW x \in K
      PROVE  /\ x = [tag |-> x.tag, nullifier |-> x.nullifier, header |-> x.header]
             /\ \A h \in x.header : h.id = x.nullifier
             /\ \A g, h \in x.header : g = h
             /\ IsAuthenticated(x) => \E n \in created : n.id = x.nullifier
  <2>1. PICK y \in inputs : x = Authenticate(y, proofs)
    BY <1>1
  <2>2. /\ x = [tag |-> y.tag, nullifier |-> y.nullifier, header |-> x.header]
        /\ x.header \subseteq y.header
    BY <2>1, AuthenticateFacts
  <2>3. x.tag = y.tag /\ x.nullifier = y.nullifier
    BY <2>2
  <2>4. /\ \A h \in x.header : h.id = x.nullifier
        /\ \A g, h \in x.header : g = h
    BY <2>2, <2>3 DEF WellFormed
  <2>5. ASSUME IsAuthenticated(x)
        PROVE  \E n \in created : n.id = x.nullifier
    <3>1. CASE HasProof(y, proofs)
      <4>1. PICK h \in y.header : h \in created
        BY <3>1 DEF ProofsHold
      <4>. QED  BY <2>3, <4>1 DEF WellFormed
    <3>2. CASE ~HasProof(y, proofs)
      BY <2>1, <2>5, <3>2 DEF Authenticate, Backed
    <3>. QED  BY <3>1, <3>2
  <2>. QED  BY <2>2, <2>3, <2>4, <2>5
<1>3. ASSUME NEW x \in K, NEW z \in K, x.tag = z.tag
      PROVE  x = z
  <2>1. PICK y \in inputs : x = Authenticate(y, proofs)
    BY <1>1
  <2>2. PICK w \in inputs : z = Authenticate(w, proofs)
    BY <1>1
  <2>3. y.tag = w.tag
    BY <1>3, <2>1, <2>2, AuthenticateFacts DEF Same
  <2>. QED  BY <2>1, <2>2, <2>3 DEF WellFormed
<1>4. WellFormed(K) /\ Backed(K, created)
  BY <1>2, <1>3 DEF WellFormed, Backed
<1>. QED  BY <1>4 DEF K

-----------------------------------------------------------------------------
(* What waiting batches and blocks present to the tracker.                 *)
BatchInv(b) ==
  /\ b.txs \in TxSeqs
  /\ NoDuplicates(TxInputs(b.txs), TxOutputs(b.txs))
  /\ WellFormed(b.inputs)
  /\ Backed(b.inputs, Created)
  /\ Traced(TxInputs(b.txs), TxOutputs(b.txs), b.inputs, b.outputs, Created)

LEMMA TxInputsFormed ==
  ASSUME NEW txs \in TxSeqs
  PROVE  WellFormed(TxInputs(txs))
<1>1. PICK n \in 1 .. MAX_TXS : txs \in [1 .. n -> Txs]
  BY DEF TxSeqs
<1>2. \A i \in DOMAIN txs : txs[i] \in Txs
  BY <1>1
<1>3. ASSUME NEW x \in TxInputs(txs)
      PROVE  \E i \in DOMAIN txs : \E j \in DOMAIN txs[i].inputs :
               x = [tag |-> <<i, j>>, nullifier |-> txs[i].inputs[j].nullifier,
                    header |-> txs[i].inputs[j].header]
  BY <1>3 DEF TxInputs
<1>4. ASSUME NEW x \in TxInputs(txs)
      PROVE  /\ x = [tag |-> x.tag, nullifier |-> x.nullifier, header |-> x.header]
             /\ \A h \in x.header : h.id = x.nullifier
             /\ \A g, h \in x.header : g = h
  <2>i. PICK i \in DOMAIN txs : \E j \in DOMAIN txs[i].inputs :
               x = [tag |-> <<i, j>>, nullifier |-> txs[i].inputs[j].nullifier,
                    header |-> txs[i].inputs[j].header]
    BY <1>3
  <2>1. PICK j \in DOMAIN txs[i].inputs :
               x = [tag |-> <<i, j>>, nullifier |-> txs[i].inputs[j].nullifier,
                    header |-> txs[i].inputs[j].header]
    BY <2>i
  <2>2. /\ x.nullifier = txs[i].inputs[j].nullifier
        /\ x.header = txs[i].inputs[j].header
        /\ x = [tag |-> x.tag, nullifier |-> x.nullifier, header |-> x.header]
    BY <2>1
  <2>. QED  BY <1>2, <2>2, BlockAssumption
<1>5. ASSUME NEW x \in TxInputs(txs), NEW y \in TxInputs(txs), x.tag = y.tag
      PROVE  x = y
  <2>i. PICK i \in DOMAIN txs : \E j \in DOMAIN txs[i].inputs :
               x = [tag |-> <<i, j>>, nullifier |-> txs[i].inputs[j].nullifier,
                    header |-> txs[i].inputs[j].header]
    BY <1>3
  <2>1. PICK j \in DOMAIN txs[i].inputs :
               x = [tag |-> <<i, j>>, nullifier |-> txs[i].inputs[j].nullifier,
                    header |-> txs[i].inputs[j].header]
    BY <2>i
  <2>k. PICK k \in DOMAIN txs : \E l \in DOMAIN txs[k].inputs :
               y = [tag |-> <<k, l>>, nullifier |-> txs[k].inputs[l].nullifier,
                    header |-> txs[k].inputs[l].header]
    BY <1>3
  <2>2. PICK l \in DOMAIN txs[k].inputs :
               y = [tag |-> <<k, l>>, nullifier |-> txs[k].inputs[l].nullifier,
                    header |-> txs[k].inputs[l].header]
    BY <2>k
  <2>3. <<i, j>> = <<k, l>>
    BY <1>5, <2>1, <2>2
  <2>4. i = k /\ j = l
    BY <2>3
  <2>. QED  BY <2>1, <2>2, <2>4
<1>. QED  BY <1>4, <1>5 DEF WellFormed

LEMMA BlockInputsFormed ==
  ASSUME NEW bs, BatchesFit(bs), \A b \in bs : BatchInv(b)
  PROVE  WellFormed(BlockInputs(bs)) /\ Backed(BlockInputs(bs), Created)
<1>3. ASSUME NEW x \in BlockInputs(bs)
      PROVE  \E b \in bs : \E y \in b.inputs :
               x = [tag |-> <<b.txs, y.tag>>, nullifier |-> y.nullifier, header |-> y.header]
  BY <1>3 DEF BlockInputs
<1>4. ASSUME NEW x \in BlockInputs(bs)
      PROVE  /\ x = [tag |-> x.tag, nullifier |-> x.nullifier, header |-> x.header]
             /\ \A h \in x.header : h.id = x.nullifier
             /\ \A g, h \in x.header : g = h
             /\ IsAuthenticated(x) => \E n \in Created : n.id = x.nullifier
  <2>b. PICK b \in bs : \E y \in b.inputs :
               x = [tag |-> <<b.txs, y.tag>>, nullifier |-> y.nullifier, header |-> y.header]
    BY <1>3
  <2>1. PICK y \in b.inputs :
               x = [tag |-> <<b.txs, y.tag>>, nullifier |-> y.nullifier, header |-> y.header]
    BY <2>b, Zenon
  <2>2. /\ x.nullifier = y.nullifier /\ x.header = y.header
        /\ x = [tag |-> x.tag, nullifier |-> x.nullifier, header |-> x.header]
    BY <2>1
  <2>3. WellFormed(b.inputs) /\ Backed(b.inputs, Created)
    BY DEF BatchInv
  <2>4. IsAuthenticated(x) => \E n \in Created : n.id = x.nullifier
    BY <2>2, <2>3, Zenon DEF Backed, IsAuthenticated
  <2>5. /\ \A h \in x.header : h.id = x.nullifier
        /\ \A g, h \in x.header : g = h
    BY <2>2, <2>3 DEF WellFormed
  <2>. QED  BY <2>2, <2>4, <2>5
<1>5. ASSUME NEW x \in BlockInputs(bs), NEW y \in BlockInputs(bs), x.tag = y.tag
      PROVE  x = y
  <2>b. PICK b \in bs : \E v \in b.inputs :
               x = [tag |-> <<b.txs, v.tag>>, nullifier |-> v.nullifier, header |-> v.header]
    BY <1>3
  <2>1. PICK v \in b.inputs :
               x = [tag |-> <<b.txs, v.tag>>, nullifier |-> v.nullifier, header |-> v.header]
    BY <2>b, Zenon
  <2>c. PICK c \in bs : \E w \in c.inputs :
               y = [tag |-> <<c.txs, w.tag>>, nullifier |-> w.nullifier, header |-> w.header]
    BY <1>3
  <2>2. PICK w \in c.inputs :
               y = [tag |-> <<c.txs, w.tag>>, nullifier |-> w.nullifier, header |-> w.header]
    BY <2>c, Zenon
  <2>3. <<b.txs, v.tag>> = <<c.txs, w.tag>>
    BY <1>5, <2>1, <2>2
  <2>4. b.txs = c.txs /\ v.tag = w.tag
    BY <2>3
  <2>5. b = c
    BY <2>4 DEF BatchesFit
  <2>6. v = w
    BY <2>4, <2>5 DEF BatchInv, WellFormed
  <2>. QED  BY <2>1, <2>2, <2>4, <2>6
<1>. QED  BY <1>4, <1>5 DEF WellFormed, Backed

(* Proofs the tracker accepted are about notes of the chain.               *)
LEMMA AcceptedProofsHold ==
  ASSUME NEW inputs, WellFormed(inputs), NEW proofs \in ProofsFor(inputs),
         \A x \in inputs : ProofVerifies(x, proofs, NotesOf, Height)
  PROVE  ProofsHold(inputs, proofs, Created)
<1>1. \A id \in DOMAIN proofs : proofs[id] \in 0 .. Height
  BY DEF ProofsFor
<1>. SUFFICES ASSUME NEW x \in inputs, HasProof(x, proofs)
              PROVE  x.header \subseteq Created /\ x.header # {}
  BY DEF ProofsHold
<1>2. PICK h \in x.header : h.id \in DOMAIN proofs
  BY DEF HasProof, HeaderIds
<1>3. h \in NotesOf[proofs[h.id]]
  BY <1>2 DEF ProofVerifies
<1>4. h \in Created
  BY <1>1, <1>2, <1>3 DEF Created
<1>5. \A g \in x.header : g = h
  BY DEF WellFormed
<1>. QED  BY <1>4, <1>5

LEMMA ProvenIsBacked ==
  ASSUME NEW txs, \A i \in DOMAIN txs : ProvenBy(txs[i], Height)
  PROVE  Backed(TxInputs(txs), Created)
<1>. SUFFICES ASSUME NEW x \in TxInputs(txs), IsAuthenticated(x)
              PROVE  \E n \in Created : n.id = x.nullifier
  BY DEF Backed
<1>i. PICK i \in DOMAIN txs : \E j \in DOMAIN txs[i].inputs :
             x = [tag |-> <<i, j>>, nullifier |-> txs[i].inputs[j].nullifier,
                  header |-> txs[i].inputs[j].header]
  BY DEF TxInputs
<1>1. PICK j \in DOMAIN txs[i].inputs :
             x = [tag |-> <<i, j>>, nullifier |-> txs[i].inputs[j].nullifier,
                  header |-> txs[i].inputs[j].header]
  BY <1>i
<1>2. x.nullifier = txs[i].inputs[j].nullifier /\ txs[i].inputs[j].header = {}
  BY <1>1 DEF IsAuthenticated
<1>3. PICK k \in 0 .. Height : \E n \in NotesOf[k] : n.id = x.nullifier
  BY <1>2 DEF ProvenBy
<1>. QED  BY <1>3 DEF Created

-----------------------------------------------------------------------------
(* The chain and the waiting batches agree.                                *)
LedgerInv ==
  /\ IsChain
  /\ NullifierHasNote
  /\ \A b \in batches : BatchInv(b)

KeptBlockInputs(bs, proofs) ==
  KeptInputs(AuthenticateAll(BlockInputs(bs), proofs), BlockOutputs(bs))

KeptBlockOutputs(bs, proofs) ==
  KeptOutputs(AuthenticateAll(BlockInputs(bs), proofs), BlockOutputs(bs))

(* What the notes of a block need of ProposedBlock::new_at.                *)
LEMMA BlockMade ==
  ASSUME NEW bs, NEW proofs, NEW ha, NEW hn, ProposeBlock(bs, proofs, ha, hn)
  PROVE  /\ BatchesFit(bs)
         /\ TrackerAccepts(BlockInputs(bs), BlockOutputs(bs), proofs, NotesOf, Height)
         /\ \A x \in KeptBlockInputs(bs, proofs) :
              IsAuthenticated(x) /\ x.nullifier \notin Tip.nullifiers
         /\ body' = {b.txs : b \in bs} /\ batches' = batches
         /\ \E e : /\ chain' = Append(chain, e)
                   /\ e.notes = {o.note : o \in KeptBlockOutputs(bs, proofs)}
                   /\ e.nullifiers = Tip.nullifiers
                                       \cup {x.nullifier : x \in KeptBlockInputs(bs, proofs)}
<1>. DEFINE K == KeptBlockInputs(bs, proofs)
            O == KeptBlockOutputs(bs, proofs)
            up == {a \in Accounts : UpdatesOf(bs, a) # {}}
<1>1. /\ BatchesFit(bs)
      /\ TrackerAccepts(BlockInputs(bs), BlockOutputs(bs), proofs, NotesOf, Height)
      /\ \A x \in K : IsAuthenticated(x)
      /\ \A x \in K : x.nullifier \notin Blk(hn).nullifiers
      /\ FreshWitnesses(up, K, ha, hn)
      /\ body' = {b.txs : b \in bs} /\ batches' = batches
  BY Zenon DEF ProposeBlock, KeptBlockInputs
<1>2. \E acc : chain' = Append(chain,
         [notes |-> {o.note : o \in O},
          nullifiers |-> Tip.nullifiers \cup {x.nullifier : x \in K},
          accounts |-> acc])
  BY Zenon DEF ProposeBlock, KeptBlockInputs, KeptBlockOutputs
<1>3. PICK acc : chain' = Append(chain,
         [notes |-> {o.note : o \in O},
          nullifiers |-> Tip.nullifiers \cup {x.nullifier : x \in K},
          accounts |-> acc])
  BY <1>2, Zenon
<1>. HIDE DEF K, O, up
<1>. DEFINE e == [notes |-> {o.note : o \in O},
                  nullifiers |-> Tip.nullifiers \cup {x.nullifier : x \in K},
                  accounts |-> acc]
<1>4. /\ e.notes = {o.note : o \in O}
      /\ e.nullifiers = Tip.nullifiers \cup {x.nullifier : x \in K}
  BY Zenon
<1>5. \A x \in K : x.nullifier \notin Tip.nullifiers
  BY <1>1, Zenon DEF FreshWitnesses
<1>6. chain' = Append(chain, e)
  BY <1>3
<1>. HIDE DEF e
<1>. QED  BY <1>1, <1>4, <1>5, <1>6, Zenon DEF K, O

LEMMA CreatedGrows ==
  ASSUME IsChain, NEW e, chain' = Append(chain, e)
  PROVE  Created' = Created \cup e.notes
<1>1. /\ Height \in Nat /\ Height' = Height + 1 /\ Tip' = e
      /\ \A k \in 0 .. Height : NotesOf'[k] = NotesOf[k]
  BY ChainGrows, ChainFacts
<1>2. NotesOf'[Height + 1] = e.notes
  BY <1>1 DEF NotesOf, Tip
<1>3. 0 .. Height' = (0 .. Height) \cup {Height + 1}
  BY <1>1
<1>4. Created' = UNION {NotesOf'[k] : k \in 0 .. Height'}
  BY DEF Created
<1>5. Created = UNION {NotesOf[k] : k \in 0 .. Height}
  BY DEF Created
<1>6. \A n : n \in Created' <=> \E k \in 0 .. Height' : n \in NotesOf'[k]
  BY <1>4
<1>7. \A n : n \in Created <=> \E k \in 0 .. Height : n \in NotesOf[k]
  BY <1>5
<1>8. \A n : n \in Created' <=> n \in Created \/ n \in e.notes
  BY <1>1, <1>2, <1>3, <1>6, <1>7
<1>. QED  BY <1>8

(* Nothing a batch relies on goes away.                                    *)
LEMMA BatchInvStays ==
  ASSUME NEW b, BatchInv(b), Created \subseteq Created'
  PROVE  BatchInv(b)'
<1>1. Backed(b.inputs, Created')
  BY DEF BatchInv, Backed
<1>2. \A x, y : Same(x, y, Created) => Same(x, y, Created')
  BY DEF Same
<1>3. Traced(TxInputs(b.txs), TxOutputs(b.txs), b.inputs, b.outputs, Created')
  BY <1>2, Zenon DEF BatchInv, Traced
<1>. QED  BY <1>1, <1>3 DEF BatchInv

LEMMA ChainStays ==
  ASSUME LedgerInv, chain' = chain
  PROVE  Created' = Created /\ Tip' = Tip /\ IsChain' /\ NullifierHasNote'
<1>1. Height' = Height /\ \A k : Blk(k)' = Blk(k)
  BY DEF Height, Blk
<1>2. NotesOf' = NotesOf
  BY <1>1 DEF NotesOf
<1>3. Created' = Created
  BY <1>1, <1>2 DEF Created
<1>4. IsChain'
  BY DEF LedgerInv, IsChain
<1>5. NullifierHasNote'
  BY <1>1, <1>2 DEF LedgerInv, NullifierHasNote
<1>. QED  BY <1>1, <1>3, <1>4, <1>5 DEF Tip

LEMMA BatchKeepsLedgerInv ==
  ASSUME LedgerInv, NEW txs \in TxSeqs, NEW proofs \in ProofsFor(TxInputs(txs)),
         ProposeBatch(txs, proofs)
  PROVE  LedgerInv'
<1>. DEFINE nb == NewBatch(txs, proofs)
<1>1. /\ batches' = batches \cup {nb} /\ chain' = chain
      /\ \A i \in DOMAIN txs : ProvenBy(txs[i], Height)
      /\ TrackerAccepts(TxInputs(txs), TxOutputs(txs), proofs, NotesOf, Height)
  BY BatchMade
<1>2. /\ nb.txs = txs /\ nb.inputs = BatchInputs(txs, proofs)
      /\ nb.outputs = BatchOutputs(txs, proofs)
  BY BatchFields, Zenon
<1>. HIDE DEF nb
<1>3. /\ \A x \in TxInputs(txs) : ProofVerifies(x, proofs, NotesOf, Height)
      /\ NoDuplicates(TxInputs(txs), TxOutputs(txs))
      /\ NoMismatch(AuthenticateAll(TxInputs(txs), proofs), TxOutputs(txs))
  BY <1>1 DEF TrackerAccepts
<1>4. WellFormed(TxInputs(txs)) /\ Backed(TxInputs(txs), Created)
  BY <1>1, TxInputsFormed, ProvenIsBacked
<1>5. ProofsHold(TxInputs(txs), proofs, Created)
  BY <1>3, <1>4, AcceptedProofsHold
<1>6. Traced(TxInputs(txs), TxOutputs(txs), nb.inputs, nb.outputs, Created)
  BY <1>2, <1>3, <1>4, <1>5, TrackerTraces DEF BatchInputs, BatchOutputs
<1>7. WellFormed(nb.inputs) /\ Backed(nb.inputs, Created)
  BY <1>2, <1>4, <1>5, TrackerKeepsForm DEF BatchInputs
<1>8. BatchInv(nb)
  BY <1>2, <1>3, <1>6, <1>7 DEF BatchInv
<1>9. Created' = Created /\ IsChain' /\ NullifierHasNote'
  BY <1>1, ChainStays
<1>10. \A b \in batches' : BatchInv(b)'
  BY <1>1, <1>8, <1>9, BatchInvStays DEF LedgerInv
<1>. QED  BY <1>9, <1>10 DEF LedgerInv

(* What the tracker found out about an accepted block.                     *)
LEMMA BlockTraced ==
  ASSUME LedgerInv, NEW bs \in SUBSET batches, NEW proofs \in ProofsFor(BlockInputs(bs)),
         NEW ha, NEW hn, ProposeBlock(bs, proofs, ha, hn)
  PROVE  /\ \A b \in bs : BatchInv(b)
         /\ NoDuplicates(BlockInputs(bs), BlockOutputs(bs))
         /\ WellFormed(BlockInputs(bs))
         /\ Traced(BlockInputs(bs), BlockOutputs(bs), KeptBlockInputs(bs, proofs),
                   KeptBlockOutputs(bs, proofs), Created)
         /\ WellFormed(KeptBlockInputs(bs, proofs))
         /\ Backed(KeptBlockInputs(bs, proofs), Created)
<1>1. /\ BatchesFit(bs)
      /\ TrackerAccepts(BlockInputs(bs), BlockOutputs(bs), proofs, NotesOf, Height)
  BY BlockMade, Zenon
<1>2. \A b \in bs : BatchInv(b)
  BY DEF LedgerInv
<1>3. /\ \A x \in BlockInputs(bs) : ProofVerifies(x, proofs, NotesOf, Height)
      /\ NoDuplicates(BlockInputs(bs), BlockOutputs(bs))
      /\ NoMismatch(AuthenticateAll(BlockInputs(bs), proofs), BlockOutputs(bs))
  BY <1>1 DEF TrackerAccepts
<1>4. WellFormed(BlockInputs(bs)) /\ Backed(BlockInputs(bs), Created)
  BY <1>1, <1>2, BlockInputsFormed
<1>5. ProofsHold(BlockInputs(bs), proofs, Created)
  BY <1>3, <1>4, AcceptedProofsHold
<1>6. Traced(BlockInputs(bs), BlockOutputs(bs), KeptBlockInputs(bs, proofs),
             KeptBlockOutputs(bs, proofs), Created)
  BY <1>3, <1>4, <1>5, TrackerTraces DEF KeptBlockInputs, KeptBlockOutputs
<1>7. WellFormed(KeptBlockInputs(bs, proofs)) /\ Backed(KeptBlockInputs(bs, proofs), Created)
  BY <1>4, <1>5, TrackerKeepsForm DEF KeptBlockInputs
<1>. QED  BY <1>2, <1>3, <1>4, <1>6, <1>7

LEMMA BlockKeepsLedgerInv ==
  ASSUME LedgerInv, NEW bs \in SUBSET batches, NEW proofs \in ProofsFor(BlockInputs(bs)),
         NEW ha, NEW hn, ProposeBlock(bs, proofs, ha, hn)
  PROVE  LedgerInv'
<1>. DEFINE K == KeptBlockInputs(bs, proofs)
<1>1. /\ \A x \in K : IsAuthenticated(x)
      /\ Backed(K, Created) /\ batches' = batches
  BY BlockMade, BlockTraced, Zenon
<1>2. PICK e : /\ chain' = Append(chain, e)
               /\ e.nullifiers = Tip.nullifiers \cup {x.nullifier : x \in K}
  BY BlockMade, Zenon
<1>. HIDE DEF K
<1>3. /\ IsChain' /\ Height' = Height + 1 /\ Height \in Nat /\ Tip' = e /\ Blk(0) = Genesis
      /\ \A k \in 0 .. Height : Blk(k)' = Blk(k) /\ NotesOf'[k] = NotesOf[k]
  BY <1>2, ChainGrows, ChainFacts DEF LedgerInv
<1>4. Created \subseteq Created'
  BY <1>2, CreatedGrows DEF LedgerInv
<1>5. \A b \in batches' : BatchInv(b)'
  BY <1>1, <1>4, BatchInvStays DEF LedgerInv
<1>6. ASSUME NEW k \in 1 .. Height', NEW id \in Blk(k)'.nullifiers
      PROVE  \E j \in 0 .. k - 1 : \E n \in NotesOf'[j] : n.id = id
  <2>1. CASE k <= Height
    <3>1. k \in 1 .. Height /\ id \in Blk(k).nullifiers
      BY <1>3, <1>6, <2>1
    <3>2. PICK j \in 0 .. k - 1 : \E n \in NotesOf[j] : n.id = id
      BY <3>1 DEF LedgerInv, NullifierHasNote
    <3>3. j \in 0 .. Height
      BY <1>3, <2>1, <3>2
    <3>. QED  BY <1>3, <3>2, <3>3
  <2>2. CASE k = Height + 1
    <3>1. id \in e.nullifiers
      BY <1>3, <1>6, <2>2 DEF Tip
    <3>2. k - 1 = Height
      BY <1>3, <2>2
    <3>3. CASE id \in Tip.nullifiers
      <4>1. Height # 0
        BY <1>3, <3>3, BlockAssumption DEF Tip
      <4>2. Height \in 1 .. Height
        BY <1>3, <4>1
      <4>3. PICK j \in 0 .. Height - 1 : \E n \in NotesOf[j] : n.id = id
        <5>1. id \in Blk(Height).nullifiers
          BY <3>3, Zenon DEF Tip
        <5>. QED  BY <4>2, <5>1, Zenon DEF LedgerInv, NullifierHasNote
      <4>4. j \in 0 .. Height
        BY <1>3, <4>3
      <4>. QED  BY <1>3, <3>2, <4>3, <4>4
    <3>4. CASE id \notin Tip.nullifiers
      <4>1. PICK x \in K : id = x.nullifier
        BY <1>2, <3>1, <3>4
      <4>2. PICK n \in Created : n.id = id
        BY <1>1, <4>1 DEF Backed
      <4>3. PICK j \in 0 .. Height : n \in NotesOf[j]
        BY <4>2 DEF Created
      <4>. QED  BY <1>3, <3>2, <4>2, <4>3
    <3>. QED  BY <3>3, <3>4
  <2>. QED  BY <1>3, <2>1, <2>2, SMTT(15)
<1>7. NullifierHasNote'
  BY <1>6 DEF NullifierHasNote
<1>. QED  BY <1>3, <1>5, <1>7 DEF LedgerInv

LEMMA LedgerInvHolds == Spec => []LedgerInv
<1>1. Init => LedgerInv
  BY GenesisIsChain DEF Init, LedgerInv, NullifierHasNote
<1>2. LedgerInv /\ [Next]_vars => LedgerInv'
  <2>. SUFFICES ASSUME LedgerInv, [Next]_vars
                PROVE  LedgerInv'
    OBVIOUS
  <2>1. CASE \E txs \in TxSeqs : \E proofs \in ProofsFor(TxInputs(txs)) :
               ProposeBatch(txs, proofs)
    BY <2>1, BatchKeepsLedgerInv
  <2>2. CASE chain' = chain /\ batches' \subseteq batches
    <3>1. Created' = Created /\ IsChain' /\ NullifierHasNote'
      BY <2>2, ChainStays
    <3>2. \A b \in batches' : BatchInv(b)'
      BY <2>2, <3>1, BatchInvStays DEF LedgerInv
    <3>. QED  BY <3>1, <3>2 DEF LedgerInv
  <2>3. CASE \E bs \in SUBSET batches : \E proofs \in ProofsFor(BlockInputs(bs)) :
               \E ha, hn \in 0 .. Height : ProposeBlock(bs, proofs, ha, hn)
    BY <2>3, BlockKeepsLedgerInv
  <2>4. DropBatch \/ UNCHANGED vars => chain' = chain /\ batches' \subseteq batches
    BY DEF DropBatch, vars
  <2>. QED  BY <2>1, <2>2, <2>3, <2>4 DEF Next
<1>. QED  BY <1>1, <1>2, PTL DEF Spec

(* Every nullifier of the chain belongs to a note recorded in an earlier   *)
(* block, although a note may be authenticated by its transaction, when    *)
(* the batch is built or only when the block is (authenticate_             *)
(* unauthenticated_note), and erased notes are never recorded.             *)
THEOREM NullifiersHaveNotes == Spec => []NullifierHasNote
<1>1. LedgerInv => NullifierHasNote
  BY DEF LedgerInv
<1>. QED  BY <1>1, LedgerInvHolds, PTL

-----------------------------------------------------------------------------
(* The notes of the chain are a ledger's.  A consumption or creation of    *)
(* the ledger is one input or output of one transaction of one batch.      *)
ExecsOf(bodies) == UNION {{[key |-> <<txs, i>>, tx |-> txs[i]] : i \in DOMAIN txs} : txs \in bodies}

Place(txs, i, j) == [exec |-> [key |-> <<txs, i>>, tx |-> txs[i]], idx |-> j]

TxsOf(c) == c.exec.key[1]
TagOf(c) == <<c.exec.key[2], c.idx>>
BlockTag(c) == <<TxsOf(c), TagOf(c)>>

LEMMA TagParts ==
  ASSUME NEW c, NEW d, BlockTag(c) = BlockTag(d)
  PROVE  TxsOf(c) = TxsOf(d) /\ TagOf(c) = TagOf(d)
BY DEF BlockTag

LEMMA PlaceFacts ==
  ASSUME NEW txs, NEW i, NEW j
  PROVE  /\ TxsOf(Place(txs, i, j)) = txs /\ TagOf(Place(txs, i, j)) = <<i, j>>
         /\ L!InputOf(Place(txs, i, j)) = txs[i].inputs[j]
         /\ L!NoteOf(Place(txs, i, j)) = txs[i].outputs[j]
BY DEF Place, TxsOf, TagOf, L!InputOf, L!NoteOf

LEMMA ConsumptionsArePlaces ==
  ASSUME NEW bodies, NEW c
  PROVE  c \in L!Consumptions(ExecsOf(bodies)) <=>
           \E txs \in bodies : \E i \in DOMAIN txs : \E j \in DOMAIN txs[i].inputs :
             c = Place(txs, i, j)
<1>1. \A e : e \in ExecsOf(bodies) <=>
        \E txs \in bodies : \E i \in DOMAIN txs : e = [key |-> <<txs, i>>, tx |-> txs[i]]
  BY DEF ExecsOf
<1>2. c \in L!Consumptions(ExecsOf(bodies)) <=>
        \E e \in ExecsOf(bodies) : \E j \in DOMAIN e.tx.inputs : c = [exec |-> e, idx |-> j]
  BY DEF L!Consumptions
<1>3. ASSUME NEW txs, NEW i
      PROVE  [key |-> <<txs, i>>, tx |-> txs[i]].tx = txs[i]
  OBVIOUS
<1>. QED  BY <1>1, <1>2, <1>3 DEF Place

LEMMA CreationsArePlaces ==
  ASSUME NEW bodies, NEW c
  PROVE  c \in L!Creations(ExecsOf(bodies)) <=>
           \E txs \in bodies : \E i \in DOMAIN txs : \E j \in DOMAIN txs[i].outputs :
             c = Place(txs, i, j)
<1>1. \A e : e \in ExecsOf(bodies) <=>
        \E txs \in bodies : \E i \in DOMAIN txs : e = [key |-> <<txs, i>>, tx |-> txs[i]]
  BY DEF ExecsOf
<1>2. c \in L!Creations(ExecsOf(bodies)) <=>
        \E e \in ExecsOf(bodies) : \E j \in DOMAIN e.tx.outputs : c = [exec |-> e, idx |-> j]
  BY DEF L!Creations
<1>3. ASSUME NEW txs, NEW i
      PROVE  [key |-> <<txs, i>>, tx |-> txs[i]].tx = txs[i]
  OBVIOUS
<1>. QED  BY <1>1, <1>2, <1>3 DEF Place

(* A place is known by its tag in the block.                               *)
LEMMA TagIsPlace ==
  ASSUME NEW t1, NEW i1, NEW j1, NEW t2, NEW i2, NEW j2,
         BlockTag(Place(t1, i1, j1)) = BlockTag(Place(t2, i2, j2))
  PROVE  Place(t1, i1, j1) = Place(t2, i2, j2)
<1>1. <<t1, <<i1, j1>>>> = <<t2, <<i2, j2>>>>
  BY PlaceFacts DEF BlockTag
<1>2. t1 = t2 /\ <<i1, j1>> = <<i2, j2>>
  BY <1>1
<1>3. i1 = i2 /\ j1 = j2
  BY <1>2
<1>. QED  BY <1>2, <1>3

BodiesOf(bs) == {b.txs : b \in bs}

(* What the transactions of the batches bs consume and create.             *)
Taken(bs) == L!Consumptions(ExecsOf(BodiesOf(bs)))
Given(bs) == L!Creations(ExecsOf(BodiesOf(bs)))

(* Input y of a batch's transactions is consumption c.                     *)
IsInput(c, y) == /\ y.tag = TagOf(c)
                 /\ y.nullifier = L!InputOf(c).nullifier
                 /\ y.header = L!InputOf(c).header

(* Input z of a block's batches is what is left of consumption c.          *)
IsBlockInput(c, z) ==
  /\ z.tag = BlockTag(c)
  /\ z.nullifier = L!InputOf(c).nullifier
  /\ z.header = L!InputOf(c).header \/ (z.header = {} /\ L!InputOf(c).header \subseteq Created)

IsOutput(p, o) == o.tag = TagOf(p) /\ o.note = L!NoteOf(p)

IsBlockOutput(p, o) == o.tag = BlockTag(p) /\ o.note = L!NoteOf(p)

BatchKeepsInput(b, c) == KeptTag(b.inputs, TagOf(c))
BatchKeepsOutput(b, p) == KeptTag(b.outputs, TagOf(p))

(* What is known of the batches bs of an accepted block, and of the inputs *)
(* and outputs the block keeps.                                            *)
Accepted(bs, keptIn, keptOut) ==
  /\ \A b, c \in bs : b.txs = c.txs => b = c
  /\ \A b \in bs : BatchInv(b)
  /\ NoDuplicates(BlockInputs(bs), BlockOutputs(bs))
  /\ WellFormed(BlockInputs(bs))
  /\ Traced(BlockInputs(bs), BlockOutputs(bs), keptIn, keptOut, Created)

LEMMA TxInputPlaces ==
  ASSUME NEW bs, NEW b \in bs
  PROVE  /\ \A c \in Taken(bs) :
              TxsOf(c) = b.txs => \E y \in TxInputs(b.txs) : IsInput(c, y)
         /\ \A y \in TxInputs(b.txs) : \E c \in Taken(bs) :
              TxsOf(c) = b.txs /\ IsInput(c, y)
<1>. DEFINE T == b.txs
            At(i, j) == [tag |-> <<i, j>>, nullifier |-> T[i].inputs[j].nullifier,
                         header |-> T[i].inputs[j].header]
<1>1. \A y : y \in TxInputs(T) <=>
        \E i \in DOMAIN T : \E j \in DOMAIN T[i].inputs : y = At(i, j)
  BY DEF TxInputs
<1>2. \A i, j : IsInput(Place(T, i, j), At(i, j))
  <2>. SUFFICES ASSUME NEW i, NEW j
                PROVE  IsInput(Place(T, i, j), At(i, j))
    BY Zenon
  <2>1. /\ At(i, j).tag = <<i, j>>
        /\ At(i, j).nullifier = T[i].inputs[j].nullifier
        /\ At(i, j).header = T[i].inputs[j].header
    OBVIOUS
  <2>2. TagOf(Place(T, i, j)) = <<i, j>> /\ L!InputOf(Place(T, i, j)) = T[i].inputs[j]
    <3>. HIDE DEF At, T
    <3>. QED  BY PlaceFacts
  <2>. HIDE DEF At, T
  <2>. QED  BY <2>1, <2>2 DEF IsInput
<1>. HIDE DEF At
<1>3. ASSUME NEW c \in Taken(bs), TxsOf(c) = T
      PROVE  \E y \in TxInputs(T) : IsInput(c, y)
  <2>1. PICK txs \in BodiesOf(bs) : \E i \in DOMAIN txs : \E j \in DOMAIN txs[i].inputs :
               c = Place(txs, i, j)
    BY ConsumptionsArePlaces DEF Taken
  <2>2. txs = T
    <3>1. PICK i, j : c = Place(txs, i, j)
      BY <2>1, Zenon
    <3>2. TxsOf(c) = txs
      BY <3>1, PlaceFacts, Zenon
    <3>. QED  BY <1>3, <3>2, Zenon
  <2>. QED  BY <1>1, <1>2, <2>1, <2>2
<1>4. ASSUME NEW y \in TxInputs(T)
      PROVE  \E c \in Taken(bs) : TxsOf(c) = T /\ IsInput(c, y)
  <2>1. PICK i \in DOMAIN T : \E j \in DOMAIN T[i].inputs : y = At(i, j)
    BY <1>1
  <2>2. PICK j \in DOMAIN T[i].inputs : y = At(i, j)
    BY <2>1
  <2>3. T \in BodiesOf(bs)
    BY DEF BodiesOf
  <2>4. Place(T, i, j) \in Taken(bs)
    BY <2>2, <2>3, ConsumptionsArePlaces DEF Taken
  <2>5. IsInput(Place(T, i, j), y)
    BY <1>2, <2>2, Zenon
  <2>6. TxsOf(Place(T, i, j)) = T
    <3>. HIDE DEF T
    <3>. QED  BY PlaceFacts
  <2>. HIDE DEF T
  <2>. QED  BY <2>4, <2>5, <2>6, Zenon
<1>. QED  BY <1>3, <1>4

LEMMA TxOutputPlaces ==
  ASSUME NEW bs, NEW b \in bs
  PROVE  /\ \A p \in Given(bs) :
              TxsOf(p) = b.txs => \E o \in TxOutputs(b.txs) : IsOutput(p, o)
         /\ \A o \in TxOutputs(b.txs) : \E p \in Given(bs) :
              TxsOf(p) = b.txs /\ IsOutput(p, o)
<1>. DEFINE T == b.txs
            At(i, j) == [tag |-> <<i, j>>, note |-> T[i].outputs[j]]
<1>1. \A o : o \in TxOutputs(T) <=>
        \E i \in DOMAIN T : \E j \in DOMAIN T[i].outputs : o = At(i, j)
  BY DEF TxOutputs
<1>2. \A i, j : IsOutput(Place(T, i, j), At(i, j))
  BY PlaceFacts DEF IsOutput
<1>. HIDE DEF At
<1>3. ASSUME NEW p \in Given(bs), TxsOf(p) = T
      PROVE  \E o \in TxOutputs(T) : IsOutput(p, o)
  <2>1. PICK txs \in BodiesOf(bs) : \E i \in DOMAIN txs : \E j \in DOMAIN txs[i].outputs :
               p = Place(txs, i, j)
    BY CreationsArePlaces DEF Given
  <2>2. txs = T
    <3>1. PICK i, j : p = Place(txs, i, j)
      BY <2>1, Zenon
    <3>2. TxsOf(p) = txs
      BY <3>1, PlaceFacts, Zenon
    <3>. QED  BY <1>3, <3>2, Zenon
  <2>. QED  BY <1>1, <1>2, <2>1, <2>2
<1>4. ASSUME NEW o \in TxOutputs(T)
      PROVE  \E p \in Given(bs) : TxsOf(p) = T /\ IsOutput(p, o)
  <2>1. PICK i \in DOMAIN T : \E j \in DOMAIN T[i].outputs : o = At(i, j)
    BY <1>1
  <2>2. PICK j \in DOMAIN T[i].outputs : o = At(i, j)
    BY <2>1
  <2>3. T \in BodiesOf(bs)
    BY DEF BodiesOf
  <2>4. Place(T, i, j) \in Given(bs)
    BY <2>2, <2>3, CreationsArePlaces DEF Given
  <2>5. IsOutput(Place(T, i, j), o)
    BY <1>2, <2>2, Zenon
  <2>6. TxsOf(Place(T, i, j)) = T
    <3>. HIDE DEF T
    <3>. QED  BY PlaceFacts
  <2>. HIDE DEF T
  <2>. QED  BY <2>4, <2>5, <2>6, Zenon
<1>. QED  BY <1>3, <1>4

LEMMA TxOutputTags ==
  ASSUME NEW txs, NEW o \in TxOutputs(txs), NEW q \in TxOutputs(txs), o.tag = q.tag
  PROVE  o = q
<1>1. PICK i \in DOMAIN txs : \E j \in DOMAIN txs[i].outputs :
             o = [tag |-> <<i, j>>, note |-> txs[i].outputs[j]]
  BY DEF TxOutputs
<1>2. PICK j \in DOMAIN txs[i].outputs : o = [tag |-> <<i, j>>, note |-> txs[i].outputs[j]]
  BY <1>1
<1>3. PICK k \in DOMAIN txs : \E l \in DOMAIN txs[k].outputs :
             q = [tag |-> <<k, l>>, note |-> txs[k].outputs[l]]
  BY DEF TxOutputs
<1>4. PICK l \in DOMAIN txs[k].outputs : q = [tag |-> <<k, l>>, note |-> txs[k].outputs[l]]
  BY <1>3
<1>5. <<i, j>> = <<k, l>>
  BY <1>2, <1>4
<1>6. i = k /\ j = l
  BY <1>5
<1>. QED  BY <1>2, <1>4, <1>6

LEMMA PlacesOfBlock ==
  ASSUME NEW bs
  PROVE  /\ \A c \in Taken(bs) : \E b \in bs : TxsOf(c) = b.txs
         /\ \A p \in Given(bs) : \E b \in bs : TxsOf(p) = b.txs
         /\ \A c, d \in Taken(bs) :
              TxsOf(c) = TxsOf(d) /\ TagOf(c) = TagOf(d) => c = d
         /\ \A p, q \in Given(bs) :
              TxsOf(p) = TxsOf(q) /\ TagOf(p) = TagOf(q) => p = q
<1>1. \A c \in Taken(bs) : \E txs \in BodiesOf(bs) : \E i, j : c = Place(txs, i, j)
  BY ConsumptionsArePlaces DEF Taken
<1>2. \A p \in Given(bs) : \E txs \in BodiesOf(bs) : \E i, j : p = Place(txs, i, j)
  BY CreationsArePlaces DEF Given
<1>3. ASSUME NEW txs \in BodiesOf(bs), NEW i, NEW j
      PROVE  \E b \in bs : TxsOf(Place(txs, i, j)) = b.txs
  BY PlaceFacts DEF BodiesOf
<1>4. ASSUME NEW c, NEW d, TxsOf(c) = TxsOf(d), TagOf(c) = TagOf(d),
             \E txs \in BodiesOf(bs) : \E i, j : c = Place(txs, i, j),
             \E txs \in BodiesOf(bs) : \E i, j : d = Place(txs, i, j)
      PROVE  c = d
  <2>1. PICK t1, i1, j1 : c = Place(t1, i1, j1)
    BY <1>4
  <2>2. PICK t2, i2, j2 : d = Place(t2, i2, j2)
    BY <1>4
  <2>3. BlockTag(c) = BlockTag(d)
    BY <1>4 DEF BlockTag
  <2>. QED  BY <2>1, <2>2, <2>3, TagIsPlace
<1>. QED  BY <1>1, <1>2, <1>3, <1>4

LEMMA BlockInputPlaces ==
  ASSUME NEW bs, NEW keptIn, NEW keptOut, Accepted(bs, keptIn, keptOut)
  PROVE  /\ \A c \in Taken(bs) : \A b \in bs :
              TxsOf(c) = b.txs /\ BatchKeepsInput(b, c) =>
                \E z \in BlockInputs(bs) : IsBlockInput(c, z)
         /\ \A z \in BlockInputs(bs) : \E c \in Taken(bs) :
              IsBlockInput(c, z) /\ \E b \in bs : TxsOf(c) = b.txs /\ BatchKeepsInput(b, c)
<1>. DEFINE At(b, x) == [tag |-> <<b.txs, x.tag>>, nullifier |-> x.nullifier, header |-> x.header]
<1>1. \A z : z \in BlockInputs(bs) <=> \E b \in bs : \E x \in b.inputs : z = At(b, x)
  <2>1. BlockInputs(bs) = UNION {{At(b, x) : x \in b.inputs} : b \in bs}
    BY Zenon DEF BlockInputs
  <2>. HIDE DEF At
  <2>. QED  BY <2>1
<1>2. \A b, x : /\ At(b, x).tag = <<b.txs, x.tag>>
                /\ At(b, x).nullifier = x.nullifier /\ At(b, x).header = x.header
  OBVIOUS
<1>. HIDE DEF At
<1>3. ASSUME NEW b \in bs, NEW x \in b.inputs, NEW c \in Taken(bs), NEW y \in TxInputs(b.txs),
             TxsOf(c) = b.txs, IsInput(c, y), Same(x, y, Created)
      PROVE  IsBlockInput(c, At(b, x))
  <2>0. /\ y.tag = TagOf(c) /\ y.nullifier = L!InputOf(c).nullifier
        /\ y.header = L!InputOf(c).header
    BY <1>3, Zenon DEF IsInput
  <2>1. x.tag = TagOf(c) /\ x.nullifier = L!InputOf(c).nullifier
    BY <1>3, <2>0, Zenon DEF Same
  <2>2. x.header = L!InputOf(c).header \/ (x.header = {} /\ L!InputOf(c).header \subseteq Created)
    BY <1>3, <2>0, Zenon DEF Same
  <2>3. At(b, x).tag = BlockTag(c)
    <3>1. At(b, x).tag = <<b.txs, x.tag>>
      BY <1>2
    <3>2. b.txs = TxsOf(c)
      BY <1>3, Zenon
    <3>. QED  BY <2>1, <3>1, <3>2, Zenon DEF BlockTag
  <2>4. At(b, x).nullifier = L!InputOf(c).nullifier
    BY <1>2, <2>1, Zenon
  <2>5. At(b, x).header = x.header
    BY <1>2
  <2>6. \/ At(b, x).header = L!InputOf(c).header
        \/ At(b, x).header = {} /\ L!InputOf(c).header \subseteq Created
    BY <2>2, <2>5, Zenon
  <2>. QED  BY <2>3, <2>4, <2>6, Zenon DEF IsBlockInput
<1>4. ASSUME NEW c \in Taken(bs), NEW b \in bs, TxsOf(c) = b.txs, BatchKeepsInput(b, c)
      PROVE  \E z \in BlockInputs(bs) : IsBlockInput(c, z)
  <2>1. PICK x \in b.inputs : x.tag = TagOf(c)
    BY <1>4 DEF BatchKeepsInput, KeptTag
  <2>2. PICK y \in TxInputs(b.txs) : IsInput(c, y)
    BY <1>4, TxInputPlaces, Zenon
  <2>3. PICK w \in TxInputs(b.txs) : Same(x, w, Created)
    BY Zenon DEF Accepted, BatchInv, Traced
  <2>4. w = y
    <3>1. w.tag = y.tag
      BY <2>1, <2>2, <2>3 DEF Same, IsInput
    <3>2. WellFormed(TxInputs(b.txs))
      BY TxInputsFormed, Zenon DEF Accepted, BatchInv
    <3>. QED  BY <3>1, <3>2 DEF WellFormed
  <2>5. IsBlockInput(c, At(b, x))
    BY <1>3, <1>4, <2>2, <2>3, <2>4, Zenon
  <2>. QED  BY <1>1, <2>5
<1>5. ASSUME NEW z \in BlockInputs(bs)
      PROVE  \E c \in Taken(bs) : IsBlockInput(c, z)
                           /\ \E b \in bs : TxsOf(c) = b.txs /\ BatchKeepsInput(b, c)
  <2>1. PICK b \in bs : \E x \in b.inputs : z = At(b, x)
    BY <1>1
  <2>2. PICK x \in b.inputs : z = At(b, x)
    BY <2>1
  <2>3. PICK y \in TxInputs(b.txs) : Same(x, y, Created)
    BY Zenon DEF Accepted, BatchInv, Traced
  <2>4. PICK c \in Taken(bs) : TxsOf(c) = b.txs /\ IsInput(c, y)
    BY TxInputPlaces, Zenon
  <2>5. IsBlockInput(c, z)
    BY <1>3, <2>2, <2>3, <2>4, Zenon
  <2>6. BatchKeepsInput(b, c)
    BY <2>3, <2>4, Zenon DEF BatchKeepsInput, KeptTag, Same, IsInput
  <2>. QED  BY <2>4, <2>5, <2>6, Zenon
<1>. QED  BY <1>4, <1>5

LEMMA BlockOutputPlaces ==
  ASSUME NEW bs, NEW keptIn, NEW keptOut, Accepted(bs, keptIn, keptOut)
  PROVE  /\ \A p \in Given(bs) : \A b \in bs :
              TxsOf(p) = b.txs /\ BatchKeepsOutput(b, p) =>
                \E o \in BlockOutputs(bs) : IsBlockOutput(p, o)
         /\ \A o \in BlockOutputs(bs) : \E p \in Given(bs) :
              IsBlockOutput(p, o) /\ \E b \in bs : TxsOf(p) = b.txs /\ BatchKeepsOutput(b, p)
         /\ \A o, q \in BlockOutputs(bs) : o.tag = q.tag => o = q
<1>. DEFINE At(b, x) == [tag |-> <<b.txs, x.tag>>, note |-> x.note]
<1>1. \A o : o \in BlockOutputs(bs) <=> \E b \in bs : \E x \in b.outputs : o = At(b, x)
  <2>1. BlockOutputs(bs) = UNION {{At(b, x) : x \in b.outputs} : b \in bs}
    BY Zenon DEF BlockOutputs
  <2>. HIDE DEF At
  <2>. QED  BY <2>1
<1>2. \A b, x : At(b, x).tag = <<b.txs, x.tag>> /\ At(b, x).note = x.note
  OBVIOUS
<1>. HIDE DEF At
<1>3. ASSUME NEW b \in bs, NEW x, NEW p \in Given(bs), TxsOf(p) = b.txs, IsOutput(p, x)
      PROVE  IsBlockOutput(p, At(b, x))
  BY <1>2, <1>3, Zenon DEF IsBlockOutput, IsOutput, BlockTag
<1>4. ASSUME NEW p \in Given(bs), NEW b \in bs, TxsOf(p) = b.txs, BatchKeepsOutput(b, p)
      PROVE  \E o \in BlockOutputs(bs) : IsBlockOutput(p, o)
  <2>1. PICK x \in b.outputs : x.tag = TagOf(p)
    BY <1>4 DEF BatchKeepsOutput, KeptTag
  <2>2. PICK y \in TxOutputs(b.txs) : IsOutput(p, y)
    BY <1>4, TxOutputPlaces, Zenon
  <2>3. x \in TxOutputs(b.txs)
    BY Zenon DEF Accepted, BatchInv, Traced
  <2>4. x = y
    BY <2>1, <2>2, <2>3, TxOutputTags DEF IsOutput
  <2>5. IsBlockOutput(p, At(b, x))
    BY <1>3, <1>4, <2>2, <2>4, Zenon
  <2>. QED  BY <1>1, <2>5
<1>5. ASSUME NEW o \in BlockOutputs(bs)
      PROVE  \E p \in Given(bs) : IsBlockOutput(p, o)
                           /\ \E b \in bs : TxsOf(p) = b.txs /\ BatchKeepsOutput(b, p)
  <2>1. PICK b \in bs : \E x \in b.outputs : o = At(b, x)
    BY <1>1
  <2>2. PICK x \in b.outputs : o = At(b, x)
    BY <2>1
  <2>3. x \in TxOutputs(b.txs)
    BY Zenon DEF Accepted, BatchInv, Traced
  <2>4. PICK p \in Given(bs) : TxsOf(p) = b.txs /\ IsOutput(p, x)
    BY <2>3, TxOutputPlaces, Zenon
  <2>5. IsBlockOutput(p, o)
    BY <1>3, <2>2, <2>4, Zenon
  <2>6. BatchKeepsOutput(b, p)
    BY <2>4 DEF BatchKeepsOutput, KeptTag, IsOutput
  <2>. QED  BY <2>4, <2>5, <2>6, Zenon
<1>6. ASSUME NEW o \in BlockOutputs(bs), NEW q \in BlockOutputs(bs), o.tag = q.tag
      PROVE  o = q
  <2>1. PICK b \in bs : \E x \in b.outputs : o = At(b, x)
    BY <1>1
  <2>2. PICK x \in b.outputs : o = At(b, x)
    BY <2>1
  <2>3. PICK d \in bs : \E x1 \in d.outputs : q = At(d, x1)
    BY <1>1
  <2>4. PICK y \in d.outputs : q = At(d, y)
    BY <2>3
  <2>5. <<b.txs, x.tag>> = <<d.txs, y.tag>>
    BY <1>2, <1>6, <2>2, <2>4
  <2>6. b = d /\ x.tag = y.tag
    BY <2>5, Zenon DEF Accepted
  <2>7. x \in TxOutputs(b.txs) /\ y \in TxOutputs(b.txs)
    BY <2>6, Zenon DEF Accepted, BatchInv, Traced
  <2>8. x = y
    BY <2>6, <2>7, TxOutputTags
  <2>. QED  BY <2>2, <2>4, <2>6, <2>8
<1>. QED  BY <1>4, <1>5, <1>6

-----------------------------------------------------------------------------
(* Notes handed over inside the block: erased by one batch, or by the      *)
(* block after their batches kept them.                                    *)
InBatch(bs, c, p) ==
  \E b \in bs : /\ TxsOf(c) = b.txs /\ TxsOf(p) = b.txs
                /\ ~BatchKeepsInput(b, c) /\ ~BatchKeepsOutput(b, p)

KeptByBatch(bs, c) == \E b \in bs : TxsOf(c) = b.txs /\ BatchKeepsInput(b, c)

MadeByBatch(bs, p) == \E b \in bs : TxsOf(p) = b.txs /\ BatchKeepsOutput(b, p)

AcrossBatches(bs, keptIn, keptOut, c, p) ==
  /\ KeptByBatch(bs, c) /\ MadeByBatch(bs, p)
  /\ ~KeptTag(keptIn, BlockTag(c)) /\ ~KeptTag(keptOut, BlockTag(p))

(* Consumption c takes the note that creation p makes.                     *)
Handed(bs, keptIn, keptOut, c, p) ==
  /\ L!NoteOf(p) \in L!InputOf(c).header
  /\ InBatch(bs, c, p) \/ AcrossBatches(bs, keptIn, keptOut, c, p)

(* An input the block keeps was kept by its batch.                         *)
LEMMA KeptIsKeptByBatch ==
  ASSUME NEW bs, NEW keptIn, NEW keptOut, Accepted(bs, keptIn, keptOut)
  PROVE  /\ \A c \in Taken(bs) :
              KeptTag(keptIn, BlockTag(c)) => KeptByBatch(bs, c)
         /\ \A p \in Given(bs) :
              KeptTag(keptOut, BlockTag(p)) => MadeByBatch(bs, p)
<1>0. Traced(BlockInputs(bs), BlockOutputs(bs), keptIn, keptOut, Created)
  BY DEF Accepted
<1>1. ASSUME NEW c \in Taken(bs), KeptTag(keptIn, BlockTag(c))
      PROVE  KeptByBatch(bs, c)
  <2>1. PICK x \in keptIn : x.tag = BlockTag(c)
    BY <1>1 DEF KeptTag
  <2>2. PICK z \in BlockInputs(bs) : z.tag = BlockTag(c)
    <3>1. PICK z \in BlockInputs(bs) : Same(x, z, Created)
      BY <1>0, Zenon DEF Traced
    <3>. QED  BY <2>1, <3>1, Zenon DEF Same
  <2>3. PICK d \in Taken(bs) : IsBlockInput(d, z) /\ KeptByBatch(bs, d)
    BY BlockInputPlaces DEF KeptByBatch
  <2>4. BlockTag(d) = BlockTag(c)
    BY <2>2, <2>3, Zenon DEF IsBlockInput
  <2>5. TxsOf(d) = TxsOf(c) /\ TagOf(d) = TagOf(c)
    BY <2>4 DEF BlockTag
  <2>6. d = c
    BY <2>5, PlacesOfBlock
  <2>. QED  BY <2>3, <2>6
<1>2. ASSUME NEW p \in Given(bs), KeptTag(keptOut, BlockTag(p))
      PROVE  MadeByBatch(bs, p)
  <2>1. PICK x \in keptOut : x.tag = BlockTag(p)
    BY <1>2 DEF KeptTag
  <2>2. x \in BlockOutputs(bs)
    BY <1>0, Zenon DEF Traced
  <2>3. PICK q \in Given(bs) : IsBlockOutput(q, x) /\ MadeByBatch(bs, q)
    BY <2>2, BlockOutputPlaces DEF MadeByBatch
  <2>4. BlockTag(q) = BlockTag(p)
    BY <2>1, <2>3 DEF IsBlockOutput
  <2>5. TxsOf(q) = TxsOf(p) /\ TagOf(q) = TagOf(p)
    BY <2>4 DEF BlockTag
  <2>6. q = p
    BY <2>5, PlacesOfBlock
  <2>. QED  BY <2>3, <2>6
<1>. QED  BY <1>1, <1>2

(* The headers consumptions carry name one note, the nullifier's.          *)
LEMMA HeaderOfConsumption ==
  ASSUME NEW bs, NEW keptIn, NEW keptOut, Accepted(bs, keptIn, keptOut),
         NEW c \in Taken(bs)
  PROVE  /\ \A g, h \in L!InputOf(c).header : g = h
         /\ \A h \in L!InputOf(c).header : h.id = L!InputOf(c).nullifier
<1>1. PICK b \in bs : TxsOf(c) = b.txs
  BY PlacesOfBlock
<1>2. PICK y \in TxInputs(b.txs) : IsInput(c, y)
  BY <1>1, TxInputPlaces
<1>3. WellFormed(TxInputs(b.txs))
  BY TxInputsFormed, Zenon DEF Accepted, BatchInv
<1>. QED  BY <1>2, <1>3 DEF IsInput, WellFormed

(* No two inputs or outputs of one batch, and no two that batches keep,    *)
(* are the same note.                                                      *)
LEMMA ConsumptionsDiffer ==
  ASSUME NEW bs, NEW keptIn, NEW keptOut, Accepted(bs, keptIn, keptOut),
         NEW c \in Taken(bs),
         NEW d \in Taken(bs),
         L!InputOf(c).nullifier = L!InputOf(d).nullifier,
         \/ TxsOf(c) = TxsOf(d)
         \/ KeptByBatch(bs, c) /\ KeptByBatch(bs, d)
  PROVE  c = d
<1>1. CASE TxsOf(c) = TxsOf(d)
  <2>1. PICK b \in bs : TxsOf(c) = b.txs
    BY PlacesOfBlock
  <2>2. PICK y \in TxInputs(b.txs) : IsInput(c, y)
    BY <2>1, TxInputPlaces
  <2>3. PICK w \in TxInputs(b.txs) : IsInput(d, w)
    BY <1>1, <2>1, TxInputPlaces, Zenon
  <2>4. y.nullifier = w.nullifier
    BY <2>2, <2>3, Zenon DEF IsInput
  <2>5. y = w
    BY <2>4, Zenon DEF Accepted, BatchInv, NoDuplicates
  <2>6. TagOf(c) = TagOf(d)
    BY <2>2, <2>3, <2>5, Zenon DEF IsInput
  <2>. QED  BY <1>1, <2>6, PlacesOfBlock
<1>2. CASE KeptByBatch(bs, c) /\ KeptByBatch(bs, d)
  <2>2. PICK y \in BlockInputs(bs) : IsBlockInput(c, y)
    BY <1>2, BlockInputPlaces DEF KeptByBatch
  <2>3. PICK w \in BlockInputs(bs) : IsBlockInput(d, w)
    BY <1>2, BlockInputPlaces DEF KeptByBatch
  <2>4. y.nullifier = w.nullifier
    BY <2>2, <2>3, Zenon DEF IsBlockInput
  <2>5. y = w
    BY <2>4 DEF Accepted, NoDuplicates
  <2>6. BlockTag(c) = BlockTag(d)
    BY <2>2, <2>3, <2>5, Zenon DEF IsBlockInput
  <2>7. TxsOf(c) = TxsOf(d) /\ TagOf(c) = TagOf(d)
    BY <2>6 DEF BlockTag
  <2>. QED  BY <2>7, PlacesOfBlock
<1>. QED  BY <1>1, <1>2

LEMMA CreationsDiffer ==
  ASSUME NEW bs, NEW keptIn, NEW keptOut, Accepted(bs, keptIn, keptOut),
         NEW p \in Given(bs),
         NEW q \in Given(bs),
         L!NoteOf(p).id = L!NoteOf(q).id,
         \/ TxsOf(p) = TxsOf(q)
         \/ MadeByBatch(bs, p) /\ MadeByBatch(bs, q)
  PROVE  p = q
<1>1. CASE TxsOf(p) = TxsOf(q)
  <2>1. PICK b \in bs : TxsOf(p) = b.txs
    BY PlacesOfBlock
  <2>2. PICK y \in TxOutputs(b.txs) : IsOutput(p, y)
    BY <2>1, TxOutputPlaces
  <2>3. PICK w \in TxOutputs(b.txs) : IsOutput(q, w)
    BY <1>1, <2>1, TxOutputPlaces, Zenon
  <2>4. y.note.id = w.note.id
    BY <2>2, <2>3 DEF IsOutput
  <2>5. y = w
    BY <2>4, Zenon DEF Accepted, BatchInv, NoDuplicates
  <2>6. TagOf(p) = TagOf(q)
    BY <2>2, <2>3, <2>5 DEF IsOutput
  <2>. QED  BY <1>1, <2>6, PlacesOfBlock
<1>2. CASE MadeByBatch(bs, p) /\ MadeByBatch(bs, q)
  <2>2. PICK y \in BlockOutputs(bs) : IsBlockOutput(p, y)
    BY <1>2, BlockOutputPlaces DEF MadeByBatch
  <2>3. PICK w \in BlockOutputs(bs) : IsBlockOutput(q, w)
    BY <1>2, BlockOutputPlaces DEF MadeByBatch
  <2>4. y.note.id = w.note.id
    BY <2>2, <2>3 DEF IsBlockOutput
  <2>5. y = w
    BY <2>4 DEF Accepted, NoDuplicates
  <2>6. BlockTag(p) = BlockTag(q)
    BY <2>2, <2>3, <2>5 DEF IsBlockOutput
  <2>7. TxsOf(p) = TxsOf(q) /\ TagOf(p) = TagOf(q)
    BY <2>6 DEF BlockTag
  <2>. QED  BY <2>7, PlacesOfBlock
<1>. QED  BY <1>1, <1>2

LEMMA ErasedInBatch ==
  ASSUME NEW bs, NEW keptIn, NEW keptOut, Accepted(bs, keptIn, keptOut),
         NEW c, NEW p, InBatch(bs, c, p)
  PROVE  ~KeptByBatch(bs, c) /\ ~MadeByBatch(bs, p) /\ TxsOf(c) = TxsOf(p)
<1>1. PICK b \in bs : /\ TxsOf(c) = b.txs /\ TxsOf(p) = b.txs
                      /\ ~BatchKeepsInput(b, c) /\ ~BatchKeepsOutput(b, p)
  BY DEF InBatch
<1>2. \A d \in bs : d.txs = b.txs => d = b
  BY DEF Accepted
<1>. QED  BY <1>1, <1>2 DEF KeptByBatch, MadeByBatch

(* A note is handed over once.                                             *)
LEMMA HandedOnce ==
  ASSUME NEW bs, NEW keptIn, NEW keptOut, Accepted(bs, keptIn, keptOut),
         NEW c \in Taken(bs), NEW d \in Taken(bs), NEW p \in Given(bs), NEW q \in Given(bs),
         Handed(bs, keptIn, keptOut, c, p), Handed(bs, keptIn, keptOut, d, q)
  PROVE  c = d <=> p = q
<1>1. /\ L!NoteOf(p) \in L!InputOf(c).header
      /\ L!NoteOf(q) \in L!InputOf(d).header
  BY Zenon DEF Handed
<1>2. \/ TxsOf(c) = TxsOf(p) /\ ~KeptByBatch(bs, c) /\ ~MadeByBatch(bs, p)
      \/ KeptByBatch(bs, c) /\ MadeByBatch(bs, p)
  BY ErasedInBatch, Zenon DEF Handed, AcrossBatches
<1>3. \/ TxsOf(d) = TxsOf(q) /\ ~KeptByBatch(bs, d) /\ ~MadeByBatch(bs, q)
      \/ KeptByBatch(bs, d) /\ MadeByBatch(bs, q)
  BY ErasedInBatch, Zenon DEF Handed, AcrossBatches
<1>4. ASSUME c = d
      PROVE  p = q
  <2>1. L!NoteOf(p).id = L!NoteOf(q).id
    BY <1>1, <1>4, HeaderOfConsumption, Zenon
  <2>2. TxsOf(p) = TxsOf(q) \/ (MadeByBatch(bs, p) /\ MadeByBatch(bs, q))
    BY <1>2, <1>3, <1>4
  <2>. QED  BY <2>1, <2>2, CreationsDiffer
<1>5. ASSUME p = q
      PROVE  c = d
  <2>1. L!InputOf(c).nullifier = L!InputOf(d).nullifier
    BY <1>1, <1>5, HeaderOfConsumption, Zenon
  <2>2. TxsOf(c) = TxsOf(d) \/ (KeptByBatch(bs, c) /\ KeptByBatch(bs, d))
    BY <1>2, <1>3, <1>5
  <2>. QED  BY <2>1, <2>2, ConsumptionsDiffer
<1>. QED  BY <1>4, <1>5

(* What is not kept was handed over, and only that.                        *)
LEMMA ErasedInputsAreHandedOver ==
  ASSUME NEW bs, NEW keptIn, NEW keptOut, Accepted(bs, keptIn, keptOut),
         NEW c \in Taken(bs)
  PROVE  KeptTag(keptIn, BlockTag(c)) <=>
           ~\E p \in Given(bs) : Handed(bs, keptIn, keptOut, c, p)
<1>1. ASSUME KeptTag(keptIn, BlockTag(c)), NEW p, Handed(bs, keptIn, keptOut, c, p)
      PROVE  FALSE
  <2>1. KeptByBatch(bs, c)
    BY <1>1, KeptIsKeptByBatch
  <2>2. InBatch(bs, c, p) \/ AcrossBatches(bs, keptIn, keptOut, c, p)
    BY <1>1, Zenon DEF Handed
  <2>3. ~InBatch(bs, c, p)
    BY <2>1, ErasedInBatch
  <2>. QED  BY <1>1, <2>2, <2>3 DEF AcrossBatches
<1>2. ASSUME ~KeptTag(keptIn, BlockTag(c)), KeptByBatch(bs, c)
      PROVE  \E p \in Given(bs) : Handed(bs, keptIn, keptOut, c, p)
  <2>1. PICK z \in BlockInputs(bs) : IsBlockInput(c, z)
    BY <1>2, BlockInputPlaces DEF KeptByBatch
  <2>2. PICK o \in BlockOutputs(bs) \ keptOut : o.note \in z.header
    BY <1>2, <2>1, Zenon DEF Accepted, Traced, IsBlockInput
  <2>3. o.note \in L!InputOf(c).header
    BY <2>1, <2>2, Zenon DEF IsBlockInput
  <2>4. PICK p \in Given(bs) : IsBlockOutput(p, o) /\ MadeByBatch(bs, p)
    BY <2>2, BlockOutputPlaces, Zenon DEF MadeByBatch
  <2>5. ~KeptTag(keptOut, BlockTag(p))
    <3>. SUFFICES ASSUME NEW x \in keptOut, x.tag = BlockTag(p)
                  PROVE  FALSE
      BY DEF KeptTag
    <3>1. x \in BlockOutputs(bs)
      BY Zenon DEF Accepted, Traced
    <3>2. x = o
      <4>1. x.tag = o.tag
        BY <2>4, Zenon DEF IsBlockOutput
      <4> QED
        BY <2>2, <3>1, <4>1, BlockOutputPlaces, Zenon
    <3>. QED  BY <2>2, <3>2
  <2>6. AcrossBatches(bs, keptIn, keptOut, c, p)
    BY <1>2, <2>4, <2>5 DEF AcrossBatches
  <2>7. L!NoteOf(p) \in L!InputOf(c).header
    BY <2>3, <2>4, Zenon DEF IsBlockOutput
  <2>. QED  BY <2>6, <2>7, Zenon DEF Handed
<1>3. ASSUME ~KeptByBatch(bs, c)
      PROVE  \E p \in Given(bs) : Handed(bs, keptIn, keptOut, c, p)
  <2>1. PICK b \in bs : TxsOf(c) = b.txs
    BY PlacesOfBlock
  <2>2. ~BatchKeepsInput(b, c)
    BY <1>3, <2>1, Zenon DEF KeptByBatch
  <2>3. PICK y \in TxInputs(b.txs) : IsInput(c, y)
    BY <2>1, TxInputPlaces
  <2>4. PICK o \in TxOutputs(b.txs) \ b.outputs : o.note \in y.header
    <3>1. Traced(TxInputs(b.txs), TxOutputs(b.txs), b.inputs, b.outputs, Created)
      BY Zenon DEF Accepted, BatchInv
    <3>2. ~KeptTag(b.inputs, y.tag)
      BY <2>2, <2>3, Zenon DEF IsInput, BatchKeepsInput
    <3>. QED  BY <3>1, <3>2, Zenon DEF Traced
  <2>5. PICK p \in Given(bs) : TxsOf(p) = b.txs /\ IsOutput(p, o)
    BY <2>4, TxOutputPlaces, Zenon
  <2>6. ~BatchKeepsOutput(b, p)
    <3>. SUFFICES ASSUME NEW x \in b.outputs, x.tag = TagOf(p)
                  PROVE  FALSE
      BY DEF BatchKeepsOutput, KeptTag
    <3>1. x \in TxOutputs(b.txs)
      BY Zenon DEF Accepted, BatchInv, Traced
    <3>2. x = o
      BY <2>4, <2>5, <3>1, TxOutputTags, Zenon DEF IsOutput
    <3>. QED  BY <2>4, <3>2
  <2>7. InBatch(bs, c, p)
    BY <2>1, <2>2, <2>5, <2>6, Zenon DEF InBatch
  <2>8. L!NoteOf(p) \in L!InputOf(c).header
    BY <2>3, <2>4, <2>5, Zenon DEF IsOutput, IsInput
  <2>. QED  BY <2>7, <2>8, Zenon DEF Handed
<1>. QED  BY <1>1, <1>2, <1>3

LEMMA ErasedOutputsAreHandedOver ==
  ASSUME NEW bs, NEW keptIn, NEW keptOut, Accepted(bs, keptIn, keptOut),
         NEW p \in Given(bs)
  PROVE  KeptTag(keptOut, BlockTag(p)) <=>
           ~\E c \in Taken(bs) : Handed(bs, keptIn, keptOut, c, p)
<1>1. ASSUME KeptTag(keptOut, BlockTag(p)), NEW c, Handed(bs, keptIn, keptOut, c, p)
      PROVE  FALSE
  <2>1. MadeByBatch(bs, p)
    BY <1>1, KeptIsKeptByBatch
  <2>2. InBatch(bs, c, p) \/ AcrossBatches(bs, keptIn, keptOut, c, p)
    BY <1>1, Zenon DEF Handed
  <2>3. ~InBatch(bs, c, p)
    BY <2>1, ErasedInBatch
  <2>. QED  BY <1>1, <2>2, <2>3 DEF AcrossBatches
<1>2. ASSUME ~KeptTag(keptOut, BlockTag(p)), MadeByBatch(bs, p)
      PROVE  \E c \in Taken(bs) : Handed(bs, keptIn, keptOut, c, p)
  <2>1. PICK o \in BlockOutputs(bs) : IsBlockOutput(p, o)
    BY <1>2, BlockOutputPlaces DEF MadeByBatch
  <2>2. o \notin keptOut
    BY <1>2, <2>1 DEF KeptTag, IsBlockOutput
  <2>3. PICK z \in BlockInputs(bs) : o.note \in z.header /\ ~KeptTag(keptIn, z.tag)
    BY <2>1, <2>2, Zenon DEF Accepted, Traced
  <2>4. PICK c \in Taken(bs) : IsBlockInput(c, z) /\ KeptByBatch(bs, c)
    BY BlockInputPlaces DEF KeptByBatch
  <2>5. ~KeptTag(keptIn, BlockTag(c))
    BY <2>3, <2>4, Zenon DEF IsBlockInput
  <2>6. AcrossBatches(bs, keptIn, keptOut, c, p)
    BY <1>2, <2>4, <2>5 DEF AcrossBatches
  <2>7. L!NoteOf(p) \in L!InputOf(c).header
    BY <2>1, <2>3, <2>4, Zenon DEF IsBlockOutput, IsBlockInput
  <2>. QED  BY <2>6, <2>7, Zenon DEF Handed
<1>3. ASSUME ~MadeByBatch(bs, p)
      PROVE  \E c \in Taken(bs) : Handed(bs, keptIn, keptOut, c, p)
  <2>1. PICK b \in bs : TxsOf(p) = b.txs
    BY PlacesOfBlock
  <2>2. ~BatchKeepsOutput(b, p)
    BY <1>3, <2>1 DEF MadeByBatch
  <2>3. PICK o \in TxOutputs(b.txs) : IsOutput(p, o)
    BY <2>1, TxOutputPlaces
  <2>4. o \notin b.outputs
    BY <2>2, <2>3 DEF BatchKeepsOutput, KeptTag, IsOutput
  <2>5. PICK y \in TxInputs(b.txs) : o.note \in y.header /\ ~KeptTag(b.inputs, y.tag)
    BY <2>3, <2>4, Zenon DEF Accepted, BatchInv, Traced
  <2>6. PICK c \in Taken(bs) : TxsOf(c) = b.txs /\ IsInput(c, y)
    BY TxInputPlaces
  <2>7. InBatch(bs, c, p)
    BY <2>1, <2>2, <2>5, <2>6, Zenon DEF InBatch, BatchKeepsInput, IsInput
  <2>8. L!NoteOf(p) \in L!InputOf(c).header
    BY <2>3, <2>5, <2>6, Zenon DEF IsOutput, IsInput
  <2>. QED  BY <2>7, <2>8, Zenon DEF Handed
<1>. QED  BY <1>1, <1>2, <1>3

(* The notes handed over, as pairs.                                        *)
Erased(bs, keptIn, keptOut) ==
  {m \in L!HandOvers(ExecsOf(BodiesOf(bs))) : Handed(bs, keptIn, keptOut, m[1], m[2])}

LEMMA ErasedPairs ==
  ASSUME NEW bs, NEW keptIn, NEW keptOut
  PROVE  /\ \A m \in Erased(bs, keptIn, keptOut) : \E c \in Taken(bs), p \in Given(bs) :
              /\ m = <<c, p>> /\ m[1] = c /\ m[2] = p
              /\ Handed(bs, keptIn, keptOut, c, p)
         /\ \A c \in Taken(bs), p \in Given(bs) :
              Handed(bs, keptIn, keptOut, c, p) => <<c, p>> \in Erased(bs, keptIn, keptOut)
<1>1. ASSUME NEW m \in Erased(bs, keptIn, keptOut)
      PROVE  \E c \in Taken(bs), p \in Given(bs) :
               /\ m = <<c, p>> /\ m[1] = c /\ m[2] = p
               /\ Handed(bs, keptIn, keptOut, c, p)
  <2>1. /\ m \in Taken(bs) \X Given(bs)
        /\ Handed(bs, keptIn, keptOut, m[1], m[2])
    BY Zenon DEF Erased, L!HandOvers, Taken, Given
  <2>2. m[1] \in Taken(bs) /\ m[2] \in Given(bs) /\ m = <<m[1], m[2]>>
    BY <2>1
  <2>. QED  BY <2>1, <2>2
<1>2. ASSUME NEW c \in Taken(bs), NEW p \in Given(bs), Handed(bs, keptIn, keptOut, c, p)
      PROVE  <<c, p>> \in Erased(bs, keptIn, keptOut)
  <2>1. L!NoteOf(p) \in L!InputOf(c).header
    BY <1>2, Zenon DEF Handed
  <2>2. <<c, p>> \in L!HandOvers(ExecsOf(BodiesOf(bs)))
    BY <2>1 DEF L!HandOvers, Taken, Given
  <2>. QED  BY <1>2, <2>2 DEF Erased
<1>. QED  BY <1>1, <1>2

LEMMA ErasedSides ==
  ASSUME NEW bs, NEW keptIn, NEW keptOut, Accepted(bs, keptIn, keptOut)
  PROVE  /\ L!OneToOne(Erased(bs, keptIn, keptOut))
         /\ \A c \in Taken(bs) : KeptTag(keptIn, BlockTag(c)) <=>
              c \notin {m[1] : m \in Erased(bs, keptIn, keptOut)}
         /\ \A p \in Given(bs) : KeptTag(keptOut, BlockTag(p)) <=>
              p \notin {m[2] : m \in Erased(bs, keptIn, keptOut)}
<1>. DEFINE M == Erased(bs, keptIn, keptOut)
<1>1. \A m \in M : \E c \in Taken(bs), p \in Given(bs) :
        m = <<c, p>> /\ m[1] = c /\ m[2] = p /\ Handed(bs, keptIn, keptOut, c, p)
  BY ErasedPairs, Zenon
<1>2. \A c \in Taken(bs), p \in Given(bs) : Handed(bs, keptIn, keptOut, c, p) => <<c, p>> \in M
  BY ErasedPairs, Zenon
<1>. HIDE DEF M
<1>3. ASSUME NEW m \in M, NEW n \in M, m[1] = n[1] \/ m[2] = n[2]
      PROVE  m = n
  <2>1. PICK c \in Taken(bs), p \in Given(bs) :
          m = <<c, p>> /\ m[1] = c /\ m[2] = p /\ Handed(bs, keptIn, keptOut, c, p)
    BY <1>1, Zenon
  <2>2. PICK d \in Taken(bs), q \in Given(bs) :
          n = <<d, q>> /\ n[1] = d /\ n[2] = q /\ Handed(bs, keptIn, keptOut, d, q)
    BY <1>1, Zenon
  <2>3. c = d <=> p = q
    <3>1. Handed(bs, keptIn, keptOut, c, p) /\ Handed(bs, keptIn, keptOut, d, q)
      BY <2>1, <2>2, Zenon
    <3>. QED  BY <3>1, HandedOnce
  <2>4. c = d \/ p = q
    BY <1>3, <2>1, <2>2, Zenon
  <2>. QED  BY <2>1, <2>2, <2>3, <2>4, Zenon
<1>4. ASSUME NEW c \in Taken(bs)
      PROVE  c \in {m[1] : m \in M} <=> \E p \in Given(bs) : Handed(bs, keptIn, keptOut, c, p)
  <2>1. ASSUME NEW p \in Given(bs), Handed(bs, keptIn, keptOut, c, p)
        PROVE  <<c, p>> \in M /\ <<c, p>>[1] = c
    BY <1>2, <2>1
  <2>. QED  BY <1>1, <2>1, Zenon
<1>5. ASSUME NEW p \in Given(bs)
      PROVE  p \in {m[2] : m \in M} <=> \E c \in Taken(bs) : Handed(bs, keptIn, keptOut, c, p)
  <2>1. ASSUME NEW c \in Taken(bs), Handed(bs, keptIn, keptOut, c, p)
        PROVE  <<c, p>> \in M /\ <<c, p>>[2] = p
    BY <1>2, <2>1
  <2>. QED  BY <1>1, <2>1, Zenon
<1>6. \A c \in Taken(bs) : KeptTag(keptIn, BlockTag(c)) <=> c \notin {m[1] : m \in M}
  BY <1>4, ErasedInputsAreHandedOver, Zenon
<1>7. \A p \in Given(bs) : KeptTag(keptOut, BlockTag(p)) <=> p \notin {m[2] : m \in M}
  BY <1>5, ErasedOutputsAreHandedOver, Zenon
<1>. QED  BY <1>3, <1>6, <1>7, Zenon DEF M, L!OneToOne

(* What a kept input and a kept output stand for.                          *)
LEMMA KeptInputIsConsumption ==
  ASSUME NEW bs, NEW keptIn, NEW keptOut, Accepted(bs, keptIn, keptOut), NEW x \in keptIn
  PROVE  /\ \E c \in Taken(bs) : x.tag = BlockTag(c)
         /\ \A c \in Taken(bs) : x.tag = BlockTag(c) =>
              /\ x.nullifier = L!InputOf(c).nullifier
              /\ IsAuthenticated(x) => L!InputOf(c).header \subseteq Created
<1>1. PICK z \in BlockInputs(bs) : Same(x, z, Created)
  BY Zenon DEF Accepted, Traced
<1>2. PICK d \in Taken(bs) : IsBlockInput(d, z)
  BY BlockInputPlaces
<1>3. x.tag = BlockTag(d) /\ x.nullifier = L!InputOf(d).nullifier
  BY <1>1, <1>2, Zenon DEF Same, IsBlockInput
<1>4. IsAuthenticated(x) => L!InputOf(d).header \subseteq Created
  BY <1>1, <1>2, Zenon DEF Same, IsBlockInput, IsAuthenticated
<1>5. ASSUME NEW c \in Taken(bs), x.tag = BlockTag(c)
      PROVE  c = d
  <2>1. TxsOf(c) = TxsOf(d) /\ TagOf(c) = TagOf(d)
    BY <1>3, <1>5, TagParts, Zenon
  <2>. QED  BY <2>1, PlacesOfBlock
<1>. QED  BY <1>3, <1>4, <1>5, Zenon

LEMMA KeptOutputIsCreation ==
  ASSUME NEW bs, NEW keptIn, NEW keptOut, Accepted(bs, keptIn, keptOut), NEW o \in keptOut
  PROVE  /\ \E p \in Given(bs) : o.tag = BlockTag(p)
         /\ \A p \in Given(bs) : o.tag = BlockTag(p) =>
              o.note = L!NoteOf(p)
<1>1. o \in BlockOutputs(bs)
  BY Zenon DEF Accepted, Traced
<1>2. PICK q \in Given(bs) : IsBlockOutput(q, o)
  BY <1>1, BlockOutputPlaces
<1>3. ASSUME NEW p \in Given(bs), o.tag = BlockTag(p)
      PROVE  p = q
  <2>1. TxsOf(p) = TxsOf(q) /\ TagOf(p) = TagOf(q)
    BY <1>2, <1>3, TagParts, Zenon DEF IsBlockOutput
  <2>. QED  BY <2>1, PlacesOfBlock
<1>. QED  BY <1>2, <1>3 DEF IsBlockOutput

(* The halves of the two lemmas above, each on its own.                    *)
LEMMA KeptInputHasPlace ==
  ASSUME NEW bs, NEW keptIn, NEW keptOut, Accepted(bs, keptIn, keptOut), NEW x \in keptIn
  PROVE  \E c \in Taken(bs) : x.tag = BlockTag(c)
<1>1. PICK z \in BlockInputs(bs) : Same(x, z, Created)
  BY Zenon DEF Accepted, Traced
<1>2. PICK c \in Taken(bs) : IsBlockInput(c, z)
  BY BlockInputPlaces
<1>. QED  BY <1>1, <1>2, Zenon DEF Same, IsBlockInput

LEMMA KeptOutputHasPlace ==
  ASSUME NEW bs, NEW keptIn, NEW keptOut, Accepted(bs, keptIn, keptOut), NEW o \in keptOut
  PROVE  \E p \in Given(bs) : o.tag = BlockTag(p)
BY KeptOutputIsCreation

LEMMA KeptInputIsThis ==
  ASSUME NEW bs, NEW keptIn, NEW keptOut, Accepted(bs, keptIn, keptOut), NEW x \in keptIn,
         NEW c \in Taken(bs), x.tag = BlockTag(c)
  PROVE  /\ x.nullifier = L!InputOf(c).nullifier
         /\ IsAuthenticated(x) => L!InputOf(c).header \subseteq Created
BY KeptInputIsConsumption, Zenon

LEMMA KeptOutputIsThis ==
  ASSUME NEW bs, NEW keptIn, NEW keptOut, Accepted(bs, keptIn, keptOut), NEW o \in keptOut,
         NEW p \in Given(bs), o.tag = BlockTag(p)
  PROVE  o.note = L!NoteOf(p)
BY KeptOutputIsCreation

(* Building a block is one step of the ledger.                             *)
LEMMA BlockIsNoteStep ==
  ASSUME LedgerInv, NEW bs \in SUBSET batches, NEW proofs \in ProofsFor(BlockInputs(bs)),
         NEW ha, NEW hn, ProposeBlock(bs, proofs, ha, hn)
  PROVE  L!NoteStep(Executions')
<1>. DEFINE K == KeptBlockInputs(bs, proofs)
            O == KeptBlockOutputs(bs, proofs)
            M == Erased(bs, K, O)
            consumed == Taken(bs) \ {m[1] : m \in M}
            recorded == Given(bs) \ {m[2] : m \in M}
<1>1. /\ \A x \in K : IsAuthenticated(x) /\ x.nullifier \notin Tip.nullifiers
      /\ Backed(K, Created) /\ body' = BodiesOf(bs)
  BY BlockMade, BlockTraced, Zenon DEF BodiesOf
<1>2. PICK e : /\ chain' = Append(chain, e)
               /\ e.notes = {o.note : o \in O}
               /\ e.nullifiers = Tip.nullifiers \cup {x.nullifier : x \in K}
  BY BlockMade, Zenon
<1>3. Accepted(bs, K, O)
  BY BlockMade, BlockTraced, Zenon DEF Accepted, BatchesFit
<1>4. Executions' = ExecsOf(BodiesOf(bs))
  BY <1>1, Zenon DEF Executions, ExecsOf
<1>5. Tip'.nullifiers = Tip.nullifiers \cup {x.nullifier : x \in K}
  BY <1>2, ChainGrows, Zenon DEF LedgerInv
<1>6. Created' = Created \cup {o.note : o \in O}
  BY <1>2, CreatedGrows, Zenon DEF LedgerInv
<1>. HIDE DEF K, O
<1>7. \A c : c \in consumed <=> c \in Taken(bs) /\ KeptTag(K, BlockTag(c))
  BY <1>3, ErasedSides, Zenon
<1>8. \A p : p \in recorded <=> p \in Given(bs) /\ KeptTag(O, BlockTag(p))
  BY <1>3, ErasedSides, Zenon
<1>9. L!OneToOne(M)
  BY <1>3, ErasedSides, Zenon
<1>10. M \in SUBSET L!HandOvers(ExecsOf(BodiesOf(bs)))
  BY DEF Erased
<1>. HIDE DEF M, consumed, recorded
<1>11. ASSUME NEW c \in consumed
       PROVE  /\ L!InputOf(c).nullifier \notin Tip.nullifiers
              /\ \E n \in Created : n.id = L!InputOf(c).nullifier
              /\ L!InputOf(c).header \subseteq Created
              /\ \E x \in K : x.nullifier = L!InputOf(c).nullifier
  <2>1. PICK x \in K : x.tag = BlockTag(c)
    BY <1>7 DEF KeptTag
  <2>2. c \in Taken(bs)
    BY <1>7
  <2>3. /\ x.nullifier = L!InputOf(c).nullifier
        /\ IsAuthenticated(x) => L!InputOf(c).header \subseteq Created
    BY <1>3, <2>1, <2>2, KeptInputIsThis, Zenon
  <2>. QED  BY <1>1, <2>3 DEF Backed
<1>12. ASSUME NEW c \in consumed, NEW d \in consumed,
              L!InputOf(c).nullifier = L!InputOf(d).nullifier
       PROVE  c = d
  <2>1. c \in Taken(bs) /\ d \in Taken(bs) /\ KeptByBatch(bs, c) /\ KeptByBatch(bs, d)
    BY <1>3, <1>7, KeptIsKeptByBatch
  <2>. QED  BY <1>3, <1>12, <2>1, ConsumptionsDiffer
<1>13. ASSUME NEW p \in recorded, NEW q \in recorded, L!NoteOf(p).id = L!NoteOf(q).id
       PROVE  p = q
  <2>1. p \in Given(bs) /\ q \in Given(bs) /\ MadeByBatch(bs, p) /\ MadeByBatch(bs, q)
    BY <1>3, <1>8, KeptIsKeptByBatch
  <2>. QED  BY <1>3, <1>13, <2>1, CreationsDiffer
<1>14. {x.nullifier : x \in K} = {L!InputOf(c).nullifier : c \in consumed}
  <2>1. ASSUME NEW x \in K
        PROVE  \E c \in consumed : x.nullifier = L!InputOf(c).nullifier
    <3>1. PICK c \in Taken(bs) : x.tag = BlockTag(c)
      BY <1>3, KeptInputHasPlace, Zenon
    <3>2. x.nullifier = L!InputOf(c).nullifier
      BY <1>3, <3>1, KeptInputIsThis, Zenon
    <3>3. c \in consumed
      BY <1>7, <3>1 DEF KeptTag
    <3>. QED  BY <3>2, <3>3, Zenon
  <2>. QED  BY <1>11, <2>1, Zenon
<1>15. {o.note : o \in O} = {L!NoteOf(p) : p \in recorded}
  <2>1. ASSUME NEW o \in O
        PROVE  \E p \in recorded : o.note = L!NoteOf(p)
    <3>1. PICK p \in Given(bs) : o.tag = BlockTag(p)
      BY <1>3, KeptOutputHasPlace, Zenon
    <3>2. o.note = L!NoteOf(p)
      BY <1>3, <3>1, KeptOutputIsThis, Zenon
    <3>3. p \in recorded
      BY <1>8, <3>1 DEF KeptTag
    <3>. QED  BY <3>2, <3>3
  <2>2. ASSUME NEW p \in recorded
        PROVE  \E o \in O : o.note = L!NoteOf(p)
    <3>1. PICK o \in O : o.tag = BlockTag(p)
      BY <1>8 DEF KeptTag
    <3>2. p \in Given(bs)
      BY <1>8
    <3>3. o.note = L!NoteOf(p)
      BY <1>3, <3>1, <3>2, KeptOutputIsThis, Zenon
    <3>. QED  BY <3>1, <3>3
  <2>. QED  BY <2>1, <2>2
<1>16. /\ Tip'.nullifiers = Tip.nullifiers \cup {L!InputOf(c).nullifier : c \in consumed}
       /\ Created' = Created \cup {L!NoteOf(p) : p \in recorded}
  BY <1>5, <1>6, <1>14, <1>15
<1>17. /\ consumed = L!Consumptions(Executions') \ {m[1] : m \in M}
       /\ recorded = L!Creations(Executions') \ {m[2] : m \in M}
       /\ M \in SUBSET L!HandOvers(Executions')
  BY <1>4, <1>10, Zenon DEF consumed, recorded, Taken, Given
<1>18. /\ \A c, d \in consumed : L!InputOf(c).nullifier = L!InputOf(d).nullifier => c = d
       /\ \A c \in consumed : /\ L!InputOf(c).nullifier \notin Tip.nullifiers
                              /\ \E n \in Created : n.id = L!InputOf(c).nullifier
                              /\ L!InputOf(c).header \subseteq Created
       /\ \A p, q \in recorded : L!NoteOf(p).id = L!NoteOf(q).id => p = q
  BY <1>11, <1>12, <1>13, Zenon
<1>. QED  BY <1>9, <1>16, <1>17, <1>18, Zenon DEF L!NoteStep

(* The chain implements the ledger: whatever a batch or a block erases,    *)
(* however late a note is authenticated and however long a batch waits,    *)
(* building a block applies the executions of its batches at once, every   *)
(* consumption being of an unspent recorded note or of a note one          *)
(* execution hands to exactly one other, and every account moving along    *)
(* all the executions that change it, each from where the one before       *)
(* ended, although only merged updates are looked at.                      *)
THEOREM ChainImplementsLedger == Spec => ImplementsLedger
<1>1. Init => L!Init
  <2>. SUFFICES ASSUME Init
                PROVE  L!Init
    OBVIOUS
  <2>1. Tip.nullifiers = {}
    BY GenesisIsChain, BlockAssumption
  <2>2. Executions = {}
    BY DEF Init, Executions
  <2>. QED  BY <2>1, <2>2 DEF L!Init
<1>2. LedgerInv /\ AccountInv /\ AccountInv' /\ [Next]_vars => [L!Apply]_(L!ledgerVars)
  <2>. SUFFICES ASSUME LedgerInv, AccountInv, AccountInv', [Next]_vars
                PROVE  L!Apply \/ UNCHANGED <<Tip.accounts, Created, Tip.nullifiers, Executions>>
    BY DEF L!ledgerVars
  <2>1. CASE chain' = chain /\ body' = body
    <3>1. Created' = Created /\ Tip' = Tip
      BY <2>1, ChainStays
    <3>2. Executions' = Executions
      BY <2>1 DEF Executions
    <3>. QED  BY <3>1, <3>2
  <2>2. CASE \E bs \in SUBSET batches : \E proofs \in ProofsFor(BlockInputs(bs)) :
               \E ha, hn \in 0 .. Height : ProposeBlock(bs, proofs, ha, hn)
    <3>1. L!NoteStep(Executions')
      BY <2>2, BlockIsNoteStep
    <3>2. L!AccountStep(Executions')
      BY <2>2, BlockIsAccountStep, Zenon
    <3>3. DOMAIN Tip'.accounts = DOMAIN Tip.accounts
      BY DEF AccountInv
    <3>. QED  BY <3>1, <3>2, <3>3, Zenon DEF L!Apply
  <2>3. DropBatch \/ UNCHANGED vars => chain' = chain /\ body' = body
    BY DEF DropBatch, vars
  <2>4. (\E txs \in TxSeqs : \E proofs \in ProofsFor(TxInputs(txs)) : ProposeBatch(txs, proofs))
          => chain' = chain /\ body' = body
    BY BatchMade
  <2>. QED  BY <2>1, <2>2, <2>3, <2>4, Zenon DEF Next
<1>. QED  BY <1>1, <1>2, LedgerInvHolds, AccountInvHolds, PTL DEF Spec, ImplementsLedger, L!Spec
=============================================================================
