--------------------------- MODULE MCProposedBlock ---------------------------
(***************************************************************************)
(* Two accounts and two note ids.  The transactions include two that fork  *)
(* an account, one that recreates a note id, two that do not change their  *)
(* account and pass notes in a circle, one that names a note with the      *)
(* wrong metadata, one that consumes a note twice and one that expires.    *)
(***************************************************************************)
EXTENDS ProposedBlock, TLC

CONSTANTS a, b, n1, n2, m1, m2

MCAccounts == {a, b}
MCNoteValue == [n \in {n1, n2} |-> 1]

State(nonce, balance) == [nonce |-> nonce, balance |-> balance]
Note(id, meta) == [id |-> id, meta |-> meta]
Auth(id) == [nullifier |-> id, header |-> {}]
Unauth(id, meta) == [nullifier |-> id, header |-> {Note(id, meta)}]
Tx(account, init, final, inputs, outputs, exp) ==
  [account |-> account, init |-> init, final |-> final,
   inputs |-> inputs, outputs |-> outputs, exp |-> exp]

MCGenesis ==
  [notes |-> {Note(n1, m1)}, nullifiers |-> {},
   accounts |-> (a :> State(0, 2) @@ b :> State(0, 0))]

Never == 9

MCTxs ==
  { Tx(a, State(0, 2), State(1, 1), <<>>, <<Note(n2, m1)>>, Never),
    Tx(b, State(0, 0), State(1, 1), <<Unauth(n2, m1)>>, <<>>, Never),
    Tx(b, State(0, 0), State(1, 1), <<Unauth(n2, m2)>>, <<>>, Never),
    Tx(b, State(0, 0), State(1, 2), <<Auth(n1), Auth(n1)>>, <<>>, Never),
    Tx(b, State(1, 1), State(2, 0), <<>>, <<Note(n1, m1)>>, Never),
    Tx(a, State(1, 1), State(2, 2), <<Auth(n1)>>, <<>>, Never),
    Tx(a, State(0, 2), State(0, 2), <<Unauth(n1, m1)>>, <<Note(n2, m1)>>, 1),
    Tx(b, State(0, 0), State(0, 0), <<Unauth(n2, m1)>>, <<Note(n1, m1)>>, Never) }

(* Every transaction hands on exactly what it takes.                       *)
ASSUME TxsConserve ==
  \A tx \in MCTxs :
    LET sum(s, v(_)) == FoldFunction(+, 0, [j \in DOMAIN s |-> v(s[j])])
    IN  tx.init.balance + sum(tx.inputs, LAMBDA x : MCNoteValue[x.nullifier])
          = tx.final.balance + sum(tx.outputs, LAMBDA n : MCNoteValue[n.id])
=============================================================================
