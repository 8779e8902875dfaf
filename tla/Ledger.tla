------------------------------- MODULE Ledger -------------------------------
(***************************************************************************)
(* What a chain of blocks promises, with no trace of batches, witnesses,   *)
(* proofs or erasure: a ledger of account states and notes to which a      *)
(* whole set of transaction executions is applied at once.  An execution   *)
(* is [key, tx]; the key tells two executions of one transaction apart.    *)
(***************************************************************************)
EXTENDS Naturals, FiniteSets

VARIABLES accounts,    \* account -> state
          created,     \* notes ever recorded on chain
          nullified,   \* ids of the notes consumed from the chain
          last         \* the executions the last step applied

ledgerVars == <<accounts, created, nullified, last>>

(* A consumption is one input note of one execution, a creation one output *)
(* note; an input is [nullifier, header] and a note [id, meta].            *)
Consumptions(execs) == UNION {{[exec |-> e, idx |-> j] : j \in DOMAIN e.tx.inputs} : e \in execs}

Creations(execs) == UNION {{[exec |-> e, idx |-> j] : j \in DOMAIN e.tx.outputs} : e \in execs}

InputOf(c) == c.exec.tx.inputs[c.idx]

NoteOf(p) == p.exec.tx.outputs[p.idx]

(* A note passes from the execution that creates it to one that consumes   *)
(* it without ever being recorded: only for an input that names the note.  *)
HandOvers(execs) ==
  {m \in Consumptions(execs) \X Creations(execs) : NoteOf(m[2]) \in InputOf(m[1]).header}

OneToOne(M) == \A m, n \in M : m[1] = n[1] \/ m[2] = n[2] => m = n

(* Every note consumed is either handed over, each created note to at most *)
(* one consumer, or an unspent note of the ledger that no other execution  *)
(* consumes; what is created and not handed over is recorded.              *)
NoteStep(execs) ==
  \E M \in SUBSET HandOvers(execs) :
    LET consumed == Consumptions(execs) \ {m[1] : m \in M}
        recorded == Creations(execs) \ {m[2] : m \in M}
    IN  /\ OneToOne(M)
        /\ \A c, d \in consumed : InputOf(c).nullifier = InputOf(d).nullifier => c = d
        /\ \A c \in consumed :
             /\ InputOf(c).nullifier \notin nullified
             /\ \E n \in created : n.id = InputOf(c).nullifier
             /\ InputOf(c).header \subseteq created
        /\ \A p, q \in recorded : NoteOf(p).id = NoteOf(q).id => p = q
        /\ nullified' = nullified \cup {InputOf(c).nullifier : c \in consumed}
        /\ created' = created \cup {NoteOf(p) : p \in recorded}

(* The executions that change account a, in some order, lead from its      *)
(* state to its next one; each starts where the one before it ended.       *)
AccountStep(execs) ==
  \A a \in DOMAIN accounts :
    LET updates == {e \in execs : e.tx.account = a /\ e.tx.init # e.tx.final}
        n == Cardinality(updates)
    IN  \E order \in [1 .. n -> updates] :
          /\ \A i, j \in 1 .. n : order[i] = order[j] => i = j
          /\ \A i \in 1 .. n :
               order[i].tx.init = IF i = 1 THEN accounts[a] ELSE order[i - 1].tx.final
          /\ accounts'[a] = IF n = 0 THEN accounts[a] ELSE order[n].tx.final

Apply ==
  /\ DOMAIN accounts' = DOMAIN accounts
  /\ AccountStep(last')
  /\ NoteStep(last')

Init ==
  /\ nullified = {}
  /\ last = {}

Spec == Init /\ [][Apply]_ledgerVars
=============================================================================
