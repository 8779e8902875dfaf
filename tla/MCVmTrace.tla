------------------------------ MODULE MCVmTrace ------------------------------
(* Small programs, of every kind of node, for VmTrace.                     *)
EXTENDS VmTrace, TLC

Raw(k, a, b, batches, digest) ==
  [k |-> k, a |-> a, b |-> b, batches |-> batches, digest |-> digest]

Join(a, b)  == Raw("join", a, b, <<>>, 0)
Split(a, b) == Raw("split", a, b, <<>>, 0)
Loop(a)     == Raw("loop", a, 0, <<>>, 0)
Call(a)     == Raw("call", a, 0, <<>>, 0)
Syscall(a)  == Raw("syscall", a, 0, <<>>, 0)
Dyn         == Raw("dyn", 0, 0, <<>>, 0)
Dyncall     == Raw("dyncall", 0, 0, <<>>, 0)
Block(bs)   == Raw("block", 0, 0, bs, 0)
External(d) == Raw("external", 0, 0, <<>>, d)

(* Node n of forest f has the digest 10 * f + n, an external node that of  *)
(* the node it stands for.                                                 *)
Forest(f, raw, roots) ==
  [nodes |-> [n \in DOMAIN raw |->
                IF raw[n].k = "external" THEN raw[n] ELSE [raw[n] EXCEPT !.digest = 10 * f + n]],
   roots |-> roots]

(* The host's procedures: 1 calls and grows the stack meanwhile, 5 shrinks *)
(* it, 7 is a mere reference to a procedure, 8 goes on to the first.       *)
Library == Forest(2, <<Join(2, 3), Block(<< <<"one">>, <<"swap">> >>), Join(4, 5), Call(6),
                       Block(<< <<"drop">> >>), Block(<< <<"pad", "drop">> >>), External(11),
                       Join(5, 9), External(21)>>,
                  {1, 5, 7, 8})

(* Address 0 holds the program's own procedure 4, address 1 the library's  *)
(* first one, address 2 no procedure.                                      *)
Memory == (0 :> 14) @@ (1 :> 21) @@ (2 :> None)

(* The program raw, whose first node is its body, in a join with a block   *)
(* that clears the stack.                                                  *)
Program(raw) ==
  LET n   == Len(raw)
      all == raw \o <<Block(<< <<"drop", "drop">>, <<"drop">> >>), Join(1, n + 1)>>
  IN [forests |-> <<Forest(1, all, {1, 4}), Library>>, main |-> 1, entry |-> n + 2,
      host |-> {2}, kernel |-> {17, 19}, mem |-> Memory]

Growing   == {<< <<"one">> >>, << <<"pad">> >>, << <<"one", "pad">> >>, << <<"pad", "one">> >>}
Shrinking == {<< <<"drop">> >>, << <<"swap">>, <<"drop", "drop">> >>}
Blocks    == Growing \cup Shrinking \cup {<< <<"emit">> >>}

Loops     == {<<Join(2, 3), Block(a), Loop(4), Block(b)>> : a \in Blocks, b \in Blocks}
Branches  == {<<Join(2, 3), Block(a), Split(4, 5), Block(b), Call(6), Block(c)>> :
                a \in Blocks, b \in Blocks, c \in Shrinking}
Calls     == {<<Join(2, 3), Block(a), Call(4), Join(5, 6), Block(b), Join(7, 8), Syscall(9),
                Block(c), Block(c)>> :
                a \in Growing, b \in Growing, c \in Shrinking}
Syscalls  == {<<Join(2, 3), Block(a), Call(4), Join(5, 6), Block(b), Syscall(7), Block(c)>> :
                a \in Growing, b \in Blocks, c \in Shrinking}
Dyncalls  == {<<Join(2, 3), Block(a), Dyncall, Join(5, 6), Block(b), Block(c)>> :
                a \in Blocks, b \in Blocks, c \in Shrinking}
Dyns      == {<<Join(2, 3), Block(a), Dyn, Call(5), Block(b)>> : a \in Blocks, b \in Shrinking}
LoopsOver(nd) == {<<Join(2, 3), Block(a), Loop(4), Join(5, 6), nd, Block(b), Block(c)>> :
                    a \in Growing, b \in Blocks, c \in Shrinking}
Externals == {<<Join(2, 3), Join(4, 5), Join(6, 4), Block(a), External(21), External(d)>> :
                a \in Blocks, d \in {25, 27, 29}}

(* A program that is nothing but a reference to a procedure of the host.   *)
ReferencePrograms ==
  {[Program(<<External(d)>>) EXCEPT !.entry = 1] : d \in {25, 28}}

AllPrograms ==
  {Program(raw) : raw \in Loops \cup Branches \cup Calls \cup Syscalls \cup Dyncalls \cup Dyns
                          \cup LoopsOver(External(25)) \cup LoopsOver(Dyncall)
                          \cup LoopsOver(Call(7)) \cup Externals}
    \cup ReferencePrograms

(* The programs that consist of a loop.                                    *)
LoopPrograms == {Program(raw) : raw \in Loops}

(* Every condition there is, and a first element that is not one.          *)
StackInputs == [1..2 -> {0, 1}] \cup {<<2, 1>>}
=============================================================================
