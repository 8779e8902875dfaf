---------------------------- MODULE MastExecution ----------------------------
(***************************************************************************)
(* The execution loop of the virtual machine                               *)
(* (miden-vm/processor/src/execution, continuation_stack.rs).  The loop is *)
(* generic over the processor: the operators on a processor are constants  *)
(* here, and the module is instantiated once for FastProcessor, which runs *)
(* a program, and once for ReplayProcessor, which runs a fragment of it    *)
(* again to build the trace.                                               *)
(*                                                                         *)
(* An execution is a record x: the processor p, its clock clk, the         *)
(* continuation stack conts (its last element is the next one), the        *)
(* current forest, and ok, which turns FALSE when the loop breaks with an  *)
(* error.  Step(x) executes one continuation.  Inside a basic block, and   *)
(* from a loop that is not entered to its END, the code goes on to the     *)
(* next clock cycle without touching the continuation stack; the model     *)
(* puts the continuation that a stopper would be handed there on the stack *)
(* instead, after the checks of the stopper.  Decorators, which change     *)
(* nothing, and the frame pointer written to the callee's memory are left  *)
(* out.                                                                    *)
(***************************************************************************)
EXTENDS Integers, Sequences

CONSTANTS
  Node(_, _),          \* forest, node id -> node
  Root(_, _),          \* forest, digest -> id of the procedure root, or None
  Kernel,              \* digests of the kernel procedures
  None,
  Top(_),              \* the processor: the top element,
  CanPush(_), Push(_, _, _), CanDrop(_), Drop(_), Swap(_),
  CanRestore(_), Save(_), Restore(_),
  Callee(_),           \* the word at the address on top of the stack,
  AfterRead(_),
  Loaded(_, _),        \* digest -> [forest, node] or None
  AfterLoad(_),
  Exceeds(_, _)        \* the stopper's error: clock, length of the stack

Cont(k, n)        == [k |-> k, n |-> n]
FinishLoop(n, e)  == [k |-> "FinishLoop", n |-> n, entered |-> e]
Resume(n, b, i)   == [k |-> "ResumeBasicBlock", n |-> n, b |-> b, i |-> i]
Respan(n, b)      == [k |-> "Respan", n |-> n, b |-> b]
EnterForest(f)    == [k |-> "EnterForest", n |-> f]

(* Continuation::increments_clk; of the nodes started, only External does  *)
(* not start a clock cycle.                                                *)
IncrementsClk(c) == c.k \notin {"FinishExternal", "EnterForest"}

PushConts(x, cs) == [x EXCEPT !.conts = @ \o cs]

Fail(x) == [x EXCEPT !.ok = FALSE]

(* finalize_clock_cycle and NeverStopper or ReplayStopper; the execution   *)
(* goes on with the continuations in `inline`.                             *)
Finalize(x, inline) ==
  [x EXCEPT !.clk = @ + 1,
            !.ok = ~Exceeds(x.clk + 1, Len(x.conts)),
            !.conts = @ \o inline]

StartJoin(x, n) ==
  LET nd == Node(x.forest, n)
  IN Finalize(PushConts(x, <<Cont("FinishJoin", n), Cont("StartNode", nd.b), Cont("StartNode", nd.a)>>),
              <<>>)

FinishJoin(x) == Finalize(x, <<>>)

StartSplit(x, n) ==
  LET nd == Node(x.forest, n)
      c  == Top(x.p)
      y  == [x EXCEPT !.p = Drop(@)]
  IN IF CanDrop(x.p) /\ c \in {0, 1}
       THEN Finalize(PushConts(y, <<Cont("FinishSplit", n),
                                    Cont("StartNode", IF c = 1 THEN nd.a ELSE nd.b)>>), <<>>)
       ELSE Fail(x)

FinishSplit(x) == Finalize(x, <<>>)

StartLoop(x, n) ==
  LET nd == Node(x.forest, n)
      c  == Top(x.p)
      y  == [x EXCEPT !.p = Drop(@)]
  IN IF ~CanDrop(x.p) \/ c \notin {0, 1} THEN Fail(x)
     ELSE IF c = 1
       THEN Finalize(PushConts(y, <<FinishLoop(n, TRUE), Cont("StartNode", nd.a)>>), <<>>)
       ELSE Finalize(y, <<FinishLoop(n, FALSE)>>)

(* The condition left by the body: REPEAT or END.                          *)
FinishLoopNode(x, n, entered) ==
  LET nd == Node(x.forest, n)
      c  == IF entered THEN Top(x.p) ELSE 0
      y  == IF entered THEN [x EXCEPT !.p = Drop(@)] ELSE x
  IN IF (entered /\ ~CanDrop(x.p)) \/ c \notin {0, 1} THEN Fail(x)
     ELSE IF c = 1
       THEN Finalize(PushConts(y, <<FinishLoop(n, TRUE), Cont("StartNode", nd.a)>>), <<>>)
       ELSE Finalize(y, <<>>)

(* A call runs in a new context, named after the next clock cycle; a       *)
(* syscall runs in the root context and keeps the caller's hash.           *)
StartCall(x, n) ==
  LET nd     == Node(x.forest, n)
      callee == Node(x.forest, nd.a).digest
      saved  == Save(x.p)
      q      == IF nd.k = "syscall" THEN [saved EXCEPT !.ctx = 0]
                ELSE [saved EXCEPT !.ctx = x.clk + 1, !.fn = callee]
  IN IF nd.k = "syscall" /\ callee \notin Kernel THEN Fail(x)
     ELSE Finalize(PushConts([x EXCEPT !.p = q],
                             <<Cont("FinishCall", n), Cont("StartNode", nd.a)>>), <<>>)

FinishCall(x) ==
  IF CanRestore(x.p) THEN Finalize([x EXCEPT !.p = Restore(@)], <<>>) ELSE Fail(x)

(* The address is dropped before the context is saved.  A callee that is   *)
(* not a root of the current forest is loaded from the host, within the    *)
(* same clock cycle.                                                       *)
StartDyn(x, n) ==
  LET callee  == Callee(x.p)
      dropped == Drop(AfterRead(x.p))
      q       == IF Node(x.forest, n).k = "dyncall"
                   THEN [Save(dropped) EXCEPT !.ctx = x.clk + 1, !.fn = callee]
                   ELSE dropped
      y       == PushConts([x EXCEPT !.p = q], <<Cont("FinishDyn", n)>>)
      root    == Root(x.forest, callee)
      load    == Loaded(q, callee)
  IN IF callee = None \/ ~CanDrop(x.p) THEN Fail(x)
     ELSE IF root # None THEN Finalize(PushConts(y, <<Cont("StartNode", root)>>), <<>>)
     ELSE IF load = None THEN Fail(x)
     ELSE Finalize(PushConts([y EXCEPT !.forest = load.forest, !.p = AfterLoad(@)],
                             <<EnterForest(x.forest), Cont("StartNode", load.node)>>), <<>>)

FinishDyn(x, n) ==
  IF Node(x.forest, n).k # "dyncall" THEN Finalize(x, <<>>)
  ELSE FinishCall(x)

(* No clock cycle: the node found in the host's forest takes the place of  *)
(* the external one.                                                       *)
ExecuteExternal(x, n) ==
  LET load == Loaded(x.p, Node(x.forest, n).digest)
  IN IF load = None THEN Fail(x)
     ELSE IF Node(load.forest, load.node).k = "external" THEN Fail(x)
     ELSE PushConts([x EXCEPT !.forest = load.forest, !.p = AfterLoad(@)],
            <<Cont("FinishExternal", n), EnterForest(x.forest), Cont("StartNode", load.node)>>)

StartBlock(x, n) == Finalize(x, <<Resume(n, 1, 1)>>)

(* A RESPAN between two batches, and the END after the last one.           *)
StartBatch(x, n, b) == Finalize(x, <<Resume(n, b, 1)>>)

FinishBlock(x) == Finalize(x, <<>>)

(* get_continuation_after_executing_operation                              *)
AfterOp(batches, n, b, i) ==
  IF i < Len(batches[b]) THEN Resume(n, b, i + 1)
  ELSE IF b < Len(batches) THEN Respan(n, b + 1)
  ELSE Cont("FinishBasicBlock", n)

(* The operations of a block, by what they do to the stack: "pad" and      *)
(* "one" grow it, "drop" shrinks it, "swap" and "emit" keep its depth; the *)
(* host's handler of an emitted event does not touch the stack.            *)
ExecuteOp(x, n, b, i) ==
  LET batches == Node(x.forest, n).batches
      op      == batches[b][i]
      done    == <<AfterOp(batches, n, b, i)>>
  IN IF op \in {"pad", "one"}
       THEN IF CanPush(x.p)
              THEN Finalize([x EXCEPT !.p = Push(@, IF op = "one" THEN 1 ELSE 0, x.clk)], done)
              ELSE Fail(x)
     ELSE IF op = "drop"
       THEN IF CanDrop(x.p) THEN Finalize([x EXCEPT !.p = Drop(@)], done) ELSE Fail(x)
     ELSE IF op = "swap" THEN Finalize([x EXCEPT !.p = Swap(@)], done)
     ELSE Finalize(x, done)

StartNode(x, n) ==
  LET k == Node(x.forest, n).k
  IN CASE k = "join" -> StartJoin(x, n)
       [] k = "split" -> StartSplit(x, n)
       [] k = "loop" -> StartLoop(x, n)
       [] k \in {"call", "syscall"} -> StartCall(x, n)
       [] k \in {"dyn", "dyncall"} -> StartDyn(x, n)
       [] k = "external" -> ExecuteExternal(x, n)
       [] k = "block" -> StartBlock(x, n)

NextCont(x) == x.conts[Len(x.conts)]

Popped(x) == [x EXCEPT !.conts = SubSeq(@, 1, Len(@) - 1)]

(* One turn of the loop of execute_impl.                                   *)
Step(x) ==
  LET c == NextCont(x)
      y == Popped(x)
  IN CASE c.k = "StartNode" -> StartNode(y, c.n)
       [] c.k = "FinishJoin" -> FinishJoin(y)
       [] c.k = "FinishSplit" -> FinishSplit(y)
       [] c.k = "FinishLoop" -> FinishLoopNode(y, c.n, c.entered)
       [] c.k = "FinishCall" -> FinishCall(y)
       [] c.k = "FinishDyn" -> FinishDyn(y, c.n)
       [] c.k = "FinishExternal" -> y
       [] c.k = "ResumeBasicBlock" -> ExecuteOp(y, c.n, c.b, c.i)
       [] c.k = "Respan" -> StartBatch(y, c.n, c.b)
       [] c.k = "FinishBasicBlock" -> FinishBlock(y)
       [] c.k = "EnterForest" -> [y EXCEPT !.forest = c.n]

(* Does the next turn take a clock cycle?                                  *)
TakesCycle(x) ==
  LET c == NextCont(x)
  IN /\ IncrementsClk(c)
     /\ ~(c.k = "StartNode" /\ Node(x.forest, c.n).k = "external")
=============================================================================
