------------------------------- MODULE VmTrace -------------------------------
(***************************************************************************)
(* From a program to its core trace: FastProcessor executes the program    *)
(* once while ExecutionTracer records it in fragments, and then every      *)
(* fragment is replayed, independently of the others, into rows of the     *)
(* trace (miden-vm/processor/src: fast/execution_api.rs,                   *)
(* trace/parallel/mod.rs).  Fragments share nothing while they are         *)
(* replayed, each writes its own chunk of the trace, so the replay of all  *)
(* of them is one step.                                                    *)
(*                                                                         *)
(* A program, chosen in the initial state, is a record code: forests, each *)
(* with its nodes and procedure roots; main and entry; host, the forests   *)
(* the host can load; kernel; mem, the procedure digest that the program   *)
(* stored at an address, the same in every context (memory is not          *)
(* modelled).  p is the processor of FastStack.                            *)
(***************************************************************************)
EXTENDS FastStack, SequencesExt

CONSTANTS Programs, Inputs, FragmentSizes, MAX_CYCLES, MAX_CONTS, ROWS_PER_PERM, None

VARIABLES code, fragment_size, inputs, clk, conts, forest, status, t, nest, log, core

exec == <<p, clk, conts, forest>>
vars == <<exec, code, fragment_size, inputs, status, t, nest, log, core>>

-----------------------------------------------------------------------------
Node(f, n) == code.forests[f].nodes[n]

(* find_procedure_root                                                     *)
Root(f, digest) ==
  LET found == {n \in code.forests[f].roots : Node(f, n).digest = digest}
  IN IF found = {} THEN None ELSE CHOOSE n \in found : TRUE

Kernel == code.kernel

(* load_mast_forest_sync: the host knows the forest of the digest, and the *)
(* digest is a root of that forest.                                        *)
HostLoad(q, digest) ==
  LET found == {f \in code.host : Root(f, digest) # None}
  IN IF found = {} THEN None
     ELSE LET f == CHOOSE f \in found : TRUE IN [forest |-> f, node |-> Root(f, digest)]

FastTop(q)          == StackGet(q, 0)
FastPush(q, v, c)   == PushElement(q, v)
FastCanDrop(q)      == TRUE
FastCanRestore(q)   == q.calls # <<>> /\ CanRestore(q)
FastCallee(q)       == code.mem[StackGet(q, 0)]
Same(q)             == q

(* NeverStopper                                                            *)
FastExceeds(c, len) == c > MAX_CYCLES \/ len > MAX_CONTS

Fast == INSTANCE MastExecution WITH
  Top <- FastTop, CanPush <- CanIncrement, Push <- FastPush, CanDrop <- FastCanDrop,
  Drop <- DecrementStackSize, Swap <- SwapTop, CanRestore <- FastCanRestore,
  Save <- SaveContextAndTruncateStack, Restore <- RestoreContext, Callee <- FastCallee,
  AfterRead <- Same, Loaded <- HostLoad, AfterLoad <- Same, Exceeds <- FastExceeds

Tracer == INSTANCE ExecutionTracer

R == INSTANCE TraceReplay

ReplayExceeds(c, len) == FALSE

Replay == INSTANCE MastExecution WITH
  Top <- R!Top, CanPush <- R!CanPush, Push <- R!Push, CanDrop <- R!CanDrop,
  Drop <- R!Drop, Swap <- R!Swap, CanRestore <- R!CanRestore,
  Save <- R!Save, Restore <- R!Restore, Callee <- R!Callee,
  AfterRead <- R!AfterRead, Loaded <- R!Loaded, AfterLoad <- R!AfterLoad,
  Exceeds <- ReplayExceeds

-----------------------------------------------------------------------------
Init ==
  /\ code \in Programs
  /\ inputs \in Inputs
  /\ fragment_size \in FragmentSizes
  /\ p = NewStack(inputs)
  /\ clk = 0
  /\ forest = code.main
  /\ conts = <<Fast!Cont("StartNode", code.entry)>>
  /\ status = "running"
  /\ t = Tracer!NewTracer
  /\ nest = <<>>
  /\ log = <<>>
  /\ core = None

x == [p |-> p, clk |-> clk, conts |-> conts, forest |-> forest, ok |-> TRUE]

cont == Fast!NextCont(x)

(* stack_top: the elements every operation can reach, the top one first.   *)
StackTop(q) == [i \in 1..MIN_STACK_DEPTH |-> StackGet(q, i - 1)]

(* The tracer through one clock cycle, in which the processor went from x  *)
(* to y.                                                                   *)
Traced(nd, y) ==
  LET top  == StackTop(p)
      snap == IF clk % fragment_size = 0
                THEN Tracer!StartFragment(t, Fast!Popped(x), top, cont) ELSE t
      u    == Tracer!StartCycle(snap, cont, nd, p, top, clk)
      dyn  == cont.k = "StartNode" /\ nd.k \in {"dyn", "dyncall"}
      v    == IF dyn THEN Tracer!RecordRead(u, FastCallee(p)) ELSE u
      w    == Tracer!FinalizeCycle(v)
  IN IF dyn /\ y.forest # forest
       THEN Tracer!RecordLoad(w, HostLoad(p, FastCallee(p))) ELSE w

(* What the cycle did, told from the execution alone: nest holds the kinds *)
(* of the nodes that are being executed.                                   *)
Repeats(y) == cont.k = "FinishLoop" /\ Len(y.conts) > Len(conts)

Ends(y) == /\ cont.k \notin {"StartNode", "ResumeBasicBlock", "Respan"}
           /\ ~Repeats(y)

OpOf(nd, y) ==
  CASE cont.k = "StartNode" -> nd.k
    [] cont.k = "ResumeBasicBlock" -> nd.batches[cont.b][cont.i]
    [] cont.k = "Respan" -> "respan"
    [] Repeats(y) -> "repeat"
    [] Ends(y) -> "end"

InfoOf(nd, y, tr) ==
  CASE cont.k = "ResumeBasicBlock" -> Last(t.blocks).parent
    [] cont.k = "StartNode" /\ nd.k = "dyncall" ->
         [depth |-> MIN_STACK_DEPTH + Len(Last(y.p.calls).overflow),
          ovf |-> Tracer!LastClk(Front(tr.ovf))]
    [] Ends(y) ->
         LET k == Last(nest)
         IN [body |-> Len(nest) > 1 /\ nest[Len(nest) - 1] = "loop",
             entered |-> k = "loop" /\ cont.entered,
             call |-> k \in {"call", "dyncall"}, syscall |-> k = "syscall"]
    [] OTHER -> None

(* The row that this cycle is to have in the trace, and the columns that   *)
(* it leaves to the next row.                                              *)
Logged(nd, y, tr) ==
  [dec  |-> [op |-> OpOf(nd, y), addr |-> IF t.blocks = <<>> THEN 0 ELSE Last(t.blocks).addr,
             digest |-> IF cont.k \in {"ResumeBasicBlock", "Respan"} THEN None
                        ELSE IF cont.k = "StartNode" /\ nd.k \in {"dyn", "dyncall"}
                               THEN FastCallee(p) ELSE nd.digest,
             info |-> InfoOf(nd, y, tr)],
   cols |-> [clk |-> y.clk, ctx |-> y.p.ctx, fn |-> y.p.fn, top |-> StackTop(y.p),
             depth |-> StackSize(y.p), ovf |-> Tracer!LastClk(tr.ovf)]]

Nested(nd, y) ==
  IF cont.k = "StartNode" THEN Append(nest, nd.k)
  ELSE IF Ends(y) THEN Front(nest) ELSE nest

Goto(y) == /\ p' = y.p
           /\ clk' = y.clk
           /\ conts' = y.conts
           /\ forest' = y.forest
           /\ UNCHANGED <<code, fragment_size, inputs, core>>

Running == status = "running" /\ conts # <<>>

(* A turn of the loop that takes a clock cycle.                            *)
Cycle ==
  /\ Running
  /\ Fast!TakesCycle(x)
  /\ LET y  == Fast!Step(x)
         nd == Node(forest, cont.n)
         tr == Traced(nd, y)
     IN /\ y.ok
        /\ Goto(y)
        /\ t' = tr
        /\ log' = Append(log, Logged(nd, y, tr))
        /\ nest' = Nested(nd, y)
        /\ UNCHANGED status

(* An External node is replaced by the node the host has for it.           *)
LoadExternal ==
  /\ Running
  /\ cont.k = "StartNode"
  /\ ~Fast!TakesCycle(x)
  /\ LET y == Fast!Step(x)
     IN /\ y.ok
        /\ Goto(y)
        /\ t' = Tracer!RecordLoad(t, HostLoad(p, Node(forest, cont.n).digest))
        /\ UNCHANGED <<log, nest, status>>

(* EnterForest and FinishExternal.                                         *)
Idle ==
  /\ Running
  /\ ~Fast!IncrementsClk(cont)
  /\ Goto(Fast!Step(x))
  /\ UNCHANGED <<t, log, nest, status>>

(* The execution ends with an error, and there is no trace.                *)
Abort ==
  /\ Running
  /\ ~Fast!Step(x).ok
  /\ status' = "failed"
  /\ UNCHANGED <<exec, code, fragment_size, inputs, t, nest, log, core>>

(* The program's last continuation is done; a stack deeper than the        *)
(* minimum is an error.                                                    *)
Finish ==
  /\ status = "running"
  /\ conts = <<>>
  /\ status' = IF StackSize(p) > MIN_STACK_DEPTH THEN "failed" ELSE "executed"
  /\ t' = Tracer!FinishFragment(t)
  /\ UNCHANGED <<exec, code, fragment_size, inputs, nest, log, core>>

-----------------------------------------------------------------------------
(* ReplayProcessor::execute: one turn of the loop, until ReplayStopper     *)
(* says that the fragment is full or the program is over.                  *)
ReplayTurn(s) ==
  LET y     == Replay!Step(s.x)
      cycle == Replay!TakesCycle(s.x)
      c     == Replay!NextCont(s.x)
  IN IF s.x.conts = <<>> THEN [s EXCEPT !.stop = TRUE]
     ELSE IF ~y.ok THEN [s EXCEPT !.stop = TRUE, !.g.err = TRUE]
     ELSE [s EXCEPT !.x = y,
                    !.stop = cycle /\ y.clk >= s.end,
                    !.g = IF cycle
                            THEN R!Generate(@, s.x.p, Replay!Popped(s.x).conts, y.p, s.x.clk, c,
                                            Node(s.x.forest, c.n))
                            ELSE @]

RECURSIVE ReplayUntilStop(_)
ReplayUntilStop(s) == IF s.stop THEN s.g ELSE ReplayUntilStop(ReplayTurn(s))

ReplayFragment(f) ==
  ReplayUntilStop([x |-> [p |-> R!NewProcessor(f), clk |-> f.snapshot.clk,
                          conts |-> f.snapshot.conts, forest |-> f.snapshot.forest, ok |-> TRUE],
                   g |-> R!NewGenerator(f), end |-> f.snapshot.clk + fragment_size,
                   stop |-> FALSE])

FirstColumns(top) == [clk |-> 0, ctx |-> 0, fn |-> EMPTY_WORD, top |-> top,
                      depth |-> MIN_STACK_DEPTH, ovf |-> 0]

(* generate_core_trace_row_major on the results gs of the fragments: each  *)
(* writes a chunk of fragment_size rows; the first row of a chunk gets the *)
(* columns that the fragment before it held back; the trace is cut to the  *)
(* number of rows written, and a HALT row that carries the last hash ends  *)
(* it.                                                                     *)
Chunk(gs, f) ==
  [i \in 1..fragment_size |->
     IF i > Len(gs[f].rows) THEN None
     ELSE IF i > 1 THEN gs[f].rows[i]
     ELSE [gs[f].rows[1] EXCEPT !.st = IF f = 1 THEN FirstColumns(t.frags[1].snapshot.top)
                                       ELSE gs[f - 1].cols]]

Assembled(gs) ==
  LET chunks  == FlattenSeq([f \in DOMAIN gs |-> Chunk(gs, f)])
      written == FoldLeft(LAMBDA n, g : n + Len(g.rows), 0, gs)
      rows    == SubSeq(chunks, 1, written)
  IN Append(rows, [dec |-> R!Decoded("halt", 0, Last(rows).dec.digest, None),
                   st |-> Last(gs).cols])

GenerateCoreTrace ==
  /\ status = "executed"
  /\ LET gs == [f \in DOMAIN t.frags |-> ReplayFragment(t.frags[f])]
         ok == \A f \in DOMAIN gs : ~gs[f].err
     IN /\ core' = IF ok THEN Assembled(gs) ELSE None
        /\ status' = IF ok THEN "traced" ELSE "unreplayable"
  /\ UNCHANGED <<exec, code, fragment_size, inputs, t, nest, log>>

Next == Cycle \/ LoadExternal \/ Idle \/ Abort \/ Finish \/ GenerateCoreTrace

Spec == Init /\ [][Next]_vars

-----------------------------------------------------------------------------
(* The elements that the tracer believes to be below the top ones, in the  *)
(* running context and in the suspended ones, are those in the processor's *)
(* buffer and call stack; the two are kept up to date by different code.   *)
OverflowMatchesBuffer ==
  status = "running" =>
    LET stack == StackOf(p)
        kept  == Append([i \in DOMAIN p.calls |-> p.calls[i].overflow],
                        SubSeq(stack, 1, Len(stack) - MIN_STACK_DEPTH))
    IN /\ Len(t.ovf) = Len(kept)
       /\ \A i \in DOMAIN kept :
            /\ Len(t.ovf[i]) = Len(kept[i])
            /\ \A j \in DOMAIN kept[i] : t.ovf[i][j].v = kept[i][j]

(* The rows that the program's execution is to have.                       *)
ExpectedTrace ==
  LET Before(i) == IF i = 1 THEN FirstColumns(inputs) ELSE log[i - 1].cols
  IN [i \in 1..(Len(log) + 1) |->
        [dec |-> IF i <= Len(log) THEN log[i].dec
                 ELSE R!Decoded("halt", 0, Node(code.main, code.entry).digest, None),
         st  |-> Before(i)]]

(* Wherever the fragments are cut, the assembled trace is the execution:   *)
(* no replay fails for want of recorded data, every row has the operation, *)
(* block address, flags, context and stack of its cycle, the rows are in   *)
(* order and none is missing, and the HALT row carries the program's hash. *)
TraceIsExecution ==
  /\ status # "unreplayable"
  /\ status = "traced" => core = ExpectedTrace

(* A loop that is not entered while the element below its condition is     *)
(* ONE.                                                                    *)
SkipsLoopOverOne ==
  \E i \in 2..Len(log) : /\ log[i - 1].dec.op = "loop"
                         /\ log[i].dec.op = "end"
                         /\ log[i - 1].cols.top[1] = 1

EntryIsExternal == Node(code.main, code.entry).k = "external"

(* TraceIsExecution for every program but those of the two cases above.    *)
RegularTraceIsExecution == SkipsLoopOverOne \/ EntryIsExternal \/ TraceIsExecution
=============================================================================
