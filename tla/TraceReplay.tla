----------------------------- MODULE TraceReplay -----------------------------
(***************************************************************************)
(* The replay of one fragment of an execution                              *)
(* (miden-vm/processor/src/trace/parallel): ReplayProcessor, which has the *)
(* top of the stack and takes everything else from the queues, and         *)
(* CoreTraceGenerationTracer, which watches it and writes the rows.        *)
(*                                                                         *)
(* A replay processor is a record r: top (top[1] is the top element),      *)
(* depth, ovf (last_overflow_addr), ctx, fn and the queues q.  A           *)
(* generator is a record g: the rows written, the state columns held back  *)
(* for the next row, the decoder's current and parent address, the queues  *)
(* q of the decoder, and err.                                              *)
(***************************************************************************)
EXTENDS Integers, Sequences, SequencesExt

CONSTANTS None, MIN_STACK_DEPTH, ROWS_PER_PERM

Positions == 1..MIN_STACK_DEPTH

NewProcessor(f) == [top |-> f.snapshot.top, depth |-> f.snapshot.depth, ovf |-> f.snapshot.ovf,
                    ctx |-> f.snapshot.ctx, fn |-> f.snapshot.fn, q |-> f.q]

NewGenerator(f) == [rows |-> <<>>, cols |-> None, addr |-> f.snapshot.addr,
                    parent |-> f.snapshot.parent, q |-> f.q, err |-> FALSE]

Top(r) == r.top[1]

CanPush(r) == TRUE

(* increment_size, then the operation writes the top element.              *)
Push(r, v, clk) ==
  [r EXCEPT !.top = [i \in Positions |-> IF i = 1 THEN v ELSE r.top[i - 1]],
            !.depth = @ + 1, !.ovf = clk]

Swap(r) == [r EXCEPT !.top[1] = r.top[2], !.top[2] = r.top[1]]

CanDrop(r) == r.depth > MIN_STACK_DEPTH => r.q.pops # <<>>

(* decrement_size: the bottom element comes from the queue of popped       *)
(* overflow elements, or is zero at the minimum depth.                     *)
Drop(r) ==
  LET Shifted(b) == [i \in Positions |-> IF i = MIN_STACK_DEPTH THEN b ELSE r.top[i + 1]]
  IN IF r.depth > MIN_STACK_DEPTH
       THEN [r EXCEPT !.top = Shifted(Head(r.q.pops).v), !.depth = @ - 1,
                      !.ovf = Head(r.q.pops).addr, !.q.pops = Tail(@)]
       ELSE [r EXCEPT !.top = Shifted(0), !.ovf = 0]

Save(r) == [r EXCEPT !.depth = MIN_STACK_DEPTH, !.ovf = 0]

CanRestore(r) == r.q.ctxs # <<>> /\ r.q.restores # <<>>

Restore(r) ==
  [r EXCEPT !.ctx = Head(r.q.ctxs).ctx, !.fn = Head(r.q.ctxs).fn,
            !.depth = Head(r.q.restores).depth, !.ovf = Head(r.q.restores).addr,
            !.q.ctxs = Tail(@), !.q.restores = Tail(@)]

Callee(r) == IF r.q.reads = <<>> THEN None ELSE Head(r.q.reads)

AfterRead(r) == [r EXCEPT !.q.reads = Tail(@)]

(* The next resolution recorded, whatever digest is asked for.             *)
Loaded(r, digest) == IF r.q.loads = <<>> THEN None ELSE Head(r.q.loads)

AfterLoad(r) == [r EXCEPT !.q.loads = Tail(@)]

-----------------------------------------------------------------------------
(* The system and stack columns a cycle leaves for the next row.           *)
Columns(r, clk) == [clk |-> clk + 1, ctx |-> r.ctx, fn |-> r.fn,
                    top |-> r.top, depth |-> r.depth, ovf |-> r.ovf]

(* fill_trace_row: r is the processor after the operation.                 *)
FillRow(g, r, clk, dec) ==
  [g EXCEPT !.rows = Append(@, [dec |-> dec, st |-> g.cols]),
            !.cols = Columns(r, clk)]

Decoded(op, addr, digest, info) == [op |-> op, addr |-> addr, digest |-> digest, info |-> info]

(* NodeFlags of an END.                                                    *)
Flags(body, entered, call, syscall) ==
  [body |-> body, entered |-> entered, call |-> call, syscall |-> syscall]

ComputeFlags(c, nd, body) ==
  Flags(body, c.k = "FinishLoop" /\ c.entered,
        (c.k = "FinishCall" /\ nd.k = "call") \/ (c.k = "FinishDyn" /\ nd.k = "dyncall"),
        c.k = "FinishCall" /\ nd.k = "syscall")

(* Is the node that ends the body of a loop?  The next continuation that   *)
(* takes a clock cycle tells.                                              *)
IsLoopBody(conts) ==
  LET idle == {"FinishExternal", "EnterForest"}
      next == SelectLastInSeq(conts, LAMBDA c : c.k \notin idle)
  IN next # 0 /\ conts[next].k = "FinishLoop" /\ conts[next].entered

(* get_finish_loop_condition, on the processor before the operation.       *)
FinishLoopCondition(c, r) == c.k = "FinishLoop" /\ Top(r) = 1

(* get_execution_context_for_dyncall: depth and overflow address as they   *)
(* will be once the address is dropped.                                    *)
DyncallInfo(r) ==
  IF r.depth > MIN_STACK_DEPTH
    THEN [depth |-> r.depth - 1, ovf |-> Head(r.q.pops).addr]
    ELSE [depth |-> r.depth, ovf |-> 0]

(* A start row: the node's own address becomes current, the row carries    *)
(* its parent's.                                                           *)
FillStart(g, r0, r, clk, nd) ==
  LET h == [g EXCEPT !.addr = Head(g.q.addrs), !.parent = Head(g.q.starts),
                     !.q.addrs = Tail(@), !.q.starts = Tail(@)]
  IN IF g.q.addrs = <<>> \/ g.q.starts = <<>> THEN [g EXCEPT !.err = TRUE]
     ELSE FillRow(h, r, clk,
            Decoded(nd.k, h.parent, IF nd.k \in {"dyn", "dyncall"} THEN Callee(r0) ELSE nd.digest,
                    IF nd.k = "dyncall" THEN DyncallInfo(r0) ELSE None))

(* An END row carries the address of the node that ended.                  *)
FillEnd(g, r, clk, c, nd, body) ==
  LET e == Head(g.q.ends)
      h == [g EXCEPT !.addr = e.addr, !.parent = e.parent, !.q.ends = Tail(@)]
  IN IF g.q.ends = <<>> THEN [g EXCEPT !.err = TRUE]
     ELSE FillRow(h, r, clk, Decoded("end", e.ended, nd.digest, ComputeFlags(c, nd, body)))

(* One clock cycle of the generator: r0 and conts as start_clock_cycle     *)
(* found them, r as finalize_clock_cycle does.                             *)
Generate(g, r0, conts, r, clk, c, nd) ==
  IF g.err THEN g
  ELSE CASE c.k = "StartNode" -> FillStart(g, r0, r, clk, nd)
         [] c.k = "ResumeBasicBlock" ->
              FillRow(g, r, clk, Decoded(nd.batches[c.b][c.i], g.addr, None, g.parent))
         [] c.k = "Respan" ->
              [FillRow(g, r, clk, Decoded("respan", g.addr, None, None))
                 EXCEPT !.addr = @ + ROWS_PER_PERM]
         [] c.k = "FinishLoop" /\ FinishLoopCondition(c, r0) ->
              FillRow(g, r, clk, Decoded("repeat", g.addr, nd.digest, None))
         [] OTHER -> FillEnd(g, r, clk, c, nd, IsLoopBody(conts))
=============================================================================
