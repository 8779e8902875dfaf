--------------------------- MODULE ExecutionTracer ---------------------------
(***************************************************************************)
(* ExecutionTracer (miden-vm/processor/src/trace/execution_tracer.rs): it  *)
(* watches FastProcessor, takes a snapshot of it every fragment_size clock *)
(* cycles, and between two snapshots queues what a replay of the fragment  *)
(* cannot compute from the snapshot alone.                                 *)
(*                                                                         *)
(* A tracer is a record t: the snapshot (None before the first one), the   *)
(* overflow table ovf (for each context its overflow elements with the     *)
(* cycle that pushed them), the block stack, the queues q, the next        *)
(* address of the hasher shim, the flag pending_restore_context, and the   *)
(* fragments finished so far.                                              *)
(***************************************************************************)
EXTENDS Integers, Sequences, SequencesExt

CONSTANTS None, MIN_STACK_DEPTH, ROWS_PER_PERM

EmptyQueues == [pops |-> <<>>, restores |-> <<>>, ctxs |-> <<>>, loads |-> <<>>,
                reads |-> <<>>, addrs |-> <<>>, starts |-> <<>>, ends |-> <<>>]

NewTracer == [snapshot |-> None, ovf |-> << <<>> >>, blocks |-> <<>>, q |-> EmptyQueues,
              haddr |-> 1, restore |-> FALSE, frags |-> <<>>]

(* last_update_clk_in_current_ctx: ZERO when nothing has overflowed.       *)
LastClk(ovf) == IF Last(ovf) = <<>> THEN 0 ELSE Last(Last(ovf)).clk

Depth(ovf) == MIN_STACK_DEPTH + Len(Last(ovf))

FinishFragment(t) ==
  IF t.snapshot = None THEN t
  ELSE [t EXCEPT !.snapshot = None, !.q = EmptyQueues,
                 !.frags = Append(@, [snapshot |-> t.snapshot, q |-> t.q])]

(* StartFragment(t, x, top, c): x is the execution about to execute c.     *)
StartFragment(t, x, top, c) ==
  LET u == FinishFragment(t)
  IN [u EXCEPT !.snapshot =
        [clk |-> x.clk, ctx |-> x.p.ctx, fn |-> x.p.fn,
         top |-> top, depth |-> Depth(u.ovf), ovf |-> LastClk(u.ovf),
         addr |-> IF u.blocks = <<>> THEN 0 ELSE Last(u.blocks).addr,
         parent |-> IF u.blocks = <<>> THEN 0 ELSE Last(u.blocks).parent,
         conts |-> Append(x.conts, c), forest |-> x.forest]]

(* increment_stack_size: the element at the minimum depth overflows.       *)
PushOverflow(t, v, clk) ==
  [t EXCEPT !.ovf = Append(Front(@), Append(Last(@), [v |-> v, clk |-> clk]))]

PopOverflowOldAddr(t) ==
  IF Last(t.ovf) = <<>> THEN t
  ELSE [t EXCEPT !.ovf = Append(Front(t.ovf), Front(Last(t.ovf))),
                 !.q.pops = Append(@, [v |-> Last(Last(t.ovf)).v, addr |-> LastClk(t.ovf)])]

(* decrement_stack_size: nothing to pop, nothing to record.                *)
PopOverflow(t) ==
  IF Last(t.ovf) = <<>> THEN t
  ELSE LET rest == Append(Front(t.ovf), Front(Last(t.ovf)))
       IN [t EXCEPT !.ovf = rest,
                    !.q.pops = Append(@, [v |-> Last(Last(t.ovf)).v, addr |-> LastClk(rest)])]

StartContext(t) == [t EXCEPT !.ovf = Append(@, <<>>)]

IsContextSwitch(nd) == nd.k \in {"call", "syscall", "dyncall"}

(* record_control_node_start, and its twin for basic blocks: the block     *)
(* gets the shim's next address.                                           *)
RecordNodeStart(t, nd, p) ==
  LET parent == IF t.blocks = <<>> THEN 0 ELSE Last(t.blocks).addr
      rows   == IF nd.k = "block" THEN ROWS_PER_PERM * Len(nd.batches) ELSE ROWS_PER_PERM
      info   == IF IsContextSwitch(nd) THEN [ctx |-> p.ctx, fn |-> p.fn] ELSE None
  IN [t EXCEPT !.haddr = @ + rows,
               !.blocks = Append(@, [addr |-> t.haddr, parent |-> parent, info |-> info]),
               !.q.addrs = Append(@, t.haddr),
               !.q.starts = Append(@, parent)]

(* An END: the block is popped, the enclosing one is current again, and a  *)
(* block that switched contexts gives back its caller's.                   *)
RecordNodeEnd(t) ==
  LET b    == Last(t.blocks)
      rest == Front(t.blocks)
      prev == IF rest = <<>> THEN [addr |-> 0, parent |-> 0, info |-> None] ELSE Last(rest)
      u    == [t EXCEPT !.blocks = rest,
                        !.q.ends = Append(@, [ended |-> b.addr, addr |-> prev.addr,
                                              parent |-> prev.parent])]
  IN IF b.info = None THEN u
     ELSE [u EXCEPT !.q.ctxs = Append(@, b.info), !.restore = TRUE]

RecordRead(t, callee) == [t EXCEPT !.q.reads = Append(@, callee)]

RecordLoad(t, load) == [t EXCEPT !.q.loads = Append(@, load)]

RecordStartSwapped(t, nd, p) ==
  LET u == RecordNodeStart(t, nd, p)
  IN CASE nd.k \in {"join", "block"} -> u
       [] nd.k \in {"split", "loop", "dyn"} -> PopOverflow(u)
       [] nd.k \in {"call", "syscall"} -> StartContext(u)
       [] nd.k = "dyncall" -> PopOverflow(StartContext(u))

RecordStart(t, nd, p) ==
  LET u == RecordNodeStart(t, nd, p)
  IN CASE nd.k \in {"join", "block"} -> u
       [] nd.k \in {"split", "loop", "dyn"} -> PopOverflow(u)
       [] nd.k \in {"call", "syscall"} -> StartContext(u)
       [] nd.k = "dyncall" -> StartContext(PopOverflow(u))

(* start_clock_cycle without the snapshot: c is about to be executed, nd   *)
(* is its node, top the operand stack's top elements.                      *)
StartCycle(t, c, nd, p, top, clk) ==
  CASE c.k = "ResumeBasicBlock" ->
         LET op == nd.batches[c.b][c.i]
         IN IF op \in {"pad", "one"} THEN PushOverflow(t, top[MIN_STACK_DEPTH], clk)
            ELSE IF op = "drop" THEN PopOverflow(t)
            ELSE t
    [] c.k = "StartNode" -> RecordStart(t, nd, p)
    [] c.k = "Respan" -> [t EXCEPT !.blocks[Len(t.blocks)].addr = @ + ROWS_PER_PERM]
    [] c.k = "FinishLoop" ->
         IF c.entered /\ top[1] = 1 THEN PopOverflow(t)
         ELSE RecordNodeEnd(IF c.entered THEN PopOverflow(t) ELSE t)
    [] OTHER -> RecordNodeEnd(t)

(* finalize_clock_cycle: only now, when the operation has succeeded, is    *)
(* the caller's overflow stack current again.                              *)
FinalizeCycle(t) ==
  IF ~t.restore THEN t
  ELSE LET rest == Front(t.ovf)
       IN [t EXCEPT !.ovf = rest, !.restore = FALSE,
                    !.q.restores = Append(@, [depth |-> Depth(rest), addr |-> LastClk(rest)])]
=============================================================================
