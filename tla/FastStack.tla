------------------------------ MODULE FastStack ------------------------------
(***************************************************************************)
(* The operand stack of FastProcessor (miden-vm/processor/src/fast): one   *)
(* fixed buffer in which the stack of the running context is the slice     *)
(* from stack_bot_idx to stack_top_idx.  Nothing is moved when the stack   *)
(* grows or shrinks, only the indices; a call hides the elements below the *)
(* top MIN_STACK_DEPTH ones by copying them out and zeroing them, a return *)
(* copies them back under the elements the callee left, and the slice is   *)
(* moved when it would leave the buffer at its lower end.                  *)
(*                                                                         *)
(* The operators act on a record p that holds the processor's fields: buf, *)
(* top and bot (stack, stack_top_idx, stack_bot_idx), ctx, fn (caller_hash)*)
(* and calls (call_stack).  A growing operation writes the new top element *)
(* in the same clock cycle, so growing and writing are one operator.       *)
(***************************************************************************)
EXTENDS Integers, Sequences

CONSTANTS MIN_STACK_DEPTH, INITIAL_STACK_TOP_IDX, STACK_BUFFER_SIZE,
          Values, Contexts, Procs, EMPTY_WORD

ASSUME BufferAssumption ==
  /\ MIN_STACK_DEPTH \in Nat \ {0, 1}
  /\ INITIAL_STACK_TOP_IDX \in Nat
  /\ STACK_BUFFER_SIZE \in Nat
  /\ MIN_STACK_DEPTH < INITIAL_STACK_TOP_IDX
  /\ INITIAL_STACK_TOP_IDX < STACK_BUFFER_SIZE
  /\ 0 \in Values
  /\ 0 \in Contexts
  /\ EMPTY_WORD \in Procs

Slots == 0..(STACK_BUFFER_SIZE - 1)

StackSize(p) == p.top - p.bot

(* The processor with another buffer and slice, and with another context.  *)
Move(p, buf, top, bot) == [p EXCEPT !.buf = buf, !.top = top, !.bot = bot]

Switch(p, ctx, fn, calls) == [p EXCEPT !.ctx = ctx, !.fn = fn, !.calls = calls]

(* stack_get(idx), idx counted from the top.                               *)
StackGet(p, idx) == p.buf[p.top - idx - 1]

(* op_swap; the other operations write the top elements in the same way.   *)
SwapTop(p) ==
  Move(p, [p.buf EXCEPT ![p.top - 1] = StackGet(p, 1), ![p.top - 2] = StackGet(p, 0)],
       p.top, p.bot)

NewStack(inputs) ==
  [buf   |-> [i \in Slots |->
                IF i \in (INITIAL_STACK_TOP_IDX - MIN_STACK_DEPTH)..(INITIAL_STACK_TOP_IDX - 1)
                  THEN inputs[INITIAL_STACK_TOP_IDX - i] ELSE 0],
   top   |-> INITIAL_STACK_TOP_IDX,
   bot   |-> INITIAL_STACK_TOP_IDX - MIN_STACK_DEPTH,
   ctx   |-> 0, fn |-> EMPTY_WORD, calls |-> <<>>]

(* increment_size fails when the buffer is full.                           *)
CanIncrement(p) == p.top < STACK_BUFFER_SIZE - 1

PushElement(p, v) == Move(p, [p.buf EXCEPT ![p.top] = v], p.top + 1, p.bot)

ResetStackInBufferNoZero(p, newTop) ==
  LET newBot == newTop - MIN_STACK_DEPTH
  IN Move(p, [i \in Slots |-> IF i >= newBot /\ i < newTop THEN p.buf[i - newBot + p.bot]
                              ELSE p.buf[i]],
          newTop, newBot)

(* The slice, of minimum size, moves to end at newTop; all below is zero.  *)
ResetStackInBuffer(p, newTop) ==
  LET newBot == newTop - MIN_STACK_DEPTH
  IN Move(p, [i \in Slots |-> IF i < newBot THEN 0
                              ELSE IF i < newTop THEN p.buf[i - newBot + p.bot]
                              ELSE p.buf[i]],
          newTop, newBot)

(* At the lower end of the buffer the slice is moved first.  At the        *)
(* minimum depth the slice moves down and takes in a zero.                 *)
ShrinkSlice(p) ==
  Move(p, p.buf, p.top - 1,
       IF p.bot < p.top - 1 - MIN_STACK_DEPTH THEN p.bot ELSE p.top - 1 - MIN_STACK_DEPTH)

DecrementStackSize(p) ==
  ShrinkSlice(IF p.top = MIN_STACK_DEPTH THEN ResetStackInBuffer(p, INITIAL_STACK_TOP_IDX) ELSE p)

(* The elements below the top ones, which a call copies out.               *)
OverflowOf(p) == [i \in 1..(p.top - MIN_STACK_DEPTH - p.bot) |-> p.buf[p.bot + i - 1]]

Frame(p) == [overflow |-> OverflowOf(p), ctx |-> p.ctx, fn |-> p.fn]

SaveContextNoZero(p) ==
  Switch(Move(p, p.buf, p.top, p.top - MIN_STACK_DEPTH), p.ctx, p.fn, Append(p.calls, Frame(p)))

SaveContextAndTruncateStack(p) ==
  LET b == p.top - MIN_STACK_DEPTH
  IN Switch(Move(p, [i \in Slots |-> IF i >= p.bot /\ i < b THEN 0 ELSE p.buf[i]], p.top, b),
            p.ctx, p.fn, Append(p.calls, Frame(p)))

(* Copies the elements under the slice, which has room for them.           *)
CopyUnder(p, overflow) ==
  LET b == p.bot - Len(overflow)
  IN Move(p, [i \in Slots |-> IF i >= b /\ i < p.bot THEN overflow[i - b + 1] ELSE p.buf[i]],
          p.top, b)

(* Without room for them below, the slice is moved up first.               *)
RestoreOverflowStack(p, overflow) ==
  LET n == Len(overflow)
      t == IF INITIAL_STACK_TOP_IDX + n < STACK_BUFFER_SIZE - 1
             THEN INITIAL_STACK_TOP_IDX + n ELSE STACK_BUFFER_SIZE - 1
  IN CopyUnder(IF n > p.bot THEN ResetStackInBuffer(p, t) ELSE p, overflow)

(* restore_context fails unless the callee left exactly the minimum depth. *)
CanRestore(p) == StackSize(p) = MIN_STACK_DEPTH

RestoreContext(p) ==
  LET f == p.calls[Len(p.calls)]
  IN Switch(RestoreOverflowStack(p, f.overflow), f.ctx, f.fn,
            [i \in 1..(Len(p.calls) - 1) |-> p.calls[i]])

-----------------------------------------------------------------------------
VARIABLE p

StackInit == \E inputs \in [1..MIN_STACK_DEPTH -> Values] : p = NewStack(inputs)

Grow == /\ CanIncrement(p)
        /\ \E v \in Values : p' = PushElement(p, v)

Shrink == p' = DecrementStackSize(p)

Exchange == p' = SwapTop(p)

Enter == \E c \in Contexts, h \in Procs :
          LET q == SaveContextAndTruncateStack(p) IN p' = Switch(q, c, h, q.calls)

EnterDyn == \E c \in Contexts, h \in Procs :
          LET q == SaveContextAndTruncateStack(DecrementStackSize(p)) IN p' = Switch(q, c, h, q.calls)

Leave == /\ p.calls # <<>>
          /\ CanRestore(p)
          /\ p' = RestoreContext(p)

StackNext == Grow \/ Shrink \/ Exchange \/ Enter \/ EnterDyn \/ Leave

StackSpec == StackInit /\ [][StackNext]_p

-----------------------------------------------------------------------------
(* The running context's stack, deepest element first.                     *)
StackOf(q) == [i \in 1..(q.top - q.bot) |-> q.buf[q.bot + i - 1]]

Abstract == INSTANCE CallStack WITH stack <- StackOf(p), ctx <- p.ctx,
                                    caller_hash <- p.fn, frames <- p.calls

(* The buffer implements the stack of contexts: wherever the slice moves,  *)
(* dropping at the minimum depth finds a zero below it, a callee never     *)
(* sees an element of its caller below the top ones, and the caller gets   *)
(* its own back.                                                           *)
ImplementsCallStack == Abstract!Spec

(* The indices never leave the buffer: the slice lies inside it, holds at  *)
(* least the minimum depth, and everything below it is zero.               *)
SliceIsInBuffer ==
  /\ 0 <= p.bot
  /\ MIN_STACK_DEPTH <= p.top - p.bot
  /\ p.top <= STACK_BUFFER_SIZE - 1
  /\ \A i \in Slots : i < p.bot => p.buf[i] = 0
=============================================================================
