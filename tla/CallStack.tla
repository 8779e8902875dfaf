------------------------------ MODULE CallStack ------------------------------
(***************************************************************************)
(* What the operand stack of the virtual machine promises to a program,    *)
(* whatever buffer a processor keeps it in: a stack that never runs empty  *)
(* (dropping below MIN_STACK_DEPTH elements pulls in a zero), and, for     *)
(* every call, a context of its own that sees the top elements of its      *)
(* caller and nothing below them, and gives the caller's elements back     *)
(* when it returns at the minimum depth.  stack[1] is the deepest element. *)
(***************************************************************************)
EXTENDS Integers, Sequences

CONSTANTS MIN_STACK_DEPTH, Values, Contexts, Procs

VARIABLES stack, ctx, caller_hash, frames

vars == <<stack, ctx, caller_hash, frames>>

Depth == Len(stack)

(* The elements below the top MIN_STACK_DEPTH ones.                        *)
Overflow(s) == [i \in 1..(Len(s) - MIN_STACK_DEPTH) |-> s[i]]

Top(s) == [i \in 1..MIN_STACK_DEPTH |-> s[Len(s) - MIN_STACK_DEPTH + i]]

Pushed(s, v) == [i \in 1..(Len(s) + 1) |-> IF i <= Len(s) THEN s[i] ELSE v]

Dropped(s) ==
  IF Len(s) > MIN_STACK_DEPTH
    THEN [i \in 1..(Len(s) - 1) |-> s[i]]
    ELSE [i \in 1..MIN_STACK_DEPTH |-> IF i = 1 THEN 0 ELSE s[i - 1]]

Init == /\ stack \in [1..MIN_STACK_DEPTH -> Values]
        /\ ctx = 0
        /\ caller_hash \in Procs
        /\ frames = <<>>

Push == /\ \E v \in Values : stack' = Pushed(stack, v)
        /\ UNCHANGED <<ctx, caller_hash, frames>>

Drop == /\ stack' = Dropped(stack)
        /\ UNCHANGED <<ctx, caller_hash, frames>>

(* Of the operations that keep the depth this one stands for all: they     *)
(* reach the top elements only.                                            *)
Swapped(s) ==
  [i \in 1..Len(s) |-> IF i = Len(s) THEN s[Len(s) - 1]
                       ELSE IF i = Len(s) - 1 THEN s[Len(s)] ELSE s[i]]

Swap == /\ stack' = Swapped(stack)
        /\ UNCHANGED <<ctx, caller_hash, frames>>

(* The callee starts with the top of s; what is below is set aside.        *)
Enter(s) ==
  /\ stack' = Top(s)
  /\ ctx' \in Contexts
  /\ caller_hash' \in Procs
  /\ frames' = Append(frames, [overflow |-> Overflow(s), ctx |-> ctx, fn |-> caller_hash])

Call == Enter(stack)

DynCall == Enter(Dropped(stack))

Return ==
  /\ frames # <<>>
  /\ Depth = MIN_STACK_DEPTH
  /\ LET f == frames[Len(frames)]
         n == Len(f.overflow)
     IN /\ stack' = [i \in 1..(n + MIN_STACK_DEPTH) |->
                       IF i <= n THEN f.overflow[i] ELSE stack[i - n]]
        /\ ctx' = f.ctx
        /\ caller_hash' = f.fn
        /\ frames' = [i \in 1..(Len(frames) - 1) |-> frames[i]]

Next == Push \/ Drop \/ Swap \/ Call \/ DynCall \/ Return

Spec == Init /\ [][Next]_vars
=============================================================================
