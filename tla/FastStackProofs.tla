--------------------------- MODULE FastStackProofs ---------------------------
(***************************************************************************)
(* Proofs about FastStack, for every buffer: the indices never leave the   *)
(* buffer, and the buffer implements the stack of contexts of CallStack.   *)
(***************************************************************************)
EXTENDS FastStack, TLAPS

Frames == [overflow : Seq(Values), ctx : Contexts, fn : Procs]

Processors == [buf : [Slots -> Values], top : Int, bot : Int,
               ctx : Contexts, fn : Procs, calls : Seq(Frames)]

(* What a processor's stack always satisfies: besides SliceIsInBuffer,     *)
(* that the elements put aside by a call fit under a minimal slice at the  *)
(* upper end of the buffer, where a return that finds no room moves it.    *)
Good(q) ==
  /\ q \in Processors
  /\ 0 <= q.bot
  /\ MIN_STACK_DEPTH <= q.top - q.bot
  /\ q.top <= STACK_BUFFER_SIZE - 1
  /\ \A i \in Slots : i < q.bot => q.buf[i] = 0
  /\ \A i \in 1..Len(q.calls) :
       Len(q.calls[i].overflow) + MIN_STACK_DEPTH <= STACK_BUFFER_SIZE - 1

(* A function on 1..n is a sequence of length n.                           *)
LEMMA SeqOfFun ==
  ASSUME NEW S, NEW n \in Nat, NEW f \in [1..n -> S]
  PROVE  f \in Seq(S) /\ Len(f) = n
OBVIOUS

(* The fields of a processor.                                              *)
LEMMA Fields ==
  ASSUME NEW q \in Processors
  PROVE  /\ q.buf \in [Slots -> Values] /\ q.top \in Int /\ q.bot \in Int
         /\ q.ctx \in Contexts /\ q.fn \in Procs /\ q.calls \in Seq(Frames)
BY DEF Processors

(* The facts of Good, with the fields' types.                              *)
LEMMA GoodFacts ==
  ASSUME NEW q, Good(q)
  PROVE  /\ q \in Processors
         /\ q.buf \in [Slots -> Values] /\ q.top \in Int /\ q.bot \in Int
         /\ q.ctx \in Contexts /\ q.fn \in Procs /\ q.calls \in Seq(Frames)
         /\ 0 <= q.bot /\ q.bot + MIN_STACK_DEPTH <= q.top /\ q.top <= STACK_BUFFER_SIZE - 1
         /\ \A i \in Slots : i < q.bot => q.buf[i] = 0
         /\ \A i \in 1..Len(q.calls) :
              Len(q.calls[i].overflow) + MIN_STACK_DEPTH <= STACK_BUFFER_SIZE - 1
<1>1. q \in Processors
  BY DEF Good
<1>2. q.top \in Int /\ q.bot \in Int
  BY <1>1, Fields
<1>. QED  BY <1>1, <1>2, Fields, BufferAssumption DEF Good

(* Replacing the buffer and the indices.                                   *)
LEMMA MoveGood ==
  ASSUME NEW q, Good(q), NEW b \in [Slots -> Values], NEW top \in Int, NEW bot \in Int,
         0 <= bot, bot + MIN_STACK_DEPTH <= top, top <= STACK_BUFFER_SIZE - 1,
         \A i \in Slots : i < bot => b[i] = 0
  PROVE  /\ Good(Move(q, b, top, bot))
         /\ Move(q, b, top, bot).buf = b
         /\ Move(q, b, top, bot).top = top /\ Move(q, b, top, bot).bot = bot
         /\ Move(q, b, top, bot).ctx = q.ctx /\ Move(q, b, top, bot).fn = q.fn
         /\ Move(q, b, top, bot).calls = q.calls
<1>1. q \in Processors
  BY GoodFacts
<1>2. /\ Move(q, b, top, bot) \in Processors
      /\ Move(q, b, top, bot).buf = b
      /\ Move(q, b, top, bot).top = top /\ Move(q, b, top, bot).bot = bot
      /\ Move(q, b, top, bot).ctx = q.ctx /\ Move(q, b, top, bot).fn = q.fn
      /\ Move(q, b, top, bot).calls = q.calls
  BY <1>1 DEF Processors, Move
<1>3. MIN_STACK_DEPTH <= top - bot
  BY BufferAssumption
<1>. QED  BY <1>2, <1>3, GoodFacts DEF Good

(* Replacing the context and the saved contexts.                           *)
LEMMA Switched ==
  ASSUME NEW q \in Processors, NEW c \in Contexts, NEW h \in Procs, NEW fs \in Seq(Frames)
  PROVE  /\ Switch(q, c, h, fs) \in Processors
         /\ Switch(q, c, h, fs).buf = q.buf
         /\ Switch(q, c, h, fs).top = q.top /\ Switch(q, c, h, fs).bot = q.bot
         /\ Switch(q, c, h, fs).ctx = c /\ Switch(q, c, h, fs).fn = h
         /\ Switch(q, c, h, fs).calls = fs
BY DEF Processors, Switch

LEMMA SwitchGood ==
  ASSUME NEW q, Good(q), NEW c \in Contexts, NEW h \in Procs, NEW fs \in Seq(Frames),
         \A i \in 1..Len(fs) :
           Len(fs[i].overflow) + MIN_STACK_DEPTH <= STACK_BUFFER_SIZE - 1
  PROVE  /\ Good(Switch(q, c, h, fs))
         /\ StackOf(Switch(q, c, h, fs)) = StackOf(q)
         /\ Switch(q, c, h, fs).ctx = c /\ Switch(q, c, h, fs).fn = h
         /\ Switch(q, c, h, fs).calls = fs
<1>1. q \in Processors
  BY GoodFacts
<1>2. /\ Switch(q, c, h, fs) \in Processors
      /\ Switch(q, c, h, fs).buf = q.buf
      /\ Switch(q, c, h, fs).top = q.top /\ Switch(q, c, h, fs).bot = q.bot
      /\ Switch(q, c, h, fs).ctx = c /\ Switch(q, c, h, fs).fn = h
      /\ Switch(q, c, h, fs).calls = fs
  BY <1>1, Switched
<1>. QED  BY <1>2 DEF Good, StackOf

(* The slice is a sequence.                                                *)
LEMMA StackOfIsSeq ==
  ASSUME NEW q, Good(q)
  PROVE  /\ StackOf(q) \in Seq(Values)
         /\ Len(StackOf(q)) = q.top - q.bot
         /\ \A i \in 1..(q.top - q.bot) : StackOf(q)[i] = q.buf[q.bot + i - 1]
<1>1. q.top - q.bot \in Nat
  BY GoodFacts, BufferAssumption
<1>2. StackOf(q) \in [1..(q.top - q.bot) -> Values]
  BY GoodFacts, BufferAssumption DEF StackOf, Slots
<1>3. StackOf(q) \in Seq(Values) /\ Len(StackOf(q)) = q.top - q.bot
  BY <1>1, <1>2, SeqOfFun
<1>. QED  BY <1>3 DEF StackOf

(* A processor starts well.                                                *)
LEMMA NewStackGood ==
  ASSUME NEW inputs \in [1..MIN_STACK_DEPTH -> Values]
  PROVE  /\ Good(NewStack(inputs))
         /\ StackOf(NewStack(inputs)) \in [1..MIN_STACK_DEPTH -> Values]
         /\ NewStack(inputs).ctx = 0 /\ NewStack(inputs).fn = EMPTY_WORD
         /\ NewStack(inputs).calls = <<>>
<1>. DEFINE q == NewStack(inputs)
<1>1. q.buf \in [Slots -> Values]
  BY BufferAssumption DEF NewStack, Slots
<1>2. /\ q.top = INITIAL_STACK_TOP_IDX
      /\ q.bot = INITIAL_STACK_TOP_IDX - MIN_STACK_DEPTH
      /\ q.ctx = 0 /\ q.fn = EMPTY_WORD /\ q.calls = <<>>
  BY DEF NewStack
<1>3. \A i \in Slots : i < q.bot => q.buf[i] = 0
  BY <1>2, BufferAssumption DEF NewStack, Slots
<1>4. q = [buf |-> q.buf, top |-> q.top, bot |-> q.bot, ctx |-> q.ctx, fn |-> q.fn,
           calls |-> q.calls]
  BY DEF NewStack
<1>5. /\ q.top \in Int /\ q.bot \in Int /\ q.ctx \in Contexts /\ q.fn \in Procs
      /\ q.calls \in Seq(Frames) /\ Len(q.calls) = 0
  BY <1>2, BufferAssumption
<1>6. q \in Processors
  BY <1>1, <1>4, <1>5 DEF Processors
<1>7. Good(q)
  BY <1>2, <1>3, <1>5, <1>6, BufferAssumption DEF Good
<1>8. StackOf(q) \in [1..MIN_STACK_DEPTH -> Values]
  BY <1>1, <1>2, BufferAssumption DEF StackOf, Slots
<1>. QED  BY <1>2, <1>7, <1>8

(* Growing keeps the stack well and pushes the element.                    *)
LEMMA PushGood ==
  ASSUME NEW q, Good(q), CanIncrement(q), NEW v \in Values
  PROVE  /\ Good(PushElement(q, v))
         /\ StackOf(PushElement(q, v)) = Abstract!Pushed(StackOf(q), v)
         /\ PushElement(q, v).ctx = q.ctx /\ PushElement(q, v).fn = q.fn
         /\ PushElement(q, v).calls = q.calls
<1>. DEFINE b == [q.buf EXCEPT ![q.top] = v]
            r == PushElement(q, v)
<1>1. q.top \in Slots
  BY GoodFacts, BufferAssumption DEF CanIncrement, Slots
<1>2. b \in [Slots -> Values] /\ \A i \in Slots : b[i] = IF i = q.top THEN v ELSE q.buf[i]
  BY <1>1, GoodFacts
<1>3. r = Move(q, b, q.top + 1, q.bot)
  BY DEF PushElement
<1>. HIDE DEF b, r
<1>4. /\ Good(r) /\ r.buf = b /\ r.top = q.top + 1 /\ r.bot = q.bot
      /\ r.ctx = q.ctx /\ r.fn = q.fn /\ r.calls = q.calls
  <2>1. /\ q.top + 1 \in Int /\ q.bot \in Int /\ 0 <= q.bot
        /\ q.bot + MIN_STACK_DEPTH <= q.top + 1 /\ q.top + 1 <= STACK_BUFFER_SIZE - 1
    BY GoodFacts, BufferAssumption DEF CanIncrement
  <2>2. \A i \in Slots : i < q.bot => i # q.top
    BY GoodFacts, BufferAssumption DEF Slots
  <2>3. \A i \in Slots : i < q.bot => b[i] = 0
    BY <1>2, <2>2, GoodFacts
  <2>. QED  BY <1>2, <1>3, <2>1, <2>3, MoveGood
<1>6. StackOf(r) = Abstract!Pushed(StackOf(q), v)
  <2>1. Len(StackOf(q)) = q.top - q.bot
    BY StackOfIsSeq
  <2>2. \A i \in 1..(q.top - q.bot + 1) :
          r.buf[q.bot + i - 1] = IF i <= q.top - q.bot THEN StackOf(q)[i] ELSE v
    <3>. SUFFICES ASSUME NEW i \in 1..(q.top - q.bot + 1)
                  PROVE  b[q.bot + i - 1] = IF i <= q.top - q.bot THEN StackOf(q)[i] ELSE v
      BY <1>4
    <3>1. q.bot + i - 1 \in Slots /\ (q.bot + i - 1 = q.top <=> ~(i <= q.top - q.bot))
      BY <1>1, GoodFacts, BufferAssumption DEF Slots
    <3>2. i <= q.top - q.bot => StackOf(q)[i] = q.buf[q.bot + i - 1]
      BY GoodFacts, StackOfIsSeq
    <3>. QED  BY <1>2, <3>1, <3>2
  <2>3. r.top - r.bot = q.top - q.bot + 1
    BY <1>4, GoodFacts
  <2>. QED  BY <1>4, <2>1, <2>2, <2>3 DEF StackOf, Abstract!Pushed
<1>. QED  BY <1>4, <1>6 DEF r

(* Exchanging the two top elements.                                        *)
LEMMA SwapGood ==
  ASSUME NEW q, Good(q)
  PROVE  /\ Good(SwapTop(q))
         /\ StackOf(SwapTop(q)) = Abstract!Swapped(StackOf(q))
         /\ SwapTop(q).ctx = q.ctx /\ SwapTop(q).fn = q.fn /\ SwapTop(q).calls = q.calls
<1>. DEFINE b == [q.buf EXCEPT ![q.top - 1] = StackGet(q, 1), ![q.top - 2] = StackGet(q, 0)]
            r == SwapTop(q)
<1>0. /\ q.top \in Int /\ q.bot \in Int /\ 0 <= q.bot
      /\ q.bot + MIN_STACK_DEPTH <= q.top /\ q.top <= STACK_BUFFER_SIZE - 1
      /\ q.buf \in [Slots -> Values]
  BY GoodFacts
<1>1. /\ q.top - 1 \in Slots /\ q.top - 2 \in Slots /\ q.top - 1 # q.top - 2
      /\ q.top - 1 - 1 = q.top - 2 /\ q.top - 0 - 1 = q.top - 1
  BY <1>0, BufferAssumption DEF Slots
<1>2. /\ b \in [Slots -> Values]
      /\ \A i \in Slots : b[i] = IF i = q.top - 2 THEN q.buf[q.top - 1]
                                  ELSE IF i = q.top - 1 THEN q.buf[q.top - 2] ELSE q.buf[i]
  BY <1>1, GoodFacts DEF StackGet
<1>3. r = Move(q, b, q.top, q.bot)
  BY DEF SwapTop
<1>. HIDE DEF b, r
<1>4. /\ Good(r) /\ r.buf = b /\ r.top = q.top /\ r.bot = q.bot
      /\ r.ctx = q.ctx /\ r.fn = q.fn /\ r.calls = q.calls
  <2>1. \A i \in Slots : i < q.bot => i # q.top - 1 /\ i # q.top - 2
    BY <1>0, BufferAssumption DEF Slots
  <2>2. \A i \in Slots : i < q.bot => b[i] = 0
    BY <1>2, <2>1, GoodFacts
  <2>. QED  BY <1>2, <1>3, <2>2, GoodFacts, MoveGood
<1>5. StackOf(r) = Abstract!Swapped(StackOf(q))
  <2>1. Len(StackOf(q)) = q.top - q.bot
    BY StackOfIsSeq
  <2>. DEFINE n == q.top - q.bot
  <2>2. \A i \in 1..n : r.buf[q.bot + i - 1] = IF i = n THEN StackOf(q)[n - 1]
                                               ELSE IF i = n - 1 THEN StackOf(q)[n] ELSE StackOf(q)[i]
    <3>. SUFFICES ASSUME NEW i \in 1..n
                  PROVE  b[q.bot + i - 1] = IF i = n THEN StackOf(q)[n - 1]
                                            ELSE IF i = n - 1 THEN StackOf(q)[n] ELSE StackOf(q)[i]
      BY <1>4
    <3>0. i \in Int /\ 1 <= i /\ i <= q.top - q.bot
      BY <1>0
    <3>1. /\ q.bot + i - 1 \in Slots
          /\ (q.bot + i - 1 = q.top - 1) <=> (i = n)
          /\ (q.bot + i - 1 = q.top - 2) <=> (i = n - 1)
      <4>1. q.bot + i - 1 \in Slots
        BY <1>0, <3>0, BufferAssumption DEF Slots
      <4>. QED  BY <1>0, <3>0, <4>1
    <3>3. /\ n \in 1..n /\ n - 1 \in 1..n
          /\ q.bot + n - 1 = q.top - 1 /\ q.bot + (n - 1) - 1 = q.top - 2
      BY <1>0, BufferAssumption
    <3>2. /\ StackOf(q)[i] = q.buf[q.bot + i - 1]
          /\ StackOf(q)[n] = q.buf[q.top - 1] /\ StackOf(q)[n - 1] = q.buf[q.top - 2]
      BY <3>3, StackOfIsSeq
    <3>. QED  BY <1>2, <3>1, <3>2
  <2>3. StackOf(r) = [i \in 1..n |-> IF i = n THEN StackOf(q)[n - 1]
                                     ELSE IF i = n - 1 THEN StackOf(q)[n] ELSE StackOf(q)[i]]
    BY <1>4, <2>2 DEF StackOf
  <2>. QED  BY <2>1, <2>3 DEF Abstract!Swapped
<1>. QED  BY <1>4, <1>5 DEF r

(* Moving a minimal slice elsewhere in the buffer does not change it.      *)
LEMMA ResetGood ==
  ASSUME NEW q, Good(q), q.top - q.bot = MIN_STACK_DEPTH,
         NEW t \in Int, MIN_STACK_DEPTH <= t, t <= STACK_BUFFER_SIZE - 1,
         NEW r, r = ResetStackInBuffer(q, t)
  PROVE  /\ Good(r) /\ r.top = t /\ r.bot = t - MIN_STACK_DEPTH
         /\ StackOf(r) = StackOf(q)
         /\ r.ctx = q.ctx /\ r.fn = q.fn /\ r.calls = q.calls
<1>. DEFINE m == t - MIN_STACK_DEPTH
            b == [i \in Slots |-> IF i < m THEN 0
                                  ELSE IF i < t THEN q.buf[i - m + q.bot] ELSE q.buf[i]]
<1>0. /\ q.top \in Int /\ q.bot \in Int /\ 0 <= q.bot
      /\ q.bot + MIN_STACK_DEPTH <= q.top /\ q.top <= STACK_BUFFER_SIZE - 1
      /\ q.buf \in [Slots -> Values]
  BY GoodFacts
<1>1. m \in Int /\ 0 <= m /\ m + MIN_STACK_DEPTH <= t
  BY BufferAssumption
<1>2. b \in [Slots -> Values] /\ \A i \in Slots : i < m => b[i] = 0
  <2>1. \A i \in Slots : ~(i < m) /\ i < t => i - m + q.bot \in Slots
    BY <1>0, BufferAssumption DEF Slots
  <2>. QED  BY <2>1, <1>0, BufferAssumption
<1>3. \A i \in 1..MIN_STACK_DEPTH : b[m + i - 1] = q.buf[q.bot + i - 1]
  <2>0. \A j \in Slots : ~(j < m) /\ j < t => b[j] = q.buf[j - m + q.bot]
    OBVIOUS
  <2>. HIDE DEF b
  <2>. SUFFICES ASSUME NEW i \in 1..MIN_STACK_DEPTH
                PROVE  b[m + i - 1] = q.buf[q.bot + i - 1]
    OBVIOUS
  <2>1. PICK j \in Int : j = m + i - 1
    BY <1>1
  <2>2. PICK k \in Int : k = q.bot + i - 1
    BY <1>0
  <2>. HIDE DEF m
  <2>3. j - m + q.bot = k
    BY <1>0, <1>1, <2>1, <2>2
  <2>4. m <= j /\ j < t
    BY <1>1, <2>1, BufferAssumption
  <2>5. j \in Slots
    BY <1>1, <2>4, BufferAssumption DEF Slots
  <2>6. b[j] = q.buf[k]
    BY <1>1, <2>0, <2>3, <2>4, <2>5
  <2>. QED  BY <2>1, <2>2, <2>6
<1>4. r = Move(q, b, t, m)
  BY DEF ResetStackInBuffer
<1>5. t - m = MIN_STACK_DEPTH
  BY BufferAssumption
<1>. HIDE DEF b, m
<1>6. /\ Good(r) /\ r.buf = b /\ r.top = t /\ r.bot = m
      /\ r.ctx = q.ctx /\ r.fn = q.fn /\ r.calls = q.calls
  BY <1>1, <1>2, <1>4, MoveGood
<1>7. StackOf(r) = StackOf(q)
  BY <1>3, <1>5, <1>6 DEF StackOf
<1>. QED  BY <1>6, <1>7 DEF m

(* Shrinking drops the top element; at the minimum depth the slice takes   *)
(* in the zero below it.                                                   *)
LEMMA ShrinkGood ==
  ASSUME NEW q, Good(q), MIN_STACK_DEPTH < q.top, NEW r, r = ShrinkSlice(q)
  PROVE  /\ Good(r)
         /\ StackOf(r) = Abstract!Dropped(StackOf(q))
         /\ r.ctx = q.ctx /\ r.fn = q.fn /\ r.calls = q.calls
<1>. DEFINE m == IF q.bot < q.top - 1 - MIN_STACK_DEPTH THEN q.bot ELSE q.top - 1 - MIN_STACK_DEPTH
<1>0. /\ q.top \in Int /\ q.bot \in Int /\ 0 <= q.bot
      /\ q.bot + MIN_STACK_DEPTH <= q.top /\ q.top <= STACK_BUFFER_SIZE - 1
      /\ q.buf \in [Slots -> Values]
  BY GoodFacts
<1>1. /\ m \in Int /\ 0 <= m /\ m + MIN_STACK_DEPTH <= q.top - 1 /\ m <= q.bot
      /\ q.top - 1 \in Int /\ q.top - 1 <= STACK_BUFFER_SIZE - 1
      /\ q.top - q.bot > MIN_STACK_DEPTH => m = q.bot
      /\ ~(q.top - q.bot > MIN_STACK_DEPTH) => m = q.bot - 1 /\ q.top - 1 - m = MIN_STACK_DEPTH
  BY <1>0, BufferAssumption
<1>2. r = Move(q, q.buf, q.top - 1, m)
  BY DEF ShrinkSlice
<1>. HIDE DEF m
<1>3. \A i \in Slots : i < m => q.buf[i] = 0
  <2>1. \A i \in Slots : i < m => i < q.bot
    BY <1>1, <1>0, BufferAssumption DEF Slots
  <2>. QED  BY <2>1, GoodFacts
<1>4. /\ Good(r) /\ r.buf = q.buf /\ r.top = q.top - 1 /\ r.bot = m
      /\ r.ctx = q.ctx /\ r.fn = q.fn /\ r.calls = q.calls
  BY <1>0, <1>1, <1>2, <1>3, MoveGood
<1>5. Len(StackOf(q)) = q.top - q.bot
  BY StackOfIsSeq
<1>6. CASE q.top - q.bot > MIN_STACK_DEPTH
  <2>1. r.top - r.bot = q.top - q.bot - 1 /\ r.bot = q.bot
    BY <1>0, <1>1, <1>4, <1>6
  <2>2. \A i \in 1..(q.top - q.bot - 1) : StackOf(q)[i] = q.buf[q.bot + i - 1]
    BY GoodFacts, StackOfIsSeq
  <2>3. StackOf(r) = [i \in 1..(q.top - q.bot - 1) |-> StackOf(q)[i]]
    BY <1>4, <2>1, <2>2 DEF StackOf
  <2>. QED  BY <1>4, <1>5, <1>6, <2>3 DEF Abstract!Dropped
<1>7. CASE ~(q.top - q.bot > MIN_STACK_DEPTH)
  <2>1. r.top - r.bot = MIN_STACK_DEPTH /\ r.bot = q.bot - 1 /\ q.top - q.bot = MIN_STACK_DEPTH
    BY <1>1, <1>4, <1>7, <1>0, BufferAssumption
  <2>2. \A i \in 1..MIN_STACK_DEPTH :
          q.buf[q.bot - 1 + i - 1] = IF i = 1 THEN 0 ELSE StackOf(q)[i - 1]
    <3>. SUFFICES ASSUME NEW i \in 1..MIN_STACK_DEPTH
                  PROVE  q.buf[q.bot - 1 + i - 1] = IF i = 1 THEN 0 ELSE StackOf(q)[i - 1]
      OBVIOUS
    <3>0. i \in Int /\ 1 <= i /\ i <= q.top - q.bot /\ 0 <= q.bot - 1
      BY <1>0, <1>1, <1>7, <2>1, BufferAssumption
    <3>1. /\ i = 1 => q.bot - 1 + i - 1 \in Slots /\ q.bot - 1 + i - 1 < q.bot
          /\ i # 1 => i - 1 \in 1..(q.top - q.bot)
          /\ q.bot - 1 + i - 1 = q.bot + (i - 1) - 1
      <4>1. i = 1 => q.bot - 1 + i - 1 \in Slots /\ q.bot - 1 + i - 1 < q.bot
        BY <1>0, <3>0, BufferAssumption DEF Slots
      <4>. QED  BY <1>0, <3>0, <4>1
    <3>2. i = 1 => q.buf[q.bot - 1 + i - 1] = 0
      BY <3>1, GoodFacts
    <3>3. i # 1 => q.buf[q.bot - 1 + i - 1] = StackOf(q)[i - 1]
      BY <3>1, StackOfIsSeq
    <3>. QED  BY <3>2, <3>3
  <2>3. StackOf(r) = [i \in 1..MIN_STACK_DEPTH |-> IF i = 1 THEN 0 ELSE StackOf(q)[i - 1]]
    BY <1>4, <2>1, <2>2 DEF StackOf
  <2>. QED  BY <1>4, <1>5, <1>7, <2>3 DEF Abstract!Dropped
<1>. QED  BY <1>6, <1>7

(* decrement_stack_size drops the top element, wherever the slice is.      *)
LEMMA DropGood ==
  ASSUME NEW q, Good(q)
  PROVE  /\ Good(DecrementStackSize(q))
         /\ StackOf(DecrementStackSize(q)) = Abstract!Dropped(StackOf(q))
         /\ DecrementStackSize(q).ctx = q.ctx /\ DecrementStackSize(q).fn = q.fn
         /\ DecrementStackSize(q).calls = q.calls
<1>. DEFINE m == ResetStackInBuffer(q, INITIAL_STACK_TOP_IDX)
<1>0. /\ q.top \in Int /\ q.bot \in Int /\ 0 <= q.bot
      /\ q.bot + MIN_STACK_DEPTH <= q.top /\ q.top <= STACK_BUFFER_SIZE - 1
      /\ q.buf \in [Slots -> Values]
  BY GoodFacts
<1>1. CASE q.top = MIN_STACK_DEPTH
  <2>1. q.top - q.bot = MIN_STACK_DEPTH
    BY <1>0, <1>1, BufferAssumption
  <2>2. /\ INITIAL_STACK_TOP_IDX \in Int /\ MIN_STACK_DEPTH <= INITIAL_STACK_TOP_IDX
        /\ INITIAL_STACK_TOP_IDX <= STACK_BUFFER_SIZE - 1
    BY BufferAssumption
  <2>. HIDE DEF m
  <2>3. /\ Good(m) /\ m.top = INITIAL_STACK_TOP_IDX /\ StackOf(m) = StackOf(q)
        /\ m.ctx = q.ctx /\ m.fn = q.fn /\ m.calls = q.calls
    BY <2>1, <2>2, ResetGood DEF m
  <2>4. MIN_STACK_DEPTH < m.top
    BY <2>3, BufferAssumption
  <2>5. DecrementStackSize(q) = ShrinkSlice(m)
    BY <1>1 DEF DecrementStackSize, m
  <2>. QED  BY <2>3, <2>4, <2>5, ShrinkGood
<1>2. CASE q.top # MIN_STACK_DEPTH
  <2>1. MIN_STACK_DEPTH < q.top
    BY <1>0, <1>2, BufferAssumption
  <2>2. DecrementStackSize(q) = ShrinkSlice(q)
    BY <1>2 DEF DecrementStackSize
  <2>. QED  BY <2>1, <2>2, ShrinkGood
<1>. QED  BY <1>1, <1>2

(* What a call puts aside is what lies below the top elements.             *)
LEMMA FrameIsOverflow ==
  ASSUME NEW q, Good(q)
  PROVE  /\ OverflowOf(q) = Abstract!Overflow(StackOf(q))
         /\ OverflowOf(q) \in Seq(Values)
         /\ Len(OverflowOf(q)) + MIN_STACK_DEPTH <= STACK_BUFFER_SIZE - 1
<1>0. /\ q.top \in Int /\ q.bot \in Int /\ 0 <= q.bot
      /\ q.bot + MIN_STACK_DEPTH <= q.top /\ q.top <= STACK_BUFFER_SIZE - 1
      /\ q.buf \in [Slots -> Values]
  BY GoodFacts
<1>1. PICK n \in Nat : n = q.top - MIN_STACK_DEPTH - q.bot
  BY <1>0, BufferAssumption
<1>2. n + MIN_STACK_DEPTH <= STACK_BUFFER_SIZE - 1 /\ n = q.top - q.bot - MIN_STACK_DEPTH
  BY <1>0, <1>1, BufferAssumption
<1>3. \A i \in 1..n : q.bot + i - 1 \in Slots /\ i \in 1..(q.top - q.bot)
  <2>. SUFFICES ASSUME NEW i \in 1..n
                PROVE  q.bot + i - 1 \in Slots /\ i \in 1..(q.top - q.bot)
    OBVIOUS
  <2>1. PICK d \in Int : d = MIN_STACK_DEPTH /\ 0 <= d
    BY BufferAssumption
  <2>2. i \in Int /\ 1 <= i /\ i <= n /\ q.bot + n + d = q.top
    BY <1>0, <1>1, <2>1
  <2>3. i \in 1..(q.top - q.bot)
    BY <1>0, <2>1, <2>2
  <2>4. 0 <= q.bot + i - 1 /\ q.bot + i - 1 <= STACK_BUFFER_SIZE - 1
    BY <1>0, <2>1, <2>2, BufferAssumption
  <2>5. q.bot + i - 1 \in Slots
    BY <1>0, <2>2, <2>4, BufferAssumption DEF Slots
  <2>. QED  BY <2>3, <2>5
<1>4. OverflowOf(q) = [i \in 1..n |-> q.buf[q.bot + i - 1]]
  BY <1>1 DEF OverflowOf
<1>5. OverflowOf(q) \in [1..n -> Values]
  BY <1>0, <1>3, <1>4
<1>6. \A i \in 1..n : StackOf(q)[i] = q.buf[q.bot + i - 1]
  BY <1>3, StackOfIsSeq
<1>7. Abstract!Overflow(StackOf(q)) = [i \in 1..n |-> StackOf(q)[i]]
  BY <1>2, StackOfIsSeq DEF Abstract!Overflow
<1>8. OverflowOf(q) \in Seq(Values) /\ Len(OverflowOf(q)) = n
  BY <1>5, SeqOfFun
<1>. QED  BY <1>2, <1>4, <1>6, <1>7, <1>8

(* A call leaves the top elements and puts the others aside.               *)
LEMMA SaveGood ==
  ASSUME NEW q, Good(q)
  PROVE  /\ Good(SaveContextAndTruncateStack(q))
         /\ StackOf(SaveContextAndTruncateStack(q)) = Abstract!Top(StackOf(q))
         /\ SaveContextAndTruncateStack(q).calls =
              Append(q.calls, [overflow |-> Abstract!Overflow(StackOf(q)),
                               ctx |-> q.ctx, fn |-> q.fn])
<1>. DEFINE m == q.top - MIN_STACK_DEPTH
            b == [i \in Slots |-> IF i >= q.bot /\ i < m THEN 0 ELSE q.buf[i]]
            r == Move(q, b, q.top, m)
            fs == Append(q.calls, Frame(q))
<1>0. /\ q.top \in Int /\ q.bot \in Int /\ 0 <= q.bot
      /\ q.bot + MIN_STACK_DEPTH <= q.top /\ q.top <= STACK_BUFFER_SIZE - 1
      /\ q.buf \in [Slots -> Values]
  BY GoodFacts
<1>1. m \in Int /\ 0 <= m /\ m + MIN_STACK_DEPTH <= q.top /\ q.bot <= m
  BY <1>0, BufferAssumption
<1>2. b \in [Slots -> Values] /\ \A i \in Slots : i < m => b[i] = 0
  <2>1. b \in [Slots -> Values]
    BY <1>0, BufferAssumption
  <2>2. \A i \in Slots : i < m /\ ~(i >= q.bot /\ i < m) => i < q.bot
    BY <1>0, <1>1, BufferAssumption DEF Slots
  <2>3. \A i \in Slots : i < m => b[i] = 0
    BY <2>2, GoodFacts
  <2>. QED  BY <2>1, <2>3
<1>3. \A i \in Slots : ~(i < m) => b[i] = q.buf[i]
  OBVIOUS
<1>4. SaveContextAndTruncateStack(q) = Switch(r, q.ctx, q.fn, fs)
  BY DEF SaveContextAndTruncateStack
<1>5. q.top - m = MIN_STACK_DEPTH
  BY <1>0, BufferAssumption
<1>. HIDE DEF b
<1>6. /\ Good(r) /\ r.buf = b /\ r.top = q.top /\ r.bot = m
      /\ r.ctx = q.ctx /\ r.fn = q.fn /\ r.calls = q.calls
  <2>. HIDE DEF m
  <2>. QED  BY <1>0, <1>1, <1>2, MoveGood
<1>. HIDE DEF r
<1>7. StackOf(r) = Abstract!Top(StackOf(q))
  <2>1. \A i \in 1..MIN_STACK_DEPTH : b[m + i - 1] = StackOf(q)[q.top - q.bot - MIN_STACK_DEPTH + i]
    <3>. SUFFICES ASSUME NEW i \in 1..MIN_STACK_DEPTH
                  PROVE  b[m + i - 1] = StackOf(q)[q.top - q.bot - MIN_STACK_DEPTH + i]
      OBVIOUS
    <3>1. PICK j \in Int : j = m + i - 1
      BY <1>1
    <3>2. PICK k \in Int : k = q.top - q.bot - MIN_STACK_DEPTH + i
      BY <1>0, BufferAssumption
    <3>0. i \in Int /\ 1 <= i /\ i <= MIN_STACK_DEPTH
      BY BufferAssumption
    <3>3. j \in Slots /\ ~(j < m) /\ k \in 1..(q.top - q.bot) /\ q.bot + k - 1 = j
      <4>1. j \in Slots
        BY <1>0, <3>0, <3>1, BufferAssumption DEF Slots
      <4>2. ~(j < m)
        BY <1>0, <3>0, <3>1, BufferAssumption
      <4>3. k \in 1..(q.top - q.bot) /\ q.bot + k - 1 = j
        BY <1>0, <3>0, <3>1, <3>2, BufferAssumption
      <4>. QED  BY <4>1, <4>2, <4>3
    <3>4. b[j] = q.buf[j]
      BY <1>3, <3>3
    <3>5. StackOf(q)[k] = q.buf[j]
      BY <3>3, StackOfIsSeq
    <3>. QED  BY <3>1, <3>2, <3>4, <3>5
  <2>. HIDE DEF m
  <2>2. StackOf(r) = [i \in 1..MIN_STACK_DEPTH |-> StackOf(q)[q.top - q.bot - MIN_STACK_DEPTH + i]]
    BY <1>5, <1>6, <2>1 DEF StackOf
  <2>. QED  BY <2>2, StackOfIsSeq DEF Abstract!Top
<1>8. /\ Frame(q) = [overflow |-> Abstract!Overflow(StackOf(q)), ctx |-> q.ctx, fn |-> q.fn]
      /\ Frame(q) \in Frames
      /\ Len(Frame(q).overflow) + MIN_STACK_DEPTH <= STACK_BUFFER_SIZE - 1
  BY GoodFacts, FrameIsOverflow DEF Frame, Frames
<1>9. /\ fs \in Seq(Frames)
      /\ \A i \in 1..Len(fs) :
           Len(fs[i].overflow) + MIN_STACK_DEPTH <= STACK_BUFFER_SIZE - 1
  <2>1. q.calls \in Seq(Frames)
    BY GoodFacts
  <2>2. /\ fs \in Seq(Frames) /\ Len(fs) = Len(q.calls) + 1
        /\ fs[Len(q.calls) + 1] = Frame(q)
        /\ \A i \in 1..Len(q.calls) : fs[i] = q.calls[i]
    BY <1>8, <2>1
  <2>3. \A i \in 1..Len(fs) : i \in 1..Len(q.calls) \/ i = Len(q.calls) + 1
    BY <2>1, <2>2
  <2>. HIDE DEF fs
  <2>. QED  BY <1>8, <2>2, <2>3, GoodFacts
<1>10. q.ctx \in Contexts /\ q.fn \in Procs
  BY GoodFacts
<1>11. fs = Append(q.calls, [overflow |-> Abstract!Overflow(StackOf(q)), ctx |-> q.ctx, fn |-> q.fn])
  BY <1>8
<1>. HIDE DEF fs
<1>12. /\ Good(Switch(r, q.ctx, q.fn, fs)) /\ StackOf(Switch(r, q.ctx, q.fn, fs)) = StackOf(r)
       /\ Switch(r, q.ctx, q.fn, fs).calls = fs
  BY <1>6, <1>9, <1>10, SwitchGood
<1>. QED  BY <1>4, <1>7, <1>11, <1>12

(* The caller's stack: what was put aside below what the callee left.      *)
Under(overflow, s) ==
  [i \in 1..(Len(overflow) + MIN_STACK_DEPTH) |->
     IF i <= Len(overflow) THEN overflow[i] ELSE s[i - Len(overflow)]]

LEMMA CopyGood ==
  ASSUME NEW q, Good(q), q.top - q.bot = MIN_STACK_DEPTH,
         NEW ov \in Seq(Values), Len(ov) <= q.bot, NEW r, r = CopyUnder(q, ov)
  PROVE  /\ Good(r) /\ StackOf(r) = Under(ov, StackOf(q))
         /\ r.ctx = q.ctx /\ r.fn = q.fn /\ r.calls = q.calls
<1>0. /\ q.top \in Int /\ q.bot \in Int /\ 0 <= q.bot
      /\ q.bot + MIN_STACK_DEPTH <= q.top /\ q.top <= STACK_BUFFER_SIZE - 1
      /\ q.buf \in [Slots -> Values]
  BY GoodFacts
<1>n. PICK n \in Nat : n = Len(ov)
  OBVIOUS
<1>m. PICK m \in Int : m = q.bot - n
  BY <1>0
<1>. DEFINE b == [i \in Slots |-> IF i >= m /\ i < q.bot THEN ov[i - m + 1] ELSE q.buf[i]]
<1>1. /\ 0 <= m /\ m <= q.bot /\ m + MIN_STACK_DEPTH <= q.top
      /\ q.bot = m + n /\ q.top = q.bot + MIN_STACK_DEPTH
  <2>1. q.top = q.bot + MIN_STACK_DEPTH
    BY <1>0, BufferAssumption
  <2>2. n <= q.bot
    BY <1>n
  <2>3. q.bot = m + n /\ 0 <= m /\ m <= q.bot
    BY <1>0, <1>m, <2>2
  <2>4. m + MIN_STACK_DEPTH <= q.top
    BY <1>0, <2>1, <2>3, BufferAssumption
  <2>. QED  BY <2>1, <2>3, <2>4
<1>2. /\ \A i \in Slots : i >= m /\ i < q.bot => i - m + 1 \in 1..n /\ b[i] = ov[i - m + 1]
      /\ \A i \in Slots : ~(i >= m /\ i < q.bot) => b[i] = q.buf[i]
  <2>1. \A i \in Slots : i >= m /\ i < q.bot => i - m + 1 \in 1..n
    BY <1>0, <1>1, BufferAssumption DEF Slots
  <2>. QED  BY <2>1
<1>3. b \in [Slots -> Values]
  <2>1. \A i \in Slots : i >= m /\ i < q.bot => ov[i - m + 1] \in Values
    BY <1>2, <1>n
  <2>. QED  BY <1>0, <2>1
<1>4. r = Move(q, b, q.top, m)
  BY <1>n, <1>m DEF CopyUnder
<1>. HIDE DEF b
<1>5. \A i \in Slots : i < m => b[i] = 0
  <2>1. \A i \in Slots : i < m => ~(i >= m /\ i < q.bot) /\ i < q.bot
    BY <1>0, <1>1, BufferAssumption DEF Slots
  <2>. QED  BY <1>2, <2>1, GoodFacts
<1>6. /\ Good(r) /\ r.buf = b /\ r.top = q.top /\ r.bot = m
      /\ r.ctx = q.ctx /\ r.fn = q.fn /\ r.calls = q.calls
  <2>. QED  BY <1>0, <1>1, <1>3, <1>4, <1>5, MoveGood
<1>7. \A i \in 1..(n + MIN_STACK_DEPTH) :
        b[m + i - 1] = IF i <= n THEN ov[i] ELSE StackOf(q)[i - n]
  <2>. SUFFICES ASSUME NEW i \in 1..(n + MIN_STACK_DEPTH)
                PROVE  b[m + i - 1] = IF i <= n THEN ov[i] ELSE StackOf(q)[i - n]
    OBVIOUS
  <2>0. i \in Int /\ 1 <= i /\ i <= n + MIN_STACK_DEPTH
    BY <1>1, BufferAssumption
  <2>1. PICK j \in Int : j = m + i - 1
    BY <1>1
  <2>2. j \in Slots
    BY <1>0, <1>1, <2>0, <2>1, BufferAssumption DEF Slots
  <2>3. CASE i <= n
    <3>1. j >= m /\ j < q.bot /\ j - m + 1 = i
      BY <1>0, <1>1, <2>0, <2>1, <2>3
    <3>2. b[j] = ov[i]
      BY <1>2, <2>2, <3>1
    <3>. QED  BY <2>1, <2>3, <3>2
  <2>4. CASE ~(i <= n)
    <3>1. PICK k \in Int : k = i - n
      BY <1>1, <2>0
    <3>2. ~(j >= m /\ j < q.bot) /\ k \in 1..(q.top - q.bot) /\ q.bot + k - 1 = j
      <4>1. ~(j >= m /\ j < q.bot)
        BY <1>0, <1>1, <2>0, <2>1, <2>4
      <4>2. k \in 1..(q.top - q.bot)
        BY <1>0, <1>1, <2>0, <2>4, <3>1
      <4>3. q.bot + k - 1 = j
        BY <1>0, <1>1, <2>0, <2>1, <3>1
      <4>. QED  BY <4>1, <4>2, <4>3
    <3>3. b[j] = q.buf[j] /\ StackOf(q)[k] = q.buf[j]
      BY <1>2, <2>2, <3>2, StackOfIsSeq
    <3>. QED  BY <2>1, <2>4, <3>1, <3>3
  <2>. QED  BY <2>3, <2>4
<1>8. q.top - m = n + MIN_STACK_DEPTH
  <2>1. PICK d \in Int : d = MIN_STACK_DEPTH
    BY BufferAssumption
  <2>2. q.top = m + n + d
    BY <1>1, <2>1
  <2>3. m + n + d - m = n + d
    BY <2>1
  <2>. QED  BY <2>1, <2>2, <2>3
<1>9. StackOf(r) = [i \in 1..(n + MIN_STACK_DEPTH) |-> IF i <= n THEN ov[i] ELSE StackOf(q)[i - n]]
  BY <1>6, <1>7, <1>8 DEF StackOf
<1>. QED  BY <1>6, <1>9, <1>n DEF Under

(* A return puts the caller's elements back, moving the slice up when      *)
(* there is no room for them below it.                                     *)
LEMMA OverflowGood ==
  ASSUME NEW q, Good(q), q.top - q.bot = MIN_STACK_DEPTH,
         NEW ov \in Seq(Values), Len(ov) + MIN_STACK_DEPTH <= STACK_BUFFER_SIZE - 1
  PROVE  /\ Good(RestoreOverflowStack(q, ov))
         /\ StackOf(RestoreOverflowStack(q, ov)) = Under(ov, StackOf(q))
<1>. DEFINE n == Len(ov)
            t == IF INITIAL_STACK_TOP_IDX + n < STACK_BUFFER_SIZE - 1
                   THEN INITIAL_STACK_TOP_IDX + n ELSE STACK_BUFFER_SIZE - 1
            m == ResetStackInBuffer(q, t)
<1>0. /\ q.top \in Int /\ q.bot \in Int /\ 0 <= q.bot
      /\ q.bot + MIN_STACK_DEPTH <= q.top /\ q.top <= STACK_BUFFER_SIZE - 1
      /\ q.buf \in [Slots -> Values]
  BY GoodFacts
<1>1. n \in Nat
  OBVIOUS
<1>2. CASE n > q.bot
  <2>1. /\ t \in Int /\ MIN_STACK_DEPTH <= t /\ t <= STACK_BUFFER_SIZE - 1
        /\ n <= t - MIN_STACK_DEPTH /\ t - (t - MIN_STACK_DEPTH) = MIN_STACK_DEPTH
    BY <1>1, BufferAssumption
  <2>2. RestoreOverflowStack(q, ov) = CopyUnder(m, ov)
    BY <1>2 DEF RestoreOverflowStack
  <2>. HIDE DEF t
  <2>. HIDE DEF m
  <2>3. Good(m) /\ m.top = t /\ m.bot = t - MIN_STACK_DEPTH /\ StackOf(m) = StackOf(q)
    BY <2>1, ResetGood DEF m
  <2>4. m.top - m.bot = MIN_STACK_DEPTH /\ n <= m.bot
    BY <2>1, <2>3
  <2>. QED  BY <2>2, <2>3, <2>4, CopyGood
<1>3. CASE ~(n > q.bot)
  <2>1. RestoreOverflowStack(q, ov) = CopyUnder(q, ov)
    BY <1>3 DEF RestoreOverflowStack
  <2>2. n <= q.bot
    BY <1>0, <1>1, <1>3
  <2>. QED  BY <2>1, <2>2, CopyGood
<1>. QED  BY <1>2, <1>3

(* A return gives the caller its stack and its context back.               *)
LEMMA RestoreGood ==
  ASSUME NEW q, Good(q), CanRestore(q), q.calls # <<>>, NEW f, f = q.calls[Len(q.calls)]
  PROVE  /\ Good(RestoreContext(q))
         /\ StackOf(RestoreContext(q)) = Under(f.overflow, StackOf(q))
         /\ RestoreContext(q).ctx = f.ctx /\ RestoreContext(q).fn = f.fn
         /\ RestoreContext(q).calls = [i \in 1..(Len(q.calls) - 1) |-> q.calls[i]]
<1>. DEFINE r == RestoreOverflowStack(q, f.overflow)
            fs == [i \in 1..(Len(q.calls) - 1) |-> q.calls[i]]
<1>1. q.calls \in Seq(Frames) /\ q.top - q.bot = MIN_STACK_DEPTH
  BY GoodFacts DEF CanRestore, StackSize
<1>2. Len(q.calls) \in Nat \ {0} /\ Len(q.calls) \in 1..Len(q.calls)
  BY <1>1
<1>3. f \in Frames /\ Len(f.overflow) + MIN_STACK_DEPTH <= STACK_BUFFER_SIZE - 1
  <2>1. f \in Frames
    BY <1>1, <1>2
  <2>2. \A i \in 1..Len(q.calls) :
          Len(q.calls[i].overflow) + MIN_STACK_DEPTH <= STACK_BUFFER_SIZE - 1
    BY GoodFacts
  <2>. QED  BY <1>2, <2>1, <2>2
<1>4. f.overflow \in Seq(Values) /\ f.ctx \in Contexts /\ f.fn \in Procs
  BY <1>3 DEF Frames
<1>5. fs \in Seq(Frames) /\ Len(fs) = Len(q.calls) - 1
  <2>1. fs \in [1..(Len(q.calls) - 1) -> Frames] /\ Len(q.calls) - 1 \in Nat
    BY <1>1, <1>2
  <2>. QED  BY <2>1, SeqOfFun
<1>6. \A i \in 1..Len(fs) : Len(fs[i].overflow) + MIN_STACK_DEPTH <= STACK_BUFFER_SIZE - 1
  <2>1. \A i \in 1..Len(fs) : i \in 1..Len(q.calls) /\ fs[i] = q.calls[i]
    BY <1>2, <1>5
  <2>. HIDE DEF fs
  <2>. QED  BY <2>1, GoodFacts
<1>7. RestoreContext(q) = Switch(r, f.ctx, f.fn, fs)
  BY DEF RestoreContext
<1>8. Good(r) /\ StackOf(r) = Under(f.overflow, StackOf(q))
  BY <1>1, <1>3, <1>4, OverflowGood
<1>9. fs = [i \in 1..(Len(q.calls) - 1) |-> q.calls[i]]
  OBVIOUS
<1>. HIDE DEF r
<1>. HIDE DEF fs
<1>10. /\ Good(Switch(r, f.ctx, f.fn, fs)) /\ StackOf(Switch(r, f.ctx, f.fn, fs)) = StackOf(r)
       /\ Switch(r, f.ctx, f.fn, fs).ctx = f.ctx /\ Switch(r, f.ctx, f.fn, fs).fn = f.fn
       /\ Switch(r, f.ctx, f.fn, fs).calls = fs
  BY <1>4, <1>5, <1>6, <1>8, SwitchGood
<1>. QED  BY <1>7, <1>8, <1>9, <1>10

-----------------------------------------------------------------------------
(* Every operation keeps the stack well and is one of CallStack's.         *)
LEMMA StepGood ==
  ASSUME Good(p), StackNext
  PROVE  Good(p') /\ Abstract!Next
<1>1. CASE Grow
  <2>1. PICK v \in Values : p' = PushElement(p, v)
    BY <1>1 DEF Grow
  <2>2. CanIncrement(p)
    BY <1>1 DEF Grow
  <2>3. /\ Good(p') /\ StackOf(p') = Abstract!Pushed(StackOf(p), v)
        /\ p'.ctx = p.ctx /\ p'.fn = p.fn /\ p'.calls = p.calls
    BY <2>1, <2>2, PushGood
  <2>4. Abstract!Push
    BY <2>3 DEF Abstract!Push
  <2>. QED  BY <2>3, <2>4 DEF Abstract!Next
<1>2. CASE Shrink
  <2>1. /\ Good(p') /\ StackOf(p') = Abstract!Dropped(StackOf(p))
        /\ p'.ctx = p.ctx /\ p'.fn = p.fn /\ p'.calls = p.calls
    BY <1>2, DropGood DEF Shrink
  <2>2. Abstract!Drop
    BY <2>1 DEF Abstract!Drop
  <2>. QED  BY <2>1, <2>2 DEF Abstract!Next
<1>3. CASE Exchange
  <2>1. /\ Good(p') /\ StackOf(p') = Abstract!Swapped(StackOf(p))
        /\ p'.ctx = p.ctx /\ p'.fn = p.fn /\ p'.calls = p.calls
    BY <1>3, SwapGood DEF Exchange
  <2>2. Abstract!Swap
    BY <2>1 DEF Abstract!Swap
  <2>. QED  BY <2>1, <2>2 DEF Abstract!Next
<1>4. CASE Enter
  <2>. DEFINE q == SaveContextAndTruncateStack(p)
  <2>1. PICK c \in Contexts, h \in Procs : p' = Switch(q, c, h, q.calls)
    BY <1>4 DEF Enter
  <2>2. /\ Good(q) /\ StackOf(q) = Abstract!Top(StackOf(p))
        /\ q.calls = Append(p.calls, [overflow |-> Abstract!Overflow(StackOf(p)),
                                      ctx |-> p.ctx, fn |-> p.fn])
    BY SaveGood
  <2>. HIDE DEF q
  <2>3. Good(p') /\ StackOf(p') = StackOf(q) /\ p'.ctx = c /\ p'.fn = h /\ p'.calls = q.calls
    <3>1. PICK fs : fs = q.calls
      OBVIOUS
    <3>2. /\ fs \in Seq(Frames)
          /\ \A i \in 1..Len(fs) :
               Len(fs[i].overflow) + MIN_STACK_DEPTH <= STACK_BUFFER_SIZE - 1
      BY <2>2, <3>1, GoodFacts
    <3>3. p' = Switch(q, c, h, fs)
      BY <2>1, <3>1
    <3>4. /\ Good(Switch(q, c, h, fs)) /\ StackOf(Switch(q, c, h, fs)) = StackOf(q)
          /\ Switch(q, c, h, fs).ctx = c /\ Switch(q, c, h, fs).fn = h
          /\ Switch(q, c, h, fs).calls = fs
      BY <2>2, <3>2, SwitchGood
    <3>. QED  BY <3>1, <3>3, <3>4
  <2>4. Abstract!Call
    BY <2>2, <2>3 DEF Abstract!Call, Abstract!Enter
  <2>. QED  BY <2>3, <2>4 DEF Abstract!Next
<1>5. CASE EnterDyn
  <2>. DEFINE d == DecrementStackSize(p)
              q == SaveContextAndTruncateStack(d)
  <2>1. PICK c \in Contexts, h \in Procs : p' = Switch(q, c, h, q.calls)
    BY <1>5 DEF EnterDyn
  <2>2. /\ Good(d) /\ StackOf(d) = Abstract!Dropped(StackOf(p))
        /\ d.ctx = p.ctx /\ d.fn = p.fn /\ d.calls = p.calls
    BY DropGood
  <2>. HIDE DEF d
  <2>3. /\ Good(q) /\ StackOf(q) = Abstract!Top(StackOf(d))
        /\ q.calls = Append(d.calls, [overflow |-> Abstract!Overflow(StackOf(d)),
                                      ctx |-> d.ctx, fn |-> d.fn])
    BY <2>2, SaveGood
  <2>. HIDE DEF q
  <2>4. Good(p') /\ StackOf(p') = StackOf(q) /\ p'.ctx = c /\ p'.fn = h /\ p'.calls = q.calls
    <3>1. PICK fs : fs = q.calls
      OBVIOUS
    <3>2. /\ fs \in Seq(Frames)
          /\ \A i \in 1..Len(fs) :
               Len(fs[i].overflow) + MIN_STACK_DEPTH <= STACK_BUFFER_SIZE - 1
      BY <2>3, <3>1, GoodFacts
    <3>3. p' = Switch(q, c, h, fs)
      BY <2>1, <3>1
    <3>4. /\ Good(Switch(q, c, h, fs)) /\ StackOf(Switch(q, c, h, fs)) = StackOf(q)
          /\ Switch(q, c, h, fs).ctx = c /\ Switch(q, c, h, fs).fn = h
          /\ Switch(q, c, h, fs).calls = fs
      BY <2>3, <3>2, SwitchGood
    <3>. QED  BY <3>1, <3>3, <3>4
  <2>5. Abstract!DynCall
    BY <2>2, <2>3, <2>4 DEF Abstract!DynCall, Abstract!Enter
  <2>. QED  BY <2>4, <2>5 DEF Abstract!Next
<1>6. CASE Leave
  <2>1. PICK f : f = p.calls[Len(p.calls)]
    OBVIOUS
  <2>2. /\ Good(p') /\ StackOf(p') = Under(f.overflow, StackOf(p))
        /\ p'.ctx = f.ctx /\ p'.fn = f.fn
        /\ p'.calls = [i \in 1..(Len(p.calls) - 1) |-> p.calls[i]]
    BY <1>6, <2>1, RestoreGood DEF Leave
  <2>3. p.calls # <<>> /\ Len(StackOf(p)) = MIN_STACK_DEPTH
    BY <1>6, StackOfIsSeq DEF Leave, CanRestore, StackSize
  <2>4. Abstract!Return
    BY <2>1, <2>2, <2>3 DEF Abstract!Return, Abstract!Depth, Under
  <2>. QED  BY <2>2, <2>4 DEF Abstract!Next
<1>. QED  BY <1>1, <1>2, <1>3, <1>4, <1>5, <1>6 DEF StackNext

LEMMA InitGood == StackInit => Good(p) /\ Abstract!Init
<1>. SUFFICES ASSUME StackInit PROVE Good(p) /\ Abstract!Init
  OBVIOUS
<1>1. PICK inputs \in [1..MIN_STACK_DEPTH -> Values] : p = NewStack(inputs)
  BY DEF StackInit
<1>2. /\ Good(p) /\ StackOf(p) \in [1..MIN_STACK_DEPTH -> Values]
      /\ p.ctx = 0 /\ p.fn = EMPTY_WORD /\ p.calls = <<>>
  BY <1>1, NewStackGood
<1>. QED  BY <1>2, BufferAssumption DEF Abstract!Init

(* The inductive invariant: every reachable stack is well.                 *)
LEMMA AlwaysGood == StackSpec => []Good(p)
<1>1. StackInit => Good(p)
  BY InitGood
<1>2. Good(p) /\ [StackNext]_p => Good(p)'
  BY StepGood
<1>. QED  BY <1>1, <1>2, PTL DEF StackSpec

(* The indices of the fast processor's stack never leave its buffer and    *)
(* everything below the slice is zero, for every buffer size and every     *)
(* sequence of pushes, drops, calls and returns.                           *)
THEOREM SliceStaysInBuffer == StackSpec => []SliceIsInBuffer
<1>1. Good(p) => SliceIsInBuffer
  BY DEF Good, SliceIsInBuffer
<1>. QED  BY <1>1, AlwaysGood, PTL

(* The buffer, its moving slice and the elements copied out and back       *)
(* implement the stack of contexts: dropping at the minimum depth pulls in *)
(* a zero, a callee sees the top elements only and the caller gets its own *)
(* back, whatever was moved in between.                                    *)
THEOREM BufferIsCallStack == StackSpec => ImplementsCallStack
<1>1. StackInit => Abstract!Init
  BY InitGood
<1>2. Good(p) /\ [StackNext]_p => [Abstract!Next]_(Abstract!vars)
  <2>. SUFFICES ASSUME Good(p), [StackNext]_p PROVE [Abstract!Next]_(Abstract!vars)
    OBVIOUS
  <2>1. CASE StackNext
    BY <2>1, StepGood
  <2>2. CASE UNCHANGED p
    BY <2>2 DEF Abstract!vars
  <2>. QED  BY <2>1, <2>2
<1>. QED  BY <1>1, <1>2, AlwaysGood, PTL DEF StackSpec, ImplementsCallStack, Abstract!Spec
=============================================================================
