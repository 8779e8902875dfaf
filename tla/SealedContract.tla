---------------------------- MODULE SealedContract ----------------------------
(***************************************************************************)
(* The Sealed account component in Miden assembly: prove_threshold and the  *)
(* compute_reputation_score it executes, one call from entry to assertion.  *)
(* The operand stack's cells are variables named after what the code keeps  *)
(* in them; a step is a stretch of instructions between two tests. Values   *)
(* are elements of the field of P elements. For [b, a] with b on top, sub   *)
(* is a - b in the field and gte is a >= b.                                 *)
(***************************************************************************)
EXTENDS Integers, Sequences, FiniteSetsExt

CONSTANTS
  P,             \* the field's modulus
  MAX_AGE,       \* 31536000
  Threshold,     \* thresholds the caller may leave on the stack
  MaxAdvice,     \* bound: elements of the advice stack
  AdviceElement  \* bound: values of those elements

VARIABLES
  pc,         \* "entry", "loop", "compare", then "proved" or "failed"
  threshold,  \* the cell under the procedure's own
  count, current_timestamp, total_score,
  advice,     \* the advice stack at entry
  popped      \* how much of it has been popped

vars == <<pc, threshold, count, current_timestamp, total_score, advice, popped>>

B(condition) == IF condition THEN 1 ELSE 0

Init ==
  /\ pc = "entry" /\ threshold \in Threshold
  /\ advice \in UNION {[1 .. n -> AdviceElement] : n \in 0 .. MaxAdvice}
  /\ count = 0 /\ current_timestamp = 0 /\ total_score = 0 /\ popped = 0

Left(n) == Len(advice) - popped >= n
Popped(i) == advice[popped + i]

\* adv_push on an exhausted advice stack ends the execution.
RunDry ==
  /\ \/ pc = "entry" /\ ~Left(2)
     \/ pc = "loop" /\ count # 0 /\ ~Left(3)
  /\ pc' = "failed"
  /\ UNCHANGED <<threshold, count, current_timestamp, total_score, advice, popped>>

\* Up to the loop: the first element popped becomes the count.
Enter ==
  /\ pc = "entry" /\ Left(2)
  /\ pc' = "loop"
  /\ count' = Popped(1) /\ current_timestamp' = Popped(2)
  /\ popped' = 2
  /\ UNCHANGED <<threshold, total_score, advice>>

\* dup.4 sub push.31536000 gte: the timestamp on top is subtracted, the
\* constant on top is what the difference has to reach.
IsValid(cred_ts) == (cred_ts - current_timestamp) % P >= MAX_AGE

\* The loop's body.
Iterate ==
  LET score == Popped(1)  weight == Popped(2)  cred_ts == Popped(3) IN
  /\ pc = "loop" /\ count # 0 /\ Left(3)
  /\ total_score' = (total_score + score * weight * B(IsValid(cred_ts))) % P
  /\ count' = (count - 1) % P
  /\ popped' = popped + 3
  /\ UNCHANGED <<pc, threshold, current_timestamp, advice>>

Leave ==
  /\ pc = "loop" /\ count = 0
  /\ pc' = "compare"
  /\ UNCHANGED <<threshold, count, current_timestamp, total_score, advice, popped>>

\* gte with the score on top of the threshold, and the assertion.
Assert ==
  /\ pc = "compare"
  /\ pc' = IF threshold >= total_score THEN "proved" ELSE "failed"
  /\ UNCHANGED <<threshold, count, current_timestamp, total_score, advice, popped>>

Next == RunDry \/ Enter \/ Iterate \/ Leave \/ Assert

Spec == Init /\ [][Next]_vars
------------------------------------------------------------------------------
\* The k-th credential on the advice stack, and how many have been popped.
Credential(k) == [score |-> advice[3 * k], weight |-> advice[3 * k + 1], timestamp |-> advice[3 * k + 2]]
Seen == 1 .. (popped - 2) \div 3

Weighted(valid(_)) ==
  MapThenSumSet(LAMBDA k : Credential(k).score * Credential(k).weight,
                {k \in Seen : valid(Credential(k).timestamp)}) % P

\* "asserts score >= threshold, halts on failure" (prove_threshold).
ThresholdIsProved == pc = "proved" => total_score >= threshold

\* "is_valid = (31536000 >= diff)  i.e.  diff <= 365 days", where
\* "diff = current_timestamp - cred_ts" (compute_reputation_score).
WindowIsOneYear ==
  popped >= 2 => total_score = Weighted(LAMBDA ts : (current_timestamp - ts) % P <= MAX_AGE)

\* "Advice provider inputs (popped in order): current_timestamp (1 felt),
\* count (1 felt)" (compute_reputation_score).
TimestampComesFirst == popped >= 2 => current_timestamp = advice[1]
==============================================================================
