-------------------------- MODULE MCInputNoteRecord --------------------------
(* Three proofs and three note roots: one proof verifies under one root,    *)
(* one under two, one under none.                                           *)
EXTENDS InputNoteRecord

CONSTANTS p1, p2, p3, r1, r2, r3

MCProof == {p1, p2, p3}
MCRoot == {r1, r2, r3}
MCVerifies == {<<p1, r1>>, <<p2, r2>>, <<p2, r3>>}
==============================================================================
