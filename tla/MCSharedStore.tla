---------------------------- MODULE MCSharedStore ----------------------------
(* Browsers stand for the institution ids of their wallets, which keeps them *)
(* interchangeable.                                                          *)
EXTENDS SharedStore, TLC

OwnId == [b \in Browser |-> b]
Symmetry == Permutations(Browser)
==============================================================================
