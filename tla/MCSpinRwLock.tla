---------------------------- MODULE MCSpinRwLock ----------------------------
(* Instances of the spinlock: two readers with one writer, and one reader  *)
(* with two writers.  UsizeMax is scaled down; it stays odd and above the  *)
(* largest count.                                                          *)
EXTENDS SpinRwLock

CONSTANTS r1, r2, w1, w2

OneWriter == {w1}
TwoReaders == {r1, r2}
OneReader == {r1}
TwoWriters == {w1, w2}
=============================================================================
