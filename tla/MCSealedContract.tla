--------------------------- MODULE MCSealedContract ---------------------------
(* A field of eleven elements in which a year is three; advice for up to two *)
(* credentials. Products and sums wrap.                                      *)
EXTENDS SealedContract
==============================================================================
