----------------------------- MODULE MCSyndexSdk -----------------------------
(* Words of two limbs, gradients of two one-bit limbs, a count that saturates at two. *)
EXTENDS SyndexSdk
==============================================================================
