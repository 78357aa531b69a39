----------------------------- MODULE MC_Unwrap -----------------------------
(* The extracting programs on track files of up to two frames.              *)
EXTENDS UnwrapTools

=============================================================================
