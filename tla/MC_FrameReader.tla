--------------------------- MODULE MC_FrameReader ---------------------------
(* Small instances of FrameReader for TLC: adjacent frames of the same     *)
(* length, a generic-stream partition whose payload is as long as a frame, *)
(* and a frame behind it.                                                  *)
EXTENDS FrameReader

MC_AllClasses == AllClasses
MC_Measured == {ASDCPJXS}
MC_Frames == <<[at |-> 5, len |-> 4], [at |-> 9, len |-> 4],
               [at |-> 13, len |-> 4], [at |-> 26, len |-> 5]>>
MC_Streams == <<[at |-> 17, len |-> 4]>>
=============================================================================
