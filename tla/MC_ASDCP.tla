------------------------------ MODULE MC_ASDCP ------------------------------
(* Small instances of ASDCPTrackFile for TLC. *)
EXTENDS ASDCPTrackFile

MC_AllKinds == {JP2K, Stereo, MPEG2, PCM, DCData, TimedText}
MC_Pictures == {MPEG2}
=============================================================================
