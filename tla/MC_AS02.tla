------------------------------ MODULE MC_AS02 -------------------------------
(* Small instances of AS02TrackFile for TLC. *)
EXTENDS AS02TrackFile

\* ACES stands for JP2K and JXS too, whose behaviours are those of an ACES
\* writer that is given no ancillary resource.
MC_AllKinds == {ACES, ISXD, PHDR}
MC_Plain == {JP2K}
MC_Streams == {ISXD}
=============================================================================
