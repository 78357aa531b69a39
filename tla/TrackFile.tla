----------------------------- MODULE TrackFile ------------------------------
(***************************************************************************)
(* What an AS-02 track file promises, whatever its layout: frames are      *)
(* accepted in order while the file is open, closing the file makes        *)
(* exactly those frames readable, each under its own number, and a closed  *)
(* file never changes.  An error of the storage may spoil a file that is   *)
(* not closed yet; nothing is promised of a spoilt file.                   *)
(***************************************************************************)
EXTENDS Naturals, Sequences

CONSTANT Places  \* where a frame can be stored

VARIABLES
  phase,     \* "new", "open", "closed" or "spoilt"
  accepted,  \* the places of the frames accepted so far
  readable   \* the places a reader gets, frame by frame

vars == <<phase, accepted, readable>>

Init == phase = "new" /\ accepted = <<>> /\ readable = <<>>

Create == phase = "new" /\ phase' = "open" /\ UNCHANGED <<accepted, readable>>

\* One frame more, and the earlier ones stay where they are
Accept ==
  /\ phase = "open"
  /\ Len(accepted') = Len(accepted) + 1
  /\ \A i \in DOMAIN accepted : accepted'[i] = accepted[i]
  /\ accepted'[Len(accepted')] \in Places
  /\ UNCHANGED <<phase, readable>>

Close ==
  /\ phase = "open"
  /\ phase' = "closed"
  /\ readable' = accepted
  /\ UNCHANGED accepted

Spoil ==
  /\ phase \in {"new", "open"}
  /\ phase' = "spoilt"
  /\ accepted' = <<>> /\ readable' = <<>>

Next == Create \/ Accept \/ Close \/ Spoil

Spec == Init /\ [][Next]_vars

=============================================================================
