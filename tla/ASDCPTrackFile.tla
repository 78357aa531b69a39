--------------------------- MODULE ASDCPTrackFile ---------------------------
(***************************************************************************)
(* The AS-DCP writer and reader together: what a reader finds in a file    *)
(* after a Finalize that succeeded or failed, and the refinement of the    *)
(* abstract TrackFile.                                                     *)
(***************************************************************************)
EXTENDS ASDCPWriter

Reader == INSTANCE ASDCPReader

-----------------------------------------------------------------------------
(* Conditions of the properties *)

\* Finalize has just returned RESULT_OK
Finalized == last.op = "Finalize" /\ last.result = "OK"

\* What a frame promises to its reader: the place and the sequence number of
\* each of its packets
Written ==
  [n \in 1 .. Frames |->
     [eye \in 1 .. kind.eyes |->
        LET p == mxf.packets[kind.eyes * (n - 1) + eye] IN [at |-> p.at, hmac |-> p.hmac]]]

\* The PCM writer does not compare the length of a frame with the edit unit that
\* it has put into the index: all frames but the last must have it.
Regular == kind.vbr \/ \A i \in 1 .. Len(mxf.packets) - 1 : mxf.packets[i].len = UnitLen

\* Faults that change nothing for later frames. A packet that is refused does in a
\* class that counts it, and in timed text, whose document cannot be tried again.
Forgiven == {"header", "body"} \cup (IF kind.counts \/ kind.text THEN {} ELSE {"context"})
Harms == {i \in DOMAIN faults : faults[i].fault \notin Forgiven}
Spoilt == \/ Harms # {}
          \/ ~Regular
          \/ state = "ABORTED" /\ mxf.disk = <<>>

-----------------------------------------------------------------------------
(* Properties *)

Phase == IF Spoilt THEN "spoilt"
         ELSE IF mxf.disk # <<>> THEN "closed"
         ELSE IF state \in {"BEGIN", "UNOPENED"} THEN "new" ELSE "open"
Accepted == IF Spoilt THEN <<>> ELSE Written
Readable == IF Spoilt \/ mxf.disk = <<>> THEN <<>> ELSE Reader!Readable(mxf, kind)

Abstract == INSTANCE TrackFile WITH
  Places <- Seq([at : Nat, hmac : Nat]),
  phase <- Phase, accepted <- Accepted, readable <- Readable

\* Every behaviour of the writer, seen through the reader, is one of the abstract
\* track file: Finalize makes readable what was accepted, eye by eye, and the reader
\* checks each packet with the sequence number it was hashed with.
ReadsBack == Abstract!Spec

\* Finalize writes the index, then the RIP, then the header that names the footer.
\* Whatever fails there, or ends the program between two writes, a reader gets every
\* frame or not one. Two cases are no part of it: a RIP lost in a write that nobody
\* notices ("ripTorn"), after which frames are sought behind the header; and a PCM
\* file with the new header pack and the first metadata, where the reader counts as
\* many frames as the descriptor had when the file was opened, each at its place.
Interruptions == (FinalizeFaults \ {"ripTorn"}) \cup {"assert"}
Uncounted == ~kind.vbr /\ \E i \in DOMAIN faults : faults[i].fault = "rewriteHalf"
AllOrNothing ==
  (Regular /\ \A i \in DOMAIN faults : faults[i].fault \in Forgiven \cup Interruptions) =>
    LET got == Reader!Readable(mxf, kind)
    IN  \/ got = Written
        \/ \A n \in DOMAIN got : \A eye \in 1 .. kind.eyes : got[n][eye].at = Reader!NoPlace
        \/ Uncounted /\ \A n \in DOMAIN got \cap DOMAIN Written : got[n] = Written[n]

\* After a Finalize that met no fault, the frames that were complete before the
\* first one are read back, each at its place and with its sequence number.
SoundFrames ==
  IF Harms = {} THEN Frames ELSE faults[CHOOSE i \in Harms : \A j \in Harms : i <= j].frames
EarlierFramesSurvive ==
  (Finalized /\ last.fault = "none" /\ Regular) =>
    \A n \in 1 .. SoundFrames : Reader!Readable(mxf, kind)[n] = Written[n]

\* Every ancillary resource of a finalized file is found by its stream ID at its own
\* place, within a span that holds pack and packet, and checked with the sequence
\* number it was hashed with: the writer counts packets, the reader partitions.
ResourcesFound ==
  (Finalized /\ faults = <<>>) =>
    \A p \in {q \in mxf.parts : q.type = "stream"} :
      LET s == Reader!LocateStream(mxf, p.sid)
      IN  /\ s.start = p.at /\ s.end >= p.at + PackLen + StreamLen
          /\ s.sequence = p.hmac

\* The frame that starts the group of pictures of packet n
GOPStarts(n) == {i \in 1 .. n : mxf.packets[i].start}
GOPStart(n) == CHOOSE i \in GOPStarts(n) : \A j \in GOPStarts(n) : j <= i

\* KeyFrameOffset leads from each frame to the start of its group of pictures, as
\* far as 8 bits reach, also when frames were refused in between.
KeyOffsetsLead ==
  (Finalized /\ last.fault = "none" /\ kind.gop) =>
    \A n \in 1 .. Reader!Duration(mxf, kind) :
      (GOPStarts(n) # {} /\ 2 * (n - GOPStart(n)) <= KeyModulus) =>
        n + Reader!EntryOf(mxf, n - 1).key = GOPStart(n)

-----------------------------------------------------------------------------
(* What comments in the code say, and the code does not do *)

\* AS_DCP.h: FindFrameGOPStart "Calculates the first frame in transport order of the
\* GOP in which the requested frame is located. Sets key_frame_number to the number
\* of the frame at the calculated position."
GOPStartFound ==
  (Finalized /\ kind.gop /\ faults = <<>>) =>
    \A n \in 1 .. Reader!Duration(mxf, kind) :
      (GOPStarts(n) # {} /\ 2 * (n - GOPStart(n)) <= KeyModulus) =>
        Reader!FindFrameGOPStart(mxf, n - 1) = GOPStart(n) - 1

=============================================================================
