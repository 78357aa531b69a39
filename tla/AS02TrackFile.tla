--------------------------- MODULE AS02TrackFile ----------------------------
(***************************************************************************)
(* The AS-02 writer and reader together: what holds of the file while it   *)
(* is written, what a reader finds in a finalized file, and the refinement *)
(* of the abstract TrackFile.                                              *)
(***************************************************************************)
EXTENDS AS02Writer

Reader == INSTANCE AS02Reader

-----------------------------------------------------------------------------
(* Conditions of the properties *)

\* Faults that leave no byte behind that the writer has not accounted for: an
\* OpenWrite that fails and starts again, a packet that is refused.
Harmless == {"header", "firstBody", "context", "metadata"}
Unharmed == \A i \in DOMAIN faults : faults[i].fault \in Harmless

Streams == {p \in mxf.parts : p.type = "stream"}

\* A frame written after a generic-stream partition, outside any body partition
LateFrames == \E p \in Streams : \E i \in DOMAIN mxf.essence : mxf.essence[i] > p.at

Closed == mxf.disk # <<>>

\* Finalize has just returned RESULT_OK
Finalized == last.op = "Finalize" /\ last.result = "OK"

-----------------------------------------------------------------------------
(* Properties of a finalized file *)

\* After the relinking of WriteAS02Footer, PreviousPartition leads from the footer
\* through every partition of the file down to the header, in the order of the RIP
\* and of their places, none left out and none met twice, and each body, index and
\* generic-stream partition names the footer.
PartitionChain ==
  (Finalized /\ Clean) =>
    LET n      == Len(mxf.disk)
        At(i)  == mxf.disk[i].at
    IN  /\ {At(i) : i \in 1 .. n} = {p.at : p \in mxf.parts}
        /\ At(1) = 0
        /\ \A i \in 2 .. n : At(i - 1) < At(i) /\ PackAt(mxf, At(i)).prev = At(i - 1)
        /\ \A p \in mxf.parts : p.type # "header" => p.footer = At(n)

\* A Finalize that met no fault and returned RESULT_OK has read every pack back:
\* whatever earlier calls met, a reader finds a partition pack at every offset of
\* the RIP, and the duration on disk is the writer's frame count.
FinalizedResolves ==
  (Finalized /\ last.fault = "none") =>
    /\ Reader!Openable(mxf)
    /\ mxf.duration = framesWritten

\* A frame that an earlier generic-stream partition makes unreadable. An ancillary
\* resource displaces the frames that follow it in their body partition, which
\* BodyOffset puts right; a text has flushed the index too, and may leave more
\* index than body partitions, so that any later frame is paired with a wrong one.
Displaced(k) ==
  \E p \in Streams :
    /\ p.at < mxf.essence[k]
    /\ kind.ancillary =>
         ~ \E b \in mxf.parts : b.type = "body" /\ p.at < b.at /\ b.at < mxf.essence[k]

\* The same re-reading catches every lost pack before it can make a frame
\* unreadable: after such a Finalize, the frames accepted before the first fault
\* are still read back, each under its own number, but for those that a
\* generic-stream partition has displaced. It cannot catch a failed write that
\* left no byte: the next pack then answers for the lost one.
SoundFrames == IF Clean THEN Len(mxf.essence) ELSE faults[1].frames
EarlierFramesSurvive ==
  (Finalized /\ last.fault = "none" /\ PackLost > 0) =>
    \A k \in 1 .. SoundFrames : Displaced(k) \/ Reader!Lookup(mxf, k - 1) = mxf.essence[k]

\* Every generic-stream partition of a finalized file is found by its SID, at its
\* own place, and the span the reader allots to it holds the pack and the payload.
StreamsFound ==
  (Finalized /\ Clean) =>
    \A p \in Streams :
      LET s == Reader!LocateStream(mxf, p.sid)
      IN  s.start = p.at /\ s.end >= p.at + PackLen + StreamLen

\* The frame-by-frame content a reader gets, and the refinement: writing refuses
\* or accepts frames, Finalize closes the file, any fault that is not harmless and
\* any frame behind a generic-stream partition spoils it.
Spoilt == ~Unharmed \/ LateFrames \/ (state = "ABORTED" /\ ~Closed)

\* Where a reader finds each frame of the file. The table is a bound variable for
\* TLC's sake, which then builds it once.
FramesRead ==
  CHOOSE frames \in {[i \in 1 .. Reader!Duration(table) |-> Reader!LookupIn(table, i - 1)] :
                       table \in {Reader!Table(mxf)}} : TRUE

Phase == IF Spoilt THEN "spoilt"
         ELSE IF Closed THEN "closed"
         ELSE IF state = "BEGIN" THEN "new" ELSE "open"
Accepted == IF Spoilt THEN <<>> ELSE mxf.essence
Readable == IF Spoilt \/ ~Closed THEN <<>>
            ELSE IF ~Reader!Openable(mxf) THEN <<0>>
            ELSE FramesRead

Abstract == INSTANCE TrackFile WITH
  Places <- Nat, phase <- Phase, accepted <- Accepted, readable <- Readable

\* Every behaviour of the writer, seen through the reader, is one of the
\* abstract track file: what Finalize makes readable is what was accepted.
ReadsBack == Abstract!Spec

-----------------------------------------------------------------------------
(* What comments in the code say, and the code does not do *)

\* AS_02.h: WriteFrame "Fails if the file is not open, is finalized, or an
\* operating system error occurs."
WriteFrameReportsErrors ==
  (last.op = "WriteFrame" /\ last.fault \in {"flush", "index", "body"}) => last.result # "OK"

\* The same sentence, for a finalized file: the call fails, it does not stop the
\* program.
FinalizedRefusesFrames ==
  (Closed /\ last.op = "WriteFrame") => last.result \notin {"OK", "ABORT"}

\* AS_DCP_internal.h: the sequence number that ReadGenericStreamPartitionPayload
\* counts "is the sequence value needed to complete the HMAC".
StreamSequence ==
  (Finalized /\ Clean) =>
    \A p \in Streams : Reader!LocateStream(mxf, p.sid).sequence = p.hmac

=============================================================================
