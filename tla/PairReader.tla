------------------------------ MODULE PairReader ------------------------------
(***************************************************************************)
(* The readers of files whose edit units hold two packets: the left and    *)
(* the right picture of a stereoscopic file (MXFSReader), whose keys do    *)
(* not tell them apart, and a picture with its metadata (PHDR), which are  *)
(* told apart by their keys. The index leads to the first packet; the      *)
(* second one is where the file is once the first has been read, or is     *)
(* found by skipping the first. m_StereoFrameReady is the frame whose      *)
(* right picture the file is believed to be at.                            *)
(***************************************************************************)
EXTENDS Naturals, Sequences

CONSTANTS
  Units,      \* the edit units: [at, len], len the lengths of the two packets
  KL,         \* bytes of a key and a length
  StrayLens,  \* packet lengths that bytes which are no packet may seem to state
  MaxCalls    \* bound: calls

PairAssumption ==
  /\ Units \in Seq([at : Nat \ {0}, len : Seq(Nat)]) \ {<<>>}
  /\ KL \in Nat \ {0} /\ StrayLens \subseteq Nat /\ MaxCalls \in Nat
  /\ \A n \in DOMAIN Units : Len(Units[n].len) = 2 /\ Units[n].len[1] > KL + 1 /\ Units[n].len[2] > KL + 1
  /\ \A m, n \in DOMAIN Units :
       m < n => Units[m].at + Units[m].len[1] + Units[m].len[2] <= Units[n].at

VARIABLES
  kind,      \* "stereo" or "phdr"
  reader,    \* filePos, lastPosition (m_LastPosition), ready (m_StereoFrameReady)
  last,      \* history: the last call, what it returned and the packets it delivered
  troubles,  \* history: what has happened since the file was opened
  calls      \* history: calls made

vars == <<kind, reader, last, troubles, calls>>

NoFrame == 0
Nothing == <<0, 0>>

At(n) == Units[n].at
Places == (DOMAIN Units) \X {1, 2}
Place(p) == At(p[1]) + (IF p[2] = 2 THEN Units[p[1]].len[1] ELSE 0)

\* The packet that starts at a position, and the lengths a reader may take it to have
PacketAt(pos) ==
  IF \E p \in Places : Place(p) = pos THEN CHOOSE p \in Places : Place(p) = pos ELSE Nothing
Lengths(pos) ==
  LET p == PacketAt(pos) IN IF p = Nothing THEN StrayLens ELSE {Units[p[1]].len[p[2]]}

\* The key of a packet is the one that is asked for
KeyMatches(p, half) == kind = "stereo" \/ p[2] = half

-----------------------------------------------------------------------------
(* A step of a reader: the state it leaves, whether it succeeds, the packet  *)
(* it delivers, and what m_LastPosition does not account for afterwards      *)

Step(r, ok, packet, trouble) == [reader |-> r, ok |-> ok, packet |-> packet, troubles |-> trouble]
Begin == Step(reader, TRUE, Nothing, {})

\* The file is sought unless it is believed to be there; m_LastPosition is set first.
SeekFrame(at, f) ==
  IF at = reader.lastPosition THEN Begin
  ELSE IF f = "seek" THEN Step([reader EXCEPT !.lastPosition = at], FALSE, Nothing, {"seek"})
  ELSE Step([reader EXCEPT !.lastPosition = at, !.filePos = at], TRUE, Nothing, {})

\* Read_EKLV_Packet, where the file is. "header": the key and length cannot be
\* read, and the file stays or is in the midst of them; "refused", "short" and
\* "rejected": the value is not read, is cut short, or fails a test.
Read_EKLV_Packet(r, half, f, len) ==
  LET p         == PacketAt(r.filePos)
      Past(n)   == [r EXCEPT !.filePos = @ + n, !.lastPosition = @ + len]
  IN  IF f = "header" THEN Step(r, FALSE, Nothing, {"unread"})
      ELSE IF f = "half" THEN Step([r EXCEPT !.filePos = @ + 1], FALSE, Nothing, {IF p = Nothing THEN "stray" ELSE "partial"})
      ELSE IF p = Nothing THEN Step(Past(KL), FALSE, Nothing, {"stray"})
      ELSE IF f = "refused" \/ ~KeyMatches(p, half) THEN Step(Past(KL), FALSE, Nothing, {"partial"})
      ELSE IF f = "short" THEN Step(Past(KL + 1), FALSE, Nothing, {"partial"})
      ELSE IF f = "rejected" THEN Step(Past(len), FALSE, Nothing, {})
      ELSE Step(Past(len), TRUE, p, {})

\* A step, and when it has succeeded the next
Then(s, Next2(_)) ==
  IF ~s.ok THEN s ELSE LET t == Next2(s.reader) IN [t EXCEPT !.troubles = @ \cup s.troubles]

-----------------------------------------------------------------------------
(* Stereoscopic pictures *)

\* Mutant: the file is still believed to be at a right picture after reading it.
ReadyAfterRightKept(n) == n

ReadyAfterRight(n) == NoFrame

\* m_StereoFrameReady is set before the left picture is read, and though the seek failed.
ReadLeft(n, f, len) ==
  LET s == SeekFrame(At(n), f)
  IN  Then([s EXCEPT !.reader.ready = n], LAMBDA r : Read_EKLV_Packet(r, 1, f, len))

\* The left picture is skipped by its length, counted from where it should be; the
\* result of seeking it is overwritten. "skip": its key and length cannot be read;
\* "over": the second seek fails.
SkipLeft(n, f, skip) ==
  LET s == SeekFrame(At(n), f)
      r == s.reader
      Past(pos) == [r EXCEPT !.filePos = pos]
  IN  IF f = "skip" THEN Step(r, FALSE, Nothing, s.troubles \cup {"unread"})
      ELSE IF skip = 0 THEN Step(Past(r.filePos + KL), FALSE, Nothing, s.troubles \cup {"stray"})
      ELSE IF f = "over" THEN Step(Past(r.filePos + KL), FALSE, Nothing, s.troubles \cup {"seek"})
      ELSE Step(Past(At(n) + skip), TRUE, Nothing,
                s.troubles \cup IF PacketAt(r.filePos) = Nothing THEN {"stray"} ELSE {})

ReadRight(n, f, skip, len) ==
  LET s == IF reader.ready = n THEN Begin ELSE SkipLeft(n, f, skip)
  IN  Then([s EXCEPT !.reader.ready = ReadyAfterRight(n)], LAMBDA r : Read_EKLV_Packet(r, 2, f, len))

\* The lengths a step may meet: of the packet to skip, and of the packet to read
Skipped(n, f) == LET pos == SeekFrame(At(n), f).reader.filePos
                 IN  Lengths(pos) \cup IF PacketAt(pos) = Nothing THEN {0} ELSE {}
Met(s) == Lengths(s.reader.filePos)

-----------------------------------------------------------------------------
(* The calls *)

Returned(op, n, s, ok, packets) ==
  /\ calls < MaxCalls
  /\ calls' = calls + 1
  /\ last' = [op |-> op, frame |-> n, result |-> IF ok THEN "OK" ELSE "FAIL", packets |-> packets]
  /\ reader' = s.reader
  /\ troubles' = troubles \cup s.troubles
  /\ UNCHANGED kind

PacketFaults == {"none", "header", "half", "refused", "short", "rejected"}

LeftFrame(n) ==
  /\ kind = "stereo"
  /\ \E f \in PacketFaults \cup {"seek"} :
       \E len \in Met(SeekFrame(At(n), f)) :
         LET s == ReadLeft(n, f, len) IN Returned("Left", n, s, s.ok, <<s.packet>>)

RightFrame(n) ==
  /\ kind = "stereo"
  /\ \E f \in PacketFaults \cup {"seek", "skip", "over"} :
       \E skip \in Skipped(n, f) :
         \E len \in Met(IF reader.ready = n THEN Begin ELSE SkipLeft(n, f, skip)) :
           LET s == ReadRight(n, f, skip, len) IN Returned("Right", n, s, s.ok, <<s.packet>>)

\* Both pictures of a frame, when the left one can be read; when it cannot, the
\* call is LeftFrame.
BothFrames(n) ==
  /\ kind = "stereo"
  /\ \E len \in Met(SeekFrame(At(n), "none")) :
       LET s == ReadLeft(n, "none", len)
       IN  /\ s.ok
           /\ \E f \in PacketFaults, len2 \in Met(s) :
                LET t == Then([s EXCEPT !.reader.ready = ReadyAfterRight(n)],
                              LAMBDA r : Read_EKLV_Packet(r, 2, f, len2))
                IN  Returned("Both", n, t, t.ok, <<s.packet, t.packet>>)

\* A picture, then its metadata. When these cannot be read the call succeeds, and
\* the frame buffer keeps what an earlier frame has left in it.
PictureWithMetadata(n) ==
  /\ kind = "phdr"
  /\ \E f \in PacketFaults \cup {"seek"} :
       \E len \in Met(SeekFrame(At(n), f)) :
         LET s == Then(SeekFrame(At(n), f), LAMBDA r : Read_EKLV_Packet(r, 1, f, len))
         IN  IF ~s.ok THEN Returned("Picture", n, s, FALSE, <<s.packet>>)
             ELSE \E g \in PacketFaults, len2 \in Met(s) :
                    LET t == Then(s, LAMBDA r : Read_EKLV_Packet(r, 2, g, len2))
                    IN  Returned("Picture", n, t, TRUE, <<s.packet, t.packet>>)

\* Closing the file and opening one again: m_LastPosition is forgotten, but
\* m_StereoFrameReady is not.
Reopen ==
  Returned("Reopen", NoFrame,
           Step([reader EXCEPT !.filePos = At(1), !.lastPosition = 0], TRUE, Nothing,
                IF reader.ready = NoFrame THEN {} ELSE {"stale"}), TRUE, <<>>)

Init ==
  /\ kind \in {"stereo", "phdr"}
  /\ reader = [filePos |-> At(1), lastPosition |-> 0, ready |-> NoFrame]
  /\ last = [op |-> "Reopen", frame |-> NoFrame, result |-> "OK", packets |-> <<>>]
  /\ troubles = {}
  /\ calls = 0

Next ==
  \/ \E n \in DOMAIN Units : LeftFrame(n) \/ RightFrame(n) \/ BothFrames(n) \/ PictureWithMetadata(n)
  \/ Reopen
  \/ calls = MaxCalls /\ UNCHANGED vars

Spec == Init /\ [][Next]_vars

-----------------------------------------------------------------------------

\* The values the reader's variables can take
PairTypeOK ==
  /\ reader \in [filePos : Nat, lastPosition : Nat, ready : {NoFrame} \cup DOMAIN Units]
  /\ last.result \in {"OK", "FAIL"}
  /\ last.packets \in Seq(Places \cup {Nothing})
  /\ calls \in 0 .. MaxCalls

\* What a call is to deliver
Deliverable(op, n) ==
  CASE op = "Left" -> {<<<<n, 1>>>>} [] op = "Right" -> {<<<<n, 2>>>>}
    [] op = "Both" -> {<<<<n, 1>>, <<n, 2>>>>}
    [] op = "Picture" -> {<<<<n, 1>>, <<n, 2>>>>, <<<<n, 1>>, Nothing>>}
    [] OTHER -> {<<>>}

\* The keys of the two eyes are alike, so nothing but the file position tells them
\* apart. In whatever order pictures are asked for, and after pictures that were
\* refused, cut short or rejected, a call that succeeds delivers the eye of the
\* frame it was asked for, and a PHDR picture is never given another's metadata.
\* (Not so once a seek has failed, nothing could be read, or the reader has
\* been given another file after a left picture, which m_StereoFrameReady and
\* m_LastPosition do not account for.)
PairsMatch ==
  (troubles \cap {"unread", "seek", "stray", "stale"} = {} /\ last.result = "OK") =>
    last.packets \in Deliverable(last.op, last.frame)

=============================================================================
