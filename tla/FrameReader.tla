----------------------------- MODULE FrameReader ----------------------------
(***************************************************************************)
(* How a track-file reader positions the file (TrackFileReader and the     *)
(* reader classes built on it).  m_LastPosition says where the reader      *)
(* believes the file position to be; ReadEKLVFrame seeks only when the     *)
(* frame it wants lies elsewhere.  The other calls that move the file      *)
(* position treat m_LastPosition each in their own way.                    *)
(*                                                                         *)
(* The file does not change.  It is given by the constants Frames, which   *)
(* the index leads to, and Streams, its generic-stream partitions.         *)
(***************************************************************************)
EXTENDS Naturals, Sequences

CONSTANTS
  Classes,     \* the reader classes: a subset of AllClasses
  Frames,      \* the KLV packet of each frame: [at, len]
  Streams,     \* the generic-stream partitions: [at, len], len of the payload
  KL,          \* bytes of a key and a length
  PackLen,     \* bytes of a partition pack
  IndexEnd,    \* where OpenMXFRead of an AS-02 reader leaves the file
  StrayLens,   \* packet lengths that bytes which are no packet may seem to state
  MaxCalls     \* bound: calls

(***************************************************************************)
(* stream: how a class reads a generic-stream partition.  measure: its     *)
(* CalcFrameBufferSize.                                                    *)
(***************************************************************************)
ISXD     == [name |-> "ISXD",     stream |-> "generic",   measure |-> "none"]
ACES     == [name |-> "ACES",     stream |-> "ancillary", measure |-> "none"]
JXS      == [name |-> "JXS",      stream |-> "none",      measure |-> "first"]
ASDCPJXS == [name |-> "ASDCPJXS", stream |-> "none",      measure |-> "next"]

AllClasses == {ISXD, ACES, JXS, ASDCPJXS}

ASSUME ClassesAssumption == Classes \subseteq AllClasses

\* Frames and partitions are longer than what identifies them, and lie apart
ASSUME SizeAssumption ==
  /\ KL \in Nat \ {0} /\ PackLen \in Nat \ {0} /\ IndexEnd \in Nat /\ MaxCalls \in Nat
  /\ StrayLens \subseteq Nat
  /\ Frames \in Seq([at : Nat \ {0}, len : Nat]) \ {<<>>}
  /\ Streams \in Seq([at : Nat \ {0}, len : Nat])
  /\ \A n \in DOMAIN Frames : Frames[n].len > KL
  /\ \A s \in DOMAIN Streams : Streams[s].len > KL

StreamEnd(s) == Streams[s].at + PackLen + Streams[s].len
FrameEnd(n) == Frames[n].at + Frames[n].len

ASSUME LayoutAssumption ==
  /\ \A m, n \in DOMAIN Frames : m < n => FrameEnd(m) <= Frames[n].at
  /\ \A s, t \in DOMAIN Streams : s < t => StreamEnd(s) <= Streams[t].at
  /\ \A n \in DOMAIN Frames, s \in DOMAIN Streams :
       FrameEnd(n) <= Streams[s].at \/ StreamEnd(s) < Frames[n].at

VARIABLES
  class,         \* the reader class
  open,          \* m_File->IsOpen()
  filePos,       \* the file position
  lastPosition,  \* m_LastPosition
  last,          \* history: the last call, its argument, the fault it met, what it
                 \*   returned and the frame whose packet it found
  troubles,      \* history: what has happened since the file was opened that
                 \*   m_LastPosition may not account for
  calls          \* history: calls made

vars == <<class, open, filePos, lastPosition, last, troubles, calls>>

-----------------------------------------------------------------------------

\* The frame whose packet starts at a position; 0 when none does
Found(pos) ==
  IF \E n \in DOMAIN Frames : Frames[n].at = pos
  THEN CHOOSE n \in DOMAIN Frames : Frames[n].at = pos ELSE 0

\* Mutant: only a frame that lies ahead is sought.
ArrivesForward(at) == IF at > lastPosition THEN at ELSE filePos

\* Where a call that wants the file at at, and seeks unless m_LastPosition is
\* that already, comes to read
Arrives(at) == IF at # lastPosition THEN at ELSE filePos

\* Mutant: m_LastPosition is not set when the file is sought.
BelievesOld(at) == lastPosition

\* m_LastPosition once the file has been positioned: equal to at before or set now
Believes(at) == IF at # lastPosition THEN at ELSE lastPosition

Call(op, n, f, r, found) ==
  /\ calls < MaxCalls
  /\ calls' = calls + 1
  /\ last' = [op |-> op, frame |-> n, fault |-> f, result |-> r, found |-> found]

Move(pos, believed, trouble) ==
  /\ open
  /\ filePos' = pos
  /\ lastPosition' = believed
  /\ troubles' = troubles \cup trouble
  /\ UNCHANGED <<class, open>>

-----------------------------------------------------------------------------
(* Opening and closing *)

\* An AS-DCP reader returns to the first frame; an AS-02 reader stays where its
\* last index partition ends. OpenMXFRead resets m_LastPosition in both.
OpenRead ==
  /\ ~open
  /\ Call("OpenRead", 0, "none", "OK", 0)
  /\ open' = TRUE
  /\ filePos' = IF class.measure = "next" THEN Frames[1].at ELSE IndexEnd
  /\ lastPosition' = 0
  /\ troubles' = {}
  /\ UNCHANGED class

Close ==
  /\ open
  /\ Call("Close", 0, "none", "OK", 0)
  /\ open' = FALSE
  /\ UNCHANGED <<class, filePos, lastPosition, troubles>>

\* Mutant: the wrong error code for a file that is not open.
RefusedCallState ==
  /\ ~open
  /\ Call("ReadFrame", 0, "none", "STATE", 0)
  /\ UNCHANGED <<class, open, filePos, lastPosition, troubles>>

\* The facade's test for an open file, and the index lookup of a frame number
\* that is out of range
RefusedCall ==
  /\ \/ ~open /\ Call("ReadFrame", 0, "none", "INIT", 0)
     \/ open /\ Call("ReadFrame", 0, "none", "RANGE", 0)
  /\ UNCHANGED <<class, open, filePos, lastPosition, troubles>>

-----------------------------------------------------------------------------
(* ReadEKLVFrame and Read_EKLV_Packet *)

\* The packet of a frame is read, whichever frame it is. "refused": the buffer
\* is too small, or there is no cryptographic context; the value is not read.
\* "short": reading the value fails. "rejected": it is read and then does not
\* pass a test of its contents. m_LastPosition is past the packet in each case.
ReadPacket(n, f, read) ==
  LET at   == Frames[n].at
      m    == Found(Arrives(at))
      len  == Frames[m].len
      seen == CASE f = "refused" -> KL [] f = "short" -> KL + read [] OTHER -> len
  IN  /\ m # 0
      /\ f \in {"none", "refused", "short", "rejected"}
      /\ f = "short" \/ read = 0
      /\ KL + read < len
      /\ Call("ReadFrame", n, f, IF f = "none" THEN "OK" ELSE "FAIL", m)
      /\ Move(Arrives(at) + seen, Believes(at) + len,
              IF f \in {"refused", "short"} THEN {"partial"} ELSE {})

\* What is read is no packet: no key, or no length either
ReadStray(n) ==
  LET at == Frames[n].at
  IN  /\ Found(Arrives(at)) = 0
      /\ Call("ReadFrame", n, "none", "FAIL", 0)
      /\ \E len \in StrayLens \cup {0} :
           Move(Arrives(at) + KL, Believes(at) + len, {"stray"})

\* The key and length cannot be read
ReadHeaderFails(n, read) ==
  LET at == Frames[n].at
  IN  /\ read < KL
      /\ Call("ReadFrame", n, "header", "FAIL", 0)
      /\ Move(Arrives(at) + read, Believes(at),
              {IF Found(Arrives(at)) = 0 THEN "stray" ELSE "partial"})

\* m_LastPosition is set before the seek that fails
ReadSeekFails(n) ==
  /\ Frames[n].at # lastPosition
  /\ Call("ReadFrame", n, "seek", "FAIL", 0)
  /\ Move(filePos, Frames[n].at, {"seek"})

-----------------------------------------------------------------------------
(* The other calls that move the file position *)

\* ReadGenericStreamPartitionPayload always seeks, and never sets m_LastPosition,
\* which Read_EKLV_Packet then moves by the length of the payload.
ReadGenericStream(s, f, read) ==
  LET payload == Streams[s].at + PackLen
  IN  /\ class.stream = "generic"
      /\ f \in {"none", "seek", "pack", "header", "refused"}
      /\ f = "pack" => read <= PackLen
      /\ f = "header" => read < KL
      /\ f \in {"pack", "header"} \/ read = 0
      /\ Call("ReadStream", s, f, IF f = "none" THEN "OK" ELSE "FAIL", 0)
      /\ CASE f = "seek"    -> Move(filePos, lastPosition, {})
           [] f = "pack"    -> Move(Streams[s].at + read, lastPosition, {"stream"})
           [] f = "header"  -> Move(payload + read, lastPosition, {"stream"})
           [] f = "refused" -> Move(payload + KL, lastPosition + Streams[s].len, {"stream"})
           [] OTHER         -> Move(StreamEnd(s), lastPosition + Streams[s].len, {"stream"})

\* ACES ReadAncillaryResource positions the file as ReadEKLVFrame does, but the
\* partition pack is missing from m_LastPosition. The result of a seek that fails
\* is overwritten by that of reading a pack where there is none.
ReadAncillaryResource(s, f, read) ==
  LET at == Streams[s].at
  IN  /\ class.stream = "ancillary"
      /\ f \in {"none", "seek", "pack", "refused"}
      /\ read = 0 \/ (f = "pack" /\ read <= PackLen)
      /\ f = "seek" => at # lastPosition
      /\ IF f = "seek" \/ Arrives(at) # at
         THEN /\ Call("ReadStream", s, f, "FAIL", 0)
              /\ Move((IF f = "seek" THEN filePos ELSE Arrives(at)) + KL, Believes(at),
                      IF f = "seek" THEN {"seek"} ELSE {"stray"})
         ELSE /\ Call("ReadStream", s, f, IF f = "none" THEN "OK" ELSE "FAIL", 0)
              /\ CASE f = "pack"    -> Move(at + read, at, {"partial"})
                   [] f = "refused" -> Move(at + PackLen + KL, at + Streams[s].len, {"partial"})
                   [] OTHER         -> Move(StreamEnd(s), at + Streams[s].len, {})

\* AS-02 JXS CalcFrameBufferSize reads the length of the first frame and returns
\* to m_LastPosition. "back": that second seek fails, which nobody sees.
MeasureFirst(f) ==
  LET at  == Frames[1].at
      m   == Found(Arrives(at))
      bad == f \in {"seek", "header"} \/ m = 0
  IN  /\ class.measure = "first"
      /\ f \in {"none", "seek", "header", "back"}
      /\ f = "seek" => at # lastPosition
      /\ Call("Measure", 1, f, IF bad THEN "FAIL" ELSE "OK", IF bad THEN 0 ELSE m)
      /\ IF f = "back"
         THEN Move(Arrives(at) + KL, lastPosition, {"seek"})
         ELSE Move(lastPosition, lastPosition, {})

\* AS-DCP JXS CalcFrameBufferSize reads a key and length wherever the file is
MeasureNext ==
  LET m == Found(filePos)
  IN  /\ class.measure = "next"
      /\ Call("Measure", 0, "none", IF m = 0 THEN "FAIL" ELSE "OK", m)
      /\ Move(filePos + KL, lastPosition, {"measure"} \cup IF m = 0 THEN {"stray"} ELSE {})

-----------------------------------------------------------------------------

Init ==
  /\ class \in Classes
  /\ open = FALSE
  /\ filePos = 0
  /\ lastPosition = 0
  /\ last = [op |-> "None", frame |-> 0, fault |-> "none", result |-> "OK", found |-> 0]
  /\ troubles = {}
  /\ calls = 0

Faults == {"none", "refused", "short", "rejected", "header", "seek", "pack", "back"}

Read ==
  \E n \in DOMAIN Frames :
    \/ \E f \in Faults : \E read \in 0 .. Frames[n].len : ReadPacket(n, f, read)
    \/ ReadStray(n)
    \/ \E read \in 0 .. KL : ReadHeaderFails(n, read)
    \/ ReadSeekFails(n)

ReadStream ==
  \E s \in DOMAIN Streams, f \in Faults, read \in 0 .. KL + PackLen :
    ReadGenericStream(s, f, read) \/ ReadAncillaryResource(s, f, read)

Next ==
  \/ OpenRead
  \/ Close
  \/ RefusedCall
  \/ Read
  \/ ReadStream
  \/ \E f \in Faults : MeasureFirst(f)
  \/ MeasureNext

Spec == Init /\ [][Next]_vars

-----------------------------------------------------------------------------

\* The values the reader's variables can take
TypeOK ==
  /\ class \in AllClasses
  /\ open \in BOOLEAN
  /\ filePos \in Nat
  /\ lastPosition \in Nat
  /\ last \in [op : {"None", "OpenRead", "Close", "ReadFrame", "ReadStream", "Measure"},
               frame : Nat, fault : Faults, result : {"OK", "FAIL", "INIT", "RANGE"},
               found : {0} \cup DOMAIN Frames]
  /\ troubles \subseteq {"partial", "stray", "seek", "stream", "measure"}
  /\ calls \in 0 .. MaxCalls

\* A frame of the file was asked for, and nothing stood in the way
Wanted == last.op = "ReadFrame" /\ last.frame # 0 /\ last.fault = "none"

\* Until a read ends early, a seek fails, or a call moves the file without
\* m_LastPosition, ReadFrame delivers the frame it is asked for, and
\* CalcFrameBufferSize of AS-02 JXS measures the first one: in any order, after
\* frames that were rejected and after ancillary resources.
FrameFound ==
  troubles = {} =>
    /\ Wanted => last.result = "OK" /\ last.found = last.frame
    /\ (last.op = "Measure" /\ last.fault \in {"none", "back"}) => last.found = last.frame

\* When m_LastPosition is wrong the call that suffers from it returns an error.
\* As long as no seek has failed, and before the file has been read from where no
\* packet starts, no ReadFrame returns RESULT_OK with another frame's packet.
NeverWrongFrame ==
  (troubles \cap {"seek", "stray"} = {} /\ last.op = "ReadFrame" /\ last.result = "OK") =>
    last.found = last.frame

-----------------------------------------------------------------------------
(* What a comment in the code says, and the code does not do *)

\* AS_DCP_JXS.h: ReadFrame returns "failure if the frame number is out of range,
\* or if optional decrypt or HAMC operations fail". No read ended early here, and
\* no seek failed.
InRangeFrameIsRead ==
  (troubles \cap {"partial", "seek"} = {} /\ Wanted) => last.result = "OK"

=============================================================================
