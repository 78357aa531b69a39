---------------------------- MODULE ASDCPWriter -----------------------------
(***************************************************************************)
(* The AS-DCP track-file writer (h__ASDCPWriter and the essence classes    *)
(* built on it): header, at most one body partition, generic-stream        *)
(* partitions for the resources of timed text, and a footer that holds the *)
(* whole index.                                                            *)
(*                                                                         *)
(* One file is followed from OpenWrite to Finalize.  Every call may meet   *)
(* one fault, named by its parameter f: a write that fails, or an argument *)
(* that Write_EKLV_Packet refuses ("context").                             *)
(***************************************************************************)
EXTENDS MXFFile, Integers

CONSTANTS
  Kinds,         \* the essence kinds to write: a subset of AllKinds
  HeaderLen,     \* bytes of the header partition, fill included
  FrameLens,     \* the possible KLV lengths of a packet
  UnitLen,       \* BytesPerEditUnit of a PCM file
  StreamLen,     \* KLV length of an ancillary resource
  DescriptorDuration,  \* ContainerDuration of the descriptor that OpenWrite is given
  KeyModulus,    \* 2^8: the number of values of KeyFrameOffset, an i8_t
  MaxCalls,      \* bound: packets of essence
  MaxStreams,    \* bound: WriteAncillaryResource calls
  MaxFaults      \* bound: calls that meet a fault

(***************************************************************************)
(* What distinguishes the essence classes.  eyes: packets in a frame.      *)
(* vbr: frames are indexed one by one.  counts: m_FramesWritten grows      *)
(* whatever WriteEKLVPacket returned.  gop: entries carry the distance to  *)
(* the start of the group of pictures.  text: one document, and resources. *)
(***************************************************************************)
JP2K      == [name |-> "JP2K", eyes |-> 1, vbr |-> TRUE, counts |-> TRUE, gop |-> FALSE, text |-> FALSE]
JXS       == [JP2K EXCEPT !.name = "JXS"]
Stereo    == [JP2K EXCEPT !.name = "Stereo", !.eyes = 2]
MPEG2     == [JP2K EXCEPT !.name = "MPEG2", !.counts = FALSE, !.gop = TRUE]
PCM       == [JP2K EXCEPT !.name = "PCM", !.counts = FALSE, !.vbr = FALSE]
DCData    == [JP2K EXCEPT !.name = "DCData", !.counts = FALSE]
TimedText == [DCData EXCEPT !.name = "TimedText", !.text = TRUE]

AllKinds == {JP2K, JXS, Stereo, MPEG2, PCM, DCData, TimedText}

ASSUME KindsAssumption == Kinds \subseteq AllKinds
ASSUME LengthAssumption ==
  /\ HeaderLen \in Nat \ {0} /\ PackLen \in Nat \ {0} /\ StreamLen \in Nat \ {0}
  /\ PackLost \in 0 .. PackLen
  /\ FrameLens \subseteq Nat \ {0} /\ UnitLen \in FrameLens
ASSUME IndexAssumption ==
  EntriesPerSegment \in Nat \ {0} /\ KeyModulus \in Nat \ {0} /\ DescriptorDuration \in Nat
ASSUME BoundAssumption == MaxCalls \in Nat /\ MaxStreams \in Nat /\ MaxFaults \in Nat

VARIABLES
  kind,           \* the essence class of the writer
  smpte,          \* m_Info.LabelSetType is LS_MXF_SMPTE, and not LS_MXF_INTEROP
  state,          \* m_State; BEGIN also when no writer object exists, UNOPENED
                  \*   when one exists that never got a file
  mxf,            \* the file and the index in the footer part, see MxfType
  framesWritten,  \* m_FramesWritten
  streamOffset,   \* m_StreamOffset
  gopOffset,      \* m_GOPOffset
  nextPhase,      \* m_NextPhase: 1 is SP_LEFT, 2 is SP_RIGHT
  last,           \* history: the last call, the fault it met and what it returned
  calls,          \* history: packets of essence asked for
  streams,        \* history: WriteAncillaryResource calls
  faults          \* history: the faults met so far, in order, and the number of
                  \*   frames complete before each

vars == <<kind, smpte, state, mxf, framesWritten, streamOffset, gopOffset, nextPhase,
          last, calls, streams, faults>>

-----------------------------------------------------------------------------
(* The file *)

\* The values of an i8_t
Keys == {x \in Int : 0 - KeyModulus <= 2 * x /\ 2 * x < KeyModulus}

Entry   == [offset : Nat, key : Keys]
Segment == [start : Nat, entries : Seq(Entry)]
Pack    == [at : Nat, type : {"header", "body", "stream", "footer"},
            sid : Nat, offset : Nat, segs : Seq(Segment), hmac : Nat,
            prev : Nat, footer : Nat]
Packet  == [at : Nat, len : Nat, hmac : Nat, start : BOOLEAN]

(***************************************************************************)
(* pos: the file position.  queued: bytes left on the iovec list by a      *)
(* flush that failed.  packets: the essence packets written in full, the   *)
(* sequence number each was hashed with, and whether it starts a group of  *)
(* pictures.  segs: the segments of m_FooterPart; that of a CBR index has  *)
(* no entries.  duration: the ContainerDuration on disk, the caller's      *)
(* until Finalize.  FooterPartition on disk is the field footer of the     *)
(* header pack.                                                            *)
(***************************************************************************)
MxfType == [pos : Nat, queued : Nat, parts : SUBSET Pack, packets : Seq(Packet),
            rip : Seq(Pair), segs : Seq(Segment), disk : Seq(Pair), duration : Nat]

Empty == [pos |-> 0, queued |-> 0, parts |-> {}, packets |-> <<>>, rip |-> <<>>,
          segs |-> <<>>, disk |-> <<>>, duration |-> 0]

\* Where essence starts, when the body partition was written
BodyStart == IF smpte THEN HeaderLen + PackLen ELSE HeaderLen

Frames == Len(mxf.packets) \div kind.eyes

\* A conversion to i8_t
Int8(n) == LET m == n % KeyModulus IN IF 2 * m < KeyModulus THEN m ELSE m - KeyModulus

-----------------------------------------------------------------------------
(* Write_EKLV_Packet *)

\* Mutant: the length is left out of the count.
StreamAdvanceShort(len, f) == IF f = "context" THEN 0 ELSE len - 1

\* StreamOffset grows before the flush, so a failed flush has moved it too.
StreamAdvance(len, f) == IF f = "context" THEN 0 ELSE len

\* A failed flush leaves its buffers on the iovec list; the next one writes them first.
PutPacket(m, len, start, f, lost) ==
  CASE f = "context" -> m
    [] f = "flush"   -> [m EXCEPT !.pos = @ + lost, !.queued = @ + len]
    [] OTHER ->
         [m EXCEPT !.pos = @ + m.queued + len, !.queued = 0,
                   !.packets = Append(@, [at |-> m.pos + m.queued, len |-> len,
                                          hmac |-> framesWritten + 1, start |-> start])]

PacketFaults == {"context", "flush"}

\* What a flush that fails can have written
LostBytes(f, len, lost) == lost = 0 \/ (f = "flush" /\ lost < len)

-----------------------------------------------------------------------------
(* The calls *)

\* The call op meets fault f and returns r
Call(op, f, r) ==
  /\ f # "none" => Len(faults) < MaxFaults
  /\ last' = [op |-> op, fault |-> f, result |-> r]
  /\ faults' = IF f = "none" THEN faults
               ELSE Append(faults, [fault |-> f, frames |-> Frames])

Writing == state \in {"READY", "RUNNING"}

\* WriteKLToFile and the footer assert write_count after a failed write: the
\* program stops.
AbortedWrite ==
  /\ state \in {"BEGIN", "UNOPENED", "READY", "RUNNING"}
  /\ Call("Any", "assert", "ABORT")
  /\ state' = "ABORTED"
  /\ UNCHANGED <<kind, smpte, mxf, framesWritten, streamOffset, gopOffset, nextPhase, calls, streams>>

\* MXFWriter::OpenWrite: a new h__Writer, then SetSourceStream with
\* WriteASDCPHeader and CreateBodyPart. On an error the writer is released.
Open(f) ==
  LET header == [Empty EXCEPT !.pos = HeaderLen, !.parts = {NewPack(0, "header", 0)},
                              !.duration = DescriptorDuration]
      index  == IF kind.vbr THEN <<>> ELSE <<[start |-> 0, entries |-> <<>>]>>
      body   == PutPack(PushRip(PushRip(header, 0, 0), 1, HeaderLen),
                        NewPack(HeaderLen, "body", 1), PackFault(f, "body"))
      opened == IF smpte THEN body ELSE PushRip(header, 1, 0)
      failed == f \in {"header", "body"}
  IN  /\ state \in {"BEGIN", "UNOPENED"}
      /\ f \in {"none", "header"} \cup (IF smpte THEN PackFaults("body") ELSE {})
      /\ Call("OpenWrite", f, IF failed THEN "FAIL" ELSE "OK")
      /\ state' = IF failed THEN "BEGIN" ELSE "READY"
      /\ mxf' = IF failed THEN Empty ELSE [opened EXCEPT !.segs = index]
      /\ framesWritten' = 0 /\ streamOffset' = 0 /\ nextPhase' = 1
      /\ UNCHANGED <<kind, smpte, gopOffset, calls, streams>>

\* MXFSWriter::OpenWrite refuses an edit rate after it has made the writer object,
\* and keeps the object.
OpenRefused ==
  /\ kind.eyes = 2
  /\ state \in {"BEGIN", "UNOPENED"}
  /\ Call("OpenWrite", "none", "FORMAT")
  /\ state' = "UNOPENED"
  /\ mxf' = Empty
  /\ framesWritten' = 0 /\ streamOffset' = 0 /\ nextPhase' = 1
  /\ UNCHANGED <<kind, smpte, gopOffset, calls, streams>>

\* Mutants: the offset is one short; it is stored without the conversion; both eyes
\* are indexed.
KeyOffsetLate(start) == IF ~kind.gop \/ start THEN 0 ELSE Int8(1 - gopOffset)
KeyOffsetWide(start) == IF ~kind.gop \/ start THEN 0 ELSE 0 - gopOffset
IndexedBothEyes(m, start, f) ==
  IF f \in PacketFaults \/ ~kind.vbr THEN m
  ELSE PushIndexEntry(m, [offset |-> streamOffset, key |-> 0])

\* KeyFrameOffset of a frame of MPEG2, 0 in every other class
KeyOffset(start) == IF ~kind.gop \/ start THEN 0 ELSE Int8(0 - gopOffset)

\* The index after a packet: one entry more when it is the first of its frame
\* and was written
Indexed(m, start, f) ==
  IF f \in PacketFaults \/ ~kind.vbr \/ nextPhase = 2 THEN m
  ELSE PushIndexEntry(m, [offset |-> streamOffset, key |-> KeyOffset(start)])

\* Mutant: m_NextPhase moves on when the eye was written.
PhaseMovesOnSuccess ==
  nextPhase' = IF kind.eyes = 2 /\ last'.result = "OK" THEN 3 - nextPhase ELSE nextPhase

\* m_NextPhase moves on before anything can fail.
PhaseMoves == nextPhase' = IF kind.eyes = 2 THEN 3 - nextPhase ELSE 1

\* WriteFrame of one packet on an open file
WriteFrame(len, start, f, lost) ==
  /\ Writing /\ ~kind.text
  /\ calls < MaxCalls
  /\ start => kind.gop
  /\ f \in {"none"} \cup PacketFaults
  /\ LostBytes(f, len, lost)
  /\ Call("WriteFrame", f, IF f = "none" THEN "OK" ELSE "FAIL")
  /\ calls' = calls + 1
  /\ state' = "RUNNING"
  /\ mxf' = Indexed(PutPacket(mxf, len, start, f, lost), start, f)
  /\ streamOffset' = streamOffset + StreamAdvance(len, f)
  /\ framesWritten' = IF kind.counts \/ f = "none" THEN framesWritten + 1 ELSE framesWritten
  /\ gopOffset' = IF ~kind.gop \/ f # "none" THEN gopOffset
                  ELSE IF start THEN 1 ELSE gopOffset + 1
  /\ PhaseMoves
  /\ UNCHANGED <<kind, smpte, streams>>

\* WriteFrame after Finalize or without a file: nothing tests m_State, the packet
\* is queued on the iovec list of a file that is not open, and counted. Length 0
\* stands for a packet that Write_EKLV_Packet refuses.
WriteFrameClosed(len) ==
  /\ state \in {"FINAL", "UNOPENED"} /\ ~kind.text
  /\ calls < MaxCalls
  /\ Call("WriteFrame", "none", "FAIL")
  /\ calls' = calls + 1
  /\ mxf' = [mxf EXCEPT !.queued = @ + len]
  /\ streamOffset' = streamOffset + len
  /\ framesWritten' = IF kind.counts THEN framesWritten + 1 ELSE framesWritten
  /\ PhaseMoves
  /\ UNCHANGED <<kind, smpte, state, gopOffset, streams>>

\* WriteTimedTextResource: once, whether or not the document could be written
WriteText(len, f, lost) ==
  /\ kind.text
  /\ state = "READY"
  /\ calls < MaxCalls
  /\ f \in {"none"} \cup PacketFaults
  /\ LostBytes(f, len, lost)
  /\ Call("WriteText", f, IF f = "none" THEN "OK" ELSE "FAIL")
  /\ calls' = calls + 1
  /\ state' = "RUNNING"
  /\ mxf' = Indexed(PutPacket(mxf, len, FALSE, f, lost), FALSE, f)
  /\ streamOffset' = streamOffset + StreamAdvance(len, f)
  /\ framesWritten' = IF f = "none" THEN framesWritten + 1 ELSE framesWritten
  /\ UNCHANGED <<kind, smpte, gopOffset, nextPhase, streams>>

\* m_EssenceStreamID starts from 10 and grows with each call.
FirstStream == 10

\* WriteAncillaryResource: a generic-stream partition with one packet
WriteAncillary(f, lost) ==
  LET sid    == FirstStream + streams
      pack   == [NewPack(mxf.pos, "stream", sid) EXCEPT
                   !.prev = mxf.rip[Len(mxf.rip)].at, !.hmac = framesWritten + 1]
      wrote  == PutPack(PushRip(mxf, sid, mxf.pos), pack, PackFault(f, "stream"))
      packet == PutPacket(wrote, StreamLen, FALSE, f, lost)
  IN  /\ kind.text
      /\ state = "RUNNING"
      /\ streams < MaxStreams
      /\ f \in {"none"} \cup PacketFaults \cup PackFaults("stream")
      /\ LostBytes(f, StreamLen, lost)
      /\ Call("WriteAncillary", f, IF f \in {"none", "streamTorn"} THEN "OK" ELSE "FAIL")
      /\ streams' = streams + 1
      /\ mxf' = IF f = "stream" THEN wrote ELSE [packet EXCEPT !.packets = mxf.packets]
      /\ streamOffset' = IF f = "stream" THEN streamOffset
                         ELSE streamOffset + StreamAdvance(StreamLen, f)
      /\ framesWritten' = framesWritten + 1
      /\ UNCHANGED <<kind, smpte, state, gopOffset, nextPhase, calls>>

-----------------------------------------------------------------------------
(* Finalize *)

\* What Finalize can leave when the second write of the header does not complete:
\* the first header; none that a reader resolves, with an error or ("Torn") without;
\* the new pack with the first metadata; all but the fill.
Rewrites == {"rewriteKept", "rewriteLost", "rewriteTorn", "rewriteHalf", "rewriteOut"}
FinalizeFaults == PackFaults("footer") \cup PackFaults("rip") \cup Rewrites

\* m_FramesWritten when the footer is written
FinalCount ==
  CASE kind.text     -> DescriptorDuration
    [] kind.eyes = 2 -> framesWritten \div 2
    [] OTHER         -> framesWritten

\* Mutant: the header is written again as soon as the footer pack is.
FooterEarly(m, f) ==
  LET here   == m.pos
      footer == [NewPack(here, "footer", 0) EXCEPT
                   !.prev = m.rip[Len(m.rip)].at, !.footer = here, !.segs = m.segs]
      listed == PutPack(PushRip(m, 0, here), footer, PackFault(f, "footer"))
      header == [PackAt(m, 0) EXCEPT !.footer = here]
      all    == [listed EXCEPT !.parts = (@ \ {PackAt(m, 0)}) \cup {header}, !.duration = FinalCount]
  IN  CASE f \in {"footer", "rip"} -> [file |-> all, ok |-> FALSE]
        [] OTHER -> [file |-> [all EXCEPT !.disk = listed.rip], ok |-> TRUE]

\* WriteASDCPFooter: the footer with the index, the RIP, then the header again. A
\* VBR index without a segment has no bytes, which Write refuses.
Footer(m, f) ==
  LET here   == m.pos
      footer == [NewPack(here, "footer", 0) EXCEPT
                   !.prev = m.rip[Len(m.rip)].at, !.footer = here, !.segs = m.segs]
      listed == PutPack(PushRip(m, 0, here), footer, PackFault(f, "footer"))
      others == listed.parts \ {PackAt(m, 0)}
      header == CASE f = "rewriteKept" -> {PackAt(m, 0)}
                  [] f \in {"rewriteLost", "rewriteTorn"} -> {}
                  [] OTHER -> {[PackAt(m, 0) EXCEPT !.footer = here]}
  IN  IF f \in {"footer", "rip"} \/ m.segs = <<>> THEN [file |-> listed, ok |-> FALSE]
      ELSE [file |-> [listed EXCEPT
                        !.disk     = IF f = "ripTorn" THEN @ ELSE listed.rip,
                        !.parts    = others \cup header,
                        !.duration = IF f \in Rewrites \ {"rewriteOut"} THEN @ ELSE FinalCount],
            ok   |-> f \notin Rewrites \ {"rewriteTorn"}]

\* The assertion of MXFSWriter::Finalize
Unpaired == kind.eyes = 2 /\ framesWritten % 2 # 0

\* What Finalize does to the file before it returns r, or the program ends
Finishing(f, r) ==
  /\ state = "RUNNING"
  /\ nextPhase = 1 /\ ~Unpaired
  /\ f \in {"rip", "ripTorn"} \cup Rewrites => mxf.segs # <<>>
  /\ Call("Finalize", f, r)
  /\ mxf' = Footer(mxf, f).file
  /\ framesWritten' = FinalCount
  /\ UNCHANGED <<kind, smpte, streamOffset, gopOffset, nextPhase, calls, streams>>

Finalize(f) ==
  /\ f \in {"none"} \cup FinalizeFaults
  /\ Finishing(f, IF Footer(mxf, f).ok THEN "OK" ELSE "FAIL")
  /\ state' = "FINAL"

\* The program ends inside Finalize, by an assertion after a failed write or from
\* outside: what is on disk then is what a write that fails at the same place leaves.
FinalizeStops(f) ==
  /\ f \in {"footer", "rip"} \cup Rewrites
  /\ Finishing(f, "ABORT")
  /\ state' = "ABORTED"

\* Finalize of a writer that is not running. The stereoscopic writer looks at
\* its counter first, and halves it.
FinalizeRefused ==
  /\ state \in {"UNOPENED", "READY", "FINAL"}
  /\ nextPhase = 1 /\ ~Unpaired
  /\ Call("Finalize", "none", "STATE")
  /\ framesWritten' = IF kind.eyes = 2 THEN framesWritten \div 2 ELSE framesWritten
  /\ UNCHANGED <<kind, smpte, state, mxf, streamOffset, gopOffset, nextPhase, calls, streams>>

\* assert(m_FramesWritten % 2 == 0)
FinalizeAsserts ==
  /\ state \in {"UNOPENED", "READY", "RUNNING", "FINAL"}
  /\ nextPhase = 1 /\ Unpaired
  /\ Call("Finalize", "none", "ABORT")
  /\ state' = "ABORTED"
  /\ UNCHANGED <<kind, smpte, mxf, framesWritten, streamOffset, gopOffset, nextPhase, calls, streams>>

\* A call that changes nothing: no writer object, an eye or a Finalize out of
\* turn, a second document, a resource before the document or after Finalize
RefusedCall ==
  /\ \/ state = "BEGIN" /\ Call("Any", "none", "INIT")
     \/ state \in {"UNOPENED", "READY", "RUNNING", "FINAL"} /\ kind.eyes = 2
          /\ Call("WriteFrame", "none", "SPHASE")
     \/ state \in {"UNOPENED", "READY", "RUNNING", "FINAL"} /\ nextPhase = 2
          /\ Call("Finalize", "none", "SPHASE")
     \/ state \in {"RUNNING", "FINAL"} /\ kind.text /\ Call("WriteText", "none", "STATE")
     \/ state \in {"READY", "FINAL"} /\ kind.text /\ Call("WriteAncillary", "none", "STATE")
  /\ UNCHANGED <<kind, smpte, state, mxf, framesWritten, streamOffset, gopOffset, nextPhase,
                 calls, streams>>

-----------------------------------------------------------------------------

\* Interop timed text is refused before a writer exists.
Init ==
  /\ kind \in Kinds
  /\ smpte \in BOOLEAN
  /\ kind.text => smpte
  /\ state = "BEGIN"
  /\ mxf = Empty
  /\ framesWritten = 0 /\ streamOffset = 0 /\ gopOffset = 0 /\ nextPhase = 1
  /\ last = [op |-> "None", fault |-> "none", result |-> "OK"]
  /\ calls = 0 /\ streams = 0
  /\ faults = <<>>

Faults == {"none", "header"} \cup Rewrites \cup PacketFaults
            \cup UNION {PackFaults(part) : part \in {"body", "stream", "footer", "rip"}}

Next ==
  \/ \E f \in Faults : Open(f)
  \/ OpenRefused
  \/ \E len \in FrameLens, start \in BOOLEAN, f \in Faults :
       \E lost \in 0 .. len : WriteFrame(len, start, f, lost)
  \/ \E len \in FrameLens \cup {0} : WriteFrameClosed(len)
  \/ \E len \in FrameLens, f \in Faults : \E lost \in 0 .. len : WriteText(len, f, lost)
  \/ \E f \in Faults, lost \in 0 .. StreamLen : WriteAncillary(f, lost)
  \/ \E f \in Faults : Finalize(f) \/ FinalizeStops(f)
  \/ FinalizeRefused
  \/ FinalizeAsserts
  \/ AbortedWrite
  \/ RefusedCall

Spec == Init /\ [][Next]_vars

-----------------------------------------------------------------------------

\* The values the writer's variables can take
TypeOK ==
  /\ kind \in AllKinds
  /\ smpte \in BOOLEAN
  /\ state \in {"BEGIN", "UNOPENED", "READY", "RUNNING", "FINAL", "ABORTED"}
  /\ mxf \in MxfType
  /\ framesWritten \in Nat /\ streamOffset \in Nat /\ gopOffset \in Nat
  /\ nextPhase \in 1 .. kind.eyes
  /\ last \in [op : {"None", "Any", "OpenWrite", "WriteFrame", "WriteText", "WriteAncillary", "Finalize"},
               fault : Faults \cup {"assert"},
               result : {"OK", "FAIL", "FORMAT", "SPHASE", "STATE", "INIT", "ABORT"}]
  /\ calls \in 0 .. MaxCalls /\ streams \in 0 .. MaxStreams
  /\ faults \in Seq([fault : Faults \cup {"assert"}, frames : Nat])

\* A packet that is refused, and an OpenWrite that fails and is called again, leave
\* nothing behind in the file.
Harmless == {"header", "body", "context"}
Unharmed == \A i \in DOMAIN faults : faults[i].fault \in Harmless

\* WriteEKLVPacket keeps m_StreamOffset by adding packet lengths; the file
\* position is the operating system's, and also counts the generic-stream packs.
\* The two never drift apart.
WritePosition ==
  (Writing /\ Unharmed) => mxf.pos = BodyStart + streamOffset + streams * PackLen

\* The segments collected for the footer number the frames in the order in which
\* they were written, and each entry leads to where its frame starts: also after
\* packets that were refused, unless one of them was an eye of a pair.
IndexLocatesFrames ==
  (Writing /\ Unharmed /\ kind.vbr /\ (kind.eyes = 2 => faults = <<>>)) =>
    \A i \in DOMAIN mxf.segs : \A j \in DOMAIN mxf.segs[i].entries :
      LET first == kind.eyes * (mxf.segs[i].start + j - 1) + 1
      IN  /\ first \in DOMAIN mxf.packets
          /\ BodyStart + mxf.segs[i].entries[j].offset = mxf.packets[first].at

\* While the file is open, the left and right eyes that WriteFrame asks for in turn
\* keep m_FramesWritten even whenever a left eye is next, whatever failed: the
\* assertion of MXFSWriter::Finalize cannot stop the program.
EyesPaired ==
  (kind.eyes = 2 /\ Writing) => (framesWritten % 2 = 0 <=> nextPhase = 1)

=============================================================================
