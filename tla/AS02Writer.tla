----------------------------- MODULE AS02Writer -----------------------------
(***************************************************************************)
(* The frame-wrapped AS-02 track-file writer (h__AS02WriterFrame and the   *)
(* essence classes built on it): header, body, index, generic-stream and   *)
(* footer partitions, the Random Index Pack, the VBR index segments and    *)
(* the relinking of every partition pack by Finalize.                      *)
(*                                                                         *)
(* The bytes of the file are abstracted to the records that the reader can *)
(* find at an offset.  Partition packs, index bodies and the header have   *)
(* fixed lengths; frames have lengths from FrameLens.                      *)
(*                                                                         *)
(* One file is followed from OpenWrite to Finalize.  Every call may meet   *)
(* one fault, named by its parameter f: a write that fails, or an argument *)
(* that Write_EKLV_Packet refuses.                                         *)
(***************************************************************************)
EXTENDS MXFFile

CONSTANTS
  Kinds,              \* the essence kinds to write: a subset of AllKinds
  PartitionSpace,     \* m_PartitionSpace, in edit units
  HeaderLen,          \* bytes of the header partition, fill included
  IndexLen,           \* bytes of an index partition after its pack
  StreamLen,          \* bytes of a generic-stream payload
  FrameLens,          \* the possible KLV lengths of a frame
  MetaLen,            \* KLV length of the second packet of a PHDR frame
  MaxCalls,           \* bound: WriteFrame calls
  MaxStreams,         \* bound: AddDmsGenericPartUtf8Text or WriteAncillaryResource calls
  MaxFaults           \* bound: calls that meet a fault

(***************************************************************************)
(* What distinguishes the essence classes.  counts: m_FramesWritten is     *)
(* incremented whatever WriteEKLVPacket returned.  pair: a frame is two    *)
(* KLV packets.  dms: the class offers AddDmsGenericPartUtf8Text.          *)
(* ancillary: it offers WriteAncillaryResource.                            *)
(* master: Finalize itself writes a generic-stream partition, SID 2.       *)
(***************************************************************************)
JP2K == [name |-> "JP2K", counts |-> TRUE, pair |-> FALSE, dms |-> FALSE,
         ancillary |-> FALSE, master |-> FALSE]
JXS  == [JP2K EXCEPT !.name = "JXS"]
ACES == [JP2K EXCEPT !.name = "ACES", !.ancillary = TRUE]
ISXD == [JP2K EXCEPT !.name = "ISXD", !.dms = TRUE]
PHDR == [JP2K EXCEPT !.name = "PHDR", !.counts = FALSE, !.pair = TRUE, !.master = TRUE]

AllKinds == {JP2K, JXS, ACES, ISXD, PHDR}

ASSUME KindsAssumption == Kinds \subseteq AllKinds
ASSUME SpaceAssumption == PartitionSpace \in Nat \ {0} /\ EntriesPerSegment \in Nat \ {0}
ASSUME LengthAssumption ==
  /\ HeaderLen \in Nat \ {0} /\ PackLen \in Nat \ {0} /\ IndexLen \in Nat \ {0}
  /\ StreamLen \in Nat \ {0} /\ MetaLen \in Nat \ {0}
  /\ PackLost \in 0 .. PackLen
  /\ FrameLens \subseteq Nat \ {0}
ASSUME BoundAssumption == MaxCalls \in Nat /\ MaxStreams \in Nat /\ MaxFaults \in Nat

VARIABLES
  kind,           \* the essence class of the writer
  state,          \* m_State; BEGIN also when no writer object exists
  mxf,            \* the file and the index writer, see MxfType
  framesWritten,  \* m_FramesWritten
  streamOffset,   \* m_StreamOffset
  last,           \* history: the last call, the fault it met and what it returned
  calls,          \* history: WriteFrame calls made
  streams,        \* history: AddDmsGenericPartUtf8Text or WriteAncillaryResource
                  \*   calls that reached the file
  faults          \* history: the faults met so far, in order, and the number of
                  \*   frames accepted before each

vars == <<kind, state, mxf, framesWritten, streamOffset, last, calls, streams, faults>>

-----------------------------------------------------------------------------
(* Partition packs, index segments and the file *)

Segment == [start : Nat, entries : Seq(Nat)]
Pack == [at : Nat, type : {"header", "body", "index", "stream", "footer"},
         sid : Nat, offset : Nat, segs : Seq(Segment), hmac : Nat,
         prev : Nat, footer : Nat]

(***************************************************************************)
(* pos: the file position.  queued: bytes left on the iovec list by a      *)
(* flush that failed.  parts: the packs on disk.  essence: where each      *)
(* indexed frame starts.  rip: m_RIP.PairArray.  segs: the segments of     *)
(* m_IndexWriter, the last one being m_CurrentSegment, which is null when  *)
(* there is none.                                                          *)
(* disk, duration: the RIP and the ContainerDuration on disk.              *)
(***************************************************************************)
MxfType == [pos : Nat, queued : Nat, parts : SUBSET Pack, essence : Seq(Nat),
            rip : Seq(Pair), segs : Seq(Segment),
            disk : Seq(Pair), duration : Nat]

Empty == [pos |-> 0, queued |-> 0, parts |-> {}, essence |-> <<>>, rip |-> <<>>,
          segs |-> <<>>, disk |-> <<>>, duration |-> 0]

\* Mutant: the segment that follows a flush starts at 0.
FlushIndexPartitionRestarts(m, f) ==
  LET pack == [NewPack(m.pos, "index", 0) EXCEPT !.segs = m.segs]
  IN  IF ~HasEntries(m) THEN m
      ELSE [PutPack(PushRip(m, 0, m.pos), pack, f) EXCEPT
              !.pos = @ + IndexLen, !.segs = <<[start |-> 0, entries |-> <<>>]>>]

\* FlushIndexPartition with AS02IndexWriterVBR::WriteToFile: a failed write
\* has already deleted every segment, and leaves no current one.
FlushIndexPartition(m, f) ==
  LET next  == IF m.segs # <<>> THEN SegmentEnd(m.segs[Len(m.segs)]) ELSE 0
      pack  == [NewPack(m.pos, "index", 0) EXCEPT !.segs = m.segs]
      wrote == PutPack(PushRip(m, 0, m.pos), pack, f)
  IN  IF ~HasEntries(m) THEN m
      ELSE IF f = "fail" THEN [wrote EXCEPT !.segs = <<>>]
      ELSE [wrote EXCEPT !.pos = @ + IndexLen,
                         !.segs = <<[start |-> next, entries |-> <<>>]>>]

OpenBodyPartition(m, offset, f) ==
  PushRip(PutPack(m, [NewPack(m.pos, "body", 1) EXCEPT !.offset = offset], f), 1, m.pos)

-----------------------------------------------------------------------------
(* Write_EKLV_Packet for one frame; a PHDR frame is two packets *)

FrameFaults(k) == {"context", "flush"} \cup (IF k.pair THEN {"metadata", "metadataFlush"} ELSE {})

FrameLen(k, len) == len + (IF k.pair THEN MetaLen ELSE 0)

\* Mutants: only the first packet of a frame counts; an error takes back what
\* was never added.
StreamAdvanceFirst(k, len, f) == IF f = "context" THEN 0 ELSE len
StreamAdvanceTakesBack(k, len, f) == IF f = "none" THEN FrameLen(k, len) ELSE 0 - len

\* StreamOffset grows before the flush, so a failed flush has moved it too.
StreamAdvance(k, len, f) ==
  CASE f = "context"  -> 0
    [] f = "flush"    -> len
    [] f = "metadata" -> len
    [] OTHER          -> FrameLen(k, len)

\* A failed flush leaves its buffers on the iovec list; the next one writes them first.
WritePackets(m, k, len, f, lost) ==
  CASE f = "context"  -> m
    [] f = "flush"    -> [m EXCEPT !.pos = @ + lost, !.queued = @ + len]
    [] f = "metadata" -> [m EXCEPT !.pos = @ + m.queued + len, !.queued = 0]
    [] f = "metadataFlush" ->
         [m EXCEPT !.pos = @ + m.queued + len + lost, !.queued = MetaLen]
    [] OTHER ->
         [m EXCEPT !.pos = @ + m.queued + FrameLen(k, len), !.queued = 0,
                   !.essence = Append(@, m.pos + m.queued)]

-----------------------------------------------------------------------------
(* The calls *)

\* The call op meets fault f and returns r
Call(op, f, r) ==
  /\ f # "none" => Len(faults) < MaxFaults
  /\ last' = [op |-> op, fault |-> f, result |-> r]
  /\ faults' = IF f = "none" THEN faults
               ELSE Append(faults, [fault |-> f, frames |-> Len(mxf.essence)])

\* The file is open and not finalized
Writing == state \in {"READY", "RUNNING"}

\* WriteKLToFile and the index writers assert write_count after a failed write:
\* the program stops.
AbortedWrite ==
  /\ state \in {"BEGIN", "READY", "RUNNING"}
  /\ Call("Any", "assert", "ABORT")
  /\ state' = "ABORTED"
  /\ UNCHANGED <<kind, mxf, framesWritten, streamOffset, calls, streams>>

\* MXFWriter::OpenWrite: h__Writer::OpenWrite, then SetSourceStream with
\* WriteAS02Header. On an error the writer is released and a call may try again.
Open(f) ==
  LET header == [Empty EXCEPT !.pos = HeaderLen, !.parts = {NewPack(0, "header", 0)}]
      failed == f \in {"header", "firstBody"}
  IN  /\ state = "BEGIN"
      /\ f \in {"none", "header"} \cup PackFaults("firstBody")
      /\ Call("OpenWrite", f, IF failed THEN "FAIL" ELSE "OK")
      /\ IF failed
         THEN UNCHANGED <<state, mxf>>
         ELSE /\ state' = "READY"
              /\ mxf' = OpenBodyPartition(PushRip(header, 0, 0), 0, PackFault(f, "firstBody"))
      /\ UNCHANGED <<kind, framesWritten, streamOffset, calls, streams>>

\* This frame ends a partition: m_FramesWritten is the count before it.
PartitionFull == framesWritten > 1 /\ (framesWritten + 1) % PartitionSpace = 0

\* Mutant: a frame that failed is indexed like any other.
IndexedAlways(m, f) == PushIndexEntry(m, streamOffset)

\* The index after a frame: one entry more unless the frame failed
Indexed(m, f) == IF f \in FrameFaults(kind) THEN m ELSE PushIndexEntry(m, streamOffset)

\* WriteFrame on an open file. When the partition is full the error of the frame
\* is lost: the result is that of the new body partition.
WriteFrame(len, f, lost) ==
  LET stored == Indexed(WritePackets(mxf, kind, len, f, lost), f)
      offset == streamOffset + StreamAdvance(kind, len, f)
      failed == IF PartitionFull THEN f = "body" ELSE f \in FrameFaults(kind)
  IN  /\ Writing
      /\ calls < MaxCalls
      /\ f \in {"none"} \cup FrameFaults(kind)
               \cup (IF PartitionFull THEN PackFaults("index") \cup PackFaults("body") ELSE {})
      /\ lost = 0 \/ (f \in {"flush", "metadataFlush"} /\ lost < len)
      /\ PartitionFull => HasEntries(stored)
      /\ Call("WriteFrame", f, IF failed THEN "FAIL" ELSE "OK")
      /\ calls' = calls + 1
      /\ state' = "RUNNING"
      /\ mxf' = IF PartitionFull
                THEN OpenBodyPartition(FlushIndexPartition(stored, PackFault(f, "index")),
                                       offset, PackFault(f, "body"))
                ELSE stored
      /\ streamOffset' = offset
      /\ framesWritten' = IF kind.counts \/ ~failed THEN framesWritten + 1 ELSE framesWritten
      /\ UNCHANGED <<kind, streams>>

\* assert(m_IndexWriter.GetDuration() > 0): the partition is full, but every
\* frame of it failed, or the file is finalized.
AssertIndexEntries(f) ==
  /\ calls < MaxCalls
  /\ PartitionFull
  /\ ~HasEntries(mxf)
  /\ \/ Writing /\ f \in FrameFaults(kind)
     \/ state = "FINAL" /\ f = "none"
  /\ Call("WriteFrame", f, "ABORT")
  /\ state' = "ABORTED"
  /\ UNCHANGED <<kind, mxf, framesWritten, streamOffset, calls, streams>>

\* WriteFrame after Finalize: nothing tests for FINAL. The packet is queued on
\* the iovec list of the closed file and counted like any other.
WriteFrameAfterFinal(len) ==
  /\ state = "FINAL"
  /\ calls < MaxCalls
  /\ ~PartitionFull
  /\ Call("WriteFrame", "none", "FAIL")
  /\ calls' = calls + 1
  /\ mxf' = [mxf EXCEPT !.queued = @ + len]
  /\ streamOffset' = streamOffset + len
  /\ framesWritten' = IF kind.counts THEN framesWritten + 1 ELSE framesWritten
  /\ UNCHANGED <<kind, state, streams>>

\* A zero-sized frame buffer is refused in every state of an open writer.
WriteEmptyFrame ==
  /\ state \in {"READY", "RUNNING", "FINAL"}
  /\ Call("WriteFrame", "none", "PARAM")
  /\ UNCHANGED <<kind, state, mxf, framesWritten, streamOffset, calls, streams>>

-----------------------------------------------------------------------------
(* Generic-stream partitions *)

\* Mutant: the SID of the last entry is taken for the greatest.
MaxSidLast(m) == m.rip[Len(m.rip)].sid

\* The greatest SID of the RIP; max_sid starts from 0
MaxSid(m) ==
  LET greatest == {i \in DOMAIN m.rip : \A j \in DOMAIN m.rip : m.rip[j].sid <= m.rip[i].sid}
  IN  IF greatest = {} THEN 0 ELSE m.rip[CHOOSE i \in greatest : TRUE].sid

StreamFaults == PackFaults("stream") \cup {"payload", "payloadFlush"}

\* The partition pack and, when it was written, the payload. In TrackFileWriter
\* neither error reaches the caller: an inner result shadows the one that is
\* returned.
PutStream(m, sid, f) ==
  LET pack  == [NewPack(m.pos, "stream", sid) EXCEPT
                  !.prev = m.rip[Len(m.rip)].at, !.hmac = framesWritten + 1]
      wrote == PutPack(PushRip(m, sid, m.pos), pack, PackFault(f, "stream"))
  IN  CASE f \in {"stream", "payload"} -> wrote
        [] f = "payloadFlush"          -> [wrote EXCEPT !.queued = @ + StreamLen]
        [] OTHER -> [wrote EXCEPT !.pos = @ + wrote.queued + StreamLen, !.queued = 0]

\* AddDmsGenericPartUtf8Text on an open file; the payload moves a copy of m_StreamOffset.
AddDms(f) ==
  /\ kind.dms
  /\ Writing
  /\ streams < MaxStreams
  /\ f \in {"none"} \cup PackFaults("index") \cup StreamFaults
  /\ f \in PackFaults("index") => HasEntries(mxf)
  /\ Call("AddDms", f, "OK")
  /\ streams' = streams + 1
  /\ mxf' = LET m == FlushIndexPartition(mxf, PackFault(f, "index"))
            IN  PutStream(m, MaxSid(m) + 1, f)
  /\ UNCHANGED <<kind, state, framesWritten, streamOffset, calls>>

\* After Finalize: TellPosition of the closed file returns an uninitialized
\* value, twice. When the two differ the call fails; when they agree the write
\* fails in silence, or its assertion stops the program.
AddDmsAfterFinal ==
  /\ kind.dms
  /\ state = "FINAL"
  /\ streams < MaxStreams
  /\ streams' = streams + 1
  /\ \E r \in {"OK", "FAIL", "ABORT"} :
       /\ Call("AddDms", "none", r)
       /\ state' = IF r = "ABORT" THEN "ABORTED" ELSE state
  /\ \E at \in {0, mxf.pos} : mxf' = PushRip(mxf, MaxSid(mxf) + 1, at)
  /\ UNCHANGED <<kind, framesWritten, streamOffset, calls>>

\* The value m_EssenceStreamID starts from
FirstEssenceStreamID == 10

\* m_EssenceStreamID, which every call moves, whether it succeeds or not
EssenceStreamID == FirstEssenceStreamID + streams

\* The ACES writer's WriteAncillaryResource. The index is not flushed, the error
\* of the pack or of the payload is returned, and it is m_StreamOffset itself,
\* the offset of the next frame, that the payload moves, but not the pack.
WriteAncillaryResource(f) ==
  /\ kind.ancillary
  /\ state = "RUNNING"
  /\ streams < MaxStreams
  /\ f \in {"none"} \cup StreamFaults
  /\ Call("WriteResource", f, IF f \in {"stream", "payload", "payloadFlush"} THEN "FAIL" ELSE "OK")
  /\ streams' = streams + 1
  /\ mxf' = PutStream(mxf, EssenceStreamID, f)
  /\ streamOffset' = IF f \in {"stream", "payload"} THEN streamOffset ELSE streamOffset + StreamLen
  /\ UNCHANGED <<kind, state, framesWritten, calls>>

-----------------------------------------------------------------------------
(* Finalize *)

\* Entries of the RIP whose pack WriteAS02Footer relinks
Linked(m, i) == Resolves(m, m.rip[i].at)
                  /\ PackAt(m, m.rip[i].at).type \in {"body", "index", "stream"}

\* Mutant: previous_partition is set before the entry is linked, not after.
PreviousOfItself(m, i) == m.rip[i].at

\* The value of previous_partition when the loop reaches entry i
PreviousOf(m, i) ==
  LET latest == {j \in 1 .. i - 1 : Linked(m, j) /\ \A n \in j + 1 .. i - 1 : ~Linked(m, n)}
  IN  IF latest = {} THEN 0 ELSE m.rip[CHOOSE j \in latest : TRUE].at

\* The loop of WriteAS02Footer over the entries reached: a pack is written back
\* with the links of the last entry that leads to it.
Relink(m, reached, here) ==
  LET Entries(p) == {i \in reached : Linked(m, i) /\ m.rip[i].at = p.at}
      New(p) ==
        LET latest == {i \in Entries(p) : \A j \in Entries(p) : j <= i}
        IN  IF latest = {} THEN p
            ELSE [p EXCEPT !.footer = here,
                           !.prev = PreviousOf(m, CHOOSE i \in latest : TRUE)]
  IN  [m EXCEPT !.parts = {New(p) : p \in @}]

FinalizeFaults(k, text) ==
  PackFaults("index") \cup PackFaults("footer") \cup PackFaults("relink")
    \cup PackFaults("rip") \cup {"rewrite"} \cup (IF k.master /\ text THEN StreamFaults ELSE {})

\* Mutant: an entry of the RIP that holds no partition pack is skipped.
ReachedAll(m) == DOMAIN m.rip

\* The entries that the loop reads before it meets one that holds no pack
Reached(m) == {i \in DOMAIN m.rip : \A j \in 1 .. i : Resolves(m, m.rip[j].at)}

\* The steps of WriteAS02Footer after its flush: footer pack, RIP, header again
\* and the relinking, whose write of entry n may fail. Each entry is read first,
\* and the first that holds no partition pack ends the loop.
Footer(m, f, n) ==
  LET here    == m.pos
      footer  == [NewPack(here, "footer", 0) EXCEPT
                    !.prev = m.rip[Len(m.rip)].at, !.footer = here]
      listed  == PutPack(PushRip(m, 0, here), footer, PackFault(f, "footer"))
      onDisk  == [listed EXCEPT !.disk = IF f = "ripTorn" THEN @ ELSE listed.rip]
      rewrote == [onDisk EXCEPT !.duration = framesWritten]
      damaged == {p \in rewrote.parts : p.at = rewrote.rip[n].at}
      reached == Reached(rewrote)
      all     == reached = DOMAIN rewrote.rip
      Linking(entries, lost) == Relink([rewrote EXCEPT !.parts = @ \ lost], entries, here)
  IN  CASE f \in {"footer", "rip"} -> [file |-> listed, ok |-> FALSE]
        [] f = "rewrite"    -> [file |-> [onDisk EXCEPT !.parts = {p \in @ : p.at # 0}],
                                ok   |-> FALSE]
        [] f = "relink"     -> [file |-> Linking(1 .. n - 1, damaged), ok |-> FALSE]
        [] f = "relinkTorn" -> [file |-> Linking(reached, damaged), ok |-> all]
        [] OTHER            -> [file |-> Linking(reached, {}), ok |-> all]

\* Finalize of a running file. PHDR first flushes the index, without looking at
\* the result, and adds its master metadata; then WriteAS02Footer flushes again.
Finalize(f, text, n) ==
  LET flushed == FlushIndexPartition(mxf, PackFault(f, "index"))
      body    == IF kind.master /\ text THEN PutStream(flushed, 2, f) ELSE flushed
      lost    == f = "index" /\ ~kind.master
      footer  == Footer(body, f, n)
      skipped == PushRip(body, 0, body.pos)
  IN  /\ state = "RUNNING"
      /\ text => kind.master
      /\ f \in {"none"} \cup FinalizeFaults(kind, text)
      /\ f \in PackFaults("index") => HasEntries(mxf)
      /\ n \in 1 .. Len(body.rip)
      /\ IF f \in PackFaults("relink")
         THEN Linked(body, n) /\ \A i \in 1 .. n : Resolves(body, body.rip[i].at)
         ELSE n = 1
      /\ Call("Finalize", f, IF lost \/ ~footer.ok THEN "FAIL" ELSE "OK")
      /\ state' = "FINAL"
      /\ mxf' = IF lost THEN skipped ELSE footer.file
      /\ streamOffset' = IF kind.master /\ text /\ f \notin {"stream", "payload"}
                         THEN streamOffset + StreamLen ELSE streamOffset
      /\ UNCHANGED <<kind, framesWritten, calls, streams>>

\* A call that the writer refuses: no file is open, or Finalize or a resource is
\* not allowed.
RefusedCall ==
  /\ \/ state = "BEGIN" /\ Call("Any", "none", "INIT")
     \/ state \in {"READY", "FINAL"} /\ Call("Finalize", "none", "STATE")
     \/ kind.ancillary /\ state \in {"READY", "FINAL"} /\ Call("WriteResource", "none", "STATE")
  /\ UNCHANGED <<kind, state, mxf, framesWritten, streamOffset, calls, streams>>

-----------------------------------------------------------------------------

Init ==
  /\ kind \in Kinds
  /\ state = "BEGIN"
  /\ mxf = Empty
  /\ framesWritten = 0
  /\ streamOffset = 0
  /\ last = [op |-> "None", fault |-> "none", result |-> "OK"]
  /\ calls = 0
  /\ streams = 0
  /\ faults = <<>>

Faults == {"none", "header", "context", "flush", "metadata", "metadataFlush", "rewrite"}
            \cup {"payload", "payloadFlush"}
            \cup UNION {PackFaults(part) : part \in DOMAIN Torn}

Next ==
  \/ \E f \in Faults : Open(f)
  \/ \E len \in FrameLens, f \in Faults : \E lost \in 0 .. len : WriteFrame(len, f, lost)
  \/ WriteEmptyFrame
  \/ \E len \in FrameLens : WriteFrameAfterFinal(len)
  \/ \E f \in Faults : AssertIndexEntries(f)
  \/ \E f \in Faults : AddDms(f)
  \/ AddDmsAfterFinal
  \/ \E f \in Faults : WriteAncillaryResource(f)
  \/ \E f \in Faults, text \in BOOLEAN : \E n \in 1 .. Len(mxf.rip) + 2 : Finalize(f, text, n)
  \/ AbortedWrite
  \/ RefusedCall

Spec == Init /\ [][Next]_vars

-----------------------------------------------------------------------------

\* The values the writer's variables can take
TypeOK ==
  /\ kind \in AllKinds
  /\ state \in {"BEGIN", "READY", "RUNNING", "FINAL", "ABORTED"}
  /\ mxf \in MxfType
  /\ framesWritten \in Nat
  /\ streamOffset \in Nat
  /\ last \in [op : {"None", "Any", "OpenWrite", "WriteFrame", "AddDms", "WriteResource",
                     "Finalize"},
               fault : Faults \cup {"assert"},
               result : {"OK", "FAIL", "PARAM", "STATE", "INIT", "ABORT"}]
  /\ calls \in 0 .. MaxCalls
  /\ streams \in 0 .. MaxStreams
  /\ faults \in Seq([fault : Faults \cup {"assert"}, frames : Nat])

Clean == faults = <<>>

\* The body partition that frames are appended to, when no generic-stream
\* partition follows it
LastBody == PackAt(mxf, mxf.rip[Len(mxf.rip)].at)
InBody == Writing /\ Clean /\ LastBody.type = "body"

\* WriteEKLVPacket keeps m_StreamOffset by adding packet lengths, and the body
\* partition records it as BodyOffset, while the file position is the operating
\* system's: the two never drift apart.
WritePosition ==
  InBody => mxf.pos + LastBody.offset = LastBody.at + PackLen + streamOffset

\* The pending index entries number the last frames written, and each leads,
\* through the current body partition, to the place its frame was written.
IndexLocatesFrames ==
  InBody => \A i \in DOMAIN mxf.segs : \A j \in DOMAIN mxf.segs[i].entries :
              LET frame == mxf.segs[i].start + j
              IN  /\ frame \in DOMAIN mxf.essence
                  /\ mxf.essence[frame] + LastBody.offset
                       = LastBody.at + PackLen + mxf.segs[i].entries[j]

=============================================================================
