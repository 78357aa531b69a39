------------------------------ MODULE ClipFile ------------------------------
(***************************************************************************)
(* Clip-wrapped AS-02 files: all of the essence is the value of one KLV    *)
(* packet, whose length is written when the file is finalized.  The PCM    *)
(* writer (AS_02_PCM.cpp) has a CBR index and a reader that computes       *)
(* positions; the IAB writer (AS_02_IAB.cpp) has a VBR index.              *)
(*                                                                         *)
(* The file is MXFFile's, with the essence in cells, one per byte; the key *)
(* and the length of the clip are one cell each, a partition is PackLen.   *)
(***************************************************************************)
EXTENDS AS02Reader, FiniteSetsExt

CONSTANTS
  SampleLen,     \* bytes of a sample of all channels (BlockAlign)
  FrameLen,      \* bytes the PCM reader takes for a frame (m_BytesPerFrame)
  BlockLens,     \* the lengths of the buffers WriteFrame is given
  MaxBlocks,     \* bound: buffers offered to WriteFrame
  MaxTexts,      \* bound: generic-stream payloads added (IAB)
  MaxFaults      \* bound: calls that meet a fault

ClipAssumption ==
  /\ PackLen \in Nat \ {0} /\ EntriesPerSegment \in Nat
  /\ SampleLen \in Nat \ {0} /\ FrameLen \in Nat \ {0}
  /\ BlockLens \subseteq Nat \ {0}
  /\ MaxBlocks \in Nat \ {0} /\ MaxTexts \in Nat /\ MaxFaults \in Nat

VARIABLES
  writer,  \* the writer object: its class, state, clip and counters
  mxf,     \* the file and the index writer, as in MXFFile, and its cells
  past     \* history: what was offered and accepted, the faults, the last result

vars == <<writer, mxf, past>>

KLLen == 2                        \* RESERVED_KL_SIZE
Empty == [pos |-> 0, parts |-> {}, rip |-> <<>>, disk |-> <<>>, segs |-> <<>>, cells |-> <<>>, stream |-> 0,
          queued |-> <<>>]
NoWriter(kind) == [kind |-> kind, st |-> "NONE", clipStart |-> 0, frames |-> 0, streamOffset |-> 0, open |-> FALSE]

\* Bytes written at the file position, which follows them
PutCells(m, cells) ==
  LET new == m.pos .. m.pos + Len(cells) - 1
  IN  [m EXCEPT !.cells = [o \in DOMAIN m.cells \cup new |-> IF o \in new THEN cells[o - m.pos + 1] ELSE m.cells[o]],
                !.pos = @ + Len(cells)]

KeyAndLength == <<<<"key", 0>>, <<"length", 0>>>>

\* WriteAS02Header: the header partition, and the body partition after it
Header(m) ==
  LET h == PushRip(PutPack(m, NewPack(0, "header", 0), "none"), 0, 0)
  IN  PushRip(PutPack(h, NewPack(h.pos, "body", 1), "none"), 1, h.pos)

\* A call that meets a fault, or none, and leaves so many buffers sound
CallLeaves(result, fault, sound) ==
  LET faults == past.faults + (IF fault = "none" THEN 0 ELSE 1)
  IN  /\ faults <= MaxFaults
      /\ past' = [past EXCEPT !.result = result, !.last = fault, !.faults = faults, !.sound = sound]

Call(result, fault) ==
  CallLeaves(result, fault, IF fault # "none" THEN Min({past.sound, Len(past.accepted)}) ELSE past.sound)

-----------------------------------------------------------------------------
(* OpenWrite.  The object the call makes is deleted again when it fails,   *)
(* and the next OpenWrite truncates the file.                              *)

Opened(m, clipStart, streamOffset) ==
  /\ mxf' = m
  /\ writer' = [NoWriter(writer.kind) EXCEPT !.st = "READY", !.open = TRUE, !.clipStart = clipStart,
                                             !.streamOffset = streamOffset]
  /\ past' = [past EXCEPT !.result = "OK", !.last = "none", !.opened = @ + 1, !.accepted = <<>>,
                          !.bytes = <<>>, !.sound = MaxBlocks, !.offered = 0, !.faults = 0]

OpenFails ==
  /\ mxf' = Empty
  /\ UNCHANGED writer
  /\ Call("FAIL", "header")

CanOpen(kind) == writer.kind = kind /\ writer.st = "NONE" /\ past.opened < 2

OpenWritePCM == CanOpen("PCM") /\ (Opened(Header(Empty), 0, 0) \/ OpenFails)

\* IAB: the key and a length of zero are written at once.
OpenWriteIAB ==
  /\ CanOpen("IAB")
  /\ LET m == Header(Empty) IN Opened(PutCells(m, KeyAndLength), m.pos, KLLen) \/ OpenFails

\* The bytes of a buffer: numbered in the order they are offered. An IA frame
\* starts with its own lengths.
Block(len) ==
  LET bytes == [i \in 1 .. len |-> <<"byte", 10 * past.offered + i>>]
  IN  IF writer.kind = "IAB" THEN [bytes EXCEPT ![1] = <<"size", len>>] ELSE bytes

Accepted(cells) ==
  past' = [past EXCEPT !.result = "OK", !.last = "none", !.offered = @ + 1, !.accepted = Append(@, cells),
                       !.bytes = IF past.faults = 0 THEN @ \o cells ELSE @]

Refused(fault) ==
  /\ past.faults < MaxFaults
  /\ past' = [past EXCEPT !.result = "FAIL", !.last = fault, !.offered = @ + 1, !.faults = @ + 1,
                          !.sound = Min({@, Len(past.accepted)})]

\* StartClip remembers where the clip starts before it writes its key.
StartClip(m) == IF writer.clipStart = 0 THEN PutCells(m, KeyAndLength) ELSE m
ClipStart == IF writer.clipStart = 0 THEN mxf.pos ELSE writer.clipStart

\* PCM: the state is RUNNING whatever happens next, also after a Finalize that
\* failed and left the file open, where nothing stops the call. A buffer is
\* counted in whole samples.
WriteFramePCM(len) ==
  /\ writer.kind = "PCM" /\ writer.open
  /\ past.offered < MaxBlocks
  /\ LET st == IF writer.st = "READY" THEN "RUNNING" ELSE writer.st
         started == [writer EXCEPT !.st = st, !.clipStart = ClipStart]
     IN  \/ /\ mxf' = PutCells(StartClip(mxf), Block(len))
            /\ writer' = [started EXCEPT !.frames = @ + len \div SampleLen]
            /\ Accepted(Block(len))
         \/ /\ writer.clipStart = 0
            /\ writer' = started
            /\ Refused("key")
            /\ \E n \in 0 .. 1 : mxf' = PutCells(mxf, SubSeq(KeyAndLength, 1, n))
         \/ /\ writer' = started
            /\ Refused("block")
            /\ \E n \in 0 .. len - 1 : mxf' = PutCells(StartClip(mxf), SubSeq(Block(len), 1, n))

\* IAB: the entry is pushed first; a write that fails deletes the writer.
WriteFrameIAB(len) ==
  /\ writer.kind = "IAB" /\ writer.st \in {"READY", "RUNNING"}
  /\ past.offered < MaxBlocks
  /\ LET pushed == PushIndexEntry(mxf, writer.streamOffset)
     IN  \/ /\ mxf' = PutCells(pushed, Block(len))
            /\ writer' = [writer EXCEPT !.st = "RUNNING", !.frames = @ + 1, !.streamOffset = @ + len]
            /\ Accepted(Block(len))
         \/ /\ \E n \in 0 .. len - 1 : mxf' = PutCells(pushed, SubSeq(Block(len), 1, n))
            /\ writer' = NoWriter("IAB")
            /\ Refused("block")

\* The segment that follows those written: none for the CBR index
NextSegment(m) ==
  IF m.segs = <<>> THEN <<>> ELSE <<[start |-> SegmentEnd(m.segs[Len(m.segs)]), entries |-> <<>>]>>

\* FlushIndexPartition: the segments of the VBR writer, or the CBR segment, of
\* which an empty one stands here
FlushIndex(m, segs) ==
  [PutPack(PushRip(m, 0, m.pos), [NewPack(m.pos, "index", 0) EXCEPT !.segs = segs], "none")
     EXCEPT !.segs = NextSegment(m)]

\* The same with a pack that is not written whole, of which so many bytes stay: a
\* failed write has deleted every segment, a torn one is followed by the next.
LoseIndex(m, f, lost) ==
  [PushRip(m, 0, m.pos) EXCEPT !.pos = @ + lost, !.segs = IF f = "index" THEN <<>> ELSE NextSegment(m)]

FlushVBR(m) == IF HasEntries(m) THEN FlushIndex(m, m.segs) ELSE m

\* The partition of a text. The error is that of an inner result, which shadows the
\* one that is returned.
TextPartition(m, f, lost) ==
  LET pack == NewPack(m.pos, "stream", m.stream + 2)
      put  == IF f \in PackFaults("stream") THEN [m EXCEPT !.pos = @ + lost] ELSE PutPack(m, pack, "none")
  IN  [PushRip(put, m.stream + 2, m.pos) EXCEPT !.stream = @ + 1]

\* Its payload, which is put on the iovec list and written after what an earlier
\* failed flush left there: the errors are lost in the same way.
PutText(m, f, lost) ==
  LET p    == TextPartition(m, f, lost)
      text == <<<<"text", m.stream>>>>
  IN  CASE f \in {"stream", "payload"} -> p
        [] f = "payloadFlush"          -> [p EXCEPT !.queued = @ \o text]
        [] OTHER -> [PutCells(p, p.queued \o text) EXCEPT !.queued = <<>>]

TextFaults == PackFaults("index") \cup PackFaults("stream") \cup {"payload", "payloadFlush"}

\* Bytes of a pack that is lost: a torn write still wrote its value.
LostLens(f) == CASE f \in {"index", "stream"} -> 0 .. PackLen - 1
                 [] f \in {Torn["index"], Torn["stream"]} -> 1 .. PackLen - 1
                 [] OTHER -> {0}

Indexed(m) == \E p \in m.parts : p.type = "index"

\* AddDmsGenericPartUtf8Text of the IAB writer: the clip is not closed, and no
\* body partition is opened for the frames that follow. The results of the flush
\* and of the text are dropped; a first index partition that is lost takes the
\* entries of all frames with it.
AddDms(f) ==
  /\ writer.kind = "IAB" /\ writer.open
  /\ mxf.stream < MaxTexts
  /\ f \in PackFaults("index") => HasEntries(mxf)
  /\ \E lost \in LostLens(f) :
       mxf' = PutText(IF f \in PackFaults("index") THEN LoseIndex(mxf, f, lost) ELSE FlushVBR(mxf), f, lost)
  /\ CallLeaves("OK", f, IF f \in PackFaults("index") /\ ~Indexed(mxf) THEN 0
                         ELSE Min({past.sound, Len(past.accepted)}))
  /\ UNCHANGED writer

\* WriteAS02Footer: the index, the footer pack and the RIP
Footer(m) ==
  LET p == PushRip(PutPack(m, NewPack(m.pos, "footer", 0), "none"), 0, m.pos)
  IN  [p EXCEPT !.disk = p.rip]

\* A fault in WriteAS02Footer: the file has no RIP, or has one, and lost the pack
\* that was being written again or none.
FooterFails(m) ==
  LET closed == Footer(m)
  IN  {m} \cup {[closed EXCEPT !.parts = @ \ lost] : lost \in {{}} \cup {{p} : p \in closed.parts}}

\* There is a pack at every offset of the RIP: the loop that relinks them ends.
RipResolves(m) == \A i \in DOMAIN m.rip : Resolves(m, m.rip[i].at)

\* The length of the clip: the frames counted, or what the stream offset counted
ClipLength ==
  IF writer.kind = "PCM" THEN writer.frames * SampleLen ELSE writer.streamOffset - KLLen

\* The length goes over the zero of StartClip, and the file returns to its end.
BackPatch(m) ==
  [PutCells([m EXCEPT !.pos = writer.clipStart + 1], <<<<"length", ClipLength>>>>) EXCEPT !.pos = m.pos]

\* PCM: a failed FinalizeClip leaves the file open, at the length or after it,
\* the clip closed only if the length was written; the result of WriteAS02Footer
\* is dropped.
FinalizePCM ==
  /\ writer.kind = "PCM" /\ writer.st = "RUNNING"
  /\ LET patched == BackPatch(mxf)
         flushed == IF writer.frames > 0 THEN FlushIndex(patched, <<>>) ELSE patched
     IN  \/ /\ \/ mxf' = Footer(flushed) /\ Call("OK", "none")
               \/ mxf' \in FooterFails(flushed) /\ Call("OK", "footer")
            /\ writer' = [writer EXCEPT !.st = "FINAL", !.clipStart = 0, !.open = FALSE]
         \/ /\ mxf' = [mxf EXCEPT !.pos = writer.clipStart + 1]
            /\ writer' = [writer EXCEPT !.st = "FINAL"]
            /\ Call("FAIL", "length")
         \/ /\ mxf' = [patched EXCEPT !.pos = writer.clipStart + 2]
            /\ writer' = [writer EXCEPT !.st = "FINAL", !.clipStart = 0]
            /\ Call("FAIL", "seekBack")

\* IAB: the result of the seek to the length is overwritten by that of writing
\* it, wherever the file is; whatever happens, the writer is deleted. An entry of
\* the RIP that leads to no pack ends the relinking with an error.
FinalizeIAB ==
  /\ writer.kind = "IAB" /\ writer.st = "RUNNING"
  /\ writer' = NoWriter("IAB")
  /\ LET patched == BackPatch(mxf)
         astray  == [PutCells(mxf, <<<<"length", ClipLength>>>>) EXCEPT !.pos = mxf.pos]
         Closed(m, fault) == /\ mxf' = Footer(FlushVBR(m))
                             /\ Call(IF RipResolves(mxf') THEN "OK" ELSE "FAIL", fault)
     IN  \/ Closed(patched, "none")
         \/ Closed(astray, "seek")
         \/ mxf' = mxf /\ Call("FAIL", "length")
         \/ mxf' = patched /\ Call("FAIL", "seekBack")
         \/ mxf' \in FooterFails(FlushVBR(patched)) /\ \E result \in {"OK", "FAIL"} : Call(result, "footer")

\* Calls in a state that does not allow them. The PCM writer tests for its
\* object and, once the file is closed, cannot write; Finalize tests the state.
\* The IAB writer follows a null pointer when it has no object.
RefusedCall ==
  /\ \/ writer.kind = "PCM" /\ writer.st \notin {"RUNNING", "CRASHED"}
     \/ writer.kind = "IAB" /\ writer.st = "READY"
  /\ Call("STATE", "none")
  /\ UNCHANGED <<writer, mxf>>

CallWithoutObject ==
  /\ writer.kind = "IAB" /\ writer.st = "NONE"
  /\ writer' = [writer EXCEPT !.st = "CRASHED"]
  /\ Call("CRASH", "none")
  /\ UNCHANGED mxf

\* WriteKLToFile and the index writers assert write_count after a failed write:
\* the program stops.
AbortedWrite ==
  /\ writer.st \in {"NONE", "READY", "RUNNING"}
  /\ writer' = [writer EXCEPT !.st = "CRASHED", !.open = FALSE]
  /\ Call("ABORT", "assert")
  /\ UNCHANGED mxf

Init ==
  /\ \E kind \in {"PCM", "IAB"} : writer = NoWriter(kind)
  /\ mxf = Empty
  /\ past = [result |-> "OK", last |-> "none", opened |-> 0, offered |-> 0, accepted |-> <<>>, bytes |-> <<>>,
             faults |-> 0, sound |-> MaxBlocks]

Done == writer.st = "CRASHED" /\ UNCHANGED vars

Next ==
  \/ OpenWritePCM \/ OpenWriteIAB
  \/ \E len \in BlockLens : WriteFramePCM(len) \/ WriteFrameIAB(len)
  \/ \E f \in {"none"} \cup TextFaults : AddDms(f)
  \/ FinalizePCM \/ FinalizeIAB \/ RefusedCall \/ CallWithoutObject \/ AbortedWrite \/ Done

Spec == Init /\ [][Next]_vars

-----------------------------------------------------------------------------
(* The readers *)

CellAt(o) == IF o \in DOMAIN mxf.cells THEN mxf.cells[o] ELSE <<"none", 0>>

\* MXFReader::OpenRead of PCM: the first entry of the CBR index leads to the body
\* partition, where the clip's key and length must be.
ClipBegin == Part(mxf, FirstBody(mxf)).at + PackLen + KLLen
ClipSize == CellAt(ClipBegin - 1)[2]
OpensPCM ==
  /\ Openable(mxf)
  /\ Indexes(mxf) # {}
  /\ CellAt(ClipBegin - 2)[1] = "key"
  /\ ClipSize % SampleLen = 0

\* Mutant: a clip with a part of a frame at its end is one frame shorter.
ClipDurationWhole == ClipSize \div FrameLen

\* m_ClipDurationFrames: a partial frame at the end counts
ClipDuration == (ClipSize \div FrameLen) + (IF ClipSize % FrameLen > 0 THEN 1 ELSE 0)

\* ReadFrame of PCM: the offsets of frame n; the last one may be short
FrameCells(n) ==
  LET offset == n * FrameLen
      size == Min({FrameLen, ClipSize - offset})
  IN  [i \in 1 .. size |-> CellAt(ClipBegin + offset + i - 1)]

\* MXFReader::OpenRead of IAB
OpensIAB == Openable(mxf)

\* ReadFrame of IAB: the index leads to the frame, which knows its own length.
FrameIAB(n) ==
  LET at == Lookup(mxf, n)
  IN  IF at = 0 \/ CellAt(at)[1] # "size" THEN <<>>
      ELSE [i \in 1 .. CellAt(at)[2] |-> CellAt(at + i - 1)]

-----------------------------------------------------------------------------
Finalized == mxf.disk # <<>> /\ past.result = "OK" /\ past.last # "footer"

\* The readers are given back byte i of the clip, in the frame it falls into
ByteRead(i, byte) ==
  LET n == (i - 1) \div FrameLen
      at == ((i - 1) % FrameLen) + 1
  IN  n < ClipDuration /\ at \in DOMAIN FrameCells(n) /\ FrameCells(n)[at] = byte

\* Every buffer was a whole number of samples
Regular == \A i \in DOMAIN past.accepted : Len(past.accepted[i]) % SampleLen = 0

ClipTypeOK ==
  /\ writer.st \in {"NONE", "READY", "RUNNING", "FINAL", "CRASHED"}
  /\ \A o \in DOMAIN mxf.cells : mxf.cells[o][1] \in {"key", "length", "byte", "size", "text"}
  /\ past.faults \in 0 .. MaxFaults

\* What a finalized clip gives back: the frames of a PCM clip, one after the
\* other, are the bytes of the buffers that were accepted, whatever the lengths
\* of the buffers and of the reader's frames; the frames of an IAB clip are the
\* accepted ones. After a fault, or for IAB a text, only the buffers accepted
\* before it: a part of a block that was refused, or a partition in between,
\* displaces what follows. Nothing is promised, although Finalize returned
\* RESULT_OK, of
\*   - the frames of an IAB clip whose first index partition was lost by the flush
\*     of a text: AddDmsGenericPartUtf8Text drops the error (AS_02_IAB.cpp:298);
\*   - a clip whose footer met a fault: the PCM writer drops the result, and a torn
\*     pack is not noticed;
\*   - a PCM clip whose key could not be written whole, which does not open.
ClipReadsBack ==
  LET sound == SubSeq(past.accepted, 1, Min({past.sound, Len(past.accepted)}))
  IN  Finalized =>
        IF writer.kind = "IAB"
        THEN /\ OpensIAB
             /\ past.sound = MaxBlocks => Duration(Table(mxf)) = Len(past.accepted)
             /\ \A n \in DOMAIN sound : FrameIAB(n - 1) = sound[n]
        ELSE Regular /\ past.bytes # <<>> =>
               /\ OpensPCM
               /\ \A i \in DOMAIN past.bytes : ByteRead(i, past.bytes[i])
               /\ \A n \in 1 .. ClipDuration - 1 : Len(FrameCells(n - 1)) = FrameLen
               /\ past.faults = 0 =>
                    (ClipDuration - 1) * FrameLen + Len(FrameCells(ClipDuration - 1)) = Len(past.bytes)

=============================================================================
