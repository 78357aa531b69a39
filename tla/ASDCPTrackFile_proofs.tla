----------------------- MODULE ASDCPTrackFile_proofs -----------------------
(***************************************************************************)
(* Theorems about AS-DCP files, for every value of the constants.          *)
(*                                                                         *)
(* Of the writer: the type invariant, the pairing of the eyes, the         *)
(* agreement of the counted with the actual position, and the index, which *)
(* leads to the frames of files of any length, with any number of entries  *)
(* in a segment, and one or two packets in a frame.                        *)
(*                                                                         *)
(* Of what a reader finds in a finalized file: the properties speak of the *)
(* file that Finalize leaves behind; the invariant is about the file that  *)
(* is being written: where its packs and packets are, which packets no     *)
(* fault has touched, and which packet each entry of the index stands for. *)
(***************************************************************************)
EXTENDS ASDCPTrackFile, MXFFile_proofs, TLAPS

-----------------------------------------------------------------------------
(* Kinds and keys *)

KindOK(k) ==
  /\ k.eyes \in {1, 2}
  /\ k.vbr \in BOOLEAN /\ k.counts \in BOOLEAN /\ k.gop \in BOOLEAN /\ k.text \in BOOLEAN
  /\ k.eyes = 2 => k.vbr /\ k.counts /\ ~k.gop /\ ~k.text
  /\ k.text => k.vbr

LEMMA KindFacts ==
  ASSUME NEW k \in AllKinds
  PROVE  KindOK(k)
<1>1. KindOK(JP2K)
  BY DEF KindOK, JP2K
<1>2. KindOK(JXS)
  BY DEF KindOK, JXS, JP2K
<1>3. KindOK(Stereo)
  BY DEF KindOK, Stereo, JP2K
<1>4. KindOK(MPEG2)
  BY DEF KindOK, MPEG2, JP2K
<1>5. KindOK(PCM)
  BY DEF KindOK, PCM, JP2K
<1>6. KindOK(DCData) /\ KindOK(TimedText)
  BY DEF KindOK, DCData, TimedText, JP2K
<1>7. QED
  BY <1>1, <1>2, <1>3, <1>4, <1>5, <1>6 DEF AllKinds

LEMMA Int8Type ==
  ASSUME NEW n \in Int
  PROVE  Int8(n) \in Keys
<1>1. KeyModulus \in Nat \ {0}
  BY IndexAssumption
<1> DEFINE r == n % KeyModulus
<1>2. r \in 0 .. KeyModulus - 1
  BY <1>1
<1>3. Int8(n) = IF 2 * r < KeyModulus THEN r ELSE r - KeyModulus
  BY DEF Int8
<1> HIDE DEF r
<1>4. QED
  BY <1>1, <1>2, <1>3 DEF Keys

LEMMA ZeroKey == 0 \in Keys
  BY IndexAssumption DEF Keys

LEMMA FrameLensNat ==
  ASSUME NEW len \in FrameLens
  PROVE  len \in Nat \ {0}
  BY LengthAssumption

-----------------------------------------------------------------------------
(* The helpers on the file keep its type *)

LEMMA NewPackType ==
  ASSUME NEW at \in Nat, NEW type \in {"header", "body", "stream", "footer"}, NEW sid \in Nat
  PROVE  NewPack(at, type, sid) \in Pack
  BY DEF NewPack, Pack

LEMMA LastAt ==
  ASSUME NEW m \in MxfType, m.rip # <<>>
  PROVE  m.rip[Len(m.rip)].at \in Nat
<1>1. m.rip \in Seq(Pair)
  BY DEF MxfType
<1>2. m.rip[Len(m.rip)] \in Pair
  BY <1>1
<1>3. QED
  BY <1>2 DEF Pair

LEMMA PutPackType ==
  ASSUME NEW m \in MxfType, NEW pack \in Pack, NEW f
  PROVE  /\ PutPack(m, pack, f) \in MxfType
         /\ PutPack(m, pack, f).rip = m.rip
         /\ PutPack(m, pack, f).segs = m.segs
         /\ PutPack(m, pack, f).queued = m.queued
         /\ m.parts \subseteq PutPack(m, pack, f).parts
         /\ f = "none" => PutPack(m, pack, f).pos = m.pos + PackLen
<1> DEFINE pos   == m.pos + (IF f = "none" THEN PackLen ELSE PackLost)
           parts == IF f = "none" THEN m.parts \cup {pack} ELSE m.parts
<1>1. m \in MxfType /\ m.pos \in Nat /\ m.parts \in SUBSET Pack
  BY DEF MxfType
<1>2. PackLen \in Nat /\ PackLost \in Nat
  BY LengthAssumption
<1>3. /\ pos \in Nat /\ parts \in SUBSET Pack /\ m.parts \subseteq parts
      /\ f = "none" => pos = m.pos + PackLen
  BY <1>1, <1>2
<1>4. PutPack(m, pack, f) = [m EXCEPT !.pos = pos, !.parts = parts]
  BY DEF PutPack
<1> HIDE DEF pos, parts
<1>5. QED
  BY <1>1, <1>3, <1>4 DEF MxfType

LEMMA PushRipType ==
  ASSUME NEW m \in MxfType, NEW sid \in Nat, NEW at \in Nat
  PROVE  /\ PushRip(m, sid, at) \in MxfType
         /\ PushRip(m, sid, at).rip # <<>>
         /\ PushRip(m, sid, at).segs = m.segs
         /\ PushRip(m, sid, at).pos = m.pos
         /\ PushRip(m, sid, at).queued = m.queued
         /\ PushRip(m, sid, at).parts = m.parts
<1> DEFINE rip == Append(m.rip, [sid |-> sid, at |-> at])
<1>1. [sid |-> sid, at |-> at] \in Pair
  BY DEF Pair
<1>2. m \in MxfType /\ m.rip \in Seq(Pair)
  BY DEF MxfType
<1>3. rip \in Seq(Pair) /\ rip # <<>>
  BY <1>1, <1>2
<1>4. PushRip(m, sid, at) = [m EXCEPT !.rip = rip]
  BY DEF PushRip
<1> HIDE DEF rip
<1>5. QED
  BY <1>2, <1>3, <1>4 DEF MxfType

LEMMA PushIndexEntryType ==
  ASSUME NEW m \in MxfType, NEW entry \in Entry
  PROVE  /\ PushIndexEntry(m, entry) \in MxfType
         /\ PushIndexEntry(m, entry).rip = m.rip
         /\ PushIndexEntry(m, entry).pos = m.pos
         /\ PushIndexEntry(m, entry).queued = m.queued
         /\ PushIndexEntry(m, entry).parts = m.parts
<1> DEFINE n == Len(m.segs)
<1>1. m.segs \in Seq(Segment)
  BY DEF MxfType
<1>2. \E s \in Seq(Segment) : PushIndexEntry(m, entry) = [m EXCEPT !.segs = s]
  <2>1. CASE m.segs = <<>>
    <3>1. <<[start |-> 0, entries |-> <<entry>>]>> \in Seq(Segment)
      BY DEF Segment
    <3>2. QED
      BY <2>1, <3>1 DEF PushIndexEntry
  <2>2. CASE m.segs # <<>>
    <3>1. n \in 1 .. Len(m.segs) /\ m.segs[n] \in Segment
      BY <1>1, <2>2
    <3>2. SegmentEnd(m.segs[n]) \in Nat
      BY <3>1 DEF SegmentEnd, Segment
    <3>3. CASE Len(m.segs[n].entries) >= EntriesPerSegment
      <4> DEFINE s == [start |-> SegmentEnd(m.segs[n]), entries |-> <<entry>>]
      <4>1. s \in Segment
        BY <3>2 DEF Segment
      <4>2. PushIndexEntry(m, entry) = [m EXCEPT !.segs = Append(m.segs, s)]
        BY <2>2, <3>3 DEF PushIndexEntry
      <4> HIDE DEF s
      <4>3. Append(m.segs, s) \in Seq(Segment)
        BY <1>1, <4>1
      <4>4. QED
        BY <4>2, <4>3
    <3>4. CASE ~(Len(m.segs[n].entries) >= EntriesPerSegment)
      <4> DEFINE s == [m.segs[n] EXCEPT !.entries = Append(@, entry)]
      <4>1. s \in Segment
        <5>1. Append(m.segs[n].entries, entry) \in Seq(Entry)
          BY <3>1 DEF Segment
        <5>2. QED
          BY <3>1, <5>1 DEF Segment
      <4>2. PushIndexEntry(m, entry) = [m EXCEPT !.segs = [m.segs EXCEPT ![n] = s]]
        BY <2>2, <3>4 DEF PushIndexEntry
      <4> HIDE DEF s
      <4>3. [m.segs EXCEPT ![n] = s] \in Seq(Segment)
        BY <4>1, <1>1, <3>1
      <4>4. QED
        BY <4>2, <4>3
    <3>5. QED
      BY <3>3, <3>4
  <2>3. QED
    BY <2>1, <2>2
<1>3. QED
  BY <1>2 DEF MxfType

LEMMA StreamAdvanceType ==
  ASSUME NEW len \in Nat, NEW f
  PROVE  StreamAdvance(len, f) \in Nat
  BY DEF StreamAdvance

LEMMA PutPacketType ==
  ASSUME NEW m \in MxfType, NEW len \in Nat, NEW start \in BOOLEAN, NEW f, NEW lost \in 0 .. len,
         framesWritten \in Nat
  PROVE  /\ PutPacket(m, len, start, f, lost) \in MxfType
         /\ PutPacket(m, len, start, f, lost).rip = m.rip
         /\ PutPacket(m, len, start, f, lost).segs = m.segs
         /\ PutPacket(m, len, start, f, lost).parts = m.parts
         /\ f = "context" => PutPacket(m, len, start, f, lost) = m
         /\ f \notin PacketFaults =>
              /\ PutPacket(m, len, start, f, lost).queued = 0
              /\ PutPacket(m, len, start, f, lost).pos = m.pos + m.queued + len
<1> DEFINE after == PutPacket(m, len, start, f, lost)
<1>1. m.pos \in Nat /\ m.queued \in Nat /\ m.packets \in Seq(Packet)
  BY DEF MxfType
<1>2. CASE f = "context"
  BY <1>2 DEF PutPacket, PacketFaults
<1>3. CASE f = "flush"
  <2>1. after = [m EXCEPT !.pos = m.pos + lost, !.queued = m.queued + len]
    BY <1>3 DEF PutPacket
  <2> HIDE DEF after
  <2>2. m.pos + lost \in Nat /\ m.queued + len \in Nat
    BY <1>1
  <2>3. after \in MxfType /\ after.rip = m.rip /\ after.segs = m.segs /\ after.parts = m.parts
    BY <2>1, <2>2 DEF MxfType
  <2>4. QED
    BY <1>3, <2>3 DEF after, PacketFaults
<1>4. CASE f \notin {"context", "flush"}
  <2> DEFINE p == [at |-> m.pos + m.queued, len |-> len, hmac |-> framesWritten + 1, start |-> start]
             pos == m.pos + m.queued + len
             none == 0
             packets == Append(m.packets, p)
  <2>1. after = [m EXCEPT !.pos = pos, !.queued = none, !.packets = packets]
    BY <1>4 DEF PutPacket
  <2>2. p \in Packet
    BY <1>1 DEF Packet
  <2>3. pos \in Nat /\ none \in Nat
    BY <1>1
  <2> HIDE DEF p
  <2>4. packets \in Seq(Packet)
    BY <1>1, <2>2
  <2>5. /\ after \in MxfType /\ after.rip = m.rip /\ after.segs = m.segs /\ after.parts = m.parts
        /\ after.queued = none /\ after.pos = pos
    <3> HIDE DEF after, packets, pos, none
    <3>1. QED
      BY <2>1, <2>3, <2>4 DEF MxfType
  <2>6. QED
    BY <1>4, <2>5
<1>5. QED
  BY <1>2, <1>3, <1>4

LEMMA KeyOffsetType ==
  ASSUME NEW start \in BOOLEAN, gopOffset \in Nat
  PROVE  KeyOffset(start) \in Keys
<1>1. 0 - gopOffset \in Int
  OBVIOUS
<1>2. QED
  BY <1>1, Int8Type, ZeroKey DEF KeyOffset

LEMMA IndexedType ==
  ASSUME NEW m \in MxfType, NEW start \in BOOLEAN, NEW f,
         streamOffset \in Nat, gopOffset \in Nat
  PROVE  /\ Indexed(m, start, f) \in MxfType
         /\ Indexed(m, start, f).rip = m.rip
         /\ Indexed(m, start, f).pos = m.pos
         /\ Indexed(m, start, f).queued = m.queued
         /\ Indexed(m, start, f).parts = m.parts
<1> DEFINE entry == [offset |-> streamOffset, key |-> KeyOffset(start)]
<1>1. entry \in Entry
  BY KeyOffsetType DEF Entry
<1>2. Indexed(m, start, f) \in {m, PushIndexEntry(m, entry)}
  BY DEF Indexed
<1> HIDE DEF entry
<1>3. QED
  BY <1>1, <1>2, PushIndexEntryType

LEMMA FinalCountType ==
  ASSUME framesWritten \in Nat
  PROVE  FinalCount \in Nat
<1>1. DescriptorDuration \in Nat /\ framesWritten \div 2 \in Nat
  BY IndexAssumption
<1>2. QED
  BY <1>1 DEF FinalCount

LEMMA FooterType ==
  ASSUME NEW m \in MxfType, m.rip # <<>>, NEW f, framesWritten \in Nat,
         PackAt(m, 0) \in Pack
  PROVE  Footer(m, f).file \in MxfType
<1> DEFINE here   == m.pos
           prev   == m.rip[Len(m.rip)].at
           footer == [NewPack(here, "footer", 0) EXCEPT
                        !.prev = prev, !.footer = here, !.segs = m.segs]
           listed == PutPack(PushRip(m, 0, here), footer, PackFault(f, "footer"))
           disk   == IF f = "ripTorn" THEN listed.disk ELSE listed.rip
           old    == PackAt(m, 0)
           new    == [old EXCEPT !.footer = here]
           header == CASE f = "rewriteKept" -> {old}
                       [] f \in {"rewriteLost", "rewriteTorn"} -> {}
                       [] OTHER -> {new}
           all    == (listed.parts \ {old}) \cup header
           count  == IF f \in Rewrites \ {"rewriteOut"} THEN listed.duration ELSE FinalCount
           ok     == f \notin Rewrites \ {"rewriteTorn"}
<1>1. here \in Nat /\ prev \in Nat /\ m.segs \in Seq(Segment)
  BY LastAt DEF MxfType
<1>2. footer \in Pack
  <2>1. NewPack(here, "footer", 0) \in Pack
    BY <1>1, NewPackType
  <2> HIDE DEF here, prev
  <2>2. QED
    BY <1>1, <2>1 DEF Pack
<1>3. old \in Pack /\ new \in Pack
  <2> HIDE DEF here
  <2>1. QED
    BY <1>1 DEF Pack
<1>4. listed \in MxfType
  <2>1. PushRip(m, 0, here) \in MxfType
    BY <1>1, PushRipType
  <2> HIDE DEF footer, here
  <2>2. QED
    BY <1>2, <2>1, PutPackType
<1>5. Footer(m, f) =
        IF f \in {"footer", "rip"} \/ m.segs = <<>> THEN [file |-> listed, ok |-> FALSE]
        ELSE [file |-> [listed EXCEPT !.disk = disk, !.parts = all, !.duration = count],
              ok   |-> ok]
  BY DEF Footer
<1> HIDE DEF listed, new, old, footer, here, prev, ok
<1>6. header \subseteq Pack
  BY <1>3
<1> HIDE DEF header
<1>7. disk \in Seq(Pair) /\ all \in SUBSET Pack /\ count \in Nat
  BY <1>4, <1>6, FinalCountType DEF MxfType
<1> HIDE DEF all, count, disk
<1>8. [listed EXCEPT !.disk = disk, !.parts = all, !.duration = count] \in MxfType
  BY <1>4, <1>7 DEF MxfType
<1>9. QED
  BY <1>4, <1>5, <1>8

-----------------------------------------------------------------------------
(* The type invariant *)

CallTypeOK ==
  /\ last \in [op : {"None", "Any", "OpenWrite", "WriteFrame", "WriteText", "WriteAncillary", "Finalize"},
               fault : Faults \cup {"assert"},
               result : {"OK", "FAIL", "FORMAT", "SPHASE", "STATE", "INIT", "ABORT"}]
  /\ faults \in Seq([fault : Faults \cup {"assert"}, frames : Nat])

\* The header pack and the first entries of the RIP are there while the file is
\* open: Finalize rewrites the one and reads the other.
HeaderWritten == Writing => mxf.rip # <<>> /\ Resolves(mxf, 0)

\* No resource has been written before the file is open.
NoStreamBefore == state \in {"BEGIN", "UNOPENED"} => streams = 0

TypeInv == TypeOK /\ HeaderWritten /\ NoStreamBefore

LEMMA EmptyType == Empty \in MxfType
<1> DEFINE none == <<>>
<1>1. /\ none \in Seq(Packet) /\ none \in Seq(Pair) /\ none \in Seq(Segment)
      /\ 0 \in Nat /\ {} \in SUBSET Pack
  OBVIOUS
<1>2. Empty = [pos |-> 0, queued |-> 0, parts |-> {}, packets |-> none, rip |-> none,
               segs |-> none, disk |-> none, duration |-> 0]
  BY DEF Empty
<1> HIDE DEF none
<1>3. QED
  BY <1>1, <1>2 DEF MxfType

LEMMA FramesType ==
  ASSUME kind \in AllKinds, mxf \in MxfType
  PROVE  Frames \in Nat
<1>1. Len(mxf.packets) \in Nat
  BY DEF MxfType
<1>2. kind.eyes \in {1, 2}
  BY KindFacts DEF KindOK
<1>3. QED
  BY <1>1, <1>2 DEF Frames

LEMMA CallType ==
  ASSUME TypeOK,
         NEW op \in {"Any", "OpenWrite", "WriteFrame", "WriteText", "WriteAncillary", "Finalize"},
         NEW f \in Faults \cup {"assert"},
         NEW r \in {"OK", "FAIL", "FORMAT", "SPHASE", "STATE", "INIT", "ABORT"},
         Call(op, f, r)
  PROVE  CallTypeOK'
<1> DEFINE met == [fault : Faults \cup {"assert"}, frames : Nat]
           here == [fault |-> f, frames |-> Frames]
<1>1. Frames \in Nat
  BY FramesType DEF TypeOK
<1>2. here \in met
  BY <1>1
<1>3. faults \in Seq(met) /\ faults' \in {faults, Append(faults, here)}
  BY DEF TypeOK, Call
<1>4. faults' \in Seq(met)
  <2> HIDE DEF here, met
  <2>1. QED
    BY <1>2, <1>3
<1>5. last' = [op |-> op, fault |-> f, result |-> r]
  BY DEF Call
<1>6. QED
  BY <1>4, <1>5 DEF CallTypeOK

LEMMA NoFaultType == "none" \in Faults
  BY DEF Faults

\* Finalize has done its part, whether it returned or the program ended in it.
Ends(f) ==
  /\ f \in {"none"} \cup FinalizeFaults
  /\ state' \in {"FINAL", "ABORTED"}
  /\ \E r \in {"OK", "FAIL", "ABORT"} : Finishing(f, r)

LEMMA EndsEither ==
  ASSUME NEW f, Finalize(f) \/ FinalizeStops(f)
  PROVE  Ends(f)
<1>1. CASE Finalize(f)
  BY <1>1 DEF Finalize, Ends
<1>2. CASE FinalizeStops(f)
  BY <1>2 DEF FinalizeStops, FinalizeFaults, PackFaults, Ends
<1>3. QED
  BY <1>1, <1>2

THEOREM InitTypeInv == Init => TypeInv
<1> SUFFICES ASSUME Init PROVE TypeInv
  OBVIOUS
<1>1. kind \in AllKinds
  BY KindsAssumption DEF Init
<1>2. kind.eyes \in {1, 2}
  BY <1>1, KindFacts DEF KindOK
<1>3. nextPhase \in 1 .. kind.eyes
  BY <1>2 DEF Init
<1>4. mxf \in MxfType
  BY EmptyType DEF Init
<1>5. CallTypeOK
  BY NoFaultType DEF Init, CallTypeOK
<1>6. calls \in 0 .. MaxCalls /\ streams \in 0 .. MaxStreams
  BY BoundAssumption DEF Init
<1>7. TypeOK
  BY <1>1, <1>3, <1>4, <1>5, <1>6 DEF Init, TypeOK, CallTypeOK
<1>8. QED
  BY <1>7 DEF TypeInv, HeaderWritten, NoStreamBefore, Init, Writing

LEMMA OpenTypeInv ==
  ASSUME TypeInv, NEW f \in Faults, Open(f)
  PROVE  TypeInv'
<1> DEFINE header == [Empty EXCEPT !.pos = HeaderLen, !.parts = {NewPack(0, "header", 0)},
                                     !.duration = DescriptorDuration]
           index  == IF kind.vbr THEN <<>> ELSE <<[start |-> 0, entries |-> <<>>]>>
           body   == PutPack(PushRip(PushRip(header, 0, 0), 1, HeaderLen),
                             NewPack(HeaderLen, "body", 1), PackFault(f, "body"))
           opened == IF smpte THEN body ELSE PushRip(header, 1, 0)
           failed == f \in {"header", "body"}
           after  == [opened EXCEPT !.segs = index]
<1>1. /\ HeaderLen \in Nat /\ DescriptorDuration \in Nat
      /\ NewPack(0, "header", 0) \in Pack /\ NewPack(HeaderLen, "body", 1) \in Pack
  BY LengthAssumption, IndexAssumption, NewPackType
<1>2. header \in MxfType /\ NewPack(0, "header", 0) \in header.parts
  BY <1>1, EmptyType DEF MxfType
<1> HIDE DEF header
<1>3. body \in MxfType /\ body.rip # <<>> /\ header.parts \subseteq body.parts
  <2> DEFINE once == PushRip(header, 0, 0)
             twice == PushRip(once, 1, HeaderLen)
  <2>1. once \in MxfType /\ once.parts = header.parts
    BY <1>2, PushRipType
  <2>2. twice \in MxfType /\ twice.parts = header.parts /\ twice.rip # <<>>
    <3> HIDE DEF once
    <3>1. QED
      BY <1>1, <2>1, PushRipType
  <2>3. body = PutPack(twice, NewPack(HeaderLen, "body", 1), PackFault(f, "body"))
    OBVIOUS
  <2> HIDE DEF once, twice
  <2>4. QED
    BY <1>1, <2>2, <2>3, PutPackType
<1>4. PushRip(header, 1, 0) \in MxfType /\ PushRip(header, 1, 0).parts = header.parts
         /\ PushRip(header, 1, 0).rip # <<>>
  BY <1>2, PushRipType
<1> HIDE DEF body
<1>5. opened \in MxfType /\ opened.rip # <<>> /\ NewPack(0, "header", 0) \in opened.parts
  BY <1>2, <1>3, <1>4
<1>6. index \in Seq(Segment)
  <2>1. <<>> \in Seq(Entry)
    OBVIOUS
  <2>2. [start |-> 0, entries |-> <<>>] \in Segment
    BY <2>1 DEF Segment
  <2>3. QED
    BY <2>2
<1> HIDE DEF opened, index
<1>7. after \in MxfType /\ after.rip # <<>> /\ Resolves(after, 0)
  <2>1. after \in MxfType /\ after.rip = opened.rip /\ after.parts = opened.parts
    BY <1>5, <1>6 DEF MxfType
  <2>2. NewPack(0, "header", 0).at = 0
    BY DEF NewPack
  <2>3. QED
    BY <1>5, <2>1, <2>2 DEF Resolves
<1>8. /\ Call("OpenWrite", f, IF failed THEN "FAIL" ELSE "OK")
      /\ state' = IF failed THEN "BEGIN" ELSE "READY"
      /\ mxf' = IF failed THEN Empty ELSE after
      /\ framesWritten' = 0 /\ streamOffset' = 0 /\ nextPhase' = 1
      /\ UNCHANGED <<kind, smpte, gopOffset, calls, streams>>
      /\ state \in {"BEGIN", "UNOPENED"}
  BY DEF Open, opened, body, index, header
<1> HIDE DEF after, failed
<1>9. CallTypeOK'
  BY <1>8, CallType DEF TypeInv
<1>10. nextPhase' \in 1 .. kind'.eyes
  BY <1>8, KindFacts DEF TypeInv, TypeOK, KindOK
<1>11. QED
  BY <1>7, <1>8, <1>9, <1>10, EmptyType
     DEF TypeInv, TypeOK, CallTypeOK, HeaderWritten, NoStreamBefore, Writing

LEMMA WriteFrameTypeInv ==
  ASSUME TypeInv, NEW len \in FrameLens, NEW start \in BOOLEAN, NEW f \in Faults,
         NEW lost \in 0 .. len, WriteFrame(len, start, f, lost)
  PROVE  TypeInv'
<1> DEFINE put == PutPacket(mxf, len, start, f, lost)
           after == Indexed(put, start, f)
<1>1. /\ mxf \in MxfType /\ framesWritten \in Nat /\ streamOffset \in Nat /\ gopOffset \in Nat
      /\ len \in Nat /\ calls \in 0 .. MaxCalls
  BY FrameLensNat DEF TypeInv, TypeOK
<1>2. put \in MxfType /\ put.rip = mxf.rip /\ put.parts = mxf.parts
  BY <1>1, PutPacketType
<1> HIDE DEF put
<1>3. after \in MxfType /\ after.rip = mxf.rip /\ after.parts = mxf.parts
  BY <1>1, <1>2, IndexedType
<1>4. mxf' = after
  BY DEF WriteFrame, put
<1> HIDE DEF after
<1>5. Call("WriteFrame", f, IF f = "none" THEN "OK" ELSE "FAIL")
  BY DEF WriteFrame
<1>6. CallTypeOK'
  BY <1>5, CallType DEF TypeInv
<1>7. kind' = kind /\ nextPhase' \in 1 .. kind.eyes
  BY KindFacts DEF WriteFrame, PhaseMoves, TypeInv, TypeOK, KindOK
<1>8. /\ framesWritten' \in Nat
      /\ streamOffset' \in Nat
      /\ gopOffset' \in Nat
      /\ calls' \in 0 .. MaxCalls
  <2>1. StreamAdvance(len, f) \in Nat
    BY <1>1, StreamAdvanceType
  <2>2. QED
    BY <1>1, <2>1, BoundAssumption DEF WriteFrame
<1>9. TypeOK'
  BY <1>3, <1>4, <1>6, <1>7, <1>8 DEF WriteFrame, TypeInv, TypeOK, CallTypeOK
<1>10. QED
  BY <1>3, <1>4, <1>9 DEF WriteFrame, TypeInv, HeaderWritten, NoStreamBefore, Writing, Resolves

LEMMA WriteFrameClosedTypeInv ==
  ASSUME TypeInv, NEW len \in FrameLens \cup {0}, WriteFrameClosed(len)
  PROVE  TypeInv'
<1>1. len \in Nat /\ mxf \in MxfType /\ mxf.queued \in Nat
  BY FrameLensNat DEF TypeInv, TypeOK, MxfType
<1>2. mxf' \in MxfType
  <2>1. mxf.queued + len \in Nat
    BY <1>1
  <2>2. mxf' = [mxf EXCEPT !.queued = mxf.queued + len]
    BY DEF WriteFrameClosed
  <2>3. QED
    BY <1>1, <2>1, <2>2 DEF MxfType
<1>3. CallTypeOK'
  <2>1. Call("WriteFrame", "none", "FAIL")
    BY DEF WriteFrameClosed
  <2>2. QED
    BY <2>1, CallType, NoFaultType DEF TypeInv
<1>4. kind' = kind /\ nextPhase' \in 1 .. kind.eyes
  BY KindFacts DEF WriteFrameClosed, PhaseMoves, TypeInv, TypeOK, KindOK
<1>5. framesWritten' \in Nat /\ streamOffset' \in Nat /\ calls' \in 0 .. MaxCalls
  <2>1. framesWritten \in Nat /\ streamOffset \in Nat /\ calls \in 0 .. MaxCalls
    BY DEF TypeInv, TypeOK
  <2>2. /\ calls < MaxCalls /\ calls' = calls + 1 /\ streamOffset' = streamOffset + len
        /\ framesWritten' = framesWritten + 1 \/ framesWritten' = framesWritten
    BY DEF WriteFrameClosed
  <2>3. MaxCalls \in Nat
    BY BoundAssumption
  <2>4. QED
    BY <1>1, <2>1, <2>2, <2>3
<1>6. TypeOK'
  BY <1>2, <1>3, <1>4, <1>5 DEF WriteFrameClosed, TypeInv, TypeOK, CallTypeOK
<1>7. QED
  BY <1>6 DEF WriteFrameClosed, TypeInv, HeaderWritten, NoStreamBefore, Writing

LEMMA WriteTextTypeInv ==
  ASSUME TypeInv, NEW len \in FrameLens, NEW f \in Faults, NEW lost \in 0 .. len,
         WriteText(len, f, lost)
  PROVE  TypeInv'
<1> DEFINE no == FALSE
           put == PutPacket(mxf, len, no, f, lost)
           after == Indexed(put, no, f)
<1>1. /\ mxf \in MxfType /\ framesWritten \in Nat /\ streamOffset \in Nat /\ gopOffset \in Nat
      /\ len \in Nat /\ calls \in 0 .. MaxCalls
  BY FrameLensNat DEF TypeInv, TypeOK
<1> HIDE DEF no
<1>2. no \in BOOLEAN
  BY DEF no
<1>3. put \in MxfType /\ put.rip = mxf.rip /\ put.parts = mxf.parts
  BY <1>2, <1>1, PutPacketType
<1> HIDE DEF put
<1>4. after \in MxfType /\ after.rip = mxf.rip /\ after.parts = mxf.parts
  BY <1>2, <1>1, <1>3, IndexedType
<1>5. mxf' = after
  BY DEF WriteText, put, no
<1> HIDE DEF after
<1>6. Call("WriteText", f, IF f = "none" THEN "OK" ELSE "FAIL")
  BY DEF WriteText
<1>7. CallTypeOK'
  BY <1>6, CallType DEF TypeInv
<1>8. framesWritten' \in Nat /\ streamOffset' \in Nat /\ calls' \in 0 .. MaxCalls
  <2>1. StreamAdvance(len, f) \in Nat
    BY <1>1, StreamAdvanceType
  <2>2. QED
    BY <1>1, <2>1, BoundAssumption DEF WriteText
<1>9. TypeOK'
  BY <1>4, <1>5, <1>7, <1>8 DEF WriteText, TypeInv, TypeOK, CallTypeOK
<1>10. QED
  BY <1>4, <1>5, <1>9 DEF WriteText, TypeInv, HeaderWritten, NoStreamBefore, Writing, Resolves

\* What WriteAncillaryResource does to the file
LEMMA AncillaryFile ==
  ASSUME TypeInv, NEW f \in Faults, NEW lost \in 0 .. StreamLen, WriteAncillary(f, lost)
  PROVE  /\ mxf' \in MxfType /\ mxf'.rip # <<>> /\ mxf.parts \subseteq mxf'.parts
         /\ f \in {"none", "context"} => mxf'.queued = IF f = "none" THEN 0 ELSE mxf.queued
         /\ f = "none" => mxf'.pos = mxf.pos + PackLen + mxf.queued + StreamLen
         /\ f = "context" => mxf'.pos = mxf.pos + PackLen
         /\ f \in {"none", "context"} => mxf'.segs = mxf.segs /\ mxf'.packets = mxf.packets
<1> DEFINE sid    == FirstStream + streams
           prev   == mxf.rip[Len(mxf.rip)].at
           hmac   == framesWritten + 1
           pack   == [NewPack(mxf.pos, "stream", sid) EXCEPT !.prev = prev, !.hmac = hmac]
           listed == PushRip(mxf, sid, mxf.pos)
           wrote  == PutPack(listed, pack, PackFault(f, "stream"))
           no     == FALSE
           packet == PutPacket(wrote, StreamLen, no, f, lost)
           old    == mxf.packets
<1>1. /\ mxf \in MxfType /\ framesWritten \in Nat /\ mxf.pos \in Nat /\ mxf.rip # <<>>
      /\ streams \in 0 .. MaxStreams /\ StreamLen \in Nat /\ old \in Seq(Packet)
  BY LengthAssumption DEF TypeInv, TypeOK, HeaderWritten, Writing, WriteAncillary, MxfType
<1>2. sid \in Nat /\ prev \in Nat /\ hmac \in Nat
  BY <1>1, LastAt, BoundAssumption DEF FirstStream
<1>3. mxf' = IF f = "stream" THEN wrote ELSE [packet EXCEPT !.packets = old]
  BY DEF WriteAncillary
<1>4. no \in BOOLEAN
  OBVIOUS
<1> HIDE DEF sid, prev, hmac, old, no
<1>5. pack \in Pack
  <2>1. NewPack(mxf.pos, "stream", sid) \in Pack
    BY <1>1, <1>2, NewPackType
  <2>2. QED
    BY <1>2, <2>1 DEF Pack
<1> HIDE DEF pack
<1>6. /\ listed \in MxfType /\ listed.rip # <<>> /\ listed.parts = mxf.parts
      /\ listed.pos = mxf.pos /\ listed.queued = mxf.queued /\ listed.segs = mxf.segs
  <2>1. mxf \in MxfType /\ sid \in Nat /\ mxf.pos \in Nat
    BY <1>1, <1>2
  <2>2. QED
    BY <2>1, PushRipType
<1> HIDE DEF listed
<1>7. /\ wrote \in MxfType /\ wrote.rip # <<>> /\ mxf.parts \subseteq wrote.parts
      /\ wrote.queued = mxf.queued /\ wrote.segs = mxf.segs
      /\ PackFault(f, "stream") = "none" => wrote.pos = mxf.pos + PackLen
  BY <1>5, <1>6, PutPackType
<1> HIDE DEF wrote
<1>8. /\ packet \in MxfType /\ packet.rip = wrote.rip /\ packet.parts = wrote.parts
      /\ packet.segs = wrote.segs
      /\ f = "context" => packet = wrote
      /\ f \notin PacketFaults =>
           packet.queued = 0 /\ packet.pos = wrote.pos + wrote.queued + StreamLen
  <2>1. wrote \in MxfType /\ StreamLen \in Nat /\ lost \in 0 .. StreamLen /\ framesWritten \in Nat
    BY <1>1, <1>7
  <2> HIDE DEF packet
  <2>2. packet = PutPacket(wrote, StreamLen, no, f, lost)
    BY DEF packet
  <2>3. QED
    BY <1>4, <2>1, <2>2, PutPacketType
<1> HIDE DEF packet
<1>9. /\ [packet EXCEPT !.packets = old] \in MxfType
      /\ [packet EXCEPT !.packets = old].rip = packet.rip
      /\ [packet EXCEPT !.packets = old].parts = packet.parts
      /\ [packet EXCEPT !.packets = old].queued = packet.queued
      /\ [packet EXCEPT !.packets = old].pos = packet.pos
      /\ [packet EXCEPT !.packets = old].segs = packet.segs
      /\ [packet EXCEPT !.packets = old].packets = old
  BY <1>1, <1>8 DEF MxfType
<1>10. mxf' \in MxfType /\ mxf'.rip # <<>> /\ mxf.parts \subseteq mxf'.parts
  BY <1>3, <1>7, <1>8, <1>9
<1>11. ASSUME f \in {"none", "context"}
       PROVE  /\ PackFault(f, "stream") = "none"
              /\ mxf'.queued = packet.queued /\ mxf'.pos = packet.pos
              /\ mxf'.segs = mxf.segs /\ mxf'.packets = mxf.packets
  BY <1>3, <1>7, <1>8, <1>9, <1>11 DEF PackFault, Torn, old
<1>12. CASE f = "none"
  <2>1. f \notin PacketFaults
    BY <1>12 DEF PacketFaults
  <2>2. QED
    BY <1>7, <1>8, <1>10, <1>11, <1>12, <2>1
<1>13. CASE f = "context"
  BY <1>7, <1>8, <1>10, <1>11, <1>13
<1>14. QED
  BY <1>10, <1>12, <1>13

LEMMA WriteAncillaryTypeInv ==
  ASSUME TypeInv, NEW f \in Faults, NEW lost \in 0 .. StreamLen, WriteAncillary(f, lost)
  PROVE  TypeInv'
<1>1. mxf' \in MxfType /\ mxf'.rip # <<>> /\ mxf.parts \subseteq mxf'.parts
  BY AncillaryFile
<1>2. CallTypeOK'
  <2>1. Call("WriteAncillary", f, IF f \in {"none", "streamTorn"} THEN "OK" ELSE "FAIL")
    BY DEF WriteAncillary
  <2>2. QED
    BY <2>1, CallType DEF TypeInv
<1>3. framesWritten' \in Nat /\ streamOffset' \in Nat /\ streams' \in 0 .. MaxStreams
  <2>1. StreamAdvance(StreamLen, f) \in Nat
    BY StreamAdvanceType, LengthAssumption
  <2>2. QED
    BY <2>1, BoundAssumption DEF WriteAncillary, TypeInv, TypeOK
<1>4. TypeOK'
  BY <1>1, <1>2, <1>3 DEF WriteAncillary, TypeInv, TypeOK, CallTypeOK
<1>5. QED
  BY <1>1, <1>4 DEF WriteAncillary, TypeInv, HeaderWritten, NoStreamBefore, Writing, Resolves

LEMMA FinalizeTypeInv ==
  ASSUME TypeInv, NEW f \in Faults, Ends(f)
  PROVE  TypeInv'
<1>1. PICK r \in {"OK", "FAIL", "ABORT"} : Finishing(f, r)
  BY DEF Ends
<1>2. /\ mxf \in MxfType /\ framesWritten \in Nat /\ mxf.rip # <<>> /\ Resolves(mxf, 0)
  BY <1>1 DEF TypeInv, TypeOK, HeaderWritten, Writing, Finishing
<1>3. PackAt(mxf, 0) \in Pack
  <2>1. PackAt(mxf, 0) \in mxf.parts
    BY <1>2 DEF PackAt, Resolves
  <2>2. QED
    BY <1>2, <2>1 DEF MxfType
<1>4. mxf' \in MxfType
  BY <1>1, <1>2, <1>3, FooterType DEF Finishing
<1>5. framesWritten' \in Nat
  BY <1>1, <1>2, FinalCountType DEF Finishing
<1>6. CallTypeOK'
  <2>1. Call("Finalize", f, r)
    BY <1>1 DEF Finishing
  <2>2. QED
    BY <2>1, CallType DEF TypeInv
<1>7. state' \in {"FINAL", "ABORTED"}
  BY DEF Ends
<1>8. TypeOK'
  BY <1>1, <1>4, <1>5, <1>6, <1>7 DEF Finishing, TypeInv, TypeOK, CallTypeOK
<1>9. QED
  BY <1>1, <1>7, <1>8 DEF Finishing, TypeInv, HeaderWritten, NoStreamBefore, Writing

LEMMA OtherTypeInv ==
  ASSUME TypeInv,
         OpenRefused \/ FinalizeRefused \/ FinalizeAsserts \/ AbortedWrite \/ RefusedCall
  PROVE  TypeInv'
<1>1. CASE OpenRefused
  <2>1. Call("OpenWrite", "none", "FORMAT")
    BY <1>1 DEF OpenRefused
  <2>2. CallTypeOK'
    BY <2>1, CallType, NoFaultType DEF TypeInv
  <2>3. kind' = kind /\ nextPhase' \in 1 .. kind.eyes
    BY <1>1, KindFacts DEF OpenRefused, TypeInv, TypeOK, KindOK
  <2>4. QED
    BY <1>1, <2>2, <2>3, EmptyType
       DEF OpenRefused, TypeInv, TypeOK, CallTypeOK, HeaderWritten, NoStreamBefore, Writing
<1>2. CASE FinalizeRefused
  <2>1. Call("Finalize", "none", "STATE")
    BY <1>2 DEF FinalizeRefused
  <2>2. CallTypeOK'
    BY <2>1, CallType, NoFaultType DEF TypeInv
  <2>3. framesWritten' \in Nat
    BY <1>2 DEF FinalizeRefused, TypeInv, TypeOK
  <2>4. QED
    BY <1>2, <2>2, <2>3
       DEF FinalizeRefused, TypeInv, TypeOK, CallTypeOK, HeaderWritten, NoStreamBefore, Writing, Resolves
<1>3. CASE FinalizeAsserts
  <2>1. Call("Finalize", "none", "ABORT")
    BY <1>3 DEF FinalizeAsserts
  <2>2. CallTypeOK'
    BY <2>1, CallType, NoFaultType DEF TypeInv
  <2>3. QED
    BY <1>3, <2>2
       DEF FinalizeAsserts, TypeInv, TypeOK, CallTypeOK, HeaderWritten, NoStreamBefore, Writing
<1>4. CASE AbortedWrite
  <2>1. Call("Any", "assert", "ABORT")
    BY <1>4 DEF AbortedWrite
  <2>2. CallTypeOK'
    BY <2>1, CallType DEF TypeInv
  <2>3. QED
    BY <1>4, <2>2
       DEF AbortedWrite, TypeInv, TypeOK, CallTypeOK, HeaderWritten, NoStreamBefore, Writing
<1>5. CASE RefusedCall
  <2>1. PICK op \in {"Any", "WriteFrame", "Finalize", "WriteText", "WriteAncillary"},
             r \in {"INIT", "SPHASE", "STATE"} : Call(op, "none", r)
    BY <1>5 DEF RefusedCall
  <2>2. CallTypeOK'
    BY <2>1, CallType, NoFaultType DEF TypeInv
  <2>3. UNCHANGED <<kind, smpte, state, mxf, framesWritten, streamOffset, gopOffset, nextPhase,
                    calls, streams>>
    BY <1>5 DEF RefusedCall
  <2>4. QED
    BY <2>2, <2>3
       DEF TypeInv, TypeOK, CallTypeOK, HeaderWritten, NoStreamBefore, Writing, Resolves
<1>6. QED
  BY <1>1, <1>2, <1>3, <1>4, <1>5

THEOREM NextTypeInv == TypeInv /\ [Next]_vars => TypeInv'
<1> SUFFICES ASSUME TypeInv, [Next]_vars PROVE TypeInv'
  OBVIOUS
<1>1. ASSUME NEW f \in Faults, Open(f) PROVE TypeInv'
  BY <1>1, OpenTypeInv
<1>2. ASSUME NEW len \in FrameLens, NEW start \in BOOLEAN, NEW f \in Faults, NEW lost \in 0 .. len,
             WriteFrame(len, start, f, lost)
      PROVE  TypeInv'
  BY <1>2, WriteFrameTypeInv
<1>3. ASSUME NEW len \in FrameLens \cup {0}, WriteFrameClosed(len) PROVE TypeInv'
  BY <1>3, WriteFrameClosedTypeInv
<1>4. ASSUME NEW len \in FrameLens, NEW f \in Faults, NEW lost \in 0 .. len,
             WriteText(len, f, lost)
      PROVE  TypeInv'
  BY <1>4, WriteTextTypeInv
<1>5. ASSUME NEW f \in Faults, NEW lost \in 0 .. StreamLen, WriteAncillary(f, lost) PROVE TypeInv'
  BY <1>5, WriteAncillaryTypeInv
<1>6. ASSUME NEW f \in Faults, Finalize(f) \/ FinalizeStops(f) PROVE TypeInv'
  BY <1>6, EndsEither, FinalizeTypeInv
<1>7. CASE UNCHANGED vars
  BY <1>7 DEF vars, TypeInv, TypeOK, HeaderWritten, NoStreamBefore, Writing, Resolves
<1>8. QED
  BY <1>1, <1>2, <1>3, <1>4, <1>5, <1>6, <1>7, OtherTypeInv DEF Next

\* The variables of the writer (h__ASDCPWriter and its essence classes) keep their
\* types for all lengths, kinds and bounds, through every fault; in particular every
\* KeyFrameOffset fits its i8_t.
THEOREM TypeCorrect == Spec => []TypeOK
<1>1. Spec => []TypeInv
  BY InitTypeInv, NextTypeInv, PTL DEF Spec
<1>2. TypeInv => TypeOK
  BY DEF TypeInv
<1>3. QED
  BY <1>1, <1>2, PTL

-----------------------------------------------------------------------------
(* The pairing of the eyes *)

\* FinalizeRefused halves the counter: while a file is open it can only do so
\* before the first packet.
EyesInv ==
  /\ EyesPaired
  /\ kind.eyes = 2 /\ state = "READY" => framesWritten = 0

LEMMA NextEyesInv ==
  ASSUME TypeInv, EyesInv, [Next]_vars
  PROVE  EyesInv'
<1>1. KindOK(kind) /\ framesWritten \in Nat /\ nextPhase \in 1 .. kind.eyes
  BY KindFacts DEF TypeInv, TypeOK
<1>2. ASSUME NEW f \in Faults, Open(f) PROVE EyesInv'
  BY <1>2 DEF Open, EyesInv, EyesPaired
<1>3. CASE OpenRefused
  BY <1>3 DEF OpenRefused, EyesInv, EyesPaired, Writing
<1>4. ASSUME NEW len \in FrameLens, NEW start \in BOOLEAN, NEW f \in Faults, NEW lost \in 0 .. len,
             WriteFrame(len, start, f, lost)
      PROVE  EyesInv'
  <2>1. /\ kind' = kind /\ state' = "RUNNING"
        /\ Writing
        /\ framesWritten' = IF kind.counts \/ f = "none" THEN framesWritten + 1 ELSE framesWritten
        /\ nextPhase' = IF kind.eyes = 2 THEN 3 - nextPhase ELSE 1
    BY <1>4 DEF WriteFrame, PhaseMoves
  <2>2. kind.eyes = 2 => framesWritten' = framesWritten + 1 /\ nextPhase' = 3 - nextPhase
    BY <1>1, <2>1 DEF KindOK
  <2>3. kind.eyes = 2 => (framesWritten % 2 = 0 <=> nextPhase = 1)
    BY <2>1 DEF EyesInv, EyesPaired
  <2>4. kind.eyes = 2 => ((framesWritten + 1) % 2 = 0 <=> nextPhase = 2)
    BY <1>1, <2>3
  <2>5. QED
    BY <1>1, <2>1, <2>2, <2>4 DEF EyesInv, EyesPaired
<1>5. ASSUME NEW len \in FrameLens \cup {0}, WriteFrameClosed(len) PROVE EyesInv'
  BY <1>5 DEF WriteFrameClosed, EyesInv, EyesPaired, Writing
<1>6. ASSUME NEW len \in FrameLens, NEW f \in Faults, NEW lost \in 0 .. len, WriteText(len, f, lost)
      PROVE  EyesInv'
  BY <1>1, <1>6 DEF WriteText, EyesInv, EyesPaired, KindOK
<1>7. ASSUME NEW f \in Faults, NEW lost \in 0 .. StreamLen, WriteAncillary(f, lost) PROVE EyesInv'
  BY <1>1, <1>7 DEF WriteAncillary, EyesInv, EyesPaired, KindOK
<1>8. ASSUME NEW f \in Faults, Finalize(f) \/ FinalizeStops(f) PROVE EyesInv'
  BY <1>8 DEF Finalize, FinalizeStops, Finishing, EyesInv, EyesPaired, Writing
<1>9. CASE FinalizeRefused
  BY <1>1, <1>9 DEF FinalizeRefused, EyesInv, EyesPaired, Writing
<1>10. CASE FinalizeAsserts \/ AbortedWrite
  BY <1>10 DEF FinalizeAsserts, AbortedWrite, EyesInv, EyesPaired, Writing
<1>11. CASE RefusedCall
  BY <1>11 DEF RefusedCall, EyesInv, EyesPaired, Writing
<1>12. CASE UNCHANGED vars
  BY <1>12 DEF vars, EyesInv, EyesPaired, Writing
<1>13. QED
  BY <1>2, <1>3, <1>4, <1>5, <1>6, <1>7, <1>8, <1>9, <1>10, <1>11, <1>12 DEF Next

\* While a stereoscopic file is open, m_FramesWritten is even exactly when a left eye
\* is next, for any number of packets and whatever failed: the assertion in
\* MXFSWriter::Finalize cannot stop the program.
THEOREM EyesPairedHolds == Spec => []EyesPaired
<1>1. Init => EyesInv
  BY DEF Init, EyesInv, EyesPaired, Writing
<1>2. Spec => []TypeInv
  BY InitTypeInv, NextTypeInv, PTL DEF Spec
<1>3. TypeInv /\ EyesInv /\ [Next]_vars => EyesInv'
  BY NextEyesInv
<1>4. EyesInv => EyesPaired
  BY DEF EyesInv
<1>5. QED
  BY <1>1, <1>2, <1>3, <1>4, PTL DEF Spec

-----------------------------------------------------------------------------
(* The counted and the actual position *)

\* A packet on the iovec list would be written in front of the next one: without
\* harm the list is empty between two calls.
PositionInv ==
  (Writing /\ Unharmed) =>
    /\ mxf.queued = 0
    /\ mxf.pos = BodyStart + streamOffset + streams * PackLen

\* The faults that a call can meet without harm
LEMMA UnharmedCall ==
  ASSUME TypeInv, NEW op, NEW f, NEW r, Call(op, f, r), Unharmed'
  PROVE  Unharmed /\ f \in Harmless \cup {"none"}
<1> DEFINE here == [fault |-> f, frames |-> Frames]
           n    == Len(faults)
<1>1. faults \in Seq([fault : Faults \cup {"assert"}, frames : Nat])
  BY DEF TypeInv, TypeOK
<1>2. CASE f = "none"
  BY <1>2 DEF Call, Unharmed
<1>3. CASE f # "none"
  <2>1. faults' = Append(faults, here)
    BY <1>3 DEF Call
  <2> HIDE DEF here
  <2>2. /\ DOMAIN faults = 1 .. n /\ DOMAIN faults' = 1 .. n + 1 /\ n \in Nat
        /\ faults'[n + 1] = here /\ \A i \in 1 .. n : faults'[i] = faults[i]
    BY <1>1, <2>1
  <2>3. \A i \in DOMAIN faults' : faults'[i].fault \in Harmless
    BY DEF Unharmed
  <2>4. Unharmed
    BY <2>2, <2>3 DEF Unharmed
  <2>5. n + 1 \in DOMAIN faults'
    BY <2>2
  <2>6. here.fault \in Harmless
    BY <2>2, <2>3, <2>5
  <2>7. QED
    BY <2>4, <2>6 DEF here
<1>4. QED
  BY <1>2, <1>3

LEMMA BodyStartType == BodyStart \in Nat
  BY LengthAssumption DEF BodyStart

\* What OpenWrite leaves in the file
LEMMA OpenFile ==
  ASSUME TypeInv, NEW f \in Faults, Open(f), f \in {"none", "header", "body"}
  PROVE  Writing' => mxf'.queued = 0 /\ mxf'.pos = BodyStart /\ f = "none"
<1> DEFINE new    == NewPack(0, "header", 0)
           pack   == NewPack(HeaderLen, "body", 1)
           header == [Empty EXCEPT !.pos = HeaderLen, !.parts = {new},
                                     !.duration = DescriptorDuration]
           index  == IF kind.vbr THEN <<>> ELSE <<[start |-> 0, entries |-> <<>>]>>
           zero   == 0
           one    == 1
           once   == PushRip(header, zero, zero)
           twice  == PushRip(once, one, HeaderLen)
           body   == PutPack(twice, pack, "none")
           inter  == PushRip(header, one, zero)
           opened == IF smpte THEN body ELSE inter
<1> SUFFICES ASSUME Writing' PROVE mxf'.queued = 0 /\ mxf'.pos = BodyStart /\ f = "none"
  OBVIOUS
<1>1. f = "none" /\ mxf' = [opened EXCEPT !.segs = index]
  BY DEF Open, Writing, PackFault, Torn
<1>2. HeaderLen \in Nat /\ new \in Pack /\ pack \in Pack /\ zero \in Nat /\ one \in Nat
      /\ DescriptorDuration \in Nat
  BY LengthAssumption, IndexAssumption, NewPackType
<1>3. header \in MxfType /\ header.pos = HeaderLen /\ header.queued = Empty.queued
  <2> HIDE DEF new
  <2>1. QED
    BY <1>2, EmptyType DEF MxfType
<1>4. header.queued = 0
  BY <1>3 DEF Empty
<1> HIDE DEF new, pack, header, index, zero, one
<1>5. once \in MxfType /\ once.pos = HeaderLen /\ once.queued = 0
  BY <1>2, <1>3, <1>4, PushRipType
<1>6. inter \in MxfType /\ inter.pos = HeaderLen /\ inter.queued = 0
  BY <1>2, <1>3, <1>4, PushRipType
<1> HIDE DEF once, inter
<1>7. twice \in MxfType /\ twice.pos = HeaderLen /\ twice.queued = 0
  BY <1>2, <1>5, PushRipType
<1> HIDE DEF twice
<1>8. body \in MxfType /\ body.pos = HeaderLen + PackLen /\ body.queued = 0
  BY <1>2, <1>7, PutPackType
<1> HIDE DEF body
<1>9. opened \in MxfType /\ opened.queued = 0 /\ opened.pos = BodyStart
  BY <1>6, <1>8 DEF BodyStart
<1> HIDE DEF opened
<1>10. mxf'.queued = opened.queued /\ mxf'.pos = opened.pos
  BY <1>1, <1>9 DEF MxfType
<1>11. QED
  BY <1>1, <1>9, <1>10

\* What a packet of essence does to the position, for WriteFrame and WriteText alike
LEMMA PacketPosition ==
  ASSUME TypeInv, PositionInv, Writing, Unharmed,
         NEW len \in FrameLens, NEW start \in BOOLEAN, NEW f \in {"none", "context"},
         NEW lost \in 0 .. len,
         mxf' = Indexed(PutPacket(mxf, len, start, f, lost), start, f),
         streamOffset' = streamOffset + StreamAdvance(len, f),
         UNCHANGED <<smpte, streams>>
  PROVE  mxf'.queued = 0 /\ mxf'.pos = BodyStart' + streamOffset' + streams' * PackLen
<1> DEFINE put   == PutPacket(mxf, len, start, f, lost)
           packs == streams * PackLen
<1>1. /\ mxf \in MxfType /\ framesWritten \in Nat /\ streamOffset \in Nat /\ gopOffset \in Nat
      /\ len \in Nat /\ streams \in Nat /\ PackLen \in Nat
  BY FrameLensNat, LengthAssumption, BoundAssumption DEF TypeInv, TypeOK
<1>2. /\ put \in MxfType
      /\ f = "context" => put = mxf
      /\ f = "none" => put.queued = 0 /\ put.pos = mxf.pos + mxf.queued + len
  BY <1>1, PutPacketType DEF PacketFaults
<1> HIDE DEF put
<1>3. mxf'.pos = put.pos /\ mxf'.queued = put.queued
  BY <1>1, <1>2, IndexedType DEF put
<1>4. streams' * PackLen = packs /\ packs \in Nat /\ BodyStart' = BodyStart
  BY <1>1 DEF BodyStart
<1>5. mxf.queued = 0 /\ mxf.pos = BodyStart + streamOffset + packs
  BY DEF PositionInv
<1> HIDE DEF packs
<1>6. streamOffset' = streamOffset + (IF f = "none" THEN len ELSE 0)
  BY DEF StreamAdvance
<1>7. CASE f = "none"
  <2>1. mxf'.queued = 0 /\ mxf'.pos = (BodyStart + streamOffset + packs) + 0 + len
    BY <1>2, <1>3, <1>5, <1>7
  <2>2. streamOffset' = streamOffset + len
    BY <1>6, <1>7
  <2>3. (BodyStart + streamOffset + packs) + 0 + len = BodyStart + (streamOffset + len) + packs
    BY <1>1, <1>4, BodyStartType
  <2>4. QED
    BY <1>4, <2>1, <2>2, <2>3
<1>8. CASE f = "context"
  <2>1. streamOffset' = streamOffset
    BY <1>1, <1>6, <1>8
  <2>2. QED
    BY <1>2, <1>3, <1>4, <1>5, <1>8, <2>1
<1>9. QED
  BY <1>7, <1>8

LEMMA NextPositionInv ==
  ASSUME TypeInv, PositionInv, [Next]_vars
  PROVE  PositionInv'
<1> SUFFICES ASSUME Writing', Unharmed'
             PROVE  mxf'.queued = 0 /\ mxf'.pos = BodyStart' + streamOffset' + streams' * PackLen
  BY DEF PositionInv
<1> USE DEF Harmless
<1>1. /\ mxf \in MxfType /\ streamOffset \in Nat /\ streams \in Nat /\ PackLen \in Nat
      /\ BodyStart \in Nat /\ StreamLen \in Nat
  BY BodyStartType, LengthAssumption, BoundAssumption DEF TypeInv, TypeOK
<1>2. ASSUME NEW f \in Faults, Open(f) PROVE PositionInv'
  <2>1. f \in {"none", "header", "body", "context"}
    <3>1. PICK r : Call("OpenWrite", f, r)
      BY <1>2 DEF Open
    <3>2. QED
      BY <3>1, UnharmedCall
  <2>2. f # "context" /\ BodyStart' = BodyStart /\ streamOffset' = 0 /\ streams' = streams
           /\ state \in {"BEGIN", "UNOPENED"}
    BY <1>2 DEF Open, PackFaults, Torn, BodyStart
  <2>3. mxf'.queued = 0 /\ mxf'.pos = BodyStart
    BY <1>2, <2>1, <2>2, OpenFile
  <2>4. streams = 0 /\ 0 * PackLen = 0
    BY <1>1, <2>2 DEF TypeInv, NoStreamBefore
  <2>5. QED
    BY <1>1, <2>2, <2>3, <2>4 DEF PositionInv
<1>3. CASE OpenRefused
  BY <1>3 DEF OpenRefused, Writing
<1>4. ASSUME NEW len \in FrameLens, NEW start \in BOOLEAN, NEW f \in Faults, NEW lost \in 0 .. len,
             WriteFrame(len, start, f, lost)
      PROVE  PositionInv'
  <2>1. PICK r : Call("WriteFrame", f, r)
    BY <1>4 DEF WriteFrame
  <2>2. Unharmed /\ f \in {"none", "context"} /\ Writing
    BY <1>4, <2>1, UnharmedCall DEF WriteFrame, PacketFaults
  <2>3. QED
    BY <1>4, <2>2, PacketPosition DEF WriteFrame, PositionInv
<1>5. ASSUME NEW len \in FrameLens, NEW f \in Faults, NEW lost \in 0 .. len, WriteText(len, f, lost)
      PROVE  PositionInv'
  <2>1. PICK r : Call("WriteText", f, r)
    BY <1>5 DEF WriteText
  <2>2. Unharmed /\ f \in {"none", "context"} /\ Writing
    BY <1>5, <2>1, UnharmedCall DEF WriteText, PacketFaults, Writing
  <2> DEFINE no == FALSE
  <2>3. /\ no \in BOOLEAN
        /\ mxf' = Indexed(PutPacket(mxf, len, no, f, lost), no, f)
        /\ streamOffset' = streamOffset + StreamAdvance(len, f)
        /\ UNCHANGED <<smpte, streams>>
    BY <1>5 DEF WriteText
  <2> HIDE DEF no
  <2>4. QED
    BY <2>2, <2>3, PacketPosition DEF PositionInv
<1>6. ASSUME NEW f \in Faults, NEW lost \in 0 .. StreamLen, WriteAncillary(f, lost) PROVE PositionInv'
  <2>1. PICK r : Call("WriteAncillary", f, r)
    BY <1>6 DEF WriteAncillary
  <2>2. Unharmed /\ f \in {"none", "context"} /\ Writing
    BY <1>6, <2>1, UnharmedCall DEF WriteAncillary, PacketFaults, PackFaults, Torn, Writing
  <2>3. /\ mxf'.queued = IF f = "none" THEN 0 ELSE mxf.queued
        /\ f = "none" => mxf'.pos = mxf.pos + PackLen + mxf.queued + StreamLen
        /\ f = "context" => mxf'.pos = mxf.pos + PackLen
    BY <1>6, <2>2, AncillaryFile
  <2>4. /\ streams' = streams + 1 /\ BodyStart' = BodyStart
        /\ streamOffset' = streamOffset + (IF f = "none" THEN StreamLen ELSE 0)
    BY <1>6, <2>2 DEF WriteAncillary, StreamAdvance, BodyStart
  <2> DEFINE packs == streams * PackLen
  <2>5. streams' * PackLen = packs + PackLen /\ packs \in Nat
    BY <1>1, <2>4
  <2>6. mxf.queued = 0 /\ mxf.pos = BodyStart + streamOffset + packs
    BY <2>2 DEF PositionInv
  <2> HIDE DEF packs
  <2>7. mxf'.pos = BodyStart' + streamOffset' + streams' * PackLen
    BY <1>1, <2>2, <2>3, <2>4, <2>5, <2>6
  <2>8. QED
    BY <2>2, <2>3, <2>6, <2>7 DEF PositionInv
<1>7. ASSUME NEW f \in Faults, Finalize(f) \/ FinalizeStops(f) PROVE PositionInv'
  BY <1>7 DEF Finalize, FinalizeStops, Writing
<1>8. CASE FinalizeAsserts \/ AbortedWrite
  BY <1>8 DEF FinalizeAsserts, AbortedWrite, Writing
<1>9. ASSUME NEW len \in FrameLens \cup {0}, WriteFrameClosed(len) PROVE PositionInv'
  BY <1>9 DEF WriteFrameClosed, Writing
<1>10. CASE FinalizeRefused \/ RefusedCall
  <2>1. UNCHANGED <<state, mxf, smpte, streamOffset, streams>>
    BY <1>10 DEF FinalizeRefused, RefusedCall
  <2>2. \E op, r : Call(op, "none", r)
    BY <1>10 DEF FinalizeRefused, RefusedCall
  <2>3. Unharmed
    BY <2>2, UnharmedCall
  <2>4. QED
    BY <2>1, <2>3 DEF PositionInv, Writing, BodyStart
<1>11. CASE UNCHANGED vars
  BY <1>11 DEF vars, PositionInv, Writing, Unharmed, BodyStart
<1>12. QED
  BY <1>2, <1>3, <1>4, <1>5, <1>6, <1>7, <1>8, <1>9, <1>10, <1>11 DEF Next, PositionInv

\* While a file is open, and unless a packet was left on the iovec list or a pack was
\* lost unseen, the position that WriteEKLVPacket counts and puts in the index is the
\* one the file is at, for packets, resources and refused calls of any number and length.
THEOREM WritePositionHolds == Spec => []WritePosition
<1>1. Init => PositionInv
  BY DEF Init, PositionInv, Writing
<1>2. Spec => []TypeInv
  BY InitTypeInv, NextTypeInv, PTL DEF Spec
<1>3. TypeInv /\ PositionInv /\ [Next]_vars => PositionInv'
  BY NextPositionInv
<1>4. PositionInv => WritePosition
  BY DEF PositionInv, WritePosition
<1>5. QED
  BY <1>1, <1>2, <1>3, <1>4, PTL DEF Spec

-----------------------------------------------------------------------------
(* One packet and its entry *)

\* The entry leads to packet first, when essence starts at base
LeadsTo(base, packets, first, entry) ==
  /\ first \in DOMAIN packets
  /\ base + entry.offset = packets[first].at

\* Every entry leads to the first packet of the frame it numbers
Located(eyes, base, packets, segs) ==
  \A i \in DOMAIN segs : \A j \in DOMAIN segs[i].entries :
    LeadsTo(base, packets, eyes * (segs[i].start + j - 1) + 1, segs[i].entries[j])

\* A packet more leaves the entries where they lead.
LEMMA PacketKeepsEntries ==
  ASSUME NEW base, NEW packets \in Seq(Packet), NEW p \in Packet, NEW first, NEW entry,
         LeadsTo(base, packets, first, entry)
  PROVE  LeadsTo(base, Append(packets, p), first, entry)
<1> DEFINE more == Append(packets, p)
<1>1. /\ DOMAIN packets \subseteq DOMAIN more
      /\ \A i \in DOMAIN packets : more[i] = packets[i]
  OBVIOUS
<1> HIDE DEF more
<1>2. LeadsTo(base, more, first, entry)
  BY <1>1 DEF LeadsTo
<1>3. QED
  BY <1>2 DEF more

\* The entry pushed after the first packet of a frame gets the number of that frame.
LEMMA EntryLeadsToPacket ==
  ASSUME NEW m \in MxfType, NEW eyes \in {1, 2}, NEW base, NEW c \in Nat,
         NEW old \in Seq(Packet), NEW p \in Packet, NEW entry \in Entry,
         Located(eyes, base, old, m.segs), EndsAt(m.segs, c), eyes * c = Len(old),
         base + entry.offset = p.at
  PROVE  /\ Located(eyes, base, Append(old, p), PushIndexEntry(m, entry).segs)
         /\ EndsAt(PushIndexEntry(m, entry).segs, c + 1)
<1> DEFINE a == PushIndexEntry(m, entry)
           more == Append(old, p)
<1>1. Numbering(m, Entry, c)
  BY DEF Numbering, SegmentsOf, MxfType, Segment
<1>2. OneMore(m, a, c, entry)
  BY <1>1, PushIndexEntryNumbers
<1>3. LeadsTo(base, more, eyes * c + 1, entry)
  <2>1. Len(old) + 1 \in DOMAIN more /\ more[Len(old) + 1] = p
    OBVIOUS
  <2> HIDE DEF more
  <2>2. QED
    BY <2>1 DEF LeadsTo
<1>4. a \in MxfType
  BY PushIndexEntryType
<1> HIDE DEF a
<1>5. ASSUME NEW i \in DOMAIN a.segs, NEW j \in DOMAIN a.segs[i].entries
      PROVE  LeadsTo(base, more, eyes * (a.segs[i].start + j - 1) + 1, a.segs[i].entries[j])
  <2>1. CASE Kept(m, a, i, j)
    <3> DEFINE first == eyes * (m.segs[i].start + j - 1) + 1
               e == m.segs[i].entries[j]
    <3>1. LeadsTo(base, old, first, e)
      BY <2>1 DEF Located, Kept
    <3>2. a.segs[i].entries[j] = e /\ a.segs[i].start = m.segs[i].start
      BY <2>1 DEF Kept
    <3>3. eyes * (a.segs[i].start + j - 1) + 1 = first
      BY <3>2
    <3> HIDE DEF first, e, more
    <3>4. LeadsTo(base, more, first, e)
      BY <3>1, PacketKeepsEntries DEF more
    <3>5. QED
      BY <3>2, <3>3, <3>4
  <2>2. CASE a.segs[i].start + j = c + 1 /\ a.segs[i].entries[j] = entry
    <3> DEFINE s == a.segs[i].start
    <3>1. s \in Nat /\ j \in Nat /\ s + j = c + 1
      <4>1. a.segs[i] \in Segment
        BY <1>4 DEF MxfType
      <4>2. QED
        BY <2>2, <4>1 DEF Segment
    <3> HIDE DEF s
    <3>2. s + j - 1 = c
      BY <3>1
    <3> HIDE DEF more
    <3>3. QED
      BY <1>3, <2>2, <3>2 DEF s
  <2>3. QED
    BY <1>2, <2>1, <2>2 DEF OneMore
<1>6. Located(eyes, base, more, a.segs)
  <2> HIDE DEF more
  <2>1. QED
    BY <1>5 DEF Located
<1>7. EndsAt(a.segs, c + 1)
  BY <1>2 DEF OneMore
<1>8. QED
  BY <1>6, <1>7 DEF a

LEMMA PushIndexEntryPackets ==
  ASSUME NEW m \in MxfType, NEW entry \in Entry
  PROVE  /\ PushIndexEntry(m, entry).packets = m.packets
         /\ PushIndexEntry(m, entry).disk = m.disk
         /\ PushIndexEntry(m, entry).duration = m.duration
<1> DEFINE n == Len(m.segs)
<1>1. \E s : PushIndexEntry(m, entry) = [m EXCEPT !.segs = s]
  <2>1. CASE m.segs = <<>>
    BY <2>1 DEF PushIndexEntry
  <2>2. CASE m.segs # <<>> /\ Len(m.segs[n].entries) >= EntriesPerSegment
    BY <2>2 DEF PushIndexEntry
  <2>3. CASE m.segs # <<>> /\ ~(Len(m.segs[n].entries) >= EntriesPerSegment)
    <3> DEFINE s == [m.segs EXCEPT ![n] = [m.segs[n] EXCEPT !.entries = Append(@, entry)]]
    <3>1. PushIndexEntry(m, entry) = [m EXCEPT !.segs = s]
      BY <2>3 DEF PushIndexEntry
    <3>2. QED
      BY <3>1
  <2>4. QED
    BY <2>1, <2>2, <2>3
<1>2. QED
  BY <1>1 DEF MxfType

\* A packet that is written goes to where the file position is.
LEMMA PutPacketAppends ==
  ASSUME NEW m \in MxfType, NEW len \in Nat, NEW start \in BOOLEAN, NEW lost, m.queued = 0,
         framesWritten \in Nat
  PROVE  \E p \in Packet : /\ p.at = m.pos
                           /\ PutPacket(m, len, start, "none", lost).packets = Append(m.packets, p)
<1> DEFINE p == [at |-> m.pos + m.queued, len |-> len, hmac |-> framesWritten + 1, start |-> start]
<1>1. m.pos \in Nat /\ m.queued \in Nat
  BY DEF MxfType
<1>2. p \in Packet /\ p.at = m.pos
  BY <1>1 DEF Packet
<1>3. PutPacket(m, len, start, "none", lost).packets = Append(m.packets, p)
  BY DEF PutPacket, MxfType
<1>4. QED
  BY <1>2, <1>3

-----------------------------------------------------------------------------
(* The invariant *)

\* Nothing has happened that moves packets against their entries
Aligned ==
  /\ Writing /\ Unharmed /\ kind.vbr
  /\ kind.eyes = 2 => faults = <<>>

\* The next entry is that of the frame of the next packet, or of the one before when
\* a right eye is next; resources, which advance the position too, only follow the
\* document.
IndexInv ==
  Aligned =>
    /\ Located(kind.eyes, BodyStart, mxf.packets, mxf.segs)
    /\ \E c \in Nat : EndsAt(mxf.segs, c) /\ kind.eyes * c = Len(mxf.packets) + nextPhase - 1

NoStreamAhead == state \in {"BEGIN", "UNOPENED", "READY"} \/ ~kind.text => streams = 0

LEMMA OpenIndex ==
  ASSUME TypeInv, NEW f \in Faults, Open(f), Aligned'
  PROVE  mxf'.segs = <<>> /\ mxf'.packets = <<>> /\ nextPhase' = 1
<1> DEFINE new    == NewPack(0, "header", 0)
           pack   == NewPack(HeaderLen, "body", 1)
           header == [Empty EXCEPT !.pos = HeaderLen, !.parts = {new},
                                     !.duration = DescriptorDuration]
           zero   == 0
           one    == 1
           once   == PushRip(header, zero, zero)
           twice  == PushRip(once, one, HeaderLen)
           body   == PutPack(twice, pack, PackFault(f, "body"))
           inter  == PushRip(header, one, zero)
           opened == IF smpte THEN body ELSE inter
           none   == <<>>
<1>1. mxf' = [opened EXCEPT !.segs = none] /\ nextPhase' = 1
  BY DEF Open, Writing, Aligned
<1>2. HeaderLen \in Nat /\ new \in Pack /\ pack \in Pack /\ zero \in Nat /\ one \in Nat
      /\ DescriptorDuration \in Nat
  BY LengthAssumption, IndexAssumption, NewPackType
<1>3. header \in MxfType /\ header.packets = Empty.packets
  <2> HIDE DEF new
  <2>1. QED
    BY <1>2, EmptyType DEF MxfType
<1>4. header.packets = <<>>
  BY <1>3 DEF Empty
<1>5. once.packets = <<>> /\ inter.packets = <<>> /\ once \in MxfType /\ inter \in MxfType
  <2>1. once.packets = header.packets /\ inter.packets = header.packets
    BY <1>3 DEF PushRip, MxfType
  <2> HIDE DEF header, zero, one
  <2>2. once \in MxfType /\ inter \in MxfType
    BY <1>2, <1>3, PushRipType
  <2>3. QED
    BY <1>4, <2>1, <2>2
<1> HIDE DEF new, header, zero, one, once, inter
<1>6. twice.packets = <<>> /\ twice \in MxfType
  <2>1. twice.packets = once.packets
    BY <1>5 DEF PushRip, MxfType
  <2>2. twice \in MxfType
    BY <1>2, <1>5, PushRipType
  <2>3. QED
    BY <1>5, <2>1, <2>2
<1> HIDE DEF twice, pack
<1>7. body.packets = <<>> /\ body \in MxfType
  <2>1. body.packets = twice.packets
    BY <1>6 DEF PutPack, MxfType
  <2>2. body \in MxfType
    BY <1>2, <1>6, PutPackType
  <2>3. QED
    BY <1>6, <2>1, <2>2
<1> HIDE DEF body
<1>8. opened.packets = <<>> /\ opened \in MxfType
  BY <1>5, <1>7
<1> HIDE DEF opened
<1>9. mxf'.segs = none /\ mxf'.packets = opened.packets
  BY <1>1, <1>8 DEF MxfType
<1>10. QED
  BY <1>1, <1>8, <1>9

\* A packet of essence and its entry, for WriteFrame and WriteText alike
LEMMA PacketIndex ==
  ASSUME TypeInv, PositionInv, NoStreamAhead, IndexInv, Writing, Aligned,
         kind.text => state = "READY",
         NEW len \in FrameLens, NEW start \in BOOLEAN, NEW f \in {"none", "context"},
         NEW lost \in 0 .. len,
         mxf' = Indexed(PutPacket(mxf, len, start, f, lost), start, f),
         nextPhase' = IF f = "context" THEN nextPhase
                      ELSE IF kind.eyes = 2 THEN 3 - nextPhase ELSE nextPhase,
         UNCHANGED <<smpte, kind>>
  PROVE  /\ Located(kind.eyes, BodyStart, mxf'.packets, mxf'.segs)
         /\ \E c \in Nat : EndsAt(mxf'.segs, c)
                             /\ kind.eyes * c = Len(mxf'.packets) + nextPhase' - 1
<1> DEFINE put   == PutPacket(mxf, len, start, f, lost)
           entry == [offset |-> streamOffset, key |-> KeyOffset(start)]
           old   == mxf.packets
           eyes  == kind.eyes
           base  == BodyStart
<1>1. /\ mxf \in MxfType /\ framesWritten \in Nat /\ streamOffset \in Nat /\ gopOffset \in Nat
      /\ len \in Nat /\ old \in Seq(Packet) /\ eyes \in {1, 2} /\ nextPhase \in 1 .. eyes
  BY FrameLensNat, KindFacts DEF TypeInv, TypeOK, MxfType, KindOK
<1>2. Located(eyes, base, old, mxf.segs)
  BY DEF IndexInv
<1>3. PICK c \in Nat : EndsAt(mxf.segs, c) /\ eyes * c = Len(old) + nextPhase - 1
  BY DEF IndexInv
<1>4. CASE f = "context"
  <2>1. mxf' = mxf /\ nextPhase' = nextPhase
    BY <1>4 DEF Indexed, PutPacket, PacketFaults
  <2>2. QED
    BY <1>2, <1>3, <2>1
<1>5. CASE f = "none"
  <2>1. put \in MxfType /\ put.segs = mxf.segs
    BY <1>1, PutPacketType
  <2>2. mxf.queued = 0 /\ mxf.pos = base + streamOffset
    <3>1. streams = 0
      BY DEF NoStreamAhead
    <3>2. 0 * PackLen = 0
      BY LengthAssumption
    <3>3. QED
      BY <1>1, <3>1, <3>2, BodyStartType DEF PositionInv, Aligned
  <2>3. PICK p \in Packet : p.at = mxf.pos /\ put.packets = Append(old, p)
    BY <1>1, <1>5, <2>2, PutPacketAppends
  <2> HIDE DEF put
  <2>4. entry \in Entry
    BY <1>1, KeyOffsetType DEF Entry
  <2>5. base + entry.offset = p.at
    BY <2>2, <2>3
  <2>6. Len(Append(old, p)) = Len(old) + 1 /\ Len(old) \in Nat
    BY <1>1, <2>3
  <2>7. CASE nextPhase = 1
    <3>1. mxf' = PushIndexEntry(put, entry)
      BY <1>5, <2>7 DEF Indexed, PacketFaults, Aligned, put
    <3>2. eyes * c = Len(old)
      BY <1>1, <1>3, <2>6, <2>7
    <3> HIDE DEF entry, old, eyes, base
    <3>3. /\ Located(eyes, base, Append(old, p), mxf'.segs)
          /\ EndsAt(mxf'.segs, c + 1)
      BY <1>1, <1>2, <1>3, <2>1, <2>3, <2>4, <2>5, <3>1, <3>2, EntryLeadsToPacket
    <3>4. mxf'.packets = Append(old, p)
      BY <2>1, <2>3, <2>4, <3>1, PushIndexEntryPackets
    <3>5. nextPhase' = IF eyes = 2 THEN 2 ELSE 1
      BY <1>5, <2>7 DEF eyes
    <3>6. eyes * (c + 1) = Len(old) + 1 + nextPhase' - 1
      BY <1>1, <2>6, <3>2, <3>5
    <3>7. QED
      BY <2>6, <3>3, <3>4, <3>6 DEF eyes, base
  <2>8. CASE nextPhase = 2
    <3>1. mxf' = put /\ eyes = 2 /\ nextPhase' = 1
      BY <1>1, <1>5, <2>8 DEF Indexed, put
    <3> HIDE DEF entry, old, eyes, base
    <3>2. Located(eyes, base, Append(old, p), mxf.segs)
      BY <1>1, <1>2, <2>3, PacketKeepsEntries DEF Located
    <3>3. eyes * c = Len(Append(old, p)) + 1 - 1
      BY <1>3, <2>6, <2>8
    <3>4. QED
      BY <1>3, <2>1, <2>3, <3>1, <3>2, <3>3 DEF eyes, base
  <2>9. nextPhase = 1 \/ nextPhase = 2
    BY <1>1
  <2>10. QED
    BY <2>7, <2>8, <2>9
<1>6. QED
  BY <1>4, <1>5

\* The faults of a file in which nothing has moved
LEMMA AlignedCall ==
  ASSUME TypeInv, NEW op, NEW f, NEW r, Call(op, f, r), Aligned', kind' = kind
  PROVE  /\ Unharmed /\ kind.vbr
         /\ kind.eyes = 2 => faults = <<>> /\ f = "none"
         /\ f \in Harmless \cup {"none"}
<1>1. Unharmed /\ kind.vbr /\ f \in Harmless \cup {"none"}
  BY UnharmedCall DEF Aligned
<1>2. ASSUME kind.eyes = 2 PROVE faults = <<>> /\ f = "none"
  <2> DEFINE here == [fault |-> f, frames |-> Frames]
             n    == Len(faults)
  <2>1. faults' = <<>> /\ DOMAIN faults' = {}
    BY <1>2 DEF Aligned
  <2>2. faults \in Seq([fault : Faults \cup {"assert"}, frames : Nat])
    BY DEF TypeInv, TypeOK
  <2>3. faults' = IF f = "none" THEN faults ELSE Append(faults, here)
    BY DEF Call
  <2> HIDE DEF here
  <2>4. ASSUME f # "none" PROVE FALSE
    <3>1. n \in Nat /\ DOMAIN faults' = 1 .. n + 1
      BY <2>2, <2>3, <2>4
    <3> HIDE DEF n
    <3>2. 1 \in 1 .. n + 1
      BY <3>1
    <3>3. QED
      BY <2>1, <3>1, <3>2
  <2>5. QED
    BY <2>1, <2>3, <2>4
<1>3. QED
  BY <1>1, <1>2

LEMMA NextNoStreamAhead ==
  ASSUME TypeInv, NoStreamAhead, [Next]_vars
  PROVE  NoStreamAhead'
<1>1. ASSUME NEW f \in Faults, Open(f) PROVE NoStreamAhead'
  BY <1>1 DEF Open, NoStreamAhead, TypeInv, NoStreamBefore
<1>2. ASSUME NEW len \in FrameLens, NEW start \in BOOLEAN, NEW f \in Faults, NEW lost \in 0 .. len,
             WriteFrame(len, start, f, lost)
      PROVE  NoStreamAhead'
  BY <1>2 DEF WriteFrame, NoStreamAhead
<1>3. ASSUME NEW len \in FrameLens \cup {0}, WriteFrameClosed(len) PROVE NoStreamAhead'
  BY <1>3 DEF WriteFrameClosed, NoStreamAhead
<1>4. ASSUME NEW len \in FrameLens, NEW f \in Faults, NEW lost \in 0 .. len, WriteText(len, f, lost)
      PROVE  NoStreamAhead'
  BY <1>4 DEF WriteText, NoStreamAhead
<1>5. ASSUME NEW f \in Faults, NEW lost \in 0 .. StreamLen, WriteAncillary(f, lost)
      PROVE  NoStreamAhead'
  BY <1>5 DEF WriteAncillary, NoStreamAhead
<1>6. ASSUME NEW f \in Faults, Finalize(f) \/ FinalizeStops(f) PROVE NoStreamAhead'
  BY <1>6 DEF Finalize, FinalizeStops, Finishing, NoStreamAhead
<1>7. CASE OpenRefused \/ FinalizeRefused \/ FinalizeAsserts \/ AbortedWrite \/ RefusedCall
  BY <1>7 DEF OpenRefused, FinalizeRefused, FinalizeAsserts, AbortedWrite, RefusedCall,
              NoStreamAhead, TypeInv, NoStreamBefore
<1>8. CASE UNCHANGED vars
  BY <1>8 DEF vars, NoStreamAhead
<1>9. QED
  BY <1>1, <1>2, <1>3, <1>4, <1>5, <1>6, <1>7, <1>8 DEF Next

LEMMA NextIndexInv ==
  ASSUME TypeInv, PositionInv, NoStreamAhead, IndexInv, [Next]_vars
  PROVE  IndexInv'
<1> DEFINE Located1 == Located(kind.eyes, BodyStart, mxf.packets, mxf.segs)
           Counted  == \E c \in Nat : EndsAt(mxf.segs, c)
                                        /\ kind.eyes * c = Len(mxf.packets) + nextPhase - 1
<1> SUFFICES ASSUME Aligned' PROVE Located1' /\ Counted'
  BY DEF IndexInv
<1>1. kind.eyes \in {1, 2} /\ nextPhase \in 1 .. kind.eyes /\ (kind.text => kind.eyes = 1)
  BY KindFacts DEF TypeInv, TypeOK, KindOK
<1>2. ASSUME UNCHANGED <<kind, smpte, nextPhase>>, mxf'.segs = mxf.segs, mxf'.packets = mxf.packets,
             Aligned
      PROVE  Located1' /\ Counted'
  BY <1>2 DEF IndexInv, BodyStart
<1>3. ASSUME NEW f \in Faults, Open(f) PROVE Located1' /\ Counted'
  <2>1. mxf'.segs = <<>> /\ mxf'.packets = <<>> /\ nextPhase' = 1 /\ kind' = kind
    BY <1>3, OpenIndex DEF Open
  <2>2. Located1'
    BY <2>1 DEF Located
  <2>3. EndsAt(mxf'.segs, 0) /\ kind'.eyes * 0 = Len(mxf'.packets) + nextPhase' - 1
    BY <1>1, <2>1 DEF EndsAt
  <2>4. QED
    BY <2>2, <2>3
<1>4. CASE OpenRefused
  BY <1>4 DEF OpenRefused, Aligned, Writing
<1>5. ASSUME NEW len \in FrameLens, NEW start \in BOOLEAN, NEW f \in Faults, NEW lost \in 0 .. len,
             WriteFrame(len, start, f, lost)
      PROVE  Located1' /\ Counted'
  <2>1. PICK r : Call("WriteFrame", f, r)
    BY <1>5 DEF WriteFrame
  <2>2. /\ f \in {"none", "context"} /\ Aligned /\ (kind.eyes = 2 => f = "none")
        /\ Writing /\ ~kind.text
    BY <1>5, <2>1, AlignedCall DEF WriteFrame, PacketFaults, Harmless, Aligned
  <2>3. /\ mxf' = Indexed(PutPacket(mxf, len, start, f, lost), start, f)
        /\ UNCHANGED <<smpte, kind>>
        /\ nextPhase' = IF kind.eyes = 2 THEN 3 - nextPhase ELSE 1
    BY <1>5 DEF WriteFrame, PhaseMoves
  <2>4. nextPhase' = IF f = "context" THEN nextPhase
                     ELSE IF kind.eyes = 2 THEN 3 - nextPhase ELSE nextPhase
    BY <1>1, <2>2, <2>3
  <2>5. /\ Located(kind.eyes, BodyStart, mxf'.packets, mxf'.segs)
        /\ \E c \in Nat : EndsAt(mxf'.segs, c)
                            /\ kind.eyes * c = Len(mxf'.packets) + nextPhase' - 1
    BY <2>2, <2>3, <2>4, PacketIndex
  <2>6. QED
    BY <2>3, <2>5 DEF BodyStart
<1>6. ASSUME NEW len \in FrameLens, NEW f \in Faults, NEW lost \in 0 .. len, WriteText(len, f, lost)
      PROVE  Located1' /\ Counted'
  <2>1. PICK r : Call("WriteText", f, r)
    BY <1>6 DEF WriteText
  <2>2. /\ f \in {"none", "context"} /\ Aligned
        /\ Writing /\ kind.text /\ state = "READY"
    BY <1>6, <2>1, AlignedCall DEF WriteText, PacketFaults, Harmless, Aligned, Writing
  <2> DEFINE no == FALSE
  <2>3. /\ mxf' = Indexed(PutPacket(mxf, len, no, f, lost), no, f)
        /\ UNCHANGED <<smpte, kind, nextPhase>>
        /\ no \in BOOLEAN
    BY <1>6 DEF WriteText
  <2> HIDE DEF no
  <2>4. nextPhase' = IF f = "context" THEN nextPhase
                     ELSE IF kind.eyes = 2 THEN 3 - nextPhase ELSE nextPhase
    BY <1>1, <2>2, <2>3
  <2>5. /\ Located(kind.eyes, BodyStart, mxf'.packets, mxf'.segs)
        /\ \E c \in Nat : EndsAt(mxf'.segs, c)
                            /\ kind.eyes * c = Len(mxf'.packets) + nextPhase' - 1
    BY <2>2, <2>3, <2>4, PacketIndex
  <2>6. QED
    BY <2>3, <2>5 DEF BodyStart
<1>7. ASSUME NEW f \in Faults, NEW lost \in 0 .. StreamLen, WriteAncillary(f, lost)
      PROVE  Located1' /\ Counted'
  <2>1. PICK r : Call("WriteAncillary", f, r)
    BY <1>7 DEF WriteAncillary
  <2>2. UNCHANGED <<kind, smpte, nextPhase>> /\ state = "RUNNING" /\ kind.text
    BY <1>7 DEF WriteAncillary
  <2>3. Aligned /\ f \in {"none", "context"}
    BY <1>1, <1>7, <2>1, <2>2, AlignedCall
       DEF WriteAncillary, Aligned, Writing, Harmless, PacketFaults, PackFaults, Torn
  <2>4. mxf'.segs = mxf.segs /\ mxf'.packets = mxf.packets
    BY <1>7, <2>3, AncillaryFile
  <2>5. QED
    BY <1>2, <2>2, <2>3, <2>4
<1>8. ASSUME NEW f \in Faults, Finalize(f) \/ FinalizeStops(f) PROVE FALSE
  BY <1>8 DEF Finalize, FinalizeStops, Aligned, Writing
<1>9. CASE FinalizeAsserts \/ AbortedWrite
  BY <1>9 DEF FinalizeAsserts, AbortedWrite, Aligned, Writing
<1>10. ASSUME NEW len \in FrameLens \cup {0}, WriteFrameClosed(len) PROVE FALSE
  BY <1>10 DEF WriteFrameClosed, Aligned, Writing
<1>11. CASE FinalizeRefused \/ RefusedCall
  <2>1. UNCHANGED <<kind, smpte, state, mxf, nextPhase>>
    BY <1>11 DEF FinalizeRefused, RefusedCall
  <2>2. PICK op, r : Call(op, "none", r)
    BY <1>11 DEF FinalizeRefused, RefusedCall
  <2>3. Aligned
    BY <1>1, <2>1, <2>2, AlignedCall DEF Aligned, Writing
  <2>4. QED
    BY <1>2, <2>1, <2>3
<1>12. CASE UNCHANGED vars
  <2>1. Aligned
    BY <1>12 DEF vars, Aligned, Writing, Unharmed
  <2>2. QED
    BY <1>2, <1>12, <2>1 DEF vars
<1>13. QED
  BY <1>3, <1>4, <1>5, <1>6, <1>7, <1>8, <1>9, <1>10, <1>11, <1>12 DEF Next

\* However many frames are written, in any number of segments, and whichever calls are
\* refused: every entry that PushIndexEntry collected for the footer names the frame
\* whose bytes start where it points to; the left eye's, in a stereoscopic file.
THEOREM IndexLocatesFramesHolds == Spec => []IndexLocatesFrames
<1>1. Init => PositionInv /\ NoStreamAhead /\ IndexInv
  BY DEF Init, PositionInv, NoStreamAhead, IndexInv, Aligned, Writing
<1>2. Spec => []TypeInv
  BY InitTypeInv, NextTypeInv, PTL DEF Spec
<1>3. TypeInv /\ PositionInv /\ [Next]_vars => PositionInv'
  BY NextPositionInv
<1>4. TypeInv /\ NoStreamAhead /\ [Next]_vars => NoStreamAhead'
  BY NextNoStreamAhead
<1>5. TypeInv /\ PositionInv /\ NoStreamAhead /\ IndexInv /\ [Next]_vars => IndexInv'
  BY NextIndexInv
<1>6. IndexInv => IndexLocatesFrames
  BY DEF IndexInv, IndexLocatesFrames, Aligned, Located, LeadsTo
<1>7. QED
  BY <1>1, <1>2, <1>3, <1>4, <1>5, <1>6, PTL DEF Spec

-----------------------------------------------------------------------------
(* The layout of a file that is being written *)

\* A file with no index in its header and no footer: a reader gets nothing from it
Blank(m) ==
  /\ Resolves(m, 0)
  /\ \A p \in m.parts : p.at = 0 => p.footer = 0 /\ p.segs = <<>>

\* Every pack lies before the file position and has its place to itself
Placed(m) ==
  /\ \A p \in m.parts : p.at < m.pos
  /\ \A p, q \in m.parts : p.at = q.at => p = q

\* The packets lie one behind the other, before the file position
InOrder(m) ==
  \A i \in DOMAIN m.packets :
    /\ m.packets[i].len > 0
    /\ m.packets[i].at + m.packets[i].len <= m.pos
    /\ \A j \in DOMAIN m.packets :
         i < j => m.packets[i].at + m.packets[i].len <= m.packets[j].at

\* The RIP of a file with a body partition: header, body, and one entry for each
\* resource, whether its pack was written or not
Listing(m) ==
  IF ~smpte THEN m.rip = <<[sid |-> 1, at |-> 0]>>
  ELSE /\ Len(m.rip) = 2 + streams
       /\ m.rip[1] = [sid |-> 0, at |-> 0] /\ m.rip[2] = [sid |-> 1, at |-> HeaderLen]
       /\ \A k \in 1 .. streams : m.rip[2 + k].sid = FirstStream + k - 1

Layout ==
  Writing =>
    /\ mxf.pos > 0 /\ mxf.disk = <<>>
    /\ Blank(mxf) /\ Placed(mxf) /\ InOrder(mxf) /\ Listing(mxf)

-----------------------------------------------------------------------------
(* What a file is before it is open, and the faults met by then *)

History ==
  /\ state \in {"BEGIN", "UNOPENED"} =>
       /\ mxf.parts = {} /\ mxf.packets = <<>> /\ mxf.disk = <<>>
       /\ Harms = {}
  /\ state \in {"BEGIN", "UNOPENED"} \/ Writing =>
       \A i \in DOMAIN faults : faults[i].fault \notin FinalizeFaults \cup {"assert"}
  /\ kind.text => smpte

-----------------------------------------------------------------------------
(* The frames that no fault has touched *)

\* The packets that were written before the first fault that did harm
Sound == IF Harms = {} THEN Len(mxf.packets) ELSE kind.eyes * SoundFrames

\* Those packets have the numbers and the places that a reader expects.
Numbered ==
  /\ Sound <= Len(mxf.packets)
  /\ \A i \in 1 .. Sound : mxf.packets[i].hmac = i
  /\ kind.eyes = 2 =>
       \A i \in 1 .. Sound - 1 :
         mxf.packets[i + 1].at = mxf.packets[i].at + mxf.packets[i].len
  /\ ~kind.vbr /\ Regular =>
       \A i \in 1 .. Sound : mxf.packets[i].at = BodyStart + (i - 1) * UnitLen
  /\ smpte => Resolves(mxf, HeaderLen) \/ (Harms # {} /\ Sound = 0)

\* The end of the last packet, where the next one goes
End(m) ==
  IF m.packets = <<>> THEN BodyStart
  ELSE m.packets[Len(m.packets)].at + m.packets[Len(m.packets)].len

\* The counters of the writer, as long as no harm has been done
Counted ==
  /\ Harms = {} => /\ framesWritten = Len(mxf.packets) + streams
                   /\ ~kind.text => mxf.pos = End(mxf)
  /\ ~kind.counts /\ ~kind.text => framesWritten = Len(mxf.packets)

Sequenced == Writing => Numbered /\ Counted

-----------------------------------------------------------------------------
(* The index in memory *)

\* The entries of frames that start among the first packets, sound in number, lead
\* to those packets.
Leads(eyes, base, packets, segs, sound) ==
  \A i \in DOMAIN segs : \A j \in DOMAIN segs[i].entries :
    LET first == eyes * (segs[i].start + j - 1) + 1
    IN  first <= sound => LeadsTo(base, packets, first, segs[i].entries[j])

\* Every sound frame has its entry.
Leading(segs, c) ==
  /\ kind.eyes * c >= Sound
  /\ Harms = {} => kind.eyes * c = Len(mxf.packets) + nextPhase - 1
  /\ Leads(kind.eyes, BodyStart, mxf.packets, segs, Sound)

Indexing ==
  Writing =>
    IF kind.vbr THEN \E c \in Nat : Enumerated(mxf.segs, c) /\ Leading(mxf.segs, c)
    ELSE mxf.segs # <<>>

\* GOPStarts and GOPStart, of any packets
Starts(packets, n) == {i \in 1 .. n : packets[i].start}
Start(packets, n) ==
  CHOOSE i \in Starts(packets, n) : \A j \in Starts(packets, n) : j <= i

\* Each entry carries the distance to the start of the group of its packet.
Distances(packets, segs) ==
  \A i \in DOMAIN segs : \A j \in DOMAIN segs[i].entries :
    LET n == segs[i].start + j
    IN  Starts(packets, n) # {} => segs[i].entries[j].key = Int8(Start(packets, n) - n)

\* Every entry of a class with groups of pictures is that of a packet; m_GOPOffset is
\* the distance of the next one.
Grouped ==
  Writing /\ kind.gop =>
    /\ EndsAt(mxf.segs, Len(mxf.packets))
    /\ LET n == Len(mxf.packets)
       IN  Starts(mxf.packets, n) # {} => gopOffset = n + 1 - Start(mxf.packets, n)
    /\ Distances(mxf.packets, mxf.segs)

-----------------------------------------------------------------------------
(* The resources of a file without a fault *)

StreamPacks(m) == {p \in m.parts : p.type = "stream"}

\* Each of these packs is that of one of the n resources asked for, at the place
\* and with the stream ID of its entry in the RIP; the packet behind it has its
\* number and ends before the next partition.
OnShelf(m, n) ==
  \A p \in StreamPacks(m) :
    \E k \in 1 .. n :
      /\ p.at = m.rip[2 + k].at /\ p.sid = m.rip[2 + k].sid
      /\ p.hmac = k + 1
      /\ p.at + PackLen + StreamLen <= IF k < n THEN m.rip[3 + k].at ELSE m.pos

Shelved ==
  Writing /\ faults = <<>> =>
    /\ kind.text => Len(mxf.packets) = IF state = "READY" THEN 0 ELSE 1
    /\ OnShelf(mxf, streams)

-----------------------------------------------------------------------------
(* Types, and the faults of a call *)

LEMMA FileTypes ==
  ASSUME NEW m \in MxfType
  PROVE  /\ m.pos \in Nat /\ m.queued \in Nat /\ m.duration \in Nat
         /\ m.parts \in SUBSET Pack /\ m.packets \in Seq(Packet)
         /\ m.rip \in Seq(Pair) /\ m.disk \in Seq(Pair) /\ m.segs \in Seq(Segment)
         /\ Len(m.packets) \in Nat /\ DOMAIN m.packets = 1 .. Len(m.packets)
         /\ Len(m.rip) \in Nat /\ DOMAIN m.rip = 1 .. Len(m.rip)
         /\ Len(m.segs) \in Nat /\ DOMAIN m.segs = 1 .. Len(m.segs)
  BY DEF MxfType

LEMMA PartTypes ==
  ASSUME NEW m \in MxfType
  PROVE  /\ \A p \in m.parts : p.at \in Nat /\ p.sid \in Nat /\ p.hmac \in Nat /\ p.footer \in Nat
         /\ \A i \in DOMAIN m.packets :
              /\ m.packets[i].at \in Nat /\ m.packets[i].len \in Nat
              /\ m.packets[i].hmac \in Nat /\ m.packets[i].start \in BOOLEAN
         /\ \A i \in DOMAIN m.rip : m.rip[i].at \in Nat /\ m.rip[i].sid \in Nat
         /\ \A i \in DOMAIN m.segs : m.segs[i] \in Segment
<1>1. m.parts \in SUBSET Pack /\ m.packets \in Seq(Packet) /\ m.rip \in Seq(Pair) /\ m.segs \in Seq(Segment)
  BY FileTypes
<1>2. \A p \in m.parts : p \in Pack
  BY <1>1
<1>3. \A i \in DOMAIN m.packets : m.packets[i] \in Packet
  BY <1>1
<1>4. \A i \in DOMAIN m.rip : m.rip[i] \in Pair
  BY <1>1
<1>5. \A i \in DOMAIN m.segs : m.segs[i] \in Segment
  BY <1>1
<1>6. \A p \in m.parts : p.at \in Nat /\ p.sid \in Nat /\ p.hmac \in Nat /\ p.footer \in Nat
  BY <1>2 DEF Pack
<1>7. \A i \in DOMAIN m.packets :
        /\ m.packets[i].at \in Nat /\ m.packets[i].len \in Nat
        /\ m.packets[i].hmac \in Nat /\ m.packets[i].start \in BOOLEAN
  BY <1>3 DEF Packet
<1>8. \A i \in DOMAIN m.rip : m.rip[i].at \in Nat /\ m.rip[i].sid \in Nat
  BY <1>4 DEF Pair
<1>9. QED
  BY <1>5, <1>6, <1>7, <1>8

\* The counts of frames and of packets
LEMMA FramesPackets ==
  ASSUME TypeInv
  PROVE  /\ Frames \in Nat /\ kind.eyes \in {1, 2}
         /\ kind.eyes * Frames <= Len(mxf.packets)
         /\ Len(mxf.packets) < kind.eyes * Frames + kind.eyes
<1>1. kind.eyes \in {1, 2} /\ Len(mxf.packets) \in Nat
  BY KindFacts, FileTypes DEF TypeInv, TypeOK, KindOK
<1> DEFINE n == Len(mxf.packets)
<1> HIDE DEF n
<1>2. n \in Nat /\ Frames = n \div kind.eyes
  BY <1>1 DEF n, Frames
<1>3. CASE kind.eyes = 1
  <2>1. n \div 1 = n /\ 1 * n = n
    BY <1>2
  <2>2. Frames = n
    BY <1>2, <1>3, <2>1
  <2>3. /\ Frames \in Nat /\ kind.eyes * Frames <= n
        /\ n < kind.eyes * Frames + kind.eyes
    BY <1>2, <1>3, <2>1, <2>2
  <2>4. QED
    BY <1>1, <2>3 DEF n
<1>4. CASE kind.eyes = 2
  <2>1. n \div 2 \in Nat /\ 2 * (n \div 2) <= n /\ n < 2 * (n \div 2) + 2
    BY <1>2
  <2>2. QED
    BY <1>2, <1>4, <2>1 DEF n
<1>5. QED
  BY <1>1, <1>3, <1>4

FaultRecord == [fault : Faults \cup {"assert"}, frames : Nat]

\* What a call does to the faults and to the frames before the first harmful one
LEMMA HarmsCall ==
  ASSUME TypeInv, NEW op, NEW f, NEW r, Call(op, f, r), kind' = kind
  PROVE  /\ Harms = {} /\ f \in Forgiven \cup {"none"} => Harms' = {}
         /\ Harms = {} /\ f \notin Forgiven \cup {"none"} => Harms' # {} /\ SoundFrames' = Frames
         /\ Harms # {} => Harms' # {} /\ SoundFrames' = SoundFrames
         /\ f = "none" => faults' = faults
         /\ f # "none" => /\ Len(faults') = Len(faults) + 1 /\ Len(faults) \in Nat
                          /\ DOMAIN faults' = 1 .. Len(faults) + 1
                          /\ DOMAIN faults = 1 .. Len(faults)
                          /\ \A i \in DOMAIN faults : faults'[i] = faults[i]
                          /\ faults'[Len(faults) + 1].fault = f
<1> DEFINE new   == [fault |-> f, frames |-> Frames]
           n     == Len(faults)
           First == CHOOSE i \in Harms : \A j \in Harms : i <= j
<1>1. faults \in Seq(FaultRecord)
  BY DEF TypeInv, TypeOK, FaultRecord
<1>2. faults' = IF f = "none" THEN faults ELSE Append(faults, new)
  BY DEF Call
<1>3. Forgiven' = Forgiven
  BY DEF Forgiven
<1>4. new.fault = f /\ new.frames = Frames
  OBVIOUS
<1> HIDE DEF new
<1>5. n \in Nat /\ DOMAIN faults = 1 .. n
  BY <1>1
<1>6. CASE f = "none"
  <2>1. faults' = faults /\ Harms' = Harms
    BY <1>2, <1>3, <1>6 DEF Harms
  <2>2. Harms # {} => SoundFrames' = SoundFrames
    BY <2>1 DEF SoundFrames
  <2>3. QED
    BY <1>6, <2>1, <2>2
<1>7. CASE f # "none"
  <2>1. /\ Len(faults') = n + 1 /\ DOMAIN faults' = 1 .. n + 1
        /\ \A i \in 1 .. n : faults'[i] = faults[i]
        /\ faults'[n + 1] = new
    BY <1>1, <1>2, <1>7
  <2> HIDE DEF n
  <2>2. Harms' = Harms \cup (IF f \in Forgiven THEN {} ELSE {n + 1})
    <3>1. \A i \in 1 .. n : i \in Harms' <=> i \in Harms
      BY <1>3, <1>5, <2>1 DEF Harms
    <3>2. n + 1 \in Harms' <=> f \notin Forgiven
      BY <1>3, <1>4, <1>5, <2>1 DEF Harms
    <3>3. Harms \subseteq 1 .. n /\ Harms' \subseteq 1 .. n + 1
      BY <1>5, <2>1 DEF Harms
    <3>4. \A i : i \in 1 .. n + 1 <=> i \in 1 .. n \/ i = n + 1
      BY <1>5
    <3>5. n + 1 \notin 1 .. n
      BY <1>5
    <3>6. QED
      BY <3>1, <3>2, <3>3, <3>4, <3>5
  <2>3. ASSUME Harms # {} PROVE Harms' # {} /\ SoundFrames' = SoundFrames
    <3>1. Harms \in SUBSET Nat /\ Harms \subseteq 1 .. n
      BY <1>5 DEF Harms
    <3>2. PICK first \in Harms : \A j \in Harms : first <= j
      BY <2>3, <3>1, Smallest
    <3>3. First = first
      <4>1. First \in Harms /\ \A j \in Harms : First <= j
        BY <3>2
      <4> HIDE DEF First
      <4>2. First <= first /\ first <= First /\ First \in Nat /\ first \in Nat
        BY <3>1, <3>2, <4>1
      <4>3. QED
        BY <4>2
    <3>4. \A j \in Harms' : first <= j
      BY <1>5, <2>2, <3>1, <3>2
    <3>5. Harms' \in SUBSET Nat
      BY <1>5, <2>2, <3>1
    <3>6. (CHOOSE i \in Harms' : \A j \in Harms' : i <= j) = first
      <4> DEFINE other == CHOOSE i \in Harms' : \A j \in Harms' : i <= j
      <4>1. first \in Harms'
        BY <2>2
      <4>2. other \in Harms' /\ \A j \in Harms' : other <= j
        BY <3>4, <4>1
      <4> HIDE DEF other
      <4>3. other <= first /\ first <= other /\ other \in Nat /\ first \in Nat
        BY <3>4, <3>5, <4>1, <4>2
      <4>4. QED
        BY <4>3 DEF other
    <3>7. faults'[first] = faults[first]
      BY <2>1, <3>1
    <3> HIDE DEF First
    <3>8. SoundFrames = faults[first].frames
      BY <2>3, <3>3 DEF SoundFrames, First
    <3>9. Harms' # {}
      BY <2>2, <2>3
    <3>10. SoundFrames' = faults'[first].frames
      BY <3>6, <3>9 DEF SoundFrames
    <3>11. QED
      BY <3>7, <3>8, <3>9, <3>10
  <2>4. ASSUME Harms = {}, f \notin Forgiven PROVE Harms' # {} /\ SoundFrames' = Frames
    <3>1. Harms' = {n + 1}
      BY <2>2, <2>4
    <3>2. (CHOOSE i \in Harms' : \A j \in Harms' : i <= j) = n + 1
      BY <1>5, <3>1
    <3>3. SoundFrames' = faults'[n + 1].frames
      BY <3>1, <3>2 DEF SoundFrames
    <3>4. QED
      BY <1>4, <2>1, <3>1, <3>3
  <2>5. Harms = {} /\ f \in Forgiven => Harms' = {}
    BY <2>2
  <2>6. QED
    BY <1>4, <1>5, <1>7, <2>1, <2>3, <2>4, <2>5 DEF n
<1>8. QED
  BY <1>6, <1>7

-----------------------------------------------------------------------------
(* What the calls do to the file *)

\* A packet of essence, for WriteFrame and WriteText alike
PacketStep(len, start, f, lost) ==
  /\ mxf' \in MxfType /\ mxf'.parts = mxf.parts /\ mxf'.rip = mxf.rip
  /\ mxf'.disk = mxf.disk /\ mxf'.duration = mxf.duration
  /\ f = "context" => mxf' = mxf
  /\ f = "flush" => /\ mxf'.pos = mxf.pos + lost
                    /\ mxf'.packets = mxf.packets /\ mxf'.segs = mxf.segs
  /\ f = "none" =>
       /\ mxf'.pos = mxf.pos + mxf.queued + len
       /\ \E p \in Packet :
            /\ p.at = mxf.pos + mxf.queued /\ p.len = len
            /\ p.hmac = framesWritten + 1 /\ p.start = start
            /\ mxf'.packets = Append(mxf.packets, p)
       /\ IF kind.vbr /\ nextPhase # 2
          THEN \E put \in MxfType :
                 /\ put.segs = mxf.segs
                 /\ mxf'.segs = PushIndexEntry(put, [offset |-> streamOffset,
                                                     key |-> KeyOffset(start)]).segs
          ELSE mxf'.segs = mxf.segs

\* A packet that is written, and one whose flush fails
LEMMA PutPacketDoes ==
  ASSUME NEW m \in MxfType, NEW len \in Nat, NEW start \in BOOLEAN, NEW f, NEW lost \in 0 .. len,
         framesWritten \in Nat
  PROVE  LET a == PutPacket(m, len, start, f, lost)
         IN  /\ a.disk = m.disk /\ a.duration = m.duration
             /\ f = "flush" => a.pos = m.pos + lost /\ a.packets = m.packets
             /\ f \notin {"context", "flush"} =>
                  \E p \in Packet :
                    /\ p.at = m.pos + m.queued /\ p.len = len
                    /\ p.hmac = framesWritten + 1 /\ p.start = start
                    /\ a.packets = Append(m.packets, p)
<1> DEFINE p == [at |-> m.pos + m.queued, len |-> len, hmac |-> framesWritten + 1, start |-> start]
           a == PutPacket(m, len, start, f, lost)
           packets == Append(m.packets, p)
           pos == m.pos + m.queued + len
           none == 0
<1>1. CASE f = "context"
  BY <1>1 DEF PutPacket
<1>2. CASE f = "flush"
  <2>1. a = [m EXCEPT !.pos = m.pos + lost, !.queued = m.queued + len]
    BY <1>2 DEF PutPacket
  <2> HIDE DEF a
  <2>2. /\ a.disk = m.disk /\ a.duration = m.duration
        /\ a.pos = m.pos + lost /\ a.packets = m.packets
    BY <2>1 DEF MxfType
  <2>3. QED
    BY <1>2, <2>2 DEF a
<1>3. CASE f \notin {"context", "flush"}
  <2>1. m.pos + m.queued \in Nat
    BY FileTypes
  <2>2. p \in Packet /\ p.at = m.pos + m.queued /\ p.len = len
        /\ p.hmac = framesWritten + 1 /\ p.start = start
    BY <2>1 DEF Packet
  <2>3. a = [m EXCEPT !.pos = pos, !.queued = none, !.packets = packets]
    BY <1>3 DEF PutPacket
  <2>4. a.disk = m.disk /\ a.duration = m.duration /\ a.packets = packets
    <3> HIDE DEF a, packets, pos, none, p
    <3>1. QED
      BY <2>3 DEF MxfType
  <2> HIDE DEF a, p
  <2>5. QED
    BY <1>3, <2>2, <2>4 DEF a
<1>4. QED
  BY <1>1, <1>2, <1>3

LEMMA PacketDoes ==
  ASSUME TypeInv, NEW len \in FrameLens, NEW start \in BOOLEAN, NEW f, NEW lost \in 0 .. len,
         f \in {"none"} \cup PacketFaults,
         mxf' = Indexed(PutPacket(mxf, len, start, f, lost), start, f)
  PROVE  PacketStep(len, start, f, lost)
<1> DEFINE put   == PutPacket(mxf, len, start, f, lost)
           entry == [offset |-> streamOffset, key |-> KeyOffset(start)]
<1>1. /\ mxf \in MxfType /\ len \in Nat /\ framesWritten \in Nat
      /\ streamOffset \in Nat /\ gopOffset \in Nat /\ kind.vbr \in BOOLEAN
  BY FrameLensNat, KindFacts DEF TypeInv, TypeOK, KindOK
<1>2. /\ put \in MxfType /\ put.rip = mxf.rip /\ put.segs = mxf.segs /\ put.parts = mxf.parts
      /\ f = "context" => put = mxf
      /\ f \notin PacketFaults => put.pos = mxf.pos + mxf.queued + len
  BY <1>1, PutPacketType
<1>3. /\ put.disk = mxf.disk /\ put.duration = mxf.duration
      /\ f = "flush" => put.pos = mxf.pos + lost /\ put.packets = mxf.packets
      /\ f \notin {"context", "flush"} =>
           \E p \in Packet :
             /\ p.at = mxf.pos + mxf.queued /\ p.len = len
             /\ p.hmac = framesWritten + 1 /\ p.start = start
             /\ put.packets = Append(mxf.packets, p)
  BY <1>1, PutPacketDoes
<1>4. f \in PacketFaults <=> f \in {"context", "flush"}
  BY DEF PacketFaults
<1>5. mxf' = IF f \in PacketFaults \/ ~kind.vbr \/ nextPhase = 2 THEN put ELSE PushIndexEntry(put, entry)
  BY DEF Indexed
<1>6. entry \in Entry
  BY <1>1, KeyOffsetType DEF Entry
<1> HIDE DEF put
<1>7. CASE f \in PacketFaults
  BY <1>2, <1>3, <1>4, <1>5, <1>7 DEF PacketStep, PacketFaults
<1>8. CASE f = "none" /\ kind.vbr /\ nextPhase # 2
  <2>1. mxf' = PushIndexEntry(put, entry)
    BY <1>4, <1>5, <1>8
  <2>2. /\ mxf' \in MxfType /\ mxf'.rip = put.rip /\ mxf'.pos = put.pos /\ mxf'.parts = put.parts
    <3> HIDE DEF entry
    <3>1. QED
      BY <1>2, <1>6, <2>1, PushIndexEntryType
  <2>3. mxf'.packets = put.packets /\ mxf'.disk = put.disk /\ mxf'.duration = put.duration
    <3> HIDE DEF entry
    <3>1. QED
      BY <1>2, <1>6, <2>1, PushIndexEntryPackets
  <2>4. \E q \in MxfType : q.segs = mxf.segs /\ mxf'.segs = PushIndexEntry(q, entry).segs
    BY <1>2, <2>1
  <2>5. \E p \in Packet :
             /\ p.at = mxf.pos + mxf.queued /\ p.len = len
             /\ p.hmac = framesWritten + 1 /\ p.start = start
             /\ mxf'.packets = Append(mxf.packets, p)
    BY <1>3, <1>8, <2>3
  <2>6. mxf'.pos = mxf.pos + mxf.queued + len
    BY <1>2, <1>8, <2>2 DEF PacketFaults
  <2>7. QED
    BY <1>2, <1>3, <1>8, <2>2, <2>3, <2>4, <2>5, <2>6 DEF PacketStep
<1>9. CASE f = "none" /\ ~(kind.vbr /\ nextPhase # 2)
  <2>1. mxf' = put
    BY <1>4, <1>5, <1>9
  <2>2. QED
    BY <1>2, <1>3, <1>4, <1>9, <2>1 DEF PacketStep
<1>10. QED
  BY <1>7, <1>8, <1>9

\* A resource
AncillaryStep(f) ==
  LET sid == FirstStream + streams
  IN  /\ mxf' \in MxfType /\ mxf'.packets = mxf.packets /\ mxf'.segs = mxf.segs
      /\ mxf'.disk = mxf.disk /\ mxf'.duration = mxf.duration
      /\ mxf'.rip = Append(mxf.rip, [sid |-> sid, at |-> mxf.pos])
      /\ mxf'.pos >= mxf.pos
      /\ \/ f \in PackFaults("stream") /\ mxf'.parts = mxf.parts
         \/ /\ f \notin PackFaults("stream") /\ mxf'.pos >= mxf.pos + PackLen
            /\ \E pack \in Pack :
                 /\ pack.at = mxf.pos /\ pack.type = "stream" /\ pack.sid = sid
                 /\ pack.hmac = framesWritten + 1
                 /\ mxf'.parts = mxf.parts \cup {pack}
      /\ f = "none" => mxf'.pos >= mxf.pos + PackLen + StreamLen

LEMMA AncillaryDoes ==
  ASSUME TypeInv, NEW f \in Faults, NEW lost \in 0 .. StreamLen, WriteAncillary(f, lost)
  PROVE  AncillaryStep(f)
<1> DEFINE sid    == FirstStream + streams
           prev   == mxf.rip[Len(mxf.rip)].at
           hmac   == framesWritten + 1
           new    == NewPack(mxf.pos, "stream", sid)
           pack   == [new EXCEPT !.prev = prev, !.hmac = hmac]
           listed == PushRip(mxf, sid, mxf.pos)
           g      == PackFault(f, "stream")
           wrote  == PutPack(listed, pack, g)
           no     == FALSE
           packet == PutPacket(wrote, StreamLen, no, f, lost)
           old    == mxf.packets
           rip    == Append(mxf.rip, [sid |-> sid, at |-> mxf.pos])
           parts  == IF g = "none" THEN mxf.parts \cup {pack} ELSE mxf.parts
           after  == mxf.pos + (IF g = "none" THEN PackLen ELSE PackLost)
<1>1. /\ mxf \in MxfType /\ framesWritten \in Nat /\ mxf.pos \in Nat /\ mxf.rip # <<>>
      /\ streams \in 0 .. MaxStreams /\ StreamLen \in Nat /\ old \in Seq(Packet)
      /\ PackLen \in Nat /\ PackLost \in Nat /\ mxf.queued \in Nat
  BY LengthAssumption DEF TypeInv, TypeOK, HeaderWritten, Writing, WriteAncillary, MxfType
<1>2. sid \in Nat /\ prev \in Nat /\ hmac \in Nat
  BY <1>1, LastAt, BoundAssumption DEF FirstStream
<1>3. mxf' = IF f = "stream" THEN wrote ELSE [packet EXCEPT !.packets = old]
  BY DEF WriteAncillary
<1>4. /\ f \in {"none"} \cup PacketFaults \cup PackFaults("stream")
      /\ g = "none" <=> f \notin PackFaults("stream")
  BY DEF WriteAncillary, PackFault, PackFaults, PacketFaults, Torn
<1>5. pack \in Pack /\ pack.at = mxf.pos /\ pack.type = "stream" /\ pack.sid = sid /\ pack.hmac = hmac
  <2>1. new \in Pack
    BY <1>1, <1>2, NewPackType
  <2>2. new.at = mxf.pos /\ new.type = "stream" /\ new.sid = sid
    BY DEF NewPack
  <2> HIDE DEF new, prev, hmac, sid
  <2>3. QED
    BY <1>2, <2>1, <2>2 DEF Pack
<1> HIDE DEF pack
<1>6. no \in BOOLEAN
  OBVIOUS
<1>7. /\ listed \in MxfType /\ listed.parts = mxf.parts /\ listed.pos = mxf.pos
      /\ listed.queued = mxf.queued /\ listed.segs = mxf.segs
      /\ listed.rip = rip /\ listed.packets = mxf.packets /\ listed.disk = mxf.disk
      /\ listed.duration = mxf.duration
  <2>1. mxf \in MxfType /\ sid \in Nat /\ mxf.pos \in Nat
    BY <1>1, <1>2
  <2>2. /\ listed \in MxfType /\ listed.parts = mxf.parts /\ listed.pos = mxf.pos
        /\ listed.queued = mxf.queued /\ listed.segs = mxf.segs
    BY <2>1, PushRipType
  <2>3. listed = [mxf EXCEPT !.rip = rip]
    BY DEF PushRip
  <2> HIDE DEF listed, rip
  <2>4. listed.rip = rip /\ listed.packets = mxf.packets /\ listed.disk = mxf.disk
        /\ listed.duration = mxf.duration
    BY <1>1, <2>3 DEF MxfType
  <2>5. QED
    BY <2>2, <2>4
<1> HIDE DEF listed, sid, prev, hmac, no, g
<1>8. /\ wrote \in MxfType /\ wrote.pos = after /\ wrote.parts = parts
      /\ wrote.rip = listed.rip /\ wrote.segs = listed.segs /\ wrote.packets = listed.packets
      /\ wrote.disk = listed.disk /\ wrote.duration = listed.duration /\ wrote.queued = listed.queued
  <2>1. wrote \in MxfType
    BY <1>5, <1>7, PutPackType
  <2>2. wrote = [listed EXCEPT !.pos = after, !.parts = parts]
    BY <1>7 DEF PutPack
  <2> HIDE DEF wrote, after, parts
  <2>3. QED
    BY <1>7, <2>1, <2>2 DEF MxfType
<1> HIDE DEF wrote, rip
<1>9. /\ packet \in MxfType /\ packet.rip = wrote.rip /\ packet.segs = wrote.segs
      /\ packet.parts = wrote.parts /\ packet.disk = wrote.disk /\ packet.duration = wrote.duration
      /\ packet.pos >= wrote.pos
      /\ f \notin PacketFaults => packet.pos >= wrote.pos + StreamLen
  <2>1. /\ packet \in MxfType /\ packet.rip = wrote.rip /\ packet.segs = wrote.segs
        /\ packet.parts = wrote.parts
        /\ f = "context" => packet = wrote
        /\ f \notin PacketFaults => packet.pos = wrote.pos + wrote.queued + StreamLen
    BY <1>1, <1>6, <1>8, PutPacketType
  <2>2. /\ packet.disk = wrote.disk /\ packet.duration = wrote.duration
        /\ f = "flush" => packet.pos = wrote.pos + lost
    BY <1>1, <1>6, <1>8, PutPacketDoes
  <2>3. wrote.pos \in Nat /\ wrote.queued \in Nat /\ lost \in Nat
    BY <1>1, <1>7, <1>8
  <2> HIDE DEF packet
  <2>4. QED
    BY <1>1, <2>1, <2>2, <2>3 DEF PacketFaults
<1> HIDE DEF packet
<1>10. /\ mxf' \in MxfType /\ mxf'.packets = old /\ mxf'.rip = rip /\ mxf'.segs = mxf.segs
       /\ mxf'.parts = parts /\ mxf'.disk = mxf.disk /\ mxf'.duration = mxf.duration
       /\ mxf'.pos >= after
       /\ f \notin PacketFaults \cup {"stream"} => mxf'.pos >= after + StreamLen
  <2> HIDE DEF parts, after
  <2>1. after \in Nat
    BY <1>8, FileTypes
  <2>2. CASE f = "stream"
    <3>1. mxf' = wrote
      BY <1>3, <2>2
    <3>2. QED
      BY <1>7, <1>8, <2>1, <2>2, <3>1 DEF old
  <2>3. CASE f # "stream"
    <3>1. mxf' = [packet EXCEPT !.packets = old]
      BY <1>3, <2>3
    <3> HIDE DEF old
    <3>2. /\ mxf' \in MxfType /\ mxf'.packets = old /\ mxf'.rip = packet.rip
          /\ mxf'.segs = packet.segs /\ mxf'.parts = packet.parts /\ mxf'.disk = packet.disk
          /\ mxf'.duration = packet.duration /\ mxf'.pos = packet.pos
      BY <1>1, <1>9, <3>1 DEF MxfType
    <3>3. packet.pos >= after /\ (f \notin PacketFaults => packet.pos >= after + StreamLen)
      BY <1>8, <1>9
    <3>4. mxf'.pos >= after /\ (f \notin PacketFaults => mxf'.pos >= after + StreamLen)
      BY <3>2, <3>3
    <3>5. /\ packet.rip = rip /\ packet.segs = mxf.segs /\ packet.parts = parts
          /\ packet.disk = mxf.disk /\ packet.duration = mxf.duration
      BY <1>7, <1>8, <1>9
    <3>6. QED
      BY <3>2, <3>4, <3>5
  <2>4. QED
    BY <2>2, <2>3
<1>11. mxf'.pos \in Nat
  BY <1>10, FileTypes
<1>12. mxf'.pos >= mxf.pos /\ (g = "none" => mxf'.pos >= mxf.pos + PackLen)
  BY <1>1, <1>10, <1>11
<1>13. f = "none" => mxf'.pos >= mxf.pos + PackLen + StreamLen
  BY <1>1, <1>4, <1>10, <1>11 DEF PacketFaults, PackFaults, Torn
<1>14. QED
  BY <1>4, <1>5, <1>10, <1>12, <1>13 DEF AncillaryStep, rip, sid, hmac

-----------------------------------------------------------------------------
(* The steps of a file that is being written *)

TheHeader == NewPack(0, "header", 0)
TheBody   == NewPack(HeaderLen, "body", 1)

\* What a new file holds
NewFile(m, f) ==
  /\ m \in MxfType /\ m.packets = <<>> /\ m.disk = <<>>
  /\ m.pos = IF ~smpte THEN HeaderLen
             ELSE HeaderLen + (IF f = "none" THEN PackLen ELSE PackLost)
  /\ m.parts = IF smpte /\ f = "none" THEN {TheHeader} \cup {TheBody} ELSE {TheHeader}
  /\ m.rip = IF smpte THEN Append(Append(<<>>, [sid |-> 0, at |-> 0]), [sid |-> 1, at |-> HeaderLen])
             ELSE Append(<<>>, [sid |-> 1, at |-> 0])
  /\ m.segs = IF kind.vbr THEN <<>> ELSE <<[start |-> 0, entries |-> <<>>]>>

LEMMA OpenDoes ==
  ASSUME TypeInv, NEW f \in Faults, Open(f), Writing'
  PROVE  NewFile(mxf', f) /\ f \in {"none", "bodyTorn"} /\ (f = "bodyTorn" => smpte)
<1> DEFINE new    == NewPack(0, "header", 0)
           pack   == NewPack(HeaderLen, "body", 1)
           header == [Empty EXCEPT !.pos = HeaderLen, !.parts = {new},
                                     !.duration = DescriptorDuration]
           index  == IF kind.vbr THEN <<>> ELSE <<[start |-> 0, entries |-> <<>>]>>
           zero   == 0
           one    == 1
           once   == PushRip(header, zero, zero)
           twice  == PushRip(once, one, HeaderLen)
           g      == PackFault(f, "body")
           body   == PutPack(twice, pack, g)
           inter  == PushRip(header, one, zero)
           opened == IF smpte THEN body ELSE inter
           first  == Append(<<>>, [sid |-> 0, at |-> 0])
           second == Append(first, [sid |-> 1, at |-> HeaderLen])
           only   == Append(<<>>, [sid |-> 1, at |-> 0])
           after  == HeaderLen + (IF g = "none" THEN PackLen ELSE PackLost)
           both   == IF g = "none" THEN {new} \cup {pack} ELSE {new}
<1>1. mxf' = [opened EXCEPT !.segs = index] /\ f \notin {"header", "body"}
  BY DEF Open, Writing
<1>2. f \in {"none", "bodyTorn"} /\ (f = "bodyTorn" => smpte)
  BY <1>1 DEF Open, PackFaults, Torn
<1>3. g = "none" <=> f = "none"
  BY <1>2 DEF PackFault, Torn
<1>4. HeaderLen \in Nat /\ new \in Pack /\ pack \in Pack /\ zero \in Nat /\ one \in Nat
      /\ DescriptorDuration \in Nat
  BY LengthAssumption, IndexAssumption, NewPackType
<1>5. /\ header \in MxfType /\ header.pos = HeaderLen /\ header.parts = {new}
      /\ header.packets = <<>> /\ header.disk = <<>> /\ header.rip = <<>>
  <2>1. /\ header \in MxfType /\ header.pos = HeaderLen /\ header.parts = {new}
        /\ header.packets = Empty.packets /\ header.disk = Empty.disk
        /\ header.rip = Empty.rip
    <3> HIDE DEF new
    <3>1. QED
      BY <1>4, EmptyType DEF MxfType
  <2>2. Empty.packets = <<>> /\ Empty.disk = <<>> /\ Empty.rip = <<>>
    BY DEF Empty
  <2>3. QED
    BY <2>1, <2>2
<1> HIDE DEF header, new, pack, g
<1>6. \A m \in MxfType, sid, at \in Nat :
        /\ PushRip(m, sid, at) \in MxfType
        /\ PushRip(m, sid, at).pos = m.pos /\ PushRip(m, sid, at).parts = m.parts
  BY PushRipType
<1>7. /\ once \in MxfType /\ once.pos = HeaderLen /\ once.parts = {new}
      /\ once.packets = <<>> /\ once.disk = <<>> /\ once.rip = first
  <2> HIDE DEF zero, one
  <2>1. once \in MxfType /\ once.pos = HeaderLen /\ once.parts = {new}
    BY <1>4, <1>5, <1>6
  <2>2. once = [header EXCEPT !.rip = first]
    BY <1>5 DEF PushRip, zero, one
  <2> HIDE DEF once, first
  <2>3. once.packets = <<>> /\ once.disk = <<>> /\ once.rip = first
    BY <1>5, <2>2 DEF MxfType
  <2>4. QED
    BY <2>1, <2>3
<1>8. /\ inter \in MxfType /\ inter.pos = HeaderLen /\ inter.parts = {new}
      /\ inter.packets = <<>> /\ inter.disk = <<>> /\ inter.rip = only
  <2> HIDE DEF zero, one
  <2>1. inter \in MxfType /\ inter.pos = HeaderLen /\ inter.parts = {new}
    BY <1>4, <1>5, <1>6
  <2>2. inter = [header EXCEPT !.rip = only]
    BY <1>5 DEF PushRip, zero, one
  <2> HIDE DEF inter, only
  <2>3. inter.packets = <<>> /\ inter.disk = <<>> /\ inter.rip = only
    BY <1>5, <2>2 DEF MxfType
  <2>4. QED
    BY <2>1, <2>3
<1> HIDE DEF once, inter, only
<1>9. /\ twice \in MxfType /\ twice.pos = HeaderLen /\ twice.parts = {new}
      /\ twice.packets = <<>> /\ twice.disk = <<>> /\ twice.rip = second
  <2> HIDE DEF zero, one
  <2>1. twice \in MxfType /\ twice.pos = HeaderLen /\ twice.parts = {new}
    BY <1>4, <1>7, <1>6
  <2>2. twice = [once EXCEPT !.rip = second]
    BY <1>7 DEF PushRip, zero, one
  <2> HIDE DEF twice, second
  <2>3. twice.packets = <<>> /\ twice.disk = <<>> /\ twice.rip = second
    BY <1>7, <2>2 DEF MxfType
  <2>4. QED
    BY <2>1, <2>3
<1> HIDE DEF twice, second
<1>10. /\ body \in MxfType /\ body.pos = after /\ body.parts = both
      /\ body.packets = <<>> /\ body.disk = <<>> /\ body.rip = second
  <2>1. body \in MxfType
    BY <1>4, <1>9, PutPackType
  <2>2. body = [twice EXCEPT !.pos = after, !.parts = both]
    BY <1>9 DEF PutPack
  <2> HIDE DEF body, after, both
  <2>3. QED
    BY <1>9, <2>1, <2>2 DEF MxfType
<1> HIDE DEF body
<1>11. /\ opened \in MxfType /\ opened.packets = <<>> /\ opened.disk = <<>>
       /\ opened.pos = (IF smpte THEN after ELSE HeaderLen)
       /\ opened.parts = (IF smpte THEN both ELSE {new})
       /\ opened.rip = (IF smpte THEN second ELSE only)
  BY <1>8, <1>10
<1> HIDE DEF opened, after, both
<1>12. index \in Seq(Segment)
  <2>1. <<>> \in Seq(Entry)
    OBVIOUS
  <2>2. [start |-> 0, entries |-> <<>>] \in Segment
    BY <2>1 DEF Segment
  <2>3. QED
    BY <2>2
<1> HIDE DEF index
<1>13. /\ mxf' \in MxfType /\ mxf'.packets = opened.packets /\ mxf'.disk = opened.disk
       /\ mxf'.pos = opened.pos
       /\ mxf'.parts = opened.parts /\ mxf'.rip = opened.rip /\ mxf'.segs = index
  BY <1>1, <1>11, <1>12 DEF MxfType
<1>14. QED
  BY <1>2, <1>3, <1>11, <1>13
     DEF NewFile, TheHeader, TheBody, new, pack, index, after, both, first, second, only

\* The class of timed text
LEMMA TextKind ==
  ASSUME KindOK(kind), TypeInv, kind.text
  PROVE  ~kind.gop /\ ~kind.counts /\ kind.eyes = 1
<1>1. kind \in AllKinds
  BY DEF TypeInv, TypeOK
<1>2. ~JP2K.text
  BY DEF JP2K
<1>3. ~JXS.text /\ ~Stereo.text /\ ~MPEG2.text /\ ~PCM.text /\ ~DCData.text
  BY DEF JXS, Stereo, MPEG2, PCM, DCData, JP2K
<1>4. kind = TimedText
  BY <1>1, <1>2, <1>3 DEF AllKinds
<1>5. ~TimedText.gop /\ ~TimedText.counts /\ TimedText.eyes = 1
  BY DEF TimedText, DCData, JP2K
<1>6. QED
  BY <1>4, <1>5

Opening(f) ==
  /\ state \in {"BEGIN", "UNOPENED"} /\ state' = "READY"
  /\ f \in {"none", "bodyTorn"} /\ (f = "bodyTorn" => smpte)
  /\ \E op, r : Call(op, f, r)
  /\ UNCHANGED <<kind, smpte, streams>>
  /\ framesWritten' = 0 /\ nextPhase' = 1
  /\ NewFile(mxf', f)

Framing(len, start, f, lost) ==
  /\ Writing /\ state' = "RUNNING" /\ (kind.text => state = "READY")
  /\ len \in FrameLens /\ start \in BOOLEAN /\ lost \in 0 .. len /\ (start => kind.gop)
  /\ f \in {"none"} \cup PacketFaults
  /\ \E op, r : Call(op, f, r)
  /\ UNCHANGED <<kind, smpte, streams>>
  /\ framesWritten' = IF kind.counts \/ f = "none" THEN framesWritten + 1 ELSE framesWritten
  /\ gopOffset' = IF ~kind.gop \/ f # "none" THEN gopOffset
                  ELSE IF start THEN 1 ELSE gopOffset + 1
  /\ nextPhase' = IF kind.eyes = 2 THEN 3 - nextPhase ELSE nextPhase
  /\ PacketStep(len, start, f, lost)

Shelving(f) ==
  /\ state = "RUNNING" /\ state' = "RUNNING" /\ kind.text
  /\ f \in {"none"} \cup PacketFaults \cup PackFaults("stream")
  /\ \E op, r : Call(op, f, r)
  /\ UNCHANGED <<kind, smpte, gopOffset, nextPhase>>
  /\ streams' = streams + 1 /\ framesWritten' = framesWritten + 1
  /\ AncillaryStep(f)

Idling ==
  /\ Writing
  /\ UNCHANGED <<kind, smpte, state, mxf, framesWritten, gopOffset, nextPhase, streams, faults>>

\* Every step after which the file is open is one of these four.
LEMMA WritingSteps ==
  ASSUME TypeInv, EyesInv, [Next]_vars, Writing'
  PROVE  \/ \E f \in Faults : Opening(f)
         \/ \E len, start, f, lost : Framing(len, start, f, lost)
         \/ \E f \in Faults : Shelving(f)
         \/ Idling
<1>1. KindOK(kind) /\ framesWritten \in Nat /\ nextPhase \in 1 .. kind.eyes
  BY KindFacts DEF TypeInv, TypeOK
<1>2. ASSUME NEW f \in Faults, Open(f) PROVE Opening(f)
  <2>1. NewFile(mxf', f) /\ f \in {"none", "bodyTorn"} /\ (f = "bodyTorn" => smpte)
    BY <1>2, OpenDoes
  <2>2. state' = "READY"
    BY <1>2 DEF Open, Writing
  <2>3. \E op, r : Call(op, f, r)
    BY <1>2 DEF Open
  <2>4. /\ state \in {"BEGIN", "UNOPENED"} /\ framesWritten' = 0 /\ nextPhase' = 1
        /\ UNCHANGED <<kind, smpte, streams>>
    BY <1>2 DEF Open
  <2>5. QED
    BY <2>1, <2>2, <2>3, <2>4 DEF Opening
<1>3. ASSUME NEW len \in FrameLens, NEW start \in BOOLEAN, NEW f \in Faults, NEW lost \in 0 .. len,
             WriteFrame(len, start, f, lost)
      PROVE  Framing(len, start, f, lost)
  <2>1. /\ f \in {"none"} \cup PacketFaults
        /\ mxf' = Indexed(PutPacket(mxf, len, start, f, lost), start, f)
    BY <1>3 DEF WriteFrame
  <2>2. PacketStep(len, start, f, lost)
    BY <2>1, PacketDoes
  <2>3. \E op, r : Call(op, f, r)
    BY <1>3 DEF WriteFrame
  <2>4. /\ Writing /\ ~kind.text /\ state' = "RUNNING" /\ (start => kind.gop)
        /\ UNCHANGED <<kind, smpte, streams>>
        /\ framesWritten' = IF kind.counts \/ f = "none" THEN framesWritten + 1 ELSE framesWritten
        /\ gopOffset' = IF ~kind.gop \/ f # "none" THEN gopOffset
                        ELSE IF start THEN 1 ELSE gopOffset + 1
        /\ nextPhase' = IF kind.eyes = 2 THEN 3 - nextPhase ELSE 1
    BY <1>3 DEF WriteFrame, PhaseMoves
  <2>5. nextPhase' = IF kind.eyes = 2 THEN 3 - nextPhase ELSE nextPhase
    BY <1>1, <2>4 DEF KindOK
  <2>6. QED
    BY <2>1, <2>2, <2>3, <2>4, <2>5 DEF Framing
<1>4. ASSUME NEW len \in FrameLens, NEW f \in Faults, NEW lost \in 0 .. len, WriteText(len, f, lost)
      PROVE  Framing(len, FALSE, f, lost)
  <2> DEFINE no == FALSE
  <2>1. /\ f \in {"none"} \cup PacketFaults /\ no \in BOOLEAN /\ ~no
        /\ mxf' = Indexed(PutPacket(mxf, len, no, f, lost), no, f)
    BY <1>4 DEF WriteText
  <2> HIDE DEF no
  <2>2. PacketStep(len, no, f, lost)
    BY <2>1, PacketDoes
  <2>3. \E op, r : Call(op, f, r)
    BY <1>4 DEF WriteText
  <2>4. /\ Writing /\ state = "READY" /\ state' = "RUNNING" /\ kind.text
        /\ UNCHANGED <<kind, smpte, streams, gopOffset, nextPhase>>
        /\ framesWritten' = IF f = "none" THEN framesWritten + 1 ELSE framesWritten
    BY <1>4 DEF WriteText, Writing
  <2>5. ~kind.gop /\ ~kind.counts /\ kind.eyes = 1
    BY <1>1, <2>4, TextKind
  <2>6. Framing(len, no, f, lost)
    BY <2>1, <2>2, <2>3, <2>4, <2>5 DEF Framing
  <2>7. QED
    BY <2>6 DEF no
<1>5. ASSUME NEW f \in Faults, NEW lost \in 0 .. StreamLen, WriteAncillary(f, lost)
      PROVE  Shelving(f)
  <2>1. AncillaryStep(f)
    BY <1>5, AncillaryDoes
  <2>2. \E op, r : Call(op, f, r)
    BY <1>5 DEF WriteAncillary
  <2>3. QED
    BY <1>5, <2>1, <2>2 DEF WriteAncillary, Shelving
<1>6. ASSUME FinalizeRefused PROVE Idling
  <2>1. /\ Writing /\ state = "READY" /\ UNCHANGED <<kind, smpte, state, mxf, gopOffset, nextPhase, streams>>
        /\ framesWritten' = IF kind.eyes = 2 THEN framesWritten \div 2 ELSE framesWritten
        /\ faults' = faults
    BY <1>6 DEF FinalizeRefused, Writing, Call
  <2>2. kind.eyes = 2 => framesWritten = 0
    BY <2>1 DEF EyesInv
  <2>3. 0 \div 2 = 0
    OBVIOUS
  <2>4. framesWritten' = framesWritten
    BY <2>1, <2>2, <2>3
  <2>5. QED
    BY <2>1, <2>4 DEF Idling
<1>7. ASSUME RefusedCall PROVE Idling
  BY <1>7 DEF RefusedCall, Idling, Writing, Call
<1>8. CASE UNCHANGED vars
  BY <1>8 DEF vars, Idling, Writing
<1>9. ASSUME NEW len \in FrameLens \cup {0}, WriteFrameClosed(len) PROVE FALSE
  BY <1>9 DEF WriteFrameClosed, Writing
<1>10. ASSUME NEW f \in Faults, Finalize(f) \/ FinalizeStops(f) PROVE FALSE
  BY <1>10 DEF Finalize, FinalizeStops, Writing
<1>11. ~OpenRefused /\ ~FinalizeAsserts /\ ~AbortedWrite
  BY DEF OpenRefused, FinalizeAsserts, AbortedWrite, Writing
<1>12. QED
  <2>1. CASE \E f \in Faults : Open(f)
    BY <1>2, <2>1
  <2>2. CASE \E len \in FrameLens, start \in BOOLEAN, f \in Faults :
               \E lost \in 0 .. len : WriteFrame(len, start, f, lost)
    BY <1>3, <2>2
  <2>3. CASE \E len \in FrameLens, f \in Faults : \E lost \in 0 .. len : WriteText(len, f, lost)
    BY <1>4, <2>3
  <2>4. CASE \E f \in Faults, lost \in 0 .. StreamLen : WriteAncillary(f, lost)
    BY <1>5, <2>4
  <2>5. /\ ~(\E len \in FrameLens \cup {0} : WriteFrameClosed(len))
        /\ ~(\E f \in Faults : Finalize(f) \/ FinalizeStops(f))
    BY <1>9, <1>10
  <2>6. QED
    BY <1>6, <1>7, <1>8, <1>11, <2>1, <2>2, <2>3, <2>4, <2>5 DEF Next

-----------------------------------------------------------------------------
(* The layout *)

\* What a pack appended at the position of the file changes: nothing before it
LEMMA PackBehind ==
  ASSUME NEW m \in MxfType, NEW a \in MxfType, NEW pack \in Pack,
         m.pos > 0, Blank(m), Placed(m), pack.at = m.pos,
         a.parts = m.parts \cup {pack}, a.pos > m.pos
  PROVE  Blank(a) /\ Placed(a)
<1>1. m.pos \in Nat /\ a.pos \in Nat /\ \A p \in a.parts : p.at \in Nat
  BY FileTypes, PartTypes
<1>2. PICK h \in m.parts : h.at = 0
  BY DEF Blank, Resolves
<1>3. Resolves(a, 0)
  BY <1>2 DEF Resolves
<1>4. \A p \in a.parts : p.at = 0 => p \in m.parts
  BY <1>1
<1>5. Blank(a)
  BY <1>3, <1>4 DEF Blank
<1>6. \A p \in m.parts : p.at < m.pos
  BY DEF Placed
<1>7. \A p \in a.parts : p.at < a.pos
  BY <1>1, <1>6
<1>8. \A p, q \in a.parts : p.at = q.at => p = q
  <2>1. \A p, q \in m.parts : p.at = q.at => p = q
    BY DEF Placed
  <2>2. \A p \in m.parts : p.at # pack.at
    BY <1>1, <1>6
  <2>3. QED
    BY <2>1, <2>2
<1>9. QED
  BY <1>5, <1>7, <1>8 DEF Placed

\* A packet appended behind the position of the file
LEMMA PacketBehind ==
  ASSUME NEW m \in MxfType, NEW a \in MxfType, NEW p \in Packet, InOrder(m),
         p.at >= m.pos, p.len > 0, p.at + p.len <= a.pos, m.pos <= a.pos,
         a.packets = Append(m.packets, p)
  PROVE  InOrder(a)
<1> DEFINE n == Len(m.packets)
<1>1. /\ n \in Nat /\ DOMAIN m.packets = 1 .. n /\ DOMAIN a.packets = 1 .. n + 1
      /\ a.packets[n + 1] = p /\ \A i \in 1 .. n : a.packets[i] = m.packets[i]
  BY FileTypes
<1>2. /\ m.pos \in Nat /\ a.pos \in Nat
      /\ \A i \in 1 .. n : m.packets[i].at \in Nat /\ m.packets[i].len \in Nat
      /\ p.at \in Nat /\ p.len \in Nat
  BY <1>1, FileTypes, PartTypes DEF Packet
<1> HIDE DEF n
<1>3. \A i \in 1 .. n :
        /\ m.packets[i].len > 0 /\ m.packets[i].at + m.packets[i].len <= m.pos
        /\ \A j \in 1 .. n : i < j => m.packets[i].at + m.packets[i].len <= m.packets[j].at
  BY <1>1 DEF InOrder
<1>4. ASSUME NEW i \in 1 .. n
      PROVE  /\ m.packets[i].at + m.packets[i].len <= a.pos
             /\ m.packets[i].at + m.packets[i].len <= p.at
  <2> DEFINE end == m.packets[i].at + m.packets[i].len
  <2>1. end \in Nat /\ end <= m.pos
    BY <1>2, <1>3
  <2> HIDE DEF end
  <2>2. end <= a.pos /\ end <= p.at
    BY <1>2, <2>1
  <2>3. QED
    BY <2>2 DEF end
<1>5. \A i \in 1 .. n + 1 : i \in 1 .. n \/ i = n + 1
  BY <1>1
<1>6. ASSUME NEW i \in 1 .. n + 1
      PROVE  /\ a.packets[i].len > 0 /\ a.packets[i].at + a.packets[i].len <= a.pos
             /\ \A j \in 1 .. n + 1 :
                  i < j => a.packets[i].at + a.packets[i].len <= a.packets[j].at
  <2>1. CASE i \in 1 .. n
    BY <1>1, <1>3, <1>4, <1>5, <2>1
  <2>2. CASE i = n + 1
    BY <1>1, <1>5, <2>2
  <2>3. QED
    BY <1>5, <2>1, <2>2
<1>7. QED
  BY <1>1, <1>6 DEF InOrder

LEMMA NewFileLayout ==
  ASSUME TypeInv, NEW f \in Faults, Opening(f)
  PROVE  Layout'
<1> DEFINE a == mxf'
<1>1. NewFile(a, f) /\ UNCHANGED <<kind, smpte, streams>> /\ streams = 0
  BY DEF Opening, TypeInv, NoStreamBefore
<1>2. HeaderLen \in Nat /\ HeaderLen > 0 /\ PackLen \in Nat /\ PackLen > 0 /\ PackLost \in Nat
  BY LengthAssumption
<1> HIDE DEF a
<1>3. TheHeader.at = 0 /\ TheHeader.footer = 0 /\ TheHeader.segs = <<>> /\ TheBody.at = HeaderLen
  BY DEF TheHeader, TheBody, NewPack
<1> HIDE DEF TheHeader, TheBody
<1>4. a.pos > 0 /\ a.disk = <<>>
  BY <1>1, <1>2 DEF NewFile
<1>5. /\ TheHeader \in a.parts
      /\ \A p \in a.parts : p = TheHeader \/ (p = TheBody /\ smpte /\ f = "none")
  BY <1>1 DEF NewFile
<1>6. Blank(a)
  <2>1. Resolves(a, 0)
    BY <1>1, <1>3, <1>5 DEF NewFile, Resolves
  <2>2. QED
    BY <1>2, <1>3, <1>5, <2>1 DEF Blank
<1>7. Placed(a)
  <2>1. \A p \in a.parts : p.at < a.pos
    BY <1>1, <1>2, <1>3, <1>5 DEF NewFile
  <2>2. \A p, q \in a.parts : p.at = q.at => p = q
    BY <1>2, <1>3, <1>5
  <2>3. QED
    BY <2>1, <2>2 DEF Placed
<1>8. InOrder(a)
  BY <1>1 DEF NewFile, InOrder
<1>9. (Listing(mxf))'
  <2>1. a.rip = IF smpte THEN Append(Append(<<>>, [sid |-> 0, at |-> 0]), [sid |-> 1, at |-> HeaderLen])
                ELSE Append(<<>>, [sid |-> 1, at |-> 0])
    BY <1>1 DEF NewFile
  <2>2. CASE ~smpte
    BY <1>1, <2>1, <2>2 DEF Listing, a
  <2>3. CASE smpte
    <3>1. /\ Len(a.rip) = 2 /\ a.rip[1] = [sid |-> 0, at |-> 0]
          /\ a.rip[2] = [sid |-> 1, at |-> HeaderLen]
      BY <2>1, <2>3
    <3>2. 1 .. 0 = {}
      OBVIOUS
    <3>3. QED
      BY <1>1, <2>3, <3>1, <3>2 DEF Listing, a
  <2>4. QED
    BY <2>2, <2>3
<1>10. QED
  BY <1>4, <1>6, <1>7, <1>8, <1>9 DEF Layout, a

LEMMA FramingLayout ==
  ASSUME TypeInv, Layout, NEW len, NEW start, NEW f, NEW lost, Framing(len, start, f, lost)
  PROVE  Layout'
<1> DEFINE a == mxf'
<1>1. /\ PacketStep(len, start, f, lost) /\ UNCHANGED <<smpte, streams>> /\ Writing
      /\ len \in Nat /\ len > 0 /\ lost \in Nat /\ f \in {"none", "context", "flush"}
  BY FrameLensNat DEF Framing, PacketFaults
<1>2. /\ mxf \in MxfType /\ mxf.pos \in Nat /\ mxf.queued \in Nat /\ mxf.pos > 0 /\ mxf.disk = <<>>
      /\ Blank(mxf) /\ Placed(mxf) /\ InOrder(mxf) /\ Listing(mxf)
  BY <1>1, FileTypes DEF TypeInv, TypeOK, Layout
<1>3. /\ a \in MxfType /\ a.parts = mxf.parts /\ a.rip = mxf.rip
      /\ a.disk = mxf.disk /\ a.duration = mxf.duration
      /\ (f = "context" => a = mxf)
      /\ (f = "flush" => a.pos = mxf.pos + lost /\ a.packets = mxf.packets)
      /\ (f = "none" => /\ a.pos = mxf.pos + mxf.queued + len
                       /\ \E p \in Packet : p.at = mxf.pos + mxf.queued /\ p.len = len
                            /\ a.packets = Append(mxf.packets, p))
  BY <1>1 DEF PacketStep
<1> HIDE DEF a
<1>4. a.pos \in Nat /\ a.pos >= mxf.pos
  BY <1>1, <1>2, <1>3
<1>5. Blank(a)
  BY <1>2, <1>3 DEF Blank, Resolves
<1>6. Placed(a)
  <2>1. \A p \in a.parts : p.at \in Nat
    BY <1>3, PartTypes
  <2>2. QED
    BY <1>2, <1>3, <1>4, <2>1 DEF Placed
<1>7. InOrder(a)
  <2>1. CASE f = "none"
    <3>1. PICK p \in Packet : p.at = mxf.pos + mxf.queued /\ p.len = len
                               /\ a.packets = Append(mxf.packets, p)
      BY <1>3, <2>1
    <3>2. p.at >= mxf.pos /\ p.len > 0 /\ p.at + p.len <= a.pos
      BY <1>1, <1>2, <1>3, <2>1, <3>1
    <3>3. QED
      BY <1>2, <1>3, <1>4, <3>1, <3>2, PacketBehind
  <2>2. CASE f # "none"
    <3>1. a.packets = mxf.packets
      BY <1>1, <1>3, <2>2
    <3>2. /\ DOMAIN mxf.packets = 1 .. Len(mxf.packets)
          /\ \A i \in DOMAIN mxf.packets : mxf.packets[i].at \in Nat /\ mxf.packets[i].len \in Nat
      BY <1>2, FileTypes, PartTypes
    <3>3. \A i \in DOMAIN mxf.packets :
            mxf.packets[i].at + mxf.packets[i].len <= mxf.pos =>
              mxf.packets[i].at + mxf.packets[i].len <= a.pos
      BY <1>2, <1>4, <3>2
    <3>4. QED
      BY <1>2, <3>1, <3>3 DEF InOrder
  <2>3. QED
    BY <2>1, <2>2
<1>8. (Listing(mxf))'
  BY <1>1, <1>2, <1>3 DEF Listing, a
<1>9. QED
  BY <1>2, <1>3, <1>4, <1>5, <1>6, <1>7, <1>8 DEF Layout, a

LEMMA ShelvingLayout ==
  ASSUME TypeInv, Layout, History, NEW f \in Faults, Shelving(f)
  PROVE  Layout'
<1> DEFINE a   == mxf'
           sid == FirstStream + streams
           new == [sid |-> sid, at |-> mxf.pos]
<1>1. /\ AncillaryStep(f) /\ UNCHANGED smpte /\ streams' = streams + 1 /\ Writing /\ smpte
      /\ streams \in Nat
  BY BoundAssumption DEF Shelving, Writing, History, TypeInv, TypeOK
<1>2. /\ mxf \in MxfType /\ mxf.pos \in Nat /\ mxf.pos > 0 /\ mxf.disk = <<>>
      /\ Blank(mxf) /\ Placed(mxf) /\ InOrder(mxf) /\ Listing(mxf)
  BY <1>1, FileTypes DEF TypeInv, TypeOK, Layout
<1>3. /\ a \in MxfType /\ a.packets = mxf.packets /\ a.disk = mxf.disk /\ a.duration = mxf.duration
      /\ a.rip = Append(mxf.rip, new) /\ a.pos >= mxf.pos
      /\ \/ a.parts = mxf.parts
         \/ /\ a.pos >= mxf.pos + PackLen
            /\ \E pack \in Pack : pack.at = mxf.pos /\ a.parts = mxf.parts \cup {pack}
  BY <1>1 DEF AncillaryStep
<1> HIDE DEF a, new
<1>4. a.pos \in Nat /\ PackLen \in Nat /\ PackLen > 0
  BY <1>3, FileTypes, LengthAssumption
<1>5. Blank(a) /\ Placed(a)
  <2>1. CASE a.parts = mxf.parts
    <3>1. \A p \in a.parts : p.at \in Nat
      BY <1>3, PartTypes
    <3>2. Blank(a)
      BY <1>2, <1>3, <2>1 DEF Blank, Resolves
    <3>3. Placed(a)
      BY <1>2, <1>3, <1>4, <2>1, <3>1 DEF Placed
    <3>4. QED
      BY <3>2, <3>3
  <2>2. ASSUME NEW pack \in Pack, pack.at = mxf.pos, a.parts = mxf.parts \cup {pack},
               a.pos >= mxf.pos + PackLen
        PROVE  Blank(a) /\ Placed(a)
    <3>1. a.pos > mxf.pos
      BY <1>2, <1>3, <1>4, <2>2
    <3>2. QED
      BY <1>2, <1>3, <2>2, <3>1, PackBehind
  <2>3. QED
    BY <1>3, <2>1, <2>2
<1>6. InOrder(a)
  <2>1. /\ DOMAIN mxf.packets = 1 .. Len(mxf.packets)
        /\ \A i \in DOMAIN mxf.packets : mxf.packets[i].at \in Nat /\ mxf.packets[i].len \in Nat
    BY <1>2, FileTypes, PartTypes
  <2>2. QED
    BY <1>2, <1>3, <1>4, <2>1 DEF InOrder
<1>7. (Listing(mxf))'
  <2>1. /\ Len(mxf.rip) = 2 + streams
        /\ mxf.rip[1] = [sid |-> 0, at |-> 0] /\ mxf.rip[2] = [sid |-> 1, at |-> HeaderLen]
        /\ \A k \in 1 .. streams : mxf.rip[2 + k].sid = FirstStream + k - 1
    BY <1>1, <1>2 DEF Listing
  <2>2. mxf.rip \in Seq(Pair) /\ new \in Pair /\ new.sid = FirstStream + streams
    BY <1>1, <1>2, FileTypes DEF new, Pair, FirstStream
  <2>3. /\ Len(a.rip) = 2 + (streams + 1) /\ a.rip[3 + streams] = new
        /\ \A i \in 1 .. 2 + streams : a.rip[i] = mxf.rip[i]
    BY <1>1, <1>3, <2>1, <2>2
  <2>4. \A k \in 1 .. streams + 1 : k \in 1 .. streams \/ k = streams + 1
    BY <1>1
  <2>5. \A k \in 1 .. streams : 2 + k \in 1 .. 2 + streams
    BY <1>1
  <2>6. ASSUME NEW k \in 1 .. streams + 1
        PROVE  a.rip[2 + k].sid = FirstStream + k - 1
    <3>1. CASE k \in 1 .. streams
      BY <2>1, <2>3, <2>5, <3>1
    <3>2. CASE k = streams + 1
      <4>1. 2 + k = 3 + streams /\ FirstStream + k - 1 = FirstStream + streams
        BY <1>1, <3>2 DEF FirstStream
      <4>2. QED
        BY <2>2, <2>3, <4>1
    <3>3. QED
      BY <2>4, <3>1, <3>2
  <2>7. 1 \in 1 .. 2 + streams /\ 2 \in 1 .. 2 + streams
    BY <1>1
  <2>8. QED
    BY <1>1, <2>1, <2>3, <2>6, <2>7 DEF Listing, a
<1>8. QED
  BY <1>2, <1>3, <1>4, <1>5, <1>6, <1>7 DEF Layout, a

LEMMA NextLayout ==
  ASSUME TypeInv, EyesInv, History, Layout, [Next]_vars
  PROVE  Layout'
<1>1. CASE ~Writing'
  BY <1>1 DEF Layout
<1>2. CASE Idling
  BY <1>2 DEF Idling, Layout, Listing, Writing
<1>3. CASE Writing'
  BY <1>2, <1>3, WritingSteps, NewFileLayout, FramingLayout, ShelvingLayout
<1>4. QED
  BY <1>1, <1>3

-----------------------------------------------------------------------------
(* The faults met by now *)

LEMMA KindKept ==
  ASSUME [Next]_vars
  PROVE  UNCHANGED <<kind, smpte>>
<1>1. ASSUME NEW f \in Faults, Open(f) PROVE UNCHANGED <<kind, smpte>>
  BY <1>1 DEF Open
<1>2. ASSUME NEW len, NEW start, NEW f, NEW lost, WriteFrame(len, start, f, lost)
      PROVE  UNCHANGED <<kind, smpte>>
  BY <1>2 DEF WriteFrame
<1>3. ASSUME NEW len, WriteFrameClosed(len) PROVE UNCHANGED <<kind, smpte>>
  BY <1>3 DEF WriteFrameClosed
<1>4. ASSUME NEW len, NEW f, NEW lost, WriteText(len, f, lost) PROVE UNCHANGED <<kind, smpte>>
  BY <1>4 DEF WriteText
<1>5. ASSUME NEW f, NEW lost, WriteAncillary(f, lost) PROVE UNCHANGED <<kind, smpte>>
  BY <1>5 DEF WriteAncillary
<1>6. ASSUME NEW f, Finalize(f) \/ FinalizeStops(f) PROVE UNCHANGED <<kind, smpte>>
  BY <1>6 DEF Finalize, FinalizeStops, Finishing
<1>7. CASE OpenRefused \/ FinalizeRefused \/ FinalizeAsserts \/ AbortedWrite \/ RefusedCall
  BY <1>7 DEF OpenRefused, FinalizeRefused, FinalizeAsserts, AbortedWrite, RefusedCall
<1>8. CASE UNCHANGED vars
  BY <1>8 DEF vars
<1>9. QED
  BY <1>1, <1>2, <1>3, <1>4, <1>5, <1>6, <1>7, <1>8 DEF Next

Unfinalized == \A i \in DOMAIN faults : faults[i].fault \notin FinalizeFaults \cup {"assert"}

LEMMA UnfinalizedCall ==
  ASSUME TypeInv, Unfinalized, NEW op, NEW f, NEW r, Call(op, f, r), kind' = kind,
         f \notin FinalizeFaults \cup {"assert"}
  PROVE  Unfinalized'
<1>1. CASE f = "none"
  <2>1. faults' = faults
    BY <1>1, HarmsCall
  <2>2. QED
    BY <2>1 DEF Unfinalized
<1>2. CASE f # "none"
  <2> DEFINE n == Len(faults)
  <2>1. /\ n \in Nat /\ DOMAIN faults' = 1 .. n + 1 /\ DOMAIN faults = 1 .. n
        /\ \A i \in DOMAIN faults : faults'[i] = faults[i]
        /\ faults'[n + 1].fault = f
    BY <1>2, HarmsCall
  <2> HIDE DEF n
  <2>2. \A i \in 1 .. n + 1 : i \in 1 .. n \/ i = n + 1
    BY <2>1
  <2>3. QED
    BY <2>1, <2>2 DEF Unfinalized
<1>3. QED
  BY <1>1, <1>2

\* A call on a file that is not open yet, or whose OpenWrite fails
Beginning(f) ==
  /\ state \in {"BEGIN", "UNOPENED"} /\ state' \in {"BEGIN", "UNOPENED"}
  /\ f \in {"none", "header", "body"}
  /\ \E op, r : Call(op, f, r)
  /\ mxf'.parts = {} /\ mxf'.packets = <<>> /\ mxf'.disk = <<>>

LEMMA BeginningSteps ==
  ASSUME TypeInv, History, Next, state' \in {"BEGIN", "UNOPENED"}
  PROVE  \E f : Beginning(f)
<1>1. Empty.parts = {} /\ Empty.packets = <<>> /\ Empty.disk = <<>>
  BY DEF Empty
<1>2. ASSUME NEW f \in Faults, Open(f) PROVE Beginning(f)
  <2>1. f \in {"header", "body"} /\ mxf' = Empty /\ state \in {"BEGIN", "UNOPENED"}
    BY <1>2 DEF Open
  <2>2. \E op, r : Call(op, f, r)
    BY <1>2 DEF Open
  <2>3. QED
    BY <1>1, <2>1, <2>2 DEF Beginning
<1>3. ASSUME OpenRefused PROVE Beginning("none")
  BY <1>1, <1>3 DEF OpenRefused, Beginning
<1>4. ASSUME NEW len \in FrameLens \cup {0}, WriteFrameClosed(len) PROVE Beginning("none")
  <2> DEFINE queued == mxf.queued + len
  <2>1. mxf' = [mxf EXCEPT !.queued = queued] /\ state = "UNOPENED"
        /\ \E op, r : Call(op, "none", r)
    BY <1>4 DEF WriteFrameClosed
  <2>2. mxf \in MxfType
    BY DEF TypeInv, TypeOK
  <2> HIDE DEF queued
  <2>3. mxf'.parts = mxf.parts /\ mxf'.packets = mxf.packets /\ mxf'.disk = mxf.disk
    BY <2>1, <2>2 DEF MxfType
  <2>4. QED
    BY <2>1, <2>3 DEF Beginning, History
<1>5. ASSUME FinalizeRefused PROVE Beginning("none")
  <2>1. state' = state /\ mxf' = mxf /\ \E op, r : Call(op, "none", r)
    BY <1>5 DEF FinalizeRefused
  <2>2. QED
    BY <2>1 DEF Beginning, History
<1>6. ASSUME RefusedCall PROVE Beginning("none")
  <2>1. state' = state /\ mxf' = mxf
    BY <1>6 DEF RefusedCall
  <2>2. \E op, r : Call(op, "none", r)
    BY <1>6 DEF RefusedCall
  <2>3. QED
    BY <2>1, <2>2 DEF Beginning, History
<1>7. ASSUME NEW len, NEW start, NEW f, NEW lost, WriteFrame(len, start, f, lost) PROVE FALSE
  BY <1>7 DEF WriteFrame
<1>8. ASSUME NEW len, NEW f, NEW lost, WriteText(len, f, lost) PROVE FALSE
  BY <1>8 DEF WriteText
<1>9. ASSUME NEW f, NEW lost, WriteAncillary(f, lost) PROVE FALSE
  BY <1>9 DEF WriteAncillary
<1>10. ASSUME NEW f, Finalize(f) \/ FinalizeStops(f) PROVE FALSE
  BY <1>10 DEF Finalize, FinalizeStops
<1>11. ~FinalizeAsserts /\ ~AbortedWrite
  BY DEF FinalizeAsserts, AbortedWrite
<1>12. QED
  BY <1>2, <1>3, <1>4, <1>5, <1>6, <1>7, <1>8, <1>9, <1>10, <1>11 DEF Next

\* A call on a file that stays open meets no fault of Finalize.
LEMMA WritingUnfinalized ==
  ASSUME TypeInv, EyesInv, History, [Next]_vars, Writing'
  PROVE  Unfinalized'
<1>1. Unfinalized /\ kind' = kind
  <2>1. state \in {"BEGIN", "UNOPENED"} \/ Writing
    BY WritingSteps DEF Opening, Framing, Shelving, Idling, Writing
  <2>2. QED
    BY <2>1, KindKept DEF History, Unfinalized
<1>2. ASSUME NEW f, f \in {"none", "bodyTorn"} \cup PacketFaults \cup PackFaults("stream"),
             \E op, r : Call(op, f, r)
      PROVE  Unfinalized'
  <2>1. f \notin FinalizeFaults \cup {"assert"}
    BY <1>2 DEF FinalizeFaults, Rewrites, PacketFaults, PackFaults, Torn
  <2>2. QED
    BY <1>1, <1>2, <2>1, UnfinalizedCall
<1>3. ASSUME NEW f \in Faults, Opening(f) PROVE Unfinalized'
  BY <1>2, <1>3 DEF Opening
<1>4. ASSUME NEW len, NEW start, NEW f, NEW lost, Framing(len, start, f, lost) PROVE Unfinalized'
  <2>1. f \in {"none", "bodyTorn"} \cup PacketFaults \cup PackFaults("stream")
        /\ \E op, r : Call(op, f, r)
    BY <1>4 DEF Framing
  <2>2. QED
    BY <1>2, <2>1
<1>5. ASSUME NEW f \in Faults, Shelving(f) PROVE Unfinalized'
  <2>1. f \in {"none", "bodyTorn"} \cup PacketFaults \cup PackFaults("stream")
        /\ \E op, r : Call(op, f, r)
    BY <1>5 DEF Shelving
  <2>2. QED
    BY <1>2, <2>1
<1>6. CASE Idling
  BY <1>1, <1>6 DEF Idling, Unfinalized
<1>7. QED
  BY <1>3, <1>4, <1>5, <1>6, WritingSteps

LEMMA NextHistory ==
  ASSUME TypeInv, EyesInv, History, [Next]_vars
  PROVE  History'
<1>1. UNCHANGED <<kind, smpte>>
  BY KindKept
<1>2. CASE UNCHANGED vars
  <2>1. Harms' = Harms
    BY <1>2 DEF vars, Harms, Forgiven
  <2>2. QED
    BY <1>2, <2>1 DEF vars, History, Writing
<1>3. CASE Next /\ state' \in {"BEGIN", "UNOPENED"}
  <2>1. PICK f : Beginning(f)
    BY <1>3, BeginningSteps
  <2>2. PICK op, r : Call(op, f, r)
    BY <2>1 DEF Beginning
  <2>3. Harms = {} /\ Unfinalized /\ f \in {"none", "header", "body"}
    BY <2>1 DEF Beginning, History, Unfinalized
  <2>4. f \in Forgiven \cup {"none"} /\ f \notin FinalizeFaults \cup {"assert"}
    BY <2>3 DEF Forgiven, FinalizeFaults, Rewrites, PackFaults, Torn
  <2>5. Harms' = {}
    BY <1>1, <2>2, <2>3, <2>4, HarmsCall
  <2>6. Unfinalized'
    BY <1>1, <2>2, <2>3, <2>4, UnfinalizedCall
  <2>7. QED
    BY <1>1, <1>3, <2>1, <2>5, <2>6 DEF Beginning, History, Unfinalized
<1>4. CASE Writing'
  <2>1. Unfinalized'
    BY <1>4, WritingUnfinalized
  <2>2. QED
    BY <1>1, <1>4, <2>1 DEF History, Unfinalized, Writing
<1>5. CASE ~Writing' /\ state' \notin {"BEGIN", "UNOPENED"}
  BY <1>1, <1>5 DEF History
<1>6. QED
  BY <1>2, <1>3, <1>4, <1>5

-----------------------------------------------------------------------------
(* The packets that no fault has touched *)

LEMMA SoundType ==
  ASSUME TypeInv
  PROVE  /\ SoundFrames \in Nat /\ Sound \in Nat /\ Frames \in Nat
         /\ Len(mxf.packets) \in Nat /\ DOMAIN mxf.packets = 1 .. Len(mxf.packets)
         /\ mxf \in MxfType /\ kind.eyes \in {1, 2} /\ KindOK(kind)
<1>1. faults \in Seq(FaultRecord) /\ mxf \in MxfType /\ KindOK(kind)
  BY KindFacts DEF TypeInv, TypeOK, FaultRecord
<1>2. Frames \in Nat /\ kind.eyes \in {1, 2}
  BY FramesPackets
<1>3. Len(mxf.packets) \in Nat /\ DOMAIN mxf.packets = 1 .. Len(mxf.packets)
  BY <1>1, FileTypes
<1>4. SoundFrames \in Nat
  <2>1. CASE Harms = {}
    BY <1>2, <2>1 DEF SoundFrames
  <2>2. CASE Harms # {}
    <3>1. Harms \in SUBSET Nat /\ Harms \subseteq DOMAIN faults
      BY <1>1 DEF Harms
    <3>2. PICK first \in Harms : \A j \in Harms : first <= j
      BY <2>2, <3>1, Smallest
    <3> DEFINE found == CHOOSE i \in Harms : \A j \in Harms : i <= j
    <3>3. found \in Harms
      BY <3>2
    <3> HIDE DEF found
    <3>4. faults[found] \in FaultRecord
      BY <1>1, <3>1, <3>3
    <3>5. faults[found].frames \in Nat
      BY <3>4 DEF FaultRecord
    <3>6. SoundFrames = faults[found].frames
      BY <2>2 DEF SoundFrames, found
    <3>7. QED
      BY <3>5, <3>6
  <2>3. QED
    BY <2>1, <2>2
<1>5. kind.eyes * SoundFrames \in Nat
  BY <1>2, <1>4
<1>6. Sound \in Nat
  BY <1>3, <1>5 DEF Sound
<1>7. QED
  BY <1>1, <1>2, <1>3, <1>4, <1>6

\* What a call does to the number of those packets
LEMMA SoundCall ==
  ASSUME TypeInv, NEW op, NEW f, NEW r, Call(op, f, r), kind' = kind
  PROVE  /\ (Harms = {} /\ f \in Forgiven \cup {"none"}) => Harms' = {} /\ Sound' = Len(mxf'.packets)
         /\ (Harms = {} /\ f \notin Forgiven \cup {"none"}) =>
              Harms' # {} /\ Sound' = kind.eyes * Frames /\ Sound' <= Sound /\ Sound' \in Nat
         /\ Harms # {} => Harms' # {} /\ Sound' = Sound
<1>1. /\ (Harms = {} /\ f \in Forgiven \cup {"none"}) => Harms' = {}
      /\ (Harms = {} /\ f \notin Forgiven \cup {"none"}) => Harms' # {} /\ SoundFrames' = Frames
      /\ Harms # {} => Harms' # {} /\ SoundFrames' = SoundFrames
  BY HarmsCall
<1>2. kind.eyes * Frames <= Len(mxf.packets) /\ kind.eyes * Frames \in Nat
  BY FramesPackets
<1>3. QED
  BY <1>1, <1>2 DEF Sound

\* A call that adds no packet
LEMMA NumberedKept ==
  ASSUME TypeInv, Numbered, UNCHANGED <<kind, smpte>>, mxf'.packets = mxf.packets,
         mxf.parts \subseteq mxf'.parts,
         Sound' \in Nat, Sound' <= Sound, Harms # {} => Harms' # {}
  PROVE  Numbered'
<1>1. Sound \in Nat /\ Len(mxf.packets) \in Nat
  BY SoundType
<1>2. /\ Sound <= Len(mxf.packets)
      /\ \A i \in 1 .. Sound : mxf.packets[i].hmac = i
      /\ kind.eyes = 2 =>
           \A i \in 1 .. Sound - 1 :
             mxf.packets[i + 1].at = mxf.packets[i].at + mxf.packets[i].len
      /\ (~kind.vbr /\ Regular) =>
           \A i \in 1 .. Sound : mxf.packets[i].at = BodyStart + (i - 1) * UnitLen
      /\ smpte => Resolves(mxf, HeaderLen) \/ (Harms # {} /\ Sound = 0)
  BY DEF Numbered
<1> DEFINE few == Sound'
<1>3. few \in Nat /\ few <= Sound
  OBVIOUS
<1> HIDE DEF few
<1>4. \A i \in 1 .. few : i \in 1 .. Sound
  BY <1>1, <1>3
<1>5. \A i \in 1 .. few - 1 : i \in 1 .. Sound - 1
  BY <1>1, <1>3
<1>6. few <= Len(mxf.packets)
  BY <1>1, <1>2, <1>3
<1>7. Regular' = Regular /\ BodyStart' = BodyStart
  BY DEF Regular, BodyStart
<1>8. smpte => Resolves(mxf', HeaderLen) \/ (Harms' # {} /\ few = 0)
  BY <1>1, <1>2, <1>3 DEF Resolves
<1>9. QED
  BY <1>2, <1>4, <1>5, <1>6, <1>7, <1>8 DEF Numbered, few

\* The packets of the document and the resources share one count: before a new packet
\* of essence there is no resource.
LEMMA NoStreamYet ==
  ASSUME TypeInv, NoStreamAhead, NEW len, NEW start, NEW f, NEW lost, Framing(len, start, f, lost)
  PROVE  streams = 0
  BY DEF Framing, NoStreamAhead

LEMMA HarmlessFaults ==
  ASSUME Harms = {}
  PROVE  Unharmed
  BY DEF Harms, Unharmed, Harmless, Forgiven

\* A packet that is written
LEMMA NumberedMore ==
  ASSUME TypeInv, PositionInv, NoStreamAhead, Sequenced,
         NEW len, NEW start, NEW lost, Framing(len, start, "none", lost)
  PROVE  Numbered'
<1> DEFINE n   == Len(mxf.packets)
           old == mxf.packets
           new == mxf'.packets
<1>1. /\ UNCHANGED <<kind, smpte, streams>> /\ Writing /\ streams = 0 /\ len \in Nat
      /\ PacketStep(len, start, "none", lost)
  BY NoStreamYet, FrameLensNat DEF Framing
<1>2. /\ mxf'.parts = mxf.parts /\ mxf'.pos = mxf.pos + mxf.queued + len
  BY <1>1 DEF PacketStep
<1>3. PICK p \in Packet :
        /\ p.at = mxf.pos + mxf.queued /\ p.len = len
        /\ p.hmac = framesWritten + 1 /\ p.start = start
        /\ new = Append(old, p)
  BY <1>1 DEF PacketStep
<1>4. /\ Sound \in Nat /\ n \in Nat /\ mxf \in MxfType /\ kind.eyes \in {1, 2} /\ framesWritten \in Nat
      /\ old \in Seq(Packet) /\ mxf.pos \in Nat /\ mxf.queued \in Nat
  BY SoundType, FileTypes DEF TypeInv, TypeOK
<1>5. /\ Len(new) = n + 1 /\ new[n + 1] = p /\ (n = 0 <=> old = <<>>)
      /\ \A i \in 1 .. n : new[i] = old[i]
  BY <1>3, <1>4
<1>6. Numbered /\ Counted
  BY <1>1 DEF Sequenced
<1>7. PICK op, r : Call(op, "none", r)
  BY DEF Framing
<1>8. /\ Harms = {} => Harms' = {} /\ Sound' = n + 1 /\ Sound = n
      /\ Harms # {} => Harms' # {} /\ Sound' = Sound
  BY <1>1, <1>5, <1>7, SoundCall DEF Sound
<1>9. ASSUME Harms = {} PROVE p.hmac = n + 1 /\ (~kind.text => p.at = End(mxf))
  <2>1. mxf.queued = 0
    BY <1>1, <1>9, HarmlessFaults DEF PositionInv
  <2>2. framesWritten = n + streams /\ (~kind.text => mxf.pos = End(mxf))
    BY <1>6, <1>9 DEF Counted
  <2>3. p.hmac = n + 1 /\ p.at = mxf.pos
    BY <1>1, <1>3, <1>4, <2>1, <2>2
  <2>4. QED
    BY <2>2, <2>3
<1> DEFINE few == Sound'
<1>10. few \in Nat /\ few <= n + 1 /\ Sound <= n /\ (few = n + 1 => Harms = {})
  BY <1>4, <1>6, <1>8 DEF Numbered
<1> HIDE DEF few, n, old
<1>11. \A i \in 1 .. few : (i \in 1 .. Sound /\ i \in 1 .. n) \/ (i = n + 1 /\ Harms = {})
  BY <1>4, <1>8, <1>10 DEF few
<1>12. \A i \in 1 .. few : new[i].hmac = i
  <2>1. \A i \in 1 .. Sound : old[i].hmac = i
    BY <1>6 DEF Numbered, old
  <2>2. QED
    BY <1>5, <1>9, <1>11, <2>1
<1>13. kind.text => kind.eyes = 1 /\ kind.vbr
  BY SoundType DEF KindOK
<1>14. ASSUME kind.eyes = 2, NEW i \in 1 .. few - 1
       PROVE  new[i + 1].at = new[i].at + new[i].len
  <2>1. i \in 1 .. n /\ i + 1 \in 1 .. few
    BY <1>4, <1>10
  <2>2. CASE i + 1 \in 1 .. Sound /\ i + 1 \in 1 .. n
    <3>1. i \in 1 .. Sound - 1
      BY <1>4, <2>2
    <3>2. old[i + 1].at = old[i].at + old[i].len
      BY <1>6, <1>14, <3>1 DEF Numbered, old
    <3>3. QED
      BY <1>5, <2>1, <2>2, <3>2
  <2>3. CASE i + 1 = n + 1 /\ Harms = {}
    <3>1. i = n /\ old # <<>>
      BY <1>4, <1>5, <2>1, <2>3
    <3>2. p.at = End(mxf)
      BY <1>9, <1>13, <1>14, <2>3
    <3>3. p.at = old[n].at + old[n].len
      BY <3>1, <3>2 DEF End, n, old
    <3>4. QED
      BY <1>5, <2>1, <2>3, <3>1, <3>3
  <2>4. QED
    BY <1>11, <2>1, <2>2, <2>3
<1>15. ASSUME ~kind.vbr, Regular' PROVE \A i \in 1 .. few : new[i].at = BodyStart + (i - 1) * UnitLen
  <2>1. /\ \A i \in 1 .. n : new[i].len = UnitLen
        /\ Regular
    <3>1. \A i \in 1 .. n + 1 - 1 : new[i].len = UnitLen
      <4>1. ~kind'.vbr
        BY <1>1, <1>15
      <4>2. \A i \in 1 .. Len(new) - 1 : new[i].len = UnitLen
        BY <1>15, <4>1 DEF Regular
      <4> HIDE DEF new
      <4>3. Len(new) = n + 1
        BY <1>5
      <4>4. QED
        BY <1>4, <4>2, <4>3
    <3>2. \A i \in 1 .. n : i \in 1 .. n + 1 - 1
      BY <1>4
    <3>3. \A i \in 1 .. n - 1 : i \in 1 .. n
      BY <1>4
    <3>4. \A i \in 1 .. n - 1 : old[i].len = UnitLen
      BY <1>5, <3>1, <3>2, <3>3
    <3>5. QED
      BY <3>1, <3>2, <3>4 DEF Regular, n, old
  <2>2. \A i \in 1 .. Sound : old[i].at = BodyStart + (i - 1) * UnitLen
    BY <1>6, <1>15, <2>1 DEF Numbered, old
  <2>3. UnitLen \in Nat /\ BodyStart \in Nat
    BY LengthAssumption, BodyStartType
  <2>4. ASSUME Harms = {} PROVE new[n + 1].at = BodyStart + (n + 1 - 1) * UnitLen
    <3>1. p.at = End(mxf) /\ Sound = n
      BY <1>8, <1>9, <1>13, <1>15, <2>4
    <3>2. CASE n = 0
      <4>1. End(mxf) = BodyStart
        BY <1>4, <3>2 DEF End, n, old
      <4>2. BodyStart = BodyStart + (0 + 1 - 1) * UnitLen
        BY <2>3
      <4>3. QED
        BY <1>5, <3>1, <3>2, <4>1, <4>2
    <3>3. CASE n # 0
      <4>1. n \in 1 .. n /\ old # <<>>
        BY <1>4, <1>5, <3>3
      <4>2. End(mxf) = old[n].at + old[n].len
        BY <4>1 DEF End, n, old
      <4>3. old[n].len = UnitLen /\ old[n].at = BodyStart + (n - 1) * UnitLen
        BY <1>5, <2>1, <2>2, <3>1, <4>1
      <4>4. BodyStart + (n - 1) * UnitLen + UnitLen = BodyStart + (n + 1 - 1) * UnitLen
        BY <1>4, <2>3
      <4>5. QED
        BY <1>5, <3>1, <4>2, <4>3, <4>4
    <3>4. QED
      BY <3>2, <3>3
  <2>5. ASSUME NEW i \in 1 .. few PROVE new[i].at = BodyStart + (i - 1) * UnitLen
    <3>1. CASE i \in 1 .. Sound /\ i \in 1 .. n
      BY <1>5, <2>2, <3>1
    <3>2. CASE i = n + 1 /\ Harms = {}
      <4> HIDE DEF new
      <4>1. new[n + 1].at = BodyStart + (n + 1 - 1) * UnitLen
        BY <2>4, <3>2
      <4>2. QED
        BY <1>4, <1>10, <3>2, <4>1
    <3>3. QED
      BY <1>11, <3>1, <3>2
  <2>6. QED
    BY <2>5
<1>16. smpte => Resolves(mxf', HeaderLen) \/ (Harms' # {} /\ few = 0)
  BY <1>2, <1>6, <1>8 DEF Numbered, Resolves, few
<1>17. BodyStart' = BodyStart
  BY <1>1 DEF BodyStart
<1>18. QED
  BY <1>1, <1>5, <1>10, <1>12, <1>14, <1>15, <1>16, <1>17 DEF Numbered, few

LEMMA NewFileSound ==
  ASSUME TypeInv, History, NEW f \in Faults, Opening(f)
  PROVE  /\ Sound' = 0 /\ (Harms' = {} <=> f = "none")
         /\ mxf'.packets = <<>> /\ Len(mxf'.packets) = 0
<1>1. /\ NewFile(mxf', f) /\ kind' = kind
      /\ f \in {"none", "bodyTorn"}
  BY DEF Opening
<1>2. PICK op, r : Call(op, f, r)
  BY DEF Opening
<1>3. Harms = {} /\ mxf.packets = <<>>
  BY DEF Opening, History
<1>4. mxf'.packets = <<>> /\ Len(mxf'.packets) = 0 /\ mxf' \in MxfType
  BY <1>1 DEF NewFile
<1>5. Sound' = 0 /\ (f = "none" => Harms' = {}) /\ (f # "none" => Harms' # {})
  <2>1. CASE f = "none"
    BY <1>1, <1>2, <1>3, <1>4, <2>1, SoundCall
  <2>2. CASE f # "none"
    <3>1. f \notin Forgiven \cup {"none"}
      BY <1>1, <2>2 DEF Forgiven
    <3>2. Harms' # {} /\ Sound' <= Sound /\ Sound' \in Nat
      BY <1>1, <1>2, <1>3, <3>1, SoundCall
    <3>3. Sound = 0
      BY <1>3 DEF Sound
    <3>4. QED
      BY <2>2, <3>2, <3>3
  <2>3. QED
    BY <2>1, <2>2
<1>6. QED
  BY <1>4, <1>5

LEMMA NewFileSequenced ==
  ASSUME TypeInv, History, NEW f \in Faults, Opening(f)
  PROVE  Sequenced'
<1>1. /\ NewFile(mxf', f) /\ UNCHANGED <<kind, smpte, streams>> /\ streams = 0
      /\ framesWritten' = 0 /\ f \in {"none", "bodyTorn"}
  BY DEF Opening, TypeInv, NoStreamBefore
<1>2. mxf'.packets = <<>> /\ Len(mxf'.packets) = 0
  BY NewFileSound
<1>3. Sound' = 0 /\ (f = "none" => Harms' = {}) /\ (f # "none" => Harms' # {})
  BY NewFileSound
<1>4. 1 .. 0 = {} /\ 1 .. 0 - 1 = {}
  OBVIOUS
<1>5. smpte /\ f = "none" => Resolves(mxf', HeaderLen)
  <2>1. TheBody.at = HeaderLen
    BY DEF TheBody, NewPack
  <2>2. smpte /\ f = "none" => TheBody \in mxf'.parts
    BY <1>1 DEF NewFile
  <2>3. QED
    BY <2>1, <2>2 DEF Resolves
<1>6. Numbered'
  BY <1>1, <1>2, <1>3, <1>4, <1>5 DEF Numbered
<1>7. f = "none" => mxf'.pos = End(mxf')
  <2>1. HeaderLen \in Nat /\ PackLen \in Nat
    BY LengthAssumption
  <2>2. End(mxf') = BodyStart
    BY <1>2 DEF End
  <2>3. QED
    BY <1>1, <2>1, <2>2 DEF NewFile, BodyStart
<1>8. End(mxf') = (End(mxf))'
  BY <1>1 DEF End, BodyStart
<1>9. Counted'
  BY <1>1, <1>2, <1>3, <1>7, <1>8 DEF Counted
<1>10. QED
  BY <1>6, <1>9 DEF Sequenced

\* A call that writes no packet
LEMMA FaultySound ==
  ASSUME TypeInv, Sequenced, NEW len, NEW start, NEW f, NEW lost, Framing(len, start, f, lost),
         f # "none"
  PROVE  /\ Harms' = {} => Harms = {} /\ f = "context" /\ ~kind.counts /\ ~kind.text
         /\ Harms # {} => Harms' # {}
         /\ Sound' \in Nat /\ Sound' <= Sound
<1>1. /\ Writing /\ UNCHANGED <<kind, smpte, streams>> /\ f \in {"context", "flush"}
      /\ framesWritten' = IF kind.counts THEN framesWritten + 1 ELSE framesWritten
      /\ PacketStep(len, start, f, lost)
  BY DEF Framing, PacketFaults
<1>2. /\ mxf'.packets = mxf.packets /\ mxf'.parts = mxf.parts
      /\ (f = "context" => mxf' = mxf)
  BY <1>1 DEF PacketStep
<1>3. PICK op, r : Call(op, f, r)
  BY DEF Framing
<1>4. f \in Forgiven \cup {"none"} <=> f = "context" /\ ~kind.counts /\ ~kind.text
  BY <1>1 DEF Forgiven
<1>5. /\ Numbered /\ Counted /\ Sound \in Nat
  BY <1>1, SoundType DEF Sequenced
<1>6. /\ f \in Forgiven /\ Harms = {} => Harms' = {}
      /\ f \notin Forgiven /\ Harms = {} => Harms' # {}
      /\ Harms # {} => Harms' # {}
      /\ Sound' \in Nat /\ Sound' <= Sound
  <2>1. CASE Harms = {} /\ f \in Forgiven
    <3>1. Harms' = {} /\ Sound' = Len(mxf'.packets) /\ Sound = Len(mxf.packets)
      BY <1>1, <1>3, <2>1, SoundCall DEF Sound
    <3>2. QED
      BY <1>2, <1>5, <2>1, <3>1
  <2>2. CASE Harms = {} /\ f \notin Forgiven
    BY <1>1, <1>3, <2>2, SoundCall
  <2>3. CASE Harms # {}
    BY <1>1, <1>3, <1>5, <2>3, SoundCall
  <2>4. QED
    BY <2>1, <2>2, <2>3
<1>7. Harms' = {} => Harms = {} /\ f \in Forgiven
  BY <1>6
<1>8. QED
  BY <1>1, <1>4, <1>6, <1>7

LEMMA FaultyCounted ==
  ASSUME TypeInv, Sequenced, NEW len, NEW start, NEW f, NEW lost, Framing(len, start, f, lost),
         f # "none"
  PROVE  Sequenced'
<1>1. /\ Writing /\ UNCHANGED <<kind, smpte, streams>> /\ f \in {"context", "flush"}
      /\ framesWritten' = IF kind.counts THEN framesWritten + 1 ELSE framesWritten
      /\ PacketStep(len, start, f, lost)
  BY DEF Framing, PacketFaults
<1>2. /\ mxf'.packets = mxf.packets /\ mxf'.parts = mxf.parts
      /\ (f = "context" => mxf' = mxf)
  BY <1>1 DEF PacketStep
<1>3. Numbered /\ Counted
  BY <1>1 DEF Sequenced
<1>4. /\ Harms' = {} => Harms = {} /\ f = "context" /\ ~kind.counts /\ ~kind.text
      /\ Harms # {} => Harms' # {}
      /\ Sound' \in Nat /\ Sound' <= Sound
  BY FaultySound
<1>5. Numbered'
  BY <1>1, <1>2, <1>3, <1>4, NumberedKept
<1>6. ~kind.counts /\ ~kind.text => framesWritten' = Len(mxf'.packets)
  BY <1>1, <1>2, <1>3 DEF Counted
<1>7. Harms' = {} => /\ framesWritten' = Len(mxf'.packets) + streams'
                     /\ ~kind.text => mxf'.pos = (End(mxf))'
  <2>1. Harms' = {} => Harms = {} /\ f = "context" /\ ~kind.counts
    BY <1>4
  <2>2. End(mxf) = (End(mxf))' \/ mxf' # mxf
    BY <1>1 DEF End, BodyStart
  <2>3. QED
    BY <1>1, <1>2, <1>3, <2>1, <2>2 DEF Counted
<1>8. Counted'
  BY <1>1, <1>6, <1>7 DEF Counted
<1>9. QED
  BY <1>5, <1>8 DEF Sequenced

LEMMA WrittenCounted ==
  ASSUME TypeInv, PositionInv, NoStreamAhead, Sequenced,
         NEW len, NEW start, NEW lost, Framing(len, start, "none", lost)
  PROVE  Sequenced'
<1>1. /\ UNCHANGED <<kind, smpte, streams>> /\ Writing /\ streams = 0 /\ len \in Nat
      /\ framesWritten' = framesWritten + 1 /\ PacketStep(len, start, "none", lost)
  BY NoStreamYet, FrameLensNat DEF Framing
<1>2. Numbered'
  BY NumberedMore
<1>3. PICK p \in Packet :
        /\ p.at = mxf.pos + mxf.queued /\ p.len = len
        /\ mxf'.packets = Append(mxf.packets, p)
  BY <1>1 DEF PacketStep
<1>4. /\ mxf.packets \in Seq(Packet) /\ Len(mxf.packets) \in Nat /\ framesWritten \in Nat
      /\ mxf.pos \in Nat /\ mxf.queued \in Nat
  BY SoundType, FileTypes DEF TypeInv, TypeOK
<1>5. /\ mxf'.packets # <<>> /\ Len(mxf'.packets) = Len(mxf.packets) + 1
      /\ mxf'.packets[Len(mxf'.packets)] = p
  BY <1>3, <1>4
<1>6. mxf'.pos = (End(mxf))'
  <2>1. mxf'.pos = mxf.pos + mxf.queued + len
    BY <1>1 DEF PacketStep
  <2>2. (End(mxf))' = p.at + p.len
    BY <1>5 DEF End
  <2>3. QED
    BY <1>1, <1>3, <1>4, <2>1, <2>2
<1>7. PICK op, r : Call(op, "none", r)
  BY DEF Framing
<1>8. Harms' = {} => Harms = {}
  BY <1>1, <1>7, SoundCall
<1>9. Counted
  BY <1>1 DEF Sequenced
<1>10. Counted'
  BY <1>1, <1>4, <1>5, <1>6, <1>8, <1>9 DEF Counted
<1>11. QED
  BY <1>2, <1>10 DEF Sequenced

LEMMA ShelvingSound ==
  ASSUME TypeInv, Sequenced, NEW f \in Faults, Shelving(f)
  PROVE  /\ Harms' = {} => Harms = {}
         /\ Harms # {} => Harms' # {}
         /\ Sound' \in Nat /\ Sound' <= Sound
<1>1. /\ Writing /\ kind.text /\ UNCHANGED <<kind, smpte>> /\ AncillaryStep(f)
      /\ streams' = streams + 1 /\ framesWritten' = framesWritten + 1
      /\ f \in {"none"} \cup PacketFaults \cup PackFaults("stream")
  BY DEF Shelving, Writing
<1>2. mxf'.packets = mxf.packets /\ mxf.parts \subseteq mxf'.parts
  BY <1>1 DEF AncillaryStep
<1>3. PICK op, r : Call(op, f, r)
  BY DEF Shelving
<1>4. f \in Forgiven \cup {"none"} <=> f = "none"
  BY <1>1 DEF Forgiven, PacketFaults, PackFaults, Torn
<1>5. Numbered /\ Counted /\ Sound \in Nat
  BY <1>1, SoundType DEF Sequenced
<1>6. /\ Harms' = {} => Harms = {}
      /\ Harms # {} => Harms' # {}
      /\ Sound' \in Nat /\ Sound' <= Sound
  <2>1. CASE Harms = {} /\ f = "none"
    <3>1. Harms' = {} /\ Sound' = Len(mxf'.packets) /\ Sound = Len(mxf.packets)
      BY <1>1, <1>3, <2>1, SoundCall DEF Sound
    <3>2. QED
      BY <1>2, <1>5, <2>1, <3>1
  <2>2. CASE Harms = {} /\ f # "none"
    BY <1>1, <1>3, <1>4, <2>2, SoundCall
  <2>3. CASE Harms # {}
    BY <1>1, <1>3, <1>5, <2>3, SoundCall
  <2>4. QED
    BY <2>1, <2>2, <2>3
<1>7. QED
  BY <1>6

LEMMA ShelvingSequenced ==
  ASSUME TypeInv, Sequenced, NEW f \in Faults, Shelving(f)
  PROVE  Sequenced'
<1>1. /\ Writing /\ kind.text /\ UNCHANGED <<kind, smpte>> /\ AncillaryStep(f)
      /\ streams' = streams + 1 /\ framesWritten' = framesWritten + 1
  BY DEF Shelving, Writing
<1>2. mxf'.packets = mxf.packets /\ mxf.parts \subseteq mxf'.parts
  BY <1>1 DEF AncillaryStep
<1>3. Numbered /\ Counted
  BY <1>1 DEF Sequenced
<1>4. /\ Harms' = {} => Harms = {}
      /\ Harms # {} => Harms' # {}
      /\ Sound' \in Nat /\ Sound' <= Sound
  BY ShelvingSound
<1>5. Numbered'
  BY <1>1, <1>2, <1>3, <1>4, NumberedKept
<1>6. framesWritten \in Nat /\ streams \in Nat /\ Len(mxf.packets) \in Nat
  BY SoundType, BoundAssumption DEF TypeInv, TypeOK
<1>7. Counted'
  <2>1. Harms' = {} => framesWritten = Len(mxf.packets) + streams
    BY <1>3, <1>4 DEF Counted
  <2>2. /\ framesWritten' = framesWritten + 1 /\ streams' = streams + 1
        /\ Len(mxf'.packets) = Len(mxf.packets)
    BY <1>1, <1>2
  <2>3. ASSUME Harms' = {} PROVE framesWritten' = Len(mxf'.packets) + streams'
    <3> DEFINE n    == Len(mxf.packets)
               more == Len(mxf'.packets)
    <3>1. framesWritten = n + streams /\ more = n /\ n \in Nat
      BY <1>6, <2>1, <2>2, <2>3
    <3> HIDE DEF n, more
    <3>2. framesWritten' = more + streams'
      BY <1>6, <2>2, <3>1
    <3>3. QED
      BY <3>2 DEF more
  <2>4. kind'.text
    BY <1>1
  <2>5. QED
    BY <2>3, <2>4 DEF Counted
<1>8. QED
  BY <1>5, <1>7 DEF Sequenced

LEMMA NextSequenced ==
  ASSUME TypeInv, EyesInv, PositionInv, NoStreamAhead, History, Sequenced, [Next]_vars
  PROVE  Sequenced'
<1>1. CASE ~Writing'
  BY <1>1 DEF Sequenced
<1>2. CASE Idling
  <2>1. Harms' = Harms /\ SoundFrames' = SoundFrames /\ Frames' = Frames
    BY <1>2 DEF Idling, Harms, Forgiven, SoundFrames, Frames
  <2>2. Sound' = Sound /\ Regular' = Regular /\ BodyStart' = BodyStart /\ (End(mxf))' = End(mxf)
    BY <1>2, <2>1 DEF Idling, Sound, Regular, BodyStart, End
  <2>3. Numbered /\ Counted
    BY <1>2 DEF Idling, Sequenced
  <2>4. Numbered' /\ Counted'
    BY <1>2, <2>1, <2>2, <2>3 DEF Idling, Numbered, Counted
  <2>5. QED
    BY <2>4 DEF Sequenced
<1>3. ASSUME NEW len, NEW start, NEW f, NEW lost, Framing(len, start, f, lost) PROVE Sequenced'
  <2>1. CASE f = "none"
    BY <1>3, <2>1, WrittenCounted
  <2>2. CASE f # "none"
    BY <1>3, <2>2, FaultyCounted
  <2>3. QED
    BY <2>1, <2>2
<1>4. CASE Writing'
  BY <1>2, <1>3, <1>4, WritingSteps, NewFileSequenced, ShelvingSequenced
<1>5. QED
  BY <1>1, <1>4

-----------------------------------------------------------------------------
(* The index *)

\* The first packet of the frame of an entry
LEMMA FirstType ==
  ASSUME NEW segs \in Seq(Segment), NEW i \in DOMAIN segs, NEW j \in DOMAIN segs[i].entries,
         NEW eyes \in {1, 2}
  PROVE  /\ segs[i].start \in Nat /\ j \in Nat
         /\ segs[i].start + j \in Nat /\ eyes * (segs[i].start + j - 1) + 1 \in Nat
<1>1. segs[i] \in Segment
  OBVIOUS
<1>2. segs[i].start \in Nat /\ j \in Nat /\ j >= 1
  BY <1>1 DEF Segment
<1> DEFINE n == segs[i].start + j
<1>3. n \in Nat /\ n >= 1
  BY <1>2
<1> HIDE DEF n
<1>4. eyes * (n - 1) + 1 \in Nat
  BY <1>3
<1>5. QED
  BY <1>2, <1>3, <1>4 DEF n

LEMMA LeadsFewer ==
  ASSUME NEW segs \in Seq(Segment), NEW eyes \in {1, 2}, NEW base, NEW packets,
         NEW sound \in Nat, NEW few \in Nat, few <= sound,
         Leads(eyes, base, packets, segs, sound)
  PROVE  Leads(eyes, base, packets, segs, few)
<1> DEFINE First(i, j) == eyes * (segs[i].start + j - 1) + 1
<1>1. \A i \in DOMAIN segs : \A j \in DOMAIN segs[i].entries : First(i, j) \in Nat
  BY FirstType
<1>2. \A i \in DOMAIN segs : \A j \in DOMAIN segs[i].entries :
        First(i, j) <= sound => LeadsTo(base, packets, First(i, j), segs[i].entries[j])
  BY DEF Leads
<1> HIDE DEF First
<1>3. \A i \in DOMAIN segs : \A j \in DOMAIN segs[i].entries :
        First(i, j) <= few => LeadsTo(base, packets, First(i, j), segs[i].entries[j])
  BY <1>1, <1>2
<1>4. QED
  BY <1>3 DEF Leads, First

\* When every entry is that of a sound frame, no further packet matters.
LEMMA LeadsAll ==
  ASSUME NEW segs \in Seq(Segment), NEW eyes \in {1, 2}, NEW base, NEW packets,
         NEW sound \in Nat, NEW c \in Nat, Enumerated(segs, c), eyes * c <= sound + eyes - 1,
         Leads(eyes, base, packets, segs, sound), NEW more \in Nat
  PROVE  Leads(eyes, base, packets, segs, more)
<1> DEFINE First(i, j) == eyes * (segs[i].start + j - 1) + 1
<1>1. ASSUME NEW i \in DOMAIN segs, NEW j \in DOMAIN segs[i].entries
      PROVE  First(i, j) <= sound
  <2> DEFINE n == segs[i].start + j
  <2>1. n \in 1 .. c
    BY DEF Enumerated
  <2> HIDE DEF n
  <2>2. eyes * (n - 1) + 1 <= sound
    <3>1. CASE eyes = 1
      BY <2>1, <3>1
    <3>2. CASE eyes = 2
      BY <2>1, <3>2
    <3>3. QED
      BY <3>1, <3>2
  <2>3. segs[i].start \in Nat /\ j \in Nat
    BY FirstType
  <2>4. QED
    BY <2>2, <2>3 DEF n
<1>2. \A i \in DOMAIN segs : \A j \in DOMAIN segs[i].entries :
        First(i, j) <= sound => LeadsTo(base, packets, First(i, j), segs[i].entries[j])
  BY DEF Leads
<1> HIDE DEF First
<1>3. QED
  BY <1>1, <1>2 DEF Leads, First

LEMMA LeadsAppend ==
  ASSUME NEW segs, NEW eyes, NEW base, NEW packets \in Seq(Packet), NEW p \in Packet,
         NEW sound, Leads(eyes, base, packets, segs, sound)
  PROVE  Leads(eyes, base, Append(packets, p), segs, sound)
<1>1. \A first \in DOMAIN packets :
        first \in DOMAIN Append(packets, p) /\ Append(packets, p)[first] = packets[first]
  OBVIOUS
<1>2. QED
  BY <1>1 DEF Leads, LeadsTo

LEMMA LeadsPushed ==
  ASSUME NEW m \in MxfType, NEW entry \in Entry, NEW eyes \in {1, 2}, NEW base, NEW packets,
         NEW sound \in Nat, NEW c \in Nat, EndsAt(m.segs, c),
         Leads(eyes, base, packets, m.segs, sound),
         eyes * c + 1 <= sound => LeadsTo(base, packets, eyes * c + 1, entry)
  PROVE  Leads(eyes, base, packets, PushIndexEntry(m, entry).segs, sound)
<1> DEFINE a == PushIndexEntry(m, entry)
<1>1. Numbering(m, Entry, c)
  BY DEF Numbering, MxfType, Segment, SegmentsOf
<1>2. OneMore(m, a, c, entry)
  BY <1>1, PushIndexEntryNumbers
<1>3. a.segs \in Seq(Segment)
  BY PushIndexEntryType, FileTypes
<1> HIDE DEF a
<1>4. ASSUME NEW i \in DOMAIN a.segs, NEW j \in DOMAIN a.segs[i].entries,
             eyes * (a.segs[i].start + j - 1) + 1 <= sound
      PROVE  LeadsTo(base, packets, eyes * (a.segs[i].start + j - 1) + 1, a.segs[i].entries[j])
  <2>1. CASE Kept(m, a, i, j)
    BY <1>4, <2>1 DEF Leads, Kept
  <2>2. CASE a.segs[i].start + j = c + 1 /\ a.segs[i].entries[j] = entry
    <3>1. a.segs[i].start \in Nat /\ j \in Nat
      BY <1>3, FirstType
    <3>2. a.segs[i].start + j - 1 = c
      BY <2>2, <3>1
    <3>3. QED
      BY <1>4, <2>2, <3>2
  <2>3. QED
    BY <1>2, <2>1, <2>2 DEF OneMore
<1>5. QED
  BY <1>4 DEF Leads, a

LEMMA NewFileIndexing ==
  ASSUME TypeInv, History, NEW f \in Faults, Opening(f)
  PROVE  Indexing'
<1>1. /\ kind' = kind /\ nextPhase' = 1 /\ kind.eyes \in {1, 2}
      /\ mxf'.segs = IF kind.vbr THEN <<>> ELSE <<[start |-> 0, entries |-> <<>>]>>
  BY SoundType DEF Opening, NewFile
<1>2. Sound' = 0 /\ Len(mxf'.packets) = 0
  BY NewFileSound
<1>3. Enumerated(<<>>, 0) /\ 0 \in Nat
  <2>1. 1 .. 0 = {} /\ DOMAIN <<>> = {}
    OBVIOUS
  <2>2. QED
    BY <2>1 DEF Enumerated, EndsAt
<1>4. ASSUME kind.vbr PROVE (\E c \in Nat : Enumerated(mxf.segs, c) /\ Leading(mxf.segs, c))'
  <2>1. mxf'.segs = <<>> /\ DOMAIN mxf'.segs = {}
    BY <1>1, <1>4
  <2>2. kind.eyes * 0 = 0
    BY <1>1
  <2>3. (Leading(mxf.segs, 0))'
    BY <1>1, <1>2, <2>1, <2>2 DEF Leading, Leads
  <2>4. QED
    BY <1>3, <2>1, <2>3
<1>5. ASSUME ~kind.vbr PROVE mxf'.segs # <<>>
  BY <1>1, <1>5
<1>6. QED
  BY <1>1, <1>4, <1>5 DEF Indexing

\* A call that adds neither packet nor entry
LEMMA IndexingKept ==
  ASSUME TypeInv, Indexing, Writing, UNCHANGED <<kind, smpte>>,
         mxf'.segs = mxf.segs, mxf'.packets = mxf.packets,
         Harms' = {} => Harms = {} /\ nextPhase' = nextPhase,
         Sound' \in Nat, Sound' <= Sound
  PROVE  Indexing'
<1>1. Sound \in Nat /\ mxf.segs \in Seq(Segment) /\ kind.eyes \in {1, 2} /\ Len(mxf.packets) \in Nat
  BY SoundType, FileTypes
<1> DEFINE few == Sound'
<1>2. few \in Nat /\ few <= Sound
  OBVIOUS
<1>3. ASSUME kind.vbr PROVE (\E c \in Nat : Enumerated(mxf.segs, c) /\ Leading(mxf.segs, c))'
  <2>1. PICK c \in Nat : Enumerated(mxf.segs, c) /\ Leading(mxf.segs, c)
    BY <1>3 DEF Indexing
  <2> HIDE DEF few
  <2>2. /\ kind.eyes * c >= Sound
        /\ (Harms = {} => kind.eyes * c = Len(mxf.packets) + nextPhase - 1)
        /\ Leads(kind.eyes, BodyStart, mxf.packets, mxf.segs, Sound)
    BY <2>1 DEF Leading
  <2>3. Leads(kind.eyes, BodyStart, mxf.packets, mxf.segs, few)
    BY <1>1, <1>2, <2>2, LeadsFewer
  <2>4. kind.eyes * c >= few
    <3> DEFINE d == kind.eyes * c
    <3>1. d \in Nat /\ d >= Sound
      BY <1>1, <2>2
    <3> HIDE DEF d
    <3>2. d >= few
      BY <1>1, <1>2, <3>1
    <3>3. QED
      BY <3>2 DEF d
  <2>5. Harms' = {} => kind.eyes * c = Len(mxf.packets) + nextPhase' - 1
    BY <2>2
  <2>6. BodyStart' = BodyStart
    BY DEF BodyStart
  <2>7. (Leading(mxf.segs, c))'
    BY <2>3, <2>4, <2>5, <2>6 DEF Leading, few
  <2>8. QED
    BY <2>1, <2>7
<1>4. QED
  BY <1>3 DEF Indexing

\* A packet that is written: with an entry when it is the first of its frame
LEMMA WrittenIndexing ==
  ASSUME TypeInv, PositionInv, NoStreamAhead, Sequenced, Indexing,
         NEW len, NEW start, NEW lost, Framing(len, start, "none", lost)
  PROVE  Indexing'
<1> DEFINE n     == Len(mxf.packets)
           old   == mxf.packets
           new   == mxf'.packets
           eyes  == kind.eyes
           base  == BodyStart
           more  == Sound'
           entry == [offset |-> streamOffset, key |-> KeyOffset(start)]
<1>1. /\ UNCHANGED <<kind, smpte, streams>> /\ Writing /\ streams = 0 /\ start \in BOOLEAN
      /\ nextPhase' = (IF eyes = 2 THEN 3 - nextPhase ELSE nextPhase)
      /\ PacketStep(len, start, "none", lost)
  BY NoStreamYet DEF Framing
<1>2. /\ mxf \in MxfType /\ n \in Nat /\ Sound \in Nat /\ eyes \in {1, 2} /\ old \in Seq(Packet)
      /\ mxf.segs \in Seq(Segment) /\ nextPhase \in 1 .. eyes /\ streamOffset \in Nat
      /\ gopOffset \in Nat /\ DOMAIN old = 1 .. n /\ base \in Nat /\ (~kind.vbr => eyes = 1)
  BY SoundType, FileTypes, BodyStartType DEF TypeInv, TypeOK, KindOK
<1>3. PICK p \in Packet : p.at = mxf.pos + mxf.queued /\ new = Append(old, p)
  BY <1>1 DEF PacketStep
<1>4. Len(new) = n + 1 /\ n + 1 \in DOMAIN new /\ new[n + 1] = p
  BY <1>2, <1>3
<1>5. PICK op, r : Call(op, "none", r)
  BY DEF Framing
<1>6. /\ Harms = {} => Harms' = {} /\ more = n + 1 /\ Sound = n
      /\ Harms # {} => Harms' # {} /\ more = Sound
  BY <1>1, <1>4, <1>5, SoundCall DEF Sound
<1>7. Harms = {} => p.at = base + streamOffset
  <2>1. ASSUME Harms = {} PROVE mxf.queued = 0 /\ mxf.pos = base + streamOffset + streams * PackLen
    BY <1>1, <2>1, HarmlessFaults DEF PositionInv
  <2>2. 0 * PackLen = 0
    BY LengthAssumption
  <2>3. ASSUME Harms = {} PROVE p.at = base + streamOffset
    BY <1>1, <1>2, <1>3, <2>1, <2>2, <2>3
  <2>4. QED
    BY <2>3
<1>8. entry \in Entry
  BY <1>1, <1>2, KeyOffsetType DEF Entry
<1>9. base' = base
  BY <1>1 DEF BodyStart
<1>10. ASSUME kind.vbr PROVE (\E c \in Nat : Enumerated(mxf.segs, c) /\ Leading(mxf.segs, c))'
  <2>1. PICK c \in Nat : Enumerated(mxf.segs, c) /\ Leading(mxf.segs, c)
    BY <1>1, <1>10 DEF Indexing
  <2>2. /\ eyes * c >= Sound
        /\ (Harms = {} => eyes * c = n + nextPhase - 1)
        /\ Leads(eyes, base, old, mxf.segs, Sound)
    BY <2>1 DEF Leading
  <2>3. more \in Nat
    BY <1>2, <1>6
  <2> HIDE DEF more, n, old, new, eyes, base, entry
  <2>4. Leads(eyes, base, old, mxf.segs, more)
    <3>1. CASE Harms = {}
      <4>1. eyes * c <= Sound + eyes - 1
        <5>1. eyes * c = n + nextPhase - 1 /\ Sound = n
          BY <1>6, <2>2, <3>1
        <5>2. n + nextPhase - 1 <= n + eyes - 1
          BY <1>2
        <5>3. QED
          BY <5>1, <5>2
      <4>2. QED
        BY <1>2, <2>1, <2>2, <2>3, <4>1, LeadsAll
    <3>2. CASE Harms # {}
      BY <1>6, <2>2, <3>2
    <3>3. QED
      BY <3>1, <3>2
  <2>5. Leads(eyes, base, new, mxf.segs, more)
    BY <1>2, <1>3, <2>4, LeadsAppend
  <2>6. CASE nextPhase = 1
    <3>1. PICK put \in MxfType : put.segs = mxf.segs /\ mxf'.segs = PushIndexEntry(put, entry).segs
      BY <1>1, <1>10, <2>6 DEF PacketStep, entry
    <3>2. eyes * c + 1 <= more => LeadsTo(base, new, eyes * c + 1, entry)
      <4>1. CASE Harms = {}
        <5>1. eyes * c = n
          BY <1>2, <2>2, <2>6, <4>1
        <5>2. base + entry.offset = p.at
          BY <1>7, <4>1 DEF entry
        <5>3. QED
          BY <1>4, <5>1, <5>2 DEF LeadsTo
      <4>2. CASE Harms # {}
        <5> DEFINE d == eyes * c
        <5>1. d \in Nat /\ d >= more
          BY <1>2, <1>6, <2>2, <4>2
        <5> HIDE DEF d
        <5>2. ~(d + 1 <= more)
          BY <2>3, <5>1
        <5>3. QED
          BY <5>2 DEF d
      <4>3. QED
        BY <4>1, <4>2
    <3>3. Leads(eyes, base, new, mxf'.segs, more)
      <4>1. EndsAt(put.segs, c)
        BY <2>1, <3>1 DEF Enumerated
      <4>2. Leads(eyes, base, new, put.segs, more)
        BY <2>5, <3>1
      <4>3. Leads(eyes, base, new, PushIndexEntry(put, entry).segs, more)
        BY <1>2, <1>8, <2>3, <3>2, <4>1, <4>2, LeadsPushed
      <4>4. QED
        BY <3>1, <4>3
    <3>4. Enumerated(mxf'.segs, c + 1)
      <4>1. Numbering(put, Entry, c)
        BY <2>1, <3>1 DEF Numbering, MxfType, Segment, SegmentsOf, Enumerated
      <4>2. QED
        BY <1>8, <2>1, <3>1, <4>1, PushIndexEntryEnumerates
    <3>5. eyes * (c + 1) = eyes * c + eyes
      BY <1>2
    <3>6. eyes * (c + 1) >= more
      <4> DEFINE d == eyes * c
      <4>1. d \in Nat /\ d >= Sound /\ eyes >= 1 /\ more <= Sound + 1
        BY <1>2, <1>6, <2>2
      <4> HIDE DEF d
      <4>2. d + eyes >= more
        BY <1>2, <2>3, <4>1
      <4>3. QED
        BY <3>5, <4>2 DEF d
    <3>7. Harms' = {} => eyes * (c + 1) = Len(new) + nextPhase' - 1
      <4>1. ASSUME Harms' = {} PROVE eyes * c = n
        BY <1>2, <1>6, <2>2, <2>6, <4>1
      <4>2. nextPhase' = eyes
        BY <1>1, <1>2, <2>6
      <4>3. Len(new) + nextPhase' - 1 = n + eyes
        BY <1>2, <1>4, <4>2
      <4>4. QED
        BY <3>5, <4>1, <4>3
    <3>8. (Leading(mxf.segs, c + 1))'
      BY <1>1, <1>9, <3>3, <3>6, <3>7 DEF Leading, eyes, base, more, new
    <3>9. QED
      BY <3>4, <3>8
  <2>7. CASE nextPhase = 2
    <3>1. mxf'.segs = mxf.segs
      BY <1>1, <2>7 DEF PacketStep
    <3>2. eyes = 2 /\ nextPhase' = 1
      BY <1>1, <1>2, <2>7
    <3>3. Harms = {} => eyes * c = n + 1
      BY <1>2, <2>2, <2>7
    <3>4. eyes * c >= more
      BY <1>2, <1>6, <2>2, <3>3
    <3>5. Harms' = {} => eyes * c = Len(new) + nextPhase' - 1
      <4>1. Len(new) + nextPhase' - 1 = n + 1
        BY <1>2, <1>4, <3>2
      <4>2. QED
        BY <1>6, <3>3, <4>1
    <3>6. (Leading(mxf.segs, c))'
      BY <1>1, <1>9, <2>5, <3>1, <3>4, <3>5 DEF Leading, eyes, base, more, new
    <3>7. QED
      BY <2>1, <3>1, <3>6
  <2>8. nextPhase = 1 \/ nextPhase = 2
    BY <1>2
  <2>9. QED
    BY <2>6, <2>7, <2>8
<1>11. ASSUME ~kind.vbr PROVE mxf'.segs # <<>>
  <2>1. mxf'.segs = mxf.segs
    BY <1>1, <1>11 DEF PacketStep
  <2>2. QED
    BY <1>1, <1>11, <2>1 DEF Indexing
<1>12. QED
  BY <1>1, <1>10, <1>11 DEF Indexing

LEMMA NextIndexing ==
  ASSUME TypeInv, EyesInv, PositionInv, NoStreamAhead, History, Sequenced, Indexing, [Next]_vars
  PROVE  Indexing'
<1>1. CASE ~Writing'
  BY <1>1 DEF Indexing
<1>2. KindOK(kind) /\ Sound \in Nat /\ nextPhase \in 1 .. kind.eyes
  BY SoundType DEF TypeInv, TypeOK
<1>3. CASE Idling
  <2>1. Harms' = Harms /\ SoundFrames' = SoundFrames
    BY <1>3 DEF Idling, Harms, Forgiven, SoundFrames, Frames
  <2>2. Sound' = Sound /\ UNCHANGED <<kind, smpte, nextPhase>> /\ mxf' = mxf /\ Writing
    BY <1>3, <2>1 DEF Idling, Sound
  <2>3. Sound' \in Nat /\ Sound' <= Sound
    BY <1>2, <2>2
  <2>4. QED
    BY <2>1, <2>2, <2>3, IndexingKept
<1>4. ASSUME NEW len, NEW start, NEW f, NEW lost, Framing(len, start, f, lost) PROVE Indexing'
  <2>1. CASE f = "none"
    BY <1>4, <2>1, WrittenIndexing
  <2>2. CASE f # "none"
    <3>1. /\ Writing /\ UNCHANGED <<kind, smpte>> /\ f \in {"context", "flush"}
          /\ PacketStep(len, start, f, lost)
          /\ nextPhase' = IF kind.eyes = 2 THEN 3 - nextPhase ELSE nextPhase
      BY <1>4, <2>2 DEF Framing, PacketFaults
    <3>2. mxf'.packets = mxf.packets /\ mxf'.segs = mxf.segs
      BY <3>1 DEF PacketStep
    <3>3. /\ Harms' = {} => Harms = {} /\ ~kind.counts
          /\ Sound' \in Nat /\ Sound' <= Sound
      BY <1>4, <2>2, FaultySound
    <3>4. Harms' = {} => nextPhase' = nextPhase
      BY <1>2, <3>1, <3>3 DEF KindOK
    <3>5. QED
      BY <3>1, <3>2, <3>3, <3>4, IndexingKept
  <2>3. QED
    BY <2>1, <2>2
<1>5. ASSUME NEW f \in Faults, Shelving(f) PROVE Indexing'
  <2>1. Writing /\ UNCHANGED <<kind, smpte, nextPhase>> /\ AncillaryStep(f)
    BY <1>5 DEF Shelving, Writing
  <2>2. mxf'.packets = mxf.packets /\ mxf'.segs = mxf.segs
    BY <2>1 DEF AncillaryStep
  <2>3. /\ Harms' = {} => Harms = {}
        /\ Sound' \in Nat /\ Sound' <= Sound
    BY <1>5, ShelvingSound
  <2>4. QED
    BY <2>1, <2>2, <2>3, IndexingKept
<1>6. CASE Writing'
  BY <1>3, <1>4, <1>5, <1>6, WritingSteps, NewFileIndexing
<1>7. QED
  BY <1>1, <1>6

-----------------------------------------------------------------------------
(* The groups of pictures *)

LEMMA GopKind ==
  ASSUME TypeInv, kind.gop
  PROVE  kind.eyes = 1 /\ kind.vbr /\ ~kind.counts /\ ~kind.text
<1>1. kind \in AllKinds
  BY DEF TypeInv, TypeOK
<1>2. ~JP2K.gop
  BY DEF JP2K
<1>3. ~JXS.gop /\ ~Stereo.gop /\ ~PCM.gop /\ ~DCData.gop /\ ~TimedText.gop
  BY DEF JXS, Stereo, PCM, TimedText, DCData, JP2K
<1>4. kind = MPEG2
  BY <1>1, <1>2, <1>3 DEF AllKinds
<1>5. MPEG2.eyes = 1 /\ MPEG2.vbr /\ ~MPEG2.counts /\ ~MPEG2.text
  BY DEF MPEG2, JP2K
<1>6. QED
  BY <1>4, <1>5

LEMMA Int8Zero == Int8(0) = 0
<1>1. KeyModulus \in Nat \ {0} /\ 0 % KeyModulus = 0
  BY IndexAssumption
<1>2. QED
  BY <1>1 DEF Int8

\* A distance backwards that 8 bits hold
LEMMA Int8Back ==
  ASSUME NEW d \in Nat, 2 * d <= KeyModulus
  PROVE  Int8(0 - d) = 0 - d
<1>1. KeyModulus \in Nat \ {0}
  BY IndexAssumption
<1>2. CASE d = 0
  BY <1>2, Int8Zero
<1>3. CASE d # 0
  <2>1. (0 - d) % KeyModulus = KeyModulus - d
    BY <1>1, <1>3
  <2>2. ~(2 * (KeyModulus - d) < KeyModulus)
    BY <1>1
  <2>3. QED
    BY <1>1, <2>1, <2>2 DEF Int8
<1>4. QED
  BY <1>2, <1>3

LEMMA StartType ==
  ASSUME NEW packets, NEW n \in Nat, Starts(packets, n) # {}
  PROVE  /\ Start(packets, n) \in Starts(packets, n) /\ Start(packets, n) \in 1 .. n
         /\ \A j \in Starts(packets, n) : j <= Start(packets, n)
<1> DEFINE all == Starts(packets, n)
<1>1. all \in SUBSET Nat /\ \A x \in all : x <= n /\ x \in 1 .. n
  BY DEF Starts
<1> HIDE DEF all
<1>2. \E x \in all : \A y \in all : y <= x
  BY <1>1, Greatest DEF all
<1>3. /\ Start(packets, n) \in all
      /\ \A j \in all : j <= Start(packets, n)
  BY <1>2 DEF Start, all
<1>4. QED
  BY <1>1, <1>3 DEF all

\* A packet more is the start of its own group, or belongs to the last one.
LEMMA StartsAppend ==
  ASSUME NEW old \in Seq(Packet), NEW p \in Packet, NEW n \in Nat, n = Len(old)
  PROVE  LET new == Append(old, p)
         IN  /\ \A k \in 0 .. n : Starts(new, k) = Starts(old, k) /\ Start(new, k) = Start(old, k)
             /\ p.start => Starts(new, n + 1) # {} /\ Start(new, n + 1) = n + 1
             /\ ~p.start => /\ Starts(new, n + 1) = Starts(old, n)
                            /\ Start(new, n + 1) = Start(old, n)
<1> DEFINE new == Append(old, p)
           all == Starts(new, n + 1)
<1>1. /\ new[n + 1] = p /\ \A i \in 1 .. n : new[i] = old[i]
  OBVIOUS
<1> HIDE DEF new
<1>2. ASSUME NEW k \in 0 .. n
      PROVE  Starts(new, k) = Starts(old, k) /\ Start(new, k) = Start(old, k)
  <2>1. \A i \in 1 .. k : new[i] = old[i]
    BY <1>1
  <2>2. Starts(new, k) = Starts(old, k)
    BY <2>1 DEF Starts
  <2>3. QED
    BY <2>2 DEF Start
<1>3. \A i : i \in all <=> (i \in 1 .. n + 1 /\ new[i].start)
  BY DEF Starts
<1>4. \A i : i \in 1 .. n + 1 <=> i \in 1 .. n \/ i = n + 1
  OBVIOUS
<1>5. \A i : i \in Starts(old, n) <=> (i \in 1 .. n /\ old[i].start)
  BY DEF Starts
<1> HIDE DEF all
<1>6. ASSUME p.start PROVE all # {} /\ Start(new, n + 1) = n + 1
  <2>1. n + 1 \in all
    BY <1>1, <1>3, <1>4, <1>6
  <2>2. /\ Start(new, n + 1) \in 1 .. n + 1
        /\ \A j \in all : j <= Start(new, n + 1)
    BY <2>1, StartType DEF all
  <2>3. n + 1 <= Start(new, n + 1)
    BY <2>1, <2>2
  <2>4. QED
    BY <2>1, <2>2, <2>3
<1>7. ASSUME ~p.start PROVE all = Starts(old, n) /\ Start(new, n + 1) = Start(old, n)
  <2>1. \A i : i \in all <=> i \in Starts(old, n)
    <3>1. n + 1 \notin all
      BY <1>1, <1>3, <1>7
    <3>2. \A i \in 1 .. n : i \in all <=> i \in Starts(old, n)
      BY <1>1, <1>3, <1>4, <1>5
    <3>3. QED
      BY <1>3, <1>4, <1>5, <3>1, <3>2
  <2>2. all = Starts(old, n)
    BY <2>1
  <2>3. QED
    BY <2>2 DEF Start, all
<1>8. QED
  BY <1>2, <1>6, <1>7 DEF all, new

LEMMA GroupedKept ==
  ASSUME Grouped, Writing, kind' = kind, gopOffset' = gopOffset,
         mxf'.segs = mxf.segs, mxf'.packets = mxf.packets
  PROVE  Grouped'
<1>1. ASSUME kind.gop
      PROVE  /\ EndsAt(mxf'.segs, Len(mxf'.packets))
             /\ Starts(mxf'.packets, Len(mxf'.packets)) # {} =>
                  gopOffset' = Len(mxf'.packets) + 1 - Start(mxf'.packets, Len(mxf'.packets))
             /\ Distances(mxf'.packets, mxf'.segs)
  BY <1>1 DEF Grouped
<1>2. QED
  BY <1>1 DEF Grouped

LEMMA NewFileGrouped ==
  ASSUME TypeInv, NEW f \in Faults, Opening(f)
  PROVE  Grouped'
<1>1. kind' = kind /\ NewFile(mxf', f)
  BY DEF Opening
<1>2. ASSUME kind.gop PROVE mxf'.segs = <<>> /\ mxf'.packets = <<>> /\ Len(mxf'.packets) = 0
  BY <1>1, <1>2, GopKind DEF NewFile
<1>3. Starts(<<>>, 0) = {}
  <2>1. 1 .. 0 = {}
    OBVIOUS
  <2>2. QED
    BY <2>1 DEF Starts
<1>4. EndsAt(<<>>, 0) /\ Distances(<<>>, <<>>)
  <2>1. DOMAIN <<>> = {}
    OBVIOUS
  <2>2. QED
    BY <2>1 DEF EndsAt, Distances
<1>5. QED
  BY <1>1, <1>2, <1>3, <1>4 DEF Grouped

LEMMA WrittenGrouped ==
  ASSUME TypeInv, Indexing, Grouped, NEW len, NEW start, NEW lost,
         Framing(len, start, "none", lost), kind.gop
  PROVE  Grouped'
<1> DEFINE n     == Len(mxf.packets)
           old   == mxf.packets
           new   == mxf'.packets
           segs  == mxf'.segs
           entry == [offset |-> streamOffset, key |-> KeyOffset(start)]
           g     == Start(new, n + 1)
<1>1. /\ kind' = kind /\ Writing /\ start \in BOOLEAN /\ PacketStep(len, start, "none", lost)
      /\ gopOffset' = IF start THEN 1 ELSE gopOffset + 1
  BY DEF Framing
<1>2. /\ kind.eyes = 1 /\ kind.vbr /\ nextPhase = 1
      /\ n \in Nat /\ old \in Seq(Packet) /\ DOMAIN old = 1 .. n
      /\ streamOffset \in Nat /\ gopOffset \in Nat
  BY GopKind, SoundType, FileTypes DEF TypeInv, TypeOK
<1>3. PICK p \in Packet : p.start = start /\ new = Append(old, p)
  BY <1>1 DEF PacketStep
<1>4. Len(new) = n + 1
  BY <1>2, <1>3
<1>5. PICK put \in MxfType : put.segs = mxf.segs /\ segs = PushIndexEntry(put, entry).segs
  BY <1>1, <1>2 DEF PacketStep
<1>6. /\ EndsAt(mxf.segs, n)
      /\ Starts(old, n) # {} => gopOffset = n + 1 - Start(old, n)
      /\ Distances(old, mxf.segs)
  BY <1>1 DEF Grouped
<1>7. entry \in Entry
  BY <1>1, <1>2, KeyOffsetType DEF Entry
<1> HIDE DEF n, old, new, entry, segs, g
<1>8. /\ \A k \in 0 .. n : Starts(new, k) = Starts(old, k) /\ Start(new, k) = Start(old, k)
      /\ start => Starts(new, n + 1) # {} /\ g = n + 1
      /\ ~start => Starts(new, n + 1) = Starts(old, n) /\ g = Start(old, n)
  <2>1. LET next == Append(old, p)
        IN  /\ \A k \in 0 .. n : Starts(next, k) = Starts(old, k) /\ Start(next, k) = Start(old, k)
            /\ p.start => Starts(next, n + 1) # {} /\ Start(next, n + 1) = n + 1
            /\ ~p.start => /\ Starts(next, n + 1) = Starts(old, n)
                           /\ Start(next, n + 1) = Start(old, n)
    <3>1. n = Len(old)
      BY DEF n, old
    <3>2. QED
      BY <1>2, <3>1, StartsAppend
  <2>2. QED
    BY <1>3, <2>1 DEF g
<1>9. Starts(new, n + 1) # {} => gopOffset' = n + 1 + 1 - g /\ entry.key = Int8(g - (n + 1))
  <2>1. ASSUME start PROVE gopOffset' = n + 1 + 1 - g /\ entry.key = Int8(g - (n + 1))
    <3>1. gopOffset' = 1 /\ g = n + 1
      BY <1>1, <1>8, <2>1
    <3>2. entry.key = 0
      BY <2>1 DEF entry, KeyOffset
    <3>3. g - (n + 1) = 0 /\ n + 1 + 1 - g = 1
      BY <1>2, <3>1
    <3>4. QED
      BY <3>1, <3>2, <3>3, Int8Zero
  <2>2. ASSUME ~start, Starts(new, n + 1) # {}
        PROVE  gopOffset' = n + 1 + 1 - g /\ entry.key = Int8(g - (n + 1))
    <3>1. gopOffset = n + 1 - g /\ g \in 1 .. n
      BY <1>2, <1>6, <1>8, <2>2, StartType
    <3>2. 0 - gopOffset = g - (n + 1) /\ gopOffset + 1 = n + 1 + 1 - g
      BY <1>2, <3>1
    <3>3. entry.key = Int8(0 - gopOffset)
      BY <2>2 DEF entry, KeyOffset
    <3>4. gopOffset' = gopOffset + 1
      BY <1>1, <2>2
    <3>5. QED
      BY <3>2, <3>3, <3>4
  <2>3. QED
    BY <1>1, <2>1, <2>2
<1>10. OneMore(put, PushIndexEntry(put, entry), n, entry)
  <2>1. Numbering(put, Entry, n)
    BY <1>5, <1>6 DEF Numbering, MxfType, Segment, SegmentsOf
  <2>2. QED
    BY <1>2, <1>7, <2>1, PushIndexEntryNumbers
<1>11. \A i \in DOMAIN mxf.segs : \A j \in DOMAIN mxf.segs[i].entries : mxf.segs[i].start + j \in 1 .. n
  <2>1. PICK c \in Nat : Enumerated(mxf.segs, c) /\ Leading(mxf.segs, c)
    BY <1>1, <1>2 DEF Indexing
  <2>2. EndsAt(mxf.segs, c)
    BY <2>1 DEF Enumerated
  <2>3. c = n
    BY <1>6, <2>2 DEF EndsAt
  <2>4. QED
    BY <2>1, <2>3 DEF Enumerated
<1>12. ASSUME NEW i \in DOMAIN segs, NEW j \in DOMAIN segs[i].entries,
              Starts(new, segs[i].start + j) # {}
       PROVE  segs[i].entries[j].key = Int8(Start(new, segs[i].start + j) - (segs[i].start + j))
  <2> DEFINE a == PushIndexEntry(put, entry)
  <2>1. segs = a.segs
    BY <1>5
  <2> HIDE DEF a
  <2>2. CASE Kept(put, a, i, j)
    <3>1. /\ i \in DOMAIN mxf.segs /\ j \in DOMAIN mxf.segs[i].entries
          /\ segs[i].start = mxf.segs[i].start
          /\ segs[i].entries[j] = mxf.segs[i].entries[j]
      BY <1>5, <2>1, <2>2 DEF Kept
    <3> DEFINE k == mxf.segs[i].start + j
    <3>2. k \in 0 .. n
      BY <1>2, <1>11, <3>1
    <3>3. Starts(old, k) # {} => mxf.segs[i].entries[j].key = Int8(Start(old, k) - k)
      BY <1>6, <3>1 DEF Distances
    <3>4. segs[i].start + j = k
      BY <3>1
    <3> HIDE DEF k
    <3>5. Starts(new, k) = Starts(old, k) /\ Start(new, k) = Start(old, k)
      BY <1>8, <3>2
    <3>6. Starts(new, k) # {}
      BY <1>12, <3>4
    <3>7. QED
      BY <3>1, <3>3, <3>4, <3>5, <3>6
  <2>3. CASE segs[i].start + j = n + 1 /\ segs[i].entries[j] = entry
    <3>1. Starts(new, n + 1) # {}
      BY <1>12, <2>3
    <3>2. QED
      BY <1>9, <2>3, <3>1 DEF g
  <2>4. QED
    BY <1>10, <2>1, <2>2, <2>3 DEF OneMore, a
<1>13. EndsAt(segs, n + 1)
  BY <1>5, <1>10 DEF OneMore
<1>14. Distances(new, segs)
  BY <1>12 DEF Distances
<1>15. QED
  BY <1>4, <1>9, <1>13, <1>14 DEF Grouped, g, new, segs

LEMMA NextGrouped ==
  ASSUME TypeInv, EyesInv, Indexing, Grouped, [Next]_vars
  PROVE  Grouped'
<1>1. CASE ~Writing'
  BY <1>1 DEF Grouped
<1>2. CASE Idling
  BY <1>2, GroupedKept DEF Idling
<1>3. ASSUME NEW len, NEW start, NEW f, NEW lost, Framing(len, start, f, lost) PROVE Grouped'
  <2>1. CASE f = "none" /\ kind.gop
    BY <1>3, <2>1, WrittenGrouped
  <2>2. CASE ~kind.gop
    <3>1. kind' = kind
      BY <1>3 DEF Framing
    <3>2. QED
      BY <2>2, <3>1 DEF Grouped
  <2>3. CASE f # "none"
    <3>1. /\ Writing /\ kind' = kind /\ f \in {"context", "flush"} /\ gopOffset' = gopOffset
          /\ PacketStep(len, start, f, lost)
      BY <1>3, <2>3 DEF Framing, PacketFaults
    <3>2. mxf'.packets = mxf.packets /\ mxf'.segs = mxf.segs
      BY <3>1 DEF PacketStep
    <3>3. QED
      BY <3>1, <3>2, GroupedKept
  <2>4. QED
    BY <2>1, <2>2, <2>3
<1>4. ASSUME NEW f \in Faults, Shelving(f) PROVE Grouped'
  <2>1. Writing /\ UNCHANGED <<kind, gopOffset>> /\ AncillaryStep(f)
    BY <1>4 DEF Shelving, Writing
  <2>2. mxf'.packets = mxf.packets /\ mxf'.segs = mxf.segs
    BY <2>1 DEF AncillaryStep
  <2>3. QED
    BY <2>1, <2>2, GroupedKept
<1>5. CASE Writing'
  BY <1>2, <1>3, <1>4, <1>5, WritingSteps, NewFileGrouped
<1>6. QED
  BY <1>1, <1>5

-----------------------------------------------------------------------------
(* The resources *)

LEMMA NoFaultCall ==
  ASSUME TypeInv, NEW op, NEW f, NEW r, Call(op, f, r), kind' = kind, faults' = <<>>
  PROVE  f = "none" /\ faults = <<>>
<1>1. CASE f = "none"
  BY <1>1, HarmsCall
<1>2. CASE f # "none"
  <2>1. Len(faults') = Len(faults) + 1 /\ Len(faults) \in Nat
    BY <1>2, HarmsCall
  <2>2. Len(<<>>) = 0
    OBVIOUS
  <2>3. QED
    BY <2>1, <2>2
<1>3. QED
  BY <1>1, <1>2

LEMMA NoFaultNoHarm ==
  ASSUME faults = <<>>
  PROVE  Harms = {}
<1>1. DOMAIN <<>> = {}
  OBVIOUS
<1>2. QED
  BY <1>1 DEF Harms

LEMMA NewFileShelved ==
  ASSUME TypeInv, NEW f \in Faults, Opening(f)
  PROVE  Shelved'
<1>1. NewFile(mxf', f) /\ state' = "READY" /\ streams' = 0
  BY DEF Opening, TypeInv, NoStreamBefore
<1>2. TheHeader.type = "header" /\ TheBody.type = "body"
  BY DEF TheHeader, TheBody, NewPack
<1>3. \A p \in mxf'.parts : p = TheHeader \/ p = TheBody
  BY <1>1 DEF NewFile
<1>4. StreamPacks(mxf') = {}
  BY <1>2, <1>3 DEF StreamPacks
<1>5. mxf'.packets = <<>> /\ Len(<<>>) = 0
  BY <1>1 DEF NewFile
<1>6. OnShelf(mxf', 0)
  BY <1>4 DEF OnShelf
<1>7. QED
  BY <1>1, <1>5, <1>6 DEF Shelved

LEMMA FramingShelved ==
  ASSUME TypeInv, NoStreamAhead, Shelved,
         NEW len, NEW start, NEW f, NEW lost, Framing(len, start, f, lost)
  PROVE  Shelved'
<1> SUFFICES ASSUME faults' = <<>> PROVE Shelved'
  BY DEF Shelved
<1>1. PICK op, r : Call(op, f, r)
  BY DEF Framing
<1>2. /\ UNCHANGED <<kind, smpte, streams>> /\ Writing /\ state' = "RUNNING"
      /\ kind.text => state = "READY"
      /\ PacketStep(len, start, f, lost)
  BY DEF Framing
<1>3. f = "none" /\ faults = <<>> /\ streams = 0
  BY <1>1, <1>2, NoFaultCall, NoStreamYet
<1>4. (kind.text => Len(mxf.packets) = 0) /\ OnShelf(mxf, 0)
  BY <1>2, <1>3 DEF Shelved
<1>5. mxf'.parts = mxf.parts
  BY <1>2 DEF PacketStep
<1>6. StreamPacks(mxf) = {}
  <2>1. 1 .. 0 = {}
    OBVIOUS
  <2>2. QED
    BY <1>4, <2>1 DEF OnShelf
<1>7. StreamPacks(mxf') = {}
  BY <1>5, <1>6 DEF StreamPacks
<1>8. OnShelf(mxf', 0)
  BY <1>7 DEF OnShelf
<1>9. PICK p \in Packet : mxf'.packets = Append(mxf.packets, p)
  BY <1>2, <1>3 DEF PacketStep
<1>10. Len(mxf'.packets) = Len(mxf.packets) + 1
  BY <1>9, FileTypes DEF TypeInv, TypeOK
<1>11. kind.text => Len(mxf'.packets) = 1
  BY <1>4, <1>10
<1>12. QED
  BY <1>2, <1>3, <1>8, <1>11 DEF Shelved

LEMMA ShelvingShelved ==
  ASSUME TypeInv, Layout, History, Sequenced, Shelved, NEW f \in Faults, Shelving(f)
  PROVE  Shelved'
<1> SUFFICES ASSUME faults' = <<>> PROVE Shelved'
  BY DEF Shelved
<1> DEFINE a   == mxf'
           s   == streams
           sid == FirstStream + s
           new == [sid |-> sid, at |-> mxf.pos]
<1>1. PICK op, r : Call(op, f, r)
  BY DEF Shelving
<1>2. /\ kind' = kind /\ streams' = s + 1 /\ Writing /\ state = "RUNNING" /\ state' = "RUNNING"
      /\ kind.text /\ smpte /\ AncillaryStep(f)
  BY DEF Shelving, Writing, History
<1>3. f = "none" /\ faults = <<>> /\ Harms = {}
  BY <1>1, <1>2, NoFaultCall, NoFaultNoHarm
<1>4. s \in Nat /\ sid \in Nat /\ mxf.pos \in Nat /\ mxf.rip \in Seq(Pair) /\ new \in Pair
  BY FileTypes, BoundAssumption DEF TypeInv, TypeOK, FirstStream, Pair
<1>5. Len(mxf.packets) = 1 /\ OnShelf(mxf, s)
  BY <1>2, <1>3 DEF Shelved
<1>6. framesWritten = 1 + s /\ Len(mxf.rip) = 2 + s
  BY <1>2, <1>3, <1>5 DEF Sequenced, Counted, Layout, Listing
<1>7. /\ a.rip = Append(mxf.rip, new) /\ a.packets = mxf.packets
      /\ a.pos >= mxf.pos + PackLen + StreamLen
      /\ \E pack \in Pack :
           /\ pack.at = mxf.pos /\ pack.type = "stream" /\ pack.sid = sid
           /\ pack.hmac = framesWritten + 1
           /\ a.parts = mxf.parts \cup {pack}
  BY <1>2, <1>3 DEF AncillaryStep, PackFaults, Torn
<1>8. new.at = mxf.pos /\ new.sid = sid
  OBVIOUS
<1> HIDE DEF a, s, sid, new
<1>9. PICK pack \in Pack :
        /\ pack.at = mxf.pos /\ pack.sid = sid /\ pack.hmac = framesWritten + 1
        /\ a.parts = mxf.parts \cup {pack}
  BY <1>7
<1>10. /\ a.rip[3 + s] = new
       /\ \A i \in 1 .. 2 + s : a.rip[i] = mxf.rip[i]
  BY <1>4, <1>6, <1>7
<1>11. \A p \in StreamPacks(a) : p \in StreamPacks(mxf) \/ p = pack
  BY <1>9 DEF StreamPacks
<1>12. ASSUME NEW p \in StreamPacks(mxf)
       PROVE  \E k \in 1 .. s + 1 :
                /\ p.at = a.rip[2 + k].at /\ p.sid = a.rip[2 + k].sid
                /\ p.hmac = k + 1
                /\ p.at + PackLen + StreamLen <= IF k < s + 1 THEN a.rip[3 + k].at ELSE a.pos
  <2>1. PICK k \in 1 .. s :
          /\ p.at = mxf.rip[2 + k].at /\ p.sid = mxf.rip[2 + k].sid
          /\ p.hmac = k + 1
          /\ p.at + PackLen + StreamLen <= IF k < s THEN mxf.rip[3 + k].at ELSE mxf.pos
    BY <1>5 DEF OnShelf
  <2>2. k \in 1 .. s + 1 /\ k < s + 1 /\ 2 + k \in 1 .. 2 + s
    BY <1>4
  <2>3. a.rip[2 + k] = mxf.rip[2 + k]
    BY <1>10, <2>2
  <2>4. a.rip[3 + k].at = IF k < s THEN mxf.rip[3 + k].at ELSE mxf.pos
    <3>1. CASE k < s
      <4>1. 3 + k \in 1 .. 2 + s
        BY <1>4, <3>1
      <4>2. QED
        BY <1>10, <3>1, <4>1
    <3>2. CASE ~(k < s)
      <4>1. k = s
        BY <1>4, <3>2
      <4>2. QED
        BY <1>8, <1>10, <3>2, <4>1
    <3>3. QED
      BY <3>1, <3>2
  <2>5. QED
    BY <2>1, <2>2, <2>3, <2>4
<1>13. \E k \in 1 .. s + 1 :
         /\ pack.at = a.rip[2 + k].at /\ pack.sid = a.rip[2 + k].sid
         /\ pack.hmac = k + 1
         /\ pack.at + PackLen + StreamLen <= IF k < s + 1 THEN a.rip[3 + k].at ELSE a.pos
  <2> DEFINE k == s + 1
  <2>1. k \in 1 .. s + 1 /\ ~(k < s + 1) /\ 2 + k = 3 + s /\ framesWritten + 1 = k + 1
    BY <1>4, <1>6
  <2>2. /\ pack.at = a.rip[2 + k].at /\ pack.sid = a.rip[2 + k].sid /\ pack.hmac = k + 1
        /\ pack.at + PackLen + StreamLen <= a.pos
    BY <1>7, <1>8, <1>9, <1>10, <2>1
  <2>3. QED
    BY <2>1, <2>2
<1>14. OnShelf(a, s + 1)
  BY <1>11, <1>12, <1>13 DEF OnShelf
<1>15. Len(a.packets) = 1
  BY <1>5, <1>7
<1>16. QED
  BY <1>2, <1>14, <1>15 DEF Shelved, a, s

LEMMA NextShelved ==
  ASSUME TypeInv, EyesInv, NoStreamAhead, Layout, History, Sequenced, Shelved, [Next]_vars
  PROVE  Shelved'
<1>1. CASE ~Writing'
  BY <1>1 DEF Shelved
<1>2. CASE Idling
  BY <1>2 DEF Idling, Shelved
<1>3. CASE Writing'
  BY <1>2, <1>3, WritingSteps, NewFileShelved, FramingShelved, ShelvingShelved
<1>4. QED
  BY <1>1, <1>3

-----------------------------------------------------------------------------
(* The invariant of a file that is being written *)

Inv ==
  /\ TypeInv /\ EyesInv /\ PositionInv /\ NoStreamAhead
  /\ Layout /\ History /\ Sequenced /\ Indexing /\ Grouped /\ Shelved

LEMMA InitInv == Init => Inv
<1> SUFFICES ASSUME Init PROVE Inv
  OBVIOUS
<1>1. TypeInv
  BY InitTypeInv
<1>2. state = "BEGIN" /\ mxf = Empty /\ faults = <<>> /\ streams = 0 /\ (kind.text => smpte)
  BY DEF Init
<1>3. ~Writing
  BY <1>2 DEF Writing
<1>4. EyesInv /\ PositionInv /\ NoStreamAhead
  BY <1>2, <1>3 DEF Init, EyesInv, EyesPaired, PositionInv, NoStreamAhead
<1>5. Layout /\ Sequenced /\ Indexing /\ Grouped /\ Shelved
  BY <1>3 DEF Layout, Sequenced, Indexing, Grouped, Shelved
<1>6. mxf.parts = {} /\ mxf.packets = <<>> /\ mxf.disk = <<>>
  BY <1>2 DEF Empty
<1>7. DOMAIN faults = {}
  BY <1>2
<1>8. History
  BY <1>2, <1>6, <1>7, NoFaultNoHarm DEF History
<1>9. QED
  BY <1>1, <1>4, <1>5, <1>8 DEF Inv

LEMMA NextInv == Inv /\ [Next]_vars => Inv'
<1> SUFFICES ASSUME Inv, [Next]_vars PROVE Inv'
  OBVIOUS
<1>1. /\ TypeInv /\ EyesInv /\ PositionInv /\ NoStreamAhead
      /\ Layout /\ History /\ Sequenced /\ Indexing /\ Grouped /\ Shelved
  BY DEF Inv
<1>2. TypeInv' /\ EyesInv' /\ PositionInv' /\ NoStreamAhead'
  BY <1>1, NextTypeInv, NextEyesInv, NextPositionInv, NextNoStreamAhead
<1>3. Layout' /\ History' /\ Sequenced'
  BY <1>1, NextLayout, NextHistory, NextSequenced
<1>4. Indexing' /\ Grouped' /\ Shelved'
  BY <1>1, NextIndexing, NextGrouped, NextShelved
<1>5. QED
  BY <1>2, <1>3, <1>4 DEF Inv

LEMMA InvHolds == Spec => []Inv
  BY InitInv, NextInv, PTL DEF Spec

-----------------------------------------------------------------------------
(* What Finalize makes of the file *)

\* The header names a footer with the index, and the RIP lists it last
Seals(m, a, count) ==
  /\ a.packets = m.packets /\ a.duration = count /\ m.segs # <<>>
  /\ a.disk = Append(m.rip, [sid |-> 0, at |-> m.pos])
  /\ Resolves(a, 0) /\ \A p \in a.parts : p.at = 0 => p.footer = m.pos
  /\ Resolves(a, m.pos) /\ \A p \in a.parts : p.at = m.pos => p.segs = m.segs
  /\ \A p \in m.parts : \E q \in a.parts : q.at = p.at
  /\ \A q \in StreamPacks(a) :
       \E p \in StreamPacks(m) : q.at = p.at /\ q.sid = p.sid /\ q.hmac = p.hmac

\* The header has no footer, or names one that is lost, or is lost itself
Fails(a) ==
  \/ Blank(a)
  \/ ~Resolves(a, 0)
  \/ \A p \in a.parts : p.at = 0 => ~Resolves(a, p.footer)

\* The faults that leave one of these
Failures == {"footer", "rip", "footerTorn", "rewriteKept", "rewriteLost", "rewriteTorn"}

LEMMA FooterDoes ==
  ASSUME TypeInv, Layout, NEW f, NEW r, Finishing(f, r)
  PROVE  /\ mxf'.packets = mxf.packets
         /\ mxf.segs # <<>> =>
              /\ f \in {"none", "rewriteOut"} => Seals(mxf, mxf', FinalCount)
              /\ f = "rewriteHalf" => Seals(mxf, mxf', mxf.duration)
         /\ f = "none" => (Footer(mxf, f).ok <=> mxf.segs # <<>>)
         /\ (f = "none" /\ mxf.segs = <<>>) => mxf'.disk = <<>>
         /\ f \in Failures \/ mxf.segs = <<>> => Fails(mxf')
<1> DEFINE m      == mxf
           here   == m.pos
           prev   == m.rip[Len(m.rip)].at
           new    == NewPack(here, "footer", 0)
           footer == [new EXCEPT !.prev = prev, !.footer = here, !.segs = m.segs]
           nosid  == 0
           g      == PackFault(f, "footer")
           pushed == PushRip(m, nosid, here)
           listed == PutPack(pushed, footer, g)
           disk   == IF f = "ripTorn" THEN listed.disk ELSE listed.rip
           h      == PackAt(m, 0)
           named  == [h EXCEPT !.footer = here]
           header == CASE f = "rewriteKept" -> {h}
                       [] f \in {"rewriteLost", "rewriteTorn"} -> {}
                       [] OTHER -> {named}
           all    == (listed.parts \ {h}) \cup header
           count  == IF f \in Rewrites \ {"rewriteOut"} THEN listed.duration ELSE FinalCount
           ok     == f \notin Rewrites \ {"rewriteTorn"}
           rip    == Append(m.rip, [sid |-> 0, at |-> here])
           after  == here + (IF g = "none" THEN PackLen ELSE PackLost)
           both   == IF g = "none" THEN m.parts \cup {footer} ELSE m.parts
<1>1. /\ Writing /\ m \in MxfType /\ m.pos > 0 /\ m.disk = <<>> /\ Blank(m) /\ Placed(m)
      /\ m.rip # <<>> /\ framesWritten \in Nat /\ mxf' = Footer(m, f).file
  BY DEF Finishing, Writing, Layout, TypeInv, TypeOK, HeaderWritten
<1>2. /\ here \in Nat /\ prev \in Nat /\ m.segs \in Seq(Segment) /\ m.parts \in SUBSET Pack
      /\ \A p \in m.parts : p.at \in Nat
      /\ new \in Pack /\ new.at = here /\ new.type = "footer" /\ nosid \in Nat
      /\ FinalCount \in Nat
  <2>1. m \in MxfType /\ m.rip # <<>> /\ framesWritten \in Nat
    BY <1>1
  <2>2. here \in Nat /\ m.segs \in Seq(Segment) /\ m.parts \in SUBSET Pack /\ nosid \in Nat
    BY <2>1, FileTypes
  <2>3. prev \in Nat /\ FinalCount \in Nat /\ new \in Pack
    BY <2>1, <2>2, LastAt, FinalCountType, NewPackType
  <2>4. \A p \in m.parts : p.at \in Nat
    BY <2>1, PartTypes
  <2>5. QED
    BY <2>2, <2>3, <2>4 DEF NewPack
<1>3. footer \in Pack /\ footer.at = here /\ footer.segs = m.segs /\ footer.type = "footer"
  <2> HIDE DEF here, prev, new
  <2>1. QED
    BY <1>2 DEF Pack
<1>4. h \in m.parts /\ h.at = 0 /\ \A p \in m.parts : p.at = 0 => p = h
  <2>1. \E p \in m.parts : p.at = 0
    BY <1>1 DEF Blank, Resolves
  <2>2. h \in m.parts /\ h.at = 0
    BY <2>1 DEF PackAt
  <2>3. QED
    BY <1>1, <2>2 DEF Placed
<1>5. /\ named \in Pack /\ named.at = 0 /\ named.footer = here
      /\ named.type = h.type /\ named.sid = h.sid /\ named.hmac = h.hmac
  <2>1. h \in Pack
    BY <1>2, <1>4
  <2> HIDE DEF here, h
  <2>2. QED
    BY <1>2, <1>4, <2>1 DEF Pack
<1>6. Footer(m, f) =
        IF f \in {"footer", "rip"} \/ m.segs = <<>> THEN [file |-> listed, ok |-> FALSE]
        ELSE [file |-> [listed EXCEPT !.disk = disk, !.parts = all, !.duration = count],
              ok   |-> ok]
  BY DEF Footer
<1>7. /\ pushed \in MxfType /\ pushed.pos = here /\ pushed.parts = m.parts /\ pushed.rip = rip
      /\ pushed.disk = <<>> /\ pushed.duration = m.duration /\ pushed.packets = m.packets
  <2>1. pushed \in MxfType /\ pushed.pos = here /\ pushed.parts = m.parts
    BY <1>1, <1>2, PushRipType
  <2>2. pushed = [m EXCEPT !.rip = rip]
    BY DEF PushRip
  <2> HIDE DEF pushed, rip
  <2>3. QED
    BY <1>1, <2>1, <2>2 DEF MxfType
<1> HIDE DEF pushed, footer, named, g, h, new, prev
<1>8. /\ listed \in MxfType /\ listed.parts = both /\ listed.rip = rip
      /\ listed.disk = <<>> /\ listed.duration = m.duration /\ listed.packets = m.packets
  <2>1. listed \in MxfType
    BY <1>3, <1>7, PutPackType
  <2>2. listed = [pushed EXCEPT !.pos = after, !.parts = both]
    BY <1>7 DEF PutPack
  <2> HIDE DEF listed, after, both, rip
  <2>3. QED
    BY <1>7, <2>1, <2>2 DEF MxfType
<1> HIDE DEF listed, rip, after
<1>9. header \subseteq Pack /\ all \in SUBSET Pack /\ disk \in Seq(Pair) /\ count \in Nat
  BY <1>2, <1>4, <1>5, <1>8 DEF MxfType
<1>10. \A p \in both : p \in m.parts \/ p = footer
  BY <1>8
<1>11. CASE f \in {"footer", "rip"} \/ m.segs = <<>>
  <2>1. mxf' = listed /\ ~Footer(m, f).ok
    BY <1>1, <1>6, <1>11
  <2>2. m.parts \subseteq mxf'.parts /\ \A p \in mxf'.parts : p.at = 0 => p \in m.parts
    BY <1>1, <1>2, <1>3, <1>8, <1>10, <2>1
  <2>3. Blank(mxf') /\ mxf'.disk = <<>> /\ mxf'.packets = m.packets
    BY <1>1, <1>8, <2>1, <2>2 DEF Blank, Resolves
  <2>4. f \notin {"none", "rewriteOut", "rewriteHalf"} \/ m.segs = <<>>
    BY <1>11
  <2>5. QED
    BY <2>1, <2>3, <2>4 DEF Fails
<1>12. CASE ~(f \in {"footer", "rip"} \/ m.segs = <<>>)
  <2> DEFINE b == [listed EXCEPT !.disk = disk, !.parts = all, !.duration = count]
  <2>1. mxf' = b /\ Footer(m, f).ok = ok
    BY <1>1, <1>6, <1>12
  <2>2. b.parts = all /\ b.packets = m.packets /\ b.duration = count /\ b.disk = disk
    <3> HIDE DEF all, count, disk
    <3>1. QED
      BY <1>8, <1>9 DEF MxfType
  <2>3. /\ mxf'.parts = all /\ mxf'.packets = m.packets /\ mxf'.duration = count
        /\ mxf'.disk = disk
    BY <2>1, <2>2
  <2> HIDE DEF b
  <2>4. f = "none" => ok
    BY DEF Rewrites
  <2>5. footer # h /\ footer.at # 0 /\ \A p \in m.parts : p.at < here
    BY <1>1, <1>2, <1>3, <1>4 DEF Placed
  <2>6. \A p \in both : p.at = 0 => p = h
    BY <1>4, <1>10, <2>5
  <2>7. \A p \in all : p \in header \/ (p \in both /\ p # h)
    BY <1>8
  <2>8. CASE f \in {"rewriteLost", "rewriteTorn"}
    <3>1. header = {}
      BY <2>8
    <3>2. ~Resolves(mxf', 0)
      BY <2>3, <2>6, <2>7, <3>1 DEF Resolves
    <3>3. QED
      BY <1>12, <2>3, <2>8, <3>2 DEF Fails
  <2>9. CASE f = "rewriteKept"
    <3>1. header = {h}
      BY <2>9
    <3>2. h \in all /\ \A p \in all : p.at = 0 => p = h
      BY <2>6, <2>7, <3>1
    <3> HIDE DEF all
    <3>3. h.footer = 0 /\ h.segs = <<>>
      BY <1>1, <1>4 DEF Blank
    <3>4. Blank(mxf')
      BY <1>4, <2>3, <3>2, <3>3 DEF Blank, Resolves
    <3>5. QED
      BY <1>12, <2>3, <2>9, <3>4 DEF Fails
  <2>10. CASE f \notin {"rewriteLost", "rewriteTorn", "rewriteKept"}
    <3>1. header = {named}
      BY <2>10
    <3>2. named \in all /\ \A p \in all : p = named \/ (p \in both /\ p # h)
      BY <2>7, <3>1
    <3>3. \A p \in both : p # h => p \in all
      BY <1>8
    <3> HIDE DEF all, header
    <3>4. \A p \in all : p.at = 0 => p.footer = here
      BY <1>5, <2>6, <3>2
    <3>5. CASE f = "footerTorn"
      <4>1. both = m.parts
        BY <3>5 DEF g, PackFault, Torn
      <4>2. \A p \in all : p.at # here
        BY <1>1, <1>2, <1>5, <2>5, <3>2, <4>1
      <4>3. \A p \in mxf'.parts : p.at = 0 => ~Resolves(mxf', p.footer)
        BY <2>3, <3>4, <4>2 DEF Resolves
      <4>4. QED
        BY <1>12, <2>3, <3>5, <4>3 DEF Fails
    <3>6. CASE f \in {"none", "rewriteOut", "rewriteHalf"}
      <4>1. g = "none"
        BY <3>6 DEF g, PackFault, Torn
      <4>2. disk = rip /\ footer \in both /\ both = m.parts \cup {footer}
        BY <1>8, <3>6, <4>1
      <4> HIDE DEF both, disk
      <4>3. footer \in all
        BY <2>5, <3>3, <4>2
      <4>4. \A p \in all : p.at = here => p.segs = m.segs
        BY <1>1, <1>2, <1>3, <1>5, <2>5, <3>2, <4>2
      <4>5. \A p \in m.parts : \E q \in all : q.at = p.at
        BY <1>4, <1>5, <3>2, <3>3, <4>2
      <4>6. ASSUME NEW q \in all, q.type = "stream"
            PROVE  \E p \in m.parts : /\ p.type = "stream" /\ q.at = p.at
                                      /\ q.sid = p.sid /\ q.hmac = p.hmac
        BY <1>3, <1>4, <1>5, <3>2, <4>2, <4>6
      <4>7. Resolves(mxf', 0) /\ Resolves(mxf', here)
        BY <1>3, <1>5, <2>3, <3>2, <4>3 DEF Resolves
      <4>8. \A q \in StreamPacks(mxf') :
               \E p \in StreamPacks(m) : q.at = p.at /\ q.sid = p.sid /\ q.hmac = p.hmac
        BY <2>3, <4>6 DEF StreamPacks
      <4>9. Seals(m, mxf', count)
        BY <1>12, <2>3, <3>4, <4>2, <4>4, <4>5, <4>7, <4>8 DEF Seals, rip
      <4>10. count = IF f = "rewriteHalf" THEN m.duration ELSE FinalCount
        BY <1>8, <3>6 DEF Rewrites
      <4>11. f \notin Failures
        BY <3>6 DEF Failures
      <4> HIDE DEF count, ok
      <4>12. QED
        BY <1>12, <2>1, <2>3, <2>4, <3>6, <4>9, <4>10, <4>11
    <3>7. CASE f \notin {"none", "rewriteOut", "rewriteHalf", "footerTorn"}
      <4>1. f \notin Failures
        BY <1>12, <2>10, <3>7 DEF Failures
      <4>2. QED
        BY <1>12, <2>3, <3>7, <4>1
    <3>8. QED
      BY <3>5, <3>6, <3>7
  <2>11. QED
    BY <2>8, <2>9, <2>10
<1>13. QED
  BY <1>11, <1>12

-----------------------------------------------------------------------------
(* What the reader makes of that file *)

LEMMA ReaderPacks ==
  \A m, at : Reader!PackAt(m, at) = PackAt(m, at) /\ (Reader!Resolves(m, at) <=> Resolves(m, at))
  BY DEF Reader!PackAt, PackAt, Reader!Resolves, Resolves

LEMMA PackFound ==
  ASSUME NEW m, NEW at, Resolves(m, at)
  PROVE  PackAt(m, at) \in m.parts /\ PackAt(m, at).at = at
  BY DEF PackAt, Resolves

LEMMA SealedIndex ==
  ASSUME NEW m, NEW a, NEW count, Seals(m, a, count)
  PROVE  Reader!Segments(a) = m.segs /\ Reader!PackAt(a, 0).footer = m.pos
<1>1. PackAt(a, 0) \in a.parts /\ PackAt(a, 0).at = 0
  BY PackFound DEF Seals
<1>2. PackAt(a, m.pos) \in a.parts /\ PackAt(a, m.pos).at = m.pos
  BY PackFound DEF Seals
<1>3. PackAt(a, 0).footer = m.pos /\ PackAt(a, m.pos).segs = m.segs
  BY <1>1, <1>2 DEF Seals
<1>4. QED
  BY <1>3, ReaderPacks DEF Reader!Segments, Reader!IndexPack

\* The RIP on disk
LEMMA SealedRip ==
  ASSUME NEW m \in MxfType, NEW a, NEW count, Seals(m, a, count)
  PROVE  /\ Len(a.disk) = Len(m.rip) + 1 /\ DOMAIN a.disk = 1 .. Len(m.rip) + 1
         /\ Len(m.rip) \in Nat
         /\ \A i \in 1 .. Len(m.rip) : a.disk[i] = m.rip[i]
         /\ a.disk[Len(m.rip) + 1].sid = 0 /\ a.disk[Len(m.rip) + 1].at = m.pos
<1> DEFINE new == [sid |-> 0, at |-> m.pos]
<1>1. m.rip \in Seq(Pair) /\ m.pos \in Nat
  BY FileTypes
<1>2. a.disk = Append(m.rip, new) /\ new \in Pair /\ new.sid = 0 /\ new.at = m.pos
  BY <1>1 DEF Seals, Pair
<1> HIDE DEF new
<1>3. QED
  BY <1>1, <1>2

LEMMA SealedBody ==
  ASSUME TypeInv, Layout, Writing, NEW a, NEW count, Seals(mxf, a, count)
  PROVE  /\ Reader!BodyOffset(a) = BodyStart
         /\ smpte => Len(a.disk) > 2 /\ a.disk[2].at = HeaderLen
         /\ ~smpte => ~(Len(a.disk) > 2)
<1>1. mxf \in MxfType /\ streams \in Nat /\ Listing(mxf)
  BY BoundAssumption DEF TypeInv, TypeOK, Layout
<1>2. /\ Len(a.disk) = Len(mxf.rip) + 1
      /\ \A i \in 1 .. Len(mxf.rip) : a.disk[i] = mxf.rip[i]
  BY <1>1, SealedRip
<1>3. CASE smpte
  <2>1. Len(mxf.rip) = 2 + streams /\ mxf.rip[2] = [sid |-> 1, at |-> HeaderLen]
    BY <1>1, <1>3 DEF Listing
  <2>2. 2 \in 1 .. Len(mxf.rip) /\ Len(a.disk) > 2
    BY <1>1, <1>2, <2>1
  <2>3. a.disk[2].at = HeaderLen
    BY <1>2, <2>1, <2>2
  <2>4. QED
    BY <1>3, <2>2, <2>3 DEF Reader!BodyOffset, BodyStart
<1>4. CASE ~smpte
  <2>1. Len(mxf.rip) = 1
    BY <1>1, <1>4 DEF Listing
  <2>2. ~(Len(a.disk) > 2)
    BY <1>2, <2>1
  <2>3. QED
    BY <1>4, <2>2 DEF Reader!BodyOffset, BodyStart
<1>5. QED
  BY <1>3, <1>4

LEMMA SealedOpenable ==
  ASSUME TypeInv, Layout, Writing, NEW a, NEW count, Seals(mxf, a, count),
         smpte => Resolves(mxf, HeaderLen), ~kind.vbr => count # 0
  PROVE  Reader!Openable(a, kind)
<1>1. Resolves(a, 0) /\ Resolves(a, mxf.pos) /\ a.duration = count
  BY DEF Seals
<1>2. smpte => Resolves(a, HeaderLen)
  BY DEF Seals, Resolves
<1>3. Len(a.disk) > 2 => Resolves(a, a.disk[2].at)
  BY <1>2, SealedBody
<1>4. Reader!PackAt(a, 0).footer = mxf.pos
  BY SealedIndex
<1>5. QED
  BY <1>1, <1>3, <1>4, ReaderPacks DEF Reader!Openable

\* The reader finds the entry of number n
Finds(a, segs, n) ==
  /\ Reader!Hits(a, n - 1) # {}
  /\ \E i \in DOMAIN segs : \E j \in DOMAIN segs[i].entries :
       /\ segs[i].start + j = n
       /\ Reader!EntryOf(a, n - 1) = segs[i].entries[j]

\* It does in an index that numbers its entries without a gap.
LEMMA EntryFound ==
  ASSUME NEW segs \in Seq(Segment), NEW a, Reader!Segments(a) = segs,
         NEW c \in Nat, Enumerated(segs, c), NEW n \in 1 .. c
  PROVE  Finds(a, segs, n)
<1> DEFINE Covers(i) == segs[i].start <= n - 1 /\ n - 1 < Reader!SegmentEnd(segs[i])
<1>1. Reader!Hits(a, n - 1) = {i \in DOMAIN segs : Covers(i)}
  BY DEF Reader!Hits
<1>2. ASSUME NEW i \in DOMAIN segs
      PROVE  /\ segs[i].start \in Nat /\ Len(segs[i].entries) \in Nat
             /\ DOMAIN segs[i].entries = 1 .. Len(segs[i].entries)
  <2>1. segs[i] \in Segment
    OBVIOUS
  <2>2. QED
    BY <2>1 DEF Segment
<1>3. PICK i \in DOMAIN segs : \E j \in DOMAIN segs[i].entries : segs[i].start + j = n
  BY DEF Enumerated
<1>4. PICK j \in DOMAIN segs[i].entries : segs[i].start + j = n
  BY <1>3
<1>5. Covers(i)
  BY <1>2, <1>4 DEF Reader!SegmentEnd
<1>6. ASSUME NEW i2 \in DOMAIN segs, Covers(i2) PROVE i2 = i
  <2> DEFINE j2 == n - segs[i2].start
  <2>1. j2 \in DOMAIN segs[i2].entries /\ segs[i2].start + j2 = n
    BY <1>2, <1>6 DEF Reader!SegmentEnd
  <2> HIDE DEF j2
  <2>2. QED
    BY <1>4, <2>1 DEF Enumerated
<1> HIDE DEF Covers
<1>7. Reader!Hits(a, n - 1) = {i}
  BY <1>1, <1>5, <1>6
<1>8. (CHOOSE k \in {i} : \A l \in {i} : k <= l) = i
  <2>1. i \in Nat
    OBVIOUS
  <2>2. QED
    BY <2>1
<1>9. n - 1 - segs[i].start + 1 = j
  <2> DEFINE start == segs[i].start
  <2>1. start \in Nat /\ j \in Nat /\ start + j = n
    BY <1>2, <1>4
  <2> HIDE DEF start
  <2>2. n - 1 - start + 1 = j
    BY <2>1
  <2>3. QED
    BY <2>2 DEF start
<1>10. Reader!EntryOf(a, n - 1) = segs[i].entries[j]
  BY <1>7, <1>8, <1>9 DEF Reader!EntryOf
<1>11. QED
  BY <1>4, <1>7, <1>10 DEF Finds

\* The places and numbers of the packets of frame n, and what a reader gets for them
FrameOf(eyes, packets, n) ==
  [eye \in 1 .. eyes |->
     LET p == packets[eyes * (n - 1) + eye] IN [at |-> p.at, hmac |-> p.hmac]]

FrameRead(a, k, n) ==
  [eye \in 1 .. k.eyes |-> [at   |-> Reader!Eye(a, k, n - 1, eye),
                            hmac |-> Reader!Sequence(k, n - 1, eye)]]

LEMMA PlacesDiffer ==
  ASSUME NEW m \in MxfType, InOrder(m), NEW i \in DOMAIN m.packets, NEW j \in DOMAIN m.packets,
         m.packets[i].at = m.packets[j].at
  PROVE  i = j
<1>1. /\ i \in Nat /\ j \in Nat
      /\ m.packets[i].at \in Nat /\ m.packets[i].len \in Nat /\ m.packets[j].len \in Nat
  BY FileTypes, PartTypes
<1>2. /\ m.packets[i].len > 0 /\ m.packets[j].len > 0
      /\ i < j => m.packets[i].at + m.packets[i].len <= m.packets[j].at
      /\ j < i => m.packets[j].at + m.packets[j].len <= m.packets[i].at
  BY DEF InOrder
<1>3. QED
  BY <1>1, <1>2

\* The right eye is read where the packet of the left one ends.
LEMMA EyeFound ==
  ASSUME NEW m \in MxfType, InOrder(m), NEW a, a.packets = m.packets, NEW k, NEW n,
         NEW first \in DOMAIN m.packets, Reader!Lookup(a, k, n) = m.packets[first].at
  PROVE  /\ Reader!Eye(a, k, n, 1) = m.packets[first].at
         /\ Reader!Eye(a, k, n, 2) = m.packets[first].at + m.packets[first].len
<1> DEFINE left == Reader!Lookup(a, k, n)
           here == {p \in {a.packets[i] : i \in DOMAIN a.packets} : p.at = left}
<1>1. left \in Nat /\ left # Reader!NoPlace
  BY PartTypes DEF Reader!NoPlace
<1>2. here = {m.packets[first]}
  <2>1. m.packets[first] \in here
    OBVIOUS
  <2>2. ASSUME NEW p \in here PROVE p = m.packets[first]
    <3>1. PICK i \in DOMAIN m.packets : p = m.packets[i]
      OBVIOUS
    <3>2. m.packets[i].at = m.packets[first].at
      BY <3>1
    <3>3. QED
      BY <3>1, <3>2, PlacesDiffer
  <2>3. QED
    BY <2>1, <2>2
<1>3. Reader!Eye(a, k, n, 1) = left
  BY DEF Reader!Eye
<1>4. Reader!Eye(a, k, n, 2) = IF left = Reader!NoPlace THEN left
                               ELSE IF here = {} THEN Reader!NoPlace
                               ELSE left + (CHOOSE p \in here : TRUE).len
  BY DEF Reader!Eye
<1> HIDE DEF here
<1>5. (CHOOSE p \in {m.packets[first]} : TRUE) = m.packets[first]
  OBVIOUS
<1> HIDE DEF left
<1>6. Reader!Eye(a, k, n, 2) = left + m.packets[first].len
  BY <1>1, <1>2, <1>4, <1>5
<1>7. QED
  BY <1>3, <1>6 DEF left

\* A sound frame is looked up where its first packet is.
LEMMA SealedPlace ==
  ASSUME TypeInv, Layout, Sequenced, Indexing, Writing, Regular,
         NEW a, NEW count, Seals(mxf, a, count), NEW n \in Nat, n >= 1, kind.eyes * n <= Sound,
         ~kind.vbr => count \in Nat /\ n <= count
  PROVE  LET first == kind.eyes * (n - 1) + 1
         IN  /\ first \in DOMAIN mxf.packets
             /\ Reader!Lookup(a, kind, n - 1) = mxf.packets[first].at
<1> DEFINE first == kind.eyes * (n - 1) + 1
           len   == Len(mxf.packets)
<1>1. /\ Sound \in Nat /\ len \in Nat /\ DOMAIN mxf.packets = 1 .. len
      /\ kind.eyes \in {1, 2} /\ KindOK(kind) /\ mxf.segs \in Seq(Segment)
  BY SoundType, FileTypes
<1>2. Numbered
  BY DEF Sequenced
<1>3. first \in Nat /\ first >= 1 /\ first <= Sound /\ Sound <= len
  <2>1. Sound <= len
    BY <1>2 DEF Numbered
  <2>2. CASE kind.eyes = 1
    BY <1>1, <2>1, <2>2
  <2>3. CASE kind.eyes = 2
    BY <1>1, <2>1, <2>3
  <2>4. QED
    BY <1>1, <2>2, <2>3
<1>4. first \in DOMAIN mxf.packets
  BY <1>1, <1>3
<1>5. Reader!BodyOffset(a) = BodyStart /\ Reader!Segments(a) = mxf.segs /\ a.duration = count
  BY SealedBody, SealedIndex DEF Seals
<1>6. CASE kind.vbr
  <2>1. PICK c \in Nat : Enumerated(mxf.segs, c) /\ Leading(mxf.segs, c)
    BY <1>6 DEF Indexing
  <2>2. kind.eyes * c >= Sound /\ Leads(kind.eyes, BodyStart, mxf.packets, mxf.segs, Sound)
    BY <2>1 DEF Leading
  <2>3. n <= c
    <3>1. CASE kind.eyes = 1
      BY <1>1, <2>2, <3>1
    <3>2. CASE kind.eyes = 2
      BY <1>1, <2>2, <3>2
    <3>3. QED
      BY <1>1, <3>1, <3>2
  <2>4. n \in 1 .. c
    BY <2>3
  <2>5. Finds(a, mxf.segs, n)
    BY <1>1, <1>5, <2>1, <2>4, EntryFound
  <2>6. PICK i \in DOMAIN mxf.segs : \E j \in DOMAIN mxf.segs[i].entries :
          /\ mxf.segs[i].start + j = n
          /\ Reader!EntryOf(a, n - 1) = mxf.segs[i].entries[j]
    BY <2>5 DEF Finds
  <2>7. PICK j \in DOMAIN mxf.segs[i].entries :
          /\ mxf.segs[i].start + j = n
          /\ Reader!EntryOf(a, n - 1) = mxf.segs[i].entries[j]
    BY <2>6
  <2>8. kind.eyes * (mxf.segs[i].start + j - 1) + 1 = first
    <3> DEFINE start == mxf.segs[i].start
    <3>1. start \in Nat /\ j \in Nat /\ start + j = n
      BY <1>1, <2>7, FirstType
    <3> HIDE DEF start
    <3>2. start + j - 1 = n - 1
      BY <3>1
    <3>3. kind.eyes * (start + j - 1) + 1 = first
      BY <3>2
    <3>4. QED
      BY <3>3 DEF start
  <2>9. LeadsTo(BodyStart, mxf.packets, first, mxf.segs[i].entries[j])
    <3> HIDE DEF first
    <3>1. first <= Sound
      BY <1>3
    <3>2. QED
      BY <2>2, <2>8, <3>1 DEF Leads
  <2>10. Reader!Lookup(a, kind, n - 1) = BodyStart + mxf.segs[i].entries[j].offset
    BY <1>5, <1>6, <2>5, <2>7 DEF Reader!Lookup, Finds
  <2>11. QED
    BY <1>4, <2>9, <2>10 DEF LeadsTo
<1>7. CASE ~kind.vbr
  <2>1. kind.eyes = 1
    BY <1>1, <1>7 DEF KindOK
  <2>2. first = n /\ n <= Sound /\ n <= len
    BY <1>1, <1>3, <2>1
  <2>3. mxf.packets[n].at = BodyStart + (n - 1) * UnitLen
    BY <1>1, <1>2, <1>7, <2>2 DEF Numbered
  <2>4. ~(n - 1 + 1 > a.duration) /\ Reader!Segments(a) # <<>>
    BY <1>5, <1>7 DEF Seals
  <2>5. Reader!Lookup(a, kind, n - 1) = Reader!BodyOffset(a) + (n - 1) * UnitLen
    BY <1>7, <2>4 DEF Reader!Lookup
  <2>6. QED
    BY <1>4, <1>5, <2>2, <2>3, <2>5
<1>8. QED
  BY <1>6, <1>7

LEMMA SealedFrame ==
  ASSUME TypeInv, Layout, Sequenced, Indexing, Writing, Regular,
         NEW a, NEW count, Seals(mxf, a, count), NEW n \in Nat, n >= 1, kind.eyes * n <= Sound,
         ~kind.vbr => count \in Nat /\ n <= count
  PROVE  FrameRead(a, kind, n) = FrameOf(kind.eyes, mxf.packets, n)
<1> DEFINE first == kind.eyes * (n - 1) + 1
           len   == Len(mxf.packets)
<1>1. /\ Sound \in Nat /\ len \in Nat /\ DOMAIN mxf.packets = 1 .. len
      /\ kind.eyes \in {1, 2} /\ mxf \in MxfType
  BY SoundType
<1>2. InOrder(mxf) /\ Numbered /\ a.packets = mxf.packets
  BY DEF Layout, Sequenced, Seals
<1>3. first \in DOMAIN mxf.packets /\ Reader!Lookup(a, kind, n - 1) = mxf.packets[first].at
  BY SealedPlace
<1>4. /\ Reader!Eye(a, kind, n - 1, 1) = mxf.packets[first].at
      /\ Reader!Eye(a, kind, n - 1, 2) = mxf.packets[first].at + mxf.packets[first].len
  <2> HIDE DEF first
  <2>1. mxf \in MxfType /\ InOrder(mxf) /\ a.packets = mxf.packets
    BY <1>1, <1>2
  <2>2. QED
    BY <1>3, <2>1, EyeFound
<1>5. /\ \A i \in 1 .. Sound : mxf.packets[i].hmac = i
      /\ kind.eyes = 2 =>
           \A i \in 1 .. Sound - 1 :
             mxf.packets[i + 1].at = mxf.packets[i].at + mxf.packets[i].len
  BY <1>2 DEF Numbered
<1> DEFINE Same(eye) ==
      [at |-> Reader!Eye(a, kind, n - 1, eye), hmac |-> Reader!Sequence(kind, n - 1, eye)]
        = LET p == mxf.packets[kind.eyes * (n - 1) + eye] IN [at |-> p.at, hmac |-> p.hmac]
<1>6. CASE kind.eyes = 1
  <2>1. first = n /\ n \in 1 .. Sound
    BY <1>1, <1>6
  <2>2. Reader!Sequence(kind, n - 1, 1) = n
    BY <1>6 DEF Reader!Sequence
  <2>3. mxf.packets[first].hmac = n
    BY <1>5, <2>1
  <2>4. Same(1)
    BY <1>4, <2>2, <2>3
  <2>5. \A eye \in 1 .. kind.eyes : eye = 1
    BY <1>6
  <2> HIDE DEF Same
  <2>6. \A eye \in 1 .. kind.eyes : Same(eye)
    BY <2>4, <2>5
  <2>7. QED
    BY <2>6 DEF FrameRead, FrameOf, Same
<1>7. CASE kind.eyes = 2
  <2> DEFINE second == 2 * (n - 1) + 2
  <2>1. /\ first = 2 * (n - 1) + 1 /\ first \in 1 .. Sound /\ first \in 1 .. Sound - 1
        /\ second = first + 1 /\ second \in 1 .. Sound
    BY <1>1, <1>7
  <2>2. Reader!Sequence(kind, n - 1, 1) = first /\ Reader!Sequence(kind, n - 1, 2) = second
    BY <1>7, <2>1 DEF Reader!Sequence
  <2> HIDE DEF first, second
  <2>3. /\ mxf.packets[first].hmac = first /\ mxf.packets[second].hmac = second
        /\ mxf.packets[second].at = mxf.packets[first].at + mxf.packets[first].len
    BY <1>5, <1>7, <2>1
  <2>4. kind.eyes * (n - 1) + 1 = first /\ kind.eyes * (n - 1) + 2 = second
    BY <1>7 DEF first, second
  <2>5. Same(1)
    BY <1>4, <2>2, <2>3, <2>4
  <2>6. Same(2)
    BY <1>4, <2>2, <2>3, <2>4
  <2>7. \A eye \in 1 .. kind.eyes : eye = 1 \/ eye = 2
    BY <1>7
  <2> HIDE DEF Same
  <2>8. \A eye \in 1 .. kind.eyes : Same(eye)
    BY <2>5, <2>6, <2>7
  <2>9. QED
    BY <2>8 DEF FrameRead, FrameOf, Same
<1>8. QED
  BY <1>1, <1>6, <1>7

\* The reader's Cardinality is that of every other module.
LEMMA ReaderCounts == \A S : Reader!Cardinality(S) = Cardinality(S)
  BY DEF Reader!Cardinality, Cardinality

LEMMA SealedDuration ==
  ASSUME NEW m, NEW a, NEW count, Seals(m, a, count)
  PROVE  /\ ~kind.vbr => Reader!Duration(a, kind) = count
         /\ \A c \in Nat :
              kind.vbr /\ Enumerated(m.segs, c) => Reader!Duration(a, kind) = c
<1>1. Reader!Segments(a) = m.segs /\ a.duration = count
  BY SealedIndex DEF Seals
<1>2. kind.vbr => Reader!Duration(a, kind) = Cardinality(EntriesOf(m.segs))
  BY <1>1, ReaderCounts DEF Reader!Duration, EntriesOf
<1>3. ~kind.vbr => Reader!Duration(a, kind) = count
  BY <1>1 DEF Reader!Duration
<1>4. QED
  BY <1>2, <1>3, EnumeratedCount

LEMMA WrittenIs == Written = [n \in 1 .. Frames |-> FrameOf(kind.eyes, mxf.packets, n)]
  BY DEF Written, FrameOf

LEMMA ReadableIs ==
  ASSUME NEW a, NEW k, Reader!Openable(a, k)
  PROVE  Reader!Readable(a, k) = [n \in 1 .. Reader!Duration(a, k) |-> FrameRead(a, k, n)]
  BY DEF Reader!Readable, FrameRead

\* The frames before the first harm are in the finalized file.
LEMMA SealedFrames ==
  ASSUME TypeInv, Layout, Sequenced, Indexing, Writing, Regular,
         NEW a, NEW count, Seals(mxf, a, count), ~kind.vbr => count = Len(mxf.packets),
         NEW n \in 1 .. SoundFrames
  PROVE  Reader!Readable(a, kind)[n] = FrameOf(kind.eyes, mxf.packets, n)
<1> DEFINE len == Len(mxf.packets)
<1>1. /\ Sound \in Nat /\ SoundFrames \in Nat /\ len \in Nat
      /\ kind.eyes \in {1, 2} /\ KindOK(kind) /\ mxf \in MxfType
  BY SoundType
<1>2. kind.eyes * SoundFrames <= Sound
  <2>1. CASE Harms = {}
    <3>1. SoundFrames = Frames /\ Sound = len
      BY <2>1 DEF Sound, SoundFrames
    <3>2. QED
      BY <3>1, FramesPackets
  <2>2. CASE Harms # {}
    <3>1. Sound = kind.eyes * SoundFrames
      BY <2>2 DEF Sound
    <3>2. QED
      BY <1>1, <3>1
  <2>3. QED
    BY <2>1, <2>2
<1>3. kind.eyes * n <= Sound /\ n <= Sound
  <2>1. CASE kind.eyes = 1
    BY <1>1, <1>2, <2>1
  <2>2. CASE kind.eyes = 2
    BY <1>1, <1>2, <2>2
  <2>3. QED
    BY <1>1, <2>1, <2>2
<1>4. Sound <= len /\ (smpte => Resolves(mxf, HeaderLen))
  BY <1>1, <1>3 DEF Sequenced, Numbered
<1>5. Reader!Openable(a, kind)
  <2>1. ~kind.vbr => count # 0
    BY <1>1, <1>3, <1>4
  <2>2. QED
    BY <1>4, <2>1, SealedOpenable
<1>6. n \in 1 .. Reader!Duration(a, kind)
  <2>1. CASE kind.vbr
    <3>1. PICK c \in Nat : Enumerated(mxf.segs, c) /\ Leading(mxf.segs, c)
      BY <2>1 DEF Indexing
    <3>2. kind.eyes * c >= Sound
      BY <3>1 DEF Leading
    <3>3. n <= c
      <4>1. CASE kind.eyes = 1
        BY <1>1, <1>3, <3>2, <4>1
      <4>2. CASE kind.eyes = 2
        BY <1>1, <1>3, <3>2, <4>2
      <4>3. QED
        BY <1>1, <4>1, <4>2
    <3>4. Reader!Duration(a, kind) = c
      BY <2>1, <3>1, SealedDuration
    <3>5. QED
      BY <3>3, <3>4
  <2>2. CASE ~kind.vbr
    <3>1. Reader!Duration(a, kind) = len
      BY <2>2, SealedDuration
    <3>2. QED
      BY <1>1, <1>3, <1>4, <3>1
  <2>3. QED
    BY <2>1, <2>2
<1>7. FrameRead(a, kind, n) = FrameOf(kind.eyes, mxf.packets, n)
  <2>1. n \in Nat /\ n >= 1 /\ (~kind.vbr => count \in Nat /\ n <= count)
    BY <1>1, <1>3, <1>4
  <2>2. QED
    BY <1>3, <2>1, SealedFrame
<1>8. QED
  BY <1>5, <1>6, <1>7, ReadableIs

\* Without harm, they are all the frames of the file.
LEMMA SealedReads ==
  ASSUME TypeInv, Layout, Sequenced, Indexing, Writing, Regular, Harms = {}, nextPhase = 1,
         NEW a, NEW count, Seals(mxf, a, count), ~kind.vbr => count = Len(mxf.packets)
  PROVE  /\ Reader!Readable(a, kind) = Written
         /\ kind.vbr \/ Len(mxf.packets) # 0 => Reader!Openable(a, kind)
<1> DEFINE len == Len(mxf.packets)
<1>1. /\ Sound = len /\ len \in Nat /\ Frames \in Nat
      /\ kind.eyes \in {1, 2} /\ KindOK(kind) /\ mxf \in MxfType
  BY SoundType DEF Sound
<1>2. kind.eyes * Frames <= len /\ len < kind.eyes * Frames + kind.eyes
  BY FramesPackets
<1>3. smpte => Resolves(mxf, HeaderLen)
  BY DEF Sequenced, Numbered
<1>4. CASE ~kind.vbr /\ len = 0
  <2>1. kind.eyes = 1 /\ Frames = 0
    <3>1. kind.eyes = 1
      BY <1>1, <1>4 DEF KindOK
    <3>2. QED
      BY <1>1, <1>2, <1>4, <3>1
  <2>2. Written = <<>>
    <3>1. 1 .. 0 = {}
      OBVIOUS
    <3>2. Written = [n \in {} |-> FrameOf(kind.eyes, mxf.packets, n)]
      BY <2>1, <3>1, WrittenIs
    <3>3. QED
      BY <3>2
  <2>3. ~Reader!Openable(a, kind)
    BY <1>4 DEF Reader!Openable, Seals
  <2>4. Reader!Readable(a, kind) = <<>>
    BY <2>3 DEF Reader!Readable
  <2>5. QED
    BY <1>4, <2>2, <2>4
<1>5. CASE kind.vbr \/ len # 0
  <2>1. Reader!Openable(a, kind)
    BY <1>3, <1>5, SealedOpenable
  <2>2. Reader!Duration(a, kind) = Frames
    <3>1. CASE kind.vbr
      <4>1. PICK c \in Nat : Enumerated(mxf.segs, c) /\ Leading(mxf.segs, c)
        BY <3>1 DEF Indexing
      <4>2. kind.eyes * c = len + nextPhase - 1
        BY <4>1 DEF Leading
      <4>3. kind.eyes * c = len
        BY <1>1, <4>2
      <4>4. c = Frames
        <5>1. CASE kind.eyes = 1
          BY <1>1, <1>2, <4>3, <5>1
        <5>2. CASE kind.eyes = 2
          BY <1>1, <1>2, <4>3, <5>2
        <5>3. QED
          BY <1>1, <5>1, <5>2
      <4>5. QED
        BY <3>1, <4>1, <4>4, SealedDuration
    <3>2. CASE ~kind.vbr
      <4>1. kind.eyes = 1
        BY <1>1, <3>2 DEF KindOK
      <4>2. Frames = len
        BY <1>1, <1>2, <4>1
      <4>3. QED
        BY <3>2, <4>2, SealedDuration
    <3>3. QED
      BY <3>1, <3>2
  <2>3. ASSUME NEW n \in 1 .. Frames
        PROVE  FrameRead(a, kind, n) = FrameOf(kind.eyes, mxf.packets, n)
    <3>1. n \in Nat /\ n >= 1
      BY <1>1
    <3>2. kind.eyes * n <= Sound
      <4>1. CASE kind.eyes = 1
        BY <1>1, <1>2, <3>1, <4>1
      <4>2. CASE kind.eyes = 2
        BY <1>1, <1>2, <3>1, <4>2
      <4>3. QED
        BY <1>1, <4>1, <4>2
    <3>3. ~kind.vbr => count \in Nat /\ n <= count
      BY <1>1, <1>2 DEF KindOK
    <3>4. QED
      BY <3>1, <3>2, <3>3, SealedFrame
  <2>4. Reader!Readable(a, kind) = [n \in 1 .. Frames |-> FrameRead(a, kind, n)]
    BY <2>1, <2>2, ReadableIs
  <2>5. QED
    BY <2>1, <2>3, <2>4, WrittenIs
<1>6. QED
  BY <1>4, <1>5

\* With another duration, a CBR index leads to the frames within it.
LEMMA SealedShare ==
  ASSUME TypeInv, Layout, Sequenced, Indexing, Writing, Regular, Harms = {}, ~kind.vbr,
         NEW a, NEW count \in Nat, Seals(mxf, a, count),
         NEW n \in DOMAIN Reader!Readable(a, kind), n \in 1 .. Frames
  PROVE  Reader!Readable(a, kind)[n] = FrameOf(kind.eyes, mxf.packets, n)
<1> DEFINE len == Len(mxf.packets)
<1>1. /\ Sound = len /\ len \in Nat /\ Frames \in Nat
      /\ kind.eyes \in {1, 2} /\ KindOK(kind) /\ mxf \in MxfType
  BY SoundType DEF Sound
<1>2. kind.eyes = 1 /\ kind.eyes * Frames <= len
  BY <1>1, FramesPackets DEF KindOK
<1>3. Reader!Openable(a, kind)
  <2>1. DOMAIN <<>> = {}
    OBVIOUS
  <2>2. QED
    BY <2>1 DEF Reader!Readable
<1>4. Reader!Readable(a, kind) = [i \in 1 .. count |-> FrameRead(a, kind, i)]
  BY <1>3, ReadableIs, SealedDuration
<1>5. n \in 1 .. count
  BY <1>4
<1>6. n \in Nat /\ n >= 1 /\ n <= count /\ kind.eyes * n <= Sound
  BY <1>1, <1>2, <1>5
<1>7. FrameRead(a, kind, n) = FrameOf(kind.eyes, mxf.packets, n)
  BY <1>6, SealedFrame
<1>8. QED
  BY <1>4, <1>5, <1>7

\* Whatever frame is asked for, the reader knows no place for it.
Unreadable(a, k) ==
  LET got == Reader!Readable(a, k)
  IN  \A n \in DOMAIN got : \A eye \in 1 .. k.eyes : got[n][eye].at = Reader!NoPlace

LEMMA Unopened ==
  ASSUME NEW a, NEW k, ~Reader!Openable(a, k)
  PROVE  Unreadable(a, k)
<1>1. DOMAIN <<>> = {}
  OBVIOUS
<1>2. QED
  BY <1>1 DEF Unreadable, Reader!Readable

\* A file that was never finalized holds nothing for a reader.
LEMMA BlankRead ==
  ASSUME NEW a, NEW k, Blank(a)
  PROVE  Unreadable(a, k)
<1>1. PackAt(a, 0) \in a.parts /\ PackAt(a, 0).at = 0
  BY PackFound DEF Blank
<1>2. PackAt(a, 0).footer = 0 /\ PackAt(a, 0).segs = <<>>
  BY <1>1 DEF Blank
<1>3. Reader!Segments(a) = <<>>
  BY <1>2, ReaderPacks DEF Reader!Segments, Reader!IndexPack
<1>4. DOMAIN <<>> = {}
  OBVIOUS
<1>5. ASSUME NEW n PROVE Reader!Lookup(a, k, n) = Reader!NoPlace
  <2>1. Reader!Hits(a, n) = {}
    BY <1>3, <1>4 DEF Reader!Hits
  <2>2. QED
    BY <1>3, <2>1 DEF Reader!Lookup
<1>6. ASSUME NEW n, NEW eye PROVE Reader!Eye(a, k, n, eye) = Reader!NoPlace
  BY <1>5 DEF Reader!Eye
<1>7. CASE Reader!Openable(a, k)
  <2>1. Reader!Readable(a, k) = [n \in 1 .. Reader!Duration(a, k) |-> FrameRead(a, k, n)]
    BY <1>7, ReadableIs
  <2>2. \A n : \A eye \in 1 .. k.eyes : FrameRead(a, k, n)[eye].at = Reader!NoPlace
    BY <1>6 DEF FrameRead
  <2>3. QED
    BY <2>1, <2>2 DEF Unreadable
<1>8. QED
  BY <1>7, Unopened

\* Nor does one whose header, or the footer it names, is lost.
LEMMA FailsRead ==
  ASSUME NEW a, NEW k, Fails(a)
  PROVE  Unreadable(a, k)
<1>1. CASE Blank(a)
  BY <1>1, BlankRead
<1>2. CASE ~Resolves(a, 0)
  <2>1. ~Reader!Openable(a, k)
    BY <1>2, ReaderPacks DEF Reader!Openable
  <2>2. QED
    BY <2>1, Unopened
<1>3. CASE Resolves(a, 0) /\ \A p \in a.parts : p.at = 0 => ~Resolves(a, p.footer)
  <2>1. PackAt(a, 0) \in a.parts /\ PackAt(a, 0).at = 0
    BY <1>3, PackFound
  <2>2. ~Reader!Openable(a, k)
    BY <1>3, <2>1, ReaderPacks DEF Reader!Openable
  <2>3. QED
    BY <2>2, Unopened
<1>4. QED
  BY <1>1, <1>2, <1>3 DEF Fails

\* Two files that hold the same look the same to the reader.
Same(m, a) ==
  /\ a.parts = m.parts /\ a.packets = m.packets /\ a.disk = m.disk /\ a.duration = m.duration

LEMMA SameRead ==
  ASSUME NEW m, NEW a, NEW k, Same(m, a)
  PROVE  /\ Reader!Readable(a, k) = Reader!Readable(m, k)
         /\ \A at : Reader!Resolves(a, at) <=> Reader!Resolves(m, at)
<1>1. /\ a.parts = m.parts /\ a.packets = m.packets /\ a.disk = m.disk
      /\ a.duration = m.duration
  BY DEF Same
<1>2. \A at : /\ Reader!Resolves(a, at) <=> Reader!Resolves(m, at)
              /\ Reader!PackAt(a, at) = Reader!PackAt(m, at)
  BY <1>1 DEF Reader!Resolves, Reader!PackAt
<1>3. Reader!Segments(a) = Reader!Segments(m) /\ Reader!BodyOffset(a) = Reader!BodyOffset(m)
  BY <1>1, <1>2 DEF Reader!Segments, Reader!IndexPack, Reader!BodyOffset
<1>4. Reader!Openable(a, k) <=> Reader!Openable(m, k)
  BY <1>1, <1>2 DEF Reader!Openable
<1>5. Reader!Duration(a, k) = Reader!Duration(m, k)
  BY <1>1, <1>3 DEF Reader!Duration
<1>6. \A n : Reader!Hits(a, n) = Reader!Hits(m, n)
  BY <1>3 DEF Reader!Hits
<1>7. ASSUME NEW n PROVE Reader!EntryOf(a, n) = Reader!EntryOf(m, n)
  <2> DEFINE First(H) == CHOOSE i \in H : \A j \in H : i <= j
             Listed(s, i) == s[i].entries[n - s[i].start + 1]
  <2>1. Reader!Hits(a, n) = Reader!Hits(m, n)
    BY <1>6
  <2>2. /\ Reader!EntryOf(a, n) = Listed(Reader!Segments(a), First(Reader!Hits(a, n)))
        /\ Reader!EntryOf(m, n) = Listed(Reader!Segments(m), First(Reader!Hits(m, n)))
    BY DEF Reader!EntryOf
  <2> HIDE DEF First, Listed
  <2>3. QED
    BY <1>3, <2>1, <2>2
<1>8. \A n : Reader!Lookup(a, k, n) = Reader!Lookup(m, k, n)
  BY <1>1, <1>3, <1>6, <1>7 DEF Reader!Lookup
<1>9. ASSUME NEW n, NEW eye PROVE Reader!Eye(a, k, n, eye) = Reader!Eye(m, k, n, eye)
  <2> DEFINE Here(packets, left) == {p \in {packets[i] : i \in DOMAIN packets} : p.at = left}
             Place(packets, left) ==
               IF eye = 1 \/ left = Reader!NoPlace THEN left
               ELSE IF Here(packets, left) = {} THEN Reader!NoPlace
               ELSE left + (CHOOSE p \in Here(packets, left) : TRUE).len
  <2>1. /\ Reader!Eye(a, k, n, eye) = Place(a.packets, Reader!Lookup(a, k, n))
        /\ Reader!Eye(m, k, n, eye) = Place(m.packets, Reader!Lookup(m, k, n))
    BY DEF Reader!Eye
  <2>2. Reader!Lookup(a, k, n) = Reader!Lookup(m, k, n)
    BY <1>8
  <2> HIDE DEF Place
  <2>3. QED
    BY <1>1, <2>1, <2>2
<1>10. CASE ~Reader!Openable(m, k)
  BY <1>2, <1>4, <1>10 DEF Reader!Readable
<1>11. CASE Reader!Openable(m, k)
  <2>1. \A n : FrameRead(a, k, n) = FrameRead(m, k, n)
    BY <1>9 DEF FrameRead
  <2>2. /\ Reader!Readable(a, k) = [n \in 1 .. Reader!Duration(a, k) |-> FrameRead(a, k, n)]
        /\ Reader!Readable(m, k) = [n \in 1 .. Reader!Duration(m, k) |-> FrameRead(m, k, n)]
    BY <1>4, <1>11, ReadableIs
  <2>3. QED
    BY <1>2, <1>5, <2>1, <2>2
<1>12. QED
  BY <1>10, <1>11

-----------------------------------------------------------------------------
(* The steps, as a reader of the file sees them *)

\* A step after which the file and its history are as they were
Keeping ==
  /\ UNCHANGED <<kind, smpte, faults>>
  /\ Same(mxf, mxf')

\* After Finalize, and once the program has stopped, nothing changes the file.
Resting ==
  /\ state \in {"FINAL", "UNOPENED", "ABORTED"} /\ state' \in {"FINAL", "ABORTED"}
  /\ state' = "FINAL" => state = "FINAL"
  /\ Keeping

Stopping ==
  /\ state \in {"BEGIN", "UNOPENED", "READY", "RUNNING"} /\ state' = "ABORTED"
  /\ AbortedWrite

LEMMA SameItself == \A m : Same(m, m)
  BY DEF Same

LEMMA FileSteps ==
  ASSUME TypeInv, EyesInv, History, [Next]_vars
  PROVE  \/ UNCHANGED vars
         \/ Writing'
         \/ \E f : Beginning(f)
         \/ \E f \in Faults : Ends(f)
         \/ Resting
         \/ Stopping
<1>1. CASE UNCHANGED vars
  BY <1>1
<1>2. CASE Next /\ (Writing' \/ state' \in {"BEGIN", "UNOPENED"})
  BY <1>2, BeginningSteps
<1>3. CASE Next /\ ~Writing' /\ state' \notin {"BEGIN", "UNOPENED"}
  <2>1. state' \notin {"BEGIN", "UNOPENED", "READY", "RUNNING"}
    BY <1>3 DEF Writing
  <2>2. ASSUME NEW f \in Faults, Open(f) PROVE FALSE
    BY <2>1, <2>2 DEF Open
  <2>3. ASSUME NEW len, NEW start, NEW f, NEW lost, WriteFrame(len, start, f, lost) PROVE FALSE
    BY <2>1, <2>3 DEF WriteFrame
  <2>4. ASSUME NEW len, NEW f, NEW lost, WriteText(len, f, lost) PROVE FALSE
    BY <2>1, <2>4 DEF WriteText
  <2>5. ASSUME NEW f, NEW lost, WriteAncillary(f, lost) PROVE FALSE
    BY <2>1, <2>5 DEF WriteAncillary
  <2>6. ~OpenRefused
    BY <2>1 DEF OpenRefused
  <2>7. ASSUME NEW len \in FrameLens \cup {0}, WriteFrameClosed(len) PROVE Resting
    <3> DEFINE queued == mxf.queued + len
    <3>1. /\ mxf' = [mxf EXCEPT !.queued = queued] /\ state' = state
          /\ state \in {"FINAL", "UNOPENED"}
          /\ UNCHANGED <<kind, smpte, faults>>
      BY <2>7 DEF WriteFrameClosed, Call
    <3>2. mxf \in MxfType
      BY DEF TypeInv, TypeOK
    <3> HIDE DEF queued
    <3>3. Same(mxf, mxf')
      BY <3>1, <3>2 DEF MxfType, Same
    <3>4. QED
      BY <2>1, <3>1, <3>3 DEF Resting, Keeping
  <2>8. ASSUME FinalizeRefused PROVE Resting
    <3>1. /\ UNCHANGED <<kind, smpte, faults, mxf, state>>
          /\ state \in {"UNOPENED", "READY", "FINAL"}
      BY <2>8 DEF FinalizeRefused, Call
    <3>2. QED
      BY <2>1, <3>1, SameItself DEF Resting, Keeping
  <2>9. ASSUME FinalizeAsserts PROVE Resting
    <3>1. /\ UNCHANGED <<kind, smpte, faults, mxf>> /\ state' = "ABORTED"
          /\ state \in {"UNOPENED", "READY", "RUNNING", "FINAL"}
      BY <2>9 DEF FinalizeAsserts, Call
    <3>2. ~Writing
      BY <2>9 DEF FinalizeAsserts, Unpaired, EyesInv, EyesPaired
    <3>3. state \in {"FINAL", "UNOPENED"}
      BY <3>1, <3>2 DEF Writing
    <3>4. Same(mxf, mxf')
      BY <3>1, SameItself
    <3>5. QED
      BY <3>1, <3>3, <3>4 DEF Resting, Keeping
  <2>10. ASSUME RefusedCall PROVE Resting
    <3>1. /\ UNCHANGED <<kind, smpte, faults, mxf, state>>
          /\ state \in {"BEGIN", "UNOPENED", "READY", "RUNNING", "FINAL"}
      BY <2>10 DEF RefusedCall, Call
    <3>2. QED
      BY <2>1, <3>1, SameItself DEF Resting, Keeping
  <2>11. ASSUME AbortedWrite PROVE Stopping
    BY <2>11 DEF AbortedWrite, Stopping
  <2>12. ASSUME NEW f \in Faults, Finalize(f) \/ FinalizeStops(f) PROVE Ends(f)
    BY <2>12, EndsEither
  <2>13. QED
    BY <1>3, <2>2, <2>3, <2>4, <2>5, <2>6, <2>7, <2>8, <2>9, <2>10, <2>11, <2>12 DEF Next
<1>4. QED
  BY <1>1, <1>2, <1>3

\* What depends on the packets only, and on the faults too
LEMMA PacketsKept ==
  ASSUME UNCHANGED kind, mxf'.packets = mxf.packets
  PROVE  Frames' = Frames /\ (Regular' <=> Regular) /\ Written' = Written
<1>1. Frames' = Frames /\ (Regular' <=> Regular)
  BY DEF Frames, Regular
<1>2. QED
  BY <1>1 DEF Written

LEMMA HistoryKept ==
  ASSUME UNCHANGED <<kind, faults>>, mxf'.packets = mxf.packets
  PROVE  /\ Frames' = Frames /\ Harms' = Harms /\ Forgiven' = Forgiven
         /\ SoundFrames' = SoundFrames /\ (Regular' <=> Regular)
         /\ Written' = Written
<1>1. Frames' = Frames /\ Forgiven' = Forgiven /\ (Regular' <=> Regular)
  BY DEF Frames, Forgiven, Regular
<1>2. Harms' = Harms
  BY <1>1 DEF Harms
<1>3. SoundFrames' = SoundFrames
  BY <1>1, <1>2 DEF SoundFrames
<1>4. Written' = Written
  BY <1>1 DEF Written
<1>5. QED
  BY <1>1, <1>2, <1>3, <1>4

\* A Finalize that writes the header out and has an index to write
LEMMA Sealing ==
  ASSUME Inv, NEW f \in {"none", "rewriteOut"}, Ends(f), mxf.segs # <<>>
  PROVE  /\ Writing /\ nextPhase = 1 /\ UNCHANGED <<kind, smpte, streams>>
         /\ Seals(mxf, mxf', FinalCount) /\ mxf'.packets = mxf.packets
         /\ ~kind.vbr => FinalCount = Len(mxf.packets)
         /\ f = "none" => faults' = faults
<1>1. PICK r \in {"OK", "FAIL", "ABORT"} : Finishing(f, r)
  BY DEF Ends
<1>2. state = "RUNNING" /\ nextPhase = 1 /\ UNCHANGED <<kind, smpte, streams>>
      /\ Call("Finalize", f, r)
  BY <1>1 DEF Finishing
<1>3. Writing /\ TypeInv /\ Layout /\ Sequenced
  BY <1>2 DEF Writing, Inv
<1>4. Seals(mxf, mxf', FinalCount) /\ mxf'.packets = mxf.packets
  BY <1>1, <1>3, FooterDoes
<1>5. f = "none" => faults' = faults
  BY <1>2 DEF Call
<1>6. ~kind.vbr => FinalCount = Len(mxf.packets)
  <2>1. KindOK(kind) /\ (~kind.vbr => ~kind.counts)
    <3>1. kind \in AllKinds
      BY <1>3 DEF TypeInv, TypeOK
    <3>2. JP2K.vbr /\ JXS.vbr /\ Stereo.vbr /\ MPEG2.vbr /\ ~PCM.counts /\ DCData.vbr /\ TimedText.vbr
      BY DEF JP2K, JXS, Stereo, MPEG2, PCM, DCData, TimedText
    <3>3. QED
      BY <3>1, <3>2, KindFacts DEF AllKinds
  <2>2. ~kind.vbr => ~kind.text /\ kind.eyes # 2
    BY <2>1 DEF KindOK
  <2>3. ~kind.vbr => framesWritten = Len(mxf.packets)
    BY <1>3, <2>1, <2>2 DEF Sequenced, Counted
  <2>4. QED
    BY <2>2, <2>3 DEF FinalCount
<1>7. QED
  BY <1>2, <1>3, <1>4, <1>5, <1>6

\* One that writes the header pack, and the first metadata behind it
LEMMA HalfSealing ==
  ASSUME Inv, Ends("rewriteHalf"), mxf.segs # <<>>
  PROVE  /\ Writing /\ nextPhase = 1 /\ mxf.duration \in Nat
         /\ Seals(mxf, mxf', mxf.duration) /\ mxf'.packets = mxf.packets
<1> DEFINE f == "rewriteHalf"
<1>1. PICK r \in {"OK", "FAIL", "ABORT"} : Finishing(f, r)
  BY DEF Ends
<1>2. state = "RUNNING" /\ nextPhase = 1
  BY <1>1 DEF Finishing
<1>3. Writing /\ TypeInv /\ Layout /\ mxf.duration \in Nat
  BY <1>2 DEF Writing, Inv, TypeInv, TypeOK, MxfType
<1>4. QED
  BY <1>1, <1>2, <1>3, FooterDoes

\* One that does neither, or has no index, leaves nothing for a reader.
LEMMA Failing ==
  ASSUME Inv, NEW f, Ends(f), f \in Failures \/ mxf.segs = <<>>
  PROVE  /\ mxf'.packets = mxf.packets /\ kind' = kind
         /\ Unreadable(mxf', kind)
         /\ (f = "none" => mxf'.disk = <<>>)
<1>1. PICK r \in {"OK", "FAIL", "ABORT"} : Finishing(f, r)
  BY DEF Ends
<1>2. TypeInv /\ Layout /\ kind' = kind
  BY <1>1 DEF Inv, Finishing
<1>3. /\ Fails(mxf') /\ mxf'.packets = mxf.packets
      /\ f = "none" => mxf.segs = <<>>
      /\ (f = "none" /\ mxf.segs = <<>>) => mxf'.disk = <<>>
  BY <1>1, <1>2, FooterDoes DEF Failures
<1>4. QED
  BY <1>2, <1>3, FailsRead

\* How Finalize can end
LEMMA FinalizeSteps ==
  ASSUME NEW f, Ends(f)
  PROVE  \/ f \in {"none", "rewriteOut"}
         \/ f = "rewriteHalf"
         \/ f \in Failures
         \/ f = "ripTorn"
  BY DEF Ends, FinalizeFaults, Rewrites, PackFaults, Torn, Failures

LEMMA NewFault ==
  ASSUME TypeInv, NEW op, NEW f, NEW r, Call(op, f, r), kind' = kind, f # "none"
  PROVE  \E i \in DOMAIN faults' : faults'[i].fault = f
<1> DEFINE n == Len(faults)
<1>1. n \in Nat /\ DOMAIN faults' = 1 .. n + 1 /\ faults'[n + 1].fault = f
  BY HarmsCall
<1> HIDE DEF n
<1>2. n + 1 \in DOMAIN faults'
  BY <1>1
<1>3. QED
  BY <1>1, <1>2

-----------------------------------------------------------------------------
(* All frames or none *)

\* The faults that AllOrNothing is about
Allowed == Forgiven \cup Interruptions

\* What it says of a file that has met them
Whole(a, k, written) == Reader!Readable(a, k) = written \/ Unreadable(a, k)
Shares(a, k, written) ==
  \A n \in DOMAIN Reader!Readable(a, k) \cap DOMAIN written :
    Reader!Readable(a, k)[n] = written[n]

LEMMA AllOrNothingIs ==
  AllOrNothing <=>
    ((Regular /\ \A i \in DOMAIN faults : faults[i].fault \in Allowed) =>
       Whole(mxf, kind, Written) \/ (Uncounted /\ Shares(mxf, kind, Written)))
  BY DEF AllOrNothing, Allowed, Whole, Shares, Unreadable

\* Before Finalize nothing is harmed in a file that meets no other fault.
LEMMA AllowedCall ==
  ASSUME Inv, Writing, NEW op, NEW f, NEW r, Call(op, f, r), kind' = kind,
         \A i \in DOMAIN faults' : faults'[i].fault \in Allowed
  PROVE  Harms = {}
<1>1. \A i \in DOMAIN faults : i \in DOMAIN faults' /\ faults'[i] = faults[i]
  <2>1. TypeInv
    BY DEF Inv
  <2>2. CASE f = "none"
    BY <2>1, <2>2, HarmsCall
  <2>3. CASE f # "none"
    <3> DEFINE n == Len(faults)
    <3>1. /\ n \in Nat /\ DOMAIN faults' = 1 .. n + 1 /\ DOMAIN faults = 1 .. n
          /\ \A i \in DOMAIN faults : faults'[i] = faults[i]
      BY <2>1, <2>3, HarmsCall
    <3> HIDE DEF n
    <3>2. QED
      BY <3>1
  <2>4. QED
    BY <2>2, <2>3
<1>2. \A i \in DOMAIN faults : faults[i].fault \notin FinalizeFaults \cup {"assert"}
  BY DEF Inv, History
<1>3. \A i \in DOMAIN faults : faults[i].fault \in Forgiven
  BY <1>1, <1>2 DEF Allowed, Interruptions
<1>4. QED
  BY <1>3 DEF Harms

LEMMA NextAllOrNothing ==
  ASSUME Inv, Inv', AllOrNothing, [Next]_vars
  PROVE  AllOrNothing'
<1>1. /\ TypeInv /\ EyesInv /\ Layout /\ History /\ Sequenced /\ Indexing
      /\ Layout' /\ KindOK(kind) /\ kind' = kind
  BY KindFacts, KindKept DEF Inv, TypeInv, TypeOK
<1>2. Allowed' = Allowed
  BY <1>1 DEF Allowed, Forgiven, Interruptions
<1>3. SUFFICES ASSUME \A i \in DOMAIN faults' : faults'[i].fault \in Allowed, Regular'
               PROVE  \/ Whole(mxf', kind, Written')
                      \/ Uncounted' /\ Shares(mxf', kind, Written')
  <2>1. AllOrNothing' <=>
          ((Regular' /\ \A i \in DOMAIN faults' : faults'[i].fault \in Allowed') =>
             Whole(mxf', kind', Written') \/ (Uncounted' /\ Shares(mxf', kind', Written')))
    BY DEF AllOrNothing, Allowed, Whole, Shares, Unreadable
  <2>2. QED
    BY <1>1, <1>2, <2>1
<1>4. CASE UNCHANGED vars \/ Resting
  <2>1. UNCHANGED <<kind, faults>> /\ Same(mxf, mxf')
    BY <1>4, SameItself DEF vars, Resting, Keeping
  <2>2. mxf'.packets = mxf.packets
    BY <2>1 DEF Same
  <2>3. (Regular' <=> Regular) /\ Written' = Written /\ (Uncounted' <=> Uncounted)
    BY <2>1, <2>2, HistoryKept DEF Uncounted
  <2>4. Reader!Readable(mxf', kind) = Reader!Readable(mxf, kind)
    BY <2>1, SameRead
  <2>5. /\ Whole(mxf, kind, Written) => Whole(mxf', kind, Written')
        /\ Shares(mxf, kind, Written) => Shares(mxf', kind, Written')
    BY <2>3, <2>4 DEF Whole, Shares, Unreadable
  <2>6. \A i \in DOMAIN faults : faults[i].fault \in Allowed
    BY <1>3, <2>1
  <2>7. Whole(mxf, kind, Written) \/ (Uncounted /\ Shares(mxf, kind, Written))
    BY <1>3, <2>3, <2>6, AllOrNothingIs
  <2>8. QED
    BY <2>3, <2>5, <2>7
<1>5. CASE Writing'
  <2>1. Blank(mxf')
    BY <1>1, <1>5 DEF Layout
  <2>2. QED
    BY <2>1, BlankRead DEF Whole
<1>6. ASSUME NEW f, Beginning(f) PROVE Whole(mxf', kind, Written')
  <2>1. ~Resolves(mxf', 0)
    BY <1>6 DEF Beginning, Resolves
  <2>2. QED
    BY <2>1, FailsRead DEF Fails, Whole
<1>7. ASSUME NEW f \in Faults, Ends(f)
      PROVE  \/ Whole(mxf', kind, Written')
             \/ Uncounted' /\ Shares(mxf', kind, Written')
  <2>1. PICK r \in {"OK", "FAIL", "ABORT"} : Finishing(f, r)
    BY <1>7 DEF Ends
  <2>2. Call("Finalize", f, r) /\ Writing
    BY <2>1 DEF Finishing, Writing
  <2>3. Harms = {}
    BY <1>1, <1>3, <2>2, AllowedCall
  <2>4. CASE f \in {"none", "rewriteOut"} /\ mxf.segs # <<>>
    <3>1. /\ nextPhase = 1 /\ Seals(mxf, mxf', FinalCount) /\ mxf'.packets = mxf.packets
          /\ ~kind.vbr => FinalCount = Len(mxf.packets)
      BY <1>7, <2>4, Sealing
    <3>2. Regular /\ Written' = Written
      BY <1>1, <1>3, <3>1, PacketsKept
    <3>3. Reader!Readable(mxf', kind) = Written
      BY <1>1, <2>2, <2>3, <3>1, <3>2, SealedReads
    <3>4. QED
      BY <3>2, <3>3 DEF Whole
  <2>5. CASE f = "rewriteHalf" /\ mxf.segs # <<>>
    <3>1. /\ nextPhase = 1 /\ Seals(mxf, mxf', mxf.duration) /\ mxf'.packets = mxf.packets
          /\ mxf.duration \in Nat
      BY <1>7, <2>5, HalfSealing
    <3>2. Regular /\ Written' = Written
      BY <1>1, <1>3, <3>1, PacketsKept
    <3>3. CASE kind.vbr
      <4>1. Reader!Readable(mxf', kind) = Written
        BY <1>1, <2>2, <2>3, <3>1, <3>2, <3>3, SealedReads
      <4>2. QED
        BY <3>2, <4>1 DEF Whole
    <3>4. CASE ~kind.vbr
      <4>1. f # "none"
        BY <2>5
      <4>2. \E i \in DOMAIN faults' : faults'[i].fault = "rewriteHalf"
        BY <1>1, <2>2, <2>5, <4>1, NewFault
      <4>3. Uncounted'
        BY <1>1, <3>4, <4>2 DEF Uncounted
      <4>4. DOMAIN Written = 1 .. Frames
        BY WrittenIs
      <4>5. ASSUME NEW n \in DOMAIN Reader!Readable(mxf', kind), n \in 1 .. Frames
            PROVE  Reader!Readable(mxf', kind)[n] = Written[n]
        <5>1. Reader!Readable(mxf', kind)[n] = FrameOf(kind.eyes, mxf.packets, n)
          BY <1>1, <2>2, <2>3, <3>1, <3>2, <3>4, <4>5, SealedShare
        <5>2. QED
          BY <4>5, <5>1, WrittenIs
      <4>6. Shares(mxf', kind, Written')
        BY <3>2, <4>4, <4>5 DEF Shares
      <4>7. QED
        BY <4>3, <4>6
    <3>5. QED
      BY <3>3, <3>4
  <2>6. CASE f \in Failures \/ mxf.segs = <<>>
    <3>1. Unreadable(mxf', kind)
      BY <1>7, <2>6, Failing
    <3>2. QED
      BY <3>1 DEF Whole
  <2>7. CASE f = "ripTorn"
    <3>1. f \notin Allowed /\ f # "none"
      BY <2>7 DEF Allowed, Forgiven, Interruptions
    <3>2. QED
      BY <1>1, <1>3, <2>2, <3>1, NewFault
  <2>8. QED
    BY <1>7, <2>4, <2>5, <2>6, <2>7, FinalizeSteps
<1>8. CASE Stopping
  <2>1. mxf' = mxf /\ state \in {"BEGIN", "UNOPENED", "READY", "RUNNING"}
    BY <1>8 DEF Stopping, AbortedWrite
  <2>2. Unreadable(mxf, kind)
    <3>1. CASE Writing
      BY <1>1, <3>1, BlankRead DEF Layout
    <3>2. CASE ~Writing
      <4>1. mxf.parts = {}
        BY <1>1, <2>1, <3>2 DEF History, Writing
      <4>2. ~Resolves(mxf, 0)
        BY <4>1 DEF Resolves
      <4>3. QED
        BY <4>2, FailsRead DEF Fails
    <3>3. QED
      BY <3>1, <3>2
  <2>3. QED
    BY <2>1, <2>2 DEF Whole
<1>9. QED
  BY <1>1, <1>4, <1>5, <1>6, <1>7, <1>8, FileSteps

\* Whatever stopped Finalize, or the program in it, between the footer, the RIP and the
\* header that names the footer, a reader gets all frames of the file, each at its place,
\* or none; only a PCM file whose header names the footer with the metadata of OpenWrite
\* behind it has another duration, and its frames too are each at its place.
THEOREM AllOrNothingHolds == Spec => []AllOrNothing
<1>1. Init => AllOrNothing
  <2> SUFFICES ASSUME Init PROVE AllOrNothing
    OBVIOUS
  <2>1. ~Resolves(mxf, 0)
    BY DEF Init, Empty, Resolves
  <2>2. Unreadable(mxf, kind)
    BY <2>1, FailsRead DEF Fails
  <2>3. QED
    BY <2>2, AllOrNothingIs DEF Whole
<1>2. Inv /\ Inv' /\ AllOrNothing /\ [Next]_vars => AllOrNothing'
  BY NextAllOrNothing
<1>3. QED
  BY <1>1, <1>2, InvHolds, PTL DEF Spec

-----------------------------------------------------------------------------
(* The frames before the first harm *)

\* Only Finalize makes a file finalized.
LEMMA FinalizedStep ==
  ASSUME Inv, [Next]_vars, Finalized'
  PROVE  UNCHANGED vars \/ \E f \in Faults : Finalize(f) /\ last'.fault = f
<1>1. last'.op = "Finalize" /\ last'.result = "OK"
  BY DEF Finalized
<1>2. ASSUME NEW f \in Faults, Finalize(f) \/ FinalizeStops(f)
      PROVE  Finalize(f) /\ last'.fault = f
  BY <1>1, <1>2 DEF Finalize, FinalizeStops, Finishing, Call
<1>3. ASSUME NEW f \in Faults, Open(f) PROVE FALSE
  BY <1>1, <1>3 DEF Open, Call
<1>4. ASSUME NEW len, NEW start, NEW f, NEW lost, WriteFrame(len, start, f, lost) PROVE FALSE
  BY <1>1, <1>4 DEF WriteFrame, Call
<1>5. ASSUME NEW len, WriteFrameClosed(len) PROVE FALSE
  BY <1>1, <1>5 DEF WriteFrameClosed, Call
<1>6. ASSUME NEW len, NEW f, NEW lost, WriteText(len, f, lost) PROVE FALSE
  BY <1>1, <1>6 DEF WriteText, Call
<1>7. ASSUME NEW f, NEW lost, WriteAncillary(f, lost) PROVE FALSE
  BY <1>1, <1>7 DEF WriteAncillary, Call
<1>8. ~OpenRefused /\ ~FinalizeRefused /\ ~FinalizeAsserts /\ ~AbortedWrite /\ ~RefusedCall
  BY <1>1 DEF OpenRefused, FinalizeRefused, FinalizeAsserts, AbortedWrite, RefusedCall, Call
<1>9. QED
  BY <1>2, <1>3, <1>4, <1>5, <1>6, <1>7, <1>8 DEF Next

\* One that met no fault has sealed the file.
LEMMA FinalizedSeals ==
  ASSUME Inv, Finalize("none"), Finalized'
  PROVE  mxf.segs # <<>>
<1>1. mxf.segs = <<>> => last'.result = "FAIL"
  <2> DEFINE r == IF Footer(mxf, "none").ok THEN "OK" ELSE "FAIL"
  <2>1. TypeInv /\ Layout /\ Finishing("none", r)
    BY DEF Inv, Finalize
  <2>2. last'.result = r
    BY <2>1 DEF Finishing, Call
  <2>3. Footer(mxf, "none").ok <=> mxf.segs # <<>>
    BY <2>1, FooterDoes
  <2>4. QED
    BY <2>2, <2>3
<1>2. QED
  BY <1>1 DEF Finalized

LEMMA SoundFramesWritten ==
  ASSUME TypeInv, Sequenced, Writing
  PROVE  SoundFrames <= Frames
<1>1. /\ SoundFrames \in Nat /\ Sound \in Nat /\ Frames \in Nat
      /\ Len(mxf.packets) \in Nat /\ kind.eyes \in {1, 2}
  BY SoundType
<1>2. Len(mxf.packets) < kind.eyes * Frames + kind.eyes /\ Sound <= Len(mxf.packets)
  BY FramesPackets DEF Sequenced, Numbered
<1>3. CASE Harms = {}
  BY <1>1, <1>3 DEF SoundFrames
<1>4. CASE Harms # {}
  <2>1. Sound = kind.eyes * SoundFrames
    BY <1>4 DEF Sound
  <2>2. CASE kind.eyes = 1
    BY <1>1, <1>2, <2>1, <2>2
  <2>3. CASE kind.eyes = 2
    BY <1>1, <1>2, <2>1, <2>3
  <2>4. QED
    BY <1>1, <2>2, <2>3
<1>5. QED
  BY <1>3, <1>4

LEMMA NextEarlierFrames ==
  ASSUME Inv, EarlierFramesSurvive, [Next]_vars
  PROVE  EarlierFramesSurvive'
<1>1. kind' = kind /\ TypeInv /\ Layout /\ Sequenced /\ Indexing
  BY KindKept DEF Inv
<1>2. SUFFICES ASSUME Finalized', last'.fault = "none", Regular',
                      NEW n \in 1 .. SoundFrames'
               PROVE  Reader!Readable(mxf', kind)[n] = Written'[n]
  BY <1>1 DEF EarlierFramesSurvive
<1>3. CASE UNCHANGED vars
  <2>1. UNCHANGED <<kind, faults, mxf, last>>
    BY <1>3 DEF vars
  <2>2. SoundFrames' = SoundFrames /\ (Regular' <=> Regular) /\ Written' = Written
    BY <2>1, HistoryKept
  <2>3. Finalized
    BY <1>2, <2>1 DEF Finalized
  <2>4. Reader!Readable(mxf, kind)[n] = Written[n]
    BY <1>2, <2>1, <2>2, <2>3 DEF EarlierFramesSurvive
  <2>5. QED
    BY <2>1, <2>2, <2>4
<1>4. ASSUME Finalize("none") PROVE Reader!Readable(mxf', kind)[n] = Written'[n]
  <2>1. mxf.segs # <<>>
    BY <1>2, <1>4, FinalizedSeals
  <2>2. /\ Writing /\ UNCHANGED <<kind, faults>>
        /\ Seals(mxf, mxf', FinalCount) /\ mxf'.packets = mxf.packets
        /\ ~kind.vbr => FinalCount = Len(mxf.packets)
    BY <1>4, <2>1, EndsEither, Sealing
  <2>3. SoundFrames' = SoundFrames /\ (Regular' <=> Regular) /\ Written' = Written
    BY <2>2, HistoryKept
  <2>4. n \in 1 .. SoundFrames /\ Regular
    BY <1>2, <2>3
  <2>5. Reader!Readable(mxf', kind)[n] = FrameOf(kind.eyes, mxf.packets, n)
    BY <1>1, <2>2, <2>4, SealedFrames
  <2>6. n \in 1 .. Frames
    <3>1. SoundFrames <= Frames /\ SoundFrames \in Nat /\ Frames \in Nat
      BY <1>1, <2>2, SoundType, SoundFramesWritten
    <3>2. QED
      BY <2>4, <3>1
  <2>7. Written[n] = FrameOf(kind.eyes, mxf.packets, n)
    BY <2>6, WrittenIs
  <2>8. QED
    BY <2>3, <2>5, <2>7
<1>5. QED
  BY <1>2, <1>3, <1>4, FinalizedStep

\* After a Finalize that met no fault, every frame that was complete before the first
\* harmful fault is read from its place, with its sequence number.
THEOREM EarlierFramesSurviveHolds == Spec => []EarlierFramesSurvive
<1>1. Init => EarlierFramesSurvive
  BY DEF Init, EarlierFramesSurvive, Finalized
<1>2. Inv /\ EarlierFramesSurvive /\ [Next]_vars => EarlierFramesSurvive'
  BY NextEarlierFrames
<1>3. QED
  BY <1>1, <1>2, InvHolds, PTL DEF Spec

-----------------------------------------------------------------------------
(* The resources *)

\* What the reader finds of stream number k of a file whose RIP is that of s resources
LEMMA StreamLocated ==
  ASSUME NEW a, NEW s \in Nat, NEW k \in 1 .. s,
         DOMAIN a.disk = 1 .. 3 + s,
         a.disk[1].sid = 0, a.disk[2].sid = 1,
         \A i \in 1 .. s : a.disk[2 + i].sid = FirstStream + i - 1,
         a.disk[3 + s].sid = 0
  PROVE  Reader!LocateStream(a, FirstStream + k - 1) =
           [start |-> a.disk[2 + k].at, end |-> a.disk[3 + k].at, sequence |-> k + 1]
<1> DEFINE sid      == FirstStream + k - 1
           First(H) == CHOOSE i \in H : \A j \in H : i <= j
           hits     == {i \in DOMAIN a.disk : a.disk[i].sid = sid}
           After(b) == {i \in DOMAIN a.disk : i > b /\ a.disk[i].sid # sid}
           Before(e) == {i \in 1 .. e - 1 : a.disk[i].sid > 0}
<1>1. k \in Nat /\ k >= 1 /\ k <= s /\ sid = 9 + k
  BY DEF FirstStream
<1>2. \A i \in 1 .. 3 + s :
        \/ i = 1 /\ a.disk[i].sid = 0
        \/ i = 2 /\ a.disk[i].sid = 1
        \/ i = 3 + s /\ a.disk[i].sid = 0
        \/ i \in 3 .. 2 + s /\ a.disk[i].sid = 7 + i
  <2>1. ASSUME NEW i \in 3 .. 2 + s PROVE a.disk[i].sid = 7 + i
    <3> DEFINE j == i - 2
    <3>1. j \in 1 .. s /\ 2 + j = i /\ FirstStream + j - 1 = 7 + i
      BY DEF FirstStream
    <3> HIDE DEF j
    <3>2. QED
      BY <3>1
  <2>2. \A i \in 1 .. 3 + s : i = 1 \/ i = 2 \/ i = 3 + s \/ i \in 3 .. 2 + s
    OBVIOUS
  <2>3. QED
    BY <2>1, <2>2
<1> HIDE DEF sid
<1>3. hits = {2 + k}
  <2>1. 2 + k \in 3 .. 2 + s /\ 2 + k \in 1 .. 3 + s
    BY <1>1
  <2>2. a.disk[2 + k].sid = sid
    BY <1>1, <1>2, <2>1
  <2>3. \A i \in 1 .. 3 + s : a.disk[i].sid = sid => i = 2 + k
    BY <1>1, <1>2
  <2>4. QED
    BY <2>1, <2>2, <2>3
<1>4. First(hits) = 2 + k
  <2>1. 2 + k \in Nat
    BY <1>1
  <2> HIDE DEF hits
  <2>2. First({2 + k}) = 2 + k
    BY <2>1
  <2>3. QED
    BY <1>3, <2>2
<1>5. After(2 + k) = 3 + k .. 3 + s
  <2>1. \A i \in 1 .. 3 + s : i > 2 + k => a.disk[i].sid # sid
    BY <1>1, <1>2
  <2>2. \A i : i \in 1 .. 3 + s /\ i > 2 + k <=> i \in 3 + k .. 3 + s
    BY <1>1
  <2>3. QED
    BY <2>1, <2>2
<1>6. First(3 + k .. 3 + s) = 3 + k
  <2> DEFINE H     == 3 + k .. 3 + s
             found == First(H)
  <2>1. 3 + k \in H /\ \A j \in H : 3 + k <= j /\ j \in Nat
    BY <1>1
  <2> HIDE DEF H
  <2>2. found \in H /\ \A j \in H : found <= j
    BY <2>1
  <2> HIDE DEF found
  <2>3. found = 3 + k
    BY <1>1, <2>1, <2>2
  <2>4. QED
    BY <2>3 DEF found, H
<1>7. Reader!Cardinality(Before(3 + k)) = k + 1
  <2>1. 3 + k - 1 = 2 + k
    BY <1>1
  <2>2. \A i \in 1 .. 2 + k : a.disk[i].sid > 0 <=> i # 1
    <3>1. \A i \in 1 .. 2 + k : i \in 1 .. 3 + s /\ i # 3 + s
      BY <1>1
    <3>2. QED
      BY <1>2, <3>1
  <2>3. Before(3 + k) = {i \in 1 .. 2 + k : i # 1}
    BY <2>1, <2>2
  <2>4. {i \in 1 .. 2 + k : i # 1} = 2 .. 2 + k
    BY <1>1
  <2>5. Cardinality(2 .. 2 + k) = k + 1
    <3>1. 2 \in Int /\ 2 + k \in Int /\ ~(2 > 2 + k) /\ 2 + k - 2 + 1 = k + 1
      BY <1>1
    <3>2. Cardinality(2 .. 2 + k) = IF 2 > 2 + k THEN 0 ELSE 2 + k - 2 + 1
      BY <3>1, FS_Interval
    <3>3. QED
      BY <3>1, <3>2
  <2>6. QED
    BY <2>3, <2>4, <2>5, ReaderCounts
<1>8. hits # {} /\ After(2 + k) # {}
  <2>1. 3 + s \in 3 + k .. 3 + s
    BY <1>1
  <2> HIDE DEF hits, After
  <2>2. QED
    BY <1>3, <1>5, <2>1
<1>9. Reader!LocateStream(a, sid) =
        IF hits = {} \/ After(First(hits)) = {} THEN Reader!NotFound
        ELSE [start    |-> a.disk[First(hits)].at,
              end      |-> a.disk[First(After(First(hits)))].at,
              sequence |-> Reader!Cardinality(Before(First(After(First(hits)))))]
  BY DEF Reader!LocateStream
<1> HIDE DEF First, hits, After, Before
<1>10. Reader!LocateStream(a, sid) =
         [start    |-> a.disk[2 + k].at, end |-> a.disk[3 + k].at, sequence |-> k + 1]
  BY <1>4, <1>5, <1>6, <1>7, <1>8, <1>9
<1>11. QED
  BY <1>10 DEF sid

\* A finalized file without a fault has all its resources.
LEMMA SealedResources ==
  ASSUME TypeInv, Layout, History, NoStreamAhead, Shelved, Writing, faults = <<>>,
         NEW a, NEW count, Seals(mxf, a, count), NEW q \in StreamPacks(a)
  PROVE  LET s == Reader!LocateStream(a, q.sid)
         IN  /\ s.start = q.at /\ s.end >= q.at + PackLen + StreamLen
             /\ s.sequence = q.hmac
<1> DEFINE s == streams
<1>1. mxf \in MxfType /\ s \in Nat /\ (kind.text => smpte)
  BY BoundAssumption DEF TypeInv, TypeOK, History
<1>2. PICK p \in StreamPacks(mxf) : q.at = p.at /\ q.sid = p.sid /\ q.hmac = p.hmac
  BY DEF Seals
<1>3. PICK k \in 1 .. s :
        /\ p.at = mxf.rip[2 + k].at /\ p.sid = mxf.rip[2 + k].sid
        /\ p.hmac = k + 1
        /\ p.at + PackLen + StreamLen <= IF k < s THEN mxf.rip[3 + k].at ELSE mxf.pos
  BY DEF Shelved, OnShelf
<1>4. smpte
  <2>1. s # 0
    BY <1>1, <1>3
  <2>2. QED
    BY <1>1, <2>1 DEF NoStreamAhead
<1>5. /\ Len(mxf.rip) = 2 + s
      /\ mxf.rip[1].sid = 0 /\ mxf.rip[2].sid = 1
      /\ \A i \in 1 .. s : mxf.rip[2 + i].sid = FirstStream + i - 1
  BY <1>4 DEF Layout, Listing
<1>6. /\ DOMAIN a.disk = 1 .. Len(mxf.rip) + 1
      /\ \A i \in 1 .. Len(mxf.rip) : a.disk[i] = mxf.rip[i]
      /\ a.disk[Len(mxf.rip) + 1].sid = 0 /\ a.disk[Len(mxf.rip) + 1].at = mxf.pos
  BY <1>1, SealedRip
<1> HIDE DEF s
<1>7. Len(mxf.rip) + 1 = 3 + s
  BY <1>1, <1>5
<1>8. \A i \in 1 .. s : a.disk[2 + i] = mxf.rip[2 + i]
  <2>1. \A i \in 1 .. s : 2 + i \in 1 .. Len(mxf.rip)
    BY <1>1, <1>5
  <2>2. QED
    BY <1>6, <2>1
<1>9. a.disk[1] = mxf.rip[1] /\ a.disk[2] = mxf.rip[2]
  <2>1. 1 \in 1 .. Len(mxf.rip) /\ 2 \in 1 .. Len(mxf.rip)
    BY <1>1, <1>5
  <2>2. QED
    BY <1>6, <2>1
<1>10. Reader!LocateStream(a, FirstStream + k - 1) =
         [start |-> a.disk[2 + k].at, end |-> a.disk[3 + k].at, sequence |-> k + 1]
  <2>1. DOMAIN a.disk = 1 .. 3 + s /\ a.disk[3 + s].sid = 0
    BY <1>6, <1>7
  <2>2. /\ a.disk[1].sid = 0 /\ a.disk[2].sid = 1
        /\ \A i \in 1 .. s : a.disk[2 + i].sid = FirstStream + i - 1
    BY <1>5, <1>8, <1>9
  <2>3. QED
    BY <1>1, <2>1, <2>2, StreamLocated
<1>11. q.sid = FirstStream + k - 1 /\ q.at = a.disk[2 + k].at /\ q.hmac = k + 1
  BY <1>2, <1>3, <1>5, <1>8
<1>12. a.disk[3 + k].at = IF k < s THEN mxf.rip[3 + k].at ELSE mxf.pos
  <2>1. CASE k < s
    <3>1. 3 + k \in 1 .. Len(mxf.rip)
      BY <1>1, <1>5, <2>1
    <3>2. QED
      BY <1>6, <2>1, <3>1
  <2>2. CASE ~(k < s)
    <3>1. 3 + k = Len(mxf.rip) + 1
      BY <1>1, <1>5, <2>2
    <3>2. QED
      BY <1>6, <2>2, <3>1
  <2>3. QED
    BY <2>1, <2>2
<1>13. a.disk[3 + k].at >= q.at + PackLen + StreamLen
  <2> DEFINE to   == a.disk[3 + k].at
             from == q.at + PackLen + StreamLen
  <2>1. from <= to
    BY <1>2, <1>3, <1>12
  <2> HIDE DEF to, from
  <2>2. to >= from
    BY <2>1
  <2>3. QED
    BY <2>2 DEF to, from
<1>14. QED
  BY <1>10, <1>11, <1>13

LEMMA NextResources ==
  ASSUME Inv, ResourcesFound, [Next]_vars
  PROVE  ResourcesFound'
<1>1. /\ kind' = kind /\ TypeInv /\ Layout /\ History /\ NoStreamAhead /\ Shelved
  BY KindKept DEF Inv
<1>2. SUFFICES ASSUME Finalized', faults' = <<>>, NEW q \in StreamPacks(mxf')
               PROVE  LET s == Reader!LocateStream(mxf', q.sid)
                      IN  /\ s.start = q.at /\ s.end >= q.at + PackLen + StreamLen
                          /\ s.sequence = q.hmac
  BY DEF ResourcesFound, StreamPacks
<1>3. CASE UNCHANGED vars
  <2>1. UNCHANGED <<faults, mxf, last>>
    BY <1>3 DEF vars
  <2>2. Finalized /\ faults = <<>> /\ q \in {p \in mxf.parts : p.type = "stream"}
    BY <1>2, <2>1 DEF Finalized, StreamPacks
  <2>3. QED
    BY <2>1, <2>2 DEF ResourcesFound
<1>4. ASSUME NEW f \in Faults, Finalize(f)
      PROVE  LET s == Reader!LocateStream(mxf', q.sid)
             IN  /\ s.start = q.at /\ s.end >= q.at + PackLen + StreamLen
                 /\ s.sequence = q.hmac
  <2>1. PICK r : Call("Finalize", f, r)
    BY <1>4 DEF Finalize, Finishing
  <2>2. f = "none" /\ faults = <<>>
    BY <1>1, <1>2, <2>1, NoFaultCall
  <2>3. mxf.segs # <<>>
    BY <1>2, <1>4, <2>2, FinalizedSeals
  <2>4. Writing /\ Seals(mxf, mxf', FinalCount)
    BY <1>4, <2>2, <2>3, EndsEither, Sealing
  <2>5. QED
    BY <1>1, <1>2, <2>2, <2>4, SealedResources
<1>5. QED
  BY <1>2, <1>3, <1>4, FinalizedStep

\* Every ancillary resource of a file that met no fault is found by its stream ID, with
\* a span that holds it and the sequence number it was hashed with.
THEOREM ResourcesFoundHolds == Spec => []ResourcesFound
<1>1. Init => ResourcesFound
  <2> SUFFICES ASSUME Init PROVE ResourcesFound
    OBVIOUS
  <2>1. mxf.parts = {}
    BY DEF Init, Empty
  <2>2. QED
    BY <2>1 DEF ResourcesFound
<1>2. Inv /\ ResourcesFound /\ [Next]_vars => ResourcesFound'
  BY NextResources
<1>3. QED
  BY <1>1, <1>2, InvHolds, PTL DEF Spec

-----------------------------------------------------------------------------
(* The key frames *)

\* The index of a sealed file leads from each frame to its group of pictures.
LEMMA SealedKeys ==
  ASSUME TypeInv, Indexing, Grouped, Writing, kind.gop,
         NEW a, NEW count, Seals(mxf, a, count),
         NEW n \in 1 .. Reader!Duration(a, kind), Starts(mxf.packets, n) # {},
         2 * (n - Start(mxf.packets, n)) <= KeyModulus
  PROVE  n + Reader!EntryOf(a, n - 1).key = Start(mxf.packets, n)
<1> DEFINE segs  == mxf.segs
           start == Start(mxf.packets, n)
<1>1. kind.vbr /\ mxf \in MxfType /\ segs \in Seq(Segment)
  BY GopKind, FileTypes DEF TypeInv, TypeOK
<1>2. PICK c \in Nat : Enumerated(segs, c)
  BY <1>1 DEF Indexing
<1>3. Reader!Duration(a, kind) = c
  BY <1>1, <1>2, SealedDuration
<1>4. n \in 1 .. c /\ n \in Nat
  BY <1>3
<1>5. Reader!Segments(a) = segs
  BY SealedIndex
<1>6. Finds(a, segs, n)
  BY <1>1, <1>2, <1>4, <1>5, EntryFound
<1>7. PICK i \in DOMAIN segs : \E j \in DOMAIN segs[i].entries :
        /\ segs[i].start + j = n
        /\ Reader!EntryOf(a, n - 1) = segs[i].entries[j]
  BY <1>6 DEF Finds
<1>8. PICK j \in DOMAIN segs[i].entries :
        /\ segs[i].start + j = n
        /\ Reader!EntryOf(a, n - 1) = segs[i].entries[j]
  BY <1>7
<1>9. segs[i].entries[j].key = Int8(start - n)
  BY <1>8 DEF Grouped, Distances
<1>10. start \in 1 .. n
  BY <1>4, StartType
<1> HIDE DEF start
<1>11. Int8(start - n) = start - n
  <2> DEFINE d == n - start
  <2>1. d \in Nat /\ 2 * d <= KeyModulus /\ start - n = 0 - d
    BY <1>4, <1>10 DEF start
  <2> HIDE DEF d
  <2>2. QED
    BY <2>1, Int8Back
<1>12. n + (start - n) = start
  BY <1>4, <1>10
<1>13. QED
  BY <1>8, <1>9, <1>11, <1>12 DEF start

LEMMA NextKeyOffsets ==
  ASSUME Inv, KeyOffsetsLead, [Next]_vars
  PROVE  KeyOffsetsLead'
<1>1. /\ kind' = kind /\ TypeInv /\ Indexing /\ Grouped
  BY KindKept DEF Inv
<1>2. \A n : /\ GOPStarts(n)' = Starts(mxf'.packets, n)
             /\ GOPStart(n)' = Start(mxf'.packets, n)
  BY DEF GOPStarts, GOPStart, Starts, Start
<1>3. SUFFICES ASSUME Finalized', last'.fault = "none", kind.gop,
                      NEW n \in 1 .. Reader!Duration(mxf', kind),
                      Starts(mxf'.packets, n) # {},
                      2 * (n - Start(mxf'.packets, n)) <= KeyModulus
               PROVE  n + Reader!EntryOf(mxf', n - 1).key = Start(mxf'.packets, n)
  BY <1>1, <1>2 DEF KeyOffsetsLead
<1>4. CASE UNCHANGED vars
  <2>1. UNCHANGED <<kind, mxf, last>>
    BY <1>4 DEF vars
  <2>2. Finalized /\ last.fault = "none"
    BY <1>3, <2>1 DEF Finalized
  <2>3. GOPStarts(n) = Starts(mxf.packets, n) /\ GOPStart(n) = Start(mxf.packets, n)
    BY DEF GOPStarts, GOPStart, Starts, Start
  <2>4. QED
    BY <1>3, <2>1, <2>2, <2>3 DEF KeyOffsetsLead
<1>5. ASSUME Finalize("none")
      PROVE  n + Reader!EntryOf(mxf', n - 1).key = Start(mxf'.packets, n)
  <2>1. mxf.segs # <<>>
    BY <1>3, <1>5, FinalizedSeals
  <2>2. Writing /\ Seals(mxf, mxf', FinalCount) /\ mxf'.packets = mxf.packets
    BY <1>5, <2>1, EndsEither, Sealing
  <2>3. QED
    BY <1>1, <1>3, <2>2, SealedKeys
<1>6. QED
  BY <1>3, <1>4, <1>5, FinalizedStep

\* The KeyFrameOffset in the index of a finalized file leads from every frame to the
\* start of its group of pictures, as far as 8 bits reach.
THEOREM KeyOffsetsLeadHolds == Spec => []KeyOffsetsLead
<1>1. Init => KeyOffsetsLead
  BY DEF Init, KeyOffsetsLead, Finalized
<1>2. Inv /\ KeyOffsetsLead /\ [Next]_vars => KeyOffsetsLead'
  BY NextKeyOffsets
<1>3. QED
  BY <1>1, <1>2, InvHolds, PTL DEF Spec

-----------------------------------------------------------------------------
(* The refinement of the abstract track file *)

Place == [at : Nat, hmac : Nat]

LEMMA NothingWritten ==
  ASSUME TypeInv, mxf.packets = <<>>
  PROVE  Written = <<>>
<1>1. Frames = 0
  <2>1. Len(<<>>) = 0
    OBVIOUS
  <2>2. kind.eyes * Frames <= 0 /\ Frames \in Nat /\ kind.eyes \in {1, 2}
    BY <2>1, FramesPackets
  <2>3. QED
    BY <2>2
<1>2. 1 .. 0 = {}
  OBVIOUS
<1>3. Written = [n \in {} |-> FrameOf(kind.eyes, mxf.packets, n)]
  BY <1>1, <1>2, WrittenIs
<1>4. QED
  BY <1>3

\* The places of the packets of a frame that is written in full
LEMMA FrameType ==
  ASSUME NEW packets \in Seq(Packet), NEW eyes \in {1, 2}, NEW n \in Nat, n >= 1,
         eyes * n <= Len(packets)
  PROVE  /\ FrameOf(eyes, packets, n) \in Seq(Place)
         /\ \A p \in Packet : FrameOf(eyes, Append(packets, p), n) = FrameOf(eyes, packets, n)
<1> DEFINE At(eye) == eyes * (n - 1) + eye
           P(eye)  == [at |-> packets[At(eye)].at, hmac |-> packets[At(eye)].hmac]
<1>1. \A eye \in 1 .. eyes : At(eye) \in 1 .. Len(packets)
  <2>1. CASE eyes = 1
    BY <2>1
  <2>2. CASE eyes = 2
    BY <2>2
  <2>3. QED
    BY <2>1, <2>2
<1> HIDE DEF At
<1>2. ASSUME NEW eye \in 1 .. eyes PROVE P(eye) \in Place
  <2>1. packets[At(eye)] \in Packet
    BY <1>1
  <2>2. QED
    BY <2>1 DEF Packet, Place
<1>3. FrameOf(eyes, packets, n) = [eye \in 1 .. eyes |-> P(eye)]
  BY DEF FrameOf, At
<1> HIDE DEF P
<1>4. FrameOf(eyes, packets, n) \in Seq(Place)
  <2>1. eyes \in Nat
    OBVIOUS
  <2>2. QED
    BY <1>2, <1>3, <2>1
<1>5. ASSUME NEW p \in Packet
      PROVE  FrameOf(eyes, Append(packets, p), n) = FrameOf(eyes, packets, n)
  <2> DEFINE new == Append(packets, p)
  <2>1. \A i \in 1 .. Len(packets) : new[i] = packets[i]
    OBVIOUS
  <2> HIDE DEF new
  <2>2. \A eye \in 1 .. eyes : new[At(eye)] = packets[At(eye)]
    BY <1>1, <2>1
  <2>3. FrameOf(eyes, new, n) = [eye \in 1 .. eyes |-> P(eye)]
    BY <2>2 DEF FrameOf, At, P
  <2>4. QED
    BY <1>3, <2>3 DEF new
<1>6. QED
  BY <1>4, <1>5

\* A packet more completes a frame, or is the left eye of one.
LEMMA WrittenMore ==
  ASSUME TypeInv, TypeInv', kind' = kind, NEW p \in Packet,
         mxf'.packets = Append(mxf.packets, p)
  PROVE  \/ Written' = Written
         \/ /\ Len(Written') = Len(Written) + 1
            /\ \A n \in DOMAIN Written : Written'[n] = Written[n]
            /\ Written'[Len(Written')] \in Seq(Place)
<1> DEFINE old == mxf.packets
           new == mxf'.packets
           k   == kind.eyes
           F   == Frames
           G   == Frames'
<1>1. /\ F \in Nat /\ k \in {1, 2} /\ k * F <= Len(old) /\ Len(old) < k * F + k
      /\ old \in Seq(Packet) /\ Len(old) \in Nat
  BY FramesPackets, FileTypes DEF TypeInv, TypeOK
<1>2. /\ new \in Seq(Packet) /\ Len(new) = Len(old) + 1
  BY <1>1
<1>3. G \in Nat /\ k * G <= Len(new) /\ Len(new) < k * G + k
  <2> DEFINE l == Len(new)
  <2>1. G = l \div k /\ l \in Nat
    BY <1>1, <1>2 DEF Frames
  <2> HIDE DEF l, G, k
  <2>2. CASE k = 1
    <3>1. l \div 1 = l /\ 1 * l = l
      BY <2>1
    <3>2. G = l
      BY <2>1, <2>2, <3>1
    <3>3. G \in Nat /\ 1 * G <= l /\ l < 1 * G + 1
      BY <2>1, <3>1, <3>2
    <3>4. QED
      BY <2>2, <3>3 DEF l
  <2>3. CASE k = 2
    <3>1. l \div 2 \in Nat /\ 2 * (l \div 2) <= l /\ l < 2 * (l \div 2) + 2
      BY <2>1
    <3>2. QED
      BY <2>1, <2>3, <3>1 DEF l
  <2>4. QED
    BY <1>1, <2>2, <2>3
<1>4. Written = [n \in 1 .. F |-> FrameOf(k, old, n)]
  BY WrittenIs
<1>5. Written' = [n \in 1 .. G |-> FrameOf(k, new, n)]
  BY DEF Written, FrameOf
<1> HIDE DEF old, new, k, F, G
<1>6. ASSUME NEW n \in 1 .. F PROVE FrameOf(k, new, n) = FrameOf(k, old, n)
  <2>1. n \in Nat /\ n >= 1 /\ k * n <= Len(old)
    <3>1. CASE k = 1
      BY <1>1, <3>1
    <3>2. CASE k = 2
      BY <1>1, <3>2
    <3>3. QED
      BY <1>1, <3>1, <3>2
  <2>2. QED
    BY <1>1, <2>1, FrameType DEF old, new
<1>7. G = F \/ G = F + 1
  <2>1. CASE k = 1
    BY <1>1, <1>2, <1>3, <2>1
  <2>2. CASE k = 2
    BY <1>1, <1>2, <1>3, <2>2
  <2>3. QED
    BY <1>1, <2>1, <2>2
<1>8. CASE G = F
  BY <1>4, <1>5, <1>6, <1>8
<1>9. CASE G = F + 1
  <2>1. Len(Written) = F /\ DOMAIN Written = 1 .. F
    BY <1>1, <1>4
  <2>2. Len(Written') = F + 1
    BY <1>1, <1>5, <1>9
  <2>3. \A n \in 1 .. F : n \in 1 .. G
    BY <1>1, <1>9
  <2>4. \A n \in 1 .. F : Written'[n] = Written[n]
    BY <1>4, <1>5, <1>6, <2>3
  <2>5. FrameOf(k, new, G) \in Seq(Place)
    <3>1. G \in Nat /\ G >= 1
      BY <1>1, <1>9
    <3>2. QED
      BY <1>1, <1>2, <1>3, <3>1, FrameType
  <2>6. G \in 1 .. G
    BY <1>1, <1>9
  <2>7. Written'[F + 1] \in Seq(Place)
    BY <1>5, <1>9, <2>5, <2>6
  <2>8. QED
    BY <2>1, <2>2, <2>4, <2>7
<1>10. QED
  BY <1>7, <1>8, <1>9

\* No step takes a harm back.
LEMMA HarmStays ==
  ASSUME TypeInv, [Next]_vars, Harms' = {}
  PROVE  Harms = {}
<1>1. kind' = kind
  BY KindKept
<1>2. CASE UNCHANGED vars
  BY <1>2 DEF vars, Harms, Forgiven
<1>3. CASE \E op, f, r : Call(op, f, r)
  <2>1. PICK op, f, r : Call(op, f, r)
    BY <1>3
  <2>2. Harms # {} => Harms' # {}
    BY <1>1, <2>1, HarmsCall
  <2>3. QED
    BY <2>2
<1>4. ASSUME Next PROVE \E op, f, r : Call(op, f, r)
  <2>1. ASSUME NEW f \in Faults, Open(f) PROVE \E op, f2, r : Call(op, f2, r)
    BY <2>1 DEF Open
  <2>2. ASSUME NEW len, NEW start, NEW f, NEW lost, WriteFrame(len, start, f, lost)
        PROVE  \E op, f2, r : Call(op, f2, r)
    BY <2>2 DEF WriteFrame
  <2>3. ASSUME NEW len, WriteFrameClosed(len) PROVE \E op, f2, r : Call(op, f2, r)
    BY <2>3 DEF WriteFrameClosed
  <2>4. ASSUME NEW len, NEW f, NEW lost, WriteText(len, f, lost)
        PROVE  \E op, f2, r : Call(op, f2, r)
    BY <2>4 DEF WriteText
  <2>5. ASSUME NEW f, NEW lost, WriteAncillary(f, lost) PROVE \E op, f2, r : Call(op, f2, r)
    BY <2>5 DEF WriteAncillary
  <2>6. ASSUME NEW f, Finalize(f) \/ FinalizeStops(f) PROVE \E op, f2, r : Call(op, f2, r)
    BY <2>6 DEF Finalize, FinalizeStops, Finishing
  <2>7. CASE OpenRefused \/ FinalizeRefused
    BY <2>7 DEF OpenRefused, FinalizeRefused
  <2>8. CASE FinalizeAsserts \/ AbortedWrite
    BY <2>8 DEF FinalizeAsserts, AbortedWrite
  <2>9. CASE RefusedCall
    BY <2>9 DEF RefusedCall
  <2>10. QED
    BY <1>4, <2>1, <2>2, <2>3, <2>4, <2>5, <2>6, <2>7, <2>8, <2>9 DEF Next
<1>5. QED
  BY <1>2, <1>3, <1>4

LEMMA RegularFewer ==
  ASSUME TypeInv, kind' = kind, Regular',
         \/ mxf'.packets = mxf.packets
         \/ \E p \in Packet : mxf'.packets = Append(mxf.packets, p)
  PROVE  Regular
<1>1. CASE mxf'.packets = mxf.packets
  BY <1>1 DEF Regular
<1>2. ASSUME NEW p \in Packet, mxf'.packets = Append(mxf.packets, p), ~kind.vbr
      PROVE  \A i \in 1 .. Len(mxf.packets) - 1 : mxf.packets[i].len = UnitLen
  <2> DEFINE old == mxf.packets
             new == Append(old, p)
  <2>1. old \in Seq(Packet)
    BY FileTypes DEF TypeInv, TypeOK
  <2>2. \A i \in 1 .. Len(new) - 1 : new[i].len = UnitLen
    BY <1>2 DEF Regular
  <2> HIDE DEF old
  <2>3. /\ Len(old) \in Nat /\ Len(new) = Len(old) + 1
        /\ \A i \in 1 .. Len(old) : new[i] = old[i]
    BY <2>1
  <2> HIDE DEF new
  <2>4. \A i \in 1 .. Len(old) - 1 : i \in 1 .. Len(new) - 1 /\ i \in 1 .. Len(old)
    BY <2>3
  <2>5. \A i \in 1 .. Len(old) - 1 : old[i].len = UnitLen
    BY <2>2, <2>3, <2>4
  <2>6. QED
    BY <2>5 DEF old
<1>3. QED
  BY <1>1, <1>2 DEF Regular

\* A file without packets spoils no frame.
LEMMA RegularEmpty ==
  ASSUME mxf.packets = <<>>
  PROVE  Regular
<1>1. 1 .. Len(<<>>) - 1 = {}
  OBVIOUS
<1>2. QED
  BY <1>1 DEF Regular

\* Until a file is closed, the storage may spoil it at any step.
LEMMA Spoiling ==
  ASSUME mxf.disk = <<>>, Spoilt'
  PROVE  Abstract!Next \/ UNCHANGED <<Phase, Accepted, Readable>>
<1>1. Phase' = "spoilt" /\ Accepted' = <<>> /\ Readable' = <<>>
  BY DEF Phase, Accepted, Readable
<1>2. CASE Spoilt
  <2>1. Phase = "spoilt" /\ Accepted = <<>> /\ Readable = <<>>
    BY <1>2 DEF Phase, Accepted, Readable
  <2>2. QED
    BY <1>1, <2>1
<1>3. CASE ~Spoilt
  <2>1. Phase \in {"new", "open"}
    BY <1>3 DEF Phase
  <2>2. QED
    BY <1>1, <2>1 DEF Abstract!Next, Abstract!Spoil
<1>4. QED
  BY <1>2, <1>3

\* A file that is not closed, and not spoilt
LEMMA Unspoilt ==
  ASSUME ~Spoilt, mxf.disk = <<>>
  PROVE  /\ Phase = IF state \in {"BEGIN", "UNOPENED"} THEN "new" ELSE "open"
         /\ Accepted = Written /\ Readable = <<>>
  BY DEF Phase, Accepted, Readable

LEMMA UnspoiltNext ==
  ASSUME ~Spoilt', mxf'.disk = <<>>
  PROVE  /\ Phase' = IF state' \in {"BEGIN", "UNOPENED"} THEN "new" ELSE "open"
         /\ Accepted' = Written' /\ Readable' = <<>>
  BY DEF Phase, Accepted, Readable

LEMMA RestingRefines ==
  ASSUME Resting \/ UNCHANGED vars
  PROVE  Abstract!Next \/ UNCHANGED <<Phase, Accepted, Readable>>
<1>1. /\ UNCHANGED <<kind, faults>> /\ Same(mxf, mxf')
      /\ mxf'.packets = mxf.packets /\ mxf'.disk = mxf.disk
      /\ state = "ABORTED" => state' = "ABORTED"
      /\ state' # "ABORTED" => state' = state
  BY SameItself DEF vars, Resting, Keeping, Same
<1>2. Harms' = Harms /\ (Regular' <=> Regular) /\ Written' = Written
  BY <1>1, HistoryKept
<1>3. Reader!Readable(mxf', kind') = Reader!Readable(mxf, kind)
  BY <1>1, SameRead
<1>4. Spoilt => Spoilt'
  BY <1>1, <1>2 DEF Spoilt
<1>5. CASE Spoilt'
  <2>1. CASE mxf.disk = <<>>
    BY <1>5, <2>1, Spoiling
  <2>2. CASE mxf.disk # <<>>
    <3>1. Spoilt
      BY <1>1, <1>2, <1>5, <2>2 DEF Spoilt
    <3>2. QED
      BY <1>5, <3>1 DEF Phase, Accepted, Readable
  <2>3. QED
    BY <2>1, <2>2
<1>6. CASE ~Spoilt'
  <2>1. ~Spoilt
    BY <1>4, <1>6
  <2>2. CASE mxf.disk = <<>>
    <3>1. mxf'.disk = <<>>
      BY <1>1, <2>2
    <3>2. state' # "ABORTED"
      BY <1>6, <3>1 DEF Spoilt
    <3>3. state' = state
      BY <1>1, <3>2
    <3>4. QED
      BY <1>2, <1>6, <2>1, <2>2, <3>1, <3>3, Unspoilt, UnspoiltNext
  <2>3. CASE mxf.disk # <<>>
    <3>1. Phase' = "closed" /\ Phase = "closed"
      BY <1>1, <1>6, <2>1, <2>3 DEF Phase
    <3>2. Accepted' = Accepted
      BY <1>2, <1>6, <2>1 DEF Accepted
    <3>3. Readable' = Readable
      BY <1>1, <1>3, <1>6, <2>1, <2>3 DEF Readable
    <3>4. QED
      BY <3>1, <3>2, <3>3
  <2>4. QED
    BY <2>2, <2>3
<1>7. QED
  BY <1>5, <1>6

\* A step after which the file is open creates it, accepts a frame or accepts nothing.
LEMMA WritingRefines ==
  ASSUME Inv, Inv', [Next]_vars, Writing'
  PROVE  Abstract!Next \/ UNCHANGED <<Phase, Accepted, Readable>>
<1>1. /\ TypeInv /\ TypeInv' /\ EyesInv /\ Layout /\ Layout' /\ History /\ kind' = kind
  BY KindKept DEF Inv
<1>2. state \in {"BEGIN", "UNOPENED", "READY", "RUNNING"}
  BY <1>1, WritingSteps DEF Opening, Framing, Shelving, Idling, Writing
<1>3. mxf.disk = <<>> /\ mxf'.disk = <<>> /\ state' \notin {"BEGIN", "UNOPENED"}
  BY <1>1, <1>2 DEF Layout, History, Writing
<1>4. CASE Spoilt'
  BY <1>3, <1>4, Spoiling
<1>5. CASE ~Spoilt'
  <2>1. Harms = {} /\ Regular'
    BY <1>1, <1>5, HarmStays DEF Spoilt
  <2>2. Phase' = "open" /\ Accepted' = Written' /\ Readable' = <<>>
    BY <1>3, <1>5, UnspoiltNext
  <2>3. ASSUME Regular
        PROVE  /\ Phase = IF state \in {"BEGIN", "UNOPENED"} THEN "new" ELSE "open"
               /\ Accepted = Written /\ Readable = <<>>
    <3>1. ~Spoilt
      BY <1>2, <2>1, <2>3 DEF Spoilt
    <3>2. QED
      BY <1>3, <3>1, Unspoilt
  <2>4. ASSUME NEW f \in Faults, Opening(f)
        PROVE  Abstract!Next
    <3>1. state \in {"BEGIN", "UNOPENED"} /\ mxf.packets = <<>> /\ mxf'.packets = <<>>
      BY <1>1, <2>4 DEF Opening, NewFile, History
    <3>2. Regular /\ Written = <<>>
      BY <1>1, <3>1, RegularEmpty, NothingWritten
    <3>3. Written' = Written
      <4>1. Frames' = Frames
        BY <1>1, <3>1 DEF Frames
      <4>2. QED
        BY <1>1, <3>1, <4>1 DEF Written
    <3>4. Phase = "new" /\ Accepted = Written /\ Readable = <<>>
      BY <2>3, <3>1, <3>2
    <3>5. QED
      BY <2>2, <3>3, <3>4 DEF Abstract!Next, Abstract!Create
  <2>5. ASSUME Writing,
               \/ mxf'.packets = mxf.packets
               \/ \E p \in Packet : mxf'.packets = Append(mxf.packets, p)
        PROVE  Abstract!Next \/ UNCHANGED <<Phase, Accepted, Readable>>
    <3>1. Regular
      BY <1>1, <2>1, <2>5, RegularFewer
    <3>2. Phase = "open" /\ Accepted = Written /\ Readable = <<>>
      BY <2>3, <2>5, <3>1 DEF Writing
    <3>3. \/ Written' = Written
          \/ /\ Len(Written') = Len(Written) + 1
             /\ \A n \in DOMAIN Written : Written'[n] = Written[n]
             /\ Written'[Len(Written')] \in Seq(Place)
      <4>1. CASE mxf'.packets = mxf.packets
        <5>1. Frames' = Frames
          BY <1>1, <4>1 DEF Frames
        <5>2. QED
          BY <1>1, <4>1, <5>1 DEF Written
      <4>2. ASSUME NEW p \in Packet, mxf'.packets = Append(mxf.packets, p)
            PROVE  \/ Written' = Written
                   \/ /\ Len(Written') = Len(Written) + 1
                      /\ \A n \in DOMAIN Written : Written'[n] = Written[n]
                      /\ Written'[Len(Written')] \in Seq(Place)
        BY <1>1, <4>2, WrittenMore
      <4>3. QED
        BY <2>5, <4>1, <4>2
    <3>4. CASE Written' = Written
      BY <2>2, <3>2, <3>4
    <3>5. CASE /\ Len(Written') = Len(Written) + 1
               /\ \A n \in DOMAIN Written : Written'[n] = Written[n]
               /\ Written'[Len(Written')] \in Seq(Place)
      <4>1. /\ Len(Accepted') = Len(Accepted) + 1
            /\ \A n \in DOMAIN Accepted : Accepted'[n] = Accepted[n]
            /\ Accepted'[Len(Accepted')] \in Seq([at : Nat, hmac : Nat])
        BY <2>2, <3>2, <3>5 DEF Place
      <4>2. QED
        BY <2>2, <3>2, <4>1 DEF Abstract!Next, Abstract!Accept
    <3>6. QED
      BY <3>3, <3>4, <3>5
  <2>6. ASSUME NEW len, NEW start, NEW f, NEW lost, Framing(len, start, f, lost)
        PROVE  /\ Writing
               /\ \/ mxf'.packets = mxf.packets
                  \/ \E p \in Packet : mxf'.packets = Append(mxf.packets, p)
    BY <2>6 DEF Framing, PacketStep, PacketFaults
  <2>7. ASSUME NEW f \in Faults, Shelving(f) PROVE Writing /\ mxf'.packets = mxf.packets
    BY <2>7 DEF Shelving, AncillaryStep, Writing
  <2>8. ASSUME Idling PROVE Writing /\ mxf'.packets = mxf.packets
    BY <2>8 DEF Idling
  <2>9. QED
    BY <1>1, <2>4, <2>5, <2>6, <2>7, <2>8, WritingSteps
<1>6. QED
  BY <1>4, <1>5

\* Finalize closes the file, fails to, or spoils it.
LEMMA FinalizeRefines ==
  ASSUME Inv, Inv', [Next]_vars, NEW f \in Faults, Ends(f)
  PROVE  Abstract!Next \/ UNCHANGED <<Phase, Accepted, Readable>>
<1>1. /\ TypeInv /\ Layout /\ Sequenced /\ Indexing /\ state = "RUNNING"
      /\ state' \in {"FINAL", "ABORTED"} /\ Writing /\ kind' = kind
  BY DEF Inv, Ends, Finishing, Writing
<1>2. mxf.disk = <<>>
  BY <1>1 DEF Layout
<1>3. CASE Spoilt'
  BY <1>2, <1>3, Spoiling
<1>4. CASE ~Spoilt'
  <2>1. Harms = {} /\ Harms' = {} /\ Regular'
    BY <1>1, <1>4, HarmStays DEF Spoilt
  <2>2. f = "none"
    <3>1. PICK r : Call("Finalize", f, r)
      BY DEF Ends, Finishing
    <3>2. f \in Forgiven \cup {"none"}
      BY <1>1, <2>1, <3>1, HarmsCall
    <3>3. f \in {"none"} \cup FinalizeFaults
      BY DEF Ends
    <3>4. QED
      BY <3>2, <3>3 DEF Forgiven, FinalizeFaults, Rewrites, PackFaults, Torn
  <2>3. CASE mxf.segs = <<>>
    <3>1. mxf'.packets = mxf.packets /\ mxf'.disk = <<>>
      BY <2>2, <2>3, Failing
    <3>2. Regular
      BY <1>1, <2>1, <3>1, RegularFewer
    <3>3. ~Spoilt
      BY <1>1, <2>1, <3>2 DEF Spoilt
    <3>4. Written' = Written
      <4>1. Frames' = Frames
        BY <1>1, <3>1 DEF Frames
      <4>2. QED
        BY <1>1, <3>1, <4>1 DEF Written
    <3>5. QED
      BY <1>1, <1>2, <1>4, <3>1, <3>3, <3>4, Unspoilt, UnspoiltNext
  <2>4. CASE mxf.segs # <<>>
    <3>1. /\ nextPhase = 1 /\ UNCHANGED <<kind, faults>>
          /\ Seals(mxf, mxf', FinalCount) /\ mxf'.packets = mxf.packets
          /\ ~kind.vbr => FinalCount = Len(mxf.packets)
      BY <2>2, <2>4, Sealing
    <3>2. (Regular' <=> Regular) /\ Written' = Written
      BY <3>1, HistoryKept
    <3>3. ~Spoilt
      BY <1>1, <2>1, <3>2 DEF Spoilt
    <3>4. Phase = "open" /\ Accepted = Written /\ Readable = <<>>
      BY <1>1, <1>2, <3>3, Unspoilt
    <3>5. Reader!Readable(mxf', kind) = Written
      BY <1>1, <2>1, <3>1, <3>2, SealedReads
    <3>6. mxf'.disk # <<>>
      <4>1. DOMAIN mxf'.disk = 1 .. Len(mxf.rip) + 1 /\ Len(mxf.rip) \in Nat
        BY <1>1, <3>1, SealedRip DEF TypeInv, TypeOK
      <4>2. 1 \in DOMAIN mxf'.disk
        BY <4>1
      <4>3. QED
        BY <4>2
    <3>7. Phase' = "closed" /\ Accepted' = Written' /\ Readable' = Reader!Readable(mxf', kind)
      BY <1>1, <1>4, <3>6 DEF Phase, Accepted, Readable
    <3>8. QED
      BY <3>2, <3>4, <3>5, <3>7 DEF Abstract!Next, Abstract!Close
  <2>5. QED
    BY <2>3, <2>4
<1>5. QED
  BY <1>3, <1>4

LEMMA StepRefines ==
  ASSUME Inv, Inv', [Next]_vars
  PROVE  Abstract!Next \/ UNCHANGED <<Phase, Accepted, Readable>>
<1>1. TypeInv /\ TypeInv' /\ EyesInv /\ History /\ History' /\ Layout /\ kind' = kind
  BY KindKept DEF Inv
<1>2. ASSUME NEW f, Beginning(f)
      PROVE  UNCHANGED <<Phase, Accepted, Readable>>
  <2>1. /\ state \in {"BEGIN", "UNOPENED"} /\ mxf.packets = <<>> /\ mxf.disk = <<>>
        /\ state' \in {"BEGIN", "UNOPENED"} /\ mxf'.packets = <<>> /\ mxf'.disk = <<>>
        /\ Harms = {} /\ Harms' = {}
    BY <1>1, <1>2 DEF Beginning, History
  <2>2. Regular
    BY <2>1, RegularEmpty
  <2>3. Regular'
    BY <1>1, <2>1, <2>2 DEF Regular
  <2>4. Written' = Written
    <3>1. Frames' = Frames
      BY <1>1, <2>1 DEF Frames
    <3>2. QED
      BY <1>1, <2>1, <3>1 DEF Written
  <2>5. ~Spoilt /\ ~Spoilt'
    BY <2>1, <2>2, <2>3 DEF Spoilt
  <2>6. QED
    BY <2>1, <2>4, <2>5, Unspoilt, UnspoiltNext
<1>3. CASE Stopping
  <2>1. mxf.disk = <<>>
    BY <1>1, <1>3 DEF Stopping, History, Layout, Writing
  <2>2. Call("Any", "assert", "ABORT")
    BY <1>3 DEF Stopping, AbortedWrite
  <2>3. "assert" \notin Forgiven \cup {"none"}
    BY DEF Forgiven
  <2>4. Harms' # {}
    BY <1>1, <2>2, <2>3, HarmsCall
  <2>5. Spoilt'
    BY <2>4 DEF Spoilt
  <2>6. QED
    BY <2>1, <2>5, Spoiling
<1>4. QED
  BY <1>1, <1>2, <1>3, RestingRefines, WritingRefines, FinalizeRefines, FileSteps

\* The writer and the reader together implement the abstract track file: Finalize makes
\* readable the frames that were accepted, eye by eye, each from its place and with the
\* sequence number it was hashed with, and nothing changes them afterwards.
THEOREM ReadsBackHolds == Spec => ReadsBack
<1>1. Init => Abstract!Init
  <2> SUFFICES ASSUME Init PROVE Abstract!Init
    OBVIOUS
  <2>1. faults = <<>> /\ mxf = Empty /\ state = "BEGIN" /\ TypeInv
    BY InitTypeInv DEF Init
  <2>2. mxf.packets = <<>> /\ mxf.disk = <<>>
    BY <2>1 DEF Empty
  <2>3. Harms = {} /\ Regular /\ Written = <<>>
    BY <2>1, <2>2, NoFaultNoHarm, RegularEmpty, NothingWritten
  <2>4. ~Spoilt
    BY <2>1, <2>3 DEF Spoilt
  <2>5. Phase = "new" /\ Accepted = <<>> /\ Readable = <<>>
    BY <2>1, <2>2, <2>3, <2>4, Unspoilt
  <2>6. QED
    BY <2>5 DEF Abstract!Init
<1>2. Inv /\ Inv' /\ [Next]_vars => [Abstract!Next]_(Abstract!vars)
  <2> SUFFICES ASSUME Inv, Inv', [Next]_vars PROVE [Abstract!Next]_(Abstract!vars)
    OBVIOUS
  <2>1. Abstract!Next \/ UNCHANGED <<Phase, Accepted, Readable>>
    BY StepRefines
  <2>2. QED
    BY <2>1 DEF Abstract!vars
<1>3. Spec => Abstract!Spec
  BY <1>1, <1>2, InvHolds, PTL DEF Spec, Abstract!Spec
<1>4. QED
  BY <1>3 DEF ReadsBack

=============================================================================
