------------------------ MODULE AS02TrackFile_proofs ------------------------
(***************************************************************************)
(* Theorems about AS02Writer and AS02TrackFile, for every value of their   *)
(* constants.                                                              *)
(*                                                                         *)
(* The writer first: the type invariant, and the two invariants that tie   *)
(* the index to the file, WritePosition and IndexLocatesFrames.  Neither   *)
(* of the two is inductive.  The strengthening, Sound, adds that the iovec *)
(* list is empty, that no pack lies at or after the file position, so that *)
(* a new pack can be told from the old ones by its offset, and that the    *)
(* index segments number the frames written so far without a gap.          *)
(*                                                                         *)
(* Then what a reader finds in a finalized AS-02 file.  The properties     *)
(* speak of the file that Finalize leaves behind; the invariant is about   *)
(* the file that is being written: which pack each entry of the Random     *)
(* Index Pack leads to, how the index partitions and the body partitions   *)
(* are paired, and which frame each index entry, on disk or pending,       *)
(* stands for.  A pack that was lost is seen in the file as an entry of    *)
(* the Random Index Pack without a pack.  Where no entry is without one    *)
(* (Listed), every pack was written, whatever else failed.                 *)
(***************************************************************************)
EXTENDS AS02TrackFile, MXFFile_proofs, FiniteSetTheorems, TLAPS

-----------------------------------------------------------------------------
(* The helpers on the file keep its type *)

LEMMA NewPackType ==
  ASSUME NEW at \in Nat, NEW type \in {"header", "body", "index", "stream", "footer"},
         NEW sid \in Nat
  PROVE  NewPack(at, type, sid) \in Pack
  BY DEF NewPack, Pack

LEMMA RipEntries ==
  ASSUME NEW m \in MxfType, NEW i \in DOMAIN m.rip
  PROVE  m.rip[i].sid \in Nat /\ m.rip[i].at \in Nat
<1>1. m.rip \in Seq(Pair)
  BY DEF MxfType
<1>2. m.rip[i] \in Pair
  BY <1>1
<1>3. QED
  BY <1>2 DEF Pair

LEMMA PutPackType ==
  ASSUME NEW m \in MxfType, NEW pack \in Pack, NEW f
  PROVE  /\ PutPack(m, pack, f) \in MxfType
         /\ PutPack(m, pack, f).rip = m.rip
         /\ PutPack(m, pack, f).essence = m.essence
<1> DEFINE pos   == m.pos + (IF f = "none" THEN PackLen ELSE PackLost)
           parts == IF f = "none" THEN m.parts \cup {pack} ELSE m.parts
<1>1. m \in MxfType /\ m.pos \in Nat /\ m.parts \in SUBSET Pack
  BY DEF MxfType
<1>2. PackLen \in Nat /\ PackLost \in Nat
  BY LengthAssumption
<1>3. pos \in Nat /\ parts \in SUBSET Pack
  BY <1>1, <1>2
<1>4. PutPack(m, pack, f) = [m EXCEPT !.pos = pos, !.parts = parts]
  BY DEF PutPack
<1> HIDE DEF pos, parts
<1>5. QED
  BY <1>1, <1>3, <1>4 DEF MxfType

LEMMA PushRipType ==
  ASSUME NEW m \in MxfType, NEW sid \in Nat, NEW at \in Nat
  PROVE  /\ PushRip(m, sid, at) \in MxfType
         /\ PushRip(m, sid, at).rip # <<>>
<1> DEFINE rip == Append(m.rip, [sid |-> sid, at |-> at])
<1>1. [sid |-> sid, at |-> at] \in Pair
  BY DEF Pair
<1>2. m \in MxfType /\ m.rip \in Seq(Pair)
  BY DEF MxfType
<1>3. rip \in Seq(Pair) /\ rip # <<>>
  BY <1>1, <1>2
<1>4. PushRip(m, sid, at) = [m EXCEPT !.rip = rip]
  BY DEF PushRip
<1> HIDE DEF rip
<1>5. QED
  BY <1>2, <1>3, <1>4 DEF MxfType

LEMMA PushIndexEntryType ==
  ASSUME NEW m \in MxfType, NEW offset \in Nat
  PROVE  /\ PushIndexEntry(m, offset) \in MxfType
         /\ PushIndexEntry(m, offset).rip = m.rip
<1> DEFINE n == Len(m.segs)
<1>1. m.segs \in Seq(Segment)
  BY DEF MxfType
<1>2. CASE m.segs = <<>>
  <2>1. [start |-> 0, entries |-> <<offset>>] \in Segment
    BY DEF Segment
  <2>2. <<[start |-> 0, entries |-> <<offset>>]>> \in Seq(Segment) \ {<<>>}
    BY <2>1, <1>1
  <2>3. QED
    BY <1>2, <2>2 DEF PushIndexEntry, MxfType
<1>3. CASE m.segs # <<>>
  <2>1. n \in 1 .. Len(m.segs) /\ m.segs[n] \in Segment
    BY <1>1, <1>3
  <2>2. SegmentEnd(m.segs[n]) \in Nat
    BY <2>1 DEF SegmentEnd, Segment
  <2>3. CASE Len(m.segs[n].entries) >= EntriesPerSegment
    <3>1. [start |-> SegmentEnd(m.segs[n]), entries |-> <<offset>>] \in Segment
      BY <2>2 DEF Segment
    <3>2. Append(m.segs, [start |-> SegmentEnd(m.segs[n]), entries |-> <<offset>>])
            \in Seq(Segment) \ {<<>>}
      BY <3>1, <1>1
    <3>3. QED
      BY <1>3, <2>3, <3>2 DEF PushIndexEntry, MxfType
  <2>4. CASE ~(Len(m.segs[n].entries) >= EntriesPerSegment)
    <3> DEFINE s == [m.segs[n] EXCEPT !.entries = Append(@, offset)]
    <3>1. s \in Segment
      <4>1. Append(m.segs[n].entries, offset) \in Seq(Nat)
        BY <2>1 DEF Segment
      <4>2. QED
        BY <2>1, <4>1 DEF Segment
    <3>2. [m.segs EXCEPT ![n] = s] \in Seq(Segment) \ {<<>>}
      BY <3>1, <1>1, <2>1
    <3>3. PushIndexEntry(m, offset) = [m EXCEPT !.segs = [m.segs EXCEPT ![n] = s]]
      BY <1>3, <2>4 DEF PushIndexEntry
    <3> HIDE DEF s
    <3>4. QED
      BY <1>3, <3>2, <3>3 DEF MxfType
  <2>5. QED
    BY <2>3, <2>4
<1>4. QED
  BY <1>2, <1>3

LEMMA FlushType ==
  ASSUME NEW m \in MxfType, NEW f
  PROVE  /\ FlushIndexPartition(m, f) \in MxfType
         /\ m.rip # <<>> => FlushIndexPartition(m, f).rip # <<>>
<1> DEFINE next  == IF m.segs # <<>> THEN SegmentEnd(m.segs[Len(m.segs)]) ELSE 0
           pack  == [NewPack(m.pos, "index", 0) EXCEPT !.segs = m.segs]
           wrote == PutPack(PushRip(m, 0, m.pos), pack, f)
<1>1. m.segs \in Seq(Segment) /\ m.pos \in Nat
  BY DEF MxfType
<1>2. next \in Nat
  <2>1. CASE m.segs # <<>>
    <3>1. m.segs[Len(m.segs)] \in Segment
      BY <1>1, <2>1
    <3>2. QED
      BY <2>1, <3>1 DEF SegmentEnd, Segment
  <2>2. QED
    BY <2>1
<1>3. pack \in Pack
  BY <1>1 DEF NewPack, Pack
<1>4. wrote \in MxfType /\ wrote.rip # <<>>
  <2>1. PushRip(m, 0, m.pos) \in MxfType /\ PushRip(m, 0, m.pos).rip # <<>>
    BY <1>1, PushRipType
  <2> HIDE DEF pack
  <2>2. QED
    BY <1>3, <2>1, PutPackType
<1>5. FlushIndexPartition(m, f) =
        IF ~HasEntries(m) THEN m
        ELSE IF f = "fail" THEN [wrote EXCEPT !.segs = <<>>]
        ELSE [wrote EXCEPT !.pos = wrote.pos + IndexLen,
                           !.segs = <<[start |-> next, entries |-> <<>>]>>]
  BY DEF FlushIndexPartition
<1> HIDE DEF next, pack, wrote
<1>6. CASE ~HasEntries(m)
  BY <1>6, <1>5
<1>7. CASE HasEntries(m) /\ f = "fail"
  <2>1. FlushIndexPartition(m, f) = [wrote EXCEPT !.segs = <<>>]
    BY <1>7, <1>5
  <2>2. <<>> \in Seq(Segment)
    OBVIOUS
  <2>3. QED
    BY <1>4, <2>1, <2>2 DEF MxfType
<1>8. CASE HasEntries(m) /\ f # "fail"
  <2>1. FlushIndexPartition(m, f) =
          [wrote EXCEPT !.pos = wrote.pos + IndexLen,
                        !.segs = <<[start |-> next, entries |-> <<>>]>>]
    BY <1>8, <1>5
  <2>2. <<[start |-> next, entries |-> <<>>]>> \in Seq(Segment)
    BY <1>2 DEF Segment
  <2>3. wrote.pos + IndexLen \in Nat
    BY <1>4, LengthAssumption DEF MxfType
  <2>4. QED
    BY <1>4, <2>1, <2>2, <2>3 DEF MxfType
<1>9. QED
  BY <1>6, <1>7, <1>8

LEMMA OpenBodyType ==
  ASSUME NEW m \in MxfType, NEW offset \in Nat, NEW f
  PROVE  OpenBodyPartition(m, offset, f) \in MxfType /\ OpenBodyPartition(m, offset, f).rip # <<>>
<1> DEFINE pack == [NewPack(m.pos, "body", 1) EXCEPT !.offset = offset]
<1>1. m.pos \in Nat
  BY DEF MxfType
<1>2. pack \in Pack
  BY <1>1, NewPackType DEF Pack
<1>3. PutPack(m, pack, f) \in MxfType
  BY <1>2, PutPackType
<1>4. OpenBodyPartition(m, offset, f) = PushRip(PutPack(m, pack, f), 1, m.pos)
  BY DEF OpenBodyPartition
<1> HIDE DEF pack
<1>5. QED
  BY <1>1, <1>3, <1>4, PushRipType

LEMMA FrameLensNat ==
  ASSUME NEW len \in FrameLens, NEW k \in AllKinds
  PROVE  len \in Nat \ {0} /\ FrameLen(k, len) \in Nat
  BY LengthAssumption DEF FrameLen

LEMMA StreamAdvanceType ==
  ASSUME NEW k \in AllKinds, NEW len \in FrameLens, NEW f
  PROVE  StreamAdvance(k, len, f) \in Nat
<1>1. len \in Nat /\ FrameLen(k, len) \in Nat
  BY FrameLensNat
<1>2. CASE f \in {"context", "flush", "metadata"}
  BY <1>1, <1>2 DEF StreamAdvance
<1>3. CASE f \notin {"context", "flush", "metadata"}
  BY <1>1, <1>3 DEF StreamAdvance
<1>4. QED
  BY <1>2, <1>3

LEMMA WritePacketsType ==
  ASSUME NEW m \in MxfType, NEW k \in AllKinds, NEW len \in FrameLens, NEW f,
         NEW lost \in 0 .. len
  PROVE  /\ WritePackets(m, k, len, f, lost) \in MxfType
         /\ WritePackets(m, k, len, f, lost).rip = m.rip
<1> DEFINE after == WritePackets(m, k, len, f, lost)
<1> SUFFICES after \in MxfType /\ after.rip = m.rip
  OBVIOUS
<1>1. /\ len \in Nat /\ FrameLen(k, len) \in Nat /\ MetaLen \in Nat /\ lost \in Nat
      /\ m.pos \in Nat /\ m.queued \in Nat /\ m.essence \in Seq(Nat)
  BY FrameLensNat, LengthAssumption DEF MxfType
<1>2. CASE f = "context"
  BY <1>2 DEF WritePackets
<1>3. CASE f = "flush"
  <2>1. after =
          [m EXCEPT !.pos = m.pos + lost, !.queued = m.queued + len]
    BY <1>3 DEF WritePackets
  <2> HIDE DEF after
  <2>2. m.pos + lost \in Nat /\ m.queued + len \in Nat
    BY <1>1
  <2>3. QED
    BY <2>1, <2>2 DEF MxfType
<1>4. CASE f = "metadata"
  <2> DEFINE p == m.pos + m.queued + len
  <2>1. after = [m EXCEPT !.pos = p, !.queued = 0]
    BY <1>4 DEF WritePackets
  <2>2. p \in Nat /\ 0 \in Nat
    BY <1>1
  <2> HIDE DEF after, p
  <2>3. QED
    BY <2>1, <2>2 DEF MxfType
<1>5. CASE f = "metadataFlush"
  <2> DEFINE p == m.pos + m.queued + len + lost
  <2>1. after = [m EXCEPT !.pos = p, !.queued = MetaLen]
    BY <1>5 DEF WritePackets
  <2>2. p \in Nat
    BY <1>1
  <2> HIDE DEF after, p
  <2>3. QED
    BY <1>1, <2>1, <2>2 DEF MxfType
<1>6. CASE f \notin {"context", "flush", "metadata", "metadataFlush"}
  <2> DEFINE p == m.pos + m.queued + FrameLen(k, len)
             q == 0
             e == Append(m.essence, m.pos + m.queued)
  <2>1. after = [m EXCEPT !.pos = p, !.queued = q, !.essence = e]
    BY <1>6 DEF WritePackets
  <2>2. p \in Nat /\ q \in Nat /\ m.pos + m.queued \in Nat
    BY <1>1
  <2>3. e \in Seq(Nat)
    BY <1>1, <2>2
  <2> HIDE DEF after, p, q, e
  <2>4. QED
    BY <2>1, <2>2, <2>3 DEF MxfType
<1>7. QED
  BY <1>2, <1>3, <1>4, <1>5, <1>6

LEMMA MaxSidType ==
  ASSUME NEW m \in MxfType
  PROVE  MaxSid(m) \in Nat
<1> DEFINE greatest == {i \in DOMAIN m.rip : \A j \in DOMAIN m.rip : m.rip[j].sid <= m.rip[i].sid}
<1>1. \A i \in DOMAIN m.rip : m.rip[i].sid \in Nat
  BY RipEntries
<1>2. CASE greatest = {}
  BY <1>2 DEF MaxSid
<1>3. CASE greatest # {}
  <2>1. (CHOOSE i \in greatest : TRUE) \in DOMAIN m.rip
    BY <1>3
  <2>2. QED
    BY <1>1, <1>3, <2>1 DEF MaxSid
<1>4. QED
  BY <1>2, <1>3

LEMMA PutStreamType ==
  ASSUME NEW m \in MxfType, m.rip # <<>>, NEW sid \in Nat, NEW f, framesWritten \in Nat
  PROVE  PutStream(m, sid, f) \in MxfType /\ PutStream(m, sid, f).rip # <<>>
<1> DEFINE pack  == [NewPack(m.pos, "stream", sid) EXCEPT
                       !.prev = m.rip[Len(m.rip)].at, !.hmac = framesWritten + 1]
           wrote == PutPack(PushRip(m, sid, m.pos), pack, PackFault(f, "stream"))
<1>1. m.pos \in Nat /\ m.rip[Len(m.rip)].at \in Nat
  <2>1. m.pos \in Nat /\ m.rip \in Seq(Pair)
    BY DEF MxfType
  <2>2. Len(m.rip) \in DOMAIN m.rip
    BY <2>1
  <2>3. QED
    BY <2>1, <2>2, RipEntries
<1>2. pack \in Pack
  <2> DEFINE prev == m.rip[Len(m.rip)].at
             hmac == framesWritten + 1
  <2>1. prev \in Nat /\ hmac \in Nat
    BY <1>1
  <2>2. pack = [NewPack(m.pos, "stream", sid) EXCEPT !.prev = prev, !.hmac = hmac]
    OBVIOUS
  <2> HIDE DEF pack, prev, hmac
  <2>3. NewPack(m.pos, "stream", sid) \in Pack
    BY <1>1, NewPackType
  <2>4. QED
    BY <2>1, <2>2, <2>3 DEF Pack
<1>3. wrote \in MxfType /\ wrote.rip # <<>>
  <2>1. PushRip(m, sid, m.pos) \in MxfType /\ PushRip(m, sid, m.pos).rip # <<>>
    BY <1>1, PushRipType
  <2> HIDE DEF pack
  <2>2. QED
    BY <1>2, <2>1, PutPackType
<1> DEFINE after == PutStream(m, sid, f)
<1> SUFFICES after \in MxfType /\ after.rip # <<>>
  OBVIOUS
<1>4. after =
        CASE f \in {"stream", "payload"} -> wrote
          [] f = "payloadFlush"          -> [wrote EXCEPT !.queued = wrote.queued + StreamLen]
          [] OTHER -> [wrote EXCEPT !.pos = wrote.pos + wrote.queued + StreamLen, !.queued = 0]
  BY DEF PutStream
<1> HIDE DEF pack, wrote, after
<1>5. wrote.pos \in Nat /\ wrote.queued \in Nat /\ StreamLen \in Nat
  BY <1>3, LengthAssumption DEF MxfType
<1>6. CASE f \in {"stream", "payload"}
  BY <1>3, <1>4, <1>6
<1>7. CASE f = "payloadFlush"
  <2>1. after = [wrote EXCEPT !.queued = wrote.queued + StreamLen]
    BY <1>4, <1>7
  <2>2. wrote.queued + StreamLen \in Nat
    BY <1>5
  <2>3. QED
    BY <1>3, <2>1, <2>2 DEF MxfType
<1>8. CASE f \notin {"stream", "payload", "payloadFlush"}
  <2> DEFINE p    == wrote.pos + wrote.queued + StreamLen
             q == 0
  <2>1. after = [wrote EXCEPT !.pos = p, !.queued = q]
    BY <1>4, <1>8
  <2>2. p \in Nat /\ q \in Nat
    BY <1>5
  <2> HIDE DEF p, q
  <2>3. wrote \in MxfType
    BY <1>3
  <2>4. after \in MxfType /\ after.rip = wrote.rip
    BY <2>1, <2>2, <2>3 DEF MxfType
  <2>5. QED
    BY <1>3, <2>4
<1>9. QED
  BY <1>6, <1>7, <1>8

LEMMA RelinkType ==
  ASSUME NEW m \in MxfType, NEW reached \in SUBSET (DOMAIN m.rip), NEW here \in Nat
  PROVE  /\ Relink(m, reached, here) \in MxfType /\ Relink(m, reached, here).rip = m.rip
         /\ Relink(m, reached, here).essence = m.essence
<1>1. \A i \in DOMAIN m.rip : m.rip[i].at \in Nat
  BY RipEntries
<1>2. ASSUME NEW i \in DOMAIN m.rip PROVE PreviousOf(m, i) \in Nat
  <2> DEFINE latest == {j \in 1 .. i - 1 : Linked(m, j) /\ \A n \in j + 1 .. i - 1 : ~Linked(m, n)}
  <2>1. CASE latest = {}
    BY <2>1 DEF PreviousOf
  <2>2. CASE latest # {}
    <3>1. (CHOOSE j \in latest : TRUE) \in 1 .. i - 1
      BY <2>2
    <3>2. 1 .. i - 1 \subseteq DOMAIN m.rip
      BY DEF MxfType
    <3>3. QED
      BY <1>1, <2>2, <3>1, <3>2 DEF PreviousOf
  <2>3. QED
    BY <2>1, <2>2
<1> DEFINE Entries(p) == {i \in reached : Linked(m, i) /\ m.rip[i].at = p.at}
           New(p) ==
             LET latest == {i \in Entries(p) : \A j \in Entries(p) : j <= i}
             IN  IF latest = {} THEN p
                 ELSE [p EXCEPT !.footer = here,
                                !.prev = PreviousOf(m, CHOOSE i \in latest : TRUE)]
<1>3. ASSUME NEW p \in Pack PROVE New(p) \in Pack
  <2> DEFINE latest == {i \in Entries(p) : \A j \in Entries(p) : j <= i}
             prev == PreviousOf(m, CHOOSE i \in latest : TRUE)
  <2>1. CASE latest = {}
    BY <2>1
  <2>2. CASE latest # {}
    <3>1. prev \in Nat
      <4>1. (CHOOSE i \in latest : TRUE) \in DOMAIN m.rip
        BY <2>2
      <4>2. QED
        BY <1>2, <4>1
    <3>2. New(p) = [p EXCEPT !.footer = here, !.prev = prev]
      BY <2>2
    <3> HIDE DEF prev, New
    <3>3. QED
      BY <3>1, <3>2 DEF Pack
  <2>3. QED
    BY <2>1, <2>2
<1>4. Relink(m, reached, here) = [m EXCEPT !.parts = {New(p) : p \in m.parts}]
  BY DEF Relink
<1> HIDE DEF New
<1>5. {New(p) : p \in m.parts} \in SUBSET Pack
  BY <1>3 DEF MxfType
<1>6. QED
  BY <1>4, <1>5 DEF MxfType

LEMMA FooterType ==
  ASSUME NEW m \in MxfType, m.rip # <<>>, NEW f, NEW n \in 1 .. Len(m.rip), framesWritten \in Nat
  PROVE  /\ Footer(m, f, n).file \in MxfType /\ Footer(m, f, n).file.rip # <<>>
         /\ Footer(m, f, n).file.essence = m.essence
<1> DEFINE here    == m.pos
           footer  == [NewPack(here, "footer", 0) EXCEPT
                         !.prev = m.rip[Len(m.rip)].at, !.footer = here]
           listed  == PutPack(PushRip(m, 0, here), footer, PackFault(f, "footer"))
           disk    == IF f = "ripTorn" THEN listed.disk ELSE listed.rip
           onDisk  == [listed EXCEPT !.disk = disk]
           rewrote == [onDisk EXCEPT !.duration = framesWritten]
           damaged == {p \in rewrote.parts : p.at = rewrote.rip[n].at}
           reached == Reached(rewrote)
           all     == reached = DOMAIN rewrote.rip
           Linking(entries, lost) ==
             Relink([rewrote EXCEPT !.parts = rewrote.parts \ lost], entries, here)
           left    == [onDisk EXCEPT !.parts = {p \in onDisk.parts : p.at # 0}]
<1>1. here \in Nat /\ m.rip \in Seq(Pair) /\ m.rip[Len(m.rip)].at \in Nat
  <2>1. m.pos \in Nat /\ m.rip \in Seq(Pair)
    BY DEF MxfType
  <2>2. Len(m.rip) \in DOMAIN m.rip
    BY <2>1
  <2>3. QED
    BY <2>1, <2>2, RipEntries
<1>2. /\ listed \in MxfType /\ listed.rip # <<>> /\ Len(listed.rip) = Len(m.rip) + 1
      /\ listed.essence = m.essence
  <2>1. footer \in Pack
    <3> DEFINE prev == m.rip[Len(m.rip)].at
    <3>1. NewPack(here, "footer", 0) \in Pack
      BY <1>1, NewPackType
    <3>2. prev \in Nat /\ footer = [NewPack(here, "footer", 0) EXCEPT !.prev = prev, !.footer = here]
      BY <1>1
    <3> HIDE DEF prev, footer, here
    <3>3. QED
      BY <1>1, <3>1, <3>2 DEF Pack
  <2>2. /\ PushRip(m, 0, here) \in MxfType /\ PushRip(m, 0, here).rip # <<>>
        /\ PushRip(m, 0, here).essence = m.essence
    <3>1. PushRip(m, 0, here).essence = m.essence
      BY DEF PushRip, MxfType
    <3>2. QED
      BY <1>1, <3>1, PushRipType
  <2>3. PushRip(m, 0, here).rip = Append(m.rip, [sid |-> 0, at |-> here])
    BY DEF PushRip, MxfType
  <2> HIDE DEF footer
  <2>4. /\ listed \in MxfType /\ listed.rip = PushRip(m, 0, here).rip
        /\ listed.essence = PushRip(m, 0, here).essence
    BY <2>1, <2>2, PutPackType
  <2> HIDE DEF listed, here
  <2>5. QED
    BY <1>1, <2>2, <2>3, <2>4
<1>3. Footer(m, f, n) =
        CASE f \in {"footer", "rip"} -> [file |-> listed, ok |-> FALSE]
          [] f = "rewrite"    -> [file |-> left, ok |-> FALSE]
          [] f = "relink"     -> [file |-> Linking(1 .. n - 1, damaged), ok |-> FALSE]
          [] f = "relinkTorn" -> [file |-> Linking(reached, damaged), ok |-> all]
          [] OTHER            -> [file |-> Linking(reached, {}), ok |-> all]
  BY DEF Footer
<1> HIDE DEF here, footer, listed
<1>4. onDisk \in MxfType /\ onDisk.rip = listed.rip /\ onDisk.essence = listed.essence
  <2>1. disk \in Seq(Pair)
    BY <1>2 DEF MxfType
  <2> HIDE DEF disk
  <2>2. QED
    BY <1>2, <2>1 DEF MxfType
<1> HIDE DEF onDisk
<1>5. rewrote \in MxfType /\ rewrote.rip = listed.rip /\ rewrote.essence = listed.essence
  BY <1>4 DEF MxfType
<1>6. left \in MxfType /\ left.rip = listed.rip /\ left.essence = listed.essence
  <2> DEFINE kept == {p \in onDisk.parts : p.at # 0}
  <2>1. kept \in SUBSET Pack
    BY <1>4 DEF MxfType
  <2> HIDE DEF kept
  <2>2. QED
    BY <1>4, <2>1 DEF MxfType
<1> HIDE DEF rewrote, left, damaged
<1>7. ASSUME NEW entries \in SUBSET (DOMAIN listed.rip), NEW lost
      PROVE  /\ Linking(entries, lost) \in MxfType /\ Linking(entries, lost).rip = listed.rip
             /\ Linking(entries, lost).essence = listed.essence
  <2> DEFINE kept == rewrote.parts \ lost
             base == [rewrote EXCEPT !.parts = kept]
  <2>1. kept \in SUBSET Pack
    BY <1>5 DEF MxfType
  <2>2. base \in MxfType /\ base.rip = listed.rip /\ base.essence = listed.essence
    <3> HIDE DEF kept
    <3>1. QED
      BY <1>5, <2>1 DEF MxfType
  <2>3. Linking(entries, lost) = Relink(base, entries, here)
    OBVIOUS
  <2> HIDE DEF kept, base, Linking
  <2>4. QED
    BY <1>1, <2>2, <2>3, RelinkType
<1>8. reached \in SUBSET (DOMAIN listed.rip)
  BY <1>5 DEF Reached
<1>9. 1 .. n - 1 \in SUBSET (DOMAIN listed.rip)
  <2>1. listed.rip \in Seq(Pair) /\ Len(m.rip) \in Nat
    BY <1>1, <1>2 DEF MxfType
  <2>2. QED
    BY <1>2, <2>1
<1> HIDE DEF Linking, reached, all
<1>10. QED
  <2> DEFINE after == Footer(m, f, n)
  <2>1. after.file \in {listed, left, Linking(1 .. n - 1, damaged), Linking(reached, damaged),
                        Linking(reached, {})}
    BY <1>3
  <2> HIDE DEF after
  <2>2. \A x \in {listed, left, Linking(1 .. n - 1, damaged), Linking(reached, damaged),
                  Linking(reached, {})} :
          x \in MxfType /\ x.rip = listed.rip /\ x.essence = listed.essence
    BY <1>2, <1>6, <1>7, <1>8, <1>9
  <2>3. QED
    BY <1>2, <2>1, <2>2 DEF after

-----------------------------------------------------------------------------
(* The type invariant *)

Met == [fault : Faults \cup {"assert"}, frames : Nat]
Calls == [op : {"None", "Any", "OpenWrite", "WriteFrame", "AddDms", "WriteResource",
                "Finalize"},
          fault : Faults \cup {"assert"},
          result : {"OK", "FAIL", "PARAM", "STATE", "INIT", "ABORT"}]

\* The type invariant is inductive once an open writer is known to have a RIP.
HasRip == state \in {"READY", "RUNNING", "FINAL"} => mxf.rip # <<>>
TypeInv == TypeOK /\ HasRip

LEMMA CallType ==
  ASSUME TypeOK,
         NEW op \in {"None", "Any", "OpenWrite", "WriteFrame", "AddDms", "WriteResource",
                     "Finalize"},
         NEW f \in Faults \cup {"assert"},
         NEW r \in {"OK", "FAIL", "PARAM", "STATE", "INIT", "ABORT"},
         Call(op, f, r)
  PROVE  last' \in Calls /\ faults' \in Seq(Met)
<1>1. last' \in Calls
  BY DEF Call, Calls
<1>2. faults \in Seq(Met) /\ mxf.essence \in Seq(Nat)
  BY DEF TypeOK, Met, MxfType
<1>3. [fault |-> f, frames |-> Len(mxf.essence)] \in Met
  BY <1>2 DEF Met
<1>4. QED
  BY <1>1, <1>2, <1>3 DEF Call

LEMMA NoneIsFault == "none" \in Faults
  BY DEF Faults

LEMMA EmptyType == Empty \in MxfType
<1>1. <<>> \in Seq(Nat) /\ <<>> \in Seq(Pair) /\ <<>> \in Seq(Segment) /\ {} \in SUBSET Pack
  OBVIOUS
<1>2. QED
  BY <1>1 DEF Empty, MxfType

LEMMA InitType == Init => TypeInv
<1> SUFFICES ASSUME Init PROVE TypeInv
  OBVIOUS
<1>1. Empty \in MxfType
  BY EmptyType
<1>2. last \in Calls /\ faults \in Seq(Met)
  BY NoneIsFault DEF Init, Calls
<1>3. kind \in AllKinds
  BY KindsAssumption DEF Init
<1>4. calls \in 0 .. MaxCalls /\ streams \in 0 .. MaxStreams
  BY BoundAssumption DEF Init
<1>5. QED
  BY <1>1, <1>2, <1>3, <1>4 DEF Init, TypeInv, TypeOK, HasRip, Calls, Met

LEMMA OpenType ==
  ASSUME TypeInv, NEW f \in Faults, Open(f)
  PROVE  TypeInv'
<1> DEFINE header == [Empty EXCEPT !.pos = HeaderLen, !.parts = {NewPack(0, "header", 0)}]
           opened == OpenBodyPartition(PushRip(header, 0, 0), 0, PackFault(f, "firstBody"))
<1>1. opened \in MxfType /\ opened.rip # <<>>
  <2> DEFINE parts == {NewPack(0, "header", 0)}
  <2>1. parts \in SUBSET Pack /\ HeaderLen \in Nat
    BY NewPackType, LengthAssumption
  <2>2. header = [Empty EXCEPT !.pos = HeaderLen, !.parts = parts]
    OBVIOUS
  <2> HIDE DEF parts, header
  <2>3. header \in MxfType
    BY <2>1, <2>2, EmptyType DEF MxfType
  <2>4. PushRip(header, 0, 0) \in MxfType
    BY <2>3, PushRipType
  <2>5. QED
    BY <2>4, OpenBodyType DEF header
<1>2. /\ mxf' = mxf \/ mxf' = opened
      /\ state' = "BEGIN" \/ (state' = "READY" /\ mxf' = opened)
      /\ UNCHANGED <<kind, framesWritten, streamOffset, calls, streams>>
  BY DEF Open
<1>3. last' \in Calls /\ faults' \in Seq(Met)
  <2>1. PICK r \in {"OK", "FAIL"} : Call("OpenWrite", f, r)
    BY DEF Open
  <2>2. QED
    BY <2>1, CallType DEF TypeInv
<1> HIDE DEF opened
<1>4. QED
  BY <1>1, <1>2, <1>3 DEF TypeInv, TypeOK, HasRip, Calls, Met

LEMMA WriteFrameType ==
  ASSUME TypeInv, NEW len \in FrameLens, NEW f \in Faults, NEW lost \in 0 .. len,
         WriteFrame(len, f, lost)
  PROVE  TypeInv'
<1> DEFINE frame  == WritePackets(mxf, kind, len, f, lost)
           stored == Indexed(frame, f)
           offset == streamOffset + StreamAdvance(kind, len, f)
           flushed == FlushIndexPartition(stored, PackFault(f, "index"))
           opened == OpenBodyPartition(flushed, offset, PackFault(f, "body"))
<1>1. /\ mxf \in MxfType /\ mxf.rip # <<>> /\ kind \in AllKinds
      /\ streamOffset \in Nat /\ framesWritten \in Nat /\ calls \in 0 .. MaxCalls
  BY DEF TypeInv, TypeOK, HasRip, WriteFrame, Writing
<1>2. offset \in Nat
  BY <1>1, StreamAdvanceType
<1>3. stored \in MxfType /\ stored.rip # <<>>
  <2>1. frame \in MxfType /\ frame.rip = mxf.rip
    BY <1>1, WritePacketsType
  <2> HIDE DEF frame
  <2>2. QED
    BY <1>1, <2>1, PushIndexEntryType DEF Indexed
<1> HIDE DEF stored, offset
<1>4. opened \in MxfType /\ opened.rip # <<>>
  <2>1. flushed \in MxfType
    BY <1>3, FlushType
  <2> HIDE DEF flushed
  <2>2. QED
    BY <1>2, <2>1, OpenBodyType
<1>5. /\ mxf' = opened \/ mxf' = stored
      /\ state' = "RUNNING"
      /\ streamOffset' = offset
      /\ framesWritten' \in {framesWritten, framesWritten + 1}
      /\ calls < MaxCalls /\ calls' = calls + 1
      /\ UNCHANGED <<kind, streams>>
  BY DEF WriteFrame, stored, offset
<1>6. last' \in Calls /\ faults' \in Seq(Met)
  <2>1. PICK r \in {"OK", "FAIL"} : Call("WriteFrame", f, r)
    BY DEF WriteFrame
  <2>2. QED
    BY <2>1, CallType DEF TypeInv
<1> HIDE DEF opened
<1>7. framesWritten' \in Nat /\ calls' \in 0 .. MaxCalls
  BY <1>1, <1>5, BoundAssumption
<1>8. QED
  BY <1>1, <1>2, <1>3, <1>4, <1>5, <1>6, <1>7 DEF TypeInv, TypeOK, HasRip, Calls, Met

LEMMA AddDmsType ==
  ASSUME TypeInv, NEW f \in Faults, AddDms(f)
  PROVE  TypeInv'
<1> DEFINE flushed == FlushIndexPartition(mxf, PackFault(f, "index"))
           added   == PutStream(flushed, MaxSid(flushed) + 1, f)
<1>1. mxf \in MxfType /\ mxf.rip # <<>> /\ framesWritten \in Nat
  BY DEF TypeInv, TypeOK, HasRip, AddDms, Writing
<1>2. flushed \in MxfType /\ flushed.rip # <<>>
  BY <1>1, FlushType
<1>3. added \in MxfType /\ added.rip # <<>>
  <2> HIDE DEF flushed
  <2>1. MaxSid(flushed) + 1 \in Nat
    BY <1>2, MaxSidType
  <2>2. QED
    BY <1>1, <1>2, <2>1, PutStreamType
<1>4. /\ mxf' = added
      /\ streams < MaxStreams /\ streams' = streams + 1
      /\ UNCHANGED <<kind, state, framesWritten, streamOffset, calls>>
  BY DEF AddDms
<1>5. last' \in Calls /\ faults' \in Seq(Met)
  BY CallType DEF TypeInv, AddDms
<1> HIDE DEF added
<1>6. streams' \in 0 .. MaxStreams
  BY <1>4, BoundAssumption DEF TypeInv, TypeOK
<1>7. QED
  BY <1>3, <1>4, <1>5, <1>6 DEF TypeInv, TypeOK, HasRip, Calls, Met

LEMMA AddDmsAfterFinalType ==
  ASSUME TypeInv, AddDmsAfterFinal
  PROVE  TypeInv'
<1>1. mxf \in MxfType /\ mxf.pos \in Nat
  BY DEF TypeInv, TypeOK, MxfType
<1>2. mxf' \in MxfType /\ mxf'.rip # <<>>
  <2>1. PICK at \in {0, mxf.pos} : mxf' = PushRip(mxf, MaxSid(mxf) + 1, at)
    BY DEF AddDmsAfterFinal
  <2>2. at \in Nat /\ MaxSid(mxf) + 1 \in Nat
    BY <1>1, <2>1, MaxSidType
  <2>3. QED
    BY <1>1, <2>1, <2>2, PushRipType
<1>3. PICK r \in {"OK", "FAIL", "ABORT"} :
        Call("AddDms", "none", r) /\ state' = IF r = "ABORT" THEN "ABORTED" ELSE state
  BY DEF AddDmsAfterFinal
<1>4. last' \in Calls /\ faults' \in Seq(Met)
  BY <1>3, CallType, NoneIsFault DEF TypeInv
<1>5. /\ streams < MaxStreams /\ streams' = streams + 1
      /\ UNCHANGED <<kind, framesWritten, streamOffset, calls>>
  BY DEF AddDmsAfterFinal
<1>6. streams' \in 0 .. MaxStreams
  BY <1>5, BoundAssumption DEF TypeInv, TypeOK
<1>7. state' \in {"BEGIN", "READY", "RUNNING", "FINAL", "ABORTED"}
  BY <1>3 DEF TypeInv, TypeOK
<1>8. QED
  BY <1>2, <1>4, <1>5, <1>6, <1>7 DEF TypeInv, TypeOK, HasRip, Calls, Met

LEMMA WriteAncillaryResourceType ==
  ASSUME TypeInv, NEW f \in Faults, WriteAncillaryResource(f)
  PROVE  TypeInv'
<1> DEFINE added == PutStream(mxf, EssenceStreamID, f)
<1>1. /\ mxf \in MxfType /\ mxf.rip # <<>>
      /\ framesWritten \in Nat /\ streamOffset \in Nat /\ streams \in Nat
  BY BoundAssumption DEF TypeInv, TypeOK, HasRip, WriteAncillaryResource
<1>2. added \in MxfType /\ added.rip # <<>>
  <2>1. EssenceStreamID \in Nat
    BY <1>1 DEF EssenceStreamID, FirstEssenceStreamID
  <2>2. QED
    BY <1>1, <2>1, PutStreamType
<1>3. /\ mxf' = added
      /\ streams < MaxStreams /\ streams' = streams + 1
      /\ streamOffset' \in {streamOffset, streamOffset + StreamLen}
      /\ UNCHANGED <<kind, state, framesWritten, calls>>
  BY DEF WriteAncillaryResource
<1>4. last' \in Calls /\ faults' \in Seq(Met)
  <2>1. PICK r \in {"OK", "FAIL"} : Call("WriteResource", f, r)
    BY DEF WriteAncillaryResource
  <2>2. QED
    BY <2>1, CallType DEF TypeInv
<1> HIDE DEF added
<1>5. streams' \in 0 .. MaxStreams /\ streamOffset' \in Nat
  BY <1>1, <1>3, BoundAssumption, LengthAssumption
<1>6. QED
  BY <1>2, <1>3, <1>4, <1>5 DEF TypeInv, TypeOK, HasRip, Calls, Met

LEMMA FinalizeType ==
  ASSUME TypeInv, NEW f \in Faults, NEW text \in BOOLEAN, NEW n \in Nat, Finalize(f, text, n)
  PROVE  TypeInv'
<1> DEFINE flushed == FlushIndexPartition(mxf, PackFault(f, "index"))
           body    == IF kind.master /\ text THEN PutStream(flushed, 2, f) ELSE flushed
           skipped == PushRip(body, 0, body.pos)
<1>1. mxf \in MxfType /\ mxf.rip # <<>> /\ framesWritten \in Nat /\ streamOffset \in Nat
  BY DEF TypeInv, TypeOK, HasRip, Finalize
<1>2. flushed \in MxfType /\ flushed.rip # <<>>
  BY <1>1, FlushType
<1>3. body \in MxfType /\ body.rip # <<>>
  <2> HIDE DEF flushed
  <2>1. PutStream(flushed, 2, f) \in MxfType /\ PutStream(flushed, 2, f).rip # <<>>
    BY <1>1, <1>2, PutStreamType
  <2>2. QED
    BY <1>2, <2>1
<1>4. n \in 1 .. Len(body.rip)
  BY DEF Finalize
<1>5. /\ mxf' = skipped \/ mxf' = Footer(body, f, n).file
      /\ state' = "FINAL"
      /\ streamOffset' \in {streamOffset, streamOffset + StreamLen}
      /\ UNCHANGED <<kind, framesWritten, calls, streams>>
  BY DEF Finalize
<1>6. last' \in Calls /\ faults' \in Seq(Met)
  <2>1. PICK r \in {"OK", "FAIL"} : Call("Finalize", f, r)
    BY DEF Finalize
  <2>2. QED
    BY <2>1, CallType DEF TypeInv
<1> HIDE DEF body
<1>7. skipped \in MxfType /\ skipped.rip # <<>>
  <2>1. body.pos \in Nat
    BY <1>3 DEF MxfType
  <2>2. QED
    BY <1>3, <2>1, PushRipType
<1> HIDE DEF skipped
<1>8. Footer(body, f, n).file \in MxfType /\ Footer(body, f, n).file.rip # <<>>
  BY <1>1, <1>3, <1>4, FooterType
<1>9. streamOffset' \in Nat
  BY <1>1, <1>5, LengthAssumption
<1>10. QED
  BY <1>1, <1>5, <1>6, <1>7, <1>8, <1>9 DEF TypeInv, TypeOK, HasRip, Calls, Met

LEMMA AfterFinalType ==
  ASSUME TypeInv, NEW len \in FrameLens, WriteFrameAfterFinal(len)
  PROVE  TypeInv'
<1> DEFINE q == mxf.queued + len
<1>1. len \in Nat /\ mxf \in MxfType /\ streamOffset \in Nat /\ framesWritten \in Nat
  BY LengthAssumption DEF TypeInv, TypeOK
<1>2. q \in Nat
  BY <1>1 DEF MxfType
<1>3. mxf' = [mxf EXCEPT !.queued = q]
  BY DEF WriteFrameAfterFinal
<1> HIDE DEF q
<1>4. mxf' \in MxfType /\ mxf'.rip = mxf.rip
  BY <1>1, <1>2, <1>3 DEF MxfType
<1>5. /\ streamOffset' = streamOffset + len
      /\ framesWritten' \in {framesWritten, framesWritten + 1}
      /\ calls < MaxCalls /\ calls' = calls + 1
      /\ UNCHANGED <<kind, state, streams>>
  BY DEF WriteFrameAfterFinal
<1>6. last' \in Calls /\ faults' \in Seq(Met)
  BY CallType, NoneIsFault DEF TypeInv, WriteFrameAfterFinal
<1>7. streamOffset' \in Nat /\ framesWritten' \in Nat /\ calls' \in 0 .. MaxCalls
  BY <1>1, <1>5, BoundAssumption DEF TypeInv, TypeOK
<1>8. QED
  BY <1>4, <1>5, <1>6, <1>7 DEF TypeInv, TypeOK, HasRip, Calls, Met

LEMMA StutterType ==
  ASSUME TypeInv, last' \in Calls, faults' \in Seq(Met), state' \in {state, "ABORTED"},
         UNCHANGED <<kind, mxf, framesWritten, streamOffset, calls, streams>>
  PROVE  TypeInv'
  BY DEF TypeInv, TypeOK, HasRip, Calls, Met

LEMMA NextType == TypeInv /\ [Next]_vars => TypeInv'
<1> SUFFICES ASSUME TypeInv, [Next]_vars PROVE TypeInv'
  OBVIOUS
<1>1. CASE \E f \in Faults : Open(f)
  BY <1>1, OpenType
<1>2. CASE \E len \in FrameLens, f \in Faults : \E lost \in 0 .. len : WriteFrame(len, f, lost)
  BY <1>2, WriteFrameType
<1>3. CASE WriteEmptyFrame
  BY <1>3, StutterType, CallType, NoneIsFault DEF WriteEmptyFrame, TypeInv
<1>4. CASE \E len \in FrameLens : WriteFrameAfterFinal(len)
  BY <1>4, AfterFinalType
<1>5. CASE \E f \in Faults : AssertIndexEntries(f)
  BY <1>5, StutterType, CallType DEF AssertIndexEntries, TypeInv
<1>6. CASE \E f \in Faults : AddDms(f)
  BY <1>6, AddDmsType
<1>7. CASE AddDmsAfterFinal
  BY <1>7, AddDmsAfterFinalType
<1>8. CASE \E f \in Faults, text \in BOOLEAN : \E n \in 1 .. Len(mxf.rip) + 2 : Finalize(f, text, n)
  <2>1. PICK f \in Faults, text \in BOOLEAN, n \in 1 .. Len(mxf.rip) + 2 : Finalize(f, text, n)
    BY <1>8
  <2>2. n \in Nat
    OBVIOUS
  <2>3. QED
    BY <2>1, <2>2, FinalizeType
<1>9. CASE AbortedWrite
  BY <1>9, StutterType, CallType DEF AbortedWrite, TypeInv
<1>10. CASE RefusedCall
  BY <1>10, StutterType, CallType, NoneIsFault DEF RefusedCall, TypeInv
<1>11. CASE \E f \in Faults : WriteAncillaryResource(f)
  BY <1>11, WriteAncillaryResourceType
<1>12. CASE UNCHANGED vars
  BY <1>12 DEF vars, TypeInv, TypeOK, HasRip
<1>13. QED
  BY <1>1, <1>2, <1>3, <1>4, <1>5, <1>6, <1>7, <1>8, <1>9, <1>10, <1>11, <1>12 DEF Next

\* In every behaviour of the writer, whatever it is called with and whichever
\* writes fail, its variables keep their types.
THEOREM TypeCorrect == Spec => []TypeOK
<1>1. TypeInv => TypeOK
  BY DEF TypeInv
<1>2. QED
  BY InitType, NextType, <1>1, PTL DEF Spec

-----------------------------------------------------------------------------
(* The inductive invariant, as conditions on a file *)

LastPack(m) == PackAt(m, m.rip[Len(m.rip)].at)

\* Every pack on disk lies before the file position
Behind(m) == \A p \in m.parts : p.at < m.pos

\* The index segments end at the last frame written
Numbered(m) ==
  /\ m.segs = <<>> => m.essence = <<>>
  /\ m.segs # <<>> => SegmentEnd(m.segs[Len(m.segs)]) = Len(m.essence)

\* WritePosition and IndexLocatesFrames of file m, for the body partition b
Positioned(m, b, offset) == m.pos + b.offset = b.at + PackLen + offset

Locates(m, b) ==
  \A i \in DOMAIN m.segs : \A j \in DOMAIN m.segs[i].entries :
    LET frame == m.segs[i].start + j
    IN  /\ frame \in DOMAIN m.essence
        /\ m.essence[frame] + b.offset = b.at + PackLen + m.segs[i].entries[j]

Regular(m) == m.queued = 0 /\ Behind(m) /\ Numbered(m)

Good(m, offset) ==
  /\ Regular(m)
  /\ LastPack(m).type = "body" =>
       /\ LastPack(m) \in Pack
       /\ Positioned(m, LastPack(m), offset)
       /\ Locates(m, LastPack(m))

Sound ==
  /\ state = "BEGIN" => streamOffset = 0
  /\ (Writing /\ Clean) => Good(mxf, streamOffset)

-----------------------------------------------------------------------------
(* The helpers on the file, when no fault is met *)

LEMMA PutPackExact ==
  ASSUME NEW m \in MxfType, NEW pack \in Pack
  PROVE  LET a == PutPack(m, pack, "none")
         IN  /\ a \in MxfType
             /\ a.pos = m.pos + PackLen
             /\ a.parts = m.parts \cup {pack}
             /\ a.rip = m.rip /\ a.segs = m.segs /\ a.essence = m.essence
             /\ a.queued = m.queued
<1> DEFINE pos   == m.pos + PackLen
           parts == m.parts \cup {pack}
           a     == PutPack(m, pack, "none")
<1>1. a = [m EXCEPT !.pos = pos, !.parts = parts]
  BY DEF PutPack
<1>2. a \in MxfType
  BY PutPackType
<1> HIDE DEF a, pos, parts
<1>3. /\ a.pos = pos /\ a.parts = parts /\ a.rip = m.rip /\ a.segs = m.segs
      /\ a.essence = m.essence /\ a.queued = m.queued
  BY <1>1 DEF MxfType
<1>4. QED
  BY <1>2, <1>3 DEF a, pos, parts

LEMMA PushRipExact ==
  ASSUME NEW m \in MxfType, NEW sid \in Nat, NEW at \in Nat
  PROVE  LET a == PushRip(m, sid, at)
         IN  /\ a \in MxfType
             /\ a.rip # <<>> /\ a.rip[Len(a.rip)].at = at
             /\ a.pos = m.pos /\ a.parts = m.parts
             /\ a.segs = m.segs /\ a.essence = m.essence
             /\ a.queued = m.queued
<1> DEFINE pair == [sid |-> sid, at |-> at]
           rip  == Append(m.rip, pair)
           a    == PushRip(m, sid, at)
<1>1. a = [m EXCEPT !.rip = rip]
  BY DEF PushRip
<1>2. a \in MxfType /\ a.rip # <<>>
  BY PushRipType
<1>3. rip[Len(rip)].at = at
  <2>1. pair \in Pair /\ m.rip \in Seq(Pair)
    BY DEF MxfType, Pair
  <2> HIDE DEF pair
  <2>2. rip[Len(rip)] = pair
    BY <2>1
  <2>3. QED
    BY <2>2 DEF pair
<1> HIDE DEF a, rip
<1>4. /\ a.rip = rip /\ a.pos = m.pos /\ a.parts = m.parts /\ a.segs = m.segs
      /\ a.essence = m.essence /\ a.queued = m.queued
  BY <1>1 DEF MxfType
<1>5. QED
  BY <1>2, <1>3, <1>4 DEF a

\* A pack written at the file position is the one its offset leads to
LEMMA NewLastPack ==
  ASSUME NEW m \in MxfType, Behind(m), NEW pack \in Pack, pack.at = m.pos,
         NEW a \in MxfType, a.parts = m.parts \cup {pack}, a.rip[Len(a.rip)].at = m.pos,
         a.pos >= m.pos + PackLen
  PROVE  LastPack(a) = pack /\ Behind(a)
<1>1. m.pos \in Nat /\ PackLen \in Nat \ {0} /\ m.parts \subseteq Pack /\ a.pos \in Nat
  BY LengthAssumption DEF MxfType
<1>2. \A p \in m.parts : p.at \in Nat /\ p.at < m.pos
  BY <1>1 DEF Behind, Pack
<1>3. \A p \in a.parts : p.at = m.pos => p = pack
  BY <1>1, <1>2
<1>4. LastPack(a) = pack
  BY <1>3 DEF LastPack, PackAt
<1>5. Behind(a)
  BY <1>1, <1>2 DEF Behind
<1>6. QED
  BY <1>4, <1>5

\* A new body partition starts with no pending index entry to mislead
LEMMA OpenBodyGood ==
  ASSUME NEW m \in MxfType, Regular(m), ~HasEntries(m), NEW offset \in Nat
  PROVE  Good(OpenBodyPartition(m, offset, "none"), offset)
<1> DEFINE pack == [NewPack(m.pos, "body", 1) EXCEPT !.offset = offset]
           w    == PutPack(m, pack, "none")
           a    == PushRip(w, 1, m.pos)
<1>1. m.pos \in Nat
  BY DEF MxfType
<1>2. pack \in Pack /\ pack.at = m.pos /\ pack.offset = offset
  <2> DEFINE new == NewPack(m.pos, "body", 1)
  <2>1. new \in Pack
    BY <1>1, NewPackType
  <2>2. new.at = m.pos
    BY DEF NewPack
  <2> HIDE DEF new
  <2>3. [new EXCEPT !.offset = offset] \in Pack
    BY <2>1 DEF Pack
  <2>4. [new EXCEPT !.offset = offset].at = m.pos /\ [new EXCEPT !.offset = offset].offset = offset
    BY <2>1, <2>2 DEF Pack
  <2>5. QED
    BY <2>3, <2>4 DEF new
<1>3. OpenBodyPartition(m, offset, "none") = a
  BY DEF OpenBodyPartition
<1> HIDE DEF pack
<1>4. /\ w \in MxfType /\ w.pos = m.pos + PackLen /\ w.parts = m.parts \cup {pack}
      /\ w.segs = m.segs /\ w.essence = m.essence /\ w.queued = m.queued
  BY <1>2, PutPackExact
<1> HIDE DEF w
<1>5. /\ a \in MxfType /\ a.rip[Len(a.rip)].at = m.pos
      /\ a.pos = w.pos /\ a.parts = w.parts /\ a.segs = w.segs /\ a.essence = w.essence
      /\ a.queued = w.queued
  <2> DEFINE pos == m.pos
  <2>1. w \in MxfType /\ pos \in Nat /\ 1 \in Nat
    BY <1>1, <1>4
  <2> HIDE DEF pos
  <2>2. /\ PushRip(w, 1, pos) \in MxfType
        /\ PushRip(w, 1, pos).rip[Len(PushRip(w, 1, pos).rip)].at = pos
        /\ PushRip(w, 1, pos).pos = w.pos /\ PushRip(w, 1, pos).parts = w.parts
        /\ PushRip(w, 1, pos).segs = w.segs /\ PushRip(w, 1, pos).essence = w.essence
        /\ PushRip(w, 1, pos).queued = w.queued
    BY ONLY <2>1, PushRipExact
  <2>3. QED
    BY ONLY <2>2 DEF a, pos
<1> HIDE DEF a
<1>6. LastPack(a) = pack /\ Behind(a)
  <2>1. a.pos >= m.pos + PackLen /\ a.parts = m.parts \cup {pack}
    BY <1>1, <1>4, <1>5, LengthAssumption
  <2>2. QED
    BY <1>2, <1>5, <2>1, NewLastPack DEF Regular
<1>7. Regular(a)
  BY <1>4, <1>5, <1>6 DEF Regular, Numbered
<1>8. Positioned(a, pack, offset)
  BY <1>1, <1>2, <1>4, <1>5, LengthAssumption DEF Positioned
<1>9. Locates(a, pack)
  <2>1. ~HasEntries(a)
    BY <1>4, <1>5 DEF HasEntries
  <2>2. a.segs \in Seq(Segment)
    BY <1>5 DEF MxfType
  <2>3. \A i \in DOMAIN a.segs : a.segs[i].entries = <<>>
    BY <2>1 DEF HasEntries
  <2>4. QED
    BY <2>3 DEF Locates
<1>10. QED
  BY <1>2, <1>3, <1>6, <1>7, <1>8, <1>9 DEF Good

-----------------------------------------------------------------------------
(* Flushing the index, and writing a frame *)

\* A flush keeps the numbering and leaves no entry pending
LEMMA FlushRegular ==
  ASSUME NEW m \in MxfType, Regular(m)
  PROVE  LET a == FlushIndexPartition(m, "none")
         IN  Regular(a) /\ ~HasEntries(a)
<1> DEFINE next == IF m.segs # <<>> THEN SegmentEnd(m.segs[Len(m.segs)]) ELSE 0
           new  == NewPack(m.pos, "index", 0)
           segs == m.segs
           pack == [new EXCEPT !.segs = segs]
           r    == PushRip(m, 0, m.pos)
           w    == PutPack(r, pack, "none")
           pos  == w.pos + IndexLen
           left == <<[start |-> next, entries |-> <<>>]>>
           b    == [w EXCEPT !.pos = pos, !.segs = left]
           a    == FlushIndexPartition(m, "none")
<1> SUFFICES Regular(a) /\ ~HasEntries(a)
  OBVIOUS
<1>1. a = IF ~HasEntries(m) THEN m ELSE b
  BY DEF FlushIndexPartition
<1>2. m.pos \in Nat /\ m.segs \in Seq(Segment)
  BY DEF MxfType
<1>3. pack \in Pack /\ pack.at = m.pos
  <2>1. new \in Pack
    BY <1>2, NewPackType
  <2>2. new.at = m.pos
    BY DEF NewPack
  <2>3. segs \in Seq(Segment)
    BY <1>2
  <2> HIDE DEF new, segs
  <2>4. QED
    BY <2>1, <2>2, <2>3 DEF Pack
<1>4. CASE ~HasEntries(m)
  BY <1>1, <1>4
<1>5. CASE HasEntries(m)
  <2> HIDE DEF next, new, segs, pack, pos, left
  <2>1. m.segs # <<>> /\ next = Len(m.essence)
    <3>1. m.segs # <<>>
      BY <1>5 DEF HasEntries
    <3>2. QED
      BY <3>1 DEF Regular, Numbered, next
  <2>2. r \in MxfType /\ r.pos = m.pos /\ r.parts = m.parts /\ r.essence = m.essence
          /\ r.queued = m.queued
    BY <1>2, PushRipExact
  <2> HIDE DEF r
  <2>3. w \in MxfType /\ w.pos = m.pos + PackLen /\ w.parts = m.parts \cup {pack}
          /\ w.essence = m.essence /\ w.queued = m.queued
    BY <1>3, <2>2, PutPackExact
  <2> HIDE DEF w
  <2>4. b.pos = pos /\ b.segs = left /\ b.parts = w.parts /\ b.essence = w.essence
          /\ b.queued = w.queued
    BY <2>3 DEF MxfType
  <2>5. pos \in Nat /\ m.pos < pos
    BY <1>2, <2>3, LengthAssumption DEF pos
  <2>6. left # <<>> /\ Len(left) = 1 /\ left[1].start = next /\ left[1].entries = <<>>
          /\ DOMAIN left = {1}
    BY DEF left
  <2> HIDE DEF b
  <2>7. Behind(b)
    <3>1. \A p \in m.parts : p.at \in Nat /\ p.at < m.pos
      BY DEF MxfType, Pack, Regular, Behind
    <3>2. QED
      BY <1>2, <1>3, <2>3, <2>4, <2>5, <3>1 DEF Behind
  <2>8. Numbered(b)
    <3>1. SegmentEnd(b.segs[Len(b.segs)]) = next
      <4>1. next \in Nat
        BY <2>1 DEF MxfType
      <4>2. QED
        BY <2>4, <2>6, <4>1 DEF SegmentEnd
    <3>2. QED
      BY <2>1, <2>3, <2>4, <2>6, <3>1 DEF Numbered
  <2>9. ~HasEntries(b)
    BY <2>4, <2>6 DEF HasEntries
  <2>10. Regular(b)
    BY <2>3, <2>4, <2>7, <2>8 DEF Regular
  <2>11. QED
    BY <1>1, <1>5, <2>9, <2>10
<1>6. QED
  BY <1>4, <1>5

\* The packets of a frame start at the file position and move it by their length
LEMMA WritePacketsExact ==
  ASSUME NEW m \in MxfType, m.queued = 0, NEW k \in AllKinds, NEW len \in FrameLens,
         NEW lost \in Nat
  PROVE  LET a == WritePackets(m, k, len, "none", lost)
         IN  /\ a.pos = m.pos + StreamAdvance(k, len, "none")
             /\ a.essence = Append(m.essence, m.pos)
             /\ a.parts = m.parts /\ a.rip = m.rip /\ a.segs = m.segs
             /\ a.queued = 0
<1> DEFINE p == m.pos + m.queued + FrameLen(k, len)
           q == 0
           e == Append(m.essence, m.pos + m.queued)
           a == WritePackets(m, k, len, "none", lost)
<1>1. a = [m EXCEPT !.pos = p, !.queued = q, !.essence = e]
  BY DEF WritePackets
<1>2. StreamAdvance(k, len, "none") = FrameLen(k, len)
  BY DEF StreamAdvance
<1>3. m.pos \in Nat /\ FrameLen(k, len) \in Nat
  BY FrameLensNat DEF MxfType
<1>4. p = m.pos + FrameLen(k, len) /\ e = Append(m.essence, m.pos)
  BY <1>3
<1> HIDE DEF a, p, q, e
<1>5. /\ a.pos = p /\ a.essence = e /\ a.queued = q /\ a.parts = m.parts /\ a.rip = m.rip
      /\ a.segs = m.segs
  BY <1>1 DEF MxfType
<1>6. QED
  BY <1>2, <1>4, <1>5 DEF a, q

\* A new index entry gets the number of the frame just written, and every other
\* entry stays what it was
LEMMA PushIndexEntryExact ==
  ASSUME NEW m0 \in MxfType, Numbered(m0),
         NEW m \in MxfType, m.segs = m0.segs, m.essence = Append(m0.essence, m0.pos),
         NEW offset \in Nat
  PROVE  LET a == PushIndexEntry(m, offset)
         IN  /\ a.pos = m.pos /\ a.parts = m.parts /\ a.rip = m.rip
             /\ a.essence = m.essence /\ a.queued = m.queued
             /\ Numbered(a)
             /\ \A i \in DOMAIN a.segs : \A j \in DOMAIN a.segs[i].entries :
                  \/ Kept(m, a, i, j)
                  \/ /\ a.segs[i].start + j = Len(m.essence)
                     /\ a.segs[i].entries[j] = offset
<1> DEFINE a == PushIndexEntry(m, offset)
           c == Len(m0.essence)
<1>1. PICK segs : a = [m EXCEPT !.segs = segs]
  BY DEF PushIndexEntry
<1> HIDE DEF a
<1>2. a.pos = m.pos /\ a.parts = m.parts /\ a.rip = m.rip /\ a.essence = m.essence /\ a.queued = m.queued
  BY <1>1 DEF MxfType
<1>3. "segs" \in DOMAIN m /\ m.segs \in Seq(SegmentsOf(Nat))
  BY DEF MxfType, Segment, SegmentsOf
<1>4. c \in Nat /\ Len(m.essence) = c + 1 /\ (m0.essence = <<>> => c = 0)
  BY DEF MxfType
<1>5. EndsAt(m.segs, c)
  BY <1>4 DEF EndsAt, Numbered
<1> HIDE DEF c
<1>6. OneMore(m, a, c, offset)
  <2>1. Numbering(m, Nat, c)
    BY <1>3, <1>5 DEF Numbering
  <2>2. QED
    BY <1>4, <2>1, PushIndexEntryNumbers DEF a
<1>7. Numbered(a)
  BY <1>2, <1>4, <1>6 DEF Numbered, EndsAt, OneMore
<1>8. QED
  BY <1>2, <1>4, <1>6, <1>7 DEF a, OneMore

\* A frame written and indexed in the same body partition
LEMMA StoreGood ==
  ASSUME NEW m \in MxfType, m.rip # <<>>, NEW k \in AllKinds, NEW len \in FrameLens,
         NEW lost \in 0 .. len, NEW offset \in Nat, Good(m, offset)
  PROVE  LET a == PushIndexEntry(WritePackets(m, k, len, "none", lost), offset)
         IN  Good(a, offset + StreamAdvance(k, len, "none"))
<1> DEFINE w == WritePackets(m, k, len, "none", lost)
           d == StreamAdvance(k, len, "none")
           a == PushIndexEntry(w, offset)
           b == LastPack(m)
<1> SUFFICES Good(a, offset + d)
  OBVIOUS
<1>1. d \in Nat /\ len \in Nat \ {0} /\ m.pos \in Nat /\ m.essence \in Seq(Nat)
  BY StreamAdvanceType, FrameLensNat DEF MxfType
<1>2. w \in MxfType
  BY WritePacketsType
<1>3. w.pos = m.pos + d /\ w.essence = Append(m.essence, m.pos) /\ w.parts = m.parts
        /\ w.rip = m.rip /\ w.segs = m.segs /\ w.queued = 0
  BY <1>1, WritePacketsExact DEF Good, Regular
<1> HIDE DEF w, d
<1>4. /\ a.pos = w.pos /\ a.parts = w.parts /\ a.rip = w.rip /\ a.essence = w.essence
      /\ a.queued = w.queued /\ Numbered(a)
      /\ \A i \in DOMAIN a.segs : \A j \in DOMAIN a.segs[i].entries :
           \/ Kept(w, a, i, j)
           \/ a.segs[i].start + j = Len(w.essence) /\ a.segs[i].entries[j] = offset
  BY <1>2, <1>3, PushIndexEntryExact DEF Good, Regular
<1> HIDE DEF a
<1>5. LastPack(a) = b
  BY <1>3, <1>4 DEF LastPack, PackAt
<1>6. Behind(a)
  <2>1. \A p \in m.parts : p.at \in Nat /\ p.at < m.pos
    BY DEF Good, Regular, Behind, MxfType, Pack
  <2>2. QED
    BY <1>1, <1>3, <1>4, <2>1 DEF Behind
<1>7. Regular(a)
  BY <1>3, <1>4, <1>6 DEF Regular
<1> HIDE DEF b
<1>8. ASSUME b.type = "body"
      PROVE  b \in Pack /\ Positioned(a, b, offset + d) /\ Locates(a, b)
  <2>1. b \in Pack /\ Positioned(m, b, offset) /\ Locates(m, b)
    BY <1>8 DEF Good, b
  <2>2. b.offset \in Nat /\ b.at \in Nat /\ PackLen \in Nat
    BY <2>1, LengthAssumption DEF Pack
  <2>3. Positioned(a, b, offset + d)
    <3>1. a.pos = m.pos + d
      BY <1>3, <1>4
    <3>2. m.pos + b.offset = b.at + PackLen + offset
      BY <2>1 DEF Positioned
    <3>3. m.pos + d + b.offset = b.at + PackLen + (offset + d)
      <4> DEFINE x == m.pos
                 y == b.offset
                 z == b.at + PackLen
      <4>1. x \in Nat /\ y \in Nat /\ z \in Nat /\ d \in Nat /\ x + y = z + offset
        BY <1>1, <2>2, <3>2
      <4> HIDE DEF x, y, z
      <4>2. x + d + y = z + (offset + d)
        BY <4>1
      <4>3. QED
        BY <4>2 DEF x, y, z
    <3>4. QED
      BY <3>1, <3>3 DEF Positioned
  <2>4. ASSUME NEW i \in DOMAIN a.segs, NEW j \in DOMAIN a.segs[i].entries
        PROVE  /\ a.segs[i].start + j \in DOMAIN a.essence
               /\ a.essence[a.segs[i].start + j] + b.offset
                    = b.at + PackLen + a.segs[i].entries[j]
    <3>1. /\ a.essence = Append(m.essence, m.pos) /\ DOMAIN a.essence = 1 .. Len(m.essence) + 1
          /\ Len(a.essence) = Len(m.essence) + 1 /\ Len(m.essence) \in Nat
          /\ DOMAIN m.essence = 1 .. Len(m.essence)
          /\ a.essence[Len(m.essence) + 1] = m.pos
          /\ \A n \in DOMAIN m.essence : n \in DOMAIN a.essence /\ a.essence[n] = m.essence[n]
      BY <1>1, <1>3, <1>4
    <3>2. CASE Kept(w, a, i, j)
      <4>1. /\ i \in DOMAIN m.segs /\ j \in DOMAIN m.segs[i].entries
            /\ a.segs[i].start = m.segs[i].start
            /\ a.segs[i].entries[j] = m.segs[i].entries[j]
        BY <1>3, <3>2 DEF Kept
      <4>2. /\ m.segs[i].start + j \in DOMAIN m.essence
            /\ m.essence[m.segs[i].start + j] + b.offset
                 = b.at + PackLen + m.segs[i].entries[j]
        BY <2>1, <4>1 DEF Locates
      <4>3. QED
        BY <3>1, <4>1, <4>2
    <3>3. CASE a.segs[i].start + j = Len(w.essence) /\ a.segs[i].entries[j] = offset
      <4>1. a.segs[i].start + j = Len(m.essence) + 1
        BY <1>3, <1>4, <3>1, <3>3
      <4>2. a.segs[i].start + j \in DOMAIN a.essence /\ a.essence[a.segs[i].start + j] = m.pos
        BY <3>1, <4>1
      <4>3. QED
        BY <2>1, <3>3, <4>2 DEF Positioned
    <3>4. QED
      BY <1>4, <3>2, <3>3
  <2>5. QED
    BY <2>1, <2>3, <2>4 DEF Locates
<1>9. QED
  BY <1>5, <1>7, <1>8 DEF Good

-----------------------------------------------------------------------------
(* The actions *)

LEMMA AppendNonEmpty ==
  ASSUME NEW S, NEW s \in Seq(S), NEW x \in S
  PROVE  Append(s, x) # <<>>
<1>1. Len(Append(s, x)) = Len(s) + 1 /\ Len(s) \in Nat
  OBVIOUS
<1>2. QED
  BY <1>1

LEMMA CleanCall ==
  ASSUME TypeInv, NEW op, NEW f \in Faults \cup {"assert"}, NEW r, Call(op, f, r), Clean'
  PROVE  f = "none" /\ Clean
<1>1. faults \in Seq(Met)
  BY DEF TypeInv, TypeOK, Met
<1>2. faults' = IF f = "none" THEN faults
                ELSE Append(faults, [fault |-> f, frames |-> Len(mxf.essence)])
  BY DEF Call
<1>3. Append(faults, [fault |-> f, frames |-> Len(mxf.essence)]) # <<>>
  <2> DEFINE met == [fault |-> f, frames |-> Len(mxf.essence)]
  <2>1. mxf.essence \in Seq(Nat)
    BY DEF TypeInv, TypeOK, MxfType
  <2>2. met \in Met
    BY <2>1 DEF Met
  <2> HIDE DEF met
  <2>3. Append(faults, met) # <<>>
    BY <1>1, <2>2, AppendNonEmpty
  <2>4. QED
    BY <2>3 DEF met
<1>4. QED
  BY <1>2, <1>3 DEF Clean

LEMMA NoPackFault ==
  ASSUME NEW part \in {"firstBody", "index", "body", "stream", "footer", "rip", "relink"}
  PROVE  PackFault("none", part) = "none"
  BY DEF PackFault, Torn

LEMMA OpenGood ==
  ASSUME TypeInv, NEW f \in Faults, Open(f), Sound
  PROVE  Sound'
<1> DEFINE new    == NewPack(0, "header", 0)
           parts  == {new}
           header == [Empty EXCEPT !.pos = HeaderLen, !.parts = parts]
           r      == PushRip(header, 0, 0)
<1>1. streamOffset' = 0
  BY DEF Open, Sound
<1> SUFFICES ASSUME Writing', Clean' PROVE Good(mxf', 0)
  BY <1>1 DEF Sound
<1>2. f = "none"
  <2>1. PICK x : Call("OpenWrite", f, x)
    BY DEF Open
  <2>2. QED
    BY <2>1, CleanCall
<1>3. mxf' = OpenBodyPartition(r, 0, "none")
  BY <1>2, NoPackFault DEF Open
<1>4. new \in Pack /\ new.at = 0
  <2>1. new.at = 0
    BY DEF NewPack
  <2>2. QED
    BY <2>1, NewPackType
<1> HIDE DEF new
<1>5. header \in MxfType /\ header.pos = HeaderLen /\ header.parts = {new}
        /\ header.segs = <<>> /\ header.essence = <<>> /\ header.queued = 0
  <2>1. HeaderLen \in Nat /\ parts \in SUBSET Pack
    BY <1>4, LengthAssumption
  <2>2. Empty.segs = <<>> /\ Empty.essence = <<>> /\ Empty.queued = 0
    BY DEF Empty
  <2> HIDE DEF parts
  <2>3. header \in MxfType /\ header.pos = HeaderLen /\ header.parts = parts
          /\ header.segs = Empty.segs /\ header.essence = Empty.essence
          /\ header.queued = Empty.queued
    BY <2>1, EmptyType DEF MxfType
  <2>4. QED
    BY <2>2, <2>3 DEF parts
<1> HIDE DEF header
<1>6. /\ r \in MxfType /\ r.pos = HeaderLen /\ r.parts = {new}
      /\ r.segs = <<>> /\ r.essence = <<>> /\ r.queued = 0
  <2> DEFINE zero == 0
             a    == PushRip(header, zero, zero)
  <2>1. zero \in Nat
    OBVIOUS
  <2>2. r = a
    OBVIOUS
  <2> HIDE DEF zero, r
  <2>3. /\ a \in MxfType /\ a.pos = header.pos /\ a.parts = header.parts
        /\ a.segs = header.segs /\ a.essence = header.essence /\ a.queued = header.queued
    BY <1>5, <2>1, PushRipExact
  <2> HIDE DEF a
  <2>4. QED
    BY <1>5, <2>2, <2>3
<1> HIDE DEF r
<1>7. Regular(r) /\ ~HasEntries(r)
  BY <1>4, <1>6, LengthAssumption DEF Regular, Behind, Numbered, HasEntries
<1>8. QED
  BY <1>3, <1>6, <1>7, OpenBodyGood

LEMMA WriteFrameGood ==
  ASSUME TypeInv, NEW len \in FrameLens, NEW f \in Faults, NEW lost \in 0 .. len,
         WriteFrame(len, f, lost), Sound
  PROVE  Sound'
<1> DEFINE stored == PushIndexEntry(WritePackets(mxf, kind, len, "none", lost), streamOffset)
           offset == streamOffset + StreamAdvance(kind, len, "none")
           idx    == FlushIndexPartition(stored, "none")
<1>1. state' = "RUNNING" /\ Writing /\ (PartitionFull => HasEntries(Indexed(WritePackets(mxf, kind, len, f, lost), f)))
  BY DEF WriteFrame
<1> SUFFICES ASSUME Clean' PROVE Good(mxf', streamOffset')
  BY <1>1 DEF Sound
<1>2. f = "none" /\ Clean
  <2>1. PICK x : Call("WriteFrame", f, x)
    BY DEF WriteFrame
  <2>2. QED
    BY <2>1, CleanCall
<1>3. Good(mxf, streamOffset) /\ mxf \in MxfType /\ streamOffset \in Nat /\ kind \in AllKinds
        /\ mxf.rip # <<>>
  BY <1>1, <1>2 DEF Sound, TypeInv, TypeOK, HasRip, Writing
<1>4. Indexed(WritePackets(mxf, kind, len, f, lost), f) = stored
  BY <1>2 DEF Indexed, FrameFaults
<1>5. streamOffset' = offset
  BY <1>2 DEF WriteFrame
<1>6. mxf' = IF PartitionFull THEN OpenBodyPartition(idx, offset, "none") ELSE stored
  BY <1>2, <1>4, NoPackFault DEF WriteFrame
<1>7. Good(stored, offset)
  BY <1>3, StoreGood
<1>8. stored \in MxfType /\ offset \in Nat
  <2>1. WritePackets(mxf, kind, len, "none", lost) \in MxfType
    BY <1>3, WritePacketsType
  <2>2. StreamAdvance(kind, len, "none") \in Nat
    BY <1>3, StreamAdvanceType
  <2>3. stored \in MxfType
    BY <1>3, <2>1, PushIndexEntryType
  <2>4. offset \in Nat
    BY <1>3, <2>2
  <2>5. QED
    BY <2>3, <2>4
<1> HIDE DEF stored, offset
<1>9. Good(OpenBodyPartition(idx, offset, "none"), offset)
  <2>1. Regular(idx) /\ ~HasEntries(idx)
    BY <1>7, <1>8, FlushRegular DEF Good
  <2>2. idx \in MxfType
    BY <1>8, FlushType
  <2> HIDE DEF idx
  <2>3. QED
    BY <1>8, <2>1, <2>2, OpenBodyGood
<1>10. QED
  BY <1>5, <1>6, <1>7, <1>9

\* A generic-stream partition is no body partition: until the next one starts,
\* nothing is claimed of the offsets
LEMMA PutStreamGood ==
  ASSUME NEW m \in MxfType, Regular(m), m.rip # <<>>, NEW sid \in Nat,
         framesWritten \in Nat, NEW offset
  PROVE  Good(PutStream(m, sid, "none"), offset)
<1> DEFINE prev == m.rip[Len(m.rip)].at
           hmac == framesWritten + 1
           new  == NewPack(m.pos, "stream", sid)
           pack == [new EXCEPT !.prev = prev, !.hmac = hmac]
           r    == PushRip(m, sid, m.pos)
           w    == PutPack(r, pack, "none")
           pos  == w.pos + w.queued + StreamLen
           q    == 0
           a    == [w EXCEPT !.pos = pos, !.queued = q]
<1>1. PutStream(m, sid, "none") = a
  BY NoPackFault DEF PutStream
<1>2. m.pos \in Nat /\ prev \in Nat /\ hmac \in Nat
  <2>1. m.rip \in Seq(Pair) /\ m.pos \in Nat
    BY DEF MxfType
  <2>2. Len(m.rip) \in DOMAIN m.rip
    BY <2>1
  <2>3. QED
    BY <2>1, <2>2, RipEntries
<1> HIDE DEF prev, hmac
<1>3. pack \in Pack /\ pack.at = m.pos /\ pack.type = "stream"
  <2>1. new \in Pack
    BY <1>2, NewPackType
  <2>2. new.at = m.pos /\ new.type = "stream"
    BY DEF NewPack
  <2> HIDE DEF new
  <2>3. QED
    BY <1>2, <2>1, <2>2 DEF Pack
<1> HIDE DEF pack
<1>4. /\ r \in MxfType /\ r.rip[Len(r.rip)].at = m.pos /\ r.pos = m.pos /\ r.parts = m.parts
      /\ r.segs = m.segs /\ r.essence = m.essence /\ r.queued = m.queued
  <2>1. m \in MxfType /\ sid \in Nat /\ m.pos \in Nat
    BY <1>2
  <2>2. PICK at : at = m.pos
    OBVIOUS
  <2>3. LET b == PushRip(m, sid, at)
        IN  /\ b \in MxfType /\ b.rip[Len(b.rip)].at = at
            /\ b.pos = m.pos /\ b.parts = m.parts
            /\ b.segs = m.segs /\ b.essence = m.essence /\ b.queued = m.queued
    BY <2>1, <2>2, PushRipExact
  <2>4. QED
    BY <2>2, <2>3
<1> HIDE DEF r
<1>5. /\ w \in MxfType /\ w.rip = r.rip /\ w.pos = m.pos + PackLen
      /\ w.parts = m.parts \cup {pack} /\ w.segs = m.segs /\ w.essence = m.essence
      /\ w.queued = m.queued
  BY <1>3, <1>4, PutPackExact
<1> HIDE DEF w
<1>6. pos \in Nat /\ pos >= m.pos + PackLen
  <2>1. w.queued = 0
    BY <1>5 DEF Regular
  <2>2. QED
    BY <1>2, <1>5, <2>1, LengthAssumption
<1>7. q = 0 /\ q \in Nat
  OBVIOUS
<1> HIDE DEF pos, q
<1>8. /\ a \in MxfType /\ a.pos = pos /\ a.queued = q /\ a.rip = w.rip /\ a.parts = w.parts
      /\ a.segs = w.segs /\ a.essence = w.essence
  BY <1>5, <1>6, <1>7 DEF MxfType
<1> HIDE DEF a
<1>9. LastPack(a) = pack /\ Behind(a)
  BY <1>3, <1>4, <1>5, <1>6, <1>8, NewLastPack DEF Regular
<1>10. Regular(a)
  BY <1>5, <1>7, <1>8, <1>9 DEF Regular, Numbered
<1>11. QED
  BY <1>1, <1>3, <1>9, <1>10 DEF Good

LEMMA AddDmsGood ==
  ASSUME TypeInv, NEW f \in Faults, AddDms(f), Sound
  PROVE  Sound'
<1> DEFINE m   == FlushIndexPartition(mxf, "none")
           sid == MaxSid(m) + 1
<1>1. Writing /\ state' = state
  BY DEF AddDms
<1> SUFFICES ASSUME Clean' PROVE Good(mxf', streamOffset')
  BY <1>1 DEF Sound, Writing
<1>2. f = "none" /\ Clean
  <2>1. Call("AddDms", f, "OK")
    BY DEF AddDms
  <2>2. QED
    BY <2>1, CleanCall
<1>3. Good(mxf, streamOffset) /\ mxf \in MxfType /\ mxf.rip # <<>> /\ framesWritten \in Nat
  BY <1>1, <1>2 DEF Sound, TypeInv, TypeOK, HasRip, Writing
<1>4. mxf' = PutStream(m, sid, "none")
  BY <1>2, NoPackFault DEF AddDms
<1>5. Regular(m) /\ m \in MxfType /\ m.rip # <<>>
  BY <1>3, FlushRegular, FlushType DEF Good
<1> HIDE DEF m
<1>6. sid \in Nat
  BY <1>5, MaxSidType
<1> HIDE DEF sid
<1>7. QED
  BY <1>3, <1>4, <1>5, <1>6, PutStreamGood

\* The payload of a resource moves m_StreamOffset and its pack does not: the claim
\* about the offsets lapses until OpenBodyPartition records m_StreamOffset again.
LEMMA WriteAncillaryResourceGood ==
  ASSUME TypeInv, NEW f \in Faults, WriteAncillaryResource(f), Sound
  PROVE  Sound'
<1>1. state = "RUNNING" /\ state' = state
  BY DEF WriteAncillaryResource
<1> SUFFICES ASSUME Clean' PROVE Good(mxf', streamOffset')
  BY <1>1 DEF Sound, Writing
<1>2. f = "none" /\ Clean
  <2>1. PICK r \in {"OK", "FAIL"} : Call("WriteResource", f, r)
    BY DEF WriteAncillaryResource
  <2>2. QED
    BY <2>1, CleanCall
<1>3. /\ Good(mxf, streamOffset) /\ mxf \in MxfType /\ mxf.rip # <<>>
      /\ framesWritten \in Nat /\ streams \in Nat
  BY <1>1, <1>2, BoundAssumption DEF Sound, TypeInv, TypeOK, HasRip, Writing
<1>4. mxf' = PutStream(mxf, EssenceStreamID, "none")
  BY <1>2 DEF WriteAncillaryResource
<1>5. EssenceStreamID \in Nat
  BY <1>3 DEF EssenceStreamID, FirstEssenceStreamID
<1>6. QED
  BY <1>3, <1>4, <1>5, PutStreamGood DEF Good

\* The calls that leave the file alone, and those that end the writing
LEMMA StutterGood ==
  ASSUME TypeInv, Sound, UNCHANGED <<state, mxf, streamOffset>>, Clean' => Clean
  PROVE  Sound'
  BY DEF Sound, Writing

LEMMA EndGood ==
  ASSUME state' \in {"FINAL", "ABORTED"}
  PROVE  Sound'
  BY DEF Sound, Writing

LEMMA NextGood == TypeInv /\ Sound /\ [Next]_vars => Sound'
<1> SUFFICES ASSUME TypeInv, Sound, [Next]_vars PROVE Sound'
  OBVIOUS
<1>1. CASE \E f \in Faults : Open(f)
  BY <1>1, OpenGood
<1>2. CASE \E len \in FrameLens, f \in Faults : \E lost \in 0 .. len : WriteFrame(len, f, lost)
  BY <1>2, WriteFrameGood
<1>3. CASE WriteEmptyFrame
  <2>1. Clean' => Clean
    BY <1>3, CleanCall, NoneIsFault DEF WriteEmptyFrame
  <2>2. QED
    BY <1>3, <2>1, StutterGood DEF WriteEmptyFrame
<1>4. CASE \E len \in FrameLens : WriteFrameAfterFinal(len)
  BY <1>4, EndGood DEF WriteFrameAfterFinal
<1>5. CASE \E f \in Faults : AssertIndexEntries(f)
  BY <1>5, EndGood DEF AssertIndexEntries
<1>6. CASE \E f \in Faults : AddDms(f)
  BY <1>6, AddDmsGood
<1>7. CASE AddDmsAfterFinal
  BY <1>7, EndGood DEF AddDmsAfterFinal
<1>8. CASE \E f \in Faults, text \in BOOLEAN : \E n \in 1 .. Len(mxf.rip) + 2 : Finalize(f, text, n)
  BY <1>8, EndGood DEF Finalize
<1>9. CASE AbortedWrite
  BY <1>9, EndGood DEF AbortedWrite
<1>10. CASE RefusedCall
  <2>1. Clean' => Clean
    BY <1>10, CleanCall, NoneIsFault DEF RefusedCall
  <2>2. QED
    BY <1>10, <2>1, StutterGood DEF RefusedCall
<1>11. CASE \E f \in Faults : WriteAncillaryResource(f)
  BY <1>11, WriteAncillaryResourceGood
<1>12. CASE UNCHANGED vars
  BY <1>12, StutterGood DEF vars, Clean
<1>13. QED
  BY <1>1, <1>2, <1>3, <1>4, <1>5, <1>6, <1>7, <1>8, <1>9, <1>10, <1>11, <1>12 DEF Next

LEMMA InvHolds == Spec => [](TypeInv /\ Sound)
<1>1. Init => TypeInv /\ Sound
  BY InitType DEF Init, Sound, Writing
<1>2. QED
  BY <1>1, NextType, NextGood, PTL DEF Spec

-----------------------------------------------------------------------------

\* As long as no fault was met, m_StreamOffset and the BodyOffset of the current
\* body partition agree with the file position, however the calls follow another.
THEOREM WritePositionHolds == Spec => []WritePosition
<1>1. Sound => WritePosition
  BY DEF Sound, WritePosition, InBody, LastBody, LastPack, Good, Positioned
<1>2. QED
  BY InvHolds, <1>1, PTL

\* Under the same condition every pending index entry leads to the place where
\* the frame with its number was written.
THEOREM IndexLocatesFramesHolds == Spec => []IndexLocatesFrames
<1>1. Sound => IndexLocatesFrames
  BY DEF Sound, IndexLocatesFrames, InBody, LastBody, LastPack, Good, Locates
<1>2. QED
  BY InvHolds, <1>1, PTL

-----------------------------------------------------------------------------
(* The layout of a file that is being written *)

\* Every entry of the RIP leads to a pack
Listed(m) == \A i \in DOMAIN m.rip : Resolves(m, m.rip[i].at)

\* The header and the first body partition come first
Begun(m) ==
  /\ m.pos > 0 /\ Len(m.rip) >= 2
  /\ m.rip[1] = [sid |-> 0, at |-> 0] /\ m.rip[2].sid = 1

\* The type of a pack goes with its place and its SID
Kinded(p) ==
  /\ p.type = "header" <=> p.at = 0
  /\ p.type = "body" <=> p.sid = 1
  /\ p.type = "stream" <=> p.sid > 1

\* Every pack lies before the file position, has its place to itself and is listed
Known(m) ==
  /\ \A p \in m.parts :
       /\ p.at < m.pos /\ Kinded(p)
       /\ \E i \in DOMAIN m.rip : m.rip[i].at = p.at /\ m.rip[i].sid = p.sid
  /\ \A p, q \in m.parts : p.at = q.at => p = q

\* Every frame lies before the file position, and there is no footer yet
Growing(m) ==
  /\ \A k \in DOMAIN m.essence : m.essence[k] < m.pos
  /\ \A p \in m.parts : p.type # "footer"

\* The RIP lists places in the order of the file
Ordered(m) ==
  \A i \in DOMAIN m.rip :
    m.rip[i].at < m.pos /\ \A j \in DOMAIN m.rip : j < i => m.rip[j].at < m.rip[i].at

\* A generic-stream partition and its payload reach no other partition
Room(m) ==
  \A p \in m.parts : p.type = "stream" =>
    /\ p.at + (PackLen + StreamLen) <= m.pos
    /\ \A i \in DOMAIN m.rip : m.rip[i].at > p.at => m.rip[i].at >= p.at + (PackLen + StreamLen)

\* The SIDs of generic streams: no two are the same, and there is one to come
Distinct(m) ==
  \A i, j \in DOMAIN m.rip : m.rip[i].sid > 1 /\ m.rip[i].sid = m.rip[j].sid => i = j
SidsBelow(m, top) == \A i \in DOMAIN m.rip : m.rip[i].sid < top

-----------------------------------------------------------------------------
(* The index of a file that is being written.  Place i > 0 is that of the  *)
(* index partition of entry i of the RIP, place 0 that of the pending      *)
(* segments, which the next index partition will hold.                     *)

BodiesOf(m) == {i \in DOMAIN m.rip : m.rip[i].sid = 1}
IndexesOf(m) == {i \in DOMAIN m.rip : \E p \in m.parts : p.at = m.rip[i].at /\ p.type = "index"}
UpTo(entries, i) == Cardinality({j \in entries : j <= i})

Places(m) == {0} \cup IndexesOf(m)
SegsAt(m, i) == IF i = 0 THEN m.segs ELSE PackAt(m, m.rip[i].at).segs

\* The number, among the index partitions, of the one at a place
RankOf(m, i) ==
  IF i = 0 THEN Cardinality(IndexesOf(m)) + 1 ELSE UpTo(IndexesOf(m), i)

\* Frame k is where an index entry says that is paired with the body partition b
LeadsTo(m, k, b, entry) ==
  \E p \in m.parts : p.at = m.rip[b].at /\ m.essence[k] + p.offset = p.at + PackLen + entry

HasStream(m) == \E p \in m.parts : p.type = "stream"
DisplacedIn(m, k) ==
  \E p \in m.parts :
    /\ p.type = "stream" /\ p.at < m.essence[k]
    /\ kind.ancillary =>
         ~ \E b \in m.parts : b.type = "body" /\ p.at < b.at /\ b.at < m.essence[k]

\* Every index entry stands for a frame, and the first c of them are found
Found(m, i, k, entry) ==
  \E b \in BodiesOf(m) : UpTo(BodiesOf(m), b) = RankOf(m, i) /\ LeadsTo(m, k, b, entry)
Leading(m, c) ==
  \A i \in Places(m) :
    \A j \in DOMAIN SegsAt(m, i) : \A e \in DOMAIN SegsAt(m, i)[j].entries :
      LET k == SegsAt(m, i)[j].start + e
      IN  /\ k \in DOMAIN m.essence
          /\ k <= c => DisplacedIn(m, k) \/ Found(m, i, k, SegsAt(m, i)[j].entries[e])

\* No two index entries stand for the same frame
Unique(m) ==
  \A i1, i2 \in Places(m) :
    \A j1 \in DOMAIN SegsAt(m, i1), j2 \in DOMAIN SegsAt(m, i2) :
      \A e1 \in DOMAIN SegsAt(m, i1)[j1].entries, e2 \in DOMAIN SegsAt(m, i2)[j2].entries :
        SegsAt(m, i1)[j1].start + e1 = SegsAt(m, i2)[j2].start + e2 => i1 = i2 /\ j1 = j2

\* Every frame has an index entry
Covers(m) ==
  \A k \in DOMAIN m.essence :
    \E i \in Places(m) : \E j \in DOMAIN SegsAt(m, i) : \E e \in DOMAIN SegsAt(m, i)[j].entries :
      k = SegsAt(m, i)[j].start + e

\* The body partition that the pending entries will be paired with is the current
\* one, unless a text has taken its place
Balanced(m) ==
  \/ kind.dms /\ HasStream(m)
  \/ Cardinality(BodiesOf(m)) = Cardinality(IndexesOf(m)) + 1

\* The last pack is that of a body partition or of a generic stream
Ready(m) == m.rip[Len(m.rip)].sid >= 1

Numbers(m, c) == Numbered(m) /\ Leading(m, c) /\ Unique(m) /\ Covers(m)

-----------------------------------------------------------------------------
(* The inductive invariant: TypeInv /\ Core /\ Indexing, where Core does   *)
(* not need Indexing.                                                      *)

\* The frames that no fault has touched
Trusted == IF Unharmed THEN Len(mxf.essence) ELSE faults[1].frames

Intact == Unharmed \/ PackLost > 0

History ==
  /\ state = "BEGIN" => mxf = Empty /\ streamOffset = 0
  /\ Writing => mxf.disk = <<>>
  /\ faults # <<>> => faults[1].frames <= Len(mxf.essence)

Layout ==
  Writing =>
    /\ Begun(mxf) /\ Known(mxf) /\ Growing(mxf) /\ Distinct(mxf)
    /\ kind.ancillary => SidsBelow(mxf, EssenceStreamID)
    /\ kind.master => SidsBelow(mxf, 2)
    /\ kind.dms => SidsBelow(mxf, streams + 2)
    /\ Intact => Ordered(mxf)

\* The condition under which m_StreamOffset says where the file position is
Steady ==
  Writing /\ Unharmed =>
    /\ Listed(mxf) /\ mxf.queued = 0
    /\ LastPack(mxf).type = "body" => Positioned(mxf, LastPack(mxf), streamOffset)

Roomy == Writing /\ Clean => Room(mxf)

Indexing ==
  Writing /\ Intact /\ Listed(mxf) =>
    Balanced(mxf) /\ Ready(mxf) /\ Numbers(mxf, Trusted)

Core == History /\ Layout /\ Steady /\ Roomy

-----------------------------------------------------------------------------
(* What the helpers of the writer do to the packs and the RIP: they move   *)
(* the file position, they list a pack that is written, or they list one   *)
(* that is lost.                                                           *)

Appends(m, a, sid) ==
  LET n == Len(m.rip)
  IN  /\ n \in Nat /\ DOMAIN m.rip = 1 .. n
      /\ Len(a.rip) = n + 1 /\ DOMAIN a.rip = 1 .. n + 1
      /\ \A i \in 1 .. n : a.rip[i] = m.rip[i]
      /\ a.rip[n + 1].sid = sid /\ a.rip[n + 1].at = m.pos

Moves(m, a) == a.rip = m.rip /\ a.parts = m.parts /\ a.disk = m.disk /\ a.pos >= m.pos

Lists(m, a, pack) ==
  /\ pack \in Pack /\ pack.at = m.pos
  /\ Appends(m, a, pack.sid)
  /\ a.parts = m.parts \cup {pack}
  /\ a.pos >= m.pos + PackLen
  /\ a.essence = m.essence /\ a.disk = m.disk

Loses(m, a, sid) ==
  /\ Appends(m, a, sid)
  /\ a.parts = m.parts
  /\ a.pos >= m.pos + PackLost
  /\ a.essence = m.essence /\ a.disk = m.disk

LEMMA PushRipAppends ==
  ASSUME NEW m \in MxfType, NEW sid \in Nat
  PROVE  LET a == PushRip(m, sid, m.pos)
         IN  /\ a \in MxfType /\ Appends(m, a, sid)
             /\ a.pos = m.pos /\ a.parts = m.parts /\ a.segs = m.segs
             /\ a.essence = m.essence /\ a.queued = m.queued /\ a.disk = m.disk
             /\ a.duration = m.duration
<1> DEFINE pair == [sid |-> sid, at |-> m.pos]
           rip  == Append(m.rip, pair)
           a    == PushRip(m, sid, m.pos)
<1>1. a = [m EXCEPT !.rip = rip]
  BY DEF PushRip
<1>2. m.pos \in Nat /\ m.rip \in Seq(Pair)
  BY DEF MxfType
<1>3. a \in MxfType
  BY <1>2, PushRipType
<1>4. pair \in Pair /\ pair.sid = sid /\ pair.at = m.pos
  BY <1>2 DEF Pair
<1> HIDE DEF pair
<1>5. /\ Len(m.rip) \in Nat /\ DOMAIN m.rip = 1 .. Len(m.rip)
      /\ Len(rip) = Len(m.rip) + 1 /\ DOMAIN rip = 1 .. Len(m.rip) + 1
      /\ \A i \in 1 .. Len(m.rip) : rip[i] = m.rip[i]
      /\ rip[Len(m.rip) + 1] = pair
  BY <1>2, <1>4
<1> HIDE DEF a, rip
<1>6. /\ a.rip = rip /\ a.pos = m.pos /\ a.parts = m.parts /\ a.segs = m.segs
      /\ a.essence = m.essence /\ a.queued = m.queued /\ a.disk = m.disk
      /\ a.duration = m.duration
  BY <1>1 DEF MxfType
<1>7. Appends(m, a, sid)
  BY <1>4, <1>5, <1>6 DEF Appends
<1>8. QED
  BY <1>3, <1>6, <1>7 DEF a

LEMMA PutPackDoes ==
  ASSUME NEW m \in MxfType, NEW pack \in Pack, NEW f
  PROVE  LET a == PutPack(m, pack, f)
         IN  /\ a \in MxfType
             /\ a.pos = m.pos + (IF f = "none" THEN PackLen ELSE PackLost)
             /\ a.parts = IF f = "none" THEN m.parts \cup {pack} ELSE m.parts
             /\ a.rip = m.rip /\ a.segs = m.segs /\ a.essence = m.essence
             /\ a.queued = m.queued /\ a.disk = m.disk /\ a.duration = m.duration
<1> DEFINE pos   == m.pos + (IF f = "none" THEN PackLen ELSE PackLost)
           parts == IF f = "none" THEN m.parts \cup {pack} ELSE m.parts
           a     == PutPack(m, pack, f)
<1>1. a = [m EXCEPT !.pos = pos, !.parts = parts]
  BY DEF PutPack
<1>2. a \in MxfType
  BY PutPackType
<1> HIDE DEF a, pos, parts
<1>3. /\ a.pos = pos /\ a.parts = parts /\ a.rip = m.rip /\ a.segs = m.segs
      /\ a.essence = m.essence /\ a.queued = m.queued /\ a.disk = m.disk
      /\ a.duration = m.duration
  BY <1>1 DEF MxfType
<1>4. QED
  BY <1>2, <1>3 DEF a, pos, parts

\* A pack that is listed and then written, or lost
LEMMA PushThenPut ==
  ASSUME NEW m \in MxfType, NEW pack \in Pack, pack.at = m.pos, NEW f
  PROVE  LET a == PutPack(PushRip(m, pack.sid, m.pos), pack, f)
         IN  /\ a \in MxfType
             /\ f = "none" => Lists(m, a, pack) /\ a.pos = m.pos + PackLen
             /\ f # "none" => Loses(m, a, pack.sid) /\ a.pos = m.pos + PackLost
             /\ a.segs = m.segs /\ a.queued = m.queued /\ a.duration = m.duration
<1> DEFINE r == PushRip(m, pack.sid, m.pos)
           a == PutPack(r, pack, f)
<1>1. pack.sid \in Nat /\ m.pos \in Nat /\ PackLen \in Nat /\ PackLost \in Nat
  BY LengthAssumption DEF Pack, MxfType
<1>2. /\ r \in MxfType /\ Appends(m, r, pack.sid)
      /\ r.pos = m.pos /\ r.parts = m.parts /\ r.segs = m.segs
      /\ r.essence = m.essence /\ r.queued = m.queued /\ r.disk = m.disk
      /\ r.duration = m.duration
  BY <1>1, PushRipAppends
<1> HIDE DEF r
<1>3. /\ a \in MxfType
      /\ a.pos = r.pos + (IF f = "none" THEN PackLen ELSE PackLost)
      /\ a.parts = IF f = "none" THEN r.parts \cup {pack} ELSE r.parts
      /\ a.rip = r.rip /\ a.segs = r.segs /\ a.essence = r.essence
      /\ a.queued = r.queued /\ a.disk = r.disk /\ a.duration = r.duration
  BY <1>2, PutPackDoes
<1> HIDE DEF a
<1>4. Appends(m, a, pack.sid)
  BY <1>2, <1>3 DEF Appends
<1>5. QED
  BY <1>1, <1>2, <1>3, <1>4 DEF a, r, Lists, Loses

LEMMA PutThenPush ==
  ASSUME NEW m \in MxfType, NEW pack \in Pack, pack.at = m.pos, NEW f
  PROVE  LET a == PushRip(PutPack(m, pack, f), pack.sid, m.pos)
         IN  /\ a \in MxfType
             /\ f = "none" => Lists(m, a, pack) /\ a.pos = m.pos + PackLen
             /\ f # "none" => Loses(m, a, pack.sid) /\ a.pos = m.pos + PackLost
             /\ a.segs = m.segs /\ a.queued = m.queued /\ a.duration = m.duration
<1> DEFINE b == PutPack(PushRip(m, pack.sid, m.pos), pack, f)
           a == PushRip(PutPack(m, pack, f), pack.sid, m.pos)
           pos   == m.pos + (IF f = "none" THEN PackLen ELSE PackLost)
           parts == IF f = "none" THEN m.parts \cup {pack} ELSE m.parts
           rip   == Append(m.rip, [sid |-> pack.sid, at |-> m.pos])
<1>1. b = [[m EXCEPT !.rip = rip] EXCEPT !.pos = pos, !.parts = parts]
  BY DEF PutPack, PushRip, MxfType
<1>2. a = [[m EXCEPT !.pos = pos, !.parts = parts] EXCEPT !.rip = rip]
  BY DEF PutPack, PushRip, MxfType
<1> HIDE DEF pos, parts, rip, a, b
<1>3. a = b
  BY <1>1, <1>2 DEF MxfType
<1>4. QED
  BY <1>3, PushThenPut DEF a, b

\* A pack like new but for the fields that NewPack leaves empty
LEMMA PackFields ==
  ASSUME NEW new \in Pack, NEW offset \in Nat, NEW segs \in Seq(Segment), NEW prev \in Nat,
         NEW hmac \in Nat
  PROVE  /\ LET p == [new EXCEPT !.segs = segs]
            IN  p \in Pack /\ p.at = new.at /\ p.sid = new.sid /\ p.type = new.type
                  /\ p.segs = segs
         /\ LET p == [new EXCEPT !.offset = offset]
            IN  p \in Pack /\ p.at = new.at /\ p.sid = new.sid /\ p.type = new.type
                  /\ p.offset = offset
         /\ LET p == [new EXCEPT !.prev = prev, !.hmac = hmac]
            IN  p \in Pack /\ p.at = new.at /\ p.sid = new.sid /\ p.type = new.type
                  /\ p.prev = prev
         /\ LET p == [new EXCEPT !.prev = prev, !.footer = hmac]
            IN  p \in Pack /\ p.at = new.at /\ p.sid = new.sid /\ p.type = new.type
                  /\ p.prev = prev /\ p.footer = hmac
  BY DEF Pack

LEMMA FlushDoes ==
  ASSUME NEW m \in MxfType, HasEntries(m), NEW f
  PROVE  LET a == FlushIndexPartition(m, f)
         IN  /\ a \in MxfType /\ a.queued = m.queued
             /\ f = "none" =>
                  \E pack \in Pack :
                    /\ Lists(m, a, pack)
                    /\ pack.sid = 0 /\ pack.type = "index" /\ pack.segs = m.segs
                    /\ DOMAIN a.segs = {1} /\ Len(a.segs) = 1
                    /\ a.segs[1].entries = <<>>
                    /\ a.segs[1].start = SegmentEnd(m.segs[Len(m.segs)])
             /\ f # "none" => Loses(m, a, 0)
<1> DEFINE next == IF m.segs # <<>> THEN SegmentEnd(m.segs[Len(m.segs)]) ELSE 0
           new  == NewPack(m.pos, "index", 0)
           segs == m.segs
           pack == [new EXCEPT !.segs = segs]
           w    == PutPack(PushRip(m, 0, m.pos), pack, f)
           pos  == w.pos + IndexLen
           none == <<>>
           left == <<[start |-> next, entries |-> <<>>]>>
           b    == [w EXCEPT !.pos = pos, !.segs = left]
           c    == [w EXCEPT !.segs = none]
           a    == FlushIndexPartition(m, f)
<1>1. a = IF f = "fail" THEN c ELSE b
  BY DEF FlushIndexPartition
<1>2. a \in MxfType
  BY FlushType
<1>3. m.pos \in Nat /\ segs \in Seq(Segment) /\ m.segs # <<>> /\ IndexLen \in Nat
        /\ PackLost \in Nat /\ PackLen \in Nat
  BY LengthAssumption DEF MxfType, HasEntries
<1>4. pack \in Pack /\ pack.at = m.pos /\ pack.sid = 0 /\ pack.type = "index" /\ pack.segs = m.segs
  <2>1. new \in Pack
    BY <1>3, NewPackType
  <2>2. new.at = m.pos /\ new.sid = 0 /\ new.type = "index"
    BY DEF NewPack
  <2> HIDE DEF new
  <2>3. /\ pack \in Pack /\ pack.at = new.at /\ pack.sid = new.sid /\ pack.type = new.type
        /\ pack.segs = segs
    BY <1>3, <2>1 DEF Pack
  <2>4. QED
    BY <2>2, <2>3
<1> HIDE DEF pack, new
<1>5. /\ w \in MxfType /\ w.queued = m.queued
      /\ f = "none" => Lists(m, w, pack) /\ w.pos = m.pos + PackLen
      /\ f # "none" => Loses(m, w, 0) /\ w.pos = m.pos + PackLost
  <2>1. w = PutPack(PushRip(m, pack.sid, m.pos), pack, f)
    BY <1>4
  <2> DEFINE v == PutPack(PushRip(m, pack.sid, m.pos), pack, f)
  <2>2. /\ v \in MxfType /\ v.queued = m.queued
        /\ f = "none" => Lists(m, v, pack) /\ v.pos = m.pos + PackLen
        /\ f # "none" => Loses(m, v, pack.sid) /\ v.pos = m.pos + PackLost
    BY <1>4, PushThenPut
  <2>3. w = v
    BY <2>1
  <2> HIDE DEF v, w
  <2>4. QED
    BY <1>4, <2>2, <2>3
<1>6. DOMAIN left = {1} /\ Len(left) = 1 /\ left[1].entries = <<>>
        /\ left[1].start = SegmentEnd(m.segs[Len(m.segs)])
  BY <1>3
<1> HIDE DEF w, left, none, next, segs
<1>7. pos \in Nat /\ pos >= w.pos /\ w.pos \in Nat
  <2>1. w \in MxfType
    BY <1>5
  <2>2. w.pos \in Nat
    BY <2>1 DEF MxfType
  <2>3. QED
    BY <2>2, LengthAssumption
<1> HIDE DEF pos
<1>8. /\ b.pos = pos /\ b.segs = left /\ b.parts = w.parts /\ b.rip = w.rip
      /\ b.essence = w.essence /\ b.queued = w.queued /\ b.disk = w.disk
      /\ c.pos = w.pos /\ c.parts = w.parts /\ c.rip = w.rip
      /\ c.essence = w.essence /\ c.queued = w.queued /\ c.disk = w.disk
  <2>1. w \in MxfType
    BY <1>5
  <2>2. /\ b.pos = pos /\ b.segs = left /\ b.parts = w.parts /\ b.rip = w.rip
        /\ b.essence = w.essence /\ b.queued = w.queued /\ b.disk = w.disk
    BY <2>1 DEF MxfType
  <2>3. /\ c.pos = w.pos /\ c.parts = w.parts /\ c.rip = w.rip
        /\ c.essence = w.essence /\ c.queued = w.queued /\ c.disk = w.disk
    BY <2>1 DEF MxfType
  <2>4. QED
    BY <2>2, <2>3
<1> HIDE DEF a, b, c
<1>9. /\ a.parts = w.parts /\ a.rip = w.rip /\ a.essence = w.essence /\ a.queued = w.queued
      /\ a.disk = w.disk /\ a.pos >= w.pos /\ a.pos \in Nat
      /\ f = "none" => a.segs = left
  <2>1. CASE f = "fail"
    <3>1. a = c
      BY <1>1, <2>1
    <3>2. QED
      BY <1>7, <1>8, <2>1, <3>1
  <2>2. CASE f # "fail"
    <3>1. a = b
      BY <1>1, <2>2
    <3>2. QED
      BY <1>7, <1>8, <3>1
  <2>3. QED
    BY <2>1, <2>2
<1>10. ASSUME f = "none" PROVE Lists(m, a, pack)
  <2>1. Lists(m, w, pack) /\ w.pos = m.pos + PackLen
    BY <1>5, <1>10
  <2>2. a.pos >= m.pos + PackLen
    BY <1>3, <1>7, <1>9, <2>1
  <2>3. QED
    BY <1>9, <2>1, <2>2 DEF Lists, Appends
<1>11. ASSUME f # "none" PROVE Loses(m, a, 0)
  <2>1. Loses(m, w, 0) /\ w.pos = m.pos + PackLost
    BY <1>5, <1>11
  <2>2. a.pos >= m.pos + PackLost
    BY <1>3, <1>7, <1>9, <2>1
  <2>3. QED
    BY <1>9, <2>1, <2>2 DEF Loses, Appends
<1>12. QED
  BY <1>2, <1>4, <1>5, <1>6, <1>9, <1>10, <1>11 DEF a

LEMMA OpenBodyDoes ==
  ASSUME NEW m \in MxfType, NEW offset \in Nat, NEW f
  PROVE  LET a == OpenBodyPartition(m, offset, f)
         IN  /\ a \in MxfType /\ a.segs = m.segs /\ a.queued = m.queued
             /\ f = "none" =>
                  \E pack \in Pack :
                    /\ Lists(m, a, pack) /\ a.pos = m.pos + PackLen
                    /\ pack.sid = 1 /\ pack.type = "body" /\ pack.offset = offset
             /\ f # "none" => Loses(m, a, 1)
<1> DEFINE new  == NewPack(m.pos, "body", 1)
           pack == [new EXCEPT !.offset = offset]
<1>1. m.pos \in Nat
  BY DEF MxfType
<1>2. pack \in Pack /\ pack.at = m.pos /\ pack.sid = 1 /\ pack.type = "body" /\ pack.offset = offset
  <2>1. new \in Pack
    BY <1>1, NewPackType
  <2>2. new.at = m.pos /\ new.sid = 1 /\ new.type = "body"
    BY DEF NewPack
  <2> HIDE DEF new
  <2>3. /\ pack \in Pack /\ pack.at = new.at /\ pack.sid = new.sid /\ pack.type = new.type
        /\ pack.offset = offset
    BY <2>1 DEF Pack
  <2>4. QED
    BY <2>2, <2>3
<1>3. OpenBodyPartition(m, offset, f) = PushRip(PutPack(m, pack, f), pack.sid, m.pos)
  BY <1>2 DEF OpenBodyPartition
<1> HIDE DEF pack
<1>4. QED
  BY <1>2, <1>3, PutThenPush

LEMMA PutStreamDoes ==
  ASSUME NEW m \in MxfType, m.rip # <<>>, NEW sid \in Nat, NEW f, framesWritten \in Nat
  PROVE  LET a == PutStream(m, sid, f)
         IN  /\ a \in MxfType /\ a.segs = m.segs
             /\ f \notin PackFaults("stream") =>
                  \E pack \in Pack :
                    /\ Lists(m, a, pack)
                    /\ pack.sid = sid /\ pack.type = "stream"
                    /\ pack.prev = m.rip[Len(m.rip)].at
             /\ f \in PackFaults("stream") => Loses(m, a, sid)
             /\ f = "none" => a.pos >= m.pos + (PackLen + StreamLen) /\ a.queued = 0
<1> DEFINE prev == m.rip[Len(m.rip)].at
           hmac == framesWritten + 1
           new  == NewPack(m.pos, "stream", sid)
           pack == [new EXCEPT !.prev = prev, !.hmac = hmac]
           g    == PackFault(f, "stream")
           w    == PutPack(PushRip(m, sid, m.pos), pack, g)
           q    == w.queued + StreamLen
           pos  == w.pos + w.queued + StreamLen
           zero == 0
           b    == [w EXCEPT !.queued = q]
           c    == [w EXCEPT !.pos = pos, !.queued = zero]
           a    == PutStream(m, sid, f)
<1>1. a = CASE f \in {"stream", "payload"} -> w [] f = "payloadFlush" -> b [] OTHER -> c
  BY DEF PutStream
<1>2. m.pos \in Nat /\ prev \in Nat /\ hmac \in Nat /\ StreamLen \in Nat /\ PackLen \in Nat
        /\ PackLost \in Nat
  <2>1. m.rip \in Seq(Pair) /\ m.pos \in Nat
    BY DEF MxfType
  <2>2. Len(m.rip) \in DOMAIN m.rip
    BY <2>1
  <2>3. QED
    BY <2>1, <2>2, RipEntries, LengthAssumption
<1>3. pack \in Pack /\ pack.at = m.pos /\ pack.sid = sid /\ pack.type = "stream" /\ pack.prev = prev
  <2>1. new \in Pack
    BY <1>2, NewPackType
  <2>2. new.at = m.pos /\ new.sid = sid /\ new.type = "stream"
    BY DEF NewPack
  <2> HIDE DEF new, prev, hmac
  <2>3. /\ pack \in Pack /\ pack.at = new.at /\ pack.sid = new.sid /\ pack.type = new.type
        /\ pack.prev = prev
    BY <1>2, <2>1 DEF Pack
  <2>4. QED
    BY <2>2, <2>3
<1> HIDE DEF pack, new
<1>4. a \in MxfType
  BY PutStreamType
<1>5. f \in PackFaults("stream") <=> g # "none"
  BY DEF PackFault, PackFaults, Torn
<1>6. f = "none" => g = "none"
  BY DEF PackFault, Torn
<1> HIDE DEF g
<1>7. /\ w \in MxfType /\ w.segs = m.segs
      /\ g = "none" => Lists(m, w, pack) /\ w.pos = m.pos + PackLen
      /\ g # "none" => Loses(m, w, sid) /\ w.pos = m.pos + PackLost
  <2>1. w = PutPack(PushRip(m, pack.sid, m.pos), pack, g)
    BY <1>3
  <2>2. QED
    BY <1>3, <2>1, PushThenPut
<1> HIDE DEF w
<1>8. q \in Nat /\ pos \in Nat /\ w.pos \in Nat /\ pos >= w.pos + StreamLen
  <2>1. w.pos \in Nat /\ w.queued \in Nat
    BY <1>7 DEF MxfType
  <2>2. QED
    BY <1>2, <2>1
<1> HIDE DEF q, pos, zero
<1>9. /\ b.pos = w.pos /\ b.segs = w.segs /\ b.parts = w.parts /\ b.rip = w.rip
      /\ b.essence = w.essence /\ b.disk = w.disk
      /\ c.pos = pos /\ c.segs = w.segs /\ c.parts = w.parts /\ c.rip = w.rip
      /\ c.essence = w.essence /\ c.disk = w.disk /\ c.queued = zero
  BY <1>7 DEF MxfType
<1> HIDE DEF a, b, c
<1>10. /\ a.parts = w.parts /\ a.rip = w.rip /\ a.essence = w.essence
       /\ a.disk = w.disk /\ a.pos >= w.pos /\ a.segs = w.segs
       /\ f = "none" => a.pos = pos /\ a.queued = zero
  <2>1. CASE f \in {"stream", "payload"}
    BY <1>1, <1>8, <2>1
  <2>2. CASE f = "payloadFlush"
    BY <1>1, <1>8, <1>9, <2>2
  <2>3. CASE f \notin {"stream", "payload", "payloadFlush"}
    <3>1. a = c
      BY <1>1, <2>3
    <3>2. pos >= w.pos
      BY <1>2, <1>8
    <3>3. QED
      BY <1>9, <3>1, <3>2
  <2>4. QED
    BY <2>1, <2>2, <2>3
<1>11. a.pos \in Nat
  BY <1>4 DEF MxfType
<1>12. ASSUME g = "none" PROVE Lists(m, a, pack)
  <2>1. Lists(m, w, pack) /\ w.pos = m.pos + PackLen
    BY <1>7, <1>12
  <2>2. a.pos >= m.pos + PackLen
    BY <1>2, <1>8, <1>10, <1>11, <2>1
  <2>3. QED
    BY <1>10, <2>1, <2>2 DEF Lists, Appends
<1>13. ASSUME g # "none" PROVE Loses(m, a, sid)
  <2>1. Loses(m, w, sid) /\ w.pos = m.pos + PackLost
    BY <1>7, <1>13
  <2>2. a.pos >= m.pos + PackLost
    BY <1>2, <1>8, <1>10, <1>11, <2>1
  <2>3. QED
    BY <1>10, <2>1, <2>2 DEF Loses, Appends
<1>14. ASSUME f = "none" PROVE a.pos >= m.pos + (PackLen + StreamLen) /\ a.queued = 0
  BY <1>2, <1>6, <1>7, <1>8, <1>10, <1>14 DEF zero
<1>15. QED
  BY <1>3, <1>4, <1>5, <1>7, <1>10, <1>12, <1>13, <1>14 DEF a, prev

FramePart == {"context", "flush", "metadata", "metadataFlush"}

LEMMA WritePacketsDoes ==
  ASSUME NEW m \in MxfType, NEW k \in AllKinds, NEW len \in FrameLens, NEW f,
         NEW lost \in 0 .. len
  PROVE  LET a == WritePackets(m, k, len, f, lost)
         IN  /\ a \in MxfType /\ a.segs = m.segs /\ Moves(m, a)
             /\ f \in FramePart => a.essence = m.essence
             /\ f \in {"context", "metadata"} /\ m.queued = 0 =>
                  a.queued = 0 /\ a.pos = m.pos + StreamAdvance(k, len, f)
             /\ f \notin FramePart =>
                  /\ a.essence = Append(m.essence, m.pos + m.queued)
                  /\ a.pos > m.pos + m.queued /\ a.queued = 0
                  /\ m.queued = 0 => a.pos = m.pos + StreamAdvance(k, len, f)
<1> DEFINE a  == WritePackets(m, k, len, f, lost)
           l  == FrameLen(k, len)
           z  == 0
           p1 == m.pos + lost
           q1 == m.queued + len
           p2 == m.pos + m.queued + len
           p3 == m.pos + m.queued + len + lost
           p4 == m.pos + m.queued + l
           e4 == Append(m.essence, m.pos + m.queued)
           a1 == [m EXCEPT !.pos = p1, !.queued = q1]
           a2 == [m EXCEPT !.pos = p2, !.queued = z]
           a3 == [m EXCEPT !.pos = p3, !.queued = MetaLen]
           a4 == [m EXCEPT !.pos = p4, !.queued = z, !.essence = e4]
<1>1. a = CASE f = "context" -> m [] f = "flush" -> a1 [] f = "metadata" -> a2
            [] f = "metadataFlush" -> a3 [] OTHER -> a4
  BY DEF WritePackets
<1>2. a \in MxfType
  BY WritePacketsType
<1>3. /\ len \in Nat \ {0} /\ l \in Nat \ {0} /\ lost \in Nat
      /\ m.pos \in Nat /\ m.queued \in Nat
      /\ StreamAdvance(k, len, "context") = 0 /\ StreamAdvance(k, len, "metadata") = len
      /\ f \notin FramePart => StreamAdvance(k, len, f) = l
  <2>1. len \in Nat \ {0} /\ MetaLen \in Nat
    BY LengthAssumption
  <2>2. l \in Nat \ {0}
    BY <2>1 DEF FrameLen
  <2>3. m.pos \in Nat /\ m.queued \in Nat
    BY DEF MxfType
  <2>4. StreamAdvance(k, len, "context") = 0 /\ StreamAdvance(k, len, "metadata") = len
    BY DEF StreamAdvance
  <2>5. f \notin FramePart => StreamAdvance(k, len, f) = l
    BY DEF StreamAdvance, FramePart
  <2>6. QED
    BY <2>1, <2>2, <2>3, <2>4, <2>5
<1> HIDE DEF l, a
<1>4. /\ p1 >= m.pos /\ p2 >= m.pos /\ p3 >= m.pos /\ p4 >= m.pos
      /\ p4 > m.pos + m.queued
      /\ m.queued = 0 => p2 = m.pos + len /\ p4 = m.pos + l
  BY <1>3
<1> HIDE DEF p1, q1, p2, p3, p4, e4, z
<1>5. Moves(m, m) /\ Moves(m, a1) /\ Moves(m, a2) /\ Moves(m, a3) /\ Moves(m, a4)
  BY <1>3, <1>4 DEF Moves, MxfType
<1>6. /\ a1.segs = m.segs /\ a1.essence = m.essence
      /\ a2.segs = m.segs /\ a2.essence = m.essence /\ a2.pos = p2 /\ a2.queued = z
      /\ a3.segs = m.segs /\ a3.essence = m.essence
      /\ a4.segs = m.segs /\ a4.essence = e4 /\ a4.pos = p4 /\ a4.queued = z
  BY DEF MxfType
<1> HIDE DEF a1, a2, a3, a4
<1>7. /\ f = "context" => a = m
      /\ f = "flush" => a = a1
      /\ f = "metadata" => a = a2
      /\ f = "metadataFlush" => a = a3
      /\ f \notin FramePart => a = a4
  BY <1>1 DEF FramePart
<1>8. a.segs = m.segs /\ Moves(m, a)
  <2>1. CASE f \in FramePart
    BY <1>5, <1>6, <1>7, <2>1 DEF FramePart
  <2>2. CASE f \notin FramePart
    BY <1>5, <1>6, <1>7, <2>2
  <2>3. QED
    BY <2>1, <2>2
<1>9. ASSUME f \in FramePart PROVE a.essence = m.essence
  BY <1>6, <1>7, <1>9 DEF FramePart
<1>10. ASSUME f \in {"context", "metadata"}, m.queued = 0
       PROVE  a.queued = 0 /\ a.pos = m.pos + StreamAdvance(k, len, f)
  <2>1. CASE f = "context"
    <3>1. a = m /\ StreamAdvance(k, len, f) = 0
      BY <1>3, <1>7, <2>1
    <3>2. QED
      BY <1>3, <1>10, <3>1
  <2>2. CASE f = "metadata"
    <3>1. a = a2 /\ StreamAdvance(k, len, f) = len
      BY <1>3, <1>7, <2>2
    <3>2. QED
      BY <1>4, <1>6, <1>10, <3>1 DEF z
  <2>3. QED
    BY <1>10, <2>1, <2>2
<1>11. ASSUME f \notin FramePart
       PROVE  /\ a.essence = Append(m.essence, m.pos + m.queued)
              /\ a.pos > m.pos + m.queued /\ a.queued = 0
              /\ m.queued = 0 => a.pos = m.pos + StreamAdvance(k, len, f)
  <2>1. a = a4 /\ StreamAdvance(k, len, f) = l
    BY <1>3, <1>7, <1>11
  <2>2. a.essence = e4 /\ a.pos = p4 /\ a.queued = 0
    BY <1>6, <2>1 DEF z
  <2>3. QED
    BY <1>4, <2>1, <2>2 DEF e4
<1>12. QED
  BY <1>2, <1>8, <1>9, <1>10, <1>11 DEF a

-----------------------------------------------------------------------------
(* The layout is kept *)

LEMMA FileTypes ==
  ASSUME NEW m \in MxfType
  PROVE  /\ m.pos \in Nat /\ m.queued \in Nat /\ m.duration \in Nat
         /\ \A p \in m.parts :
              p \in Pack /\ p.at \in Nat /\ p.sid \in Nat /\ p.offset \in Nat /\ p.segs \in Seq(Segment)
         /\ \A i \in DOMAIN m.rip : m.rip[i].at \in Nat /\ m.rip[i].sid \in Nat
         /\ Len(m.rip) \in Nat /\ DOMAIN m.rip = 1 .. Len(m.rip)
         /\ m.essence \in Seq(Nat) /\ Len(m.essence) \in Nat
         /\ DOMAIN m.essence = 1 .. Len(m.essence)
         /\ \A k \in DOMAIN m.essence : m.essence[k] \in Nat
         /\ m.segs \in Seq(Segment)
<1>1. m.pos \in Nat /\ m.queued \in Nat /\ m.duration \in Nat
  BY DEF MxfType
<1>2. \A p \in m.parts :
        p \in Pack /\ p.at \in Nat /\ p.sid \in Nat /\ p.offset \in Nat /\ p.segs \in Seq(Segment)
  BY DEF MxfType, Pack
<1>3. /\ m.rip \in Seq(Pair) /\ m.segs \in Seq(Segment) /\ m.essence \in Seq(Nat)
  BY DEF MxfType
<1>4. QED
  BY <1>1, <1>2, <1>3, RipEntries

LEMMA RoomNat == PackLen + StreamLen \in Nat
<1>1. PackLen \in Nat /\ StreamLen \in Nat
  BY LengthAssumption
<1>2. QED
  BY <1>1

LEMMA MovesLayout ==
  ASSUME NEW m \in MxfType, NEW a \in MxfType, Moves(m, a)
  PROVE  /\ Begun(m) => Begun(a)
         /\ Known(m) => Known(a)
         /\ Ordered(m) => Ordered(a)
         /\ Listed(m) <=> Listed(a)
         /\ Distinct(m) => Distinct(a)
         /\ Room(m) => Room(a)
         /\ \A top : SidsBelow(m, top) => SidsBelow(a, top)
<1>1. /\ m.pos \in Nat /\ a.pos \in Nat /\ a.pos >= m.pos /\ a.rip = m.rip /\ a.parts = m.parts
      /\ \A p \in m.parts : p.at \in Nat
      /\ \A i \in DOMAIN m.rip : m.rip[i].at \in Nat
      /\ PackLen + StreamLen \in Nat
  BY RoomNat, FileTypes DEF Moves
<1> DEFINE room == PackLen + StreamLen
<1> HIDE DEF room
<1>2. Begun(m) => Begun(a)
  BY <1>1 DEF Begun
<1>3. Known(m) => Known(a)
  BY <1>1 DEF Known
<1>4. Ordered(m) => Ordered(a)
  BY <1>1 DEF Ordered
<1>5. (Listed(m) <=> Listed(a)) /\ (Distinct(m) => Distinct(a))
  BY <1>1 DEF Listed, Resolves, Distinct
<1>6. Room(m) => Room(a)
  <2>1. ASSUME NEW p \in m.parts, p.at + (PackLen + StreamLen) <= m.pos
        PROVE  p.at + (PackLen + StreamLen) <= a.pos
    BY <1>1, <2>1
  <2>2. QED
    BY <1>1, <2>1 DEF Room
<1>7. \A top : SidsBelow(m, top) => SidsBelow(a, top)
  BY <1>1 DEF SidsBelow
<1>8. QED
  BY <1>2, <1>3, <1>4, <1>5, <1>6, <1>7

LEMMA AppendsLayout ==
  ASSUME NEW m \in MxfType, NEW a \in MxfType, NEW sid \in Nat, Appends(m, a, sid),
         a.pos >= m.pos
  PROVE  /\ Begun(m) => Begun(a)
         /\ Ordered(m) /\ a.pos > m.pos => Ordered(a)
         /\ Distinct(m) /\ (sid <= 1 \/ \A i \in DOMAIN m.rip : m.rip[i].sid # sid)
              => Distinct(a)
         /\ \A top : SidsBelow(m, top) /\ sid < top => SidsBelow(a, top)
<1> DEFINE n == Len(m.rip)
<1>1. /\ n \in Nat /\ DOMAIN m.rip = 1 .. n
      /\ Len(a.rip) = n + 1 /\ DOMAIN a.rip = 1 .. n + 1
      /\ \A i \in 1 .. n : a.rip[i] = m.rip[i]
      /\ a.rip[n + 1].sid = sid /\ a.rip[n + 1].at = m.pos
  BY DEF Appends
<1> HIDE DEF n
<1>2. /\ m.pos \in Nat /\ a.pos \in Nat
      /\ \A i \in DOMAIN m.rip : m.rip[i].at \in Nat /\ m.rip[i].sid \in Nat
  BY RipEntries DEF MxfType
<1>3. \A i \in DOMAIN a.rip : i = n + 1 \/ i \in 1 .. n
  BY <1>1
<1>4. Begun(m) => Begun(a)
  BY <1>1, <1>2 DEF Begun, n
<1>5. ASSUME Ordered(m), a.pos > m.pos PROVE Ordered(a)
  <2>1. ASSUME NEW i \in DOMAIN a.rip
        PROVE  a.rip[i].at < a.pos /\ \A j \in DOMAIN a.rip : j < i => a.rip[j].at < a.rip[i].at
    <3>1. CASE i = n + 1
      <4>1. \A j \in DOMAIN a.rip : j < i => j \in 1 .. n
        BY <1>1, <3>1
      <4>2. QED
        BY <1>1, <1>2, <1>5, <3>1, <4>1 DEF Ordered
    <3>2. CASE i \in 1 .. n
      <4>1. \A j \in DOMAIN a.rip : j < i => j \in 1 .. n
        BY <1>1, <3>2
      <4>2. m.rip[i].at < m.pos /\ m.rip[i].at \in Nat
        BY <1>1, <1>2, <1>5, <3>2 DEF Ordered
      <4>3. a.rip[i].at < a.pos
        BY <1>1, <1>2, <1>5, <3>2, <4>2
      <4>4. QED
        BY <1>1, <1>5, <3>2, <4>1, <4>3 DEF Ordered
    <3>3. QED
      BY <1>3, <3>1, <3>2
  <2>2. QED
    BY <2>1 DEF Ordered
<1>6. ASSUME Distinct(m), sid <= 1 \/ \A i \in DOMAIN m.rip : m.rip[i].sid # sid
      PROVE  Distinct(a)
  <2>1. ASSUME NEW i \in DOMAIN a.rip, NEW j \in DOMAIN a.rip, a.rip[i].sid > 1,
               a.rip[i].sid = a.rip[j].sid
        PROVE  i = j
    <3>1. CASE i \in 1 .. n /\ j \in 1 .. n
      BY <1>1, <1>6, <2>1, <3>1 DEF Distinct
    <3>2. CASE i = n + 1 /\ j \in 1 .. n
      <4>1. m.rip[j].sid = sid /\ sid > 1 /\ j \in DOMAIN m.rip
        BY <1>1, <2>1, <3>2
      <4>2. QED
        BY <1>6, <4>1
    <3>3. CASE i \in 1 .. n /\ j = n + 1
      <4>1. m.rip[i].sid = sid /\ sid > 1 /\ i \in DOMAIN m.rip
        BY <1>1, <2>1, <3>3
      <4>2. QED
        BY <1>6, <4>1
    <3>4. QED
      BY <1>3, <3>1, <3>2, <3>3
  <2>2. QED
    BY <2>1 DEF Distinct
<1>7. \A top : SidsBelow(m, top) /\ sid < top => SidsBelow(a, top)
  BY <1>1, <1>3 DEF SidsBelow
<1>8. QED
  BY <1>4, <1>5, <1>6, <1>7

\* The pack of a listed entry, told by its place
LEMMA PackAtIs ==
  ASSUME NEW m, Known(m), NEW p \in m.parts
  PROVE  PackAt(m, p.at) = p
  BY DEF Known, PackAt

LEMMA ListsLayout ==
  ASSUME NEW m \in MxfType, NEW a \in MxfType, NEW pack, Lists(m, a, pack),
         Known(m), Kinded(pack)
  PROVE  /\ Known(a)
         /\ Listed(m) => Listed(a)
         /\ Ordered(m) => (Listed(a) => Listed(m))
         /\ Room(m) /\ Ordered(m) /\ (pack.type = "stream" => a.pos >= m.pos + (PackLen + StreamLen)) => Room(a)
<1> DEFINE n == Len(m.rip)
<1>1. /\ n \in Nat /\ DOMAIN m.rip = 1 .. n
      /\ DOMAIN a.rip = 1 .. n + 1
      /\ \A i \in 1 .. n : a.rip[i] = m.rip[i]
      /\ a.rip[n + 1].sid = pack.sid /\ a.rip[n + 1].at = m.pos
      /\ a.parts = m.parts \cup {pack} /\ pack.at = m.pos /\ pack \in Pack
      /\ a.pos > m.pos
  <2>1. a.pos >= m.pos + PackLen /\ a.pos \in Nat /\ m.pos \in Nat /\ PackLen \in Nat \ {0}
    BY LengthAssumption DEF Lists, MxfType
  <2>2. a.pos > m.pos
    BY <2>1
  <2>3. QED
    BY <2>2 DEF Lists, Appends
<1> HIDE DEF n
<1>2. /\ m.pos \in Nat /\ a.pos \in Nat
      /\ \A i \in DOMAIN m.rip : m.rip[i].at \in Nat
      /\ \A p \in m.parts : p.at \in Nat /\ p.at < m.pos
      /\ PackLen + StreamLen \in Nat
  BY RoomNat, FileTypes DEF Known
<1>3. \A i \in DOMAIN a.rip : i = n + 1 \/ i \in 1 .. n
  BY <1>1
<1>4. Known(a)
  <2>1. ASSUME NEW p \in a.parts
        PROVE  /\ p.at < a.pos /\ Kinded(p)
               /\ \E i \in DOMAIN a.rip : a.rip[i].at = p.at /\ a.rip[i].sid = p.sid
    <3>1. CASE p = pack
      BY <1>1, <1>2, <3>1
    <3>2. CASE p \in m.parts
      <4>1. p.at < a.pos /\ Kinded(p)
        BY <1>1, <1>2, <3>2 DEF Known
      <4>2. PICK i \in DOMAIN m.rip : m.rip[i].at = p.at /\ m.rip[i].sid = p.sid
        BY <3>2 DEF Known
      <4>3. QED
        BY <1>1, <4>1, <4>2
    <3>3. QED
      BY <1>1, <3>1, <3>2
  <2>2. ASSUME NEW p \in a.parts, NEW q \in a.parts, p.at = q.at PROVE p = q
    BY <1>1, <1>2, <2>2 DEF Known
  <2>3. QED
    BY <2>1, <2>2 DEF Known
<1>5. ASSUME Listed(m) PROVE Listed(a)
  <2>1. ASSUME NEW i \in DOMAIN a.rip PROVE \E p \in a.parts : p.at = a.rip[i].at
    <3>1. CASE i = n + 1
      BY <1>1, <3>1
    <3>2. CASE i \in 1 .. n
      BY <1>1, <1>5, <3>2 DEF Listed, Resolves
    <3>3. QED
      BY <1>3, <3>1, <3>2
  <2>2. QED
    BY <2>1 DEF Listed, Resolves
<1>6. ASSUME Ordered(m), Listed(a) PROVE Listed(m)
  <2>1. ASSUME NEW i \in DOMAIN m.rip PROVE \E p \in m.parts : p.at = m.rip[i].at
    <3>1. i \in DOMAIN a.rip /\ a.rip[i] = m.rip[i]
      BY <1>1
    <3>2. PICK p \in a.parts : p.at = m.rip[i].at
      BY <1>6, <3>1 DEF Listed, Resolves
    <3>3. m.rip[i].at < m.pos
      BY <1>6 DEF Ordered
    <3>4. QED
      BY <1>1, <1>2, <3>2, <3>3
  <2>2. QED
    BY <2>1 DEF Listed, Resolves
<1>7. ASSUME Room(m), Ordered(m), pack.type = "stream" => a.pos >= m.pos + (PackLen + StreamLen) PROVE Room(a)
  <2>1. ASSUME NEW p \in a.parts, p.type = "stream"
        PROVE  p.at + (PackLen + StreamLen) <= a.pos
    <3>1. CASE p = pack
      BY <1>1, <1>2, <1>7, <2>1, <3>1
    <3>2. CASE p \in m.parts
      <4>1. p.at + (PackLen + StreamLen) <= m.pos
        BY <1>7, <2>1, <3>2 DEF Room
      <4>2. QED
        BY <1>1, <1>2, <3>2, <4>1
    <3>3. QED
      BY <1>1, <3>1, <3>2
  <2>2. ASSUME NEW p \in a.parts, p.type = "stream", NEW i \in DOMAIN a.rip, a.rip[i].at > p.at
        PROVE  a.rip[i].at >= p.at + (PackLen + StreamLen)
    <3>1. CASE i = n + 1
      <4>1. p # pack
        BY <1>1, <1>2, <2>2, <3>1
      <4>2. p \in m.parts /\ p.at + (PackLen + StreamLen) <= m.pos
        BY <1>1, <1>7, <2>2, <4>1 DEF Room
      <4>3. QED
        BY <1>1, <1>2, <3>1, <4>2
    <3>2. CASE i \in 1 .. n
      <4>1. CASE p = pack
        <5>1. a.rip[i].at > m.pos /\ a.rip[i] = m.rip[i]
          BY <1>1, <2>2, <3>2, <4>1
        <5>2. m.rip[i].at < m.pos
          BY <1>1, <1>7, <3>2 DEF Ordered
        <5>3. QED
          BY <1>1, <1>2, <3>2, <5>1, <5>2
      <4>2. CASE p \in m.parts
        BY <1>1, <1>7, <2>2, <3>2, <4>2 DEF Room
      <4>3. QED
        BY <1>1, <4>1, <4>2
    <3>3. QED
      BY <1>3, <3>1, <3>2
  <2>3. QED
    BY <2>1, <2>2 DEF Room
<1>8. QED
  BY <1>4, <1>5, <1>6, <1>7

LEMMA LosesLayout ==
  ASSUME NEW m \in MxfType, NEW a \in MxfType, NEW sid, Loses(m, a, sid), Known(m)
  PROVE  Known(a) /\ ~Listed(a)
<1> DEFINE n == Len(m.rip)
<1>1. /\ n \in Nat /\ DOMAIN m.rip = 1 .. n
      /\ DOMAIN a.rip = 1 .. n + 1
      /\ \A i \in 1 .. n : a.rip[i] = m.rip[i]
      /\ a.rip[n + 1].at = m.pos
      /\ a.parts = m.parts /\ a.pos >= m.pos
  <2>1. a.pos >= m.pos + PackLost /\ a.pos \in Nat /\ m.pos \in Nat /\ PackLost \in Nat
    BY LengthAssumption DEF Loses, MxfType
  <2>2. a.pos >= m.pos
    BY <2>1
  <2>3. QED
    BY <2>2 DEF Loses, Appends
<1> HIDE DEF n
<1>2. /\ m.pos \in Nat /\ a.pos \in Nat
      /\ \A p \in m.parts : p.at \in Nat /\ p.at < m.pos
  BY DEF MxfType, Pack, Known
<1>3. \A i \in DOMAIN m.rip : i \in DOMAIN a.rip /\ a.rip[i] = m.rip[i]
  BY <1>1
<1>4. Known(a)
  BY <1>1, <1>2, <1>3 DEF Known
<1>5. n + 1 \in DOMAIN a.rip /\ \A p \in a.parts : p.at # a.rip[n + 1].at
  BY <1>1, <1>2
<1>6. QED
  BY <1>4, <1>5 DEF Listed, Resolves

Adds(m, a, sid) ==
  \/ \E pack : Lists(m, a, pack) /\ pack.sid = sid /\ Kinded(pack) /\ pack.type # "footer"
  \/ Loses(m, a, sid)

LEMMA AddsLayout ==
  ASSUME NEW m \in MxfType, NEW a \in MxfType, NEW sid \in Nat, Adds(m, a, sid),
         Known(m), Growing(m)
  PROVE  /\ Known(a) /\ Growing(a) /\ (Begun(m) => Begun(a))
         /\ a.disk = m.disk /\ a.essence = m.essence
         /\ Ordered(m) /\ (PackLost > 0 \/ ~Loses(m, a, sid)) => Ordered(a)
         /\ Distinct(m) /\ (sid <= 1 \/ \A i \in DOMAIN m.rip : m.rip[i].sid # sid)
              => Distinct(a)
         /\ \A top : SidsBelow(m, top) /\ sid < top => SidsBelow(a, top)
<1>1. m.pos \in Nat /\ a.pos \in Nat /\ PackLen \in Nat \ {0} /\ PackLost \in Nat
        /\ \A k \in DOMAIN m.essence : m.essence[k] \in Nat
  BY FileTypes, LengthAssumption
<1>2. Appends(m, a, sid) /\ a.disk = m.disk /\ a.essence = m.essence
  BY DEF Adds, Lists, Loses
<1>3. a.pos >= m.pos /\ (PackLost > 0 \/ ~Loses(m, a, sid) => a.pos > m.pos)
  <2>1. CASE Loses(m, a, sid)
    <3>1. a.pos >= m.pos + PackLost
      BY <2>1 DEF Loses
    <3>2. QED
      BY <1>1, <2>1, <3>1
  <2>2. CASE ~Loses(m, a, sid)
    <3>1. a.pos >= m.pos + PackLen
      BY <2>2 DEF Adds, Lists
    <3>2. QED
      BY <1>1, <3>1
  <2>3. QED
    BY <2>1, <2>2
<1>4. Known(a)
  BY ListsLayout, LosesLayout DEF Adds
<1>5. Growing(a)
  <2>1. ASSUME NEW k \in DOMAIN m.essence PROVE m.essence[k] < a.pos
    <3>1. m.essence[k] < m.pos /\ m.essence[k] \in Nat
      BY <1>1 DEF Growing
    <3>2. QED
      BY <1>1, <1>3, <3>1
  <2>2. QED
    BY <1>2, <2>1 DEF Growing, Adds, Lists, Loses
<1>6. QED
  BY <1>2, <1>3, <1>4, <1>5, AppendsLayout

LEMMA LastListed ==
  ASSUME NEW m, NEW a, NEW pack, Lists(m, a, pack), Known(a)
  PROVE  LastPack(a) = pack
<1>1. pack \in a.parts /\ a.rip[Len(a.rip)].at = pack.at
  BY DEF Lists, Appends
<1>2. QED
  BY <1>1, PackAtIs DEF LastPack

LEMMA LastMoved ==
  ASSUME NEW m, NEW a, Moves(m, a)
  PROVE  LastPack(a) = LastPack(m)
  BY DEF Moves, LastPack, PackAt

LEMMA FlushAdds ==
  ASSUME NEW m \in MxfType, HasEntries(m), NEW f, m.pos > 0, Known(m)
  PROVE  LET a == FlushIndexPartition(m, f)
         IN  a \in MxfType /\ Adds(m, a, 0) /\ (f = "none" => ~Loses(m, a, 0))
               /\ a.queued = m.queued
<1> DEFINE a == FlushIndexPartition(m, f)
<1>1. a \in MxfType /\ a.queued = m.queued
  BY FlushDoes
<1>2. ASSUME f = "none"
      PROVE  \E pack \in Pack : Lists(m, a, pack) /\ pack.sid = 0 /\ Kinded(pack) /\ pack.type # "footer"
  <2>1. PICK pack \in Pack : Lists(m, a, pack) /\ pack.sid = 0 /\ pack.type = "index"
    BY <1>2, FlushDoes
  <2>2. pack.at = m.pos /\ m.pos \in Nat
    BY <2>1, FileTypes DEF Lists
  <2>3. Kinded(pack)
    BY <2>1, <2>2 DEF Kinded
  <2>4. QED
    BY <2>1, <2>3
<1>3. f # "none" => Loses(m, a, 0)
  BY FlushDoes
<1>4. ASSUME NEW pack, Lists(m, a, pack), Loses(m, a, 0) PROVE FALSE
  <2>1. pack \in m.parts /\ pack.at = m.pos
    BY <1>4 DEF Lists, Loses
  <2>2. pack.at < m.pos /\ m.pos \in Nat
    BY <2>1, FileTypes DEF Known
  <2>3. QED
    BY <2>1, <2>2
<1> HIDE DEF a
<1>5. QED
  BY <1>1, <1>2, <1>3, <1>4 DEF a, Adds

\* Of a pack that is listed nothing is lost
LEMMA ListsNotLost ==
  ASSUME NEW m \in MxfType, Known(m), NEW a, NEW pack, Lists(m, a, pack), NEW sid
  PROVE  ~Loses(m, a, sid)
<1> SUFFICES ASSUME Loses(m, a, sid) PROVE FALSE
  OBVIOUS
<1>1. pack \in m.parts /\ pack.at = m.pos
  BY DEF Lists, Loses
<1>2. pack.at < m.pos /\ m.pos \in Nat
  BY <1>1, FileTypes DEF Known
<1>3. QED
  BY <1>1, <1>2

LEMMA OpenBodyAdds ==
  ASSUME NEW m \in MxfType, NEW offset \in Nat, NEW f, m.pos > 0, Known(m)
  PROVE  LET a == OpenBodyPartition(m, offset, f)
         IN  a \in MxfType /\ Adds(m, a, 1) /\ (f = "none" => ~Loses(m, a, 1))
               /\ a.queued = m.queued
<1> DEFINE a == OpenBodyPartition(m, offset, f)
<1>1. a \in MxfType /\ a.queued = m.queued
  BY OpenBodyDoes
<1>2. ASSUME f = "none"
      PROVE  \E pack \in Pack : Lists(m, a, pack) /\ pack.sid = 1 /\ Kinded(pack) /\ pack.type # "footer"
  <2>1. PICK pack \in Pack : Lists(m, a, pack) /\ pack.sid = 1 /\ pack.type = "body"
    BY <1>2, OpenBodyDoes
  <2>2. pack.at = m.pos /\ m.pos \in Nat
    BY <2>1, FileTypes DEF Lists
  <2>3. Kinded(pack)
    BY <2>1, <2>2 DEF Kinded
  <2>4. QED
    BY <2>1, <2>3
<1>3. f # "none" => Loses(m, a, 1)
  BY OpenBodyDoes
<1> HIDE DEF a
<1>4. QED
  BY <1>1, <1>2, <1>3, ListsNotLost DEF a, Adds

LEMMA PutStreamAdds ==
  ASSUME NEW m \in MxfType, NEW sid \in Nat, NEW f, framesWritten \in Nat, Begun(m), Known(m),
         sid > 1
  PROVE  LET a == PutStream(m, sid, f)
         IN  a \in MxfType /\ Adds(m, a, sid)
               /\ (f \notin PackFaults("stream") => ~Loses(m, a, sid))
<1> DEFINE a == PutStream(m, sid, f)
<1>1. m.rip # <<>> /\ m.pos > 0
  BY DEF Begun
<1>2. a \in MxfType
  BY <1>1, PutStreamDoes
<1>3. ASSUME f \notin PackFaults("stream")
      PROVE  \E pack \in Pack : Lists(m, a, pack) /\ pack.sid = sid /\ Kinded(pack) /\ pack.type # "footer"
  <2>1. PICK pack \in Pack : Lists(m, a, pack) /\ pack.sid = sid /\ pack.type = "stream"
    BY <1>1, <1>3, PutStreamDoes
  <2>2. pack.at = m.pos /\ m.pos \in Nat
    BY <2>1, FileTypes DEF Lists
  <2>3. Kinded(pack)
    BY <1>1, <2>1, <2>2 DEF Kinded
  <2>4. QED
    BY <2>1, <2>3
<1>4. f \in PackFaults("stream") => Loses(m, a, sid)
  BY <1>1, PutStreamDoes
<1> HIDE DEF a
<1>5. QED
  BY <1>2, <1>3, <1>4, ListsNotLost DEF a, Adds

\* A frame that is written, or fails
LEMMA StoredDoes ==
  ASSUME TypeInv, NEW len \in FrameLens, NEW f \in Faults, NEW lost \in 0 .. len,
         f \in FramePart <=> f \in FrameFaults(kind)
  PROVE  LET a == Indexed(WritePackets(mxf, kind, len, f, lost), f)
         IN  /\ a \in MxfType /\ Moves(mxf, a)
             /\ f \in FramePart => a.essence = mxf.essence /\ a.segs = mxf.segs
             /\ f \in {"context", "metadata"} /\ mxf.queued = 0 =>
                  a.queued = 0 /\ a.pos = mxf.pos + StreamAdvance(kind, len, f)
             /\ f \notin FramePart =>
                  /\ a.essence = Append(mxf.essence, mxf.pos + mxf.queued)
                  /\ a.pos > mxf.pos + mxf.queued /\ a.queued = 0
                  /\ mxf.queued = 0 => a.pos = mxf.pos + StreamAdvance(kind, len, f)
                  /\ \E w \in MxfType : /\ w.segs = mxf.segs /\ w.essence = a.essence
                                        /\ a = PushIndexEntry(w, streamOffset)
<1> DEFINE w == WritePackets(mxf, kind, len, f, lost)
           p == PushIndexEntry(w, streamOffset)
           a == Indexed(w, f)
<1>1. mxf \in MxfType /\ kind \in AllKinds /\ streamOffset \in Nat
  BY DEF TypeInv, TypeOK
<1>2. /\ w \in MxfType /\ w.segs = mxf.segs /\ Moves(mxf, w)
      /\ f \in FramePart => w.essence = mxf.essence
      /\ f \in {"context", "metadata"} /\ mxf.queued = 0 =>
           w.queued = 0 /\ w.pos = mxf.pos + StreamAdvance(kind, len, f)
      /\ f \notin FramePart =>
           /\ w.essence = Append(mxf.essence, mxf.pos + mxf.queued)
           /\ w.pos > mxf.pos + mxf.queued /\ w.queued = 0
           /\ mxf.queued = 0 => w.pos = mxf.pos + StreamAdvance(kind, len, f)
  BY <1>1, WritePacketsDoes
<1> HIDE DEF w
<1>3. p \in MxfType
  BY <1>1, <1>2, PushIndexEntryType
<1>4. PICK segs : p = [w EXCEPT !.segs = segs]
  BY DEF PushIndexEntry
<1>5. /\ p.rip = w.rip /\ p.parts = w.parts /\ p.pos = w.pos /\ p.disk = w.disk
      /\ p.essence = w.essence /\ p.queued = w.queued
  BY <1>2, <1>4 DEF MxfType
<1>6. a = IF f \in FramePart THEN w ELSE p
  BY DEF Indexed
<1> HIDE DEF p, a
<1>7. Moves(mxf, p)
  BY <1>2, <1>5 DEF Moves
<1>8. CASE f \in FramePart
  <2>1. a = w
    BY <1>6, <1>8
  <2>2. QED
    BY <1>2, <1>8, <2>1 DEF a, w
<1>9. CASE f \notin FramePart
  <2>1. a = p /\ f \notin {"context", "metadata"}
    BY <1>6, <1>9 DEF FramePart
  <2>2. a.essence = w.essence /\ a.pos = w.pos /\ a.queued = w.queued
    BY <1>5, <2>1
  <2>3. \E x \in MxfType : /\ x.segs = mxf.segs /\ x.essence = a.essence
                           /\ a = PushIndexEntry(x, streamOffset)
    BY <1>2, <2>1, <2>2 DEF p
  <2>4. QED
    BY <1>2, <1>3, <1>7, <1>9, <2>1, <2>2, <2>3 DEF a, w
<1>10. QED
  BY <1>8, <1>9

-----------------------------------------------------------------------------
(* Calls and faults *)

\* The history of a call: its fault comes last, with the frames accepted so far
LEMMA FaultsCalled ==
  ASSUME TypeInv, NEW op, NEW f \in Faults \cup {"assert"}, NEW r, Call(op, f, r)
  PROVE  /\ f = "none" => faults' = faults
         /\ f # "none" =>
              /\ faults' # <<>>
              /\ faults # <<>> => faults'[1] = faults[1]
              /\ faults = <<>> => faults'[1].frames = Len(mxf.essence)
              /\ Len(faults) \in Nat /\ DOMAIN faults = 1 .. Len(faults)
              /\ DOMAIN faults' = 1 .. Len(faults) + 1
              /\ \A i \in DOMAIN faults : faults'[i] = faults[i]
              /\ faults'[Len(faults) + 1].fault = f
<1> DEFINE met == [fault |-> f, frames |-> Len(mxf.essence)]
<1>1. faults \in Seq(Met) /\ mxf.essence \in Seq(Nat)
  BY DEF TypeInv, TypeOK, Met, MxfType
<1>2. faults' = IF f = "none" THEN faults ELSE Append(faults, met)
  BY DEF Call
<1>3. met \in Met /\ met.fault = f /\ met.frames = Len(mxf.essence)
  BY <1>1 DEF Met
<1> HIDE DEF met
<1>4. /\ Len(faults) \in Nat /\ DOMAIN faults = 1 .. Len(faults)
      /\ DOMAIN Append(faults, met) = 1 .. Len(faults) + 1
      /\ \A i \in DOMAIN faults : Append(faults, met)[i] = faults[i]
      /\ Append(faults, met)[Len(faults) + 1] = met
      /\ faults = <<>> => Len(faults) = 0
      /\ faults # <<>> => 1 \in DOMAIN faults
  BY <1>1, <1>3
<1>5. Append(faults, met) # <<>>
  BY <1>4
<1>6. ASSUME f # "none"
      PROVE  /\ faults' # <<>>
             /\ faults # <<>> => faults'[1] = faults[1]
             /\ faults = <<>> => faults'[1].frames = Len(mxf.essence)
             /\ DOMAIN faults' = 1 .. Len(faults) + 1
             /\ \A i \in DOMAIN faults : faults'[i] = faults[i]
             /\ faults'[Len(faults) + 1].fault = f
  <2>1. faults' = Append(faults, met)
    BY <1>2, <1>6
  <2>2. ASSUME faults = <<>> PROVE faults'[1].frames = Len(mxf.essence)
    <3>1. faults'[1] = met
      BY <1>4, <2>1, <2>2
    <3>2. QED
      BY <1>3, <3>1
  <2>3. QED
    BY <1>3, <1>4, <1>5, <2>1, <2>2
<1>7. QED
  BY <1>2, <1>4, <1>6

\* A call after which the file is unharmed
LEMMA UnharmedCall ==
  ASSUME TypeInv, NEW op, NEW f \in Faults \cup {"assert"}, NEW r, Call(op, f, r), Unharmed'
  PROVE  Unharmed /\ (f = "none" \/ f \in Harmless)
<1>1. CASE f = "none"
  BY <1>1, FaultsCalled DEF Unharmed
<1>2. CASE f # "none"
  <2>1. /\ Len(faults) \in Nat /\ DOMAIN faults = 1 .. Len(faults)
        /\ DOMAIN faults' = 1 .. Len(faults) + 1
        /\ \A i \in DOMAIN faults : faults'[i] = faults[i]
        /\ faults'[Len(faults) + 1].fault = f
    BY <1>2, FaultsCalled
  <2>2. \A i \in DOMAIN faults' : faults'[i].fault \in Harmless
    BY DEF Unharmed
  <2>3. Len(faults) + 1 \in DOMAIN faults' /\ \A i \in DOMAIN faults : i \in DOMAIN faults'
    BY <2>1
  <2>4. QED
    BY <2>1, <2>2, <2>3 DEF Unharmed
<1>3. QED
  BY <1>1, <1>2

LEMMA CleanUnharmed == Clean => Unharmed
  BY DEF Clean, Unharmed

LEMMA HarmlessPacks ==
  ASSUME NEW f, f = "none" \/ f \in Harmless
  PROVE  /\ \A part \in {"index", "body", "stream", "footer", "rip", "relink"} :
              PackFault(f, part) = "none" /\ f \notin PackFaults(part)
         /\ f \notin StreamFaults
  BY DEF Harmless, PackFault, PackFaults, Torn, StreamFaults

-----------------------------------------------------------------------------
(* The layout and the file position through the calls of a writer *)

Shape(m) == Begun(m) /\ Known(m) /\ Growing(m) /\ Distinct(m)

\* The header partition of a new file
LEMMA HeaderFile ==
  LET m == PushRip([Empty EXCEPT !.pos = HeaderLen, !.parts = {NewPack(0, "header", 0)}], 0, 0)
  IN  /\ m \in MxfType /\ m.pos > 0 /\ m.queued = 0 /\ m.disk = <<>>
      /\ m.essence = <<>> /\ m.segs = <<>>
      /\ Len(m.rip) = 1 /\ DOMAIN m.rip = {1} /\ m.rip[1] = [sid |-> 0, at |-> 0]
      /\ \A p \in m.parts : p.type = "header" /\ p.at = 0 /\ p.sid = 0
      /\ Known(m) /\ Growing(m) /\ Distinct(m) /\ Ordered(m) /\ Listed(m) /\ Room(m)
      /\ \A top : top > 0 => SidsBelow(m, top)
<1> DEFINE new    == NewPack(0, "header", 0)
           parts  == {new}
           header == [Empty EXCEPT !.pos = HeaderLen, !.parts = parts]
           pair   == [sid |-> 0, at |-> 0]
           rip    == Append(header.rip, pair)
           m      == PushRip(header, 0, 0)
<1>1. new \in Pack /\ new.at = 0 /\ new.type = "header" /\ new.sid = 0
  <2>1. new.at = 0 /\ new.type = "header" /\ new.sid = 0
    BY DEF NewPack
  <2>2. QED
    BY <2>1, NewPackType
<1> HIDE DEF new
<1>2. header \in MxfType /\ header.pos = HeaderLen /\ header.parts = {new}
        /\ header.segs = <<>> /\ header.essence = <<>> /\ header.queued = 0
        /\ header.rip = <<>> /\ header.disk = <<>>
  <2>1. HeaderLen \in Nat /\ parts \in SUBSET Pack
    BY <1>1, LengthAssumption
  <2>2. Empty.segs = <<>> /\ Empty.essence = <<>> /\ Empty.queued = 0 /\ Empty.rip = <<>>
          /\ Empty.disk = <<>>
    BY DEF Empty
  <2> HIDE DEF parts
  <2>3. header \in MxfType /\ header.pos = HeaderLen /\ header.parts = parts
          /\ header.segs = Empty.segs /\ header.essence = Empty.essence
          /\ header.queued = Empty.queued /\ header.rip = Empty.rip /\ header.disk = Empty.disk
    BY <2>1, EmptyType DEF MxfType
  <2>4. QED
    BY <2>2, <2>3 DEF parts
<1> HIDE DEF header
<1>3. m = [header EXCEPT !.rip = rip]
  BY DEF PushRip
<1>4. m \in MxfType
  BY <1>2, PushRipType
<1>5. rip = <<pair>> /\ Len(rip) = 1 /\ DOMAIN rip = {1} /\ rip[1] = pair
  BY <1>2
<1>6. pair.sid = 0 /\ pair.at = 0
  OBVIOUS
<1> HIDE DEF m, rip, pair
<1>7. /\ m.pos = HeaderLen /\ m.parts = {new} /\ m.segs = <<>> /\ m.essence = <<>>
      /\ m.queued = 0 /\ m.rip = rip /\ m.disk = <<>>
  BY <1>2, <1>3 DEF MxfType
<1>8. HeaderLen \in Nat /\ HeaderLen > 0
  BY LengthAssumption
<1>9. Known(m)
  <2>1. Kinded(new)
    BY <1>1 DEF Kinded
  <2>2. QED
    BY <1>1, <1>5, <1>6, <1>7, <1>8, <2>1 DEF Known
<1>10. Growing(m) /\ Distinct(m)
  BY <1>1, <1>5, <1>7 DEF Growing, Distinct
<1>11. Ordered(m) /\ Listed(m)
  BY <1>1, <1>5, <1>6, <1>7, <1>8 DEF Ordered, Listed, Resolves
<1>12. Room(m) /\ \A top : top > 0 => SidsBelow(m, top)
  BY <1>1, <1>5, <1>6, <1>7 DEF Room, SidsBelow
<1>13. \A p \in m.parts : p.type = "header" /\ p.at = 0 /\ p.sid = 0
  BY <1>1, <1>7
<1>14. QED
  BY <1>4, <1>5, <1>7, <1>8, <1>9, <1>10, <1>11, <1>12, <1>13 DEF m, header, parts, new, pair

LEMMA OpenCore ==
  ASSUME TypeInv, Core, NEW f \in Faults, Open(f)
  PROVE  Core'
<1> DEFINE m == PushRip([Empty EXCEPT !.pos = HeaderLen, !.parts = {NewPack(0, "header", 0)}], 0, 0)
           g == PackFault(f, "firstBody")
           a == OpenBodyPartition(m, 0, g)
<1>1. /\ m \in MxfType /\ m.pos > 0 /\ m.queued = 0 /\ m.disk = <<>> /\ m.essence = <<>>
      /\ Len(m.rip) = 1 /\ m.rip[1] = [sid |-> 0, at |-> 0]
      /\ Known(m) /\ Growing(m) /\ Distinct(m) /\ Ordered(m) /\ Listed(m) /\ Room(m)
      /\ \A top : top > 0 => SidsBelow(m, top)
  BY HeaderFile
<1>2. /\ state = "BEGIN" /\ mxf = Empty /\ streamOffset = 0 /\ streamOffset' = 0
      /\ streams' = streams /\ kind' = kind
  BY DEF Open, Core, History
<1>3. PICK r : Call("OpenWrite", f, r)
  BY DEF Open
<1>4. Empty.essence = <<>> /\ Len(Empty.essence) = 0
  BY DEF Empty
<1>5. faults' # <<>> => faults'[1].frames <= 0
  BY <1>2, <1>3, <1>4, FaultsCalled DEF Core, History
<1> HIDE DEF m
<1>6. CASE state' = "BEGIN" /\ mxf' = mxf
  <2>1. ~Writing'
    BY <1>6 DEF Writing
  <2>2. QED
    BY <1>2, <1>4, <1>5, <1>6, <2>1 DEF Core, History, Layout, Steady, Roomy
<1>7. CASE state' = "READY" /\ mxf' = a /\ f \notin {"header", "firstBody"}
  <2>1. a \in MxfType /\ Adds(m, a, 1) /\ (g = "none" => ~Loses(m, a, 1)) /\ a.queued = 0
    BY <1>1, OpenBodyAdds
  <2>2. /\ Known(a) /\ Growing(a) /\ a.disk = <<>> /\ a.essence = <<>>
        /\ PackLost > 0 \/ ~Loses(m, a, 1) => Ordered(a)
        /\ Distinct(a) /\ \A top \in Nat : top > 1 => SidsBelow(a, top)
    <3>1. \A top \in Nat : top > 1 => top > 0
      OBVIOUS
    <3>2. QED
      BY <1>1, <2>1, <3>1, AddsLayout
  <2>3. Begun(a)
    <3>1. Appends(m, a, 1)
      BY <2>1 DEF Adds, Lists, Loses
    <3>2. Len(a.rip) = 2 /\ a.rip[1] = [sid |-> 0, at |-> 0] /\ a.rip[2].sid = 1
      BY <1>1, <3>1 DEF Appends
    <3>3. a.pos > 0
      <4>1. a.pos \in Nat /\ m.pos \in Nat /\ PackLen \in Nat /\ PackLost \in Nat
        BY <1>1, <2>1, FileTypes, LengthAssumption
      <4>2. a.pos >= m.pos + PackLen \/ a.pos >= m.pos + PackLost
        BY <2>1 DEF Adds, Lists, Loses
      <4>3. QED
        BY <1>1, <4>1, <4>2
    <3>4. QED
      BY <3>2, <3>3 DEF Begun
  <2> HIDE DEF a
  <2>4. History'
    <3>1. Len(a.essence) = 0
      BY <2>2
    <3>2. QED
      BY <1>5, <1>7, <2>2, <3>1 DEF History
  <2>5. ASSUME Unharmed' PROVE g = "none"
    <3>1. f = "none" \/ f \in Harmless
      BY <1>3, <2>5, UnharmedCall
    <3>2. QED
      BY <1>7, <3>1 DEF Harmless, PackFault, Torn
  <2>6. Layout'
    <3>1. /\ (EssenceStreamID \in Nat /\ EssenceStreamID > 1)'
          /\ (streams + 2 \in Nat /\ streams + 2 > 1)'
      <4>1. streams \in Nat
        BY BoundAssumption DEF TypeInv, TypeOK
      <4>2. QED
        BY <1>2, <4>1 DEF EssenceStreamID, FirstEssenceStreamID
    <3>2. Intact' => Ordered(a)
      BY <2>1, <2>2, <2>5 DEF Intact
    <3>3. QED
      BY <1>7, <2>2, <2>3, <3>1, <3>2 DEF Layout
  <2>7. Steady'
    <3>1. SUFFICES ASSUME Unharmed'
                   PROVE  /\ Listed(a) /\ a.queued = 0
                          /\ LastPack(a).type = "body" => Positioned(a, LastPack(a), 0)
      BY <1>2, <1>7 DEF Steady
    <3>2. PICK pack \in Pack : Lists(m, a, pack) /\ a.pos = m.pos + PackLen
                                 /\ pack.offset = 0 /\ pack.sid = 1 /\ pack.type = "body"
      BY <1>1, <2>5, <3>1, OpenBodyDoes DEF a
    <3>3. LastPack(a) = pack
      BY <2>2, <3>2, LastListed
    <3>4. Listed(a)
      <4>1. m.pos \in Nat /\ pack.at = m.pos
        BY <1>1, <3>2, FileTypes DEF Lists
      <4>2. Kinded(pack)
        BY <1>1, <3>2, <4>1 DEF Kinded
      <4>3. QED
        BY <1>1, <2>1, <3>2, <4>2, ListsLayout
    <3>5. Positioned(a, pack, 0)
      <4>1. a.pos \in Nat /\ m.pos \in Nat /\ PackLen \in Nat /\ pack.at = m.pos
        BY <1>1, <2>1, <3>2, FileTypes, LengthAssumption DEF Lists
      <4>2. QED
        BY <3>2, <4>1 DEF Positioned
    <3>6. QED
      BY <2>1, <3>3, <3>4, <3>5
  <2>8. Roomy'
    <3>1. SUFFICES ASSUME Clean' PROVE Room(a)
      BY <1>7 DEF Roomy
    <3>2. g = "none"
      BY <2>5, <3>1 DEF Clean, Unharmed
    <3>3. PICK pack \in Pack : Lists(m, a, pack) /\ pack.sid = 1 /\ pack.type = "body"
      BY <1>1, <3>2, OpenBodyDoes DEF a
    <3>4. Kinded(pack)
      <4>1. m.pos \in Nat /\ pack.at = m.pos
        BY <1>1, <3>3, FileTypes DEF Lists
      <4>2. QED
        BY <1>1, <3>3, <4>1 DEF Kinded
    <3>5. QED
      BY <1>1, <2>1, <3>3, <3>4, ListsLayout
  <2>9. QED
    BY <2>4, <2>6, <2>7, <2>8 DEF Core
<1>8. QED
  BY <1>2, <1>6, <1>7 DEF Open, m

\* The index partition and the body partition that end a full one
LEMMA NextBody ==
  ASSUME NEW m \in MxfType, HasEntries(m), Shape(m), NEW offset \in Nat, NEW f, NEW g
  PROVE  LET i == FlushIndexPartition(m, f)
             a == OpenBodyPartition(i, offset, g)
         IN  /\ i \in MxfType /\ a \in MxfType /\ Shape(i) /\ Shape(a)
             /\ a.disk = m.disk /\ a.essence = m.essence /\ a.queued = m.queued
             /\ Ordered(m) /\ (PackLost > 0 \/ (f = "none" /\ g = "none")) => Ordered(i) /\ Ordered(a)
             /\ \A top \in Nat : top > 1 /\ SidsBelow(m, top) => SidsBelow(a, top)
             /\ f = "none" /\ g = "none" =>
                  /\ Listed(m) => Listed(a)
                  /\ Room(m) /\ Ordered(m) => Room(a)
                  /\ Positioned(a, LastPack(a), offset)
<1> DEFINE i == FlushIndexPartition(m, f)
           a == OpenBodyPartition(i, offset, g)
<1>1. m.pos > 0 /\ Known(m) /\ Growing(m) /\ Distinct(m) /\ Begun(m)
  BY DEF Shape, Begun
<1>2. i \in MxfType /\ Adds(m, i, 0) /\ (f = "none" => ~Loses(m, i, 0)) /\ i.queued = m.queued
  BY <1>1, FlushAdds
<1>3. /\ Known(i) /\ Growing(i) /\ Begun(i) /\ Distinct(i)
      /\ i.disk = m.disk /\ i.essence = m.essence
      /\ Ordered(m) /\ (PackLost > 0 \/ ~Loses(m, i, 0)) => Ordered(i)
      /\ \A top : SidsBelow(m, top) /\ 0 < top => SidsBelow(i, top)
  BY <1>1, <1>2, AddsLayout
<1>4. f = "none" => \E pack \in Pack : Lists(m, i, pack) /\ pack.sid = 0 /\ pack.type = "index"
  BY FlushDoes
<1> HIDE DEF i
<1>5. i.pos > 0
  BY <1>3 DEF Begun
<1>6. a \in MxfType /\ Adds(i, a, 1) /\ (g = "none" => ~Loses(i, a, 1)) /\ a.queued = i.queued
  BY <1>2, <1>3, <1>5, OpenBodyAdds
<1>7. /\ Known(a) /\ Growing(a) /\ Begun(a) /\ Distinct(a)
      /\ a.disk = i.disk /\ a.essence = i.essence
      /\ Ordered(i) /\ (PackLost > 0 \/ ~Loses(i, a, 1)) => Ordered(a)
      /\ \A top : SidsBelow(i, top) /\ 1 < top => SidsBelow(a, top)
  BY <1>2, <1>3, <1>6, AddsLayout
<1>8. g = "none" => \E pack \in Pack : /\ Lists(i, a, pack) /\ a.pos = i.pos + PackLen
                                       /\ pack.sid = 1 /\ pack.type = "body" /\ pack.offset = offset
  BY <1>2, OpenBodyDoes
<1> HIDE DEF a
<1>9. ASSUME f = "none", g = "none"
      PROVE  /\ Listed(m) => Listed(a)
             /\ Room(m) /\ Ordered(m) => Room(a)
             /\ Positioned(a, LastPack(a), offset)
  <2>1. PICK p \in Pack : Lists(m, i, p) /\ p.sid = 0 /\ p.type = "index"
    BY <1>4, <1>9
  <2>2. PICK q \in Pack : /\ Lists(i, a, q) /\ a.pos = i.pos + PackLen
                          /\ q.sid = 1 /\ q.type = "body" /\ q.offset = offset
    BY <1>8, <1>9
  <2>3. p.at = m.pos /\ q.at = i.pos /\ m.pos \in Nat /\ i.pos \in Nat /\ PackLen \in Nat
    BY <1>2, <2>1, <2>2, FileTypes, LengthAssumption DEF Lists
  <2>4. Kinded(p) /\ Kinded(q)
    BY <1>1, <1>5, <2>1, <2>2, <2>3 DEF Kinded
  <2>5. Listed(m) => Listed(i) /\ Listed(a)
    BY <1>1, <1>2, <1>3, <1>6, <2>1, <2>2, <2>4, ListsLayout
  <2>6. Room(m) /\ Ordered(m) => Room(i)
    BY <1>1, <1>2, <2>1, <2>4, ListsLayout
  <2>7. Room(i) /\ Ordered(i) => Room(a)
    BY <1>2, <1>3, <1>6, <2>2, <2>4, ListsLayout
  <2>8. LastPack(a) = q
    BY <1>7, <2>2, LastListed
  <2>9. Positioned(a, q, offset)
    BY <2>2, <2>3 DEF Positioned
  <2>10. QED
    BY <1>2, <1>3, <1>9, <2>5, <2>6, <2>7, <2>8, <2>9
<1>10. \A top \in Nat : top > 1 /\ SidsBelow(m, top) => SidsBelow(a, top)
  <2>1. \A top \in Nat : top > 1 => 0 < top /\ 1 < top
    OBVIOUS
  <2>2. QED
    BY <1>3, <1>7, <2>1
<1>11. Shape(i) /\ Shape(a)
  BY <1>3, <1>7 DEF Shape
<1>12. QED
  BY <1>2, <1>3, <1>6, <1>7, <1>9, <1>10, <1>11 DEF a, i

LEMMA GrowingMoved ==
  ASSUME NEW m \in MxfType, NEW a \in MxfType, Moves(m, a), Growing(m),
         \/ a.essence = m.essence
         \/ a.essence = Append(m.essence, m.pos + m.queued) /\ a.pos > m.pos + m.queued
  PROVE  Growing(a)
<1>1. /\ m.pos \in Nat /\ m.queued \in Nat /\ a.pos \in Nat /\ a.pos >= m.pos
      /\ m.essence \in Seq(Nat) /\ Len(m.essence) \in Nat
      /\ DOMAIN m.essence = 1 .. Len(m.essence)
      /\ \A k \in DOMAIN m.essence : m.essence[k] \in Nat /\ m.essence[k] < m.pos
      /\ \A p \in a.parts : p.type # "footer"
  BY FileTypes DEF Moves, Growing
<1>2. CASE a.essence = m.essence
  BY <1>1, <1>2 DEF Growing
<1>3. CASE a.essence = Append(m.essence, m.pos + m.queued) /\ a.pos > m.pos + m.queued
  <2> DEFINE at == m.pos + m.queued
  <2>1. at \in Nat
    BY <1>1
  <2> HIDE DEF at
  <2>2. /\ DOMAIN a.essence = 1 .. Len(m.essence) + 1
        /\ a.essence[Len(m.essence) + 1] = at
        /\ \A k \in 1 .. Len(m.essence) : a.essence[k] = m.essence[k]
    BY <1>1, <1>3, <2>1 DEF at
  <2>3. ASSUME NEW k \in DOMAIN a.essence PROVE a.essence[k] < a.pos
    <3>1. k = Len(m.essence) + 1 \/ k \in 1 .. Len(m.essence)
      BY <1>1, <2>2
    <3>2. QED
      BY <1>1, <1>3, <2>1, <2>2, <3>1 DEF at
  <2>4. QED
    BY <1>1, <2>3 DEF Growing
<1>4. QED
  BY <1>2, <1>3

LEMMA ShapeMoved ==
  ASSUME NEW m \in MxfType, NEW a \in MxfType, Moves(m, a), Shape(m),
         \/ a.essence = m.essence
         \/ a.essence = Append(m.essence, m.pos + m.queued) /\ a.pos > m.pos + m.queued
  PROVE  Shape(a)
  BY MovesLayout, GrowingMoved DEF Shape

\* The conditions of Core in which the kind of the file and the faults play a part
Sids(m) ==
  /\ kind.ancillary => SidsBelow(m, EssenceStreamID)
  /\ kind.master => SidsBelow(m, 2)
  /\ kind.dms => SidsBelow(m, streams + 2)

LEMMA LayoutIs ==
  Layout <=> (Writing => Shape(mxf) /\ Sids(mxf) /\ (Intact => Ordered(mxf)))
  BY DEF Layout, Shape, Sids

LEMMA WriteFrameCore ==
  ASSUME TypeInv, TypeInv', Core, NEW len \in FrameLens, NEW f \in Faults, NEW lost \in 0 .. len,
         WriteFrame(len, f, lost)
  PROVE  Core'
<1> DEFINE stored == Indexed(WritePackets(mxf, kind, len, f, lost), f)
           offset == streamOffset + StreamAdvance(kind, len, f)
           g1     == PackFault(f, "index")
           g2     == PackFault(f, "body")
           idx    == FlushIndexPartition(stored, g1)
           opened == OpenBodyPartition(idx, offset, g2)
<1>1. /\ Writing /\ Writing' /\ kind' = kind /\ streams' = streams /\ streamOffset' = offset
      /\ PartitionFull => HasEntries(stored)
      /\ mxf' = IF PartitionFull THEN opened ELSE stored
  BY DEF WriteFrame, Writing
<1>2. f \in FramePart <=> f \in FrameFaults(kind)
  <2>1. f \in {"none"} \cup FrameFaults(kind) \cup PackFaults("index") \cup PackFaults("body")
    BY DEF WriteFrame
  <2>2. QED
    BY <2>1 DEF FrameFaults, FramePart, PackFaults, Torn
<1>3. PICK r : Call("WriteFrame", f, r)
  BY DEF WriteFrame
<1>4. /\ mxf \in MxfType /\ kind \in AllKinds /\ streamOffset \in Nat
      /\ Shape(mxf) /\ Sids(mxf) /\ (Intact => Ordered(mxf))
  BY <1>1, LayoutIs DEF TypeInv, TypeOK, Core
<1>5. offset \in Nat
  <2>1. StreamAdvance(kind, len, f) \in Nat
    BY <1>4, StreamAdvanceType
  <2>2. QED
    BY <1>4, <2>1
<1>6. /\ stored \in MxfType /\ Moves(mxf, stored)
      /\ f \in FramePart => stored.essence = mxf.essence /\ stored.segs = mxf.segs
      /\ f \in {"context", "metadata"} /\ mxf.queued = 0 =>
           stored.queued = 0 /\ stored.pos = mxf.pos + StreamAdvance(kind, len, f)
      /\ f \notin FramePart =>
           /\ stored.essence = Append(mxf.essence, mxf.pos + mxf.queued)
           /\ stored.pos > mxf.pos + mxf.queued /\ stored.queued = 0
           /\ mxf.queued = 0 => stored.pos = mxf.pos + StreamAdvance(kind, len, f)
  BY <1>2, StoredDoes
<1> HIDE DEF stored
<1>7. Shape(stored) /\ (Ordered(mxf) => Ordered(stored)) /\ (Listed(mxf) => Listed(stored))
        /\ (Room(mxf) => Room(stored)) /\ \A top : SidsBelow(mxf, top) => SidsBelow(stored, top)
  BY <1>4, <1>6, ShapeMoved, MovesLayout
<1>8. stored.disk = mxf.disk
  BY <1>6 DEF Moves
<1>9. PartitionFull =>
        /\ opened \in MxfType /\ Shape(opened)
        /\ opened.disk = stored.disk /\ opened.essence = stored.essence
        /\ opened.queued = stored.queued
        /\ Ordered(stored) /\ (PackLost > 0 \/ (g1 = "none" /\ g2 = "none")) => Ordered(opened)
        /\ \A top \in Nat : top > 1 /\ SidsBelow(stored, top) => SidsBelow(opened, top)
        /\ g1 = "none" /\ g2 = "none" =>
             /\ Listed(stored) => Listed(opened)
             /\ Room(stored) /\ Ordered(stored) => Room(opened)
             /\ Positioned(opened, LastPack(opened), offset)
  BY <1>1, <1>5, <1>6, <1>7, NextBody
<1> HIDE DEF idx, opened
<1>10. mxf' \in MxfType /\ Shape(mxf)' /\ mxf'.disk = mxf.disk /\ mxf'.essence = stored.essence
         /\ mxf'.queued = stored.queued
  BY <1>1, <1>6, <1>7, <1>8, <1>9 DEF Shape, Begun, Known, Growing, Distinct
<1>11. ASSUME Unharmed'
       PROVE  /\ Unharmed /\ g1 = "none" /\ g2 = "none"
              /\ f \notin FramePart \/ f \in {"context", "metadata"}
              /\ Listed(mxf) /\ mxf.queued = 0 /\ Ordered(mxf)
  <2>1. Unharmed /\ (f = "none" \/ f \in Harmless)
    BY <1>3, <1>11, UnharmedCall
  <2>2. QED
    BY <1>1, <1>4, <2>1, HarmlessPacks DEF Harmless, FramePart, Intact, Core, Steady
<1> HIDE DEF offset, g1, g2
<1>12. History'
  <2>1. faults' # <<>> => faults'[1].frames <= Len(mxf'.essence)
    <3>1. Len(mxf'.essence) >= Len(mxf.essence) /\ Len(mxf.essence) \in Nat
            /\ Len(mxf'.essence) \in Nat
      <4>1. mxf.essence \in Seq(Nat) /\ Len(mxf.essence) \in Nat /\ Len(mxf'.essence) \in Nat
              /\ mxf.pos + mxf.queued \in Nat
        BY <1>4, <1>10, FileTypes
      <4>2. CASE mxf'.essence = mxf.essence
        BY <4>1, <4>2
      <4>3. CASE mxf'.essence = Append(mxf.essence, mxf.pos + mxf.queued)
        BY <4>1, <4>3
      <4>4. QED
        BY <1>6, <1>10, <4>2, <4>3
    <3>2. CASE f = "none"
      <4>1. faults' = faults
        BY <1>3, <3>2, FaultsCalled
      <4>2. ASSUME faults # <<>> PROVE faults[1].frames <= Len(mxf.essence) /\ faults[1].frames \in Nat
        <5>1. faults[1].frames <= Len(mxf.essence)
          BY <4>2 DEF Core, History
        <5>2. faults \in Seq(Met)
          BY DEF TypeInv, TypeOK, Met
        <5>3. faults[1] \in Met
          BY <4>2, <5>2
        <5>4. QED
          BY <5>1, <5>3 DEF Met
      <4>3. QED
        BY <3>1, <4>1, <4>2
    <3>3. CASE f # "none"
      <4>1. CASE faults = <<>>
        BY <1>3, <3>1, <3>3, <4>1, FaultsCalled
      <4>2. CASE faults # <<>>
        <5>1. faults'[1] = faults[1]
          BY <1>3, <3>3, <4>2, FaultsCalled
        <5>2. faults[1].frames <= Len(mxf.essence)
          BY <4>2 DEF Core, History
        <5>3. faults \in Seq(Met)
          BY DEF TypeInv, TypeOK, Met
        <5>4. faults[1] \in Met
          BY <4>2, <5>3
        <5>5. QED
          BY <3>1, <5>1, <5>2, <5>4 DEF Met
      <4>3. QED
        BY <4>1, <4>2
    <3>4. QED
      BY <3>2, <3>3
  <2>2. state' # "BEGIN" /\ mxf'.disk = <<>>
    BY <1>1, <1>10 DEF Writing, Core, History
  <2>3. QED
    BY <2>1, <2>2 DEF History
<1>13. Layout'
  <2>1. Intact' => Ordered(mxf')
    <3>1. SUFFICES ASSUME Intact' PROVE Ordered(mxf')
      OBVIOUS
    <3>2. PackLost > 0 \/ Unharmed'
      BY <3>1 DEF Intact
    <3>3. Ordered(stored)
      BY <1>4, <1>7, <1>11, <3>2 DEF Intact
    <3>4. PackLost > 0 \/ (g1 = "none" /\ g2 = "none")
      <4>1. CASE PackLost > 0
        BY <4>1
      <4>2. CASE Unharmed'
        BY <1>11, <4>2
      <4>3. QED
        BY <3>2, <4>1, <4>2
    <3>5. CASE PartitionFull
      <4>1. Ordered(opened)
        BY <1>9, <3>3, <3>4, <3>5
      <4>2. QED
        BY <1>1, <3>5, <4>1
    <3>6. CASE ~PartitionFull
      BY <1>1, <3>3, <3>6
    <3>7. QED
      BY <3>5, <3>6
  <2>2. Sids(mxf)'
    <3>1. /\ EssenceStreamID' = EssenceStreamID /\ EssenceStreamID \in Nat /\ EssenceStreamID > 1
          /\ streams + 2 \in Nat /\ streams + 2 > 1
      <4>1. streams \in Nat
        BY BoundAssumption DEF TypeInv, TypeOK
      <4>2. QED
        BY <1>1, <4>1 DEF EssenceStreamID, FirstEssenceStreamID
    <3>2. ASSUME NEW top \in Nat, top > 1, SidsBelow(mxf, top) PROVE SidsBelow(mxf', top)
      <4>1. SidsBelow(stored, top)
        BY <1>7, <3>2
      <4>2. PartitionFull => SidsBelow(opened, top)
        BY <1>9, <3>2, <4>1
      <4>3. QED
        BY <1>1, <4>1, <4>2
    <3>3. kind' = kind /\ streams' = streams /\ Sids(mxf)
      BY <1>1, <1>4
    <3>4. ASSUME kind.ancillary PROVE SidsBelow(mxf', EssenceStreamID)
      BY <3>1, <3>2, <3>3, <3>4 DEF Sids
    <3>5. ASSUME kind.master PROVE SidsBelow(mxf', 2)
      BY <3>2, <3>3, <3>5 DEF Sids
    <3>6. ASSUME kind.dms PROVE SidsBelow(mxf', streams + 2)
      BY <3>1, <3>2, <3>3, <3>6 DEF Sids
    <3>7. /\ SidsBelow(mxf, EssenceStreamID)' <=> SidsBelow(mxf', EssenceStreamID)
          /\ SidsBelow(mxf, streams + 2)' <=> SidsBelow(mxf', streams + 2)
          /\ SidsBelow(mxf, 2)' <=> SidsBelow(mxf', 2)
      BY <3>1, <3>3 DEF SidsBelow
    <3>8. QED
      BY <3>3, <3>4, <3>5, <3>6, <3>7 DEF Sids
  <2>3. QED
    BY <1>1, <1>10, <2>1, <2>2, LayoutIs DEF Layout, Shape, Sids, Begun, Known, Growing, Distinct, Ordered, SidsBelow
<1>14. Steady'
  <2>1. SUFFICES ASSUME Unharmed'
                 PROVE  /\ Listed(mxf') /\ mxf'.queued = 0
                        /\ LastPack(mxf').type = "body"
                             => Positioned(mxf', LastPack(mxf'), streamOffset')
    BY DEF Steady, Listed, Resolves, LastPack, PackAt, Positioned
  <2>2. /\ Unharmed /\ g1 = "none" /\ g2 = "none"
        /\ f \notin FramePart \/ f \in {"context", "metadata"}
        /\ Listed(mxf) /\ mxf.queued = 0 /\ Ordered(mxf)
    BY <1>11, <2>1
  <2>3. stored.queued = 0 /\ stored.pos = mxf.pos + StreamAdvance(kind, len, f)
    BY <1>6, <2>2
  <2>4. Listed(mxf') /\ mxf'.queued = 0
    BY <1>1, <1>7, <1>9, <1>10, <2>2, <2>3
  <2>5. CASE PartitionFull
    BY <1>1, <1>9, <2>2, <2>4, <2>5
  <2>6. CASE ~PartitionFull
    <3>1. mxf' = stored /\ LastPack(stored) = LastPack(mxf)
      BY <1>1, <1>6, <2>6, LastMoved
    <3>2. ASSUME LastPack(mxf).type = "body" PROVE Positioned(stored, LastPack(mxf), offset)
      <4> DEFINE b == LastPack(mxf)
      <4>1. mxf.pos + b.offset = b.at + PackLen + streamOffset
        BY <1>1, <2>2, <3>2 DEF Core, Steady, Positioned
      <4>2. b \in mxf.parts
        <5>1. Len(mxf.rip) \in DOMAIN mxf.rip
          BY <1>4, FileTypes DEF Shape, Begun
        <5>2. QED
          BY <2>2, <5>1 DEF Listed, Resolves, LastPack, PackAt
      <4>3. b.offset \in Nat /\ b.at \in Nat /\ PackLen \in Nat /\ mxf.pos \in Nat
              /\ StreamAdvance(kind, len, f) \in Nat
        BY <1>4, <4>2, FileTypes, StreamAdvanceType, LengthAssumption
      <4> HIDE DEF b
      <4>4. (mxf.pos + StreamAdvance(kind, len, f)) + b.offset
              = b.at + PackLen + (streamOffset + StreamAdvance(kind, len, f))
        <5> DEFINE x == b.offset
                   y == b.at + PackLen
                   z == StreamAdvance(kind, len, f)
        <5>1. x \in Nat /\ y \in Nat /\ z \in Nat /\ streamOffset \in Nat /\ mxf.pos \in Nat
                /\ mxf.pos + x = y + streamOffset
          BY <1>4, <4>1, <4>3
        <5> HIDE DEF x, y, z
        <5>2. (mxf.pos + z) + x = y + (streamOffset + z)
          BY <5>1
        <5>3. QED
          BY <5>2 DEF x, y, z
      <4>5. QED
        BY <2>3, <4>4 DEF Positioned, offset, b
    <3>3. QED
      BY <1>1, <2>4, <3>1, <3>2
  <2>7. QED
    BY <2>5, <2>6
<1>15. Roomy'
  <2>1. SUFFICES ASSUME Clean' PROVE Room(mxf')
    BY DEF Roomy, Room
  <2>2. Unharmed' /\ Clean
    <3>1. Unharmed'
      BY <2>1 DEF Clean, Unharmed
    <3>2. Clean
      BY <1>3, <2>1, CleanCall
    <3>3. QED
      BY <3>1, <3>2
  <2>3. g1 = "none" /\ g2 = "none" /\ Ordered(stored) /\ Room(stored)
    BY <1>1, <1>7, <1>11, <2>2 DEF Core, Roomy
  <2>4. QED
    BY <1>1, <1>9, <2>3
<1>16. QED
  BY <1>12, <1>13, <1>14, <1>15 DEF Core

\* The frames accepted before the first fault are still there
LEMMA FaultsFrames ==
  ASSUME TypeInv, History, NEW op, NEW f \in Faults \cup {"assert"}, NEW r, Call(op, f, r),
         mxf' \in MxfType, Len(mxf'.essence) >= Len(mxf.essence)
  PROVE  faults' # <<>> => faults'[1].frames <= Len(mxf'.essence)
<1>1. Len(mxf.essence) \in Nat /\ Len(mxf'.essence) \in Nat
  BY FileTypes DEF TypeInv, TypeOK
<1>2. ASSUME faults # <<>>
      PROVE  faults[1].frames <= Len(mxf.essence) /\ faults[1].frames \in Nat
  <2>1. faults \in Seq(Met)
    BY DEF TypeInv, TypeOK, Met
  <2>2. faults[1] \in Met
    BY <1>2, <2>1
  <2>3. QED
    BY <1>2, <2>2 DEF Met, History
<1>3. CASE f = "none"
  <2>1. faults' = faults
    BY <1>3, FaultsCalled
  <2>2. QED
    BY <1>1, <1>2, <2>1
<1>4. CASE f # "none"
  <2>1. CASE faults = <<>>
    BY <1>1, <1>4, <2>1, FaultsCalled
  <2>2. CASE faults # <<>>
    <3>1. faults'[1] = faults[1]
      BY <1>4, <2>2, FaultsCalled
    <3>2. QED
      BY <1>1, <1>2, <2>2, <3>1
  <2>3. QED
    BY <2>1, <2>2
<1>5. QED
  BY <1>3, <1>4

\* Core of the next state, part by part
LEMMA CoreFrom ==
  ASSUME History',
         Writing' => Shape(mxf') /\ Sids(mxf)' /\ (Intact' => Ordered(mxf')),
         Writing' /\ Unharmed' =>
           /\ Listed(mxf') /\ mxf'.queued = 0
           /\ LastPack(mxf').type = "body" => Positioned(mxf', LastPack(mxf'), streamOffset'),
         Writing' /\ Clean' => Room(mxf')
  PROVE  Core'
<1>1. Layout'
  BY LayoutIs DEF Layout, Shape, Sids, Begun, Known, Growing, Distinct, Ordered, SidsBelow
<1>2. Steady'
  BY DEF Steady, Listed, Resolves, LastPack, PackAt, Positioned
<1>3. Roomy'
  BY DEF Roomy, Room
<1>4. QED
  BY <1>1, <1>2, <1>3 DEF Core

LEMMA FlushShape ==
  ASSUME NEW m \in MxfType, Shape(m), NEW f
  PROVE  LET a == FlushIndexPartition(m, f)
         IN  /\ a \in MxfType /\ Shape(a)
             /\ a.disk = m.disk /\ a.essence = m.essence /\ a.queued = m.queued
             /\ Ordered(m) /\ (PackLost > 0 \/ f = "none") => Ordered(a)
             /\ \A top \in Nat : top > 1 /\ SidsBelow(m, top) => SidsBelow(a, top)
             /\ f = "none" => /\ Listed(m) => Listed(a)
                              /\ Room(m) /\ Ordered(m) => Room(a)
<1> DEFINE a == FlushIndexPartition(m, f)
<1>1. CASE ~HasEntries(m)
  <2>1. a = m
    BY <1>1 DEF FlushIndexPartition
  <2>2. QED
    BY <2>1
<1>2. CASE HasEntries(m)
  <2>1. m.pos > 0 /\ Known(m) /\ Growing(m) /\ Distinct(m) /\ Begun(m)
    BY DEF Shape, Begun
  <2>2. a \in MxfType /\ Adds(m, a, 0) /\ (f = "none" => ~Loses(m, a, 0)) /\ a.queued = m.queued
    BY <1>2, <2>1, FlushAdds
  <2> HIDE DEF a
  <2>3. /\ Known(a) /\ Growing(a) /\ Begun(a) /\ Distinct(a)
        /\ a.disk = m.disk /\ a.essence = m.essence
        /\ Ordered(m) /\ (PackLost > 0 \/ ~Loses(m, a, 0)) => Ordered(a)
        /\ \A top : SidsBelow(m, top) /\ 0 < top => SidsBelow(a, top)
    BY <2>1, <2>2, AddsLayout
  <2>4. ASSUME f = "none"
        PROVE  (Listed(m) => Listed(a)) /\ (Room(m) /\ Ordered(m) => Room(a))
    <3>1. PICK pack : Lists(m, a, pack) /\ pack.sid = 0 /\ Kinded(pack)
      BY <2>2, <2>4 DEF Adds
    <3>2. pack.type # "stream"
      BY <3>1 DEF Kinded
    <3>3. QED
      BY <2>1, <2>2, <3>1, <3>2, ListsLayout
  <2>5. \A top \in Nat : top > 1 /\ SidsBelow(m, top) => SidsBelow(a, top)
    <3>1. \A top \in Nat : top > 1 => 0 < top
      OBVIOUS
    <3>2. QED
      BY <2>3, <3>1
  <2>6. QED
    BY <2>2, <2>3, <2>4, <2>5 DEF a, Shape
<1>3. QED
  BY <1>1, <1>2

\* A generic-stream partition with a SID of its own
LEMMA NewStream ==
  ASSUME NEW m \in MxfType, Shape(m), NEW sid \in Nat, sid > 1, SidsBelow(m, sid), NEW f,
         framesWritten \in Nat
  PROVE  LET a == PutStream(m, sid, f)
         IN  /\ a \in MxfType /\ Shape(a) /\ a.disk = m.disk /\ a.essence = m.essence
             /\ Ordered(m) /\ (PackLost > 0 \/ f \notin PackFaults("stream")) => Ordered(a)
             /\ \A top \in Nat : sid < top => SidsBelow(a, top)
             /\ f \notin PackFaults("stream") => (Listed(m) => Listed(a))
             /\ f = "none" => /\ Room(m) /\ Ordered(m) => Room(a)
                              /\ a.queued = 0 /\ LastPack(a).type = "stream"
<1> DEFINE a == PutStream(m, sid, f)
<1>1. Known(m) /\ Growing(m) /\ Distinct(m) /\ Begun(m) /\ m.rip # <<>>
  BY DEF Shape, Begun
<1>2. a \in MxfType /\ Adds(m, a, sid) /\ (f \notin PackFaults("stream") => ~Loses(m, a, sid))
  BY <1>1, PutStreamAdds
<1>3. f = "none" => a.pos >= m.pos + (PackLen + StreamLen) /\ a.queued = 0
  BY <1>1, PutStreamDoes
<1> HIDE DEF a
<1>4. \A i \in DOMAIN m.rip : m.rip[i].sid # sid
  BY FileTypes DEF SidsBelow
<1>5. /\ Known(a) /\ Growing(a) /\ Begun(a) /\ Distinct(a)
      /\ a.disk = m.disk /\ a.essence = m.essence
      /\ Ordered(m) /\ (PackLost > 0 \/ ~Loses(m, a, sid)) => Ordered(a)
      /\ \A top : SidsBelow(m, top) /\ sid < top => SidsBelow(a, top)
  BY <1>1, <1>2, <1>4, AddsLayout
<1>6. ASSUME NEW top \in Nat, sid < top PROVE SidsBelow(a, top)
  <2>1. SidsBelow(m, top)
    BY <1>6, FileTypes DEF SidsBelow
  <2>2. QED
    BY <1>5, <1>6, <2>1
<1>7. ASSUME f \notin PackFaults("stream")
      PROVE  /\ Listed(m) => Listed(a)
             /\ f = "none" => /\ Room(m) /\ Ordered(m) => Room(a)
                              /\ a.queued = 0 /\ LastPack(a).type = "stream"
  <2>1. PICK pack : Lists(m, a, pack) /\ pack.sid = sid /\ Kinded(pack)
    BY <1>2, <1>7 DEF Adds
  <2>2. pack.type = "stream" /\ LastPack(a) = pack
    BY <1>5, <2>1, LastListed DEF Kinded
  <2>3. QED
    BY <1>1, <1>2, <1>3, <2>1, <2>2, ListsLayout
<1>8. f = "none" => f \notin PackFaults("stream")
  BY DEF PackFaults, Torn
<1>9. QED
  BY <1>2, <1>5, <1>6, <1>7, <1>8 DEF a, Shape

LEMMA MaxSidIs ==
  ASSUME NEW m \in MxfType, m.rip # <<>>, NEW top \in Nat, SidsBelow(m, top)
  PROVE  /\ MaxSid(m) \in Nat /\ MaxSid(m) < top
         /\ \A i \in DOMAIN m.rip : m.rip[i].sid <= MaxSid(m)
<1> DEFINE T == {m.rip[i].sid : i \in DOMAIN m.rip}
           greatest == {i \in DOMAIN m.rip : \A j \in DOMAIN m.rip : m.rip[j].sid <= m.rip[i].sid}
           g == CHOOSE i \in greatest : TRUE
<1>1. /\ \A i \in DOMAIN m.rip : m.rip[i].sid \in Nat /\ m.rip[i].sid < top
      /\ 1 \in DOMAIN m.rip
  <2>1. m.rip \in Seq(Pair)
    BY DEF MxfType
  <2>2. QED
    BY <2>1, FileTypes DEF SidsBelow
<1>2. T \in SUBSET Nat /\ T # {} /\ \A x \in T : x <= top
  <2>1. m.rip[1].sid \in T
    BY <1>1
  <2>2. ASSUME NEW x \in T PROVE x \in Nat /\ x <= top
    <3>1. PICK i \in DOMAIN m.rip : x = m.rip[i].sid
      OBVIOUS
    <3>2. x \in Nat /\ x < top
      BY <1>1, <3>1
    <3>3. QED
      BY <3>2
  <2> HIDE DEF T
  <2>3. QED
    BY <2>1, <2>2
<1>3. PICK x \in T : \A y \in T : y <= x
  BY <1>2, Greatest
<1>4. greatest # {}
  BY <1>3
<1>5. g \in greatest
  BY <1>4
<1>6. MaxSid(m) = m.rip[g].sid
  BY <1>4 DEF MaxSid
<1>7. QED
  BY <1>1, <1>5, <1>6

\* A kind offers one sort of generic stream at most
LEMMA KindIs ==
  ASSUME NEW k \in AllKinds
  PROVE  ~(k.dms /\ k.ancillary) /\ ~(k.dms /\ k.master) /\ ~(k.ancillary /\ k.master)
<1>1. /\ JP2K.dms = FALSE /\ JP2K.ancillary = FALSE /\ JP2K.master = FALSE
      /\ JXS.dms = FALSE /\ JXS.ancillary = FALSE /\ JXS.master = FALSE
      /\ ACES.dms = FALSE /\ ACES.ancillary = TRUE /\ ACES.master = FALSE
      /\ ISXD.dms = TRUE /\ ISXD.ancillary = FALSE /\ ISXD.master = FALSE
      /\ PHDR.dms = FALSE /\ PHDR.ancillary = FALSE /\ PHDR.master = TRUE
  BY DEF JP2K, JXS, ACES, ISXD, PHDR
<1>2. k = JP2K \/ k = JXS \/ k = ACES \/ k = ISXD \/ k = PHDR
  BY DEF AllKinds
<1>3. QED
  BY <1>1, <1>2, Zenon

LEMMA AddDmsCore ==
  ASSUME TypeInv, TypeInv', Core, NEW f \in Faults, AddDms(f)
  PROVE  Core'
<1> DEFINE g   == PackFault(f, "index")
           m   == FlushIndexPartition(mxf, g)
           sid == MaxSid(m) + 1
           a   == PutStream(m, sid, f)
           top == streams + 2
<1>1. /\ Writing /\ Writing' /\ kind' = kind /\ streams' = streams + 1 /\ streamOffset' = streamOffset
      /\ mxf' = a /\ kind.dms /\ state' = state
  BY DEF AddDms, Writing
<1>2. Call("AddDms", f, "OK")
  BY DEF AddDms
<1>3. /\ mxf \in MxfType /\ mxf' \in MxfType /\ framesWritten \in Nat /\ streams \in Nat
      /\ kind \in AllKinds
      /\ Shape(mxf) /\ Sids(mxf) /\ (Intact => Ordered(mxf))
  BY <1>1, BoundAssumption, LayoutIs DEF TypeInv, TypeOK, Core
<1>4. ~kind.ancillary /\ ~kind.master
  BY <1>1, <1>3, KindIs
<1>5. top \in Nat /\ top > 1 /\ SidsBelow(mxf, top) /\ top + 1 = streams' + 2
  BY <1>1, <1>3 DEF Sids
<1> HIDE DEF top
<1>6. /\ m \in MxfType /\ Shape(m) /\ m.disk = mxf.disk /\ m.essence = mxf.essence
      /\ Ordered(mxf) /\ (PackLost > 0 \/ g = "none") => Ordered(m)
      /\ SidsBelow(m, top)
      /\ g = "none" => /\ Listed(mxf) => Listed(m)
                       /\ Room(mxf) /\ Ordered(mxf) => Room(m)
  BY <1>3, <1>5, FlushShape
<1> HIDE DEF m
<1>7. sid \in Nat /\ sid > 1 /\ SidsBelow(m, sid) /\ sid < top + 1
  <2>1. m.rip # <<>> /\ 2 \in DOMAIN m.rip /\ m.rip[2].sid = 1
    BY <1>6, FileTypes DEF Shape, Begun
  <2>2. MaxSid(m) \in Nat /\ MaxSid(m) < top /\ \A i \in DOMAIN m.rip : m.rip[i].sid <= MaxSid(m)
    BY <1>5, <1>6, <2>1, MaxSidIs
  <2>3. \A i \in DOMAIN m.rip : m.rip[i].sid \in Nat
    BY <1>6, FileTypes
  <2>4. QED
    BY <1>5, <2>1, <2>2, <2>3 DEF SidsBelow
<1> HIDE DEF sid
<1>8. /\ Shape(a) /\ a.disk = m.disk /\ a.essence = m.essence
      /\ Ordered(m) /\ (PackLost > 0 \/ f \notin PackFaults("stream")) => Ordered(a)
      /\ SidsBelow(a, top + 1)
      /\ f \notin PackFaults("stream") => (Listed(m) => Listed(a))
      /\ f = "none" => /\ Room(m) /\ Ordered(m) => Room(a)
                       /\ a.queued = 0 /\ LastPack(a).type = "stream"
  BY <1>3, <1>5, <1>6, <1>7, NewStream
<1> HIDE DEF a
<1>9. ASSUME Unharmed' PROVE Unharmed /\ f = "none" /\ g = "none" /\ f \notin PackFaults("stream")
  <2>1. Unharmed /\ (f = "none" \/ f \in Harmless)
    BY <1>2, <1>9, UnharmedCall
  <2>2. f = "none"
    BY <2>1 DEF AddDms, Harmless, PackFaults, StreamFaults, Torn
  <2>3. QED
    BY <2>1, <2>2, HarmlessPacks
<1>10. History'
  <2>1. faults' # <<>> => faults'[1].frames <= Len(mxf'.essence)
    <3>1. Len(mxf'.essence) >= Len(mxf.essence)
      BY <1>1, <1>3, <1>6, <1>8, FileTypes
    <3>2. QED
      BY <1>2, <1>3, <3>1, FaultsFrames DEF Core
  <2>2. QED
    BY <1>1, <1>6, <1>8, <2>1 DEF History, Writing, Core
<1>11. Intact' => Ordered(mxf')
  BY <1>1, <1>3, <1>6, <1>8, <1>9 DEF Intact
<1>12. Sids(mxf)'
  BY <1>1, <1>4, <1>5, <1>8 DEF Sids, SidsBelow
<1>13. ASSUME Unharmed' PROVE Listed(mxf') /\ mxf'.queued = 0 /\ LastPack(mxf').type = "stream"
  BY <1>1, <1>6, <1>8, <1>9, <1>13 DEF Core, Steady
<1>14. ASSUME Clean' PROVE Room(mxf')
  <2>1. Unharmed' /\ Clean
    BY <1>2, <1>14, CleanCall DEF Clean, Unharmed
  <2>2. Ordered(mxf)
    BY <1>3, <1>9, <2>1 DEF Intact
  <2>3. QED
    BY <1>1, <1>6, <1>8, <1>9, <2>1, <2>2 DEF Core, Roomy
<1>15. QED
  BY <1>1, <1>8, <1>10, <1>11, <1>12, <1>13, <1>14, CoreFrom

LEMMA WriteAncillaryResourceCore ==
  ASSUME TypeInv, TypeInv', Core, NEW f \in Faults, WriteAncillaryResource(f)
  PROVE  Core'
<1> DEFINE sid == EssenceStreamID
           a   == PutStream(mxf, sid, f)
<1>1. /\ Writing /\ Writing' /\ kind' = kind /\ streams' = streams + 1
      /\ mxf' = a /\ kind.ancillary
  BY DEF WriteAncillaryResource, Writing
<1>2. PICK r : Call("WriteResource", f, r)
  BY DEF WriteAncillaryResource
<1>3. /\ mxf \in MxfType /\ mxf' \in MxfType /\ framesWritten \in Nat /\ streams \in Nat
      /\ kind \in AllKinds
      /\ Shape(mxf) /\ Sids(mxf) /\ (Intact => Ordered(mxf))
  BY <1>1, BoundAssumption, LayoutIs DEF TypeInv, TypeOK, Core
<1>4. ~kind.dms /\ ~kind.master
  BY <1>1, <1>3, KindIs
<1>5. sid \in Nat /\ sid > 1 /\ SidsBelow(mxf, sid) /\ EssenceStreamID' = sid + 1
  BY <1>1, <1>3 DEF Sids, EssenceStreamID, FirstEssenceStreamID
<1> HIDE DEF sid
<1>6. sid + 1 \in Nat /\ sid < sid + 1
  BY <1>5
<1>7. /\ Shape(a) /\ a.disk = mxf.disk /\ a.essence = mxf.essence
      /\ Ordered(mxf) /\ (PackLost > 0 \/ f \notin PackFaults("stream")) => Ordered(a)
      /\ SidsBelow(a, sid + 1)
      /\ f \notin PackFaults("stream") => (Listed(mxf) => Listed(a))
      /\ f = "none" => /\ Room(mxf) /\ Ordered(mxf) => Room(a)
                       /\ a.queued = 0 /\ LastPack(a).type = "stream"
  BY <1>3, <1>5, <1>6, NewStream
<1> HIDE DEF a
<1>8. ASSUME Unharmed' PROVE Unharmed /\ f = "none" /\ f \notin PackFaults("stream")
  <2>1. Unharmed /\ (f = "none" \/ f \in Harmless)
    BY <1>2, <1>8, UnharmedCall
  <2>2. f = "none"
    BY <2>1 DEF WriteAncillaryResource, Harmless, PackFaults, StreamFaults, Torn
  <2>3. QED
    BY <2>1, <2>2, HarmlessPacks
<1>9. History'
  <2>1. faults' # <<>> => faults'[1].frames <= Len(mxf'.essence)
    <3>1. Len(mxf'.essence) >= Len(mxf.essence)
      BY <1>1, <1>3, <1>7, FileTypes
    <3>2. QED
      BY <1>2, <1>3, <3>1, FaultsFrames DEF Core
  <2>2. QED
    BY <1>1, <1>7, <2>1 DEF History, Writing, Core
<1>10. Intact' => Ordered(mxf')
  BY <1>1, <1>3, <1>7, <1>8 DEF Intact
<1>11. Sids(mxf)'
  BY <1>1, <1>4, <1>5, <1>7 DEF Sids, SidsBelow
<1>12. ASSUME Unharmed' PROVE Listed(mxf') /\ mxf'.queued = 0 /\ LastPack(mxf').type = "stream"
  BY <1>1, <1>7, <1>8, <1>12 DEF Core, Steady
<1>13. ASSUME Clean' PROVE Room(mxf')
  <2>1. Unharmed' /\ Clean
    BY <1>2, <1>13, CleanCall DEF Clean, Unharmed
  <2>2. Ordered(mxf)
    BY <1>3, <1>8, <2>1 DEF Intact
  <2>3. QED
    BY <1>1, <1>7, <1>8, <2>1, <2>2 DEF Core, Roomy
<1>14. QED
  BY <1>1, <1>7, <1>9, <1>10, <1>11, <1>12, <1>13, CoreFrom

-----------------------------------------------------------------------------
(* What Finalize leaves behind *)

Alike(p, q) ==
  q.at = p.at /\ q.type = p.type /\ q.sid = p.sid /\ q.offset = p.offset /\ q.segs = p.segs
    /\ q.hmac = p.hmac

\* Pack q of the finalized file is pack p with the links of the only entry that is
\* linked to it, if there is one
Relinks(m, reached, here, p, q) ==
  LET entries == {i \in reached : Linked(m, i) /\ m.rip[i].at = p.at}
  IN  /\ Alike(p, q)
      /\ entries = {} => q = p
      /\ \A i : entries = {i} => q.footer = here /\ q.prev = PreviousOf(m, i)

Relinked(m, a, reached, here) ==
  /\ \A q \in a.parts : \E p \in m.parts : Relinks(m, reached, here, p, q)
  /\ \A p \in m.parts : \E q \in a.parts : Relinks(m, reached, here, p, q)

LEMMA RelinkDoes ==
  ASSUME NEW m \in MxfType, NEW reached \in SUBSET (DOMAIN m.rip), NEW here \in Nat
  PROVE  LET a == Relink(m, reached, here)
         IN  /\ a \in MxfType /\ a.rip = m.rip /\ a.disk = m.disk /\ a.essence = m.essence
             /\ a.duration = m.duration
             /\ Relinked(m, a, reached, here)
<1> DEFINE Entries(p) == {i \in reached : Linked(m, i) /\ m.rip[i].at = p.at}
           New(p) ==
             LET latest == {i \in Entries(p) : \A j \in Entries(p) : j <= i}
             IN  IF latest = {} THEN p
                 ELSE [p EXCEPT !.footer = here,
                                !.prev = PreviousOf(m, CHOOSE i \in latest : TRUE)]
           parts == {New(p) : p \in m.parts}
           a == Relink(m, reached, here)
<1>1. a = [m EXCEPT !.parts = parts]
  BY DEF Relink
<1>2. ASSUME NEW p \in m.parts PROVE Relinks(m, reached, here, p, New(p))
  <2> DEFINE entries == Entries(p)
             latest  == {i \in entries : \A j \in entries : j <= i}
             i0      == CHOOSE i \in latest : TRUE
             prev    == PreviousOf(m, i0)
             q       == [p EXCEPT !.footer = here, !.prev = prev]
  <2>1. New(p) = IF latest = {} THEN p ELSE q
    OBVIOUS
  <2>2. p \in Pack
    BY FileTypes
  <2>3. entries \in SUBSET Nat
    BY FileTypes
  <2> HIDE DEF entries, prev, New
  <2>4. Alike(p, p) /\ Alike(p, q) /\ q.footer = here /\ q.prev = prev
    BY <2>2 DEF Alike, Pack
  <2> HIDE DEF q
  <2>5. Alike(p, New(p))
    BY <2>1, <2>4
  <2>6. ASSUME entries = {} PROVE New(p) = p
    BY <2>1, <2>6
  <2>7. ASSUME NEW i, entries = {i} PROVE New(p).footer = here /\ New(p).prev = PreviousOf(m, i)
    <3>1. i \in Nat
      BY <2>3, <2>7
    <3>2. latest = {i}
      BY <2>7, <3>1
    <3>3. i0 = i
      BY <3>2
    <3>4. New(p) = q
      BY <2>1, <3>2
    <3> HIDE DEF i0, latest
    <3>5. prev = PreviousOf(m, i)
      BY <3>3 DEF prev
    <3>6. QED
      BY <2>4, <3>4, <3>5
  <2>8. QED
    BY <2>5, <2>6, <2>7 DEF Relinks, entries
<1>3. a \in MxfType
  BY RelinkType
<1> HIDE DEF New
<1>4. \A q \in parts : \E p \in m.parts : q = New(p)
  OBVIOUS
<1>5. \A p \in m.parts : New(p) \in parts
  OBVIOUS
<1> HIDE DEF parts, a
<1>6. /\ a.parts = parts /\ a.rip = m.rip /\ a.disk = m.disk /\ a.essence = m.essence
      /\ a.duration = m.duration
  BY <1>1 DEF MxfType
<1>7. Relinked(m, a, reached, here)
  BY <1>2, <1>4, <1>5, <1>6 DEF Relinked
<1>8. QED
  BY <1>3, <1>6, <1>7 DEF a

Flushed == FlushIndexPartition(mxf, "none")
FinalBody(text) == IF kind.master /\ text THEN PutStream(Flushed, 2, "none") ELSE Flushed

\* The file before the footer, and with it, and as it is relinked at the end
LEMMA FooterDoes ==
  ASSUME NEW m \in MxfType, m.rip # <<>>, NEW n, framesWritten \in Nat
  PROVE  LET a == Footer(m, "none", n).file
         IN  \E listed \in MxfType, footer \in Pack :
               /\ Lists(m, listed, footer) /\ listed.segs = m.segs
               /\ footer.sid = 0 /\ footer.type = "footer" /\ footer.footer = m.pos
               /\ footer.prev = m.rip[Len(m.rip)].at
               /\ a \in MxfType /\ a.rip = listed.rip /\ a.disk = listed.rip
               /\ a.essence = m.essence /\ a.duration = framesWritten
               /\ Relinked(listed, a, Reached(listed), m.pos)
               /\ Footer(m, "none", n).ok => Listed(listed)
               /\ Listed(listed) => Footer(m, "none", n).ok
<1> DEFINE here    == m.pos
           prev    == m.rip[Len(m.rip)].at
           new     == NewPack(here, "footer", 0)
           footer  == [new EXCEPT !.prev = prev, !.footer = here]
           listed  == PutPack(PushRip(m, 0, here), footer, PackFault("none", "footer"))
           disk    == listed.rip
           onDisk  == [listed EXCEPT !.disk = disk]
           rewrote == [onDisk EXCEPT !.duration = framesWritten]
           reached == Reached(rewrote)
           all     == reached = DOMAIN rewrote.rip
           parts   == rewrote.parts \ {}
           base    == [rewrote EXCEPT !.parts = parts]
           a       == Relink(base, reached, here)
<1>1. Footer(m, "none", n) = [file |-> a, ok |-> all]
  BY DEF Footer
<1>2. here \in Nat /\ prev \in Nat
  <2>1. m.rip \in Seq(Pair)
    BY DEF MxfType
  <2>2. Len(m.rip) \in DOMAIN m.rip
    BY <2>1
  <2>3. QED
    BY <2>2, FileTypes
<1>3. /\ footer \in Pack /\ footer.at = m.pos /\ footer.sid = 0 /\ footer.type = "footer"
      /\ footer.prev = prev /\ footer.footer = here
  <2>1. new \in Pack
    BY <1>2, NewPackType
  <2>2. new.at = m.pos /\ new.sid = 0 /\ new.type = "footer"
    BY DEF NewPack
  <2> HIDE DEF new, prev, here
  <2>3. QED
    BY <1>2, <2>1, <2>2 DEF Pack
<1> HIDE DEF footer, new
<1>4. PackFault("none", "footer") = "none"
  BY DEF PackFault, Torn
<1>5. listed = PutPack(PushRip(m, footer.sid, m.pos), footer, "none")
  BY <1>3, <1>4
<1> HIDE DEF listed
<1>6. listed \in MxfType /\ Lists(m, listed, footer) /\ listed.segs = m.segs
  BY <1>3, <1>5, PushThenPut
<1> HIDE DEF prev, here
<1>7. listed.rip \in Seq(Pair)
  BY <1>6 DEF MxfType
<1> HIDE DEF disk
<1>8. /\ onDisk \in MxfType /\ onDisk.rip = listed.rip /\ onDisk.disk = disk
      /\ onDisk.essence = listed.essence /\ onDisk.parts = listed.parts
  BY <1>6, <1>7 DEF MxfType, disk
<1> HIDE DEF onDisk
<1>9. /\ rewrote \in MxfType /\ rewrote.rip = listed.rip /\ rewrote.disk = disk
      /\ rewrote.essence = listed.essence /\ rewrote.parts = listed.parts
      /\ rewrote.duration = framesWritten
  BY <1>8 DEF MxfType
<1> HIDE DEF rewrote
<1>10. parts = rewrote.parts
  OBVIOUS
<1> HIDE DEF parts
<1>11. /\ base \in MxfType /\ base.rip = listed.rip /\ base.disk = disk
       /\ base.essence = listed.essence /\ base.parts = listed.parts
       /\ base.duration = framesWritten
  BY <1>9, <1>10 DEF MxfType
<1> HIDE DEF base
<1>12. \A i : Resolves(rewrote, rewrote.rip[i].at) <=> Resolves(listed, listed.rip[i].at)
  BY <1>9 DEF Resolves
<1>13. reached = Reached(listed) /\ reached \subseteq DOMAIN listed.rip
  BY <1>9 DEF Reached, Resolves
<1>14. all <=> Listed(listed)
  <2>1. DOMAIN listed.rip = 1 .. Len(listed.rip) /\ Len(listed.rip) \in Nat
    BY <1>6, FileTypes
  <2>2. ASSUME Listed(listed) PROVE Reached(listed) = DOMAIN listed.rip
    BY <2>1, <2>2 DEF Reached, Listed
  <2>3. ASSUME Reached(listed) = DOMAIN listed.rip PROVE Listed(listed)
    <3>1. ASSUME NEW i \in DOMAIN listed.rip PROVE Resolves(listed, listed.rip[i].at)
      <4>1. i \in Reached(listed) /\ i \in 1 .. i
        BY <2>1, <2>3
      <4>2. QED
        BY <4>1 DEF Reached
    <3>2. QED
      BY <3>1 DEF Listed
  <2> HIDE DEF reached
  <2>4. QED
    BY <1>9, <1>13, <2>2, <2>3
<1> HIDE DEF all, reached
<1>15. /\ a \in MxfType /\ a.rip = base.rip /\ a.disk = base.disk /\ a.essence = base.essence
       /\ a.duration = base.duration /\ Relinked(base, a, reached, here)
  BY <1>2, <1>11, <1>13, RelinkDoes
<1> HIDE DEF a
<1>16. Relinked(listed, a, Reached(listed), here)
  <2>1. \A i : Linked(base, i) <=> Linked(listed, i)
    BY <1>11 DEF Linked, Resolves, PackAt
  <2>2. \A i : PreviousOf(base, i) = PreviousOf(listed, i)
    BY <1>11, <2>1 DEF PreviousOf
  <2>3. \A p, q : Relinks(base, reached, here, p, q) <=> Relinks(listed, Reached(listed), here, p, q)
    BY <1>11, <1>13, <2>1, <2>2 DEF Relinks
  <2>4. QED
    BY <1>11, <1>15, <2>3 DEF Relinked
<1>17. listed.essence = m.essence
  BY <1>6 DEF Lists
<1>18. QED
  BY <1>1, <1>3, <1>6, <1>11, <1>14, <1>15, <1>16, <1>17 DEF here, prev, disk

LEMMA FlushKeeps ==
  ASSUME NEW m \in MxfType, NEW f
  PROVE  FlushIndexPartition(m, f).essence = m.essence
<1>1. CASE ~HasEntries(m)
  BY <1>1 DEF FlushIndexPartition
<1>2. CASE HasEntries(m)
  BY <1>2, FlushDoes DEF Lists, Loses
<1>3. QED
  BY <1>1, <1>2

LEMMA FinalizeKeeps ==
  ASSUME TypeInv, NEW f \in Faults, NEW text \in BOOLEAN, NEW n \in Nat, Finalize(f, text, n)
  PROVE  mxf'.essence = mxf.essence
<1> DEFINE flushed == FlushIndexPartition(mxf, PackFault(f, "index"))
           body    == IF kind.master /\ text THEN PutStream(flushed, 2, f) ELSE flushed
           skipped == PushRip(body, 0, body.pos)
<1>1. mxf \in MxfType /\ mxf.rip # <<>> /\ framesWritten \in Nat
  BY DEF TypeInv, TypeOK, HasRip, Finalize
<1>2. flushed \in MxfType /\ flushed.rip # <<>> /\ flushed.essence = mxf.essence
  BY <1>1, FlushType, FlushKeeps
<1>3. body \in MxfType /\ body.rip # <<>> /\ body.essence = mxf.essence
  <2> HIDE DEF flushed
  <2>1. PutStream(flushed, 2, f) \in MxfType /\ PutStream(flushed, 2, f).rip # <<>>
    BY <1>1, <1>2, PutStreamType
  <2>2. PutStream(flushed, 2, f).essence = flushed.essence
    BY <1>1, <1>2, PutStreamDoes DEF Lists, Loses
  <2>3. QED
    BY <1>2, <2>1, <2>2
<1>4. n \in 1 .. Len(body.rip)
  BY DEF Finalize
<1>5. mxf' = skipped \/ mxf' = Footer(body, f, n).file
  BY DEF Finalize
<1> HIDE DEF body
<1>6. skipped.essence = body.essence
  BY <1>3, FileTypes, PushRipAppends
<1>7. Footer(body, f, n).file.essence = body.essence
  BY <1>1, <1>3, <1>4, FooterType
<1>8. QED
  BY <1>3, <1>5, <1>6, <1>7

\* What precedes the footer keeps the layout
LEMMA BodyShape ==
  ASSUME TypeInv, Core, Writing, NEW text \in BOOLEAN
  PROVE  LET b == FinalBody(text)
         IN  /\ b \in MxfType /\ Shape(b) /\ b.essence = mxf.essence
             /\ Intact => Ordered(b)
             /\ Clean => Room(b)
<1> DEFINE s == PutStream(Flushed, 2, "none")
<1>1. mxf \in MxfType /\ framesWritten \in Nat /\ Shape(mxf) /\ Sids(mxf) /\ (Intact => Ordered(mxf))
  BY LayoutIs DEF TypeInv, TypeOK, Core
<1>2. /\ Flushed \in MxfType /\ Shape(Flushed) /\ Flushed.essence = mxf.essence
      /\ Ordered(mxf) => Ordered(Flushed)
      /\ \A top \in Nat : top > 1 /\ SidsBelow(mxf, top) => SidsBelow(Flushed, top)
      /\ Room(mxf) /\ Ordered(mxf) => Room(Flushed)
  BY <1>1, FlushShape DEF Flushed
<1>3. Clean => Intact /\ Room(mxf)
  BY CleanUnharmed DEF Intact, Core, Roomy
<1>4. ASSUME kind.master
      PROVE  /\ s \in MxfType /\ Shape(s) /\ s.essence = mxf.essence
             /\ Intact => Ordered(s)
             /\ Clean => Room(s)
  <2>1. SidsBelow(Flushed, 2)
    BY <1>1, <1>2, <1>4 DEF Sids
  <2>2. "none" \notin PackFaults("stream")
    BY DEF PackFaults, Torn
  <2>3. /\ s \in MxfType /\ Shape(s) /\ s.essence = Flushed.essence
        /\ Ordered(Flushed) => Ordered(s)
        /\ Room(Flushed) /\ Ordered(Flushed) => Room(s)
    BY <1>1, <1>2, <2>1, <2>2, NewStream
  <2>4. QED
    BY <1>1, <1>2, <1>3, <2>3
<1>5. QED
  BY <1>1, <1>2, <1>3, <1>4 DEF FinalBody

\* m is the file that Finalize closes, before it is relinked
Closes(m, text, footer) ==
  LET b == FinalBody(text)
  IN  /\ b \in MxfType /\ Shape(b) /\ b.essence = mxf.essence
      /\ m \in MxfType /\ footer \in Pack /\ Lists(b, m, footer) /\ m.segs = b.segs
      /\ footer.sid = 0 /\ footer.type = "footer" /\ footer.footer = footer.at
      /\ footer.prev = b.rip[Len(b.rip)].at
      /\ Known(m) /\ Begun(m) /\ Distinct(m)
      /\ (Intact => Ordered(b) /\ Ordered(m)) /\ (Clean => Room(m))
      /\ mxf' \in MxfType /\ mxf'.rip = m.rip /\ mxf'.disk = m.rip
      /\ mxf'.essence = mxf.essence /\ mxf'.duration = framesWritten
      /\ framesWritten' = framesWritten
      /\ Relinked(m, mxf', Reached(m), footer.at)
      /\ last'.op = "Finalize" /\ last'.fault = "none"
      /\ last'.result = "OK" <=> Listed(m)

LEMMA Closing ==
  ASSUME TypeInv, Core, NEW text \in BOOLEAN, NEW n, Finalize("none", text, n)
  PROVE  \E m, footer : Closes(m, text, footer)
<1> DEFINE b == FinalBody(text)
           r == IF Footer(b, "none", n).ok THEN "OK" ELSE "FAIL"
<1>1. Writing /\ framesWritten \in Nat
  BY DEF Finalize, Writing, TypeInv, TypeOK
<1>2. PackFault("none", "index") = "none"
  BY DEF PackFault, Torn
<1>3. b = IF kind.master /\ text
          THEN PutStream(FlushIndexPartition(mxf, PackFault("none", "index")), 2, "none")
          ELSE FlushIndexPartition(mxf, PackFault("none", "index"))
  BY <1>2 DEF FinalBody, Flushed
<1>4. /\ mxf' = Footer(b, "none", n).file
      /\ framesWritten' = framesWritten
      /\ Call("Finalize", "none", IF Footer(b, "none", n).ok THEN "OK" ELSE "FAIL")
  <2> HIDE DEF b
  <2>1. QED
    BY <1>3 DEF Finalize
<1>5. b \in MxfType /\ Shape(b) /\ b.essence = mxf.essence /\ (Intact => Ordered(b))
        /\ (Clean => Room(b))
  BY <1>1, BodyShape
<1> HIDE DEF b
<1>6. b.rip # <<>> /\ Begun(b) /\ Known(b) /\ Growing(b) /\ Distinct(b) /\ b.pos > 0
  BY <1>5 DEF Shape, Begun
<1>7. PICK m \in MxfType, footer \in Pack :
        /\ Lists(b, m, footer) /\ m.segs = b.segs
        /\ footer.sid = 0 /\ footer.type = "footer" /\ footer.footer = b.pos
        /\ footer.prev = b.rip[Len(b.rip)].at
        /\ mxf' \in MxfType /\ mxf'.rip = m.rip /\ mxf'.disk = m.rip
        /\ mxf'.essence = b.essence /\ mxf'.duration = framesWritten
        /\ Relinked(m, mxf', Reached(m), b.pos)
        /\ Footer(b, "none", n).ok => Listed(m)
        /\ Listed(m) => Footer(b, "none", n).ok
  BY <1>1, <1>4, <1>5, <1>6, FooterDoes
<1>8. footer.at = b.pos /\ Kinded(footer)
  <2>1. footer.at = b.pos /\ b.pos \in Nat
    BY <1>5, <1>7, FileTypes DEF Lists
  <2>2. QED
    BY <1>6, <1>7, <2>1 DEF Kinded
<1>9. Appends(b, m, 0) /\ m.pos > b.pos
  <2>1. /\ m.pos \in Nat /\ b.pos \in Nat /\ PackLen \in Nat \ {0}
        /\ m.pos >= b.pos + PackLen
    BY <1>5, <1>7, FileTypes, LengthAssumption DEF Lists
  <2>2. m.pos > b.pos
    BY <2>1
  <2>3. QED
    BY <1>7, <2>2 DEF Lists
<1>10. Known(m) /\ Begun(m) /\ Distinct(m) /\ (Intact => Ordered(m))
  <2>1. Known(m)
    BY <1>5, <1>6, <1>7, <1>8, ListsLayout
  <2>2. m.pos >= b.pos
    BY <1>5, <1>7, <1>9, FileTypes
  <2>3. QED
    BY <1>5, <1>6, <1>7, <1>9, <2>1, <2>2, AppendsLayout
<1>11. Clean => Room(m)
  <2>1. Clean => Intact
    BY CleanUnharmed DEF Intact
  <2>2. QED
    BY <1>5, <1>6, <1>7, <1>8, <2>1, ListsLayout
<1>12. /\ last'.op = "Finalize" /\ last'.fault = "none"
       /\ last'.result = "OK" <=> Footer(b, "none", n).ok
  BY <1>4 DEF Call
<1>13. Closes(m, text, footer)
  BY <1>4, <1>5, <1>7, <1>8, <1>10, <1>11, <1>12 DEF Closes, b
<1>14. QED
  BY <1>13

-----------------------------------------------------------------------------
(* The invariant through every step *)

LEMMA EndCore ==
  ASSUME TypeInv, TypeInv', Core, ~Writing', state' # "BEGIN",
         NEW op, NEW f \in Faults \cup {"assert"}, NEW r, Call(op, f, r),
         mxf'.essence = mxf.essence
  PROVE  Core'
<1>1. mxf' \in MxfType /\ Len(mxf'.essence) >= Len(mxf.essence)
  BY FileTypes DEF TypeInv, TypeOK
<1>2. History'
  BY <1>1, FaultsFrames DEF History, Core
<1>3. QED
  BY <1>2, CoreFrom

LEMMA SameCore ==
  ASSUME Core, UNCHANGED <<kind, state, mxf, streamOffset, streams, faults>>
  PROVE  Core'
  BY DEF Core, History, Layout, Steady, Roomy, Writing, Unharmed, Clean, Intact, EssenceStreamID,
         Begun, Known, Growing, Distinct, Ordered, Room, SidsBelow, Listed, Resolves, LastPack,
         PackAt, Positioned

LEMMA NextCore == TypeInv /\ TypeInv' /\ Core /\ [Next]_vars => Core'
<1> SUFFICES ASSUME TypeInv, TypeInv', Core, [Next]_vars PROVE Core'
  OBVIOUS
<1>1. CASE \E f \in Faults : Open(f)
  BY <1>1, OpenCore
<1>2. CASE \E len \in FrameLens, f \in Faults : \E lost \in 0 .. len : WriteFrame(len, f, lost)
  BY <1>2, WriteFrameCore
<1>3. CASE WriteEmptyFrame
  <2>1. UNCHANGED <<kind, state, mxf, streamOffset, streams, faults>>
    BY <1>3, NoneIsFault, FaultsCalled DEF WriteEmptyFrame
  <2>2. QED
    BY <2>1, SameCore
<1>4. CASE \E len \in FrameLens : WriteFrameAfterFinal(len)
  <2>1. PICK len \in FrameLens : WriteFrameAfterFinal(len)
    BY <1>4
  <2>2. mxf'.essence = mxf.essence
    BY <2>1 DEF WriteFrameAfterFinal, TypeInv, TypeOK, MxfType
  <2>3. Call("WriteFrame", "none", "FAIL") /\ state' = "FINAL"
    BY <2>1 DEF WriteFrameAfterFinal
  <2>4. QED
    BY <2>2, <2>3, NoneIsFault, EndCore DEF Writing
<1>5. CASE \E f \in Faults : AssertIndexEntries(f)
  <2>1. PICK f \in Faults : AssertIndexEntries(f)
    BY <1>5
  <2>2. Call("WriteFrame", f, "ABORT") /\ state' = "ABORTED" /\ mxf'.essence = mxf.essence
    BY <2>1 DEF AssertIndexEntries
  <2>3. QED
    BY <2>2, EndCore DEF Writing
<1>6. CASE \E f \in Faults : AddDms(f)
  BY <1>6, AddDmsCore
<1>7. CASE AddDmsAfterFinal
  <2>1. PICK r : Call("AddDms", "none", r) /\ state' = IF r = "ABORT" THEN "ABORTED" ELSE state
    BY <1>7 DEF AddDmsAfterFinal
  <2>2. mxf'.essence = mxf.essence /\ state = "FINAL"
    BY <1>7 DEF AddDmsAfterFinal, PushRip, TypeInv, TypeOK, MxfType
  <2>3. QED
    BY <2>1, <2>2, NoneIsFault, EndCore DEF Writing
<1>8. CASE \E f \in Faults, text \in BOOLEAN : \E n \in 1 .. Len(mxf.rip) + 2 : Finalize(f, text, n)
  <2>1. PICK f \in Faults, text \in BOOLEAN, n \in 1 .. Len(mxf.rip) + 2 : Finalize(f, text, n)
    BY <1>8
  <2>2. mxf'.essence = mxf.essence
    BY <2>1, FinalizeKeeps
  <2>3. PICK r : Call("Finalize", f, r)
    BY <2>1 DEF Finalize
  <2>4. state' = "FINAL"
    BY <2>1 DEF Finalize
  <2>5. QED
    BY <2>2, <2>3, <2>4, EndCore DEF Writing
<1>9. CASE AbortedWrite
  <2>1. Call("Any", "assert", "ABORT") /\ state' = "ABORTED" /\ mxf'.essence = mxf.essence
    BY <1>9 DEF AbortedWrite
  <2>2. QED
    BY <2>1, EndCore DEF Writing
<1>10. CASE RefusedCall
  <2>1. UNCHANGED <<kind, state, mxf, streamOffset, streams, faults>>
    BY <1>10, NoneIsFault, FaultsCalled DEF RefusedCall
  <2>2. QED
    BY <2>1, SameCore
<1>11. CASE \E f \in Faults : WriteAncillaryResource(f)
  BY <1>11, WriteAncillaryResourceCore
<1>12. CASE UNCHANGED vars
  BY <1>12, SameCore DEF vars
<1>13. QED
  BY <1>1, <1>2, <1>3, <1>4, <1>5, <1>6, <1>7, <1>8, <1>9, <1>10, <1>11, <1>12 DEF Next

LEMMA InitCore == Init => Core
<1> SUFFICES ASSUME Init PROVE Core
  OBVIOUS
<1>1. mxf = Empty /\ streamOffset = 0 /\ faults = <<>> /\ ~Writing
  BY DEF Init, Writing
<1>2. QED
  BY <1>1 DEF Core, History, Layout, Steady, Roomy

\* Only Finalize finalizes, and without a fault it closes the file as Closes says
LEMMA FinalStep ==
  ASSUME TypeInv, Core, [Next]_vars, Finalized', last'.fault = "none" \/ Clean'
  PROVE  \/ UNCHANGED vars
         \/ /\ Clean' => Clean
            /\ faults' = faults /\ kind' = kind /\ state = "RUNNING"
            /\ \E text \in BOOLEAN : \E m, footer : Closes(m, text, footer) /\ Listed(m)
<1>1. last'.op = "Finalize" /\ last'.result = "OK"
  BY DEF Finalized
<1>2. CASE UNCHANGED vars
  BY <1>2
<1>3. CASE \E f \in Faults, text \in BOOLEAN : \E n \in 1 .. Len(mxf.rip) + 2 : Finalize(f, text, n)
  <2>1. PICK f \in Faults, text \in BOOLEAN, n \in 1 .. Len(mxf.rip) + 2 : Finalize(f, text, n)
    BY <1>3
  <2>2. PICK r : Call("Finalize", f, r)
    BY <2>1 DEF Finalize
  <2>3. f = "none"
    <3>1. CASE last'.fault = "none"
      BY <2>2, <3>1 DEF Call
    <3>2. CASE Clean'
      BY <2>2, <3>2, FaultsCalled DEF Clean
    <3>3. QED
      BY <3>1, <3>2
  <2>4. PICK m, footer : Closes(m, text, footer)
    BY <2>1, <2>3, Closing
  <2>5. Listed(m)
    BY <1>1, <2>4 DEF Closes
  <2>6. faults' = faults /\ kind' = kind /\ state = "RUNNING"
    BY <2>1, <2>2, <2>3, FaultsCalled DEF Finalize
  <2>7. QED
    BY <2>4, <2>5, <2>6 DEF Clean
<1>4. CASE Next /\ ~ \E f \in Faults, text \in BOOLEAN :
                       \E n \in 1 .. Len(mxf.rip) + 2 : Finalize(f, text, n)
  <2>1. last'.op # "Finalize" \/ last'.result # "OK"
    <3> DEFINE Other == last'.op # "Finalize" \/ last'.result # "OK"
    <3>1. \A op, f, r : Call(op, f, r) => last'.op = op /\ last'.result = r
      BY DEF Call
    <3>2. (\E f \in Faults : Open(f)) => Other
      BY <3>1 DEF Open
    <3>3. (\E len \in FrameLens, f \in Faults : \E lost \in 0 .. len : WriteFrame(len, f, lost)) => Other
      BY <3>1 DEF WriteFrame
    <3>4. (WriteEmptyFrame) => Other
      BY <3>1 DEF WriteEmptyFrame
    <3>5. (\E len \in FrameLens : WriteFrameAfterFinal(len)) => Other
      BY <3>1 DEF WriteFrameAfterFinal
    <3>6. (\E f \in Faults : AssertIndexEntries(f)) => Other
      BY <3>1 DEF AssertIndexEntries
    <3>7. (\E f \in Faults : AddDms(f)) => Other
      BY <3>1 DEF AddDms
    <3>8. (AddDmsAfterFinal) => Other
      BY <3>1 DEF AddDmsAfterFinal
    <3>9. (\E f \in Faults : WriteAncillaryResource(f)) => Other
      BY <3>1 DEF WriteAncillaryResource
    <3>10. (AbortedWrite) => Other
      BY <3>1 DEF AbortedWrite
    <3>11. (RefusedCall) => Other
      BY <3>1 DEF RefusedCall
    <3> HIDE DEF Other
    <3>12. Other
      BY <1>4, <3>2, <3>3, <3>4, <3>5, <3>6, <3>7, <3>8, <3>9, <3>10, <3>11 DEF Next
    <3>13. QED
      BY <3>12 DEF Other
  <2>2. QED
    BY <1>1, <2>1
<1>5. QED
  BY <1>2, <1>3, <1>4

\* A reader opens the file that Finalize has closed
LEMMA ClosedResolves ==
  ASSUME NEW m, NEW text, NEW footer, Closes(m, text, footer), Listed(m)
  PROVE  Reader!Openable(mxf')
<1>1. /\ mxf'.disk = m.rip /\ m \in MxfType /\ Begun(m)
      /\ \A p \in m.parts : \E q \in mxf'.parts : Alike(p, q)
  BY DEF Closes, Relinked, Relinks
<1>2. \A i \in DOMAIN m.rip : \E q \in mxf'.parts : q.at = m.rip[i].at
  BY <1>1 DEF Listed, Resolves, Alike
<1>3. 1 \in DOMAIN m.rip /\ 2 \in DOMAIN m.rip /\ m.rip[1].at = 0 /\ m.rip[2].sid = 1
  BY <1>1, FileTypes DEF Begun
<1>4. QED
  BY <1>1, <1>2, <1>3 DEF Reader!Openable, Reader!Resolves, Reader!HasBody

\* Whatever went wrong before, a Finalize that meets no fault and reports success
\* leaves a file whose every partition a reader finds, and whose duration is the
\* writer's frame count.
THEOREM FinalizedResolvesHolds == Spec => []FinalizedResolves
<1> DEFINE Inv == TypeInv /\ Core /\ FinalizedResolves
<1>1. Init => Inv
  BY InitType, InitCore DEF Init, FinalizedResolves, Finalized
<1>2. Inv /\ [Next]_vars => Inv'
  <2> SUFFICES ASSUME TypeInv, Core, FinalizedResolves, [Next]_vars
               PROVE  TypeInv' /\ Core' /\ FinalizedResolves'
    OBVIOUS
  <2>1. TypeInv' /\ Core'
    BY NextType, NextCore
  <2>2. SUFFICES ASSUME Finalized', last'.fault = "none"
                 PROVE  (Reader!Openable(mxf) /\ mxf.duration = framesWritten)'
    BY <2>1 DEF FinalizedResolves
  <2>3. CASE UNCHANGED vars
    BY <2>2, <2>3 DEF vars, FinalizedResolves, Finalized, Reader!Openable, Reader!Resolves,
                      Reader!HasBody
  <2>4. CASE \E text \in BOOLEAN : \E m, footer : Closes(m, text, footer) /\ Listed(m)
    <3>1. PICK text, m, footer : Closes(m, text, footer) /\ Listed(m)
      BY <2>4
    <3>2. Reader!Openable(mxf')
      BY <3>1, ClosedResolves
    <3>3. mxf'.duration = framesWritten'
      BY <3>1 DEF Closes
    <3>4. QED
      BY <3>2, <3>3 DEF Reader!Openable, Reader!Resolves, Reader!HasBody
  <2>5. QED
    BY <2>2, <2>3, <2>4, FinalStep
<1>3. QED
  BY <1>1, <1>2, PTL DEF Spec

\* The packs of the file that Finalize closes, by their entries in the RIP
LEMMA ClosedEntries ==
  ASSUME NEW m \in MxfType, Known(m), Ordered(m), Listed(m)
  PROVE  /\ \A i \in DOMAIN m.rip :
              \E p \in m.parts : /\ p.at = m.rip[i].at /\ p.sid = m.rip[i].sid
                                 /\ PackAt(m, m.rip[i].at) = p
         /\ \A i, j \in DOMAIN m.rip : m.rip[i].at = m.rip[j].at => i = j
<1>1. DOMAIN m.rip = 1 .. Len(m.rip) /\ Len(m.rip) \in Nat
        /\ \A i \in DOMAIN m.rip : m.rip[i].at \in Nat
  BY FileTypes
<1>2. ASSUME NEW i \in DOMAIN m.rip, NEW j \in DOMAIN m.rip, m.rip[i].at = m.rip[j].at PROVE i = j
  <2>1. CASE i < j
    BY <1>1, <1>2, <2>1 DEF Ordered
  <2>2. CASE j < i
    BY <1>1, <1>2, <2>2 DEF Ordered
  <2>3. QED
    BY <1>1, <2>1, <2>2
<1>3. ASSUME NEW i \in DOMAIN m.rip
      PROVE  \E p \in m.parts : /\ p.at = m.rip[i].at /\ p.sid = m.rip[i].sid
                                /\ PackAt(m, m.rip[i].at) = p
  <2>1. PICK p \in m.parts : p.at = m.rip[i].at
    BY DEF Listed, Resolves
  <2>2. PICK j \in DOMAIN m.rip : m.rip[j].at = p.at /\ m.rip[j].sid = p.sid
    BY DEF Known
  <2>3. j = i
    BY <1>2, <2>1, <2>2
  <2>4. QED
    BY <2>1, <2>2, <2>3, PackAtIs
<1>4. QED
  BY <1>2, <1>3

\* A pack of the finalized file, and the one it was before
LEMMA ClosedParts ==
  ASSUME NEW m, NEW text, NEW footer, Closes(m, text, footer), NEW q \in mxf'.parts
  PROVE  \E p \in m.parts : Relinks(m, Reached(m), footer.at, p, q) /\ Alike(p, q)
  BY DEF Closes, Relinked, Relinks

LEMMA ClosedStreams ==
  ASSUME NEW m, NEW text, NEW footer, Closes(m, text, footer), Listed(m), Ordered(m), Room(m),
         NEW q \in mxf'.parts, q.type = "stream"
  PROVE  LET s == Reader!LocateStream(mxf', q.sid)
         IN  s.start = q.at /\ s.end >= q.at + PackLen + StreamLen
<1> DEFINE n     == Len(m.rip)
           hits  == {i \in DOMAIN mxf'.disk : mxf'.disk[i].sid = q.sid}
           start == CHOOSE i \in hits : \A j \in hits : i <= j
           after == {i \in DOMAIN mxf'.disk : i > start /\ mxf'.disk[i].sid # q.sid}
           end   == CHOOSE i \in after : \A j \in after : i <= j
           s     == Reader!LocateStream(mxf', q.sid)
<1>1. /\ m \in MxfType /\ mxf'.disk = m.rip /\ Known(m) /\ Distinct(m)
      /\ DOMAIN m.rip = 1 .. n /\ n \in Nat
      /\ \A i \in DOMAIN m.rip : m.rip[i].at \in Nat
      /\ n >= 1 /\ m.rip[n].sid = 0
  <2>1. PICK b : b \in MxfType /\ Lists(b, m, footer) /\ footer.sid = 0
    BY DEF Closes
  <2>2. m \in MxfType /\ mxf'.disk = m.rip /\ Known(m) /\ Distinct(m)
    BY DEF Closes
  <2>3. QED
    BY <2>1, <2>2, FileTypes DEF Lists, Appends
<1>2. PICK p \in m.parts : Alike(p, q)
  BY ClosedParts
<1>3. /\ p.type = "stream" /\ p.at = q.at /\ p.sid = q.sid /\ p.sid > 1 /\ p.sid \in Nat
      /\ p.at \in Nat
  BY <1>1, <1>2, FileTypes DEF Alike, Known, Kinded
<1>4. PICK i \in DOMAIN m.rip : m.rip[i].at = p.at /\ m.rip[i].sid = p.sid
  BY <1>1 DEF Known
<1> HIDE DEF n
<1>5. hits = {i}
  BY <1>1, <1>3, <1>4 DEF Distinct
<1>6. start = i
  BY <1>1, <1>5
<1> HIDE DEF start, hits
<1>7. n \in after /\ after \in SUBSET Nat
  BY <1>1, <1>3, <1>4, <1>6
<1>8. end \in after
  BY <1>7, Smallest
<1>9. s.start = m.rip[start].at /\ s.end = m.rip[end].at
  <2>1. hits # {} /\ after # {}
    BY <1>5, <1>7
  <2>2. s = IF hits = {} \/ after = {} THEN Reader!NotFound
            ELSE [start    |-> mxf'.disk[start].at,
                  end      |-> mxf'.disk[end].at,
                  sequence |-> Reader!Cardinality({k \in 1 .. end - 1 : mxf'.disk[k].sid > 0})]
    BY DEF Reader!LocateStream, hits, start
  <2> HIDE DEF s, end, after
  <2>3. QED
    BY <1>1, <2>1, <2>2
<1>10. end \in DOMAIN m.rip /\ i < end
  BY <1>1, <1>6, <1>8
<1> HIDE DEF s, end, after
<1>11. m.rip[end].at > p.at
  <2>1. Ordered(m)
    BY <1>1
  <2>2. \A j \in DOMAIN m.rip : j < end => m.rip[j].at < m.rip[end].at
    BY <1>10, <2>1 DEF Ordered
  <2>3. QED
    BY <1>4, <1>10, <2>2
<1>12. m.rip[end].at >= p.at + (PackLen + StreamLen)
  BY <1>1, <1>3, <1>11, <1>10 DEF Room
<1>13. m.rip[end].at >= p.at + PackLen + StreamLen
  <2>1. m.rip[end].at \in Nat /\ PackLen \in Nat /\ StreamLen \in Nat
    BY <1>1, <1>10, LengthAssumption
  <2>2. QED
    BY <1>3, <1>12, <2>1
<1>14. QED
  BY <1>3, <1>4, <1>6, <1>9, <1>13 DEF s

\* Every generic-stream partition of a file that was written without a fault is found
\* by its SID, and what a reader takes for its extent holds the pack and the payload.
THEOREM StreamsFoundHolds == Spec => []StreamsFound
<1> DEFINE Inv == TypeInv /\ Core /\ StreamsFound
<1>1. Init => Inv
  BY InitType, InitCore DEF Init, StreamsFound, Finalized
<1>2. Inv /\ [Next]_vars => Inv'
  <2> SUFFICES ASSUME TypeInv, Core, StreamsFound, [Next]_vars
               PROVE  TypeInv' /\ Core' /\ StreamsFound'
    OBVIOUS
  <2>1. TypeInv' /\ Core'
    BY NextType, NextCore
  <2>2. SUFFICES ASSUME Finalized', Clean', NEW p \in mxf'.parts, p.type = "stream"
                 PROVE  LET s == Reader!LocateStream(mxf', p.sid)
                        IN  s.start = p.at /\ s.end >= p.at + PackLen + StreamLen
    BY <2>1 DEF StreamsFound, Streams, Reader!LocateStream
  <2>3. CASE UNCHANGED vars
    BY <2>2, <2>3 DEF vars, StreamsFound, Streams, Finalized, Clean
  <2>4. CASE Clean /\ \E text \in BOOLEAN : \E m, footer : Closes(m, text, footer) /\ Listed(m)
    <3>1. PICK text, m, footer : Closes(m, text, footer) /\ Listed(m)
      BY <2>4
    <3>2. Ordered(m) /\ Room(m)
      BY <2>4, <3>1, CleanUnharmed DEF Closes, Intact
    <3>3. QED
      BY <2>2, <3>1, <3>2, ClosedStreams
  <2>5. QED
    BY <2>2, <2>3, <2>4, FinalStep
<1>3. QED
  BY <1>1, <1>2, PTL DEF Spec

\* The links of a closed file: every entry between the header and the footer is
\* linked, each after the one before it
LEMMA ClosedLinks ==
  ASSUME NEW m, NEW text, NEW footer, Closes(m, text, footer), Listed(m), Ordered(m)
  PROVE  LET n == Len(m.rip)
         IN  /\ n \in Nat /\ DOMAIN m.rip = 1 .. n /\ n >= 3
             /\ m.rip[n].at = footer.at /\ footer \in m.parts
             /\ footer.prev = m.rip[n - 1].at
             /\ \A i \in 1 .. n : Linked(m, i) <=> 1 < i /\ i < n
             /\ \A i \in 2 .. n - 1 : PreviousOf(m, i) = m.rip[i - 1].at
<1> DEFINE n == Len(m.rip)
<1>1. PICK b \in MxfType :
        /\ Lists(b, m, footer) /\ footer.type = "footer" /\ footer.prev = b.rip[Len(b.rip)].at
        /\ Shape(b)
  BY DEF Closes
<1>2. m \in MxfType /\ Known(m) /\ Begun(m)
  BY DEF Closes
<1>3. /\ n \in Nat /\ DOMAIN m.rip = 1 .. n /\ n >= 3
      /\ m.rip[n].at = footer.at /\ m.parts = b.parts \cup {footer}
      /\ footer.prev = m.rip[n - 1].at
  <2>1. Len(b.rip) >= 2 /\ Len(b.rip) \in Nat
    BY <1>1, FileTypes DEF Shape, Begun
  <2>2. n = Len(b.rip) + 1
    BY <1>1 DEF Lists, Appends
  <2>3. Len(b.rip) \in 1 .. Len(b.rip) /\ n - 1 = Len(b.rip)
    BY <2>1, <2>2
  <2>4. m.rip[n - 1] = b.rip[Len(b.rip)]
    BY <1>1, <2>3 DEF Lists, Appends
  <2> HIDE DEF n
  <2>5. QED
    BY <1>1, <2>1, <2>2, <2>3, <2>4 DEF Lists, Appends
<1> HIDE DEF n
<1>4. /\ \A i \in 1 .. n : \E p \in m.parts : p.at = m.rip[i].at /\ PackAt(m, m.rip[i].at) = p
      /\ \A i, j \in 1 .. n : m.rip[i].at = m.rip[j].at => i = j
  BY <1>2, <1>3, ClosedEntries
<1>5. m.rip[1].at = 0
  BY <1>2 DEF Begun
<1>6. ASSUME NEW i \in 1 .. n PROVE Linked(m, i) <=> 1 < i /\ i < n
  <2>1. PICK p \in m.parts : p.at = m.rip[i].at /\ PackAt(m, m.rip[i].at) = p
    BY <1>4
  <2>2. Linked(m, i) <=> p.type \in {"body", "index", "stream"}
    BY <2>1 DEF Linked, Resolves
  <2>3. p.type = "header" <=> i = 1
    <3>1. 1 \in 1 .. n
      BY <1>3
    <3>2. p.at = 0 <=> i = 1
      BY <1>4, <1>5, <2>1, <3>1
    <3>3. QED
      BY <1>2, <3>2 DEF Known, Kinded
  <2>4. p.type = "footer" <=> i = n
    <3>1. p.at = footer.at <=> i = n
      BY <1>3, <1>4, <2>1
    <3>2. p = footer <=> i = n
      BY <1>2, <1>3, <2>1, <3>1 DEF Known
    <3>3. p \in b.parts => p.type # "footer"
      BY <1>1 DEF Shape, Growing
    <3>4. QED
      BY <1>1, <1>3, <3>2, <3>3
  <2>5. p.type \in {"header", "body", "index", "stream", "footer"}
    BY <1>2, <2>1, FileTypes DEF Pack
  <2>6. QED
    BY <1>3, <2>2, <2>3, <2>4, <2>5
<1>7. ASSUME NEW i \in 2 .. n - 1 PROVE PreviousOf(m, i) = m.rip[i - 1].at
  <2> DEFINE latest == {j \in 1 .. i - 1 : Linked(m, j) /\ \A k \in j + 1 .. i - 1 : ~Linked(m, k)}
             chosen == CHOOSE j \in latest : TRUE
  <2>1. PreviousOf(m, i) = IF latest = {} THEN 0 ELSE m.rip[chosen].at
    BY DEF PreviousOf
  <2>2. i \in Nat /\ 1 .. i - 1 \subseteq 1 .. n
    BY <1>3
  <2>3. CASE i = 2
    <3>1. latest = {}
      BY <1>3, <1>6, <2>2, <2>3
    <3>2. QED
      BY <1>5, <2>1, <2>3, <3>1
  <2>4. CASE i > 2
    <3>1. i - 1 \in 1 .. i - 1 /\ Linked(m, i - 1)
      BY <1>3, <1>6, <2>2, <2>4
    <3>2. \A j \in latest : j = i - 1
      BY <2>2, <2>4, <3>1
    <3>3. i - 1 \in latest
      BY <2>2, <2>4, <3>1
    <3> HIDE DEF latest
    <3>4. chosen = i - 1
      BY <3>2, <3>3
    <3>5. QED
      BY <2>1, <3>3, <3>4
  <2>5. QED
    BY <2>2, <2>3, <2>4
<1>8. QED
  BY <1>3, <1>6, <1>7 DEF n

\* The packs of the finalized file, each by its entry in the RIP
LEMMA ClosedPack ==
  ASSUME NEW m, NEW text, NEW footer, Closes(m, text, footer), Listed(m), Ordered(m),
         NEW q \in mxf'.parts, NEW i \in 1 .. Len(m.rip), q.at = m.rip[i].at
  PROVE  /\ i > 1 => q.prev = m.rip[i - 1].at
         /\ q.type = "header" <=> i = 1
         /\ i > 1 => q.footer = footer.at
<1> DEFINE n == Len(m.rip)
<1>1. /\ n \in Nat /\ DOMAIN m.rip = 1 .. n /\ n >= 3
      /\ m.rip[n].at = footer.at /\ footer \in m.parts
      /\ footer.prev = m.rip[n - 1].at
      /\ \A k \in 1 .. n : Linked(m, k) <=> 1 < k /\ k < n
      /\ \A k \in 2 .. n - 1 : PreviousOf(m, k) = m.rip[k - 1].at
  BY ClosedLinks
<1>2. m \in MxfType /\ Known(m) /\ Begun(m) /\ footer.footer = footer.at
  BY DEF Closes
<1>3. \A j, k \in 1 .. n : m.rip[j].at = m.rip[k].at => j = k
  BY <1>1, <1>2, ClosedEntries
<1>4. PICK p \in m.parts : Relinks(m, Reached(m), footer.at, p, q) /\ Alike(p, q)
  BY ClosedParts
<1> DEFINE entries == {k \in Reached(m) : Linked(m, k) /\ m.rip[k].at = p.at}
<1>5. p.at = m.rip[i].at
  BY <1>4 DEF Alike
<1>6. Reached(m) = 1 .. n
  <2>1. \A k \in 1 .. n : 1 .. k \subseteq 1 .. n
    BY <1>1
  <2> HIDE DEF n
  <2>2. QED
    BY <1>1, <2>1 DEF Reached, Listed
<1> HIDE DEF n
<1>7. entries = IF 1 < i /\ i < n THEN {i} ELSE {}
  <2>1. i \in 1 .. n
    BY DEF n
  <2>2. \A k \in entries : k = i /\ 1 < i /\ i < n
    BY <1>1, <1>3, <1>5, <1>6, <2>1
  <2>3. 1 < i /\ i < n => i \in entries
    BY <1>1, <1>5, <1>6, <2>1
  <2>4. QED
    BY <2>2, <2>3
<1>8. /\ entries = {} => q = p
      /\ \A k : entries = {k} => q.footer = footer.at /\ q.prev = PreviousOf(m, k)
  BY <1>4 DEF Relinks
<1> HIDE DEF entries
<1>9. i \in 1 .. n /\ i \in Nat
  BY DEF n
<1>10. CASE i = 1
  <2>1. p.at = 0
    BY <1>2, <1>5, <1>10 DEF Begun
  <2>2. QED
    BY <1>2, <1>4, <1>10, <2>1 DEF Known, Kinded, Alike
<1>11. CASE i = n
  <2>1. q = p /\ p = footer
    BY <1>1, <1>2, <1>5, <1>7, <1>8, <1>11 DEF Known
  <2>2. footer.type # "header"
    BY DEF Closes
  <2>3. QED
    BY <1>1, <1>2, <1>11, <2>1, <2>2
<1>12. CASE 1 < i /\ i < n
  <2>1. q.footer = footer.at /\ q.prev = PreviousOf(m, i)
    BY <1>7, <1>8, <1>12
  <2>2. i \in 2 .. n - 1
    BY <1>1, <1>9, <1>12
  <2>3. PreviousOf(m, i) = m.rip[i - 1].at
    BY <1>1, <2>2
  <2>4. q.type # "header"
    <3>1. 1 \in 1 .. n /\ m.rip[1].at = 0
      BY <1>1, <1>2 DEF Begun
    <3>2. p.at # 0
      BY <1>3, <1>5, <1>9, <1>12, <3>1
    <3>3. QED
      BY <1>2, <1>4, <3>2 DEF Known, Kinded, Alike
  <2>5. QED
    BY <1>12, <2>1, <2>3, <2>4
<1>13. QED
  BY <1>1, <1>9, <1>10, <1>11, <1>12

LEMMA ClosedChain ==
  ASSUME NEW m, NEW text, NEW footer, Closes(m, text, footer), Listed(m), Ordered(m)
  PROVE  LET n     == Len(mxf'.disk)
             At(i) == mxf'.disk[i].at
         IN  /\ {At(i) : i \in 1 .. n} = {p.at : p \in mxf'.parts}
             /\ At(1) = 0
             /\ \A i \in 2 .. n : At(i - 1) < At(i) /\ PackAt(mxf', At(i)).prev = At(i - 1)
             /\ \A p \in mxf'.parts : p.type # "header" => p.footer = At(n)
<1> DEFINE n == Len(m.rip)
<1>1. /\ m \in MxfType /\ Known(m) /\ Begun(m) /\ mxf'.disk = m.rip
      /\ n \in Nat /\ DOMAIN m.rip = 1 .. n /\ n >= 3 /\ m.rip[n].at = footer.at
  BY ClosedLinks DEF Closes
<1>2. \A p \in m.parts : \E q \in mxf'.parts : q.at = p.at
  BY DEF Closes, Relinked, Relinks, Alike
<1>3. \A i \in 1 .. n : \E q \in mxf'.parts : q.at = m.rip[i].at
  BY <1>1, <1>2 DEF Listed, Resolves
<1>4. ASSUME NEW q \in mxf'.parts PROVE \E i \in 1 .. n : q.at = m.rip[i].at
  <2>1. PICK p \in m.parts : Alike(p, q)
    BY ClosedParts
  <2>2. PICK i \in DOMAIN m.rip : m.rip[i].at = p.at
    BY <1>1 DEF Known
  <2>3. QED
    BY <1>1, <2>1, <2>2 DEF Alike
<1>5. {m.rip[i].at : i \in 1 .. n} = {p.at : p \in mxf'.parts}
  BY <1>3, <1>4
<1>6. m.rip[1].at = 0
  BY <1>1 DEF Begun
<1>7. ASSUME NEW i \in 2 .. n
      PROVE  m.rip[i - 1].at < m.rip[i].at /\ PackAt(mxf', m.rip[i].at).prev = m.rip[i - 1].at
  <2>1. i - 1 \in 1 .. n /\ i \in 1 .. n /\ i - 1 < i /\ i > 1
    BY <1>1
  <2>2. m.rip[i - 1].at < m.rip[i].at
    BY <1>1, <2>1 DEF Ordered
  <2> DEFINE q == PackAt(mxf', m.rip[i].at)
  <2>3. q \in mxf'.parts /\ q.at = m.rip[i].at
    BY <1>3, <2>1 DEF PackAt
  <2> HIDE DEF q
  <2>4. q.prev = m.rip[i - 1].at
    BY <2>1, <2>3, ClosedPack
  <2>5. QED
    BY <2>2, <2>4 DEF q
<1>8. ASSUME NEW q \in mxf'.parts, q.type # "header" PROVE q.footer = m.rip[n].at
  <2>1. PICK i \in 1 .. n : q.at = m.rip[i].at
    BY <1>4
  <2>2. (q.type = "header" <=> i = 1) /\ (i > 1 => q.footer = footer.at)
    BY <2>1, ClosedPack
  <2>3. QED
    BY <1>1, <1>8, <2>1, <2>2
<1>9. QED
  BY <1>1, <1>5, <1>6, <1>7, <1>8

\* PreviousPartition leads through every partition of a file that was written without
\* a fault, from its footer to its header, in the order of the RIP; and every partition
\* but the header names the footer.
THEOREM PartitionChainHolds == Spec => []PartitionChain
<1> DEFINE Inv == TypeInv /\ Core /\ PartitionChain
<1>1. Init => Inv
  BY InitType, InitCore DEF Init, PartitionChain, Finalized
<1>2. Inv /\ [Next]_vars => Inv'
  <2> SUFFICES ASSUME TypeInv, Core, PartitionChain, [Next]_vars
               PROVE  TypeInv' /\ Core' /\ PartitionChain'
    OBVIOUS
  <2>1. TypeInv' /\ Core'
    BY NextType, NextCore
  <2>2. ASSUME UNCHANGED vars PROVE PartitionChain'
    BY <2>2 DEF vars, PartitionChain, Finalized, Clean
  <2>3. ASSUME ~(Finalized' /\ Clean') PROVE PartitionChain'
    BY <2>3 DEF PartitionChain, Finalized, Clean
  <2>4. ASSUME Clean,
               \E text \in BOOLEAN : \E m, footer : Closes(m, text, footer) /\ Listed(m)
        PROVE  PartitionChain'
    <3>1. PICK text, m, footer : Closes(m, text, footer) /\ Listed(m)
      BY <2>4
    <3>2. Ordered(m)
      BY <2>4, <3>1, CleanUnharmed DEF Closes, Intact
    <3>3. QED
      BY <3>1, <3>2, ClosedChain DEF PartitionChain
  <2>5. PartitionChain'
    BY <2>2, <2>3, <2>4, FinalStep
  <2>6. QED
    BY <2>1, <2>5
<1>3. QED
  BY <1>1, <1>2, PTL DEF Spec

-----------------------------------------------------------------------------
(* Counting the entries of the RIP *)

LEMMA IndexSets ==
  ASSUME NEW m \in MxfType
  PROVE  /\ BodiesOf(m) \in SUBSET (DOMAIN m.rip) /\ IndexesOf(m) \in SUBSET (DOMAIN m.rip)
         /\ IsFiniteSet(BodiesOf(m)) /\ IsFiniteSet(IndexesOf(m))
         /\ Cardinality(BodiesOf(m)) \in Nat /\ Cardinality(IndexesOf(m)) \in Nat
         /\ DOMAIN m.rip = 1 .. Len(m.rip) /\ Len(m.rip) \in Nat
         /\ IsFiniteSet(DOMAIN m.rip)
<1>1. DOMAIN m.rip = 1 .. Len(m.rip) /\ Len(m.rip) \in Nat
  BY FileTypes
<1>2. IsFiniteSet(DOMAIN m.rip)
  BY <1>1, FS_Interval
<1>3. BodiesOf(m) \in SUBSET (DOMAIN m.rip) /\ IndexesOf(m) \in SUBSET (DOMAIN m.rip)
  BY DEF BodiesOf, IndexesOf
<1>4. IsFiniteSet(BodiesOf(m)) /\ IsFiniteSet(IndexesOf(m))
  BY <1>2, <1>3, FS_Subset
<1>5. QED
  BY <1>1, <1>2, <1>3, <1>4, FS_CardinalityType

\* A set of entries, and the same with one entry after the others
LEMMA UpToGrows ==
  ASSUME NEW n \in Nat, NEW S \in SUBSET (1 .. n), NEW T, T = S \/ T = S \cup {n + 1}
  PROVE  /\ \A i \in 1 .. n : UpTo(T, i) = UpTo(S, i)
         /\ T = S \cup {n + 1} =>
              /\ Cardinality(T) = Cardinality(S) + 1
              /\ UpTo(T, n + 1) = Cardinality(S) + 1
<1>1. IsFiniteSet(S)
  BY IntervalFinite, FS_Subset
<1>2. ASSUME NEW i \in 1 .. n PROVE UpTo(T, i) = UpTo(S, i)
  <2>1. {j \in T : j <= i} = {j \in S : j <= i}
    OBVIOUS
  <2>2. QED
    BY <2>1 DEF UpTo
<1>3. ASSUME T = S \cup {n + 1}
      PROVE  Cardinality(T) = Cardinality(S) + 1 /\ UpTo(T, n + 1) = Cardinality(S) + 1
  <2>1. n + 1 \notin S
    OBVIOUS
  <2>2. Cardinality(T) = Cardinality(S) + 1
    BY <1>1, <1>3, <2>1, FS_AddElement
  <2>3. {j \in T : j <= n + 1} = T
    <3>1. \A j \in S : j <= n + 1
      OBVIOUS
    <3>2. \A j \in T : j \in S \/ j = n + 1
      BY <1>3
    <3>3. \A j \in T : j <= n + 1
      <4>1. n + 1 \in Nat /\ n + 1 <= n + 1
        OBVIOUS
      <4>2. QED
        BY <3>1, <3>2, <4>1
    <3>4. QED
      BY <3>3
  <2>4. QED
    BY <2>2, <2>3 DEF UpTo
<1>4. QED
  BY <1>2, <1>3

LEMMA UpToAll ==
  ASSUME NEW n \in Nat, NEW S \in SUBSET (1 .. n)
  PROVE  UpTo(S, n) = Cardinality(S)
<1>1. {j \in S : j <= n} = S
  <2>1. \A j \in S : j <= n
    OBVIOUS
  <2>2. QED
    BY <2>1
<1>2. QED
  BY <1>1 DEF UpTo

LEMMA UpToNat ==
  ASSUME NEW n \in Nat, NEW S \in SUBSET (1 .. n), NEW i
  PROVE  UpTo(S, i) \in Nat /\ UpTo(S, i) <= Cardinality(S) /\ Cardinality(S) \in Nat
<1>1. IsFiniteSet(S)
  BY IntervalFinite, FS_Subset
<1>2. {j \in S : j <= i} \in SUBSET S
  OBVIOUS
<1>3. QED
  BY <1>1, <1>2, FS_Subset, FS_CardinalityType DEF UpTo

LEMMA UpToInjective ==
  ASSUME NEW n \in Nat, NEW S \in SUBSET (1 .. n), NEW b \in S, NEW c \in S,
         UpTo(S, b) = UpTo(S, c)
  PROVE  b = c
<1>1. IsFiniteSet(S)
  BY IntervalFinite, FS_Subset
<1>2. ASSUME NEW x \in S, NEW y \in S, x < y, UpTo(S, x) = UpTo(S, y) PROVE FALSE
  <2> DEFINE X == {j \in S : j <= x}
             Y == {j \in S : j <= y}
  <2>1. X \in SUBSET Y /\ Y \in SUBSET S
    <3>1. \A j \in S : j <= x => j <= y
      BY <1>2
    <3>2. QED
      BY <3>1
  <2>2. IsFiniteSet(Y)
    BY <1>1, <2>1, FS_Subset
  <2>3. Cardinality(Y) = Cardinality(X)
    BY <1>2 DEF UpTo
  <2> HIDE DEF X, Y
  <2>4. Y = X
    BY <2>1, <2>2, <2>3, FS_Subset
  <2>5. y \in Y /\ y \notin X
    BY <1>2 DEF X, Y
  <2>6. QED
    BY <2>4, <2>5
<1>3. b \in Nat /\ c \in Nat
  OBVIOUS
<1>4. CASE b < c
  BY <1>2, <1>4
<1>5. CASE c < b
  BY <1>2, <1>5
<1>6. QED
  BY <1>3, <1>4, <1>5

-----------------------------------------------------------------------------
(* The index of a file to which a pack is added *)

\* The index of file a holds what that of m holds; the pending segments have got
\* place z.
Keeps(m, a, z) ==
  /\ a.essence = m.essence
  /\ IndexesOf(m) \in SUBSET IndexesOf(a)
  /\ z \in Places(a) \ IndexesOf(m)
  /\ SegsAt(a, z) = m.segs /\ RankOf(a, z) = RankOf(m, 0)
  /\ \A i \in IndexesOf(m) : SegsAt(a, i) = SegsAt(m, i) /\ RankOf(a, i) = RankOf(m, i)
  /\ \A i \in Places(a) \ (IndexesOf(m) \cup {z}) :
       \A j \in DOMAIN SegsAt(a, i) : SegsAt(a, i)[j].entries = <<>>
  /\ \A b \in BodiesOf(m) : b \in BodiesOf(a) /\ UpTo(BodiesOf(a), b) = UpTo(BodiesOf(m), b)
  /\ \A k \in DOMAIN m.essence :
       /\ DisplacedIn(a, k) <=> DisplacedIn(m, k)
       /\ \A b \in BodiesOf(m) : \A entry : LeadsTo(m, k, b, entry) => LeadsTo(a, k, b, entry)

LEMMA KeepsNumbers ==
  ASSUME NEW m \in MxfType, NEW a, NEW z, Keeps(m, a, z)
  PROVE  /\ \A c : Leading(m, c) => Leading(a, c)
         /\ Unique(m) => Unique(a)
         /\ Covers(m) => Covers(a)
<1> DEFINE From(i) == IF i = z THEN 0 ELSE i
<1>1. ASSUME NEW i \in Places(a), NEW j \in DOMAIN SegsAt(a, i),
             NEW e \in DOMAIN SegsAt(a, i)[j].entries
      PROVE  /\ From(i) \in Places(m) /\ SegsAt(a, i) = SegsAt(m, From(i))
             /\ RankOf(a, i) = RankOf(m, From(i))
  <2>1. SegsAt(a, i)[j].entries # <<>>
    BY <1>1
  <2>2. i \in IndexesOf(m) \cup {z}
    BY <1>1, <2>1 DEF Keeps
  <2>3. SegsAt(m, 0) = m.segs /\ 0 \in Places(m) /\ IndexesOf(m) \in SUBSET Places(m)
    BY DEF SegsAt, Places
  <2>4. CASE i = z
    BY <2>3, <2>4 DEF Keeps
  <2>5. CASE i # z
    BY <2>2, <2>3, <2>5 DEF Keeps
  <2>6. QED
    BY <2>4, <2>5
<1>2. ASSUME NEW i \in Places(m)
      PROVE  \E i2 \in Places(a) : SegsAt(a, i2) = SegsAt(m, i)
  <2>1. CASE i = 0
    BY <2>1 DEF Keeps, SegsAt
  <2>2. CASE i # 0
    BY <2>2 DEF Keeps, Places
  <2>3. QED
    BY <2>1, <2>2
<1>3. \A i1, i2 : From(i1) = From(i2) /\ i1 # i2 => i1 = 0 \/ i2 = 0
  OBVIOUS
<1>4. 0 \notin IndexesOf(m)
  BY IndexSets
<1>5. ASSUME NEW i1 \in Places(a), NEW i2 \in Places(a), From(i1) = From(i2),
             NEW j1 \in DOMAIN SegsAt(a, i1), SegsAt(a, i1)[j1].entries # <<>>,
             NEW j2 \in DOMAIN SegsAt(a, i2), SegsAt(a, i2)[j2].entries # <<>>
      PROVE  i1 = i2
  <2>1. i1 \in IndexesOf(m) \cup {z} /\ i2 \in IndexesOf(m) \cup {z}
    BY <1>5 DEF Keeps
  <2>2. QED
    BY <1>4, <1>5, <2>1
<1> HIDE DEF From
<1>6. ASSUME NEW c, Leading(m, c) PROVE Leading(a, c)
  <2> SUFFICES ASSUME NEW i \in Places(a), NEW j \in DOMAIN SegsAt(a, i),
                      NEW e \in DOMAIN SegsAt(a, i)[j].entries
               PROVE  LET k == SegsAt(a, i)[j].start + e
                      IN  /\ k \in DOMAIN a.essence
                          /\ k <= c => DisplacedIn(a, k)
                                         \/ Found(a, i, k, SegsAt(a, i)[j].entries[e])
    BY DEF Leading
  <2> DEFINE k == SegsAt(a, i)[j].start + e
             entry == SegsAt(a, i)[j].entries[e]
  <2>1. From(i) \in Places(m) /\ SegsAt(a, i) = SegsAt(m, From(i)) /\ RankOf(a, i) = RankOf(m, From(i))
    BY <1>1
  <2>2. /\ k \in DOMAIN m.essence
        /\ k <= c => DisplacedIn(m, k) \/ Found(m, From(i), k, entry)
    BY <1>6, <2>1 DEF Leading
  <2> HIDE DEF k, entry
  <2>3. Found(m, From(i), k, entry) => Found(a, i, k, entry)
    BY <2>1, <2>2 DEF Found, Keeps
  <2>4. QED
    BY <2>2, <2>3 DEF Keeps, k, entry
<1>7. ASSUME Unique(m) PROVE Unique(a)
  <2> SUFFICES ASSUME NEW i1 \in Places(a), NEW i2 \in Places(a),
                      NEW j1 \in DOMAIN SegsAt(a, i1), NEW j2 \in DOMAIN SegsAt(a, i2),
                      NEW e1 \in DOMAIN SegsAt(a, i1)[j1].entries,
                      NEW e2 \in DOMAIN SegsAt(a, i2)[j2].entries,
                      SegsAt(a, i1)[j1].start + e1 = SegsAt(a, i2)[j2].start + e2
               PROVE  i1 = i2 /\ j1 = j2
    BY DEF Unique
  <2>1. /\ From(i1) \in Places(m) /\ SegsAt(a, i1) = SegsAt(m, From(i1))
        /\ From(i2) \in Places(m) /\ SegsAt(a, i2) = SegsAt(m, From(i2))
    BY <1>1
  <2>2. From(i1) = From(i2) /\ j1 = j2
    BY <1>7, <2>1 DEF Unique
  <2>3. SegsAt(a, i1)[j1].entries # <<>> /\ SegsAt(a, i2)[j2].entries # <<>>
    OBVIOUS
  <2>4. QED
    BY <1>5, <2>2, <2>3
<1>8. ASSUME Covers(m) PROVE Covers(a)
  <2> SUFFICES ASSUME NEW k \in DOMAIN m.essence
               PROVE  \E i \in Places(a) : \E j \in DOMAIN SegsAt(a, i) :
                        \E e \in DOMAIN SegsAt(a, i)[j].entries : k = SegsAt(a, i)[j].start + e
    BY DEF Covers, Keeps
  <2>1. PICK i \in Places(m) : \E j \in DOMAIN SegsAt(m, i) :
               \E e \in DOMAIN SegsAt(m, i)[j].entries : k = SegsAt(m, i)[j].start + e
    BY <1>8 DEF Covers
  <2>2. PICK i2 \in Places(a) : SegsAt(a, i2) = SegsAt(m, i)
    BY <1>2
  <2>3. QED
    BY <2>1, <2>2
<1>9. QED
  BY <1>6, <1>7, <1>8

\* A pack is added: the entries listed before lead where they did
LEMMA ListsIndex ==
  ASSUME NEW m \in MxfType, NEW a \in MxfType, NEW pack, Lists(m, a, pack), Kinded(pack),
         Known(m), Growing(m), Ordered(m)
  PROVE  LET n == Len(m.rip)
         IN  /\ BodiesOf(a) = IF pack.sid = 1 THEN BodiesOf(m) \cup {n + 1} ELSE BodiesOf(m)
             /\ IndexesOf(a) = IF pack.type = "index" THEN IndexesOf(m) \cup {n + 1}
                               ELSE IndexesOf(m)
             /\ \A i \in IndexesOf(m) : PackAt(a, a.rip[i].at) = PackAt(m, m.rip[i].at)
             /\ PackAt(a, a.rip[n + 1].at) = pack
             /\ HasStream(a) <=> HasStream(m) \/ pack.type = "stream"
             /\ \A k \in DOMAIN m.essence :
                  /\ DisplacedIn(a, k) <=> DisplacedIn(m, k)
                  /\ \A b \in 1 .. n : \A entry : LeadsTo(m, k, b, entry) <=> LeadsTo(a, k, b, entry)
<1> DEFINE n == Len(m.rip)
<1>1. /\ n \in Nat /\ DOMAIN m.rip = 1 .. n /\ DOMAIN a.rip = 1 .. n + 1
      /\ \A i \in 1 .. n : a.rip[i] = m.rip[i]
      /\ a.rip[n + 1].sid = pack.sid /\ a.rip[n + 1].at = m.pos
      /\ pack.at = m.pos /\ a.parts = m.parts \cup {pack} /\ a.essence = m.essence
  BY DEF Lists, Appends
<1>2. /\ m.pos \in Nat
      /\ \A p \in m.parts : p.at \in Nat /\ p.at < m.pos
      /\ \A i \in 1 .. n : m.rip[i].at \in Nat /\ m.rip[i].at < m.pos
      /\ \A k \in DOMAIN m.essence : m.essence[k] \in Nat /\ m.essence[k] < m.pos
  BY <1>1, FileTypes DEF Known, Growing, Ordered
<1> HIDE DEF n
<1>3. DOMAIN a.rip = DOMAIN m.rip \cup {n + 1}
  BY <1>1
<1>4. \A i \in 1 .. n : m.rip[i].at # pack.at /\ i # n + 1
  BY <1>1, <1>2
<1>5. BodiesOf(a) = IF pack.sid = 1 THEN BodiesOf(m) \cup {n + 1} ELSE BodiesOf(m)
  BY <1>1, <1>3 DEF BodiesOf
<1>6. \A i \in 1 .. n :
        (\E p \in a.parts : p.at = a.rip[i].at /\ p.type = "index")
          <=> (\E p \in m.parts : p.at = m.rip[i].at /\ p.type = "index")
  BY <1>1, <1>4
<1>7. (\E p \in a.parts : p.at = a.rip[n + 1].at /\ p.type = "index") <=> pack.type = "index"
  BY <1>1, <1>2
<1>8. IndexesOf(a) = IF pack.type = "index" THEN IndexesOf(m) \cup {n + 1} ELSE IndexesOf(m)
  BY <1>1, <1>3, <1>6, <1>7 DEF IndexesOf
<1>9. Known(a)
  BY ListsLayout
<1>10. PackAt(a, a.rip[n + 1].at) = pack
  BY <1>1, <1>9, PackAtIs
<1>11. ASSUME NEW i \in IndexesOf(m) PROVE PackAt(a, a.rip[i].at) = PackAt(m, m.rip[i].at)
  <2>1. PICK p \in m.parts : p.at = m.rip[i].at
    BY DEF IndexesOf
  <2>2. i \in 1 .. n /\ p \in a.parts /\ p.at = a.rip[i].at
    BY <1>1, <2>1 DEF IndexesOf
  <2>3. PackAt(m, m.rip[i].at) = p /\ PackAt(a, a.rip[i].at) = p
    BY <1>9, <2>1, <2>2, PackAtIs
  <2>4. QED
    BY <2>3
<1>12. HasStream(a) <=> HasStream(m) \/ pack.type = "stream"
  BY <1>1 DEF HasStream
<1>13. ASSUME NEW k \in DOMAIN m.essence PROVE DisplacedIn(a, k) <=> DisplacedIn(m, k)
  <2>1. ~(pack.at < m.essence[k])
    BY <1>1, <1>2
  <2>2. \A p \in m.parts : (\E b \in a.parts : b.type = "body" /\ p.at < b.at /\ b.at < a.essence[k])
                      <=> (\E b \in m.parts : b.type = "body" /\ p.at < b.at /\ b.at < m.essence[k])
    BY <1>1, <2>1
  <2>3. QED
    BY <1>1, <2>1, <2>2 DEF DisplacedIn
<1>14. ASSUME NEW k \in DOMAIN m.essence, NEW b \in 1 .. n, NEW entry
       PROVE  LeadsTo(m, k, b, entry) <=> LeadsTo(a, k, b, entry)
  <2>1. a.rip[b] = m.rip[b] /\ m.rip[b].at # pack.at
    BY <1>1, <1>4
  <2>2. QED
    BY <1>1, <2>1 DEF LeadsTo
<1>15. QED
  BY <1>5, <1>8, <1>10, <1>11, <1>12, <1>13, <1>14 DEF n

\* A pack that holds no index
LEMMA ListsKeeps ==
  ASSUME NEW m \in MxfType, NEW a \in MxfType, NEW pack, Lists(m, a, pack), Kinded(pack),
         Known(m), Growing(m), Ordered(m), pack.type # "index", a.segs = m.segs
  PROVE  /\ Keeps(m, a, 0)
         /\ Cardinality(IndexesOf(a)) = Cardinality(IndexesOf(m))
         /\ Cardinality(BodiesOf(a)) = Cardinality(BodiesOf(m)) + (IF pack.sid = 1 THEN 1 ELSE 0)
         /\ HasStream(a) <=> HasStream(m) \/ pack.type = "stream"
<1> DEFINE n == Len(m.rip)
<1>1. /\ BodiesOf(a) = IF pack.sid = 1 THEN BodiesOf(m) \cup {n + 1} ELSE BodiesOf(m)
      /\ IndexesOf(a) = IndexesOf(m)
      /\ \A i \in IndexesOf(m) : PackAt(a, a.rip[i].at) = PackAt(m, m.rip[i].at)
      /\ HasStream(a) <=> HasStream(m) \/ pack.type = "stream"
      /\ \A k \in DOMAIN m.essence :
           /\ DisplacedIn(a, k) <=> DisplacedIn(m, k)
           /\ \A b \in 1 .. n : \A entry : LeadsTo(m, k, b, entry) <=> LeadsTo(a, k, b, entry)
  BY ListsIndex
<1>2. /\ n \in Nat /\ BodiesOf(m) \in SUBSET (1 .. n) /\ IndexesOf(m) \in SUBSET (1 .. n)
      /\ Cardinality(BodiesOf(m)) \in Nat
  BY IndexSets
<1> HIDE DEF n
<1>3. 0 \notin IndexesOf(m)
  BY <1>2
<1>4. \A b \in BodiesOf(m) : b \in BodiesOf(a) /\ UpTo(BodiesOf(a), b) = UpTo(BodiesOf(m), b)
  <2>1. BodiesOf(a) = BodiesOf(m) \/ BodiesOf(a) = BodiesOf(m) \cup {n + 1}
    BY <1>1
  <2>2. \A b \in 1 .. n : UpTo(BodiesOf(a), b) = UpTo(BodiesOf(m), b)
    BY <1>2, <2>1, UpToGrows
  <2>3. QED
    BY <1>2, <2>1, <2>2
<1>5. Cardinality(BodiesOf(a)) = Cardinality(BodiesOf(m)) + (IF pack.sid = 1 THEN 1 ELSE 0)
  <2>1. CASE pack.sid = 1
    BY <1>1, <1>2, <2>1, UpToGrows
  <2>2. CASE pack.sid # 1
    BY <1>1, <1>2, <2>2
  <2>3. QED
    BY <2>1, <2>2
<1>6. \A i \in IndexesOf(m) : SegsAt(a, i) = SegsAt(m, i) /\ RankOf(a, i) = RankOf(m, i)
  BY <1>1, <1>3 DEF SegsAt, RankOf
<1>7. SegsAt(a, 0) = m.segs /\ RankOf(a, 0) = RankOf(m, 0)
  BY <1>1 DEF SegsAt, RankOf
<1>8. 0 \in Places(a) /\ Places(a) \ (IndexesOf(m) \cup {0}) = {}
  BY <1>1 DEF Places
<1>9. Keeps(m, a, 0)
  <2>1. a.essence = m.essence
    BY DEF Lists
  <2>2. \A k \in DOMAIN m.essence : \A b \in BodiesOf(m) : \A entry :
          LeadsTo(m, k, b, entry) => LeadsTo(a, k, b, entry)
    BY <1>1, <1>2
  <2>3. QED
    BY <1>1, <1>3, <1>4, <1>6, <1>7, <1>8, <2>1, <2>2 DEF Keeps
<1>10. QED
  BY <1>1, <1>5, <1>9

\* The pack of an index partition, which takes the pending segments
LEMMA ListsIndexKeeps ==
  ASSUME NEW m \in MxfType, NEW a \in MxfType, NEW pack, Lists(m, a, pack), Kinded(pack),
         Known(m), Growing(m), Ordered(m), pack.type = "index", pack.segs = m.segs,
         \A j \in DOMAIN a.segs : a.segs[j].entries = <<>>
  PROVE  /\ Keeps(m, a, Len(m.rip) + 1)
         /\ Cardinality(IndexesOf(a)) = Cardinality(IndexesOf(m)) + 1
         /\ Cardinality(BodiesOf(a)) = Cardinality(BodiesOf(m))
         /\ HasStream(a) <=> HasStream(m)
<1> DEFINE n == Len(m.rip)
<1>1. /\ BodiesOf(a) = BodiesOf(m)
      /\ IndexesOf(a) = IndexesOf(m) \cup {n + 1}
      /\ \A i \in IndexesOf(m) : PackAt(a, a.rip[i].at) = PackAt(m, m.rip[i].at)
      /\ PackAt(a, a.rip[n + 1].at) = pack
      /\ HasStream(a) <=> HasStream(m)
      /\ \A k \in DOMAIN m.essence :
           /\ DisplacedIn(a, k) <=> DisplacedIn(m, k)
           /\ \A b \in 1 .. n : \A entry : LeadsTo(m, k, b, entry) <=> LeadsTo(a, k, b, entry)
  <2>1. pack.sid # 1
    BY DEF Kinded
  <2>2. QED
    BY <2>1, ListsIndex
<1>2. /\ n \in Nat /\ BodiesOf(m) \in SUBSET (1 .. n) /\ IndexesOf(m) \in SUBSET (1 .. n)
  BY IndexSets
<1> HIDE DEF n
<1>3. 0 \notin IndexesOf(m) /\ n + 1 \notin IndexesOf(m) /\ n + 1 # 0
  BY <1>2
<1>4. /\ \A i \in 1 .. n : UpTo(IndexesOf(a), i) = UpTo(IndexesOf(m), i)
      /\ Cardinality(IndexesOf(a)) = Cardinality(IndexesOf(m)) + 1
      /\ UpTo(IndexesOf(a), n + 1) = Cardinality(IndexesOf(m)) + 1
  <2> DEFINE S == IndexesOf(m)
             T == IndexesOf(a)
  <2>1. T = S \cup {n + 1} /\ S \in SUBSET (1 .. n) /\ n \in Nat
    BY <1>1, <1>2
  <2> HIDE DEF S, T
  <2> DEFINE Grown(U) ==
        /\ \A i \in 1 .. n : UpTo(U, i) = UpTo(S, i)
        /\ U = S \cup {n + 1} =>
             /\ Cardinality(U) = Cardinality(S) + 1
             /\ UpTo(U, n + 1) = Cardinality(S) + 1
  <2>2. \A U : U = S \/ U = S \cup {n + 1} => Grown(U)
    BY <2>1, UpToGrows
  <2> HIDE DEF Grown
  <2>3. /\ \A i \in 1 .. n : UpTo(T, i) = UpTo(S, i)
        /\ T = S \cup {n + 1} =>
             /\ Cardinality(T) = Cardinality(S) + 1
             /\ UpTo(T, n + 1) = Cardinality(S) + 1
    BY <2>1, <2>2 DEF Grown
  <2>4. QED
    BY <2>1, <2>3 DEF S, T
<1>5. \A i \in IndexesOf(m) : SegsAt(a, i) = SegsAt(m, i) /\ RankOf(a, i) = RankOf(m, i)
  BY <1>1, <1>2, <1>3, <1>4 DEF SegsAt, RankOf
<1>6. SegsAt(a, n + 1) = m.segs /\ RankOf(a, n + 1) = RankOf(m, 0)
  BY <1>1, <1>3, <1>4 DEF SegsAt, RankOf
<1>7. n + 1 \in Places(a) /\ \A i \in Places(a) \ (IndexesOf(m) \cup {n + 1}) : i = 0
  BY <1>1 DEF Places
<1>8. SegsAt(a, 0) = a.segs
  BY DEF SegsAt
<1>9. Keeps(m, a, n + 1)
  <2>1. a.essence = m.essence
    BY DEF Lists
  <2>2. \A k \in DOMAIN m.essence : \A b \in BodiesOf(m) : \A entry :
          LeadsTo(m, k, b, entry) => LeadsTo(a, k, b, entry)
    BY <1>1, <1>2
  <2>3. \A i \in Places(a) \ (IndexesOf(m) \cup {n + 1}) :
          \A j \in DOMAIN SegsAt(a, i) : SegsAt(a, i)[j].entries = <<>>
    BY <1>7, <1>8
  <2>4. QED
    BY <1>1, <1>3, <1>5, <1>6, <1>7, <2>1, <2>2, <2>3 DEF Keeps
<1>10. QED
  BY <1>1, <1>4, <1>9 DEF n

\* File a holds what the index of file m holds, with nb body partitions and ni index
\* partitions more
Grows(m, a, nb, ni) ==
  /\ \A c : Numbers(m, c) => Numbers(a, c)
  /\ Cardinality(BodiesOf(a)) = Cardinality(BodiesOf(m)) + nb
  /\ Cardinality(IndexesOf(a)) = Cardinality(IndexesOf(m)) + ni

LEMMA FlushIndex ==
  ASSUME NEW m \in MxfType, Shape(m), Ordered(m), NEW f, Listed(FlushIndexPartition(m, f))
  PROVE  LET a == FlushIndexPartition(m, f)
         IN  /\ Listed(m) /\ ~HasEntries(a)
             /\ Grows(m, a, 0, IF HasEntries(m) THEN 1 ELSE 0)
             /\ HasStream(a) <=> HasStream(m)
<1> DEFINE a == FlushIndexPartition(m, f)
<1>1. CASE ~HasEntries(m)
  <2>1. a = m
    BY <1>1 DEF FlushIndexPartition
  <2>2. Cardinality(BodiesOf(m)) \in Nat /\ Cardinality(IndexesOf(m)) \in Nat
    BY IndexSets
  <2> HIDE DEF a
  <2>3. Cardinality(BodiesOf(m)) = Cardinality(BodiesOf(m)) + 0
          /\ Cardinality(IndexesOf(m)) = Cardinality(IndexesOf(m)) + 0
    BY <2>2
  <2>4. Grows(m, a, 0, 0) /\ Listed(m)
    BY <2>1, <2>3 DEF Grows, a
  <2>5. QED
    BY <1>1, <2>1, <2>4 DEF a
<1>2. CASE HasEntries(m)
  <2>1. m.pos > 0 /\ Known(m) /\ Growing(m)
    BY DEF Shape, Begun
  <2>2. /\ a \in MxfType
        /\ f = "none" =>
             \E pack \in Pack :
               /\ Lists(m, a, pack)
               /\ pack.sid = 0 /\ pack.type = "index" /\ pack.segs = m.segs
               /\ DOMAIN a.segs = {1} /\ Len(a.segs) = 1
               /\ a.segs[1].entries = <<>>
               /\ a.segs[1].start = SegmentEnd(m.segs[Len(m.segs)])
        /\ f # "none" => Loses(m, a, 0)
    BY <1>2, FlushDoes
  <2>3. Listed(a)
    OBVIOUS
  <2> HIDE DEF a
  <2>4. f = "none"
    BY <2>1, <2>2, <2>3, LosesLayout
  <2>5. PICK pack \in Pack :
               /\ Lists(m, a, pack)
               /\ pack.sid = 0 /\ pack.type = "index" /\ pack.segs = m.segs
               /\ DOMAIN a.segs = {1} /\ Len(a.segs) = 1
               /\ a.segs[1].entries = <<>>
               /\ a.segs[1].start = SegmentEnd(m.segs[Len(m.segs)])
    BY <2>2, <2>4
  <2>6. pack.at = m.pos /\ m.pos \in Nat /\ a.essence = m.essence
    BY <2>5, FileTypes DEF Lists
  <2>7. Kinded(pack)
    BY <2>1, <2>5, <2>6 DEF Kinded
  <2>8. /\ Keeps(m, a, Len(m.rip) + 1)
        /\ Cardinality(IndexesOf(a)) = Cardinality(IndexesOf(m)) + 1
        /\ Cardinality(BodiesOf(a)) = Cardinality(BodiesOf(m))
        /\ HasStream(a) <=> HasStream(m)
    BY <2>1, <2>2, <2>5, <2>7, ListsIndexKeeps
  <2>9. Cardinality(BodiesOf(m)) \in Nat
    BY IndexSets
  <2>10. Listed(m)
    BY <2>1, <2>2, <2>3, <2>5, <2>7, ListsLayout
  <2>11. ~HasEntries(a)
    BY <2>5 DEF HasEntries
  <2>12. ASSUME Numbered(m) PROVE Numbered(a)
    <3>1. m.segs # <<>>
      BY <1>2 DEF HasEntries
    <3>2. SegmentEnd(a.segs[1]) = SegmentEnd(m.segs[Len(m.segs)])
      <4>1. SegmentEnd(m.segs[Len(m.segs)]) = Len(m.essence) /\ Len(m.essence) \in Nat
        BY <2>12, <3>1, FileTypes DEF Numbered
      <4>2. Len(a.segs[1].entries) = 0
        BY <2>5
      <4>3. a.segs[1].start + Len(a.segs[1].entries) = a.segs[1].start
        BY <2>5, <4>1, <4>2
      <4>4. QED
        BY <2>5, <4>3 DEF SegmentEnd
    <3>3. a.segs # <<>>
      BY <2>5
    <3>4. QED
      BY <2>5, <2>6, <2>12, <3>1, <3>2, <3>3 DEF Numbered
  <2>13. \A c : Numbers(m, c) => Numbers(a, c)
    BY <2>8, <2>12, KeepsNumbers DEF Numbers
  <2>14. Grows(m, a, 0, 1)
    BY <2>8, <2>9, <2>13 DEF Grows
  <2>15. QED
    BY <1>2, <2>8, <2>10, <2>11, <2>14 DEF a
<1>3. QED
  BY <1>1, <1>2

LEMMA SegsNumbers ==
  ASSUME NEW m \in MxfType, NEW a, Keeps(m, a, 0), a.segs = m.segs, a.essence = m.essence
  PROVE  \A c : Numbers(m, c) => Numbers(a, c)
<1>1. Numbered(m) => Numbered(a)
  BY DEF Numbered
<1>2. QED
  BY <1>1, KeepsNumbers DEF Numbers

LEMMA BodyIndex ==
  ASSUME NEW m \in MxfType, m.pos > 0, Known(m), Growing(m), Ordered(m), NEW offset \in Nat,
         NEW f, Listed(OpenBodyPartition(m, offset, f))
  PROVE  LET a == OpenBodyPartition(m, offset, f)
         IN  /\ Listed(m) /\ Grows(m, a, 1, 0) /\ Ready(a)
             /\ HasStream(a) <=> HasStream(m)
<1> DEFINE a == OpenBodyPartition(m, offset, f)
<1>1. m.pos > 0 /\ Known(m) /\ Growing(m)
  OBVIOUS
<1>2. /\ a \in MxfType /\ a.segs = m.segs
      /\ f = "none" =>
           \E pack \in Pack :
             /\ Lists(m, a, pack) /\ a.pos = m.pos + PackLen
             /\ pack.sid = 1 /\ pack.type = "body" /\ pack.offset = offset
      /\ f # "none" => Loses(m, a, 1)
  BY OpenBodyDoes
<1>3. Listed(a)
  OBVIOUS
<1> HIDE DEF a
<1>4. PICK pack \in Pack : Lists(m, a, pack) /\ pack.sid = 1 /\ pack.type = "body"
  BY <1>1, <1>2, <1>3, LosesLayout
<1>5. pack.at = m.pos /\ m.pos \in Nat /\ a.essence = m.essence
  BY <1>4, FileTypes DEF Lists
<1>6. Kinded(pack)
  BY <1>1, <1>4, <1>5 DEF Kinded
<1>7. /\ Keeps(m, a, 0)
      /\ Cardinality(IndexesOf(a)) = Cardinality(IndexesOf(m))
      /\ Cardinality(BodiesOf(a)) = Cardinality(BodiesOf(m)) + 1
      /\ HasStream(a) <=> HasStream(m)
  BY <1>1, <1>2, <1>4, <1>6, ListsKeeps
<1>8. Cardinality(IndexesOf(m)) = Cardinality(IndexesOf(m)) + 0
  BY IndexSets
<1>9. \A c : Numbers(m, c) => Numbers(a, c)
  BY <1>2, <1>5, <1>7, SegsNumbers
<1>10. Listed(m)
  BY <1>1, <1>2, <1>3, <1>4, <1>6, ListsLayout
<1>11. Ready(a)
  BY <1>4 DEF Ready, Lists, Appends
<1>12. Grows(m, a, 1, 0)
  BY <1>7, <1>8, <1>9 DEF Grows
<1>13. QED
  BY <1>7, <1>10, <1>11, <1>12 DEF a

LEMMA StreamIndex ==
  ASSUME NEW m \in MxfType, Shape(m), Ordered(m), NEW sid \in Nat, sid > 1, NEW f,
         framesWritten \in Nat, Listed(PutStream(m, sid, f))
  PROVE  LET a == PutStream(m, sid, f)
         IN  /\ Listed(m) /\ Grows(m, a, 0, 0) /\ Ready(a) /\ HasStream(a)
             /\ a.segs = m.segs
<1> DEFINE a == PutStream(m, sid, f)
<1>1. m.pos > 0 /\ Known(m) /\ Growing(m) /\ m.rip # <<>>
  BY DEF Shape, Begun
<1>2. /\ a \in MxfType /\ a.segs = m.segs
      /\ f \notin PackFaults("stream") =>
           \E pack \in Pack :
             /\ Lists(m, a, pack)
             /\ pack.sid = sid /\ pack.type = "stream"
             /\ pack.prev = m.rip[Len(m.rip)].at
      /\ f \in PackFaults("stream") => Loses(m, a, sid)
  BY <1>1, PutStreamDoes
<1>3. Listed(a)
  OBVIOUS
<1> HIDE DEF a
<1>4. PICK pack \in Pack : Lists(m, a, pack) /\ pack.sid = sid /\ pack.type = "stream"
  BY <1>1, <1>2, <1>3, LosesLayout
<1>5. pack.at = m.pos /\ m.pos \in Nat /\ a.essence = m.essence
  BY <1>4, FileTypes DEF Lists
<1>6. Kinded(pack) /\ pack.sid # 1
  BY <1>1, <1>4, <1>5 DEF Kinded
<1>7. /\ Keeps(m, a, 0)
      /\ Cardinality(IndexesOf(a)) = Cardinality(IndexesOf(m))
      /\ Cardinality(BodiesOf(a)) = Cardinality(BodiesOf(m)) + (IF pack.sid = 1 THEN 1 ELSE 0)
      /\ HasStream(a) <=> HasStream(m) \/ pack.type = "stream"
  BY <1>1, <1>2, <1>4, <1>6, ListsKeeps
<1>8. Cardinality(IndexesOf(m)) = Cardinality(IndexesOf(m)) + 0
  BY IndexSets
<1>9. \A c : Numbers(m, c) => Numbers(a, c)
  BY <1>2, <1>5, <1>7, SegsNumbers
<1>10. Listed(m)
  BY <1>1, <1>2, <1>3, <1>4, <1>6, ListsLayout
<1>11. Ready(a)
  BY <1>4 DEF Ready, Lists, Appends
<1>12. Grows(m, a, 0, 0)
  BY <1>6, <1>7, <1>8, <1>9 DEF Grows
<1>13. QED
  BY <1>2, <1>4, <1>7, <1>10, <1>11, <1>12 DEF a

-----------------------------------------------------------------------------
(* The index of a file to which a frame is added *)

LEMMA MovesIndex ==
  ASSUME NEW m, NEW a, Moves(m, a)
  PROVE  /\ BodiesOf(a) = BodiesOf(m) /\ IndexesOf(a) = IndexesOf(m) /\ Places(a) = Places(m)
         /\ HasStream(a) <=> HasStream(m)
         /\ Ready(a) <=> Ready(m)
         /\ \A i : i # 0 => SegsAt(a, i) = SegsAt(m, i)
         /\ \A i : RankOf(a, i) = RankOf(m, i)
<1>1. BodiesOf(a) = BodiesOf(m)
  BY DEF Moves, BodiesOf
<1>2. IndexesOf(a) = IndexesOf(m)
  BY DEF Moves, IndexesOf
<1>3. \A i : i # 0 => SegsAt(a, i) = SegsAt(m, i)
  BY DEF Moves, SegsAt, PackAt
<1>4. \A i : RankOf(a, i) = RankOf(m, i)
  BY <1>2 DEF RankOf
<1>5. QED
  BY <1>1, <1>2, <1>3, <1>4 DEF Moves, Places, HasStream, Ready

\* Nothing but the file position has changed
LEMMA MovesNumbers ==
  ASSUME NEW m, NEW a, Moves(m, a), a.essence = m.essence, a.segs = m.segs
  PROVE  \A c : Numbers(m, c) => Numbers(a, c)
<1>1. /\ BodiesOf(a) = BodiesOf(m) /\ Places(a) = Places(m)
      /\ \A i : i # 0 => SegsAt(a, i) = SegsAt(m, i)
      /\ \A i : RankOf(a, i) = RankOf(m, i)
  BY MovesIndex
<1>2. \A i : SegsAt(a, i) = SegsAt(m, i)
  BY <1>1 DEF SegsAt
<1>3. \A k : DisplacedIn(a, k) <=> DisplacedIn(m, k)
  BY DEF Moves, DisplacedIn
<1>4. \A k, b, entry : LeadsTo(a, k, b, entry) <=> LeadsTo(m, k, b, entry)
  BY DEF Moves, LeadsTo
<1>5. \A i, k, entry : Found(a, i, k, entry) <=> Found(m, i, k, entry)
  BY <1>1, <1>4 DEF Found
<1>6. \A c : Leading(m, c) => Leading(a, c)
  BY <1>1, <1>2, <1>3, <1>5 DEF Leading
<1>7. (Unique(m) => Unique(a)) /\ (Covers(m) => Covers(a))
  BY <1>1, <1>2 DEF Unique, Covers
<1>8. Numbered(m) => Numbered(a)
  BY DEF Numbered
<1>9. QED
  BY <1>6, <1>7, <1>8 DEF Numbers

\* A frame is stored and indexed. It counts among the frames that are found if it is,
\* and if the frames before it are.
LEMMA StoredNumbers ==
  ASSUME NEW m \in MxfType, NEW a \in MxfType, Moves(m, a),
         NEW at \in Nat, a.essence = Append(m.essence, at),
         NEW w, w.segs = m.segs, "segs" \in DOMAIN w,
         NEW offset \in Nat, a = PushIndexEntry(w, offset),
         NEW c \in Nat, c <= Len(m.essence), Numbers(m, c), NEW d \in Nat,
         \/ d <= c
         \/ /\ c = Len(m.essence) /\ d = c + 1
            /\ DisplacedIn(a, d) \/ Found(a, 0, d, offset)
  PROVE  Numbers(a, d)
<1> DEFINE len == Len(m.essence)
           Old(i, j, e) ==
             /\ i \in Places(m) /\ j \in DOMAIN SegsAt(m, i)
             /\ e \in DOMAIN SegsAt(m, i)[j].entries
             /\ i \in Places(a) /\ j \in DOMAIN SegsAt(a, i)
             /\ e \in DOMAIN SegsAt(a, i)[j].entries
             /\ SegsAt(a, i)[j].start = SegsAt(m, i)[j].start
             /\ SegsAt(a, i)[j].entries[e] = SegsAt(m, i)[j].entries[e]
<1>1. /\ len \in Nat /\ DOMAIN m.essence = 1 .. len /\ DOMAIN a.essence = 1 .. len + 1
      /\ Len(a.essence) = len + 1
      /\ \A k \in 1 .. len : a.essence[k] = m.essence[k]
      /\ m.segs \in Seq(SegmentsOf(Nat))
  BY FileTypes DEF Segment, SegmentsOf
<1>2. /\ BodiesOf(a) = BodiesOf(m) /\ Places(a) = Places(m) /\ 0 \in Places(m)
      /\ \A i : i # 0 => SegsAt(a, i) = SegsAt(m, i)
      /\ \A i : RankOf(a, i) = RankOf(m, i)
      /\ SegsAt(m, 0) = m.segs /\ SegsAt(a, 0) = a.segs
  BY MovesIndex DEF Places, SegsAt
<1>3. EndsAt(m.segs, len)
  BY DEF EndsAt, Numbers, Numbered
<1> HIDE DEF len
<1>4. Numbering(w, Nat, len)
  BY <1>1, <1>3 DEF Numbering
<1>5. OneMore(w, a, len, offset) /\ NoneLost(w, a, len, offset)
  BY <1>1, <1>4, PushIndexEntryNumbers, PushIndexEntryKeeps
<1>6. PICK J \in DOMAIN a.segs : \E E \in DOMAIN a.segs[J].entries :
        /\ a.segs[J].start + E = len + 1 /\ a.segs[J].entries[E] = offset
        /\ \A j \in DOMAIN a.segs : \A e \in DOMAIN a.segs[j].entries :
             Kept(w, a, j, e) \/ (j = J /\ e = E)
  BY <1>5 DEF NoneLost
<1>7. PICK E \in DOMAIN a.segs[J].entries :
        /\ a.segs[J].start + E = len + 1 /\ a.segs[J].entries[E] = offset
        /\ \A j \in DOMAIN a.segs : \A e \in DOMAIN a.segs[j].entries :
             Kept(w, a, j, e) \/ (j = J /\ e = E)
  BY <1>6
<1>8. ASSUME NEW i \in Places(m), NEW j \in DOMAIN SegsAt(m, i),
             NEW e \in DOMAIN SegsAt(m, i)[j].entries
      PROVE  Old(i, j, e)
  <2>1. CASE i = 0
    <3>1. j \in DOMAIN w.segs /\ e \in DOMAIN w.segs[j].entries
      BY <1>2, <2>1
    <3>2. j \in DOMAIN a.segs /\ e \in DOMAIN a.segs[j].entries /\ Kept(w, a, j, e)
      BY <1>5, <3>1 DEF NoneLost
    <3>3. QED
      BY <1>2, <2>1, <3>2 DEF Kept
  <2>2. CASE i # 0
    BY <1>2, <2>2
  <2>3. QED
    BY <2>1, <2>2
<1>9. ASSUME NEW i \in Places(a), NEW j \in DOMAIN SegsAt(a, i),
             NEW e \in DOMAIN SegsAt(a, i)[j].entries
      PROVE  Old(i, j, e) \/ (i = 0 /\ j = J /\ e = E)
  <2>1. CASE i = 0
    <3>1. Kept(w, a, j, e) \/ (j = J /\ e = E)
      BY <1>2, <1>7, <2>1
    <3>2. QED
      BY <1>2, <2>1, <3>1 DEF Kept
  <2>2. CASE i # 0
    BY <1>2, <2>2
  <2>3. QED
    BY <2>1, <2>2
<1>10. ASSUME NEW i \in Places(m), NEW j \in DOMAIN SegsAt(m, i),
              NEW e \in DOMAIN SegsAt(m, i)[j].entries
       PROVE  LET k == SegsAt(m, i)[j].start + e
              IN  /\ k \in DOMAIN m.essence
                  /\ k <= c => DisplacedIn(m, k) \/ Found(m, i, k, SegsAt(m, i)[j].entries[e])
  BY DEF Numbers, Leading
<1>11. \A k \in DOMAIN m.essence : k \in DOMAIN a.essence /\ k # len + 1 /\ k \in Nat /\ k <= len
  BY <1>1
<1>12. \A k \in DOMAIN m.essence : DisplacedIn(m, k) => DisplacedIn(a, k)
  BY <1>1 DEF DisplacedIn, Moves
<1>13. \A k \in DOMAIN m.essence : \A i, entry : Found(m, i, k, entry) => Found(a, i, k, entry)
  BY <1>1, <1>2 DEF Found, LeadsTo, Moves
<1>14. Leading(a, d)
  <2> SUFFICES ASSUME NEW i \in Places(a), NEW j \in DOMAIN SegsAt(a, i),
                      NEW e \in DOMAIN SegsAt(a, i)[j].entries
               PROVE  LET k == SegsAt(a, i)[j].start + e
                      IN  /\ k \in DOMAIN a.essence
                          /\ k <= d => DisplacedIn(a, k)
                                         \/ Found(a, i, k, SegsAt(a, i)[j].entries[e])
    BY DEF Leading
  <2> DEFINE k == SegsAt(a, i)[j].start + e
             entry == SegsAt(a, i)[j].entries[e]
  <2>1. CASE Old(i, j, e)
    <3>1. /\ k \in DOMAIN m.essence
          /\ k <= c => DisplacedIn(m, k) \/ Found(m, i, k, entry)
      BY <1>10, <2>1
    <3> HIDE DEF k, entry
    <3>2. k <= d => k <= c
      BY <1>1, <1>11, <3>1 DEF len
    <3>3. QED
      BY <1>11, <1>12, <1>13, <3>1, <3>2 DEF k, entry
  <2>2. CASE i = 0 /\ j = J /\ e = E
    <3>1. k = len + 1 /\ entry = offset
      BY <1>2, <1>7, <2>2
    <3> HIDE DEF k, entry
    <3>2. k \in DOMAIN a.essence
      BY <1>1, <3>1
    <3>3. k <= d => k = d /\ (DisplacedIn(a, d) \/ Found(a, 0, d, offset))
      BY <1>1, <3>1 DEF len
    <3>4. QED
      BY <2>2, <3>1, <3>2, <3>3 DEF k, entry
  <2>3. QED
    BY <1>9, <2>1, <2>2
<1>15. Unique(a)
  <2> SUFFICES ASSUME NEW i1 \in Places(a), NEW i2 \in Places(a),
                      NEW j1 \in DOMAIN SegsAt(a, i1), NEW j2 \in DOMAIN SegsAt(a, i2),
                      NEW e1 \in DOMAIN SegsAt(a, i1)[j1].entries,
                      NEW e2 \in DOMAIN SegsAt(a, i2)[j2].entries,
                      SegsAt(a, i1)[j1].start + e1 = SegsAt(a, i2)[j2].start + e2
               PROVE  i1 = i2 /\ j1 = j2
    BY DEF Unique
  <2>1. ASSUME NEW i \in Places(a), NEW j \in DOMAIN SegsAt(a, i),
               NEW e \in DOMAIN SegsAt(a, i)[j].entries
        PROVE  /\ Old(i, j, e) => SegsAt(a, i)[j].start + e # len + 1
               /\ (i = 0 /\ j = J /\ e = E) => SegsAt(a, i)[j].start + e = len + 1
    <3>1. ASSUME Old(i, j, e) PROVE SegsAt(a, i)[j].start + e # len + 1
      BY <1>10, <1>11, <3>1
    <3>2. ASSUME i = 0, j = J, e = E PROVE SegsAt(a, i)[j].start + e = len + 1
      BY <1>2, <1>7, <3>2
    <3>3. QED
      BY <3>1, <3>2
  <2>2. CASE Old(i1, j1, e1) /\ Old(i2, j2, e2)
    <3>1. Unique(m)
      BY DEF Numbers
    <3>2. QED
      BY <2>2, <3>1 DEF Unique
  <2>3. CASE ~(Old(i1, j1, e1) /\ Old(i2, j2, e2))
    <3>1. (i1 = 0 /\ j1 = J /\ e1 = E) /\ (i2 = 0 /\ j2 = J /\ e2 = E)
      <4> HIDE DEF Old
      <4>1. /\ Old(i1, j1, e1) \/ (i1 = 0 /\ j1 = J /\ e1 = E)
            /\ Old(i2, j2, e2) \/ (i2 = 0 /\ j2 = J /\ e2 = E)
        BY <1>9
      <4>2. QED
        BY <2>1, <2>3, <4>1
    <3>2. QED
      BY <3>1
  <2>4. QED
    BY <2>2, <2>3
<1>16. Covers(a)
  <2> SUFFICES ASSUME NEW k \in DOMAIN a.essence
               PROVE  \E i \in Places(a) : \E j \in DOMAIN SegsAt(a, i) :
                        \E e \in DOMAIN SegsAt(a, i)[j].entries : k = SegsAt(a, i)[j].start + e
    BY DEF Covers
  <2>1. k = len + 1 \/ k \in DOMAIN m.essence
    BY <1>1
  <2>2. CASE k = len + 1
    BY <1>2, <1>7, <2>2
  <2>3. CASE k \in DOMAIN m.essence
    <3>1. PICK i \in Places(m) : \E j \in DOMAIN SegsAt(m, i) :
                 \E e \in DOMAIN SegsAt(m, i)[j].entries : k = SegsAt(m, i)[j].start + e
      BY <2>3 DEF Numbers, Covers
    <3>2. PICK j \in DOMAIN SegsAt(m, i) :
                 \E e \in DOMAIN SegsAt(m, i)[j].entries : k = SegsAt(m, i)[j].start + e
      BY <3>1
    <3>3. PICK e \in DOMAIN SegsAt(m, i)[j].entries : k = SegsAt(m, i)[j].start + e
      BY <3>2
    <3>4. Old(i, j, e)
      BY <1>8
    <3>5. QED
      BY <3>3, <3>4
  <2>4. QED
    BY <2>1, <2>2, <2>3
<1>17. Numbered(a)
  BY <1>1, <1>5 DEF Numbered, EndsAt, OneMore
<1>18. QED
  BY <1>14, <1>15, <1>16, <1>17 DEF Numbers

-----------------------------------------------------------------------------
(* The index through the calls of a writer *)

LEMMA TrustedCall ==
  ASSUME TypeInv, History, NEW op, NEW f \in Faults \cup {"assert"}, NEW r, Call(op, f, r),
         mxf' \in MxfType
  PROVE  /\ Trusted \in Nat /\ Trusted' \in Nat /\ Trusted <= Len(mxf.essence)
         /\ Unharmed' => /\ Unharmed /\ Trusted = Len(mxf.essence)
                         /\ Trusted' = Len(mxf'.essence)
         /\ ~Unharmed' => Trusted' <= Trusted
         /\ Intact' => Intact
<1>1. Len(mxf.essence) \in Nat /\ Len(mxf'.essence) \in Nat
  BY FileTypes DEF TypeInv, TypeOK
<1>2. Unharmed' => Unharmed
  BY UnharmedCall
<1>3. ASSUME faults # <<>>
      PROVE  faults[1].frames \in Nat /\ faults[1].frames <= Len(mxf.essence)
  <2>1. faults \in Seq(Met)
    BY DEF TypeInv, TypeOK, Met
  <2>2. faults[1] \in Met
    BY <1>3, <2>1
  <2>3. QED
    BY <1>3, <2>2 DEF Met, History
<1>4. ~Unharmed => faults # <<>>
  BY DEF Unharmed
<1>5. Trusted \in Nat /\ Trusted <= Len(mxf.essence)
  <2>1. CASE Unharmed
    BY <1>1, <2>1 DEF Trusted
  <2>2. CASE ~Unharmed
    BY <1>3, <1>4, <2>2 DEF Trusted
  <2>3. QED
    BY <2>1, <2>2
<1>6. ASSUME ~Unharmed' PROVE Trusted' \in Nat /\ Trusted' <= Trusted
  <2>1. Trusted' = faults'[1].frames
    BY <1>6 DEF Trusted
  <2>2. CASE faults = <<>>
    <3>1. f # "none"
      BY <1>6, <2>2, FaultsCalled DEF Unharmed
    <3>2. Unharmed /\ faults'[1].frames = Len(mxf.essence)
      BY <2>2, <3>1, FaultsCalled DEF Unharmed
    <3>3. QED
      BY <1>1, <2>1, <3>2 DEF Trusted
  <2>3. CASE faults # <<>>
    <3>1. faults'[1] = faults[1]
      BY <2>3, FaultsCalled
    <3>2. Trusted = Len(mxf.essence) \/ Trusted = faults[1].frames
      BY DEF Trusted
    <3>3. QED
      BY <1>1, <1>3, <2>1, <2>3, <3>1, <3>2
  <2>4. QED
    BY <2>2, <2>3
<1>7. ASSUME Unharmed' PROVE Trusted = Len(mxf.essence) /\ Trusted' = Len(mxf'.essence)
  BY <1>2, <1>7 DEF Trusted
<1>8. QED
  BY <1>1, <1>2, <1>5, <1>6, <1>7 DEF Intact

LEMMA NumbersLess ==
  ASSUME NEW m \in MxfType, NEW c \in Nat, Numbers(m, c), NEW d \in Nat, d <= c
  PROVE  Numbers(m, d)
<1>1. \A k \in DOMAIN m.essence : k <= d => k <= c
  BY FileTypes
<1>2. Leading(m, d)
  BY <1>1 DEF Numbers, Leading
<1>3. QED
  BY <1>2 DEF Numbers

LEMMA IndexingFrom ==
  ASSUME kind' = kind,
         Writing' /\ Intact' /\ Listed(mxf') =>
           Balanced(mxf') /\ Ready(mxf') /\ Numbers(mxf', Trusted')
  PROVE  Indexing'
<1>1. Numbers(mxf', Trusted') => Numbers(mxf, Trusted)'
  BY DEF Numbers, Numbered, Leading, DisplacedIn, Unique, Covers
<1>2. Balanced(mxf') => Balanced(mxf)'
  BY DEF Balanced
<1>3. (Ready(mxf') => Ready(mxf)') /\ (Listed(mxf)' => Listed(mxf'))
  BY DEF Ready, Listed, Resolves
<1>4. QED
  BY <1>1, <1>2, <1>3 DEF Indexing

LEMMA OpenIndexing ==
  ASSUME TypeInv, TypeInv', Core, NEW f \in Faults, Open(f)
  PROVE  Indexing'
<1> DEFINE m == PushRip([Empty EXCEPT !.pos = HeaderLen, !.parts = {NewPack(0, "header", 0)}], 0, 0)
           g == PackFault(f, "firstBody")
           a == OpenBodyPartition(m, 0, g)
<1>1. /\ m \in MxfType /\ m.pos > 0 /\ m.essence = <<>> /\ m.segs = <<>>
      /\ Len(m.rip) = 1 /\ DOMAIN m.rip = {1} /\ m.rip[1] = [sid |-> 0, at |-> 0]
      /\ \A p \in m.parts : p.type = "header"
      /\ Known(m) /\ Growing(m) /\ Ordered(m)
  BY HeaderFile
<1> HIDE DEF m
<1>2. kind' = kind
  BY DEF Open
<1>3. PICK r : Call("OpenWrite", f, r)
  BY DEF Open
<1>4. SUFFICES ASSUME Writing', Intact', Listed(mxf')
               PROVE  Balanced(mxf') /\ Ready(mxf') /\ Numbers(mxf', Trusted')
  BY <1>2, IndexingFrom
<1>5. mxf' = a
  BY <1>4 DEF Open, Writing, m
<1>6. BodiesOf(m) = {} /\ IndexesOf(m) = {}
  BY <1>1 DEF BodiesOf, IndexesOf
<1>7. \A c : Numbers(m, c)
  <2>1. Places(m) = {0} /\ SegsAt(m, 0) = <<>> /\ DOMAIN m.essence = {}
    BY <1>1, <1>6 DEF Places, SegsAt
  <2>2. Numbered(m)
    BY <1>1 DEF Numbered
  <2>3. QED
    BY <2>1, <2>2 DEF Numbers, Leading, Unique, Covers
<1>8. Grows(m, a, 1, 0) /\ Ready(a)
  <2>1. Listed(a)
    BY <1>4, <1>5
  <2>2. QED
    BY <1>1, <2>1, BodyIndex
<1> HIDE DEF a
<1>9. Cardinality(BodiesOf(m)) = 0 /\ Cardinality(IndexesOf(m)) = 0
  BY <1>6, FS_EmptySet
<1>10. QED
  BY <1>5, <1>7, <1>8, <1>9 DEF Grows, Balanced

\* A frame that is written while nothing has done harm: the next body partition leads to
\* it, unless a generic-stream partition has displaced it
LEMMA NewFrame ==
  ASSUME TypeInv, Core, Writing, Unharmed, Balanced(mxf), Ready(mxf),
         NEW a \in MxfType, Moves(mxf, a), a.essence = Append(mxf.essence, mxf.pos)
  PROVE  LET d == Len(mxf.essence) + 1
         IN  DisplacedIn(a, d) \/ Found(a, 0, d, streamOffset)
<1> DEFINE d == Len(mxf.essence) + 1
           n == Len(mxf.rip)
           p == LastPack(mxf)
<1>1. /\ mxf \in MxfType /\ Known(mxf) /\ Ordered(mxf) /\ Listed(mxf) /\ Begun(mxf)
      /\ p.type = "body" => Positioned(mxf, p, streamOffset)
      /\ streamOffset \in Nat /\ kind \in AllKinds
  BY DEF TypeInv, TypeOK, Core, Layout, Steady, Intact
<1>2. /\ n \in Nat /\ DOMAIN mxf.rip = 1 .. n /\ n \in DOMAIN mxf.rip /\ mxf.pos \in Nat
      /\ \A i \in DOMAIN mxf.rip : mxf.rip[i].at \in Nat
      /\ a.parts = mxf.parts
  BY <1>1, FileTypes DEF Begun, Moves
<1>3. /\ p \in mxf.parts /\ p.at = mxf.rip[n].at /\ p.sid = mxf.rip[n].sid /\ p.sid >= 1
      /\ p.at \in Nat /\ p.sid \in Nat /\ p.offset \in Nat /\ p \in Pack
  BY <1>1, <1>2, ClosedEntries, FileTypes DEF LastPack, Ready
<1>4. p.type \in {"body", "stream"}
  BY <1>1, <1>3 DEF Known, Kinded
<1>5. a.essence[d] = mxf.pos
  BY <1>1, <1>2, FileTypes
<1>6. \A q \in mxf.parts : q.at < mxf.pos
  BY <1>1 DEF Known
<1>7. CASE p.type = "stream"
  <2>1. \A b \in mxf.parts : ~(p.at < b.at)
    <3>1. TAKE b \in mxf.parts
    <3>2. PICK i \in DOMAIN mxf.rip : mxf.rip[i].at = b.at
      BY <1>1 DEF Known
    <3>3. i = n \/ i < n
      BY <1>2
    <3>4. mxf.rip[i].at = mxf.rip[n].at \/ mxf.rip[i].at < mxf.rip[n].at
      BY <1>1, <1>2, <3>3 DEF Ordered
    <3>5. QED
      BY <1>2, <1>3, <3>2, <3>4
  <2> HIDE DEF d, p
  <2>2. DisplacedIn(a, d)
    BY <1>2, <1>3, <1>5, <1>6, <1>7, <2>1 DEF DisplacedIn
  <2>3. QED
    BY <2>2 DEF d
<1>8. CASE p.type = "body" /\ kind.dms /\ HasStream(mxf)
  <2>1. ~kind.ancillary
    BY <1>1, <1>8, KindIs
  <2>2. PICK q \in mxf.parts : q.type = "stream"
    BY <1>8 DEF HasStream
  <2>3. DisplacedIn(a, d)
    BY <1>2, <1>5, <1>6, <2>1, <2>2 DEF DisplacedIn
  <2>4. QED
    BY <2>3
<1>9. CASE p.type = "body" /\ ~(kind.dms /\ HasStream(mxf))
  <2>1. Cardinality(BodiesOf(mxf)) = Cardinality(IndexesOf(mxf)) + 1
    BY <1>9 DEF Balanced
  <2>2. BodiesOf(mxf) \in SUBSET (1 .. n)
    BY <1>1, <1>2, IndexSets
  <2>3. n \in BodiesOf(mxf)
    <3>1. p.sid = 1
      BY <1>1, <1>3, <1>9 DEF Known, Kinded
    <3>2. QED
      BY <1>2, <1>3, <3>1 DEF BodiesOf
  <2>4. UpTo(BodiesOf(mxf), n) = Cardinality(IndexesOf(mxf)) + 1
    BY <1>2, <2>1, <2>2, UpToAll
  <2>5. BodiesOf(a) = BodiesOf(mxf) /\ RankOf(a, 0) = RankOf(mxf, 0)
    BY MovesIndex
  <2>6. UpTo(BodiesOf(a), n) = RankOf(a, 0) /\ n \in BodiesOf(a)
    BY <2>3, <2>4, <2>5 DEF RankOf
  <2>7. mxf.pos + p.offset = p.at + PackLen + streamOffset
    BY <1>1, <1>9 DEF Positioned
  <2>8. p \in a.parts /\ p.at = a.rip[n].at
    BY <1>2, <1>3 DEF Moves
  <2> HIDE DEF p, d, n
  <2>9. LeadsTo(a, d, n, streamOffset)
    BY <1>5, <2>7, <2>8 DEF LeadsTo
  <2>10. Found(a, 0, d, streamOffset)
    BY <2>6, <2>9 DEF Found
  <2>11. QED
    BY <2>10 DEF d
<1>10. QED
  BY <1>4, <1>7, <1>8, <1>9

LEMMA WriteFrameIndexing ==
  ASSUME TypeInv, TypeInv', Core, Indexing, NEW len \in FrameLens, NEW f \in Faults,
         NEW lost \in 0 .. len, WriteFrame(len, f, lost)
  PROVE  Indexing'
<1> DEFINE stored == Indexed(WritePackets(mxf, kind, len, f, lost), f)
           offset == streamOffset + StreamAdvance(kind, len, f)
           g1     == PackFault(f, "index")
           g2     == PackFault(f, "body")
           idx    == FlushIndexPartition(stored, g1)
           opened == OpenBodyPartition(idx, offset, g2)
<1>1. /\ Writing /\ kind' = kind
      /\ PartitionFull => HasEntries(stored)
      /\ mxf' = IF PartitionFull THEN opened ELSE stored
  BY DEF WriteFrame, Writing
<1>2. f \in FramePart <=> f \in FrameFaults(kind)
  <2>1. f \in {"none"} \cup FrameFaults(kind) \cup PackFaults("index") \cup PackFaults("body")
    BY DEF WriteFrame
  <2>2. QED
    BY <2>1 DEF FrameFaults, FramePart, PackFaults, Torn
<1>3. PICK r : Call("WriteFrame", f, r)
  BY DEF WriteFrame
<1>4. /\ mxf \in MxfType /\ mxf' \in MxfType /\ kind \in AllKinds /\ streamOffset \in Nat
      /\ Shape(mxf)
  BY <1>1, LayoutIs DEF TypeInv, TypeOK, Core
<1>5. offset \in Nat
  BY <1>4, StreamAdvanceType
<1>6. /\ stored \in MxfType /\ Moves(mxf, stored)
      /\ f \in FramePart => stored.essence = mxf.essence /\ stored.segs = mxf.segs
      /\ f \notin FramePart =>
           /\ stored.essence = Append(mxf.essence, mxf.pos + mxf.queued)
           /\ stored.pos > mxf.pos + mxf.queued /\ stored.queued = 0
           /\ \E w \in MxfType : /\ w.segs = mxf.segs /\ w.essence = stored.essence
                                 /\ stored = PushIndexEntry(w, streamOffset)
  BY <1>2, StoredDoes
<1>7. SUFFICES ASSUME Writing', Intact', Listed(mxf')
               PROVE  Balanced(mxf') /\ Ready(mxf') /\ Numbers(mxf', Trusted')
  BY <1>1, IndexingFrom
<1>8. /\ Trusted \in Nat /\ Trusted' \in Nat /\ Trusted <= Len(mxf.essence)
      /\ Unharmed' => /\ Unharmed /\ Trusted = Len(mxf.essence)
                      /\ Trusted' = Len(mxf'.essence)
      /\ ~Unharmed' => Trusted' <= Trusted
      /\ Intact
  BY <1>3, <1>4, <1>7, TrustedCall DEF Core
<1>9. Ordered(mxf)
  BY <1>1, <1>8, LayoutIs DEF Core
<1> HIDE DEF stored, offset
<1>10. Shape(stored) /\ Ordered(stored) /\ (Listed(mxf) <=> Listed(stored))
  BY <1>4, <1>6, <1>9, ShapeMoved, MovesLayout
<1>11. Unharmed' => f = "none" \/ f \in Harmless
  BY <1>3, UnharmedCall
<1>12. PackLost > 0 \/ (g1 = "none" /\ g2 = "none")
  BY <1>7, <1>11, HarmlessPacks DEF Intact
<1>13. PartitionFull =>
         /\ idx \in MxfType /\ Shape(idx) /\ Ordered(idx)
         /\ opened.essence = stored.essence
  <2>1. ASSUME PartitionFull
        PROVE  /\ idx \in MxfType /\ Shape(idx) /\ opened.essence = stored.essence
               /\ Ordered(stored) /\ (PackLost > 0 \/ (g1 = "none" /\ g2 = "none")) => Ordered(idx)
    BY <1>1, <1>5, <1>6, <1>10, <2>1, NextBody
  <2>2. QED
    BY <1>10, <1>12, <2>1
<1> HIDE DEF g1, g2
<1>14. PartitionFull =>
         /\ Listed(stored) /\ Ready(opened)
         /\ Grows(stored, idx, 0, 1) /\ Grows(idx, opened, 1, 0)
         /\ HasStream(opened) <=> HasStream(stored)
  <2> SUFFICES ASSUME PartitionFull
               PROVE  /\ Listed(stored) /\ Ready(opened)
                      /\ Grows(stored, idx, 0, 1) /\ Grows(idx, opened, 1, 0)
                      /\ HasStream(opened) <=> HasStream(stored)
    OBVIOUS
  <2>1. Listed(opened)
    BY <1>1, <1>7
  <2>2. idx.pos > 0 /\ Known(idx) /\ Growing(idx)
    BY <1>13 DEF Shape, Begun
  <2>3. /\ Listed(idx) /\ Grows(idx, opened, 1, 0) /\ Ready(opened)
        /\ HasStream(opened) <=> HasStream(idx)
    BY <1>5, <1>13, <2>1, <2>2, BodyIndex
  <2>4. /\ Listed(stored)
        /\ Grows(stored, idx, 0, IF HasEntries(stored) THEN 1 ELSE 0)
        /\ HasStream(idx) <=> HasStream(stored)
    BY <1>6, <1>10, <2>3, FlushIndex
  <2>5. QED
    BY <1>1, <2>3, <2>4
<1> HIDE DEF idx, opened
<1>15. Listed(mxf) /\ mxf'.essence = stored.essence
  BY <1>1, <1>7, <1>10, <1>13, <1>14
<1>16. Balanced(mxf) /\ Ready(mxf) /\ Numbers(mxf, Trusted)
  BY <1>1, <1>8, <1>15 DEF Indexing
<1>17. Numbers(stored, Trusted')
  <2>1. CASE f \in FramePart
    <3>1. Trusted' <= Trusted
      BY <1>4, <1>6, <1>8, <1>15, <2>1, FileTypes
    <3>2. Numbers(stored, Trusted)
      BY <1>6, <1>16, <2>1, MovesNumbers
    <3>3. QED
      BY <1>6, <1>8, <3>1, <3>2, NumbersLess
  <2>2. CASE f \notin FramePart
    <3> DEFINE at == mxf.pos + mxf.queued
               d  == Trusted'
               c  == Trusted
    <3>1. at \in Nat /\ stored.essence = Append(mxf.essence, at)
      BY <1>4, <1>6, <2>2, FileTypes
    <3>2. PICK w \in MxfType : w.segs = mxf.segs /\ stored = PushIndexEntry(w, streamOffset)
      BY <1>6, <2>2
    <3>3. "segs" \in DOMAIN w
      BY <3>2 DEF MxfType
    <3>4. \/ d <= c
          \/ /\ c = Len(mxf.essence) /\ d = c + 1
             /\ DisplacedIn(stored, d) \/ Found(stored, 0, d, streamOffset)
      <4>1. CASE Unharmed'
        <5>1. mxf.queued = 0 /\ Unharmed
          BY <1>1, <1>8, <4>1 DEF Core, Steady
        <5>2. stored.essence = Append(mxf.essence, mxf.pos)
          BY <1>4, <3>1, <5>1, FileTypes
        <5>3. DisplacedIn(stored, Len(mxf.essence) + 1)
                \/ Found(stored, 0, Len(mxf.essence) + 1, streamOffset)
          BY <1>1, <1>6, <1>16, <5>1, <5>2, NewFrame
        <5>4. d = Len(mxf.essence) + 1 /\ c = Len(mxf.essence)
          BY <1>4, <1>8, <1>15, <3>1, <4>1, FileTypes
        <5>5. QED
          BY <5>3, <5>4
      <4>2. CASE ~Unharmed'
        BY <1>8, <4>2
      <4>3. QED
        BY <4>1, <4>2
    <3>5. c \in Nat /\ d \in Nat /\ c <= Len(mxf.essence) /\ Numbers(mxf, c)
      BY <1>8, <1>16
    <3> HIDE DEF at, c, d
    <3>6. Numbers(stored, d)
      BY <1>4, <1>6, <3>1, <3>2, <3>3, <3>4, <3>5, StoredNumbers
    <3>7. QED
      BY <3>6 DEF d
  <2>3. QED
    BY <2>1, <2>2
<1>18. /\ BodiesOf(stored) = BodiesOf(mxf) /\ IndexesOf(stored) = IndexesOf(mxf)
       /\ HasStream(stored) <=> HasStream(mxf)
       /\ Ready(stored) <=> Ready(mxf)
  BY <1>6, MovesIndex
<1>19. Balanced(stored)
  BY <1>16, <1>18 DEF Balanced
<1>20. CASE ~PartitionFull
  BY <1>1, <1>16, <1>17, <1>18, <1>19, <1>20
<1>21. CASE PartitionFull
  <2>1. Numbers(opened, Trusted')
    BY <1>14, <1>17, <1>21 DEF Grows
  <2>2. Cardinality(BodiesOf(stored)) \in Nat /\ Cardinality(IndexesOf(stored)) \in Nat
    BY <1>6, IndexSets
  <2>3. /\ Cardinality(BodiesOf(opened)) = (Cardinality(BodiesOf(stored)) + 0) + 1
        /\ Cardinality(IndexesOf(opened)) = (Cardinality(IndexesOf(stored)) + 1) + 0
    BY <1>14, <1>21 DEF Grows
  <2>4. Balanced(opened)
    <3>1. CASE kind.dms /\ HasStream(stored)
      BY <1>14, <1>21, <3>1 DEF Balanced
    <3>2. CASE Cardinality(BodiesOf(stored)) = Cardinality(IndexesOf(stored)) + 1
      BY <2>2, <2>3, <3>2 DEF Balanced
    <3>3. QED
      BY <1>19, <3>1, <3>2 DEF Balanced
  <2>5. QED
    BY <1>1, <1>14, <1>21, <2>1, <2>4
<1>22. QED
  BY <1>20, <1>21

\* A generic-stream partition: the frames already stored are found as before
LEMMA StreamIndexing ==
  ASSUME TypeInv, TypeInv', Core, Indexing, NEW f \in Faults, AddDms(f) \/ WriteAncillaryResource(f)
  PROVE  Indexing'
<1> DEFINE m   == FlushIndexPartition(mxf, PackFault(f, "index"))
           sid == MaxSid(m) + 1
           a   == PutStream(m, sid, f)
           b   == PutStream(mxf, EssenceStreamID, f)
<1>1. Writing /\ kind' = kind
  BY DEF AddDms, WriteAncillaryResource, Writing
<1>2. PICK op, r : Call(op, f, r)
  BY DEF AddDms, WriteAncillaryResource
<1>3. /\ mxf \in MxfType /\ mxf' \in MxfType /\ framesWritten \in Nat /\ kind \in AllKinds
      /\ streams \in Nat /\ Shape(mxf)
  BY <1>1, BoundAssumption, LayoutIs DEF TypeInv, TypeOK, Core
<1>4. SUFFICES ASSUME Writing', Intact', Listed(mxf')
               PROVE  Balanced(mxf') /\ Ready(mxf') /\ Numbers(mxf', Trusted')
  BY <1>1, IndexingFrom
<1>5. /\ Trusted \in Nat /\ Trusted' \in Nat /\ Trusted <= Len(mxf.essence)
      /\ Unharmed' => Trusted = Len(mxf.essence) /\ Trusted' = Len(mxf'.essence)
      /\ ~Unharmed' => Trusted' <= Trusted
      /\ Intact
  BY <1>2, <1>3, <1>4, TrustedCall DEF Core
<1>6. Ordered(mxf)
  BY <1>1, <1>5, LayoutIs DEF Core
<1>7. mxf'.essence = mxf.essence => Trusted' <= Trusted
  BY <1>5
<1>8. CASE AddDms(f)
  <2>1. mxf' = a /\ kind.dms
    BY <1>8 DEF AddDms
  <2>2. PackLost > 0 \/ PackFault(f, "index") = "none"
    BY <1>2, <1>4, UnharmedCall, HarmlessPacks DEF Intact
  <2>3. m \in MxfType /\ Shape(m) /\ m.essence = mxf.essence /\ Ordered(m)
    BY <1>3, <1>6, <2>2, FlushShape
  <2>4. Listed(m) => Listed(mxf) /\ \A c : Numbers(mxf, c) => Numbers(m, c)
    BY <1>3, <1>6, FlushIndex DEF Grows
  <2> HIDE DEF m
  <2>5. sid \in Nat /\ sid > 1 /\ SidsBelow(m, sid)
    <3> DEFINE top == MaxSid(m) + 1
    <3>1. m.rip # <<>> /\ 2 \in DOMAIN m.rip /\ m.rip[2].sid = 1
            /\ \A i \in DOMAIN m.rip : m.rip[i].sid \in Nat
      BY <2>3, FileTypes DEF Shape, Begun
    <3>2. \E x \in Nat : SidsBelow(m, x)
      <4>1. streams + 2 \in Nat /\ streams + 2 > 1 /\ SidsBelow(mxf, streams + 2)
        BY <1>1, <1>3, <2>1, LayoutIs DEF Core, Sids
      <4>2. SidsBelow(m, streams + 2)
        BY <1>3, <4>1, FlushShape DEF m
      <4>3. QED
        BY <4>1, <4>2
    <3>3. MaxSid(m) \in Nat /\ \A i \in DOMAIN m.rip : m.rip[i].sid <= MaxSid(m)
      BY <2>3, <3>1, <3>2, MaxSidIs
    <3>4. QED
      BY <3>1, <3>3 DEF SidsBelow
  <2> HIDE DEF sid
  <2>6. a.essence = m.essence
    BY <1>3, <2>3, <2>5, NewStream
  <2>7. /\ Listed(m) /\ Grows(m, a, 0, 0) /\ Ready(a) /\ HasStream(a)
    BY <1>3, <1>4, <2>1, <2>3, <2>5, StreamIndex
  <2> HIDE DEF a
  <2>8. Numbers(a, Trusted)
    BY <1>1, <1>5, <2>4, <2>7 DEF Grows, Indexing
  <2>9. Numbers(mxf', Trusted')
    BY <1>3, <1>5, <1>7, <2>1, <2>3, <2>6, <2>8, NumbersLess
  <2>10. QED
    BY <2>1, <2>7, <2>9 DEF Balanced
<1>9. CASE WriteAncillaryResource(f)
  <2>1. mxf' = b /\ kind.ancillary
    BY <1>9 DEF WriteAncillaryResource
  <2>2. ~kind.dms
    BY <1>3, <2>1, KindIs
  <2>3. EssenceStreamID \in Nat /\ EssenceStreamID > 1 /\ SidsBelow(mxf, EssenceStreamID)
    BY <1>1, <1>3, <2>1, LayoutIs DEF Core, Sids, EssenceStreamID, FirstEssenceStreamID
  <2>4. b.essence = mxf.essence
    BY <1>3, <2>3, NewStream
  <2>5. /\ Listed(mxf) /\ Grows(mxf, b, 0, 0) /\ Ready(b)
    BY <1>3, <1>4, <1>6, <2>1, <2>3, StreamIndex
  <2> HIDE DEF b
  <2>6. Balanced(mxf) /\ Numbers(mxf, Trusted)
    BY <1>1, <1>5, <2>5 DEF Indexing
  <2>7. Numbers(mxf', Trusted')
    <3>1. Numbers(b, Trusted)
      BY <2>5, <2>6 DEF Grows
    <3>2. QED
      BY <1>3, <1>5, <1>7, <2>1, <2>4, <3>1, NumbersLess
  <2>8. Balanced(b)
    <3>1. Cardinality(BodiesOf(mxf)) \in Nat /\ Cardinality(IndexesOf(mxf)) \in Nat
      BY <1>3, IndexSets
    <3>2. QED
      BY <2>2, <2>5, <2>6, <3>1 DEF Grows, Balanced
  <2>9. QED
    BY <2>1, <2>5, <2>7, <2>8
<1>10. QED
  BY <1>8, <1>9

LEMMA SameIndexing ==
  ASSUME Indexing, UNCHANGED <<kind, state, mxf, faults>>
  PROVE  Indexing'
<1>1. /\ Writing' <=> Writing
      /\ Intact' <=> Intact
      /\ Trusted' = Trusted
  BY DEF Writing, Intact, Unharmed, Trusted
<1>2. QED
  BY <1>1, IndexingFrom DEF Indexing

LEMMA NextIndexing == TypeInv /\ TypeInv' /\ Core /\ Indexing /\ [Next]_vars => Indexing'
<1> SUFFICES ASSUME TypeInv, TypeInv', Core, Indexing, [Next]_vars PROVE Indexing'
  OBVIOUS
<1>1. CASE \E f \in Faults : Open(f)
  BY <1>1, OpenIndexing
<1>2. CASE \E len \in FrameLens, f \in Faults : \E lost \in 0 .. len : WriteFrame(len, f, lost)
  BY <1>2, WriteFrameIndexing
<1>3. CASE WriteEmptyFrame \/ RefusedCall \/ UNCHANGED vars
  <2>1. UNCHANGED <<kind, state, mxf, faults>>
    BY <1>3, NoneIsFault, FaultsCalled DEF WriteEmptyFrame, RefusedCall, vars
  <2>2. QED
    BY <2>1, SameIndexing
<1>4. CASE ~Writing'
  BY <1>4 DEF Indexing
<1>5. CASE \/ \E len \in FrameLens : WriteFrameAfterFinal(len)
           \/ \E f \in Faults : AssertIndexEntries(f)
           \/ AddDmsAfterFinal \/ AbortedWrite
           \/ \E f \in Faults, text \in BOOLEAN : \E n \in 1 .. Len(mxf.rip) + 2 : Finalize(f, text, n)
  <2>1. state' \in {"FINAL", "ABORTED"}
    BY <1>5 DEF WriteFrameAfterFinal, AssertIndexEntries, AddDmsAfterFinal, AbortedWrite, Finalize
  <2>2. QED
    BY <1>4, <2>1 DEF Writing
<1>6. CASE \/ \E f \in Faults : AddDms(f)
           \/ \E f \in Faults : WriteAncillaryResource(f)
  BY <1>6, StreamIndexing
<1>7. QED
  BY <1>1, <1>2, <1>3, <1>5, <1>6 DEF Next

-----------------------------------------------------------------------------
(* What a reader makes of the index of a closed file *)

\* File F is the file m with its packs relinked and its RIP on disk
OnDisk(m, F) ==
  /\ F.disk = m.rip /\ F.essence = m.essence
  /\ \A q \in F.parts : \E p \in m.parts : Alike(p, q)
  /\ \A p \in m.parts : \E q \in F.parts : Alike(p, q)

\* The tables of a reader pair the index partitions and the body partitions by rank
Paired(m, i, b) ==
  i \in IndexesOf(m) /\ b \in BodiesOf(m) /\ UpTo(IndexesOf(m), i) = UpTo(BodiesOf(m), b)

Row(m, F, i, b, j) ==
  [rank |-> <<i, j>>, segment |-> SegsAt(m, i)[j], body |-> Reader!Part(F, b)]

LEMMA TableIs ==
  ASSUME NEW m \in MxfType, NEW F, OnDisk(m, F), Begun(m), Known(m), Ordered(m), Listed(m)
  PROVE  /\ \A i \in DOMAIN m.rip : Alike(PackAt(m, m.rip[i].at), Reader!Part(F, i))
         /\ \A t : t \in Reader!Table(F) <=>
              \E i, b : Paired(m, i, b) /\ \E j \in DOMAIN SegsAt(m, i) : t = Row(m, F, i, b, j)
<1>1. /\ DOMAIN m.rip = 1 .. Len(m.rip) /\ Len(m.rip) \in Nat /\ Len(m.rip) >= 2
      /\ m.rip[1].sid = 0 /\ m.rip[2].sid = 1 /\ F.disk = m.rip
  BY FileTypes DEF Begun, OnDisk
<1>2. ASSUME NEW i \in DOMAIN m.rip PROVE Alike(PackAt(m, m.rip[i].at), Reader!Part(F, i))
  <2>1. PICK p \in m.parts : p.at = m.rip[i].at /\ PackAt(m, m.rip[i].at) = p
    BY ClosedEntries
  <2>2. PICK q \in F.parts : Alike(p, q)
    BY DEF OnDisk
  <2>3. Reader!Part(F, i) \in F.parts /\ Reader!Part(F, i).at = m.rip[i].at
    BY <1>1, <2>1, <2>2 DEF Reader!Part, Reader!PackAt, Alike
  <2>4. PICK o \in m.parts : Alike(o, Reader!Part(F, i))
    BY <2>3 DEF OnDisk
  <2>5. o = p
    BY <2>1, <2>3, <2>4 DEF Known, Alike
  <2>6. QED
    BY <2>1, <2>4, <2>5
<1>3. Reader!FirstBody(F) = 2
  <2> DEFINE First(i) == /\ i \in DOMAIN F.disk /\ F.disk[i].sid # 0
                         /\ \A j \in 1 .. i - 1 : F.disk[j].sid = 0
  <2>1. First(2)
    <3>1. \A j \in 1 .. 2 - 1 : j = 1
      OBVIOUS
    <3>2. QED
      BY <1>1, <3>1
  <2>2. \A i : First(i) => i = 2
    <3>1. ASSUME NEW i, First(i), i # 2 PROVE FALSE
      <4>1. i \in 1 .. Len(m.rip) /\ i # 1
        BY <1>1, <3>1
      <4>2. 2 \in 1 .. i - 1
        BY <1>1, <3>1, <4>1
      <4>3. QED
        BY <1>1, <3>1, <4>2
    <3>2. QED
      BY <3>1
  <2>3. \A i \in DOMAIN F.disk : (/\ F.disk[i].sid # 0
                                  /\ \A j \in 1 .. i - 1 : F.disk[j].sid = 0) <=> i = 2
    BY <2>1, <2>2
  <2>4. 2 \in DOMAIN F.disk
    BY <1>1
  <2> HIDE DEF First
  <2>5. QED
    BY <2>3, <2>4 DEF Reader!FirstBody
<1>4. Reader!Bodies(F) = BodiesOf(m)
  BY <1>1, <1>3 DEF Reader!Bodies, BodiesOf
<1>5. Reader!Indexes(F) = IndexesOf(m)
  <2>1. ASSUME NEW i \in DOMAIN m.rip
        PROVE  Reader!Part(F, i).type = "index"
                 <=> \E p \in m.parts : p.at = m.rip[i].at /\ p.type = "index"
    <3>1. PICK p \in m.parts : p.at = m.rip[i].at /\ PackAt(m, m.rip[i].at) = p
      BY ClosedEntries
    <3>2. Reader!Part(F, i).type = p.type
      BY <1>2, <3>1 DEF Alike
    <3>3. \A o \in m.parts : o.at = m.rip[i].at => o = p
      BY <3>1 DEF Known
    <3>4. QED
      BY <3>1, <3>2, <3>3
  <2>2. QED
    BY <1>1, <2>1 DEF Reader!Indexes, IndexesOf
<1>6. \A S, i : Reader!Count(S, i) = UpTo(S, i)
  BY DEF Reader!Count, UpTo, Cardinality, Reader!Cardinality
<1>7. \A i \in IndexesOf(m) : Reader!Part(F, i).segs = SegsAt(m, i)
  <2>1. \A i \in IndexesOf(m) : i \in DOMAIN m.rip /\ i # 0
    BY IndexSets
  <2>2. QED
    BY <1>2, <2>1 DEF Alike, SegsAt
<1>8. \A t : t \in Reader!Table(F) <=>
         \E i \in IndexesOf(m), b \in BodiesOf(m) :
           /\ UpTo(IndexesOf(m), i) = UpTo(BodiesOf(m), b)
           /\ \E j \in DOMAIN Reader!Part(F, i).segs :
                t = [rank |-> <<i, j>>, segment |-> Reader!Part(F, i).segs[j],
                     body |-> Reader!Part(F, b)]
  <2> DEFINE bodies  == Reader!Bodies(F)
             indexes == Reader!Indexes(F)
             Pairs   == {pair \in indexes \X bodies :
                           Reader!Count(indexes, pair[1]) = Reader!Count(bodies, pair[2])}
             Rows(i, b) == {[rank |-> <<i, j>>, segment |-> Reader!Part(F, i).segs[j],
                             body |-> Reader!Part(F, b)] : j \in DOMAIN Reader!Part(F, i).segs}
  <2>1. Reader!Table(F) = UNION {Rows(pair[1], pair[2]) : pair \in Pairs}
    BY DEF Reader!Table
  <2>2. \A i, b : <<i, b>> \in Pairs <=>
          /\ i \in IndexesOf(m) /\ b \in BodiesOf(m)
          /\ UpTo(IndexesOf(m), i) = UpTo(BodiesOf(m), b)
    BY <1>4, <1>5, <1>6
  <2>3. \A pair \in Pairs : pair = <<pair[1], pair[2]>>
    OBVIOUS
  <2>4. \A t, i, b : t \in Rows(i, b) <=>
          \E j \in DOMAIN Reader!Part(F, i).segs :
            t = [rank |-> <<i, j>>, segment |-> Reader!Part(F, i).segs[j],
                 body |-> Reader!Part(F, b)]
    OBVIOUS
  <2> HIDE DEF Pairs, Rows
  <2>5. \A t : t \in Reader!Table(F) <=> \E i, b : <<i, b>> \in Pairs /\ t \in Rows(i, b)
    <3>1. \A t : t \in Reader!Table(F) <=> \E pair \in Pairs : t \in Rows(pair[1], pair[2])
      BY <2>1
    <3>2. \A i, b : <<i, b>>[1] = i /\ <<i, b>>[2] = b
      OBVIOUS
    <3>3. QED
      BY <2>3, <3>1, <3>2
  <2> DEFINE IsRow(t, i, b) == \E j \in DOMAIN Reader!Part(F, i).segs :
                t = [rank |-> <<i, j>>, segment |-> Reader!Part(F, i).segs[j],
                     body |-> Reader!Part(F, b)]
  <2>6. \A t, i, b : t \in Rows(i, b) <=> IsRow(t, i, b)
    BY <2>4
  <2> HIDE DEF IsRow
  <2>7. \A t : t \in Reader!Table(F) <=>
          \E i \in IndexesOf(m), b \in BodiesOf(m) :
            UpTo(IndexesOf(m), i) = UpTo(BodiesOf(m), b) /\ IsRow(t, i, b)
    BY <2>2, <2>5, <2>6
  <2>8. QED
    BY <2>7 DEF IsRow
<1>9. QED
  BY <1>2, <1>7, <1>8 DEF Paired, Row

\* The file that Finalize closes numbers the frames as the file before did, and all its
\* index is on disk
LEMMA FinalNumbers ==
  ASSUME TypeInv, Core, Indexing, Writing, Intact, NEW text \in BOOLEAN, NEW m, NEW footer,
         Closes(m, text, footer), Listed(m)
  PROVE  Numbers(m, Trusted) /\ ~HasEntries(m) /\ OnDisk(m, mxf')
<1> DEFINE b == FinalBody(text)
           s == PutStream(Flushed, 2, "none")
<1>1. mxf \in MxfType /\ framesWritten \in Nat /\ Shape(mxf) /\ Sids(mxf) /\ Ordered(mxf)
  BY LayoutIs DEF TypeInv, TypeOK, Core
<1>2. /\ b \in MxfType /\ Shape(b) /\ b.essence = mxf.essence /\ Ordered(b)
      /\ m \in MxfType /\ footer \in Pack /\ Lists(b, m, footer) /\ m.segs = b.segs
      /\ footer.type = "footer" /\ footer.at = b.pos
      /\ Known(m) /\ mxf'.disk = m.rip /\ mxf'.essence = mxf.essence
      /\ Relinked(m, mxf', Reached(m), footer.at)
  BY DEF Closes, Lists
<1> HIDE DEF b
<1>3. Known(b) /\ Growing(b) /\ Kinded(footer)
  BY <1>2 DEF Shape, Known, Lists
<1>4. Listed(b)
  BY <1>2, <1>3, ListsLayout
<1>5. Keeps(b, m, 0)
  BY <1>2, <1>3, ListsKeeps
<1>6. m.essence = b.essence
  BY <1>2 DEF Lists
<1>7. \A c : Numbers(b, c) => Numbers(m, c)
  BY <1>2, <1>5, <1>6, SegsNumbers
<1>8. /\ Flushed \in MxfType /\ Shape(Flushed) /\ Ordered(Flushed)
      /\ \A top \in Nat : top > 1 /\ SidsBelow(mxf, top) => SidsBelow(Flushed, top)
  BY <1>1, FlushShape DEF Flushed
<1>9. /\ Listed(Flushed) /\ ~HasEntries(b)
      /\ \A c : Numbers(Flushed, c) => Numbers(b, c)
  <2>1. CASE kind.master /\ text
    <3>1. b = PutStream(Flushed, 2, "none")
      BY <2>1 DEF b, FinalBody
    <3>2. Listed(Flushed) /\ Grows(Flushed, b, 0, 0) /\ b.segs = Flushed.segs
      BY <1>1, <1>4, <1>8, <3>1, StreamIndex
    <3>3. ~HasEntries(Flushed)
      BY <1>1, <3>2, FlushIndex DEF Flushed
    <3>4. QED
      BY <3>2, <3>3 DEF HasEntries, Grows
  <2>2. CASE ~(kind.master /\ text)
    <3>1. b = Flushed
      BY <2>2 DEF b, FinalBody
    <3>2. ~HasEntries(Flushed)
      BY <1>1, <1>4, <3>1, FlushIndex DEF Flushed
    <3>3. QED
      BY <1>4, <3>1, <3>2
  <2>3. QED
    BY <2>1, <2>2
<1>10. /\ Listed(mxf)
       /\ \A c : Numbers(mxf, c) => Numbers(Flushed, c)
  BY <1>1, <1>9, FlushIndex DEF Flushed, Grows
<1>11. Numbers(m, Trusted)
  BY <1>7, <1>9, <1>10 DEF Indexing
<1>12. ~HasEntries(m)
  BY <1>2, <1>9 DEF HasEntries
<1>13. OnDisk(m, mxf')
  BY <1>2, <1>6 DEF OnDisk, Relinked, Relinks
<1>14. QED
  BY <1>11, <1>12, <1>13

\* The index segments of a file are what their type says
LEMMA SegmentTypes ==
  ASSUME NEW m \in MxfType, Known(m), Ordered(m), Listed(m), NEW i \in Places(m),
         NEW j \in DOMAIN SegsAt(m, i)
  PROVE  /\ SegsAt(m, i)[j].start \in Nat /\ SegsAt(m, i)[j].entries \in Seq(Nat)
         /\ Len(SegsAt(m, i)[j].entries) \in Nat
         /\ DOMAIN SegsAt(m, i)[j].entries = 1 .. Len(SegsAt(m, i)[j].entries)
<1>1. SegsAt(m, i) \in Seq(Segment)
  <2>1. CASE i = 0
    BY <2>1, FileTypes DEF SegsAt
  <2>2. CASE i # 0
    <3>1. i \in DOMAIN m.rip
      BY <2>2, IndexSets DEF Places
    <3>2. PICK p \in m.parts : PackAt(m, m.rip[i].at) = p
      BY <3>1, ClosedEntries
    <3>3. QED
      BY <2>2, <3>2, FileTypes DEF SegsAt
  <2>3. QED
    BY <2>1, <2>2
<1> DEFINE seg == SegsAt(m, i)[j]
<1>2. seg \in Segment
  BY <1>1
<1> HIDE DEF seg
<1>3. seg.start \in Nat /\ seg.entries \in Seq(Nat)
  BY <1>2 DEF Segment
<1>4. QED
  BY <1>3 DEF seg

\* A reader finds every frame that the index leads to, unless a generic-stream partition
\* has displaced it
LEMMA ReaderFinds ==
  ASSUME NEW m \in MxfType, NEW F, OnDisk(m, F), Begun(m), Known(m), Ordered(m), Listed(m),
         NEW c \in Nat, Numbers(m, c), ~HasEntries(m), NEW k \in DOMAIN m.essence, k <= c,
         ~DisplacedIn(m, k)
  PROVE  Reader!Lookup(F, k - 1) = m.essence[k]
<1> DEFINE Hits == {t \in Reader!Table(F) :
                      /\ t.segment.start <= k - 1
                      /\ k - 1 < t.segment.start + Len(t.segment.entries)}
<1>1. /\ \A i \in DOMAIN m.rip : Alike(PackAt(m, m.rip[i].at), Reader!Part(F, i))
      /\ \A t : t \in Reader!Table(F) <=>
           \E i, b : Paired(m, i, b) /\ \E j \in DOMAIN SegsAt(m, i) : t = Row(m, F, i, b, j)
  BY TableIs
<1>2. k \in Nat /\ k >= 1 /\ m.essence[k] \in Nat
  BY FileTypes
<1>3. ASSUME NEW i \in Places(m), NEW j \in DOMAIN SegsAt(m, i)
      PROVE  /\ SegsAt(m, i)[j].start \in Nat /\ SegsAt(m, i)[j].entries \in Seq(Nat)
             /\ Len(SegsAt(m, i)[j].entries) \in Nat
             /\ DOMAIN SegsAt(m, i)[j].entries = 1 .. Len(SegsAt(m, i)[j].entries)
  BY SegmentTypes
<1>4. PICK i \in Places(m) : \E j \in DOMAIN SegsAt(m, i) :
             \E e \in DOMAIN SegsAt(m, i)[j].entries : k = SegsAt(m, i)[j].start + e
  BY DEF Numbers, Covers
<1>5. PICK j \in DOMAIN SegsAt(m, i) :
             \E e \in DOMAIN SegsAt(m, i)[j].entries : k = SegsAt(m, i)[j].start + e
  BY <1>4
<1>6. PICK e \in DOMAIN SegsAt(m, i)[j].entries : k = SegsAt(m, i)[j].start + e
  BY <1>5
<1>7. i \in IndexesOf(m) /\ i # 0
  <2>1. i # 0
    BY <1>6 DEF HasEntries, SegsAt
  <2>2. QED
    BY <2>1 DEF Places
<1> DEFINE start   == SegsAt(m, i)[j].start
           entries == SegsAt(m, i)[j].entries
<1>8. Found(m, i, k, entries[e])
  BY <1>6 DEF Numbers, Leading
<1>9. PICK b \in BodiesOf(m) : UpTo(BodiesOf(m), b) = RankOf(m, i) /\ LeadsTo(m, k, b, entries[e])
  BY <1>8 DEF Found
<1>10. Paired(m, i, b) /\ b \in DOMAIN m.rip
  BY <1>7, <1>9 DEF Paired, RankOf, BodiesOf
<1>11. /\ start \in Nat /\ entries \in Seq(Nat) /\ Len(entries) \in Nat
       /\ DOMAIN entries = 1 .. Len(entries) /\ e \in 1 .. Len(entries) /\ k = start + e
  BY <1>3, <1>6
<1> DEFINE t0 == Row(m, F, i, b, j)
<1>12. /\ t0 \in Reader!Table(F)
       /\ t0.rank = <<i, j>> /\ t0.segment = SegsAt(m, i)[j]
       /\ t0.segment.start = start /\ t0.segment.entries = entries
       /\ t0.body = Reader!Part(F, b)
  BY <1>1, <1>6, <1>10 DEF Row
<1> HIDE DEF t0, start, entries
<1>13. t0 \in Hits
  BY <1>2, <1>11, <1>12
<1>14. ASSUME NEW t \in Hits PROVE t = t0
  <2>1. PICK i2, b2 : Paired(m, i2, b2) /\ \E j2 \in DOMAIN SegsAt(m, i2) : t = Row(m, F, i2, b2, j2)
    BY <1>1
  <2>2. PICK j2 \in DOMAIN SegsAt(m, i2) : t = Row(m, F, i2, b2, j2)
    BY <2>1
  <2>3. i2 \in Places(m) /\ i2 \in IndexesOf(m) /\ b2 \in BodiesOf(m)
          /\ UpTo(IndexesOf(m), i2) = UpTo(BodiesOf(m), b2)
    BY <2>1 DEF Paired, Places
  <2> DEFINE start2   == SegsAt(m, i2)[j2].start
             entries2 == SegsAt(m, i2)[j2].entries
             e2       == k - start2
  <2>4. t.segment.start = start2 /\ t.segment.entries = entries2
    BY <2>2 DEF Row
  <2>5. start2 \in Nat /\ Len(entries2) \in Nat /\ DOMAIN entries2 = 1 .. Len(entries2)
    BY <1>3, <2>3
  <2>6. start2 <= k - 1 /\ k - 1 < start2 + Len(entries2)
    BY <2>4
  <2> HIDE DEF start2, entries2
  <2>7. e2 \in DOMAIN entries2 /\ k = start2 + e2
    BY <1>2, <2>5, <2>6
  <2> HIDE DEF e2
  <2>8. i2 = i /\ j2 = j
    <3>1. /\ e2 \in DOMAIN SegsAt(m, i2)[j2].entries
          /\ SegsAt(m, i2)[j2].start + e2 = SegsAt(m, i)[j].start + e
      BY <1>6, <2>7 DEF start2, entries2
    <3>2. QED
      BY <1>6, <2>3, <3>1 DEF Numbers, Unique
  <2>9. UpTo(BodiesOf(m), b2) = UpTo(BodiesOf(m), b)
    BY <1>10, <2>3, <2>8 DEF Paired
  <2>10. b2 = b
    <3>1. BodiesOf(m) \in SUBSET (1 .. Len(m.rip)) /\ Len(m.rip) \in Nat
      BY IndexSets
    <3>2. QED
      BY <2>3, <2>9, <3>1, UpToInjective
  <2>11. QED
    BY <2>2, <2>8, <2>10 DEF t0
<1> HIDE DEF Hits
<1>15. Hits = {t0}
  BY <1>13, <1>14
<1>16. Reader!Lookup(F, k - 1) =
         t0.segment.entries[k - 1 - t0.segment.start + 1] - t0.body.offset + t0.body.at + PackLen
  <2> DEFINE Before(s, t) == IF s.rank[1] = t.rank[1] THEN s.rank[2] <= t.rank[2]
                             ELSE s.rank[1] < t.rank[1]
             first == CHOOSE t \in Hits : \A s \in Hits : Before(t, s)
  <2>1. Before(t0, t0)
    <3>1. j \in Nat
      <4>1. SegsAt(m, i) \in Seq(Segment)
        <5>1. PICK p \in m.parts : PackAt(m, m.rip[i].at) = p
          BY <1>7, IndexSets, ClosedEntries
        <5>2. QED
          BY <1>7, <5>1, FileTypes DEF SegsAt
      <4>2. QED
        BY <1>6, <4>1
    <3>2. QED
      BY <1>12, <3>1
  <2> HIDE DEF Before
  <2>2. first = t0
    BY <1>15, <2>1
  <2>3. Hits # {}
    BY <1>15
  <2>4. Reader!Lookup(F, k - 1) =
          IF Hits = {} THEN 0
          ELSE first.segment.entries[k - 1 - first.segment.start + 1]
                 - first.body.offset + first.body.at + PackLen
    BY DEF Reader!Lookup, Reader!LookupIn, Hits, Before
  <2> HIDE DEF first
  <2>5. QED
    BY <2>2, <2>3, <2>4
<1>17. k - 1 - start + 1 = e
  BY <1>2, <1>11
<1>18. PICK p \in m.parts : p.at = m.rip[b].at /\ m.essence[k] + p.offset = p.at + PackLen + entries[e]
  BY <1>9 DEF LeadsTo, entries
<1>19. t0.body.at = p.at /\ t0.body.offset = p.offset
  <2>1. PackAt(m, m.rip[b].at) = p
    BY <1>18, PackAtIs
  <2>2. QED
    BY <1>1, <1>10, <1>12, <2>1 DEF Alike
<1>20. entries[e] - p.offset + p.at + PackLen = m.essence[k]
  <2>1. entries[e] \in Nat /\ p.offset \in Nat /\ p.at \in Nat /\ PackLen \in Nat
    BY <1>11, FileTypes, LengthAssumption
  <2>2. QED
    BY <1>2, <1>18, <2>1
<1>21. QED
  BY <1>12, <1>16, <1>17, <1>19, <1>20

LEMMA TrustedFrames ==
  ASSUME TypeInv, History
  PROVE  SoundFrames \in Nat /\ Trusted \in Nat /\ SoundFrames <= Trusted
           /\ Trusted <= Len(mxf.essence)
<1>1. Len(mxf.essence) \in Nat
  BY FileTypes DEF TypeInv, TypeOK
<1>2. ASSUME ~Clean
      PROVE  faults[1].frames <= Len(mxf.essence) /\ faults[1].frames \in Nat
  <2>1. faults \in Seq(Met) /\ faults # <<>>
    BY <1>2 DEF TypeInv, TypeOK, Met, Clean
  <2>2. faults[1] \in Met
    BY <2>1
  <2>3. QED
    BY <2>1, <2>2 DEF Met, History
<1>3. CASE Clean
  BY <1>1, <1>3, CleanUnharmed DEF SoundFrames, Trusted
<1>4. CASE ~Clean
  <2>1. SoundFrames = faults[1].frames
    BY <1>4 DEF SoundFrames
  <2>2. Trusted = Len(mxf.essence) \/ Trusted = faults[1].frames
    BY DEF Trusted
  <2>3. QED
    BY <1>1, <1>2, <1>4, <2>1, <2>2
<1>5. QED
  BY <1>3, <1>4

LEMMA DisplacedOnDisk ==
  ASSUME NEW m, NEW F, OnDisk(m, F), NEW k, DisplacedIn(m, k)
  PROVE  \E p \in F.parts :
           /\ p.type = "stream" /\ p.at < F.essence[k]
           /\ kind.ancillary =>
                ~ \E b \in F.parts : b.type = "body" /\ p.at < b.at /\ b.at < F.essence[k]
<1>1. PICK p \in m.parts :
        /\ p.type = "stream" /\ p.at < m.essence[k]
        /\ kind.ancillary =>
             ~ \E b \in m.parts : b.type = "body" /\ p.at < b.at /\ b.at < m.essence[k]
  BY DEF DisplacedIn
<1>2. PICK q \in F.parts : Alike(p, q)
  BY DEF OnDisk
<1>3. q.type = "stream" /\ q.at < F.essence[k]
  BY <1>1, <1>2 DEF OnDisk, Alike
<1>4. ASSUME kind.ancillary, NEW b \in F.parts, b.type = "body", q.at < b.at, b.at < F.essence[k]
      PROVE  FALSE
  <2>1. PICK o \in m.parts : Alike(o, b)
    BY DEF OnDisk
  <2>2. o.type = "body" /\ p.at < o.at /\ o.at < m.essence[k]
    BY <1>2, <1>4, <2>1 DEF OnDisk, Alike
  <2>3. QED
    BY <1>1, <1>4, <2>2
<1>5. QED
  BY <1>3, <1>4

LEMMA InitIndexing == Init => Indexing
  BY DEF Init, Indexing, Writing

\* Whatever failed before, after a Finalize that meets no fault and reports success a
\* reader gets every frame accepted before the first fault from the place it was written
\* to, under its own number, unless a generic-stream partition has displaced it. A pack
\* write that fails must leave some byte behind (PackLost > 0), or the next pack takes
\* the place of the lost one and nothing is missed.
THEOREM EarlierFramesSurviveHolds == Spec => []EarlierFramesSurvive
<1> DEFINE Inv == TypeInv /\ Core /\ Indexing /\ EarlierFramesSurvive
<1>1. Init => Inv
  <2>1. Init => EarlierFramesSurvive
    BY DEF Init, EarlierFramesSurvive, Finalized
  <2>2. QED
    BY <2>1, InitType, InitCore, InitIndexing DEF Init
<1>2. Inv /\ [Next]_vars => Inv'
  <2> SUFFICES ASSUME TypeInv, Core, Indexing, EarlierFramesSurvive, [Next]_vars
               PROVE  TypeInv' /\ Core' /\ Indexing' /\ EarlierFramesSurvive'
    OBVIOUS
  <2>1. TypeInv' /\ Core'
    BY NextType, NextCore
  <2>2. Indexing'
    BY <2>1, NextIndexing
  <2>3. SUFFICES ASSUME Finalized', last'.fault = "none", PackLost > 0
                 PROVE  (\A k \in 1 .. SoundFrames :
                           Displaced(k) \/ Reader!Lookup(mxf, k - 1) = mxf.essence[k])'
    BY <2>1, <2>2 DEF EarlierFramesSurvive
  <2>4. CASE UNCHANGED vars
    BY <2>3, <2>4 DEF vars, EarlierFramesSurvive, Finalized, SoundFrames, Clean, Displaced, Streams
  <2>5. CASE /\ faults' = faults /\ kind' = kind /\ state = "RUNNING"
             /\ \E text \in BOOLEAN : \E m, footer : Closes(m, text, footer) /\ Listed(m)
    <3>1. PICK text \in BOOLEAN : \E m, footer : Closes(m, text, footer) /\ Listed(m)
      BY <2>5
    <3>2. PICK m, footer : Closes(m, text, footer) /\ Listed(m)
      BY <3>1
    <3>3. Writing /\ Intact
      BY <2>3, <2>5 DEF Writing, Intact
    <3>4. Numbers(m, Trusted) /\ ~HasEntries(m) /\ OnDisk(m, mxf')
      BY <3>2, <3>3, FinalNumbers
    <3>5. /\ m \in MxfType /\ Begun(m) /\ Known(m) /\ Ordered(m)
          /\ mxf'.essence = mxf.essence /\ m.essence = mxf.essence
      BY <3>2, <3>3, <3>4 DEF Closes, OnDisk
    <3>6. SoundFrames \in Nat /\ Trusted \in Nat /\ SoundFrames <= Trusted
            /\ Trusted <= Len(mxf.essence)
      BY TrustedFrames DEF Core
    <3>7. SoundFrames' = SoundFrames
      BY <2>5, <3>5 DEF SoundFrames, Clean
    <3>8. ASSUME NEW k \in 1 .. SoundFrames
          PROVE  Displaced(k)' \/ Reader!Lookup(mxf', k - 1) = mxf'.essence[k]
      <4>1. k \in DOMAIN m.essence /\ k <= Trusted
        <5>1. DOMAIN m.essence = 1 .. Len(m.essence) /\ Len(m.essence) \in Nat
          BY <3>5, FileTypes
        <5>2. QED
          BY <3>5, <3>6, <5>1
      <4>2. CASE DisplacedIn(m, k)
        BY <2>5, <3>4, <4>2, DisplacedOnDisk DEF Displaced, Streams
      <4>3. CASE ~DisplacedIn(m, k)
        <5>1. Reader!Lookup(mxf', k - 1) = m.essence[k]
          BY <3>2, <3>4, <3>5, <3>6, <4>1, <4>3, ReaderFinds
        <5>2. QED
          BY <3>5, <5>1
      <4>4. QED
        BY <4>2, <4>3
    <3>9. QED
      BY <3>7, <3>8
  <2>6. QED
    BY <2>3, <2>4, <2>5, FinalStep
<1>3. Inv => EarlierFramesSurvive
  OBVIOUS
<1>4. QED
  BY <1>1, <1>2, <1>3, PTL DEF Spec

-----------------------------------------------------------------------------
(* What a reader makes of a whole file *)

\* The duration of the index is the number of the frames
LEMMA ReaderCounts ==
  ASSUME NEW m \in MxfType, NEW F, OnDisk(m, F), Begun(m), Known(m), Ordered(m), Listed(m),
         Numbers(m, Len(m.essence)), ~HasEntries(m),
         \A k \in DOMAIN m.essence : ~DisplacedIn(m, k)
  PROVE  Reader!Duration(Reader!Table(F)) = Len(m.essence)
<1> DEFINE n == Len(m.essence)
           Entries == UNION {{<<t.rank, j>> : j \in DOMAIN t.segment.entries} : t \in Reader!Table(F)}
           Segs(x) == SegsAt(m, x[1][1])[x[1][2]]
           Entry(i, j, e) == /\ i \in IndexesOf(m) /\ j \in DOMAIN SegsAt(m, i)
                             /\ e \in DOMAIN SegsAt(m, i)[j].entries
                             /\ \E b : Paired(m, i, b)
           g == [x \in Entries |-> Segs(x).start + x[2]]
<1>1. \A t : t \in Reader!Table(F) <=>
        \E i, b : Paired(m, i, b) /\ \E j \in DOMAIN SegsAt(m, i) : t = Row(m, F, i, b, j)
  BY TableIs
<1>2. n \in Nat /\ DOMAIN m.essence = 1 .. n
  BY FileTypes
<1>3. \A i, b, j : Row(m, F, i, b, j).rank = <<i, j>>
                     /\ Row(m, F, i, b, j).segment = SegsAt(m, i)[j]
  BY DEF Row
<1>4. \A x : x \in Entries <=> \E i, j, e : Entry(i, j, e) /\ x = <<<<i, j>>, e>>
  <2>1. ASSUME NEW x \in Entries PROVE \E i, j, e : Entry(i, j, e) /\ x = <<<<i, j>>, e>>
    <3>1. PICK t \in Reader!Table(F) : \E e \in DOMAIN t.segment.entries : x = <<t.rank, e>>
      OBVIOUS
    <3>2. PICK i, b : Paired(m, i, b) /\ \E j \in DOMAIN SegsAt(m, i) : t = Row(m, F, i, b, j)
      BY <1>1
    <3>3. PICK j \in DOMAIN SegsAt(m, i) : t = Row(m, F, i, b, j)
      BY <3>2
    <3>4. PICK e \in DOMAIN t.segment.entries : x = <<t.rank, e>>
      BY <3>1
    <3>5. t.rank = <<i, j>> /\ e \in DOMAIN SegsAt(m, i)[j].entries
      BY <1>3, <3>3, <3>4
    <3>6. Entry(i, j, e)
      BY <3>2, <3>3, <3>5 DEF Paired
    <3>7. QED
      BY <3>4, <3>5, <3>6
  <2>2. ASSUME NEW i, NEW j, NEW e, Entry(i, j, e) PROVE <<<<i, j>>, e>> \in Entries
    <3>1. PICK b : Paired(m, i, b)
      BY <2>2
    <3> DEFINE t == Row(m, F, i, b, j)
    <3>2. t \in Reader!Table(F)
      BY <1>1, <2>2, <3>1
    <3>3. t.rank = <<i, j>> /\ t.segment = SegsAt(m, i)[j]
      BY <1>3
    <3> HIDE DEF t
    <3>4. e \in DOMAIN t.segment.entries
      BY <2>2, <3>3
    <3>5. <<t.rank, e>> \in {<<t.rank, j1>> : j1 \in DOMAIN t.segment.entries}
      BY <3>4
    <3>6. <<t.rank, e>> \in Entries
      BY <3>2, <3>5
    <3>7. QED
      BY <3>3, <3>6
  <2> HIDE DEF Entries, Entry
  <2>3. QED
    BY <2>1, <2>2
<1> HIDE DEF Entries
<1>5. \A i, j, e : Entry(i, j, e) =>
        /\ <<<<i, j>>, e>> \in Entries
        /\ g[<<<<i, j>>, e>>] = SegsAt(m, i)[j].start + e
  <2> SUFFICES ASSUME NEW i, NEW j, NEW e, Entry(i, j, e)
               PROVE  /\ <<<<i, j>>, e>> \in Entries
                      /\ g[<<<<i, j>>, e>>] = SegsAt(m, i)[j].start + e
    OBVIOUS
  <2> DEFINE x == <<<<i, j>>, e>>
  <2>1. x \in Entries
    BY <1>4
  <2>2. x[1][1] = i /\ x[1][2] = j /\ x[2] = e
    OBVIOUS
  <2>3. g[x] = Segs(x).start + x[2]
    BY <2>1
  <2> HIDE DEF x
  <2>4. g[x] = SegsAt(m, i)[j].start + e
    BY <2>2, <2>3
  <2>5. QED
    BY <2>1, <2>4 DEF x
<1>6. \A i, j, e : Entry(i, j, e) =>
        i \in Places(m) /\ SegsAt(m, i)[j].start + e \in 1 .. n
  BY <1>2 DEF Numbers, Leading, Places
<1>7. g \in [Entries -> 1 .. n]
  <2>1. ASSUME NEW x \in Entries PROVE g[x] \in 1 .. n
    <3>1. PICK i, j, e : Entry(i, j, e) /\ x = <<<<i, j>>, e>>
      BY <1>4
    <3>2. g[x] = SegsAt(m, i)[j].start + e
      BY <1>5, <3>1
    <3>3. QED
      BY <1>6, <3>1, <3>2
  <2>2. QED
    BY <2>1
<1>8. ASSUME NEW x \in Entries, NEW y \in Entries, g[x] = g[y] PROVE x = y
  <2>1. PICK i1, j1, e1 : Entry(i1, j1, e1) /\ x = <<<<i1, j1>>, e1>>
    BY <1>4
  <2>2. PICK i2, j2, e2 : Entry(i2, j2, e2) /\ y = <<<<i2, j2>>, e2>>
    BY <1>4
  <2>3. /\ i1 \in Places(m) /\ i2 \in Places(m)
        /\ SegsAt(m, i1)[j1].start + e1 = SegsAt(m, i2)[j2].start + e2
    BY <1>5, <1>6, <1>8, <2>1, <2>2
  <2>4. i1 = i2 /\ j1 = j2
    BY <2>1, <2>2, <2>3 DEF Numbers, Unique
  <2>5. e1 = e2
    <3>1. SegsAt(m, i1)[j1].start \in Nat /\ e1 \in Nat /\ e2 \in Nat
      BY <2>1, <2>2, <2>3, <2>4, SegmentTypes
    <3>2. QED
      BY <2>3, <2>4, <3>1
  <2>6. QED
    BY <2>1, <2>2, <2>4, <2>5
<1>9. ASSUME NEW k \in 1 .. n PROVE \E x \in Entries : g[x] = k
  <2>1. k \in DOMAIN m.essence /\ k <= n
    BY <1>2
  <2>2. PICK i \in Places(m) : \E j \in DOMAIN SegsAt(m, i) :
               \E e \in DOMAIN SegsAt(m, i)[j].entries : k = SegsAt(m, i)[j].start + e
    BY <2>1 DEF Numbers, Covers
  <2>3. PICK j \in DOMAIN SegsAt(m, i) :
               \E e \in DOMAIN SegsAt(m, i)[j].entries : k = SegsAt(m, i)[j].start + e
    BY <2>2
  <2>4. PICK e \in DOMAIN SegsAt(m, i)[j].entries : k = SegsAt(m, i)[j].start + e
    BY <2>3
  <2>5. i # 0 /\ i \in IndexesOf(m)
    <3>1. i # 0
      BY <2>4 DEF HasEntries, SegsAt
    <3>2. QED
      BY <3>1 DEF Places
  <2>6. Found(m, i, k, SegsAt(m, i)[j].entries[e])
    BY <2>1, <2>4 DEF Numbers, Leading
  <2>7. \E b : Paired(m, i, b)
    BY <2>5, <2>6 DEF Found, Paired, RankOf
  <2>8. Entry(i, j, e)
    BY <2>5, <2>7
  <2> HIDE DEF Entry, g
  <2>9. <<<<i, j>>, e>> \in Entries /\ g[<<<<i, j>>, e>>] = k
    BY <1>5, <2>4, <2>8
  <2>10. QED
    BY <2>9
<1> HIDE DEF g, n
<1>10. Cardinality(Entries) = n
  <2>1. \A x, y \in Entries : g[x] = g[y] => x = y
    BY <1>8
  <2>2. \A k \in 1 .. n : \E x \in Entries : g[x] = k
    BY <1>9
  <2>3. QED
    BY <1>2, <1>7, <2>1, <2>2, NumberedSet
<1>11. \A S : Reader!Cardinality(S) = Cardinality(S)
  BY DEF Cardinality, Reader!Cardinality
<1>12. QED
  BY <1>10, <1>11 DEF Reader!Duration, Entries, n

-----------------------------------------------------------------------------
(* The writer, seen through the reader, is the abstract track file *)

\* The tables that a reader builds depend on the packs and the RIP on disk
LEMMA SameDisk ==
  ASSUME NEW F, NEW G, G.disk = F.disk, G.parts = F.parts
  PROVE  /\ Reader!Openable(G) <=> Reader!Openable(F)
         /\ Reader!Table(G) = Reader!Table(F)
<1>1. \A i : Reader!Part(G, i) = Reader!Part(F, i)
  BY DEF Reader!Part, Reader!PackAt
<1>2. Reader!FirstBody(G) = Reader!FirstBody(F)
  BY DEF Reader!FirstBody
<1>3. Reader!Bodies(G) = Reader!Bodies(F) /\ Reader!Indexes(G) = Reader!Indexes(F)
  BY <1>1, <1>2 DEF Reader!Bodies, Reader!Indexes
<1>4. Reader!Table(G) = Reader!Table(F)
  BY <1>1, <1>3 DEF Reader!Table
<1>5. Reader!Openable(G) <=> Reader!Openable(F)
  BY DEF Reader!Openable, Reader!Resolves, Reader!HasBody
<1>6. QED
  BY <1>4, <1>5

\* The packs and the frames of the file stay while it is written
Stays(m, a) ==
  /\ \A k \in DOMAIN m.essence : k \in DOMAIN a.essence /\ a.essence[k] = m.essence[k]
  /\ \A p \in m.parts : \E q \in a.parts : Alike(p, q)

LEMMA PartsStay ==
  ASSUME NEW m \in MxfType, NEW f, framesWritten \in Nat
  PROVE  /\ m.parts \subseteq FlushIndexPartition(m, f).parts
         /\ \A offset \in Nat : m.parts \subseteq OpenBodyPartition(m, offset, f).parts
         /\ \A sid \in Nat : m.rip # <<>> => m.parts \subseteq PutStream(m, sid, f).parts
<1>1. m.parts \subseteq FlushIndexPartition(m, f).parts
  <2>1. CASE ~HasEntries(m)
    BY <2>1 DEF FlushIndexPartition
  <2>2. CASE HasEntries(m)
    BY <2>2, FlushDoes DEF Lists, Loses
  <2>3. QED
    BY <2>1, <2>2
<1>2. \A offset \in Nat : m.parts \subseteq OpenBodyPartition(m, offset, f).parts
  BY OpenBodyDoes DEF Lists, Loses
<1>3. \A sid \in Nat : m.rip # <<>> => m.parts \subseteq PutStream(m, sid, f).parts
  BY PutStreamDoes DEF Lists, Loses
<1>4. QED
  BY <1>1, <1>2, <1>3

LEMMA StaysIs ==
  ASSUME NEW m \in MxfType, NEW a, m.parts \subseteq a.parts,
         \/ a.essence = m.essence
         \/ \E x : a.essence = Append(m.essence, x)
  PROVE  Stays(m, a)
<1>1. \A p \in m.parts : Alike(p, p) /\ p \in a.parts
  BY DEF Alike
<1>2. m.essence \in Seq(Nat)
  BY FileTypes
<1>3. \A k \in DOMAIN m.essence : k \in DOMAIN a.essence /\ a.essence[k] = m.essence[k]
  <2>1. CASE a.essence = m.essence
    BY <2>1
  <2>2. ASSUME NEW x, a.essence = Append(m.essence, x)
        PROVE  \A k \in DOMAIN m.essence : k \in DOMAIN a.essence /\ a.essence[k] = m.essence[k]
    BY <1>2, <2>2
  <2>3. QED
    BY <2>1, <2>2
<1>4. QED
  BY <1>1, <1>3 DEF Stays

\* What a step does to the frames and to the file, as long as no fault harms it
Rests ==
  /\ mxf'.essence = mxf.essence /\ mxf'.disk = mxf.disk
  /\ (state' = "BEGIN" <=> state = "BEGIN")
  /\ (state = "ABORTED" => state' = "ABORTED")
  /\ Stays(mxf, mxf')
Creates ==
  /\ state = "BEGIN" /\ state' = "READY"
  /\ mxf = Empty /\ mxf'.essence = <<>> /\ mxf'.disk = <<>>
Accepts ==
  /\ Writing /\ Writing'
  /\ mxf'.disk = mxf.disk
  /\ \E x \in Nat : mxf'.essence = Append(mxf.essence, x)
  /\ Stays(mxf, mxf')
Ends ==
  /\ state = "RUNNING" /\ state' = "FINAL"
  /\ \E text \in BOOLEAN : \E m, footer : Closes(m, text, footer) /\ Listed(m)

LEMMA RestsIs ==
  ASSUME UNCHANGED <<mxf, state>> PROVE Rests
<1>1. Stays(mxf, mxf)
  BY DEF Stays, Alike
<1>2. QED
  BY <1>1 DEF Rests

LEMMA OpenSteps ==
  ASSUME TypeInv, Core, NEW f \in Faults, Open(f)
  PROVE  Rests \/ Creates
<1> DEFINE m == PushRip([Empty EXCEPT !.pos = HeaderLen, !.parts = {NewPack(0, "header", 0)}], 0, 0)
           a == OpenBodyPartition(m, 0, PackFault(f, "firstBody"))
<1>1. m \in MxfType /\ m.disk = <<>> /\ m.essence = <<>>
  BY HeaderFile
<1>2. state = "BEGIN" /\ mxf = Empty
  BY DEF Open, Core, History
<1> HIDE DEF m
<1> DEFINE g == PackFault(f, "firstBody")
<1>3. a.disk = <<>> /\ a.essence = <<>>
  <2> DEFINE b == OpenBodyPartition(m, 0, g)
  <2> HIDE DEF g
  <2>1. /\ g = "none" => \E pack \in Pack : Lists(m, b, pack)
        /\ g # "none" => Loses(m, b, 1)
    BY <1>1, OpenBodyDoes
  <2> HIDE DEF b
  <2>2. b.disk = <<>> /\ b.essence = <<>>
    BY <1>1, <2>1 DEF Lists, Loses
  <2>3. QED
    BY <2>2 DEF a, b, g
<1> HIDE DEF a, g
<1>4. UNCHANGED <<mxf, state>> \/ (state' = "READY" /\ mxf' = a)
  BY DEF Open, m, a
<1>5. QED
  BY <1>2, <1>3, <1>4, RestsIs DEF Creates

LEMMA WriteFrameSteps ==
  ASSUME TypeInv, TypeInv', Core, NEW len \in FrameLens, NEW f \in Faults, NEW lost \in 0 .. len,
         WriteFrame(len, f, lost)
  PROVE  Rests \/ Accepts
<1> DEFINE stored == Indexed(WritePackets(mxf, kind, len, f, lost), f)
           offset == streamOffset + StreamAdvance(kind, len, f)
           idx    == FlushIndexPartition(stored, PackFault(f, "index"))
           opened == OpenBodyPartition(idx, offset, PackFault(f, "body"))
<1>1. /\ Writing /\ Writing' /\ state' = "RUNNING" /\ state # "ABORTED" /\ state # "BEGIN"
      /\ mxf' = IF PartitionFull THEN opened ELSE stored
  BY DEF WriteFrame, Writing
<1>2. f \in FramePart <=> f \in FrameFaults(kind)
  <2>1. f \in {"none"} \cup FrameFaults(kind) \cup PackFaults("index") \cup PackFaults("body")
    BY DEF WriteFrame
  <2>2. QED
    BY <2>1 DEF FrameFaults, FramePart, PackFaults, Torn
<1>3. mxf \in MxfType /\ kind \in AllKinds /\ streamOffset \in Nat /\ framesWritten \in Nat
  BY DEF TypeInv, TypeOK
<1>4. offset \in Nat
  <2>1. StreamAdvance(kind, len, f) \in Nat
    BY <1>3, StreamAdvanceType
  <2>2. QED
    BY <1>3, <2>1
<1>5. /\ stored \in MxfType /\ Moves(mxf, stored)
      /\ f \in FramePart => stored.essence = mxf.essence
      /\ f \notin FramePart => stored.essence = Append(mxf.essence, mxf.pos + mxf.queued)
  BY <1>2, StoredDoes
<1> HIDE DEF stored, offset
<1>6. /\ idx \in MxfType /\ stored.parts \subseteq idx.parts
      /\ idx.essence = stored.essence /\ idx.disk = stored.disk
  <2>1. CASE ~HasEntries(stored)
    <3>1. idx = stored
      BY <2>1 DEF FlushIndexPartition
    <3> HIDE DEF idx
    <3>2. QED
      BY <1>5, <3>1
  <2>2. CASE HasEntries(stored)
    BY <1>5, <2>2, FlushDoes DEF Lists, Loses
  <2>3. QED
    BY <2>1, <2>2
<1> HIDE DEF idx
<1>7. idx.parts \subseteq opened.parts /\ opened.essence = idx.essence /\ opened.disk = idx.disk
  <2> DEFINE g == PackFault(f, "body")
             b == OpenBodyPartition(idx, offset, g)
  <2> HIDE DEF g
  <2>1. /\ g = "none" => \E pack \in Pack : Lists(idx, b, pack)
        /\ g # "none" => Loses(idx, b, 1)
    BY <1>4, <1>6, OpenBodyDoes
  <2> HIDE DEF b
  <2>2. idx.parts \subseteq b.parts /\ b.essence = idx.essence /\ b.disk = idx.disk
    BY <2>1 DEF Lists, Loses
  <2>3. QED
    BY <2>2 DEF b, g
<1> HIDE DEF opened
<1>8. mxf.parts \subseteq mxf'.parts /\ mxf'.essence = stored.essence /\ mxf'.disk = mxf.disk
  BY <1>1, <1>5, <1>6, <1>7 DEF Moves
<1>9. mxf.pos + mxf.queued \in Nat
  BY <1>3, FileTypes
<1>10. Stays(mxf, mxf')
  <2>1. mxf'.essence = mxf.essence \/ \E x : mxf'.essence = Append(mxf.essence, x)
    BY <1>5, <1>8
  <2>2. QED
    BY <1>3, <1>8, <2>1, StaysIs
<1>11. CASE f \in FramePart
  BY <1>1, <1>5, <1>8, <1>10, <1>11 DEF Rests
<1>12. CASE f \notin FramePart
  BY <1>1, <1>5, <1>8, <1>9, <1>10, <1>12 DEF Accepts
<1>13. QED
  BY <1>11, <1>12

LEMMA AddDmsSteps ==
  ASSUME TypeInv, Core, NEW f \in Faults, AddDms(f)
  PROVE  Rests
<1> DEFINE m == FlushIndexPartition(mxf, PackFault(f, "index"))
           a == PutStream(m, MaxSid(m) + 1, f)
<1>1. Writing /\ mxf' = a /\ state' = state
  BY DEF AddDms
<1>2. mxf \in MxfType /\ framesWritten \in Nat /\ Shape(mxf)
  BY <1>1, LayoutIs DEF TypeInv, TypeOK, Core
<1>3. /\ m \in MxfType /\ Shape(m) /\ mxf.parts \subseteq m.parts
      /\ m.essence = mxf.essence /\ m.disk = mxf.disk
  BY <1>2, FlushShape, PartsStay
<1> HIDE DEF m
<1>4. m.rip # <<>> /\ MaxSid(m) + 1 \in Nat
  <2>1. m.rip # <<>>
    BY <1>3 DEF Shape, Begun
  <2>2. MaxSid(m) \in Nat
    BY <1>3, <2>1, MaxSidType
  <2>3. QED
    BY <2>1, <2>2
<1>5. m.parts \subseteq a.parts /\ a.essence = m.essence /\ a.disk = m.disk
  BY <1>2, <1>3, <1>4, PutStreamDoes, PartsStay DEF Lists, Loses
<1> HIDE DEF a
<1>6. QED
  BY <1>1, <1>2, <1>3, <1>5, StaysIs DEF Rests

LEMMA WriteAncillaryResourceSteps ==
  ASSUME TypeInv, Core, NEW f \in Faults, WriteAncillaryResource(f)
  PROVE  Rests
<1> DEFINE a == PutStream(mxf, EssenceStreamID, f)
<1>1. Writing /\ mxf' = a /\ state' = state
  BY DEF WriteAncillaryResource, Writing
<1>2. mxf \in MxfType /\ framesWritten \in Nat /\ Shape(mxf) /\ EssenceStreamID \in Nat
  BY <1>1, LayoutIs, BoundAssumption
  DEF TypeInv, TypeOK, Core, EssenceStreamID, FirstEssenceStreamID
<1>3. mxf.rip # <<>>
  BY <1>2 DEF Shape, Begun
<1>4. mxf.parts \subseteq a.parts /\ a.essence = mxf.essence /\ a.disk = mxf.disk
  BY <1>2, <1>3, PutStreamDoes, PartsStay DEF Lists, Loses
<1> HIDE DEF a
<1>5. QED
  BY <1>1, <1>2, <1>4, StaysIs DEF Rests

\* A Finalize that no fault harms closes the file
LEMMA FinalizeSteps ==
  ASSUME TypeInv, Core, NEW f \in Faults, NEW text \in BOOLEAN, NEW n, Finalize(f, text, n),
         Unharmed'
  PROVE  Ends
<1>1. PICK r : Call("Finalize", f, r)
  BY DEF Finalize
<1>2. Unharmed /\ f = "none"
  <2>1. Unharmed /\ (f = "none" \/ f \in Harmless)
    BY <1>1, UnharmedCall
  <2>2. f \in {"none"} \cup FinalizeFaults(kind, text)
    BY DEF Finalize
  <2>3. QED
    BY <2>1, <2>2 DEF Harmless, FinalizeFaults, StreamFaults, PackFaults, Torn
<1>3. Finalize("none", text, n)
  BY <1>2
<1>4. PICK m, footer : Closes(m, text, footer)
  BY <1>3, Closing
<1>5. Writing /\ state = "RUNNING" /\ state' = "FINAL"
  BY DEF Finalize, Writing
<1>6. /\ mxf \in MxfType /\ framesWritten \in Nat /\ Shape(mxf) /\ Sids(mxf) /\ Listed(mxf)
  BY <1>2, <1>5, LayoutIs DEF TypeInv, TypeOK, Core, Steady
<1> DEFINE b == FinalBody(text)
<1>7. Listed(b)
  <2>1. /\ Flushed \in MxfType /\ Shape(Flushed) /\ Listed(Flushed)
        /\ \A top \in Nat : top > 1 /\ SidsBelow(mxf, top) => SidsBelow(Flushed, top)
    BY <1>6, FlushShape DEF Flushed
  <2>2. CASE kind.master /\ text
    <3>1. SidsBelow(Flushed, 2) /\ "none" \notin PackFaults("stream")
      BY <1>6, <2>1, <2>2 DEF Sids, PackFaults, Torn
    <3>2. Listed(PutStream(Flushed, 2, "none"))
      BY <1>6, <2>1, <3>1, NewStream
    <3>3. QED
      BY <2>2, <3>2 DEF FinalBody
  <2>3. CASE ~(kind.master /\ text)
    BY <2>1, <2>3 DEF FinalBody
  <2>4. QED
    BY <2>2, <2>3
<1>8. /\ b \in MxfType /\ Shape(b) /\ m \in MxfType /\ footer \in Pack /\ Lists(b, m, footer)
      /\ Known(m)
  BY <1>4 DEF Closes
<1> HIDE DEF b
<1>9. Known(b) /\ Kinded(footer)
  BY <1>8 DEF Shape, Known, Lists
<1>10. Listed(m)
  BY <1>7, <1>8, <1>9, ListsLayout
<1>11. QED
  BY <1>4, <1>5, <1>10 DEF Ends

LEMMA NextSteps ==
  ASSUME TypeInv, TypeInv', Core, [Next]_vars, ~Closed, state' # "ABORTED", Unharmed'
  PROVE  Rests \/ Creates \/ Accepts \/ Ends
<1>1. CASE \E f \in Faults : Open(f)
  BY <1>1, OpenSteps
<1>2. CASE \E len \in FrameLens, f \in Faults : \E lost \in 0 .. len : WriteFrame(len, f, lost)
  BY <1>2, WriteFrameSteps
<1>3. CASE WriteEmptyFrame
  BY <1>3, RestsIs DEF WriteEmptyFrame
<1>4. CASE \E len \in FrameLens : WriteFrameAfterFinal(len)
  <2>1. PICK len \in FrameLens : WriteFrameAfterFinal(len)
    BY <1>4
  <2>2. mxf \in MxfType
    BY DEF TypeInv, TypeOK
  <2>3. /\ mxf'.essence = mxf.essence /\ mxf'.disk = mxf.disk /\ mxf'.parts = mxf.parts
        /\ state = "FINAL" /\ state' = "FINAL"
    BY <2>1, <2>2 DEF WriteFrameAfterFinal, MxfType
  <2>4. QED
    BY <2>2, <2>3, StaysIs DEF Rests
<1>5. CASE \E f \in Faults : AssertIndexEntries(f)
  BY <1>5 DEF AssertIndexEntries
<1>6. CASE \E f \in Faults : AddDms(f)
  BY <1>6, AddDmsSteps
<1>7. CASE AddDmsAfterFinal
  <2>1. mxf \in MxfType
    BY DEF TypeInv, TypeOK
  <2>2. PICK at : mxf' = PushRip(mxf, MaxSid(mxf) + 1, at)
    BY <1>7 DEF AddDmsAfterFinal
  <2>3. mxf'.essence = mxf.essence /\ mxf'.disk = mxf.disk /\ mxf'.parts = mxf.parts
    BY <2>1, <2>2 DEF PushRip, MxfType
  <2>4. state = "FINAL" /\ state' = "FINAL"
    BY <1>7 DEF AddDmsAfterFinal
  <2>5. QED
    BY <2>1, <2>3, <2>4, StaysIs DEF Rests
<1>8. CASE \E f \in Faults, text \in BOOLEAN : \E n \in 1 .. Len(mxf.rip) + 2 : Finalize(f, text, n)
  BY <1>8, FinalizeSteps
<1>9. CASE AbortedWrite
  BY <1>9 DEF AbortedWrite
<1>10. CASE RefusedCall
  BY <1>10, RestsIs DEF RefusedCall
<1>11. CASE \E f \in Faults : WriteAncillaryResource(f)
  BY <1>11, WriteAncillaryResourceSteps
<1>12. CASE UNCHANGED vars
  BY <1>12, RestsIs DEF vars
<1>13. QED
  BY <1>1, <1>2, <1>3, <1>4, <1>5, <1>6, <1>7, <1>8, <1>9, <1>10, <1>11, <1>12 DEF Next

\* No call changes a closed file
LEMMA ClosedStays ==
  ASSUME TypeInv, Core, [Next]_vars, Closed
  PROVE  /\ mxf'.essence = mxf.essence /\ mxf'.disk = mxf.disk /\ mxf'.parts = mxf.parts
         /\ faults' = faults
<1>1. state \in {"FINAL", "ABORTED"}
  <2>1. Empty.disk = <<>>
    BY DEF Empty
  <2>2. QED
    BY <2>1 DEF TypeInv, TypeOK, Core, History, Writing, Closed
<1>2. mxf \in MxfType
  BY DEF TypeInv, TypeOK
<1>3. \A op, r : Call(op, "none", r) => faults' = faults
  BY DEF Call
<1>4. CASE UNCHANGED vars
  BY <1>4 DEF vars
<1>5. CASE WriteEmptyFrame
  BY <1>3, <1>5 DEF WriteEmptyFrame
<1>6. CASE \E len \in FrameLens : WriteFrameAfterFinal(len)
  BY <1>2, <1>3, <1>6 DEF WriteFrameAfterFinal, MxfType
<1>7. CASE \E f \in Faults : AssertIndexEntries(f)
  BY <1>1, <1>3, <1>7 DEF AssertIndexEntries, Writing
<1>8. CASE AddDmsAfterFinal
  <2>1. PICK at : mxf' = PushRip(mxf, MaxSid(mxf) + 1, at)
    BY <1>8 DEF AddDmsAfterFinal
  <2>2. mxf'.essence = mxf.essence /\ mxf'.disk = mxf.disk /\ mxf'.parts = mxf.parts
    BY <1>2, <2>1 DEF PushRip, MxfType
  <2>3. QED
    BY <1>3, <1>8, <2>2 DEF AddDmsAfterFinal
<1>9. CASE RefusedCall
  BY <1>3, <1>9 DEF RefusedCall
<1>10. /\ ~ \E f \in Faults : Open(f)
       /\ ~ \E len \in FrameLens, f \in Faults : \E lost \in 0 .. len : WriteFrame(len, f, lost)
       /\ ~ \E f \in Faults : AddDms(f)
       /\ ~ \E f \in Faults : WriteAncillaryResource(f)
       /\ ~ \E f \in Faults, text \in BOOLEAN : \E n \in 1 .. Len(mxf.rip) + 2 : Finalize(f, text, n)
       /\ ~AbortedWrite
  BY <1>1 DEF Open, WriteFrame, AddDms, WriteAncillaryResource, Finalize, AbortedWrite, Writing
<1>11. QED
  BY <1>4, <1>5, <1>6, <1>7, <1>8, <1>9, <1>10 DEF Next

\* Once harmed, always harmed
LEMMA HarmStays ==
  ASSUME TypeInv, [Next]_vars, Unharmed'
  PROVE  Unharmed
<1>1. CASE UNCHANGED vars
  BY <1>1 DEF vars, Unharmed
<1>2. CASE \E op, r : \E f \in Faults \cup {"assert"} : Call(op, f, r)
  BY <1>2, UnharmedCall
<1>3. ASSUME Next PROVE \E op, r : \E f \in Faults \cup {"assert"} : Call(op, f, r)
  <2> DEFINE Called == \E op, r : \E f \in Faults \cup {"assert"} : Call(op, f, r)
  <2>1. (\E f \in Faults : Open(f)) => Called
    BY DEF Open
  <2>2. (\E len \in FrameLens, f \in Faults : \E lost \in 0 .. len : WriteFrame(len, f, lost)) => Called
    BY DEF WriteFrame
  <2>3. WriteEmptyFrame => Called
    BY NoneIsFault DEF WriteEmptyFrame
  <2>4. (\E len \in FrameLens : WriteFrameAfterFinal(len)) => Called
    BY NoneIsFault DEF WriteFrameAfterFinal
  <2>5. (\E f \in Faults : AssertIndexEntries(f)) => Called
    BY DEF AssertIndexEntries
  <2>6. (\E f \in Faults : AddDms(f)) => Called
    BY DEF AddDms
  <2>7. AddDmsAfterFinal => Called
    BY NoneIsFault DEF AddDmsAfterFinal
  <2>8. (\E f \in Faults : WriteAncillaryResource(f)) => Called
    BY DEF WriteAncillaryResource
  <2>9. (\E f \in Faults, text \in BOOLEAN : \E n \in 1 .. Len(mxf.rip) + 2 : Finalize(f, text, n))
          => Called
    BY DEF Finalize
  <2>10. AbortedWrite => Called
    BY DEF AbortedWrite
  <2>11. RefusedCall => Called
    BY NoneIsFault DEF RefusedCall
  <2> HIDE DEF Called
  <2>12. Called
    BY <1>3, <2>1, <2>2, <2>3, <2>4, <2>5, <2>6, <2>7, <2>8, <2>9, <2>10, <2>11 DEF Next
  <2>13. QED
    BY <2>12 DEF Called
<1>4. QED
  BY <1>1, <1>2, <1>3

LEMMA AbortedStays ==
  ASSUME TypeInv, [Next]_vars, state' = "ABORTED"
  PROVE  mxf'.disk = mxf.disk
<1>1. CASE UNCHANGED vars
  BY <1>1 DEF vars
<1>2. CASE WriteEmptyFrame \/ AbortedWrite \/ RefusedCall \/ \E f \in Faults : AssertIndexEntries(f)
  BY <1>2 DEF WriteEmptyFrame, AbortedWrite, RefusedCall, AssertIndexEntries
<1>3. CASE AddDmsAfterFinal
  <2>1. mxf \in MxfType
    BY DEF TypeInv, TypeOK
  <2>2. PICK at : mxf' = PushRip(mxf, MaxSid(mxf) + 1, at)
    BY <1>3 DEF AddDmsAfterFinal
  <2>3. QED
    BY <2>1, <2>2 DEF PushRip, MxfType
<1>4. /\ ~ \E f \in Faults : Open(f)
      /\ ~ \E len \in FrameLens, f \in Faults : \E lost \in 0 .. len : WriteFrame(len, f, lost)
      /\ ~ \E len \in FrameLens : WriteFrameAfterFinal(len)
      /\ ~ \E f \in Faults : AddDms(f)
      /\ ~ \E f \in Faults : WriteAncillaryResource(f)
      /\ ~ \E f \in Faults, text \in BOOLEAN : \E n \in 1 .. Len(mxf.rip) + 2 : Finalize(f, text, n)
  BY DEF Open, WriteFrame, WriteFrameAfterFinal, AddDms, WriteAncillaryResource, Finalize, Writing
<1>5. QED
  BY <1>1, <1>2, <1>3, <1>4 DEF Next

LEMMA LateStays ==
  ASSUME Stays(mxf, mxf'), LateFrames
  PROVE  LateFrames'
<1>1. PICK p \in Streams : \E i \in DOMAIN mxf.essence : mxf.essence[i] > p.at
  BY DEF LateFrames
<1>2. PICK i \in DOMAIN mxf.essence : mxf.essence[i] > p.at
  BY <1>1
<1>3. p \in mxf.parts /\ p.type = "stream"
  BY <1>1 DEF Streams
<1>4. PICK q \in mxf'.parts : Alike(p, q)
  BY <1>3 DEF Stays
<1>5. i \in DOMAIN mxf'.essence /\ mxf'.essence[i] > q.at /\ q.type = "stream"
  BY <1>2, <1>3, <1>4 DEF Stays, Alike
<1>6. QED
  BY <1>4, <1>5 DEF LateFrames, Streams

LEMMA ClosesStays ==
  ASSUME TypeInv, Core, Writing, NEW text \in BOOLEAN, NEW m, NEW footer, Closes(m, text, footer)
  PROVE  mxf.parts \subseteq m.parts /\ Stays(mxf, mxf')
<1> DEFINE b == FinalBody(text)
<1>1. mxf \in MxfType /\ framesWritten \in Nat /\ Shape(mxf)
  BY LayoutIs DEF TypeInv, TypeOK, Core
<1>2. Flushed \in MxfType /\ Shape(Flushed) /\ mxf.parts \subseteq Flushed.parts
  BY <1>1, FlushShape, PartsStay DEF Flushed
<1>3. Flushed.rip # <<>>
  BY <1>2 DEF Shape, Begun
<1>4. Flushed.parts \subseteq b.parts
  BY <1>1, <1>2, <1>3, PartsStay DEF FinalBody
<1> HIDE DEF b
<1>5. b.parts \subseteq m.parts /\ mxf'.essence = mxf.essence
        /\ \A p \in m.parts : \E q \in mxf'.parts : Alike(p, q)
  BY DEF Closes, Lists, Relinked, Relinks, b
<1>6. QED
  BY <1>2, <1>4, <1>5 DEF Stays

\* A reader gets the frames of a closed file where they were written
LEMMA ReaderFrames ==
  ASSUME NEW m \in MxfType, NEW F, OnDisk(m, F), Begun(m), Known(m), Ordered(m), Listed(m),
         Numbers(m, Len(m.essence)), ~HasEntries(m),
         \A k \in DOMAIN m.essence : ~DisplacedIn(m, k)
  PROVE  (CHOOSE frames \in {[i \in 1 .. Reader!Duration(table) |-> Reader!LookupIn(table, i - 1)] :
                               table \in {Reader!Table(F)}} : TRUE) = m.essence
<1> DEFINE T == Reader!Table(F)
           Frames(table) == [i \in 1 .. Reader!Duration(table) |-> Reader!LookupIn(table, i - 1)]
<1>1. m.essence \in Seq(Nat) /\ Len(m.essence) \in Nat /\ DOMAIN m.essence = 1 .. Len(m.essence)
  BY FileTypes
<1>2. Reader!Duration(T) = Len(m.essence)
  BY ReaderCounts
<1>3. ASSUME NEW k \in 1 .. Len(m.essence) PROVE Reader!LookupIn(T, k - 1) = m.essence[k]
  <2>1. k \in DOMAIN m.essence /\ k <= Len(m.essence)
    BY <1>1
  <2>2. Reader!Lookup(F, k - 1) = m.essence[k]
    BY <1>1, <2>1, ReaderFinds
  <2>3. QED
    BY <2>2 DEF Reader!Lookup
<1> HIDE DEF T
<1>4. m.essence = [i \in 1 .. Len(m.essence) |-> m.essence[i]]
  BY <1>1
<1>5. Frames(T) = m.essence
  BY <1>2, <1>3, <1>4
<1> HIDE DEF Frames
<1>6. {Frames(table) : table \in {T}} = {m.essence}
  BY <1>5
<1>7. (CHOOSE frames \in {Frames(table) : table \in {T}} : TRUE) = m.essence
  BY <1>6
<1>8. QED
  BY <1>7 DEF Frames, T

\* Finalize makes readable what was accepted
LEMMA ClosesReads ==
  ASSUME TypeInv, Core, Indexing, Writing, Unharmed, ~LateFrames',
         NEW text \in BOOLEAN, NEW m, NEW footer, Closes(m, text, footer), Listed(m)
  PROVE  Closed' /\ Reader!Openable(mxf') /\ FramesRead' = mxf'.essence
<1>1. Intact /\ Trusted = Len(mxf.essence)
  BY DEF Intact, Trusted
<1>2. Numbers(m, Trusted) /\ ~HasEntries(m) /\ OnDisk(m, mxf')
  BY <1>1, FinalNumbers
<1>3. /\ m \in MxfType /\ Begun(m) /\ Known(m) /\ Ordered(m)
      /\ m.essence = mxf.essence /\ mxf'.essence = mxf.essence /\ mxf'.disk = m.rip
  BY <1>1, <1>2 DEF Closes, OnDisk
<1>4. ASSUME NEW k \in DOMAIN m.essence, DisplacedIn(m, k) PROVE FALSE
  <2>1. PICK p \in m.parts : p.type = "stream" /\ p.at < m.essence[k]
    BY <1>4 DEF DisplacedIn
  <2>2. PICK q \in mxf'.parts : Alike(p, q)
    BY <1>2 DEF OnDisk
  <2>3. p.at \in Nat /\ m.essence[k] \in Nat
    BY <1>3, <1>4, FileTypes
  <2>4. q.type = "stream" /\ mxf'.essence[k] > q.at /\ k \in DOMAIN mxf'.essence
    BY <1>3, <1>4, <2>1, <2>2, <2>3 DEF Alike
  <2>5. QED
    BY <2>4 DEF LateFrames, Streams
<1>5. FramesRead' = m.essence
  BY <1>1, <1>2, <1>3, <1>4, ReaderFrames DEF FramesRead
<1>6. mxf'.disk # <<>>
  BY <1>3 DEF Begun
<1>7. QED
  BY <1>3, <1>5, <1>6, ClosedResolves DEF Closed

\* A step of the writer is one of the abstract track file, or leaves what it sees unchanged
LEMMA StepRefines ==
  ASSUME TypeInv, TypeInv', Core, Indexing, [Next]_vars
  PROVE  Abstract!Next \/ UNCHANGED <<Phase, Accepted, Readable>>
<1>1. CASE Closed
  <2>1. /\ mxf'.essence = mxf.essence /\ mxf'.disk = mxf.disk /\ mxf'.parts = mxf.parts
        /\ faults' = faults
    BY <1>1, ClosedStays
  <2>2. Closed' /\ (Unharmed' <=> Unharmed) /\ (LateFrames' <=> LateFrames)
    BY <1>1, <2>1 DEF Closed, Unharmed, LateFrames, Streams
  <2>3. (Spoilt' <=> Spoilt) /\ Phase' = Phase
    BY <1>1, <2>2 DEF Spoilt, Phase
  <2>4. Accepted' = Accepted
    BY <2>1, <2>3 DEF Accepted
  <2>5. (Reader!Openable(mxf') <=> Reader!Openable(mxf)) /\ Reader!Table(mxf') = Reader!Table(mxf)
    BY <2>1, SameDisk
  <2>6. FramesRead' = FramesRead
    BY <2>5 DEF FramesRead
  <2>7. Readable' = Readable
    BY <1>1, <2>2, <2>3, <2>5, <2>6 DEF Readable
  <2>8. QED
    BY <2>3, <2>4, <2>7
<1>2. CASE ~Closed /\ Spoilt'
  <2>1. Phase' = "spoilt" /\ Accepted' = <<>> /\ Readable' = <<>>
    BY <1>2 DEF Phase, Accepted, Readable
  <2>2. CASE Spoilt
    BY <2>1, <2>2 DEF Phase, Accepted, Readable
  <2>3. CASE ~Spoilt
    <3>1. Phase \in {"new", "open"}
      BY <1>2, <2>3 DEF Phase
    <3>2. QED
      BY <2>1, <3>1 DEF Abstract!Next, Abstract!Spoil
  <2>4. QED
    BY <2>2, <2>3
<1>3. CASE ~Closed /\ ~Spoilt'
  <2>1. Unharmed' /\ Unharmed /\ ~LateFrames' /\ (state' = "ABORTED" => Closed')
    BY <1>3, HarmStays DEF Spoilt
  <2>2. state' # "ABORTED"
    BY <1>3, <2>1, AbortedStays DEF Closed
  <2>3. /\ Phase' = IF Closed' THEN "closed" ELSE IF state' = "BEGIN" THEN "new" ELSE "open"
        /\ Accepted' = mxf'.essence
        /\ ~Closed' => Readable' = <<>>
        /\ Closed' /\ Reader!Openable(mxf') => Readable' = FramesRead'
    BY <1>3 DEF Phase, Accepted, Readable
  <2>4. ASSUME ~LateFrames, state # "ABORTED"
        PROVE  /\ Phase = IF state = "BEGIN" THEN "new" ELSE "open"
               /\ Accepted = mxf.essence /\ Readable = <<>>
    BY <1>3, <2>1, <2>4 DEF Spoilt, Phase, Accepted, Readable
  <2>5. CASE Rests
    <3>1. ~LateFrames /\ state # "ABORTED" /\ ~Closed'
      BY <1>3, <2>1, <2>2, <2>5, LateStays DEF Rests, Closed
    <3>2. Phase' = Phase /\ Accepted' = Accepted /\ Readable' = Readable
      BY <2>3, <2>4, <2>5, <3>1 DEF Rests
    <3>3. QED
      BY <3>2
  <2>6. CASE Creates
    <3>1. mxf.parts = {} /\ mxf.essence = <<>>
      BY <2>6 DEF Creates, Empty
    <3>2. ~LateFrames /\ state # "ABORTED" /\ ~Closed'
      BY <2>6, <3>1 DEF Creates, LateFrames, Streams, Closed
    <3>3. /\ Phase = "new" /\ Phase' = "open"
          /\ Accepted' = Accepted /\ Readable' = Readable
      BY <2>3, <2>4, <2>6, <3>1, <3>2 DEF Creates
    <3>4. QED
      BY <3>3 DEF Abstract!Next, Abstract!Create
  <2>7. CASE Accepts
    <3>1. ~LateFrames /\ state # "ABORTED" /\ state # "BEGIN" /\ state' # "BEGIN" /\ ~Closed'
      BY <1>3, <2>1, <2>7, LateStays DEF Accepts, Writing, Closed
    <3>2. /\ Phase = "open" /\ Phase' = Phase /\ Readable' = Readable
          /\ Accepted = mxf.essence /\ Accepted' = mxf'.essence
      BY <2>3, <2>4, <3>1
    <3>3. PICK x \in Nat : mxf'.essence = Append(mxf.essence, x)
      BY <2>7 DEF Accepts
    <3>4. mxf.essence \in Seq(Nat)
      BY FileTypes DEF TypeInv, TypeOK
    <3>5. /\ Len(mxf'.essence) = Len(mxf.essence) + 1
          /\ \A i \in DOMAIN mxf.essence : mxf'.essence[i] = mxf.essence[i]
          /\ mxf'.essence[Len(mxf'.essence)] \in Nat
      BY <3>3, <3>4
    <3>6. /\ Len(Accepted') = Len(Accepted) + 1
          /\ \A i \in DOMAIN Accepted : Accepted'[i] = Accepted[i]
          /\ Accepted'[Len(Accepted')] \in Nat
      BY <3>2, <3>5
    <3>7. QED
      BY <3>2, <3>6 DEF Abstract!Next, Abstract!Accept
  <2>8. CASE Ends
    <3>1. PICK text \in BOOLEAN : \E m, footer : Closes(m, text, footer) /\ Listed(m)
      BY <2>8 DEF Ends
    <3>2. PICK m, footer : Closes(m, text, footer) /\ Listed(m)
      BY <3>1
    <3>3. Writing /\ state # "ABORTED" /\ state # "BEGIN"
      BY <2>8 DEF Ends, Writing
    <3>4. ~LateFrames
      BY <2>1, <3>2, <3>3, ClosesStays, LateStays
    <3>5. Closed' /\ Reader!Openable(mxf') /\ FramesRead' = mxf'.essence
      BY <2>1, <3>2, <3>3, ClosesReads
    <3>6. mxf'.essence = mxf.essence
      BY <3>2 DEF Closes
    <3>7. /\ Phase = "open" /\ Phase' = "closed"
          /\ Accepted' = Accepted /\ Readable' = Accepted
      BY <2>3, <2>4, <3>3, <3>4, <3>5, <3>6
    <3>8. QED
      BY <3>7 DEF Abstract!Next, Abstract!Close
  <2>9. QED
    BY <1>3, <2>1, <2>2, <2>5, <2>6, <2>7, <2>8, NextSteps
<1>4. QED
  BY <1>1, <1>2, <1>3

\* The writer and the reader together implement the abstract track file: Finalize makes
\* readable the frames that were accepted, each under its number and from the place it
\* was written to, nothing changes them afterwards, and until then only a fault of the
\* storage, or a frame behind a generic-stream partition, takes the promise back.
THEOREM ReadsBackHolds == Spec => ReadsBack
<1> DEFINE Inv == TypeInv /\ Core /\ Indexing
<1>1. Init => Inv
  BY InitType, InitCore, InitIndexing
<1>2. Inv /\ [Next]_vars => Inv'
  BY NextType, NextCore, NextIndexing
<1>3. Init => Abstract!Init
  <2> SUFFICES ASSUME Init PROVE Abstract!Init
    OBVIOUS
  <2>1. faults = <<>> /\ mxf = Empty /\ state = "BEGIN"
    BY DEF Init
  <2>2. mxf.essence = <<>> /\ mxf.parts = {} /\ mxf.disk = <<>>
    BY <2>1 DEF Empty
  <2>3. Unharmed /\ ~LateFrames /\ ~Closed
    BY <2>1, <2>2 DEF Unharmed, LateFrames, Streams, Closed
  <2>4. ~Spoilt
    BY <2>1, <2>3 DEF Spoilt
  <2>5. Phase = "new" /\ Accepted = <<>> /\ Readable = <<>>
    BY <2>1, <2>2, <2>3, <2>4 DEF Phase, Accepted, Readable
  <2>6. QED
    BY <2>5 DEF Abstract!Init
<1>4. Inv /\ Inv' /\ [Next]_vars => [Abstract!Next]_(Abstract!vars)
  <2> SUFFICES ASSUME TypeInv, TypeInv', Core, Indexing, [Next]_vars
               PROVE  [Abstract!Next]_(Abstract!vars)
    OBVIOUS
  <2>1. Abstract!Next \/ UNCHANGED <<Phase, Accepted, Readable>>
    BY StepRefines
  <2>2. QED
    BY <2>1 DEF Abstract!vars
<1>5. Spec => []Inv
  BY <1>1, <1>2, PTL DEF Spec
<1> HIDE DEF Inv
<1>6. Spec => Abstract!Spec
  BY <1>3, <1>4, <1>5, PTL DEF Spec, Abstract!Spec
<1>7. QED
  BY <1>6 DEF ReadsBack

=============================================================================
