---------------------------- MODULE ASDCPReader -----------------------------
(***************************************************************************)
(* What the AS-DCP reader makes of a file on disk: h__ASDCPReader, its     *)
(* OPAtomIndexFooter, and the essence classes' own rules.  A file is the   *)
(* record of ASDCPWriter, k its essence class; frames count from 0, and    *)
(* NoPlace stands for an error.                                            *)
(***************************************************************************)
EXTENDS MXFFile, Integers

CONSTANTS
  HeaderLen,   \* bytes of the header partition
  UnitLen,     \* BytesPerEditUnit of a PCM file
  KeyModulus   \* 2^8

NoPlace == 0 - 1

\* m_HeaderPart.FooterPartition, 0 in a file that was never finalized: the index is
\* then read from the header pack, which holds none.
IndexPack(file) == PackAt(file, PackAt(file, 0).footer)
Segments(file) == IndexPack(file).segs

\* OpenRead: the header is readable, and so are the partition of the second entry
\* of a RIP of more than two, and the footer. A RIP that cannot be read is an
\* empty one. The PCM reader refuses a file without a duration.
Openable(file, k) ==
  /\ Resolves(file, 0)
  /\ Len(file.disk) > 2 => Resolves(file, file.disk[2].at)
  /\ Resolves(file, PackAt(file, 0).footer)
  /\ ~k.vbr => file.duration # 0

\* Mutant: the essence is taken to follow the header whatever the RIP says.
BodyOffsetInHeader(file) == HeaderLen

\* m_HeaderPart.BodyOffset: where the file is after the last pack that was read
BodyOffset(file) == IF Len(file.disk) > 2 THEN file.disk[2].at + PackLen ELSE HeaderLen

\* The segments that cover frame n of a VBR index
Hits(file, n) ==
  {i \in DOMAIN Segments(file) :
     Segments(file)[i].start <= n /\ n < SegmentEnd(Segments(file)[i])}

\* The entry that OPAtomIndexFooter::Lookup finds: the first segment decides.
EntryOf(file, n) ==
  LET i == CHOOSE i \in Hits(file, n) : \A j \in Hits(file, n) : i <= j
  IN  Segments(file)[i].entries[n - Segments(file)[i].start + 1]

\* Where ReadFrame reads frame n. The lookup of a CBR index has no upper limit;
\* the PCM reader has one of its own.
Lookup(file, k, n) ==
  IF k.vbr
  THEN IF Hits(file, n) = {} THEN NoPlace ELSE BodyOffset(file) + EntryOf(file, n).offset
  ELSE IF n + 1 > file.duration \/ Segments(file) = <<>> THEN NoPlace ELSE BodyOffset(file) + n * UnitLen

\* Where an eye of frame n is read: the right one follows the packet, whatever it
\* is, that the left one's position holds.
Eye(file, k, n, eye) ==
  LET left == Lookup(file, k, n)
      here == {p \in {file.packets[i] : i \in DOMAIN file.packets} : p.at = left}
  IN  IF eye = 1 \/ left = NoPlace THEN left
      ELSE IF here = {} THEN NoPlace ELSE left + (CHOOSE p \in here : TRUE).len

\* The sequence number that the HMAC of an eye of frame n is checked with
Sequence(k, n, eye) == IF k.eyes = 2 THEN 2 * n + eye ELSE n + 1

\* The frames that can be read. OPAtomIndexFooter::ContainerDuration adds up the
\* IndexDurations of the segments, each the number of its entries.
Duration(file, k) ==
  IF k.vbr
  THEN Cardinality(UNION {{<<i, j>> : j \in DOMAIN Segments(file)[i].entries} :
                            i \in DOMAIN Segments(file)})
  ELSE file.duration

\* What a reader gets of the file: for each frame, the place and the sequence
\* number of each eye
Readable(file, k) ==
  IF ~Openable(file, k) THEN <<>>
  ELSE [n \in 1 .. Duration(file, k) |->
          [eye \in 1 .. k.eyes |-> [at   |-> Eye(file, k, n - 1, eye),
                                    hmac |-> Sequence(k, n - 1, eye)]]]

\* MPEG2::MXFReader::FindFrameGOPStart
FindFrameGOPStart(file, n) == n - EntryOf(file, n).key

=============================================================================
