------------------------------ MODULE MXFFile -------------------------------
(***************************************************************************)
(* What the AS-DCP and the AS-02 writers and readers share: partition      *)
(* packs and the two ways in which writing one can fail, the Random Index  *)
(* Pack, index segments, and the search for a generic-stream partition.    *)
(*                                                                         *)
(* The bytes of a file are abstracted to the records that a reader can     *)
(* find at an offset.  A file m has the fields pos, the file position;     *)
(* parts, the packs on disk; rip, m_RIP.PairArray in memory; disk, the     *)
(* Random Index Pack on disk; and segs, the segments of the index writer,  *)
(* of which the last is the current one.                                   *)
(***************************************************************************)
EXTENDS Naturals, Sequences, FiniteSets

CONSTANTS
  PackLen,           \* bytes of a partition pack other than the header
  PackLost,          \* bytes that a failed pack write leaves behind
  EntriesPerSegment  \* CBRIndexEntriesPerSegment

-----------------------------------------------------------------------------
(* Partition packs *)

Pair == [sid : Nat, at : Nat]

NewPack(at, type, sid) ==
  [at |-> at, type |-> type, sid |-> sid, offset |-> 0, segs |-> <<>>, hmac |-> 0,
   prev |-> 0, footer |-> 0]

\* Mutant: a failed write moves the file position back.
PutPackRewinds(m, pack, f) ==
  IF f = "none" THEN [m EXCEPT !.pos = @ + PackLen, !.parts = @ \cup {pack}] ELSE m

\* Partition::WriteToFile at the file position. A "fail" returns an error; in a
\* "torn" write the key and length are lost but write_count holds a value that
\* passes the assertion, so the call returns RESULT_OK.
PutPack(m, pack, f) ==
  [m EXCEPT !.pos = @ + (IF f = "none" THEN PackLen ELSE PackLost),
            !.parts = IF f = "none" THEN @ \cup {pack} ELSE @]

PushRip(m, sid, at) == [m EXCEPT !.rip = Append(@, [sid |-> sid, at |-> at])]

\* Partition packs (and the RIP) can be lost in two ways: fault "body" is a write
\* that returns an error, "bodyTorn" one that the caller does not notice.
Torn == [firstBody |-> "firstBodyTorn", index |-> "indexTorn", body |-> "bodyTorn",
         stream |-> "streamTorn", footer |-> "footerTorn", rip |-> "ripTorn", relink |-> "relinkTorn"]
PackFaults(part) == {part, Torn[part]}
PackFault(f, part) ==
  CASE f = part -> "fail" [] f = Torn[part] -> "torn" [] OTHER -> "none"

PackAt(m, at) == CHOOSE p \in m.parts : p.at = at
Resolves(m, at) == \E p \in m.parts : p.at = at

-----------------------------------------------------------------------------
(* Index segments *)

SegmentEnd(s) == s.start + Len(s.entries)

\* GetDuration() > 0
HasEntries(m) == \E i \in DOMAIN m.segs : m.segs[i].entries # <<>>

\* Mutant: a full segment is followed by one that starts at 0 again.
PushIndexEntryRestarts(m, entry) ==
  LET n == Len(m.segs)
  IN  IF m.segs = <<>> \/ Len(m.segs[n].entries) >= EntriesPerSegment
      THEN [m EXCEPT !.segs = Append(@, [start |-> 0, entries |-> <<entry>>])]
      ELSE [m EXCEPT !.segs[n].entries = Append(@, entry)]

\* AS02IndexWriterVBR::PushIndexEntry and OPAtomIndexFooter::PushIndexEntry
PushIndexEntry(m, entry) ==
  LET n       == Len(m.segs)
      current == m.segs[n]
  IN  IF m.segs = <<>>
      THEN [m EXCEPT !.segs = <<[start |-> 0, entries |-> <<entry>>]>>]
      ELSE IF Len(current.entries) >= EntriesPerSegment
      THEN [m EXCEPT !.segs = Append(@, [start |-> SegmentEnd(current), entries |-> <<entry>>])]
      ELSE [m EXCEPT !.segs[n].entries = Append(@, entry)]

-----------------------------------------------------------------------------
(* Generic streams *)

NotFound == [start |-> 0, end |-> 0, sequence |-> 0]

\* Mutant: the partition of the stream itself is not counted.
LocateStreamBefore(file, sid) ==
  LET hits  == {i \in DOMAIN file.disk : file.disk[i].sid = sid}
      start == CHOOSE i \in hits : \A j \in hits : i <= j
      end   == start + 1
  IN  IF hits = {} THEN NotFound
      ELSE [start    |-> file.disk[start].at,
            end      |-> file.disk[end].at,
            sequence |-> Cardinality({i \in 1 .. start - 1 : file.disk[i].sid > 0})]

\* ReadGenericStreamPartitionPayload: where the partition of a SID starts and
\* ends, and the sequence number its payload's HMAC is checked with; NotFound
\* when either offset stays 0.
LocateStream(file, sid) ==
  LET hits  == {i \in DOMAIN file.disk : file.disk[i].sid = sid}
      start == CHOOSE i \in hits : \A j \in hits : i <= j
      after == {i \in DOMAIN file.disk : i > start /\ file.disk[i].sid # sid}
      end   == CHOOSE i \in after : \A j \in after : i <= j
  IN  IF hits = {} \/ after = {} THEN NotFound
      ELSE [start    |-> file.disk[start].at,
            end      |-> file.disk[end].at,
            sequence |-> Cardinality({i \in 1 .. end - 1 : file.disk[i].sid > 0})]

=============================================================================
