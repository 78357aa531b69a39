----------------------------- MODULE AS02Reader -----------------------------
(***************************************************************************)
(* What the AS-02 reader makes of a file on disk: h__AS02Reader and its    *)
(* AS02IndexReader, which pairs body partitions with index partitions in   *)
(* the order of the Random Index Pack.                                     *)
(***************************************************************************)
EXTENDS MXFFile

\* The first entry of the RIP that has a BodySID: the indexed essence
HasBody(file) == \E i \in DOMAIN file.disk : file.disk[i].sid # 0
FirstBody(file) ==
  CHOOSE i \in DOMAIN file.disk :
    /\ file.disk[i].sid # 0
    /\ \A j \in 1 .. i - 1 : file.disk[j].sid = 0

\* OpenMXFRead succeeds: the header is readable, some partition holds essence
\* and there is a pack at every offset of the RIP. A RIP that cannot be read is
\* an empty one.
Openable(file) ==
  /\ Resolves(file, 0)
  /\ HasBody(file)
  /\ file.disk[1].at = 0
  /\ \A i \in DOMAIN file.disk : Resolves(file, file.disk[i].at)

\* The pack that entry i of the RIP leads to
Part(file, i) == PackAt(file, file.disk[i].at)

\* body_part_array, and the index partitions in the order they are found, by
\* their entries in the RIP
Bodies(file) == {i \in DOMAIN file.disk : file.disk[i].sid = file.disk[FirstBody(file)].sid}
Indexes(file) == {i \in DOMAIN file.disk : Part(file, i).type = "index"}
Count(entries, i) == Cardinality({j \in entries : j <= i})

\* The segments of m_PacketList, each with its rank in the list and the body
\* partition it was paired with (RtEntryOffset, RtFileOffset): the first index
\* partition goes with the first body partition, the second with the second, and
\* those that find no body any more are ignored.
Table(file) ==
  LET bodies  == Bodies(file)
      indexes == Indexes(file)
      Paired  == {pair \in indexes \X bodies : Count(indexes, pair[1]) = Count(bodies, pair[2])}
  IN  UNION {{[rank |-> <<pair[1], j>>, segment |-> Part(file, pair[1]).segs[j],
               body |-> Part(file, pair[2])] :
                 j \in DOMAIN Part(file, pair[1]).segs} : pair \in Paired}

\* AS02IndexReader::GetDuration, the sum of the IndexDurations
Duration(table) ==
  Cardinality(UNION {{<<t.rank, j>> : j \in DOMAIN t.segment.entries} : t \in table})

\* AS02IndexReader::Lookup for a VBR index: the first segment of the list that
\* covers frame number k decides. Offset 0 stands for RESULT_FAIL.
LookupIn(table, k) ==
  LET hits  == {t \in table : /\ t.segment.start <= k
                              /\ k < t.segment.start + Len(t.segment.entries)}
      Before(s, t) == IF s.rank[1] = t.rank[1] THEN s.rank[2] <= t.rank[2]
                      ELSE s.rank[1] < t.rank[1]
      first == CHOOSE t \in hits : \A s \in hits : Before(t, s)
      entry == first.segment.entries[k - first.segment.start + 1]
  IN  IF hits = {} THEN 0
      ELSE entry - first.body.offset + first.body.at + PackLen

Lookup(file, k) == LookupIn(Table(file), k)

=============================================================================
