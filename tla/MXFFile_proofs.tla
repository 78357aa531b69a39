--------------------------- MODULE MXFFile_proofs ---------------------------
(***************************************************************************)
(* What PushIndexEntry does to the segments of an index, for entries of    *)
(* any kind E and any length of a segment: which number each entry has,    *)
(* and how many entries there are.  The proofs about the AS-02 and the     *)
(* AS-DCP index rest on these lemmas.                                      *)
(***************************************************************************)
EXTENDS MXFFile, FiniteSetTheorems, WellFoundedInduction, TLAPS

\* A set of numbers has a smallest one, and a greatest one when it has a bound: the
\* induction over numbers of the proofs that extend this module.
LEMMA Smallest ==
  ASSUME NEW T \in SUBSET Nat, T # {}
  PROVE  \E x \in T : \A y \in T : x <= y
<1> DEFINE R == OpToRel(<, Nat)
<1>1. IsWellFoundedOn(R, Nat)
  BY NatLessThanWellFounded
<1>2. \A x, y \in Nat : x < y => <<x, y>> \in R
  BY DEF OpToRel
<1> HIDE DEF R
<1>3. PICK x \in T : \A y \in T : ~(<<y, x>> \in R)
  BY <1>1, WFMin
<1>4. \A y \in T : y \in Nat /\ x \in Nat /\ ~(y < x)
  BY <1>2, <1>3
<1>5. QED
  BY <1>4

LEMMA Greatest ==
  ASSUME NEW T \in SUBSET Nat, T # {}, NEW top \in Nat, \A x \in T : x <= top
  PROVE  \E x \in T : \A y \in T : y <= x
<1> DEFINE S == {top - x : x \in T}
<1>1. S \in SUBSET Nat /\ S # {}
  <2>1. \A x \in T : top - x \in Nat
    OBVIOUS
  <2>2. QED
    BY <2>1
<1>2. PICK s \in S : \A y \in S : s <= y
  BY <1>1, Smallest
<1>3. PICK x \in T : s = top - x
  OBVIOUS
<1>4. ASSUME NEW y \in T PROVE y <= x
  <2>1. s <= top - y
    BY <1>2
  <2>2. QED
    BY <1>3, <2>1
<1>5. QED
  BY <1>4

LEMMA IntervalFinite == \A n \in Nat : IsFiniteSet(1 .. n)
<1>1. \A n \in Nat : 1 \in Int /\ n \in Int
  OBVIOUS
<1>2. QED
  BY <1>1, FS_Interval

\* A set whose elements can be numbered from 1 to n
LEMMA NumberedSet ==
  ASSUME NEW E, NEW n \in Nat, NEW g \in [E -> 1 .. n],
         \A x, y \in E : g[x] = g[y] => x = y,
         \A k \in 1 .. n : \E x \in E : g[x] = k
  PROVE  Cardinality(E) = n
<1> DEFINE h == [k \in 1 .. n |-> CHOOSE x \in E : g[x] = k]
<1>1. \A k \in 1 .. n : h[k] \in E /\ g[h[k]] = k
  OBVIOUS
<1>2. h \in [1 .. n -> E]
  BY <1>1
<1> HIDE DEF h
<1>3. \A x \in E : g[x] \in 1 .. n /\ h[g[x]] = x
  BY <1>1
<1>4. h \in Injection(1 .. n, E)
  BY <1>1, <1>2 DEF Injection, IsInjective
<1>5. h \in Surjection(1 .. n, E)
  BY <1>2, <1>3 DEF Surjection
<1>6. ExistsBijection(1 .. n, E)
  BY <1>4, <1>5 DEF ExistsBijection, Bijection
<1>7. IsFiniteSet(1 .. n) /\ Cardinality(1 .. n) = n
  <2>1. 1 \in Int /\ n \in Int
    OBVIOUS
  <2>2. Cardinality(1 .. n) = IF 1 > n THEN 0 ELSE n - 1 + 1
    BY <2>1, FS_Interval
  <2>3. (IF 1 > n THEN 0 ELSE n - 1 + 1) = n
    OBVIOUS
  <2>4. QED
    BY <2>2, <2>3, IntervalFinite
<1>8. QED
  BY <1>6, <1>7, FS_Bijection

-----------------------------------------------------------------------------
(* Index segments *)

SegmentsOf(E) == [start : Nat, entries : Seq(E)]

\* The segments number c entries, the last of them at their end
EndsAt(segs, c) ==
  /\ segs = <<>> => c = 0
  /\ segs # <<>> => SegmentEnd(segs[Len(segs)]) = c

\* Entry j of segment i is one that file m already had
Kept(m, a, i, j) ==
  /\ i \in DOMAIN m.segs /\ j \in DOMAIN m.segs[i].entries
  /\ a.segs[i].start = m.segs[i].start
  /\ a.segs[i].entries[j] = m.segs[i].entries[j]

\* The segments of file m hold entries of E, and number c of them
Numbering(m, E, c) ==
  /\ "segs" \in DOMAIN m /\ m.segs \in Seq(SegmentsOf(E))
  /\ EndsAt(m.segs, c)

\* File a has one entry more than m, with number c + 1
OneMore(m, a, c, entry) ==
  /\ EndsAt(a.segs, c + 1)
  /\ \A i \in DOMAIN a.segs : \A j \in DOMAIN a.segs[i].entries :
       \/ Kept(m, a, i, j)
       \/ a.segs[i].start + j = c + 1 /\ a.segs[i].entries[j] = entry

\* A new index entry gets the next number, and every other entry stays what it was,
\* whether a segment is begun, continued or followed by another.
LEMMA PushIndexEntryNumbers ==
  ASSUME NEW E, NEW entry \in E, NEW m, NEW c \in Nat, Numbering(m, E, c)
  PROVE  OneMore(m, PushIndexEntry(m, entry), c, entry)
<1> DEFINE n     == Len(m.segs)
           first == <<[start |-> 0, entries |-> <<entry>>]>>
           next  == [start |-> SegmentEnd(m.segs[n]), entries |-> <<entry>>]
           more  == [m.segs[n] EXCEPT !.entries = Append(@, entry)]
           segs  == IF m.segs = <<>> THEN first
                    ELSE IF Len(m.segs[n].entries) >= EntriesPerSegment
                    THEN Append(m.segs, next)
                    ELSE [m.segs EXCEPT ![n] = more]
           a     == PushIndexEntry(m, entry)
<1>1. "segs" \in DOMAIN m /\ m.segs \in Seq(SegmentsOf(E)) /\ EndsAt(m.segs, c)
  BY DEF Numbering
<1>2. a = [m EXCEPT !.segs = segs]
  BY DEF PushIndexEntry
<1> HIDE DEF a, segs
<1>3. a.segs = segs
  BY <1>1, <1>2
<1> DEFINE Result ==
      /\ segs # <<>> /\ SegmentEnd(segs[Len(segs)]) = c + 1
      /\ \A i \in DOMAIN segs : \A j \in DOMAIN segs[i].entries :
           \/ /\ i \in DOMAIN m.segs /\ j \in DOMAIN m.segs[i].entries
              /\ segs[i].start = m.segs[i].start
              /\ segs[i].entries[j] = m.segs[i].entries[j]
           \/ /\ segs[i].start + j = c + 1
              /\ segs[i].entries[j] = entry
<1>4. ASSUME m.segs = <<>> PROVE Result
  <2>1. segs = first /\ c = 0
    BY <1>1, <1>4 DEF segs, EndsAt
  <2>2. /\ DOMAIN first = {1} /\ Len(first) = 1 /\ first # <<>> /\ first[1].start = 0
        /\ first[1].entries = <<entry>> /\ DOMAIN <<entry>> = {1} /\ Len(<<entry>>) = 1
        /\ <<entry>>[1] = entry
    OBVIOUS
  <2> HIDE DEF first
  <2>3. QED
    BY <2>1, <2>2 DEF SegmentEnd
<1>5. ASSUME m.segs # <<>> PROVE Result
  <2>1. /\ n \in DOMAIN m.segs /\ n \in Nat /\ m.segs[n] \in SegmentsOf(E)
        /\ DOMAIN m.segs = 1 .. n
    BY <1>1, <1>5
  <2>2. SegmentEnd(m.segs[n]) = c
    BY <1>1, <1>5 DEF EndsAt
  <2>3. CASE Len(m.segs[n].entries) >= EntriesPerSegment
    <3>1. segs = Append(m.segs, next)
      BY <1>5, <2>3 DEF segs
    <3>2. /\ next.start = c /\ next.entries = <<entry>>
          /\ DOMAIN <<entry>> = {1} /\ Len(<<entry>>) = 1 /\ <<entry>>[1] = entry
      BY <2>2
    <3>3. next \in SegmentsOf(E)
      BY <3>2 DEF SegmentsOf
    <3> HIDE DEF next
    <3>4. /\ DOMAIN segs = 1 .. n + 1 /\ Len(segs) = n + 1 /\ segs # <<>> /\ segs[n + 1] = next
          /\ \A i \in 1 .. n : segs[i] = m.segs[i]
      BY <1>1, <2>1, <3>1, <3>3
    <3>5. SegmentEnd(segs[Len(segs)]) = c + 1
      BY <3>2, <3>4 DEF SegmentEnd
    <3>6. ASSUME NEW i \in DOMAIN segs, NEW j \in DOMAIN segs[i].entries, i = n + 1
          PROVE  segs[i].start + j = c + 1 /\ segs[i].entries[j] = entry
      BY <3>2, <3>4, <3>6
    <3>7. \A i \in DOMAIN segs : i = n + 1 \/ i \in 1 .. n
      BY <2>1, <3>4
    <3>8. QED
      BY <2>1, <3>4, <3>5, <3>6, <3>7
  <2>4. CASE ~(Len(m.segs[n].entries) >= EntriesPerSegment)
    <3> DEFINE old == m.segs[n].entries
               start == m.segs[n].start
    <3>1. segs = [m.segs EXCEPT ![n] = more]
      BY <1>5, <2>4 DEF segs
    <3>2. old \in Seq(E) /\ start \in Nat
      BY <2>1 DEF SegmentsOf
    <3>3. more.start = start /\ more.entries = Append(old, entry)
      BY <2>1 DEF SegmentsOf
    <3>4. start + Len(old) = c
      BY <2>2 DEF SegmentEnd
    <3> HIDE DEF more, old, start
    <3>5. /\ DOMAIN segs = 1 .. n /\ segs[n] = more /\ \A i \in 1 .. n : i # n => segs[i] = m.segs[i]
      BY <1>1, <2>1, <3>1
    <3>6. Len(segs) = n /\ segs # <<>>
      BY <1>1, <2>1, <3>1, <3>5
    <3>7. /\ DOMAIN more.entries = 1 .. Len(old) + 1 /\ Len(more.entries) = Len(old) + 1
          /\ more.entries[Len(old) + 1] = entry /\ Len(old) \in Nat
          /\ \A j \in 1 .. Len(old) : more.entries[j] = old[j]
          /\ DOMAIN old = 1 .. Len(old)
      BY <3>2, <3>3
    <3>8. start + (Len(old) + 1) = c + 1
      BY <3>2, <3>4, <3>7
    <3>9. SegmentEnd(segs[Len(segs)]) = c + 1
      BY <3>3, <3>5, <3>6, <3>7, <3>8 DEF SegmentEnd
    <3>10. ASSUME NEW i \in DOMAIN segs, NEW j \in DOMAIN segs[i].entries, i = n
           PROVE  \/ /\ j \in DOMAIN m.segs[i].entries
                     /\ segs[i].start = m.segs[i].start
                     /\ segs[i].entries[j] = m.segs[i].entries[j]
                  \/ /\ segs[i].start + j = c + 1
                     /\ segs[i].entries[j] = entry
      <4>1. j \in 1 .. Len(old) + 1 /\ segs[i] = more
        BY <3>5, <3>7, <3>10
      <4>2. j = Len(old) + 1 \/ j \in 1 .. Len(old)
        BY <3>7, <4>1
      <4>3. CASE j = Len(old) + 1
        BY <3>3, <3>7, <3>8, <4>1, <4>3
      <4>4. CASE j \in 1 .. Len(old)
        BY <3>3, <3>7, <3>10, <4>1, <4>4 DEF old, start
      <4>5. QED
        BY <4>2, <4>3, <4>4
    <3>11. QED
      BY <2>1, <3>5, <3>6, <3>9, <3>10
  <2>5. QED
    BY <2>3, <2>4
<1>6. Result
  BY <1>4, <1>5
<1>7. QED
  BY <1>3, <1>6 DEF OneMore, EndsAt, Kept, a

\* No entry of file m is lost in a, and one alone is new
NoneLost(m, a, c, entry) ==
  /\ \A i \in DOMAIN m.segs : \A j \in DOMAIN m.segs[i].entries :
       i \in DOMAIN a.segs /\ j \in DOMAIN a.segs[i].entries /\ Kept(m, a, i, j)
  /\ \E i \in DOMAIN a.segs : \E j \in DOMAIN a.segs[i].entries :
       /\ a.segs[i].start + j = c + 1 /\ a.segs[i].entries[j] = entry
       /\ \A i2 \in DOMAIN a.segs : \A j2 \in DOMAIN a.segs[i2].entries :
            Kept(m, a, i2, j2) \/ (i2 = i /\ j2 = j)

LEMMA PushIndexEntryKeeps ==
  ASSUME NEW E, NEW entry \in E, NEW m, NEW c \in Nat, Numbering(m, E, c)
  PROVE  NoneLost(m, PushIndexEntry(m, entry), c, entry)
<1> DEFINE n     == Len(m.segs)
           first == <<[start |-> 0, entries |-> <<entry>>]>>
           next  == [start |-> SegmentEnd(m.segs[n]), entries |-> <<entry>>]
           more  == [m.segs[n] EXCEPT !.entries = Append(@, entry)]
           segs  == IF m.segs = <<>> THEN first
                    ELSE IF Len(m.segs[n].entries) >= EntriesPerSegment
                    THEN Append(m.segs, next)
                    ELSE [m.segs EXCEPT ![n] = more]
           a     == PushIndexEntry(m, entry)
<1>1. "segs" \in DOMAIN m /\ m.segs \in Seq(SegmentsOf(E)) /\ EndsAt(m.segs, c)
  BY DEF Numbering
<1>2. a = [m EXCEPT !.segs = segs]
  BY DEF PushIndexEntry
<1> HIDE DEF a, segs
<1>3. a.segs = segs
  BY <1>1, <1>2
<1> HIDE DEF first, next, more
<1> DEFINE Same(i, j) ==
             /\ i \in DOMAIN m.segs /\ j \in DOMAIN m.segs[i].entries
             /\ segs[i].start = m.segs[i].start /\ segs[i].entries[j] = m.segs[i].entries[j]
           All == \A i \in DOMAIN m.segs : \A j \in DOMAIN m.segs[i].entries :
                    i \in DOMAIN segs /\ j \in DOMAIN segs[i].entries /\ Same(i, j)
           New(i, j) ==
             /\ i \in DOMAIN segs /\ j \in DOMAIN segs[i].entries
             /\ segs[i].start + j = c + 1 /\ segs[i].entries[j] = entry
             /\ \A i2 \in DOMAIN segs : \A j2 \in DOMAIN segs[i2].entries :
                  Same(i2, j2) \/ (i2 = i /\ j2 = j)
<1>4. ASSUME m.segs = <<>> PROVE All /\ New(1, 1)
  <2>1. segs = first /\ c = 0
    BY <1>1, <1>4 DEF segs, EndsAt
  <2>2. /\ DOMAIN first = {1} /\ first[1].start = 0
        /\ first[1].entries = <<entry>> /\ DOMAIN <<entry>> = {1} /\ <<entry>>[1] = entry
    BY DEF first
  <2>3. All
    BY <1>4
  <2>4. New(1, 1)
    BY <2>1, <2>2
  <2>5. QED
    BY <2>3, <2>4
<1>5. ASSUME m.segs # <<>> PROVE \E i, j : All /\ New(i, j)
  <2>1. /\ n \in DOMAIN m.segs /\ n \in Nat /\ m.segs[n] \in SegmentsOf(E)
        /\ DOMAIN m.segs = 1 .. n
    BY <1>1, <1>5
  <2>2. SegmentEnd(m.segs[n]) = c
    BY <1>1, <1>5 DEF EndsAt
  <2>3. CASE Len(m.segs[n].entries) >= EntriesPerSegment
    <3>1. segs = Append(m.segs, next)
      BY <1>5, <2>3 DEF segs
    <3>2. /\ next.start = c /\ next.entries = <<entry>> /\ next \in SegmentsOf(E)
          /\ DOMAIN <<entry>> = {1} /\ <<entry>>[1] = entry
      BY <2>2 DEF next, SegmentsOf
    <3>3. /\ DOMAIN segs = 1 .. n + 1 /\ segs[n + 1] = next
          /\ \A i \in 1 .. n : segs[i] = m.segs[i] /\ i \in 1 .. n + 1
      BY <1>1, <2>1, <3>1, <3>2
    <3>4. \A i \in DOMAIN segs : i = n + 1 \/ i \in 1 .. n
      BY <2>1, <3>3
    <3>5. n + 1 \in DOMAIN segs
      BY <2>1, <3>3
    <3>6. All
      BY <2>1, <3>3
    <3>7. New(n + 1, 1)
      BY <2>1, <3>2, <3>3, <3>4, <3>5
    <3>8. QED
      BY <3>6, <3>7
  <2>4. CASE ~(Len(m.segs[n].entries) >= EntriesPerSegment)
    <3> DEFINE old == m.segs[n].entries
               start == m.segs[n].start
    <3>1. segs = [m.segs EXCEPT ![n] = more]
      BY <1>5, <2>4 DEF segs
    <3>2. old \in Seq(E) /\ start \in Nat
      BY <2>1 DEF SegmentsOf
    <3>3. more.start = start /\ more.entries = Append(old, entry)
      BY <2>1 DEF SegmentsOf, more
    <3>4. start + Len(old) = c
      BY <2>2 DEF SegmentEnd
    <3> HIDE DEF old, start
    <3>5. /\ DOMAIN segs = 1 .. n /\ segs[n] = more /\ \A i \in 1 .. n : i # n => segs[i] = m.segs[i]
      BY <1>1, <2>1, <3>1
    <3>6. /\ DOMAIN more.entries = 1 .. Len(old) + 1
          /\ more.entries[Len(old) + 1] = entry /\ Len(old) \in Nat
          /\ \A j \in 1 .. Len(old) : more.entries[j] = old[j] /\ j \in 1 .. Len(old) + 1
          /\ DOMAIN old = 1 .. Len(old) /\ Len(old) + 1 \in 1 .. Len(old) + 1
      BY <3>2, <3>3
    <3>7. start + (Len(old) + 1) = c + 1
      BY <3>2, <3>4, <3>6
    <3>8. \A j \in DOMAIN more.entries : j = Len(old) + 1 \/ j \in DOMAIN old
      BY <3>6
    <3>9. All
      BY <2>1, <3>3, <3>5, <3>6 DEF old, start
    <3>10. \A i2 \in DOMAIN segs : \A j2 \in DOMAIN segs[i2].entries :
             Same(i2, j2) \/ (i2 = n /\ j2 = Len(old) + 1)
      <4>1. ASSUME NEW i2 \in DOMAIN segs, NEW j2 \in DOMAIN segs[i2].entries, i2 # n
            PROVE  Same(i2, j2)
        BY <2>1, <3>5, <4>1
      <4>2. ASSUME NEW j2 \in DOMAIN segs[n].entries, j2 # Len(old) + 1
            PROVE  Same(n, j2)
        BY <2>1, <3>3, <3>5, <3>6, <3>8, <4>2 DEF old, start
      <4>3. QED
        BY <4>1, <4>2
    <3>11. New(n, Len(old) + 1)
      BY <2>1, <3>3, <3>5, <3>6, <3>7, <3>10
    <3>12. QED
      BY <3>9, <3>11
  <2>5. QED
    BY <2>3, <2>4
<1>6. PICK i, j : All /\ New(i, j)
  BY <1>4, <1>5
<1>7. QED
  BY <1>3, <1>6 DEF NoneLost, Kept, a

-----------------------------------------------------------------------------
(* Counting the entries *)

\* The entries have the numbers 1 to c, no two of them the same
Enumerated(segs, c) ==
  /\ EndsAt(segs, c)
  /\ \A i \in DOMAIN segs : \A j \in DOMAIN segs[i].entries : segs[i].start + j \in 1 .. c
  /\ \A i1, i2 \in DOMAIN segs :
       \A j1 \in DOMAIN segs[i1].entries, j2 \in DOMAIN segs[i2].entries :
         segs[i1].start + j1 = segs[i2].start + j2 => i1 = i2 /\ j1 = j2
  /\ \A n \in 1 .. c :
       \E i \in DOMAIN segs : \E j \in DOMAIN segs[i].entries : segs[i].start + j = n

EntriesOf(segs) == UNION {{<<i, j>> : j \in DOMAIN segs[i].entries} : i \in DOMAIN segs}

LEMMA EntriesOfIs ==
  ASSUME NEW segs
  PROVE  \A x : x \in EntriesOf(segs) <=>
           \E i \in DOMAIN segs : \E j \in DOMAIN segs[i].entries : x = <<i, j>>
  BY DEF EntriesOf

\* There are c of them.
LEMMA EnumeratedCount ==
  ASSUME NEW segs, NEW c \in Nat, Enumerated(segs, c)
  PROVE  Cardinality(EntriesOf(segs)) = c
<1> DEFINE E == EntriesOf(segs)
           g == [x \in E |-> segs[x[1]].start + x[2]]
<1>1. \A x : x \in E <=> \E i \in DOMAIN segs : \E j \in DOMAIN segs[i].entries : x = <<i, j>>
  BY EntriesOfIs
<1> HIDE DEF E
<1>2. ASSUME NEW i \in DOMAIN segs, NEW j \in DOMAIN segs[i].entries
      PROVE  <<i, j>> \in E /\ g[<<i, j>>] = segs[i].start + j
  <2> DEFINE x == <<i, j>>
  <2>1. x \in E /\ x[1] = i /\ x[2] = j
    BY <1>1
  <2> HIDE DEF x
  <2>2. g[x] = segs[i].start + j
    BY <2>1
  <2>3. QED
    BY <2>1, <2>2 DEF x
<1>3. DOMAIN g = E
  OBVIOUS
<1>4. \A x : g[x] = g[x]
  OBVIOUS
<1>5. g = [x \in E |-> g[x]]
  OBVIOUS
<1> HIDE DEF g
<1>6. \A x \in E : g[x] \in 1 .. c
  BY <1>1, <1>2 DEF Enumerated
<1>7. g \in [E -> 1 .. c]
  BY <1>5, <1>6
<1>8. ASSUME NEW x \in E, NEW y \in E, g[x] = g[y] PROVE x = y
  <2>1. PICK i1 \in DOMAIN segs : \E j1 \in DOMAIN segs[i1].entries : x = <<i1, j1>>
    BY <1>1
  <2>2. PICK j1 \in DOMAIN segs[i1].entries : x = <<i1, j1>>
    BY <2>1
  <2>3. PICK i2 \in DOMAIN segs : \E j2 \in DOMAIN segs[i2].entries : y = <<i2, j2>>
    BY <1>1
  <2>4. PICK j2 \in DOMAIN segs[i2].entries : y = <<i2, j2>>
    BY <2>3
  <2>5. segs[i1].start + j1 = segs[i2].start + j2
    BY <1>2, <1>8, <2>2, <2>4
  <2>6. i1 = i2 /\ j1 = j2
    BY <2>5 DEF Enumerated
  <2>7. QED
    BY <2>2, <2>4, <2>6
<1>9. ASSUME NEW n \in 1 .. c PROVE \E x \in E : g[x] = n
  <2>1. PICK i \in DOMAIN segs : \E j \in DOMAIN segs[i].entries : segs[i].start + j = n
    BY DEF Enumerated
  <2>2. PICK j \in DOMAIN segs[i].entries : segs[i].start + j = n
    BY <2>1
  <2>3. QED
    BY <1>2, <2>2
<1>10. Cardinality(E) = c
  BY <1>7, <1>8, <1>9, NumberedSet
<1>11. QED
  BY <1>10 DEF E

\* A new entry keeps the entries numbered without a gap.
LEMMA PushIndexEntryEnumerates ==
  ASSUME NEW E, NEW entry \in E, NEW m, NEW c \in Nat, Numbering(m, E, c), Enumerated(m.segs, c)
  PROVE  Enumerated(PushIndexEntry(m, entry).segs, c + 1)
<1> DEFINE a == PushIndexEntry(m, entry)
<1>1. OneMore(m, a, c, entry) /\ NoneLost(m, a, c, entry)
  BY PushIndexEntryNumbers, PushIndexEntryKeeps
<1> HIDE DEF a
<1>2. EndsAt(a.segs, c + 1)
  BY <1>1 DEF OneMore
<1>3. ASSUME NEW i \in DOMAIN a.segs, NEW j \in DOMAIN a.segs[i].entries
      PROVE  \/ Kept(m, a, i, j) /\ a.segs[i].start + j \in 1 .. c
             \/ a.segs[i].start + j = c + 1
  <2>1. Kept(m, a, i, j) \/ a.segs[i].start + j = c + 1
    BY <1>1 DEF OneMore
  <2>2. ASSUME Kept(m, a, i, j) PROVE a.segs[i].start + j \in 1 .. c
    BY <2>2 DEF Kept, Enumerated
  <2>3. QED
    BY <2>1, <2>2
<1>4. PICK i0 \in DOMAIN a.segs : \E j0 \in DOMAIN a.segs[i0].entries :
        /\ a.segs[i0].start + j0 = c + 1
        /\ \A i2 \in DOMAIN a.segs : \A j2 \in DOMAIN a.segs[i2].entries :
             Kept(m, a, i2, j2) \/ (i2 = i0 /\ j2 = j0)
  BY <1>1 DEF NoneLost
<1>5. PICK j0 \in DOMAIN a.segs[i0].entries :
        /\ a.segs[i0].start + j0 = c + 1
        /\ \A i2 \in DOMAIN a.segs : \A j2 \in DOMAIN a.segs[i2].entries :
             Kept(m, a, i2, j2) \/ (i2 = i0 /\ j2 = j0)
  BY <1>4
<1>6. \A i \in DOMAIN a.segs : \A j \in DOMAIN a.segs[i].entries : a.segs[i].start + j \in 1 .. c + 1
  <2>1. SUFFICES ASSUME NEW i \in DOMAIN a.segs, NEW j \in DOMAIN a.segs[i].entries
                 PROVE  a.segs[i].start + j \in 1 .. c + 1
    OBVIOUS
  <2>2. a.segs[i].start + j \in 1 .. c \/ a.segs[i].start + j = c + 1
    BY <1>3
  <2>3. QED
    BY <2>2
<1>7. ASSUME NEW i1 \in DOMAIN a.segs, NEW i2 \in DOMAIN a.segs,
             NEW j1 \in DOMAIN a.segs[i1].entries, NEW j2 \in DOMAIN a.segs[i2].entries,
             a.segs[i1].start + j1 = a.segs[i2].start + j2
      PROVE  i1 = i2 /\ j1 = j2
  <2>1. CASE Kept(m, a, i1, j1) /\ Kept(m, a, i2, j2)
    BY <1>7, <2>1 DEF Kept, Enumerated
  <2>2. CASE ~Kept(m, a, i1, j1) /\ ~Kept(m, a, i2, j2)
    BY <1>5, <2>2
  <2>3. ASSUME Kept(m, a, i1, j1), ~Kept(m, a, i2, j2) PROVE FALSE
    <3>1. a.segs[i1].start + j1 \in 1 .. c
      BY <2>3 DEF Kept, Enumerated
    <3>2. a.segs[i2].start + j2 = c + 1
      BY <1>3, <2>3
    <3>3. QED
      BY <1>7, <3>1, <3>2
  <2>4. ASSUME ~Kept(m, a, i1, j1), Kept(m, a, i2, j2) PROVE FALSE
    <3>1. a.segs[i2].start + j2 \in 1 .. c
      BY <2>4 DEF Kept, Enumerated
    <3>2. a.segs[i1].start + j1 = c + 1
      BY <1>3, <2>4
    <3>3. QED
      BY <1>7, <3>1, <3>2
  <2>5. QED
    BY <2>1, <2>2, <2>3, <2>4
<1>8. ASSUME NEW n \in 1 .. c + 1
      PROVE  \E i \in DOMAIN a.segs : \E j \in DOMAIN a.segs[i].entries : a.segs[i].start + j = n
  <2>1. CASE n = c + 1
    BY <1>5, <2>1
  <2>2. CASE n # c + 1
    <3>1. n \in 1 .. c
      BY <2>2
    <3>2. PICK i \in DOMAIN m.segs : \E j \in DOMAIN m.segs[i].entries : m.segs[i].start + j = n
      BY <3>1 DEF Enumerated
    <3>3. PICK j \in DOMAIN m.segs[i].entries : m.segs[i].start + j = n
      BY <3>2
    <3>4. i \in DOMAIN a.segs /\ j \in DOMAIN a.segs[i].entries /\ Kept(m, a, i, j)
      BY <1>1, <3>3 DEF NoneLost
    <3>5. QED
      BY <3>3, <3>4 DEF Kept
  <2>3. QED
    BY <2>1, <2>2
<1>9. Enumerated(a.segs, c + 1)
  BY <1>2, <1>6, <1>7, <1>8 DEF Enumerated
<1>10. QED
  BY <1>9 DEF a

=============================================================================
