-------------------------- MODULE ClipFile_proofs ---------------------------
(***************************************************************************)
(* ClipReadsBack, proved for every value of the constants: every length of *)
(* a sample, of a reader's frame and of the buffers that are written.  The *)
(* invariant is about the file that is being written: how far the clip is  *)
(* known to hold the accepted buffers, and which index segments the reader *)
(* of an IAB clip will use, those of the first index partition or, before  *)
(* there is one, the pending ones.                                         *)
(***************************************************************************)
EXTENDS ClipFile, MXFFile_proofs, TLAPS

-----------------------------------------------------------------------------
(* Types *)

CellKinds == {"key", "length", "byte", "size", "text"}
Cell == CellKinds \X Nat

Shape(m) ==
  /\ m = [pos |-> m.pos, parts |-> m.parts, rip |-> m.rip, disk |-> m.disk, segs |-> m.segs, cells |-> m.cells,
          stream |-> m.stream, queued |-> m.queued]
  /\ m.pos \in Nat /\ m.rip \in Seq(Pair) /\ m.segs \in Seq(SegmentsOf(Nat)) /\ m.stream \in Nat
  /\ m.queued \in Seq(Cell)
  /\ DOMAIN m.cells \subseteq Nat /\ \A o \in DOMAIN m.cells : m.cells[o] \in Cell

\* File a has what m has but for the fields that cells are written to
SameParts(m, a) ==
  a.parts = m.parts /\ a.rip = m.rip /\ a.disk = m.disk /\ a.segs = m.segs /\ a.stream = m.stream /\ a.queued = m.queued

\* Offset o is not written to when the cells are put at pos
Aside(o, pos, cells) == o < pos \/ o >= pos + Len(cells)

Puts(m, a, pos, cells) ==
  /\ DOMAIN m.cells \subseteq DOMAIN a.cells
  /\ \A i \in DOMAIN cells : pos + i - 1 \in DOMAIN a.cells /\ a.cells[pos + i - 1] = cells[i]
  /\ \A o \in DOMAIN m.cells : Aside(o, pos, cells) => a.cells[o] = m.cells[o]

LEMMA PutCellsDoes ==
  ASSUME NEW m, Shape(m), NEW cells \in Seq(Cell)
  PROVE  LET a == PutCells(m, cells)
         IN  Shape(a) /\ SameParts(m, a) /\ a.pos = m.pos + Len(cells) /\ Puts(m, a, m.pos, cells)
<1> DEFINE new == m.pos .. m.pos + Len(cells) - 1
           put == [o \in DOMAIN m.cells \cup new |-> IF o \in new THEN cells[o - m.pos + 1] ELSE m.cells[o]]
           a == PutCells(m, cells)
<1>1. m.pos \in Nat /\ Len(cells) \in Nat /\ DOMAIN cells = 1 .. Len(cells)
  BY DEF Shape
<1>2. DOMAIN put = DOMAIN m.cells \cup new
  OBVIOUS
<1>3. \A o \in new : o \in Nat /\ o - m.pos + 1 \in DOMAIN cells /\ put[o] = cells[o - m.pos + 1]
  BY <1>1
<1>4. \A o \in DOMAIN m.cells : o \notin new => put[o] = m.cells[o]
  OBVIOUS
<1>5. \A o \in DOMAIN put : put[o] \in Cell
  <2> SUFFICES ASSUME NEW o \in DOMAIN put PROVE put[o] \in Cell
    OBVIOUS
  <2>1. CASE o \in new
    <3>1. \A k \in DOMAIN cells : cells[k] \in Cell
      OBVIOUS
    <3>2. QED
      BY ONLY <1>3, <2>1, <3>1
  <2>2. CASE o \notin new
    BY <1>2, <1>4, <2>2 DEF Shape
  <2>3. QED
    BY <2>1, <2>2
<1>6. DOMAIN put \subseteq Nat
  BY <1>2, <1>3 DEF Shape
<1>7. \A i \in DOMAIN cells : m.pos + i - 1 \in DOMAIN put /\ put[m.pos + i - 1] = cells[i]
  <2> SUFFICES ASSUME NEW i \in DOMAIN cells PROVE m.pos + i - 1 \in DOMAIN put /\ put[m.pos + i - 1] = cells[i]
    OBVIOUS
  <2>1. m.pos + i - 1 \in new /\ (m.pos + i - 1) - m.pos + 1 = i
    BY <1>1
  <2>2. QED
    BY <1>2, <1>3, <2>1
<1>8. \A o \in DOMAIN m.cells : Aside(o, m.pos, cells) => put[o] = m.cells[o]
  BY <1>1, <1>4 DEF Aside, Shape
<1>9. a = [m EXCEPT !.cells = put, !.pos = @ + Len(cells)]
  BY DEF PutCells
<1> HIDE DEF put, a, new
<1>10. /\ a = [pos |-> a.pos, parts |-> a.parts, rip |-> a.rip, disk |-> a.disk, segs |-> a.segs, cells |-> a.cells,
               stream |-> a.stream, queued |-> a.queued]
       /\ a.pos = m.pos + Len(cells) /\ a.cells = put /\ SameParts(m, a)
  BY <1>9 DEF Shape, SameParts
<1>11. Shape(a)
  BY <1>1, <1>5, <1>6, <1>10 DEF Shape, SameParts
<1>12. Puts(m, a, m.pos, cells)
  BY <1>2, <1>7, <1>8, <1>10 DEF Puts
<1>13. QED
  BY <1>10, <1>11, <1>12 DEF a

\* The cells from an offset on are these.
HoldsAt(m, at, bytes) ==
  \A i \in 1 .. Len(bytes) : at + i - 1 \in DOMAIN m.cells /\ m.cells[at + i - 1] = bytes[i]

LEMMA HoldsKept ==
  ASSUME NEW m, Shape(m), NEW a, NEW pos \in Nat, NEW cells \in Seq(Cell), Puts(m, a, pos, cells),
         NEW at \in Nat, NEW bytes \in Seq(Cell), HoldsAt(m, at, bytes),
         at + Len(bytes) <= pos \/ pos + Len(cells) <= at
  PROVE  HoldsAt(a, at, bytes)
<1> SUFFICES ASSUME NEW i \in 1 .. Len(bytes)
             PROVE  at + i - 1 \in DOMAIN a.cells /\ a.cells[at + i - 1] = bytes[i]
  BY DEF HoldsAt
<1>1. at + i - 1 \in DOMAIN m.cells /\ m.cells[at + i - 1] = bytes[i]
  BY DEF HoldsAt
<1>2. Len(cells) \in Nat /\ Len(bytes) \in Nat /\ i \in Nat /\ 1 <= i /\ i <= Len(bytes)
  OBVIOUS
<1>3. Aside(at + i - 1, pos, cells)
  BY <1>2 DEF Aside
<1>4. QED
  BY <1>1, <1>3 DEF Puts

LEMMA HoldsPut ==
  ASSUME NEW m, NEW a, NEW pos, NEW cells \in Seq(Cell), Puts(m, a, pos, cells)
  PROVE  HoldsAt(a, pos, cells)
  BY DEF Puts, HoldsAt

\* A sequence of cells followed by another one
LEMMA HoldsMore ==
  ASSUME NEW m, NEW at \in Nat, NEW bytes \in Seq(Cell), NEW cells \in Seq(Cell),
         HoldsAt(m, at, bytes), HoldsAt(m, at + Len(bytes), cells)
  PROVE  HoldsAt(m, at, bytes \o cells)
<1> SUFFICES ASSUME NEW i \in 1 .. Len(bytes \o cells)
             PROVE  at + i - 1 \in DOMAIN m.cells /\ m.cells[at + i - 1] = (bytes \o cells)[i]
  BY DEF HoldsAt
<1>1. Len(bytes) \in Nat /\ Len(cells) \in Nat /\ Len(bytes \o cells) = Len(bytes) + Len(cells)
  OBVIOUS
<1>2. CASE i <= Len(bytes)
  <2>1. i \in 1 .. Len(bytes) /\ (bytes \o cells)[i] = bytes[i]
    BY <1>1, <1>2
  <2>2. QED
    BY <2>1 DEF HoldsAt
<1>3. CASE ~(i <= Len(bytes))
  <2> DEFINE j == i - Len(bytes)
  <2>1. j \in 1 .. Len(cells) /\ (bytes \o cells)[i] = cells[j] /\ at + i - 1 = (at + Len(bytes)) + j - 1
    BY <1>1, <1>3
  <2> HIDE DEF j
  <2>2. QED
    BY <2>1 DEF HoldsAt
<1>4. QED
  BY <1>2, <1>3

-----------------------------------------------------------------------------
(* Packs and the Random Index Pack *)

\* The packs and the RIP while the file is written. An entry of the RIP leads to a
\* pack, or to where one was lost.
Layout(m) ==
  /\ m.pos >= PackLen + PackLen
  /\ \A p \in m.parts : p.at \in Nat /\ p.at < m.pos
  /\ \A p, q \in m.parts : p.at = q.at => p = q
  /\ NewPack(0, "header", 0) \in m.parts /\ NewPack(PackLen, "body", 1) \in m.parts
  /\ Len(m.rip) >= 2 /\ m.rip[1] = [sid |-> 0, at |-> 0] /\ m.rip[2] = [sid |-> 1, at |-> PackLen]
  /\ \A i \in DOMAIN m.rip : i # 2 => m.rip[i].sid # 1
  /\ \A i \in DOMAIN m.rip : m.rip[i].at <= m.pos
  /\ \A i, j \in DOMAIN m.rip : i < j => m.rip[i].at <= m.rip[j].at

\* What entry i of the RIP leads to
Listed(m, i) == PackAt(m, m.rip[i].at)

\* File a has one entry of the RIP more than m.
Lists(m, a, sid) == a.rip = Append(m.rip, [sid |-> sid, at |-> m.pos]) /\ a.cells = m.cells

\* With a pack for it
Adds(m, a, pack, sid) ==
  pack.at = m.pos /\ a.pos = m.pos + PackLen /\ a.parts = m.parts \cup {pack} /\ Lists(m, a, sid)

\* With a pack that was lost
Loses(m, a, sid) == a.pos \in Nat /\ a.pos >= m.pos /\ a.parts = m.parts /\ Lists(m, a, sid)

LEMMA PackAtIs == ASSUME NEW m, Layout(m), NEW p \in m.parts PROVE PackAt(m, p.at) = p
  BY DEF PackAt, Layout

\* One more entry
LEMMA RipGrows ==
  ASSUME NEW m, Shape(m), NEW a, NEW sid \in Nat, Lists(m, a, sid)
  PROVE  /\ Len(a.rip) = Len(m.rip) + 1 /\ DOMAIN a.rip = DOMAIN m.rip \cup {Len(m.rip) + 1}
         /\ \A i \in DOMAIN m.rip : a.rip[i] = m.rip[i]
         /\ a.rip[Len(m.rip) + 1] = [sid |-> sid, at |-> m.pos]
         /\ Len(m.rip) \in Nat /\ DOMAIN m.rip = 1 .. Len(m.rip)
         /\ \A i \in DOMAIN m.rip : m.rip[i].at \in Nat
<1>1. m.pos \in Nat /\ m.rip \in Seq(Pair)
  BY DEF Shape
<1>2. [sid |-> sid, at |-> m.pos] \in Pair
  BY <1>1 DEF Pair
<1>3. \A r \in Seq(Pair), x \in Pair :
        /\ Len(Append(r, x)) = Len(r) + 1 /\ DOMAIN Append(r, x) = DOMAIN r \cup {Len(r) + 1}
        /\ \A i \in DOMAIN r : Append(r, x)[i] = r[i]
        /\ Append(r, x)[Len(r) + 1] = x /\ Len(r) \in Nat /\ DOMAIN r = 1 .. Len(r)
        /\ \A i \in DOMAIN r : r[i].at \in Nat
  <2>1. \A x \in Pair : x.at \in Nat
    BY DEF Pair
  <2>2. QED
    BY <2>1
<1>4. a.rip = Append(m.rip, [sid |-> sid, at |-> m.pos])
  BY DEF Lists
<1>5. QED
  BY ONLY <1>1, <1>2, <1>3, <1>4

\* The RIP stays in order when an entry is added.
LEMMA RipOrdered ==
  ASSUME NEW m, Shape(m), Layout(m), NEW a, NEW sid \in Nat \ {1}, Lists(m, a, sid), a.pos \in Nat, a.pos >= m.pos
  PROVE  /\ Len(a.rip) >= 2 /\ a.rip[1] = [sid |-> 0, at |-> 0] /\ a.rip[2] = [sid |-> 1, at |-> PackLen]
         /\ \A i \in DOMAIN a.rip : i # 2 => a.rip[i].sid # 1
         /\ \A i \in DOMAIN a.rip : a.rip[i].at <= a.pos
         /\ \A i, j \in DOMAIN a.rip : i < j => a.rip[i].at <= a.rip[j].at
<1> DEFINE n == Len(m.rip)
<1>1. /\ Len(a.rip) = n + 1 /\ DOMAIN a.rip = 1 .. n + 1 /\ \A i \in 1 .. n : a.rip[i] = m.rip[i]
      /\ a.rip[n + 1].sid = sid /\ a.rip[n + 1].at = m.pos /\ n \in Nat /\ DOMAIN m.rip = 1 .. n
      /\ \A i \in 1 .. n : m.rip[i].at \in Nat
  <2>1. /\ Len(a.rip) = n + 1 /\ DOMAIN a.rip = DOMAIN m.rip \cup {n + 1}
        /\ \A i \in DOMAIN m.rip : a.rip[i] = m.rip[i]
        /\ a.rip[n + 1] = [sid |-> sid, at |-> m.pos]
        /\ n \in Nat /\ DOMAIN m.rip = 1 .. n /\ \A i \in DOMAIN m.rip : m.rip[i].at \in Nat
    BY RipGrows
  <2> HIDE DEF n
  <2>2. 1 .. n + 1 = (1 .. n) \cup {n + 1}
    BY <2>1
  <2>3. QED
    BY <2>1, <2>2
<1>2. /\ n >= 2 /\ m.rip[1] = [sid |-> 0, at |-> 0] /\ m.rip[2] = [sid |-> 1, at |-> PackLen]
      /\ \A i \in 1 .. n : i # 2 => m.rip[i].sid # 1
      /\ \A i \in 1 .. n : m.rip[i].at <= m.pos
      /\ \A i, j \in 1 .. n : i < j => m.rip[i].at <= m.rip[j].at
  BY <1>1 DEF Layout
<1>3. m.pos \in Nat
  BY DEF Shape
<1> HIDE DEF n
<1>4. \A i \in 1 .. n + 1 : i \in 1 .. n \/ i = n + 1
  BY <1>1
<1>5. 1 \in 1 .. n /\ 2 \in 1 .. n /\ n + 1 >= 2
  BY <1>1, <1>2
<1>6. \A i \in DOMAIN a.rip : i # 2 => a.rip[i].sid # 1
  BY <1>1, <1>2, <1>4
<1>7. \A i \in DOMAIN a.rip : a.rip[i].at <= m.pos /\ a.rip[i].at \in Nat
  BY <1>1, <1>2, <1>3, <1>4
<1>8. \A i \in DOMAIN a.rip : a.rip[i].at <= a.pos
  BY <1>3, <1>7
<1>9. ASSUME NEW i \in DOMAIN a.rip, NEW j \in DOMAIN a.rip, i < j PROVE a.rip[i].at <= a.rip[j].at
  <2>1. i \in 1 .. n
    BY <1>1, <1>9
  <2>2. CASE j \in 1 .. n
    BY <1>1, <1>2, <1>9, <2>1, <2>2
  <2>3. CASE j = n + 1
    BY <1>1, <1>7, <2>3
  <2>4. QED
    BY <1>1, <1>4, <2>2, <2>3
<1>10. QED
  BY <1>1, <1>2, <1>5, <1>6, <1>8, <1>9

LEMMA LayoutAdds ==
  ASSUME ClipAssumption, NEW m, Shape(m), Layout(m), NEW a, NEW pack, NEW sid \in Nat \ {1}, Adds(m, a, pack, sid)
  PROVE  Layout(a) /\ (RipResolves(m) => RipResolves(a))
<1>1. PackLen \in Nat \ {0} /\ m.pos \in Nat
  BY DEF ClipAssumption, Shape
<1>2. a.pos = m.pos + PackLen /\ a.parts = m.parts \cup {pack} /\ pack.at = m.pos /\ Lists(m, a, sid)
  BY DEF Adds
<1>3. a.pos \in Nat /\ a.pos >= m.pos
  BY <1>1, <1>2
<1>4. /\ Len(a.rip) >= 2 /\ a.rip[1] = [sid |-> 0, at |-> 0] /\ a.rip[2] = [sid |-> 1, at |-> PackLen]
      /\ \A i \in DOMAIN a.rip : i # 2 => a.rip[i].sid # 1
      /\ \A i \in DOMAIN a.rip : a.rip[i].at <= a.pos
      /\ \A i, j \in DOMAIN a.rip : i < j => a.rip[i].at <= a.rip[j].at
  BY <1>2, <1>3, RipOrdered
<1>5. \A p \in a.parts : p.at \in Nat /\ p.at < a.pos
  BY <1>1, <1>2 DEF Layout
<1>6. \A p, q \in a.parts : p.at = q.at => p = q
  BY <1>1, <1>2 DEF Layout
<1>7. a.pos >= PackLen + PackLen
  BY <1>1, <1>2 DEF Layout
<1>8. NewPack(0, "header", 0) \in a.parts /\ NewPack(PackLen, "body", 1) \in a.parts
  BY <1>2 DEF Layout
<1>9. Layout(a)
  BY <1>4, <1>5, <1>6, <1>7, <1>8 DEF Layout
<1>10. ASSUME RipResolves(m) PROVE RipResolves(a)
  <2>1. /\ DOMAIN a.rip = DOMAIN m.rip \cup {Len(m.rip) + 1} /\ \A i \in DOMAIN m.rip : a.rip[i] = m.rip[i]
        /\ a.rip[Len(m.rip) + 1] = [sid |-> sid, at |-> m.pos]
    BY <1>2, RipGrows
  <2>2. a.rip[Len(m.rip) + 1].at = m.pos
    BY <2>1
  <2>3. QED
    BY <1>2, <1>10, <2>1, <2>2 DEF RipResolves, Resolves
<1>11. QED
  BY <1>9, <1>10

\* A lost pack, and cells, leave the packs where they are.
LEMMA LayoutLoses ==
  ASSUME NEW m, Shape(m), Layout(m), NEW a, NEW sid \in Nat \ {1}, Loses(m, a, sid), ClipAssumption
  PROVE  Layout(a)
<1>1. a.pos \in Nat /\ a.pos >= m.pos /\ a.parts = m.parts /\ Lists(m, a, sid) /\ m.pos \in Nat /\ PackLen \in Nat
  BY DEF Loses, Shape, ClipAssumption
<1>2. /\ Len(a.rip) >= 2 /\ a.rip[1] = [sid |-> 0, at |-> 0] /\ a.rip[2] = [sid |-> 1, at |-> PackLen]
      /\ \A i \in DOMAIN a.rip : i # 2 => a.rip[i].sid # 1
      /\ \A i \in DOMAIN a.rip : a.rip[i].at <= a.pos
      /\ \A i, j \in DOMAIN a.rip : i < j => a.rip[i].at <= a.rip[j].at
  BY <1>1, RipOrdered
<1>3. a.pos >= PackLen + PackLen /\ \A p \in a.parts : p.at \in Nat /\ p.at < a.pos
  BY <1>1 DEF Layout
<1>4. QED
  BY <1>1, <1>2, <1>3 DEF Layout

LEMMA LayoutStays ==
  ASSUME NEW m, Shape(m), Layout(m), NEW a, a.parts = m.parts, a.rip = m.rip, a.pos \in Nat, a.pos >= m.pos,
         ClipAssumption
  PROVE  Layout(a) /\ (RipResolves(m) => RipResolves(a))
<1>1. \A p \in a.parts : p.at \in Nat /\ p.at < a.pos
  BY DEF Layout, Shape
<1>2. m.pos \in Nat /\ PackLen \in Nat /\ \A i \in DOMAIN m.rip : m.rip[i].at \in Nat
  <2>1. m.pos \in Nat /\ PackLen \in Nat /\ m.rip \in Seq(Pair)
    BY DEF Shape, ClipAssumption
  <2>2. \A x \in Pair : x.at \in Nat
    BY DEF Pair
  <2>3. QED
    BY <2>1, <2>2
<1>3. a.pos >= PackLen + PackLen /\ \A i \in DOMAIN a.rip : a.rip[i].at <= a.pos
  BY <1>2 DEF Layout
<1>4. Layout(a)
  BY <1>1, <1>3 DEF Layout
<1>5. QED
  BY <1>4 DEF RipResolves, Resolves

\* The index partition that the reader pairs with the essence: the first one
Fresh(m) == \A p \in m.parts : p.type # "index"

\* There is one, and the RIP leads to it.
HasIndex(m) == \E p \in m.parts : p.type = "index" /\ \E i \in DOMAIN m.rip : m.rip[i].at = p.at

First(m, segs) ==
  \E p \in m.parts : /\ p.type = "index" /\ p.segs = segs
                     /\ \E i \in DOMAIN m.rip : m.rip[i].at = p.at
                     /\ \A q \in m.parts : q.type = "index" => p.at <= q.at

\* Neither changes when no pack is added.
LEMMA FirstStays ==
  ASSUME NEW m, NEW a, a.parts = m.parts, a.rip = m.rip
  PROVE  (Fresh(m) => Fresh(a)) /\ \A segs : First(m, segs) => First(a, segs)
  BY DEF Fresh, First

LEMMA FirstLoses ==
  ASSUME NEW m, Shape(m), NEW a, NEW sid \in Nat, Loses(m, a, sid)
  PROVE  (Fresh(m) => Fresh(a)) /\ \A segs : First(m, segs) => First(a, segs)
<1>1. a.parts = m.parts /\ Lists(m, a, sid)
  BY DEF Loses
<1>2. DOMAIN m.rip \subseteq DOMAIN a.rip /\ \A i \in DOMAIN m.rip : a.rip[i] = m.rip[i]
  <2>1. DOMAIN a.rip = DOMAIN m.rip \cup {Len(m.rip) + 1} /\ \A i \in DOMAIN m.rip : a.rip[i] = m.rip[i]
    BY <1>1, RipGrows
  <2>2. QED
    BY <2>1
<1>3. \A segs : First(m, segs) => First(a, segs)
  BY <1>1, <1>2 DEF First
<1>4. QED
  BY <1>1, <1>3 DEF Fresh

LEMMA FirstAdds ==
  ASSUME ClipAssumption, NEW m, Shape(m), Layout(m), NEW a, NEW pack, NEW sid \in Nat \ {1}, Adds(m, a, pack, sid)
  PROVE  /\ \A segs : First(m, segs) => First(a, segs)
         /\ Fresh(m) /\ pack.type # "index" => Fresh(a)
         /\ pack.type = "index" \/ HasIndex(m) => HasIndex(a)
         /\ Fresh(m) /\ pack.type = "index" => First(a, pack.segs)
<1>1. a.parts = m.parts \cup {pack} /\ pack.at = m.pos /\ Lists(m, a, sid) /\ m.pos \in Nat
  BY DEF Adds, Shape
<1>2. /\ DOMAIN m.rip \subseteq DOMAIN a.rip /\ \A i \in DOMAIN m.rip : a.rip[i] = m.rip[i]
      /\ Len(m.rip) + 1 \in DOMAIN a.rip /\ a.rip[Len(m.rip) + 1].at = m.pos
  <2>1. /\ DOMAIN a.rip = DOMAIN m.rip \cup {Len(m.rip) + 1} /\ \A i \in DOMAIN m.rip : a.rip[i] = m.rip[i]
        /\ a.rip[Len(m.rip) + 1] = [sid |-> sid, at |-> m.pos]
    BY <1>1, RipGrows
  <2>2. QED
    BY <2>1
<1>3. \A p \in m.parts : p.at <= pack.at
  BY <1>1 DEF Layout
<1>4. ASSUME NEW segs, First(m, segs) PROVE First(a, segs)
  <2>1. PICK p \in m.parts : /\ p.type = "index" /\ p.segs = segs
                             /\ \E i \in DOMAIN m.rip : m.rip[i].at = p.at
                             /\ \A q \in m.parts : q.type = "index" => p.at <= q.at
    BY <1>4 DEF First
  <2>2. p \in a.parts /\ \A q \in a.parts : q.type = "index" => p.at <= q.at
    BY <1>1, <1>3, <2>1
  <2>3. \E i \in DOMAIN a.rip : a.rip[i].at = p.at
    BY <1>2, <2>1
  <2>4. QED
    BY <2>1, <2>2, <2>3 DEF First
<1>5. Fresh(m) /\ pack.type # "index" => Fresh(a)
  BY <1>1 DEF Fresh
<1>6. ASSUME Fresh(m), pack.type = "index" PROVE First(a, pack.segs)
  <2>1. \A q \in a.parts : q.type = "index" => q = pack
    BY <1>1, <1>6 DEF Fresh
  <2>2. pack \in a.parts /\ pack.at <= pack.at
    BY <1>1
  <2>3. \E i \in DOMAIN a.rip : a.rip[i].at = pack.at
    BY <1>1, <1>2
  <2>4. QED
    BY <1>6, <2>1, <2>2, <2>3 DEF First
<1>7. pack.type = "index" \/ HasIndex(m) => HasIndex(a)
  <2>1. pack \in a.parts /\ \E i \in DOMAIN a.rip : a.rip[i].at = pack.at
    BY <1>1, <1>2
  <2>2. HasIndex(m) => HasIndex(a)
    BY <1>1, <1>2 DEF HasIndex
  <2>3. QED
    BY <2>1, <2>2 DEF HasIndex
<1>8. QED
  BY <1>4, <1>5, <1>6, <1>7

-----------------------------------------------------------------------------
(* What the steps do to the packs *)

LEMMA PushRipDoes ==
  ASSUME NEW m, Shape(m), NEW sid \in Nat, NEW at \in Nat
  PROVE  LET a == PushRip(m, sid, at)
         IN  /\ Shape(a) /\ a.rip = Append(m.rip, [sid |-> sid, at |-> at]) /\ a.pos = m.pos /\ a.parts = m.parts
             /\ a.disk = m.disk /\ a.segs = m.segs /\ a.cells = m.cells /\ a.stream = m.stream /\ a.queued = m.queued
<1> DEFINE rip == Append(m.rip, [sid |-> sid, at |-> at])
           a == PushRip(m, sid, at)
<1>1. rip \in Seq(Pair)
  <2>1. [sid |-> sid, at |-> at] \in Pair
    BY DEF Pair
  <2>2. m.rip \in Seq(Pair)
    BY DEF Shape
  <2>3. QED
    BY <2>1, <2>2
<1>2. a = [m EXCEPT !.rip = rip]
  BY DEF PushRip, Shape
<1> HIDE DEF rip, a
<1>3. /\ a.rip = rip /\ a.pos = m.pos /\ a.parts = m.parts
      /\ a.disk = m.disk /\ a.segs = m.segs /\ a.cells = m.cells /\ a.stream = m.stream /\ a.queued = m.queued
      /\ a = [pos |-> a.pos, parts |-> a.parts, rip |-> a.rip, disk |-> a.disk, segs |-> a.segs, cells |-> a.cells,
              stream |-> a.stream, queued |-> a.queued]
  BY <1>2 DEF Shape
<1>4. Shape(a)
  BY <1>1, <1>3 DEF Shape
<1>5. QED
  BY <1>3, <1>4 DEF a, rip

LEMMA PutPackDoes ==
  ASSUME ClipAssumption, NEW m, Shape(m), NEW pack
  PROVE  LET a == PutPack(m, pack, "none")
         IN  /\ Shape(a) /\ a.rip = m.rip /\ a.pos = m.pos + PackLen /\ a.parts = m.parts \cup {pack}
             /\ a.disk = m.disk /\ a.segs = m.segs /\ a.cells = m.cells /\ a.stream = m.stream /\ a.queued = m.queued
<1> DEFINE a == PutPack(m, pack, "none")
<1>1. a = [m EXCEPT !.pos = m.pos + PackLen, !.parts = m.parts \cup {pack}]
  BY DEF PutPack, Shape
<1> HIDE DEF a
<1>2. /\ a.rip = m.rip /\ a.pos = m.pos + PackLen /\ a.parts = m.parts \cup {pack}
      /\ a.disk = m.disk /\ a.segs = m.segs /\ a.cells = m.cells /\ a.stream = m.stream /\ a.queued = m.queued
      /\ a = [pos |-> a.pos, parts |-> a.parts, rip |-> a.rip, disk |-> a.disk, segs |-> a.segs, cells |-> a.cells,
              stream |-> a.stream, queued |-> a.queued]
  BY <1>1 DEF Shape
<1>3. Shape(a)
  BY <1>2 DEF Shape, ClipAssumption
<1>4. QED
  BY <1>2, <1>3 DEF a

\* A pack is written, and then listed.
LEMMA PackAdds ==
  ASSUME ClipAssumption, NEW m, Shape(m), NEW pack, pack.at = m.pos, NEW sid \in Nat
  PROVE  LET a == PushRip(PutPack(m, pack, "none"), sid, m.pos)
         IN  Shape(a) /\ Adds(m, a, pack, sid) /\ a.disk = m.disk /\ a.segs = m.segs /\ a.stream = m.stream /\ a.queued = m.queued
<1> DEFINE b == PutPack(m, pack, "none")
           a == PushRip(b, sid, m.pos)
<1>1. /\ Shape(b) /\ b.rip = m.rip /\ b.pos = m.pos + PackLen /\ b.parts = m.parts \cup {pack}
      /\ b.disk = m.disk /\ b.segs = m.segs /\ b.cells = m.cells /\ b.stream = m.stream /\ b.queued = m.queued
  BY PutPackDoes
<1>2. m.pos \in Nat
  BY DEF Shape
<1> HIDE DEF b
<1>3. /\ Shape(a) /\ a.rip = Append(b.rip, [sid |-> sid, at |-> m.pos]) /\ a.pos = b.pos /\ a.parts = b.parts
      /\ a.disk = b.disk /\ a.segs = b.segs /\ a.cells = b.cells /\ a.stream = b.stream /\ a.queued = b.queued
  BY <1>1, <1>2, PushRipDoes
<1> HIDE DEF a
<1>4. Adds(m, a, pack, sid)
  BY <1>1, <1>3 DEF Adds, Lists
<1>5. QED
  BY <1>1, <1>3, <1>4 DEF a, b

LEMMA NextSegmentIs == ASSUME NEW m, Shape(m) PROVE NextSegment(m) \in Seq(SegmentsOf(Nat))
<1>1. m.segs \in Seq(SegmentsOf(Nat))
  BY DEF Shape
<1>2. CASE m.segs = <<>>
  BY <1>2 DEF NextSegment
<1>3. CASE m.segs # <<>>
  <2> DEFINE end == SegmentEnd(m.segs[Len(m.segs)])
  <2>1. m.segs[Len(m.segs)] \in SegmentsOf(Nat)
    BY <1>1, <1>3
  <2>2. end \in Nat
    BY <2>1 DEF SegmentEnd, SegmentsOf
  <2>3. <<>> \in Seq(Nat)
    OBVIOUS
  <2>4. NextSegment(m) = <<[start |-> end, entries |-> <<>>]>>
    BY <1>3 DEF NextSegment
  <2> HIDE DEF end
  <2>5. [start |-> end, entries |-> <<>>] \in SegmentsOf(Nat)
    BY <2>2, <2>3 DEF SegmentsOf
  <2>6. QED
    BY <2>4, <2>5
<1>4. QED
  BY <1>2, <1>3

LEMMA FlushIndexAdds ==
  ASSUME ClipAssumption, NEW m, Shape(m), NEW segs
  PROVE  LET a == FlushIndex(m, segs)
         IN  /\ Shape(a) /\ a.disk = m.disk /\ a.stream = m.stream /\ a.queued = m.queued
             /\ \E pack : Adds(m, a, pack, 0) /\ pack.type = "index" /\ pack.segs = segs
<1> DEFINE next == NextSegment(m)
           pack == [NewPack(m.pos, "index", 0) EXCEPT !.segs = segs]
           b == PushRip(m, 0, m.pos)
           c == PutPack(b, pack, "none")
           a == FlushIndex(m, segs)
<1>1. pack.at = m.pos /\ pack.type = "index" /\ pack.segs = segs
  BY DEF NewPack
<1>2. m.pos \in Nat /\ m.segs \in Seq(SegmentsOf(Nat))
  BY DEF Shape
<1>3. next \in Seq(SegmentsOf(Nat))
  BY NextSegmentIs
<1>4. /\ Shape(b) /\ b.rip = Append(m.rip, [sid |-> 0, at |-> m.pos]) /\ b.pos = m.pos /\ b.parts = m.parts
      /\ b.disk = m.disk /\ b.segs = m.segs /\ b.cells = m.cells /\ b.stream = m.stream /\ b.queued = m.queued
  BY <1>2, PushRipDoes
<1>5. a = [c EXCEPT !.segs = next]
  BY DEF FlushIndex
<1> HIDE DEF b, pack, next, a
<1>6. /\ Shape(c) /\ c.rip = b.rip /\ c.pos = b.pos + PackLen /\ c.parts = b.parts \cup {pack}
      /\ c.disk = b.disk /\ c.segs = b.segs /\ c.cells = b.cells /\ c.stream = b.stream /\ c.queued = b.queued
  BY <1>4, PutPackDoes
<1> HIDE DEF c
<1>7. /\ a.rip = c.rip /\ a.pos = c.pos /\ a.parts = c.parts /\ a.disk = c.disk /\ a.segs = next /\ a.cells = c.cells
      /\ a.stream = c.stream /\ a.queued = c.queued
      /\ a = [pos |-> a.pos, parts |-> a.parts, rip |-> a.rip, disk |-> a.disk, segs |-> a.segs, cells |-> a.cells,
              stream |-> a.stream, queued |-> a.queued]
  BY <1>5, <1>6 DEF Shape
<1>8. Shape(a)
  BY <1>3, <1>6, <1>7 DEF Shape
<1>9. Adds(m, a, pack, 0)
  BY <1>1, <1>4, <1>6, <1>7 DEF Adds, Lists
<1>10. QED
  BY <1>1, <1>4, <1>6, <1>7, <1>8, <1>9 DEF a

LEMMA FooterAdds ==
  ASSUME ClipAssumption, NEW m, Shape(m)
  PROVE  LET a == Footer(m)
         IN  /\ Shape(a) /\ a.disk = a.rip
             /\ \E pack : Adds(m, a, pack, 0) /\ pack.type = "footer"
<1> DEFINE pack == NewPack(m.pos, "footer", 0)
           p == PushRip(PutPack(m, pack, "none"), 0, m.pos)
           a == Footer(m)
<1>1. pack.at = m.pos /\ pack.type = "footer"
  BY DEF NewPack
<1>2. a = [p EXCEPT !.disk = p.rip]
  BY DEF Footer
<1> HIDE DEF a, pack
<1>3. Shape(p) /\ Adds(m, p, pack, 0)
  BY <1>1, PackAdds
<1> HIDE DEF p
<1>4. /\ a.rip = p.rip /\ a.pos = p.pos /\ a.parts = p.parts /\ a.disk = p.rip /\ a.segs = p.segs /\ a.cells = p.cells
      /\ a.stream = p.stream /\ a.queued = p.queued
      /\ a = [pos |-> a.pos, parts |-> a.parts, rip |-> a.rip, disk |-> a.disk, segs |-> a.segs, cells |-> a.cells,
              stream |-> a.stream, queued |-> a.queued]
  BY <1>2, <1>3 DEF Shape
<1>5. Shape(a)
  BY <1>3, <1>4 DEF Shape
<1>6. Adds(m, a, pack, 0)
  BY <1>3, <1>4 DEF Adds, Lists
<1>7. QED
  BY <1>1, <1>4, <1>5, <1>6 DEF a

\* A footer that met a fault leaves a file, whatever is in it.
LEMMA FooterFailsIs ==
  ASSUME ClipAssumption, NEW m, Shape(m), NEW a \in FooterFails(m)
  PROVE  Shape(a)
<1> DEFINE c == Footer(m)
<1>1. Shape(c)
  BY FooterAdds
<1>2. a = m \/ \E lost : a = [c EXCEPT !.parts = @ \ lost]
  BY DEF FooterFails
<1> HIDE DEF c
<1>3. ASSUME NEW lost, a = [c EXCEPT !.parts = @ \ lost] PROVE Shape(a)
  <2> DEFINE parts == c.parts \ lost
  <2>1. a = [c EXCEPT !.parts = parts]
    BY <1>1, <1>3 DEF Shape
  <2> HIDE DEF parts
  <2>2. /\ a.pos = c.pos /\ a.rip = c.rip /\ a.disk = c.disk /\ a.segs = c.segs /\ a.cells = c.cells
        /\ a.stream = c.stream /\ a.queued = c.queued
        /\ a = [pos |-> a.pos, parts |-> a.parts, rip |-> a.rip, disk |-> a.disk, segs |-> a.segs, cells |-> a.cells,
                stream |-> a.stream, queued |-> a.queued]
    BY <1>1, <2>1 DEF Shape
  <2>3. QED
    BY <1>1, <2>2 DEF Shape
<1>4. QED
  BY <1>2, <1>3

LEMMA HeaderDoes ==
  ASSUME ClipAssumption
  PROVE  LET a == Header(Empty)
         IN  /\ Shape(a) /\ Layout(a) /\ RipResolves(a) /\ Fresh(a) /\ a.pos = PackLen + PackLen
             /\ a.disk = <<>> /\ a.segs = <<>> /\ a.stream = 0
<1> DEFINE first == NewPack(0, "header", 0)
           body == NewPack(PackLen, "body", 1)
           p == PutPack(Empty, first, "none")
           h == PushRip(p, 0, 0)
           q == PutPack(h, body, "none")
           a == PushRip(q, 1, PackLen)
<1>1. PackLen \in Nat \ {0}
  BY DEF ClipAssumption
<1>2. /\ Shape(Empty) /\ Empty.pos = 0 /\ Empty.parts = {} /\ Empty.rip = <<>> /\ Empty.disk = <<>> /\ Empty.segs = <<>>
      /\ Empty.stream = 0
  BY DEF Empty, Shape
<1>3. first.at = 0 /\ first.type = "header" /\ body.at = PackLen /\ body.type = "body"
  BY DEF NewPack
<1>4. /\ Shape(p) /\ p.rip = <<>> /\ p.pos = PackLen /\ p.parts = {first}
      /\ p.disk = <<>> /\ p.segs = <<>> /\ p.stream = 0
  <2> HIDE DEF first
  <2>1. /\ Shape(p) /\ p.rip = Empty.rip /\ p.pos = Empty.pos + PackLen /\ p.parts = Empty.parts \cup {first}
        /\ p.disk = Empty.disk /\ p.segs = Empty.segs /\ p.stream = Empty.stream /\ p.queued = Empty.queued
    BY <1>2, PutPackDoes
  <2>2. QED
    BY <1>1, <1>2, <2>1
<1> HIDE DEF p, first
<1>5. /\ Shape(h) /\ h.rip = Append(p.rip, [sid |-> 0, at |-> 0]) /\ h.pos = p.pos /\ h.parts = p.parts
      /\ h.disk = p.disk /\ h.segs = p.segs /\ h.stream = p.stream /\ h.queued = p.queued
  BY <1>4, PushRipDoes
<1> HIDE DEF h, body
<1>6. /\ Shape(q) /\ q.rip = h.rip /\ q.pos = h.pos + PackLen /\ q.parts = h.parts \cup {body}
      /\ q.disk = h.disk /\ q.segs = h.segs /\ q.stream = h.stream /\ q.queued = h.queued
  BY <1>5, PutPackDoes
<1> HIDE DEF q
<1>7. /\ Shape(a) /\ a.rip = Append(q.rip, [sid |-> 1, at |-> PackLen]) /\ a.pos = q.pos /\ a.parts = q.parts
      /\ a.disk = q.disk /\ a.segs = q.segs /\ a.stream = q.stream /\ a.queued = q.queued
  BY <1>1, <1>6, PushRipDoes
<1> HIDE DEF a
<1>8. \A x, y \in Pair :
        /\ Len(Append(Append(<<>>, x), y)) = 2 /\ DOMAIN Append(Append(<<>>, x), y) = 1 .. 2
        /\ Append(Append(<<>>, x), y)[1] = x /\ Append(Append(<<>>, x), y)[2] = y
  <2> SUFFICES ASSUME NEW x \in Pair, NEW y \in Pair
               PROVE  /\ Len(Append(Append(<<>>, x), y)) = 2 /\ DOMAIN Append(Append(<<>>, x), y) = 1 .. 2
                      /\ Append(Append(<<>>, x), y)[1] = x /\ Append(Append(<<>>, x), y)[2] = y
    OBVIOUS
  <2>1. Append(<<>>, x) \in Seq(Pair) /\ Len(Append(<<>>, x)) = 1 /\ Append(<<>>, x)[1] = x
    OBVIOUS
  <2>2. QED
    BY <2>1
<1>9. /\ Len(a.rip) = 2 /\ DOMAIN a.rip = 1 .. 2 /\ a.rip[1] = [sid |-> 0, at |-> 0] /\ a.rip[2] = [sid |-> 1, at |-> PackLen]
  <2>1. [sid |-> 0, at |-> 0] \in Pair /\ [sid |-> 1, at |-> PackLen] \in Pair
    BY <1>1 DEF Pair
  <2>2. a.rip = Append(Append(<<>>, [sid |-> 0, at |-> 0]), [sid |-> 1, at |-> PackLen])
    BY <1>4, <1>5, <1>6, <1>7
  <2>3. QED
    BY <1>8, <2>1, <2>2
<1>10. a.parts = {first, body} /\ a.pos = PackLen + PackLen
  BY <1>4, <1>5, <1>6, <1>7
<1>11. \A i \in DOMAIN a.rip : (i = 1 \/ i = 2) /\ Resolves(a, a.rip[i].at) /\ (i # 2 => a.rip[i].sid # 1)
  BY <1>3, <1>9, <1>10 DEF Resolves
<1>12. \A i \in DOMAIN a.rip : a.rip[i].at <= a.pos
  BY <1>1, <1>9, <1>10, <1>11
<1>13. \A i, j \in DOMAIN a.rip : i < j => a.rip[i].at <= a.rip[j].at
  <2>1. \A i, j \in 1 .. 2 : i < j => i = 1 /\ j = 2
    OBVIOUS
  <2>2. a.rip[1].at <= a.rip[2].at
    BY <1>1, <1>9
  <2>3. QED
    BY ONLY <1>9, <2>1, <2>2
<1>14. Layout(a) /\ RipResolves(a) /\ Fresh(a)
  <2>1. Layout(a)
    BY <1>1, <1>3, <1>9, <1>10, <1>11, <1>12, <1>13 DEF Layout, first, body
  <2>2. RipResolves(a)
    BY <1>11 DEF RipResolves
  <2>3. Fresh(a)
    BY <1>3, <1>10 DEF Fresh
  <2>4. QED
    BY <2>1, <2>2, <2>3
<1>15. Header(Empty) = a
  BY <1>4, <1>5 DEF Header, a, q, h, p, first, body
<1>16. QED
  BY <1>4, <1>5, <1>6, <1>7, <1>10, <1>14, <1>15

-----------------------------------------------------------------------------
(* The inductive invariant, as conditions on a writer, a file and a history *)

Start == PackLen + PackLen

WriterShape(w) ==
  /\ w = [kind |-> w.kind, st |-> w.st, clipStart |-> w.clipStart, frames |-> w.frames, streamOffset |-> w.streamOffset,
          open |-> w.open]
  /\ w.kind \in {"PCM", "IAB"} /\ w.st \in {"NONE", "READY", "RUNNING", "FINAL", "CRASHED"}
  /\ w.clipStart \in Nat /\ w.frames \in Nat /\ w.streamOffset \in Nat

PastShape(p) ==
  /\ p = [result |-> p.result, last |-> p.last, opened |-> p.opened, offered |-> p.offered, accepted |-> p.accepted,
          bytes |-> p.bytes, faults |-> p.faults, sound |-> p.sound]
  /\ p.accepted \in Seq(Seq(Cell)) /\ p.bytes \in Seq(Cell) /\ p.faults \in 0 .. MaxFaults /\ p.sound \in Nat
  /\ p.offered \in 0 .. MaxBlocks /\ Len(p.accepted) <= p.offered

Whole(p) == \A i \in DOMAIN p.accepted : Len(p.accepted[i]) % SampleLen = 0

\* So many bytes are more than those of the buffers accepted before a fault, and
\* as many when there was none.
Counts(p, size) ==
  Whole(p) => size >= Len(p.bytes) /\ (p.faults = 0 => size = Len(p.bytes))

\* A PCM clip that is being written: the bytes known are those of the buffers
\* accepted before the first fault.
WritingPCM(w, m, p) ==
  /\ Layout(m) /\ RipResolves(m)
  /\ w.clipStart = 0 => m.pos = Start /\ p.accepted = <<>> /\ p.bytes = <<>> /\ w.frames = 0
  /\ w.clipStart # 0 => w.clipStart = Start
  /\ w.clipStart # 0 /\ p.faults = 0 => p.bytes # <<>> /\ m.pos = Start + 2 + Len(p.bytes)
  /\ p.bytes # <<>> =>
       /\ HoldsAt(m, Start, KeyAndLength) /\ HoldsAt(m, Start + 2, p.bytes)
       /\ m.pos >= Start + 2 + Len(p.bytes) /\ w.clipStart # 0
  /\ Counts(p, w.frames * SampleLen)

\* One that is finalized
ClosedPCM(m, p) ==
  /\ Layout(m) /\ RipResolves(m) /\ m.disk = m.rip
  /\ p.bytes # <<>> /\ Whole(p) =>
       /\ HasIndex(m)
       /\ HoldsAt(m, Start + 2, p.bytes)
       /\ \E n \in Nat : Counts(p, n * SampleLen) /\ HoldsAt(m, Start, <<<<"key", 0>>, <<"length", n * SampleLen>>>>)

\* The last call was a Finalize, or one before it, that met no fault in the footer
Ended(p) == p.result = "OK" /\ p.last # "footer"

InvPCM(w, m, p) ==
  /\ w.open => m.disk = <<>> /\ w.st \in {"READY", "RUNNING", "FINAL"}
  /\ w.st = "NONE" => m.disk = <<>>
  /\ w.st \in {"READY", "RUNNING"} => w.open /\ WritingPCM(w, m, p)
  /\ m.disk # <<>> /\ Ended(p) => ClosedPCM(m, p)

\* The frames that index entries stand for begin with their lengths.
Sized(p) ==
  \A k \in DOMAIN p.accepted : p.accepted[k] # <<>> /\ p.accepted[k][1] = <<"size", Len(p.accepted[k])>>

\* The entries of the segments lead to the frames, those accepted before any fault
\* or text.
Located(m, p, segs) ==
  \A i \in DOMAIN segs : \A j \in DOMAIN segs[i].entries :
    LET k  == segs[i].start + j
        at == Start + segs[i].entries[j]
    IN  k \in DOMAIN p.accepted /\ k <= p.sound =>
          /\ segs[i].entries[j] >= 2 /\ at + Len(p.accepted[k]) <= m.pos
          /\ HoldsAt(m, at, p.accepted[k])

\* The segments number c frames, among them all that the reader must find.
Numbers(p, segs, c) ==
  Enumerated(segs, c) /\ c <= Len(p.accepted) /\ (p.sound <= c \/ c = Len(p.accepted))

\* The frames that the reader will find, by the index that is written or the entries
\* that still are to be.
IndexedIAB(m, p) ==
  \E segs \in Seq(SegmentsOf(Nat)), c \in Nat :
    /\ Numbers(p, segs, c) /\ Located(m, p, segs)
    /\ \/ Fresh(m) /\ segs = m.segs /\ c = Len(p.accepted)
       \/ First(m, segs)

\* None is sound once the first index partition was lost.
WritingIAB(w, m, p) ==
  /\ Layout(m) /\ w.clipStart = Start /\ w.streamOffset >= 2 /\ Sized(p)
  /\ p.sound > Len(p.accepted) => Fresh(m) /\ m.pos = Start + w.streamOffset
  /\ p.sound = 0 \/ IndexedIAB(m, p)

\* The frames that the reader finds
FoundIAB(m, p) ==
  \E segs \in Seq(SegmentsOf(Nat)), c \in Nat :
    /\ Numbers(p, segs, c) /\ Located(m, p, segs)
    /\ \/ Fresh(m) /\ c = 0
       \/ First(m, segs)

ClosedIAB(m, p) ==
  /\ Layout(m) /\ RipResolves(m) /\ m.disk = m.rip /\ Sized(p)
  /\ p.sound = 0 \/ FoundIAB(m, p)

InvIAB(w, m, p) ==
  /\ w.open => w.st \in {"READY", "RUNNING"}
  /\ w.st \in {"READY", "RUNNING"} => m.disk = <<>> /\ WritingIAB(w, m, p)
  /\ m.disk # <<>> /\ Ended(p) => ClosedIAB(m, p)

ClipInv ==
  /\ WriterShape(writer) /\ Shape(mxf) /\ PastShape(past)
  /\ writer.kind = "PCM" => InvPCM(writer, mxf, past)
  /\ writer.kind = "IAB" => InvIAB(writer, mxf, past)

-----------------------------------------------------------------------------
(* What the calls do to the history and the writer *)

\* Min of two numbers
LEMMA MinOfTwo ==
  ASSUME NEW x \in Nat, NEW y \in Nat
  PROVE  Min({x, y}) \in Nat /\ Min({x, y}) <= x /\ Min({x, y}) <= y /\ (x <= y => Min({x, y}) = x)
         /\ (Min({x, y}) = x \/ Min({x, y}) = y)
<1>1. \E z \in {x, y} : \A u \in {x, y} : z <= u
  <2>1. CASE x <= y
    BY <2>1
  <2>2. CASE ~(x <= y)
    BY <2>2
  <2>3. QED
    BY <2>1, <2>2
<1>2. Min({x, y}) \in {x, y} /\ \A u \in {x, y} : Min({x, y}) <= u
  BY <1>1 DEF Min
<1>3. QED
  BY <1>2

LEMMA BlockIs ==
  ASSUME PastShape(past), ClipAssumption, NEW len \in BlockLens
  PROVE  /\ Block(len) \in Seq(Cell) /\ Len(Block(len)) = len /\ len \in Nat \ {0}
         /\ writer.kind = "IAB" => Block(len)[1] = <<"size", len>>
<1> DEFINE bytes == [i \in 1 .. len |-> <<"byte", 10 * past.offered + i>>]
           sized == [bytes EXCEPT ![1] = <<"size", len>>]
<1>1. len \in Nat \ {0} /\ past.offered \in Nat
  BY DEF ClipAssumption, PastShape
<1>2. \A i \in 1 .. len : 10 * past.offered + i \in Nat
  BY <1>1
<1>3. \A n \in Nat : <<"byte", n>> \in Cell /\ <<"size", n>> \in Cell
  BY DEF Cell, CellKinds
<1>4. bytes \in [1 .. len -> Cell]
  BY <1>2, <1>3
<1>5. 1 \in 1 .. len
  BY <1>1
<1>6. \A b \in [1 .. len -> Cell] : b \in Seq(Cell) /\ Len(b) = len
  BY <1>1
<1> HIDE DEF bytes
<1>7. sized \in [1 .. len -> Cell] /\ sized[1] = <<"size", len>>
  BY <1>1, <1>3, <1>4, <1>5
<1> HIDE DEF sized
<1>8. Block(len) = IF writer.kind = "IAB" THEN sized ELSE bytes
  BY DEF Block, sized, bytes
<1>9. QED
  BY <1>1, <1>4, <1>6, <1>7, <1>8

LEMMA AcceptedDoes ==
  ASSUME PastShape(past), ClipAssumption, NEW cells \in Seq(Cell), Accepted(cells), past.offered < MaxBlocks
  PROVE  /\ PastShape(past') /\ past'.accepted = Append(past.accepted, cells)
         /\ past'.bytes = IF past.faults = 0 THEN past.bytes \o cells ELSE past.bytes
         /\ past'.faults = past.faults /\ past'.sound = past.sound /\ past'.offered = past.offered + 1
<1> DEFINE accepted == Append(past.accepted, cells)
           bytes == IF past.faults = 0 THEN past.bytes \o cells ELSE past.bytes
<1>1. past' = [past EXCEPT !.result = "OK", !.last = "none", !.offered = past.offered + 1, !.accepted = accepted,
                           !.bytes = bytes]
  BY DEF Accepted, PastShape
<1>2. accepted \in Seq(Seq(Cell)) /\ Len(accepted) = Len(past.accepted) + 1 /\ bytes \in Seq(Cell)
  BY DEF PastShape
<1> HIDE DEF accepted, bytes
<1>3. /\ past'.accepted = accepted /\ past'.bytes = bytes /\ past'.faults = past.faults /\ past'.sound = past.sound
      /\ past'.offered = past.offered + 1
      /\ past' = [result |-> past'.result, last |-> past'.last, opened |-> past'.opened, offered |-> past'.offered,
                  accepted |-> past'.accepted, bytes |-> past'.bytes, faults |-> past'.faults, sound |-> past'.sound]
  BY <1>1 DEF PastShape
<1>4. past.offered \in 0 .. MaxBlocks /\ Len(past.accepted) \in Nat /\ Len(past.accepted) <= past.offered /\ MaxBlocks \in Nat
  BY DEF PastShape, ClipAssumption
<1>5. PastShape(past')
  BY <1>2, <1>3, <1>4 DEF PastShape
<1>6. QED
  BY <1>3, <1>5 DEF accepted, bytes

LEMMA RefusedDoes ==
  ASSUME PastShape(past), ClipAssumption, NEW fault, Refused(fault), past.offered < MaxBlocks
  PROVE  /\ PastShape(past') /\ past'.accepted = past.accepted /\ past'.bytes = past.bytes
         /\ past'.faults = past.faults + 1 /\ past'.sound <= past.sound /\ past'.sound <= Len(past.accepted)
<1> DEFINE sound == Min({past.sound, Len(past.accepted)})
<1>1. past' = [past EXCEPT !.result = "FAIL", !.last = fault, !.offered = past.offered + 1, !.faults = past.faults + 1,
                           !.sound = sound]
  BY DEF Refused, PastShape
<1>2. sound \in Nat /\ sound <= past.sound /\ sound <= Len(past.accepted)
  <2>1. past.sound \in Nat /\ Len(past.accepted) \in Nat
    BY DEF PastShape
  <2>2. QED
    BY <2>1, MinOfTwo
<1> HIDE DEF sound
<1>3. /\ past'.accepted = past.accepted /\ past'.bytes = past.bytes /\ past'.faults = past.faults + 1 /\ past'.sound = sound
      /\ past'.offered = past.offered + 1
      /\ past' = [result |-> past'.result, last |-> past'.last, opened |-> past'.opened, offered |-> past'.offered,
                  accepted |-> past'.accepted, bytes |-> past'.bytes, faults |-> past'.faults, sound |-> past'.sound]
  BY <1>1 DEF PastShape
<1>4. past.faults < MaxFaults /\ MaxFaults \in Nat /\ MaxBlocks \in Nat
  BY DEF Refused, ClipAssumption
<1>5. PastShape(past')
  BY <1>2, <1>3, <1>4 DEF PastShape
<1>6. QED
  BY <1>2, <1>3, <1>5

LEMMA CallLeavesDoes ==
  ASSUME PastShape(past), ClipAssumption, NEW result, NEW fault, NEW sound \in Nat, CallLeaves(result, fault, sound)
  PROVE  /\ PastShape(past') /\ past'.accepted = past.accepted /\ past'.bytes = past.bytes
         /\ past'.faults >= past.faults /\ past'.sound = sound /\ past'.result = result /\ past'.last = fault
         /\ fault = "none" => past'.faults = past.faults
         /\ fault # "none" => past'.faults # 0
<1> DEFINE faults == past.faults + (IF fault = "none" THEN 0 ELSE 1)
<1>1. past' = [past EXCEPT !.result = result, !.last = fault, !.faults = faults, !.sound = sound] /\ faults <= MaxFaults
  BY DEF CallLeaves
<1>2. /\ faults \in Nat /\ faults >= past.faults /\ (fault # "none" => faults # 0) /\ (fault = "none" => faults = past.faults)
      /\ MaxFaults \in Nat
  BY DEF PastShape, ClipAssumption
<1> HIDE DEF faults
<1>3. /\ past'.accepted = past.accepted /\ past'.bytes = past.bytes /\ past'.faults = faults /\ past'.sound = sound
      /\ past'.offered = past.offered /\ past'.result = result /\ past'.last = fault
      /\ past' = [result |-> past'.result, last |-> past'.last, opened |-> past'.opened, offered |-> past'.offered,
                  accepted |-> past'.accepted, bytes |-> past'.bytes, faults |-> past'.faults, sound |-> past'.sound]
  BY <1>1 DEF PastShape
<1>4. faults \in 0 .. MaxFaults
  BY <1>1, <1>2
<1>5. PastShape(past')
  BY <1>3, <1>4 DEF PastShape
<1>6. QED
  BY <1>2, <1>3, <1>5

LEMMA CallDoes ==
  ASSUME PastShape(past), ClipAssumption, NEW result, NEW fault, Call(result, fault)
  PROVE  /\ PastShape(past') /\ past'.accepted = past.accepted /\ past'.bytes = past.bytes
         /\ past'.faults >= past.faults /\ past'.sound <= past.sound /\ past'.result = result /\ past'.last = fault
         /\ fault = "none" => past'.faults = past.faults /\ past'.sound = past.sound
         /\ fault # "none" => past'.faults # 0 /\ past'.sound <= Len(past.accepted)
<1> DEFINE least == Min({past.sound, Len(past.accepted)})
           sound == IF fault # "none" THEN least ELSE past.sound
<1>1. past.sound \in Nat /\ Len(past.accepted) \in Nat
  BY DEF PastShape
<1>2. least \in Nat /\ least <= past.sound /\ least <= Len(past.accepted)
  BY <1>1, MinOfTwo
<1>3. CallLeaves(result, fault, sound)
  BY DEF Call
<1> HIDE DEF least
<1>4. /\ sound \in Nat /\ sound <= past.sound
      /\ fault # "none" => sound <= Len(past.accepted)
      /\ fault = "none" => sound = past.sound
  BY <1>1, <1>2
<1> HIDE DEF sound
<1>5. QED
  BY <1>3, <1>4, CallLeavesDoes

-----------------------------------------------------------------------------
(* Steps of the PCM writer *)

\* A history with the same buffers, and a fault where there was one
SameBuffers(p, q) ==
  q.accepted = p.accepted /\ q.bytes = p.bytes /\ (q.faults = 0 => p.faults = 0)

LEMMA SamePCM ==
  ASSUME NEW w, NEW m, NEW p, NEW q, SameBuffers(p, q)
  PROVE  /\ \A size : Counts(p, size) => Counts(q, size)
         /\ WritingPCM(w, m, p) => WritingPCM(w, m, q)
         /\ ClosedPCM(m, p) => ClosedPCM(m, q)
<1>1. Whole(q) <=> Whole(p)
  BY DEF Whole, SameBuffers
<1>2. \A size : Counts(p, size) => Counts(q, size)
  BY <1>1 DEF Counts, SameBuffers
<1>3. WritingPCM(w, m, p) => WritingPCM(w, m, q)
  BY <1>2 DEF WritingPCM, SameBuffers
<1>4. ClosedPCM(m, p) => ClosedPCM(m, q)
  BY <1>1, <1>2 DEF ClosedPCM, SameBuffers
<1>5. QED
  BY <1>2, <1>3, <1>4

LEMMA KeyAndLengthIs ==
  /\ KeyAndLength \in Seq(Cell) /\ Len(KeyAndLength) = 2
  /\ \A n \in 0 .. 1 : SubSeq(KeyAndLength, 1, n) \in Seq(Cell)
<1>1. <<"key", 0>> \in Cell /\ <<"length", 0>> \in Cell
  BY DEF Cell, CellKinds
<1>2. KeyAndLength \in Seq(Cell) /\ Len(KeyAndLength) = 2
  BY <1>1 DEF KeyAndLength
<1>3. \A q \in Seq(Cell), n \in 0 .. 1 : Len(q) = 2 => SubSeq(q, 1, n) \in Seq(Cell)
  <2> SUFFICES ASSUME NEW q \in Seq(Cell), NEW n \in 0 .. 1, Len(q) = 2 PROVE SubSeq(q, 1, n) \in Seq(Cell)
    OBVIOUS
  <2>1. \A i \in 1 .. n : q[i] \in Cell
    OBVIOUS
  <2>2. SubSeq(q, 1, n) = [i \in 1 .. n |-> q[i]]
    OBVIOUS
  <2>3. QED
    BY <2>1, <2>2
<1>4. QED
  BY <1>2, <1>3

\* A part of a buffer
LEMMA PartOfBlock ==
  ASSUME NEW b \in Seq(Cell), NEW len \in Nat \ {0}, Len(b) = len, NEW n \in 0 .. len - 1
  PROVE  SubSeq(b, 1, n) \in Seq(Cell) /\ Len(SubSeq(b, 1, n)) = n
<1>1. n \in Nat /\ n <= Len(b)
  OBVIOUS
<1>2. SubSeq(b, 1, n) = [i \in 1 .. n |-> b[i]]
  BY <1>1
<1>3. \A i \in 1 .. n : b[i] \in Cell
  BY <1>1
<1>4. QED
  BY <1>1, <1>2, <1>3

\* What a PCM file is after StartClip
Started(m, p) ==
  /\ Shape(m) /\ Layout(m) /\ RipResolves(m) /\ m.disk = <<>>
  /\ p.faults = 0 => m.pos = Start + 2 + Len(p.bytes) /\ HoldsAt(m, Start, KeyAndLength)
  /\ p.bytes # <<>> => HoldsAt(m, Start, KeyAndLength) /\ m.pos >= Start + 2 + Len(p.bytes)
  /\ HoldsAt(m, Start + 2, p.bytes)

LEMMA StartClipDoes ==
  ASSUME ClipAssumption, Shape(mxf), PastShape(past), mxf.disk = <<>>, WritingPCM(writer, mxf, past)
  PROVE  ClipStart = Start /\ Start \in Nat \ {0} /\ Started(StartClip(mxf), past)
<1>1. Start \in Nat \ {0}
  BY DEF Start, ClipAssumption
<1>2. ClipStart = Start
  BY DEF ClipStart, WritingPCM
<1>3. CASE writer.clipStart = 0
  <2> DEFINE a == PutCells(mxf, KeyAndLength)
  <2>1. StartClip(mxf) = a
    BY <1>3 DEF StartClip
  <2>2. Shape(a) /\ SameParts(mxf, a) /\ a.pos = mxf.pos + Len(KeyAndLength) /\ Puts(mxf, a, mxf.pos, KeyAndLength)
    BY PutCellsDoes, KeyAndLengthIs
  <2> HIDE DEF a
  <2>3. mxf.pos = Start /\ past.bytes = <<>> /\ Layout(mxf) /\ RipResolves(mxf) /\ Len(KeyAndLength) = 2 /\ KeyAndLength \in Seq(Cell)
    BY <1>3, KeyAndLengthIs DEF WritingPCM
  <2>4. HoldsAt(a, Start, KeyAndLength)
    BY <2>2, <2>3, HoldsPut
  <2>5. a.parts = mxf.parts /\ a.rip = mxf.rip /\ a.disk = <<>> /\ a.pos = Start + 2
    BY <2>2, <2>3 DEF SameParts
  <2>6. a.pos \in Nat /\ a.pos >= mxf.pos
    BY <1>1, <2>3, <2>5
  <2>7. Layout(a) /\ RipResolves(a)
    BY <2>3, <2>5, <2>6, LayoutStays
  <2>8. HoldsAt(a, Start + 2, past.bytes)
    BY <2>3 DEF HoldsAt
  <2>9. Started(a, past)
    BY <1>1, <2>2, <2>3, <2>4, <2>5, <2>7, <2>8 DEF Started
  <2>10. QED
    BY <1>1, <1>2, <2>1, <2>9
<1>4. CASE writer.clipStart # 0
  <2>1. StartClip(mxf) = mxf
    BY <1>4 DEF StartClip
  <2>2. HoldsAt(mxf, Start + 2, past.bytes)
    <3>1. CASE past.bytes = <<>>
      BY <3>1 DEF HoldsAt
    <3>2. CASE past.bytes # <<>>
      BY <3>2 DEF WritingPCM
    <3>3. QED
      BY <3>1, <3>2
  <2>3. Started(mxf, past)
    BY <1>4, <2>2 DEF Started, WritingPCM
  <2>4. QED
    BY <1>1, <1>2, <2>1, <2>3
<1>5. QED
  BY <1>3, <1>4

\* Offsets after known ones
LEMMA Beyond ==
  \A s, x, y, pos, end \in Nat :
    /\ pos >= s + 2 + x => s + 2 <= pos /\ (s + 2) + x <= pos
    /\ pos = s + 2 + x => (s + 2) + x = pos /\ pos >= s + 2 + x
    /\ pos = s + 2 + x /\ end = pos + y => end = s + 2 + (x + y)
    /\ pos >= s + 2 + x /\ end >= pos => end >= s + 2 + x
  OBVIOUS

\* Cells after what is known stay after it.
LEMMA StartedPut ==
  ASSUME ClipAssumption, NEW m, NEW p, PastShape(p), Started(m, p), NEW cells \in Seq(Cell)
  PROVE  LET a == PutCells(m, cells)
         IN  /\ Shape(a) /\ Layout(a) /\ RipResolves(a) /\ a.disk = <<>> /\ a.pos = m.pos + Len(cells) /\ a.pos >= m.pos
             /\ p.faults = 0 \/ p.bytes # <<>> => HoldsAt(a, Start, KeyAndLength) /\ HoldsAt(a, Start + 2, p.bytes)
             /\ HoldsAt(a, m.pos, cells)
<1> DEFINE a == PutCells(m, cells)
<1>1. Shape(m) /\ Layout(m) /\ RipResolves(m) /\ m.disk = <<>>
  BY DEF Started
<1>2. Shape(a) /\ SameParts(m, a) /\ a.pos = m.pos + Len(cells) /\ Puts(m, a, m.pos, cells)
  BY <1>1, PutCellsDoes
<1> HIDE DEF a
<1>3. m.pos \in Nat /\ Len(cells) \in Nat /\ Start \in Nat /\ Start + 2 \in Nat
  BY <1>1, SMTT(30) DEF Shape, Start, ClipAssumption
<1>4. a.parts = m.parts /\ a.rip = m.rip /\ a.disk = <<>> /\ a.pos \in Nat /\ a.pos >= m.pos
  BY <1>1, <1>2, <1>3 DEF SameParts
<1>5. Layout(a) /\ RipResolves(a)
  BY <1>1, <1>4, LayoutStays
<1>6. HoldsAt(a, m.pos, cells)
  BY <1>2, <1>3, HoldsPut
<1>7. ASSUME p.faults = 0 \/ p.bytes # <<>>
      PROVE  HoldsAt(a, Start, KeyAndLength) /\ HoldsAt(a, Start + 2, p.bytes)
  <2>1. p.bytes \in Seq(Cell) /\ Len(p.bytes) \in Nat /\ KeyAndLength \in Seq(Cell) /\ Len(KeyAndLength) = 2
    BY KeyAndLengthIs DEF PastShape
  <2>2. HoldsAt(m, Start, KeyAndLength) /\ HoldsAt(m, Start + 2, p.bytes) /\ m.pos >= Start + 2 + Len(p.bytes)
    <3>1. HoldsAt(m, Start + 2, p.bytes)
      BY DEF Started
    <3>2. CASE p.faults = 0
      <4>1. m.pos = Start + 2 + Len(p.bytes) /\ HoldsAt(m, Start, KeyAndLength)
        BY <3>2 DEF Started
      <4>2. QED
        BY <1>3, <2>1, <3>1, <4>1
    <3>3. CASE p.bytes # <<>>
      BY <3>1, <3>3 DEF Started
    <3>4. QED
      BY <1>7, <3>2, <3>3
  <2>3. Start + Len(KeyAndLength) <= m.pos /\ (Start + 2) + Len(p.bytes) <= m.pos
    <3>1. m.pos >= Start + 2 + Len(p.bytes) /\ m.pos \in Nat /\ Start \in Nat /\ Len(p.bytes) \in Nat
      BY <1>3, <2>1, <2>2
    <3>2. QED
      BY ONLY <2>1, <3>1, Beyond
  <2>4. HoldsAt(a, Start, KeyAndLength)
    BY <1>1, <1>2, <1>3, <2>1, <2>2, <2>3, HoldsKept
  <2>5. HoldsAt(a, Start + 2, p.bytes)
    <3>1. \A at \in Nat : HoldsAt(m, at, p.bytes) /\ at + Len(p.bytes) <= m.pos => HoldsAt(a, at, p.bytes)
      BY <1>1, <1>2, <1>3, <2>1, HoldsKept
    <3>2. QED
      BY <1>3, <2>2, <2>3, <3>1
  <2>6. QED
    BY <2>4, <2>5
<1>8. QED
  BY <1>2, <1>4, <1>5, <1>6, <1>7 DEF a

\* Samples of a buffer that is a whole number of them
LEMMA WholeSamples ==
  ASSUME NEW s \in Nat \ {0}, NEW len \in Nat, NEW frames \in Nat, len % s = 0
  PROVE  (frames + len \div s) * s = frames * s + len
<1>1. len = s * (len \div s) + (len % s) /\ len \div s \in Nat
  OBVIOUS
<1>2. \A q \in Nat : (frames + q) * s = frames * s + s * q
  OBVIOUS
<1>3. frames * s \in Nat
  OBVIOUS
<1>4. QED
  BY <1>1, <1>2, <1>3

LEMMA NatProduct == \A x, y \in Nat : x * y \in Nat
  OBVIOUS

LEMMA CountsMore ==
  ASSUME ClipAssumption, NEW p, NEW q, NEW b \in Seq(Cell), PastShape(p), NEW frames \in Nat,
         q.accepted = Append(p.accepted, b), q.faults = p.faults,
         q.bytes = IF p.faults = 0 THEN p.bytes \o b ELSE p.bytes,
         Counts(p, frames * SampleLen)
  PROVE  Counts(q, (frames + Len(b) \div SampleLen) * SampleLen)
<1> SUFFICES ASSUME Whole(q)
             PROVE  /\ (frames + Len(b) \div SampleLen) * SampleLen >= Len(q.bytes)
                    /\ q.faults = 0 => (frames + Len(b) \div SampleLen) * SampleLen = Len(q.bytes)
  BY DEF Counts
<1>1. p.accepted \in Seq(Seq(Cell)) /\ Len(p.bytes) \in Nat /\ p.bytes \in Seq(Cell) /\ Len(b) \in Nat /\ SampleLen \in Nat \ {0}
  BY DEF PastShape, ClipAssumption
<1>2. \A s \in Seq(Seq(Cell)) : /\ DOMAIN s \subseteq DOMAIN Append(s, b) /\ \A i \in DOMAIN s : Append(s, b)[i] = s[i]
                                /\ Len(s) + 1 \in DOMAIN Append(s, b) /\ Append(s, b)[Len(s) + 1] = b
  OBVIOUS
<1>3. Whole(p) /\ Len(b) % SampleLen = 0
  <2> DEFINE s == p.accepted
  <2>1. /\ DOMAIN s \subseteq DOMAIN q.accepted /\ \A i \in DOMAIN s : q.accepted[i] = s[i]
        /\ \E i \in DOMAIN q.accepted : q.accepted[i] = b
    BY <1>1, <1>2
  <2>2. \A i \in DOMAIN q.accepted : Len(q.accepted[i]) % SampleLen = 0
    BY DEF Whole
  <2>3. \A i \in DOMAIN s : Len(s[i]) % SampleLen = 0
    BY <2>1, <2>2
  <2>4. Len(b) % SampleLen = 0
    BY <2>1, <2>2
  <2>5. QED
    BY <2>3, <2>4 DEF Whole
<1>4. (frames + Len(b) \div SampleLen) * SampleLen = frames * SampleLen + Len(b)
  BY <1>1, <1>3, WholeSamples
<1>5. frames * SampleLen >= Len(p.bytes) /\ (p.faults = 0 => frames * SampleLen = Len(p.bytes)) /\ frames * SampleLen \in Nat
  BY <1>1, <1>3, NatProduct DEF Counts
<1> DEFINE size == frames * SampleLen
<1>6. (frames + Len(b) \div SampleLen) * SampleLen = size + Len(b) /\ size \in Nat /\ size >= Len(p.bytes)
      /\ (p.faults = 0 => size = Len(p.bytes))
  BY <1>4, <1>5
<1> HIDE DEF size
<1>7. CASE p.faults = 0
  <2>1. Len(q.bytes) = Len(p.bytes) + Len(b)
    BY <1>1, <1>7
  <2>2. QED
    BY <1>1, <1>6, <1>7, <2>1
<1>8. CASE p.faults # 0
  <2>1. Len(q.bytes) = Len(p.bytes) /\ q.faults # 0
    BY <1>8
  <2>2. QED
    BY <1>1, <1>6, <2>1
<1>9. QED
  BY <1>7, <1>8

LEMMA WritesPCM ==
  ASSUME ClipAssumption, NEW m, NEW p, NEW q, NEW u, NEW b \in Seq(Cell), b # <<>>,
         PastShape(p), PastShape(q), Started(m, p), q.faults = p.faults,
         q.bytes = IF p.faults = 0 THEN p.bytes \o b ELSE p.bytes,
         u.clipStart = Start, Counts(q, u.frames * SampleLen)
  PROVE  WritingPCM(u, PutCells(m, b), q)
<1> DEFINE a == PutCells(m, b)
<1>1. /\ Shape(a) /\ Layout(a) /\ RipResolves(a) /\ a.disk = <<>> /\ a.pos = m.pos + Len(b) /\ a.pos >= m.pos
      /\ p.faults = 0 \/ p.bytes # <<>> => HoldsAt(a, Start, KeyAndLength) /\ HoldsAt(a, Start + 2, p.bytes)
      /\ HoldsAt(a, m.pos, b)
  BY StartedPut
<1> HIDE DEF a
<1>2. Counts(q, u.frames * SampleLen)
  OBVIOUS
<1>3. Start \in Nat \ {0} /\ Len(b) \in Nat \ {0} /\ p.bytes \in Seq(Cell) /\ Len(p.bytes) \in Nat /\ m.pos \in Nat
  <2>1. Start \in Nat \ {0}
    BY DEF Start, ClipAssumption
  <2>2. p.bytes \in Seq(Cell)
    BY DEF PastShape
  <2>3. m.pos \in Nat
    BY DEF Started, Shape
  <2>4. \A x \in Seq(Cell) : Len(x) \in Nat /\ (x # <<>> => Len(x) # 0)
    OBVIOUS
  <2>5. QED
    BY <2>1, <2>2, <2>3, <2>4
<1>4. CASE p.faults = 0
  <2>1. m.pos = Start + 2 + Len(p.bytes) /\ q.bytes = p.bytes \o b /\ Len(q.bytes) = Len(p.bytes) + Len(b)
    <3>1. m.pos = Start + 2 + Len(p.bytes) /\ q.bytes = p.bytes \o b
      BY <1>4 DEF Started
    <3>2. Len(p.bytes \o b) = Len(p.bytes) + Len(b)
      BY <1>3
    <3>3. QED
      BY <3>1, <3>2
  <2>2. (Start + 2) + Len(p.bytes) = m.pos /\ Start + 2 \in Nat
    BY <1>3, <2>1
  <2>3. HoldsAt(a, (Start + 2) + Len(p.bytes), b)
    BY <1>1, <2>2
  <2>4. HoldsAt(a, Start + 2, p.bytes \o b)
    BY <1>1, <1>3, <1>4, <2>2, <2>3, HoldsMore
  <2>5. a.pos = Start + 2 + Len(q.bytes) /\ q.bytes # <<>>
    <3>1. a.pos = Start + 2 + Len(q.bytes) /\ Len(q.bytes) # 0
      <4>1. /\ a.pos = m.pos + Len(b) /\ m.pos = Start + 2 + Len(p.bytes) /\ Len(q.bytes) = Len(p.bytes) + Len(b)
            /\ m.pos \in Nat /\ Start \in Nat /\ Len(p.bytes) \in Nat /\ Len(b) \in Nat \ {0}
        BY <1>1, <1>3, <2>1
      <4>2. \A x \in Nat, y \in Nat \ {0} : x + y \in Nat /\ x + y # 0
        OBVIOUS
      <4>3. a.pos \in Nat /\ Len(q.bytes) # 0
        BY ONLY <4>1, <4>2
      <4>4. a.pos = Start + 2 + (Len(p.bytes) + Len(b))
        <5> DEFINE x == Len(p.bytes)
                   y == Len(b)
        <5>1. Start \in Nat /\ x \in Nat /\ y \in Nat /\ m.pos = Start + 2 + x /\ a.pos = m.pos + y
          BY <4>1
        <5> HIDE DEF x, y
        <5>2. a.pos = Start + 2 + (x + y)
          BY ONLY <5>1
        <5>3. QED
          BY <5>2 DEF x, y
      <4>5. QED
        BY ONLY <4>1, <4>3, <4>4
    <3>2. QED
      BY <3>1
  <2>6. a.pos >= Start + 2 + Len(q.bytes)
    BY <1>3, <2>1, <2>5
  <2>7. QED
    BY <1>1, <1>2, <1>3, <1>4, <2>1, <2>4, <2>5, <2>6 DEF WritingPCM, a
<1>5. CASE p.faults # 0
  <2>1. q.bytes = p.bytes /\ q.faults # 0
    BY <1>5
  <2>2. q.bytes # <<>> => a.pos >= Start + 2 + Len(q.bytes)
    <3>1. p.bytes # <<>> => m.pos >= Start + 2 + Len(p.bytes)
      BY DEF Started
    <3>2. /\ a.pos = m.pos + Len(b) /\ m.pos \in Nat /\ Start \in Nat /\ Len(p.bytes) \in Nat /\ Len(b) \in Nat
          /\ q.bytes = p.bytes
      BY <1>1, <1>3, <2>1
    <3>3. a.pos \in Nat /\ a.pos >= m.pos
      BY ONLY <3>2
    <3>4. QED
      BY ONLY <3>1, <3>2, <3>3, Beyond
  <2>3. QED
    BY <1>1, <1>2, <1>3, <2>1, <2>2 DEF WritingPCM, a
<1>6. QED
  BY <1>4, <1>5

LEMMA RefusedPCM ==
  ASSUME ClipAssumption, NEW m, NEW p, NEW q, NEW u, NEW cells \in Seq(Cell), PastShape(p), Started(m, p),
         SameBuffers(p, q), q.faults # 0, u.clipStart = Start, Counts(q, u.frames * SampleLen)
  PROVE  WritingPCM(u, PutCells(m, cells), q)
<1> DEFINE a == PutCells(m, cells)
<1>1. /\ Shape(a) /\ Layout(a) /\ RipResolves(a) /\ a.disk = <<>> /\ a.pos = m.pos + Len(cells) /\ a.pos >= m.pos
      /\ p.bytes # <<>> => HoldsAt(a, Start, KeyAndLength) /\ HoldsAt(a, Start + 2, p.bytes)
  BY StartedPut
<1> HIDE DEF a
<1>2. Start \in Nat \ {0} /\ q.bytes = p.bytes
  BY DEF Start, ClipAssumption, SameBuffers
<1>3. q.bytes # <<>> => a.pos >= Start + 2 + Len(q.bytes)
  <2> DEFINE x == Len(p.bytes)
  <2>1. x \in Nat /\ m.pos \in Nat /\ a.pos \in Nat
    BY <1>1 DEF PastShape, Started, Shape
  <2>2. p.bytes # <<>> => m.pos >= Start + 2 + x
    BY DEF Started
  <2> HIDE DEF x
  <2>3. a.pos >= m.pos
    BY <1>1
  <2>4. p.bytes # <<>> => a.pos >= Start + 2 + x
    BY ONLY <1>2, <2>1, <2>2, <2>3
  <2>5. QED
    BY <1>2, <2>4 DEF x
<1>4. QED
  BY <1>1, <1>2, <1>3 DEF WritingPCM, a

\* The writer record of a PCM step
LEMMA WriterDoes ==
  ASSUME WriterShape(writer), NEW st \in {"NONE", "READY", "RUNNING", "FINAL", "CRASHED"}, NEW start \in Nat,
         NEW frames \in Nat, NEW open,
         writer' = [writer EXCEPT !.st = st, !.clipStart = start, !.frames = frames, !.open = open]
  PROVE  /\ WriterShape(writer') /\ writer'.kind = writer.kind /\ writer'.st = st /\ writer'.clipStart = start
         /\ writer'.frames = frames /\ writer'.open = open /\ writer'.streamOffset = writer.streamOffset
<1>1. writer' = [kind |-> writer.kind, st |-> st, clipStart |-> start, frames |-> frames,
                 streamOffset |-> writer.streamOffset, open |-> open]
  BY DEF WriterShape
<1>2. /\ writer'.kind = writer.kind /\ writer'.st = st /\ writer'.clipStart = start
      /\ writer'.frames = frames /\ writer'.open = open /\ writer'.streamOffset = writer.streamOffset
  BY <1>1
<1>3. QED
  BY <1>1, <1>2 DEF WriterShape

\* A buffer that meets a file in state FINAL, left open: nothing is promised of it.
LEMMA OpenUnfinished ==
  ASSUME ClipAssumption, Shape(mxf), mxf.disk = <<>>, NEW cells \in Seq(Cell)
  PROVE  /\ Shape(PutCells(mxf, cells)) /\ PutCells(mxf, cells).disk = <<>>
         /\ Shape(PutCells(StartClip(mxf), cells)) /\ PutCells(StartClip(mxf), cells).disk = <<>>
<1> DEFINE m == StartClip(mxf)
<1>1. \A c \in Seq(Cell) : Shape(PutCells(mxf, c)) /\ PutCells(mxf, c).disk = <<>>
  BY PutCellsDoes DEF SameParts
<1>2. Shape(m) /\ m.disk = <<>>
  BY <1>1, KeyAndLengthIs DEF StartClip
<1> HIDE DEF m
<1>3. Shape(PutCells(m, cells)) /\ PutCells(m, cells).disk = <<>>
  BY <1>2, PutCellsDoes DEF SameParts
<1>4. QED
  BY <1>1, <1>3 DEF m

LEMMA WriteFramePCMKeeps ==
  ASSUME ClipAssumption, ClipInv, NEW len \in BlockLens, WriteFramePCM(len)
  PROVE  ClipInv'
<1> DEFINE st == IF writer.st = "READY" THEN "RUNNING" ELSE writer.st
           b == Block(len)
           m == StartClip(mxf)
<1>1. /\ writer.kind = "PCM" /\ writer.open /\ past.offered < MaxBlocks /\ WriterShape(writer) /\ Shape(mxf)
      /\ PastShape(past) /\ InvPCM(writer, mxf, past)
  BY DEF WriteFramePCM, ClipInv
<1>2. mxf.disk = <<>> /\ writer.st \in {"READY", "RUNNING", "FINAL"}
  BY <1>1 DEF InvPCM, WriterShape
<1>3. b \in Seq(Cell) /\ Len(b) = len /\ len \in Nat \ {0} /\ b # <<>>
  <2>1. b \in Seq(Cell) /\ Len(b) = len /\ len \in Nat \ {0}
    BY <1>1, BlockIs
  <2> HIDE DEF b
  <2>2. QED
    BY <2>1
<1>4. st \in {"RUNNING", "FINAL"} /\ ClipStart \in Nat
  BY <1>1, <1>2 DEF ClipStart, WriterShape, Shape
<1>5. st = "RUNNING" => WritingPCM(writer, mxf, past) /\ writer.st \in {"READY", "RUNNING"}
  BY <1>1, <1>2 DEF InvPCM
<1>6. st = "RUNNING" => ClipStart = Start /\ Start \in Nat \ {0} /\ Started(m, past)
  BY <1>1, <1>2, <1>5, StartClipDoes
<1>7. \A c \in Seq(Cell) : /\ Shape(PutCells(mxf, c)) /\ PutCells(mxf, c).disk = <<>>
                           /\ Shape(PutCells(m, c)) /\ PutCells(m, c).disk = <<>>
  BY <1>1, <1>2, OpenUnfinished
<1>8. st = "RUNNING" => Counts(past, writer.frames * SampleLen)
  BY <1>5 DEF WritingPCM
<1>9. writer.frames \in Nat /\ len \div SampleLen \in Nat
  BY <1>1, <1>3, SMTT(30) DEF WriterShape, ClipAssumption
<1> HIDE DEF st, b, m
<1>10. \/ /\ mxf' = PutCells(m, b)
          /\ writer' = [writer EXCEPT !.st = st, !.clipStart = ClipStart, !.frames = writer.frames + len \div SampleLen,
                                      !.open = writer.open]
          /\ Accepted(b)
       \/ /\ writer.clipStart = 0
          /\ writer' = [writer EXCEPT !.st = st, !.clipStart = ClipStart, !.frames = writer.frames, !.open = writer.open]
          /\ Refused("key")
          /\ \E n \in 0 .. 1 : mxf' = PutCells(mxf, SubSeq(KeyAndLength, 1, n))
       \/ /\ writer' = [writer EXCEPT !.st = st, !.clipStart = ClipStart, !.frames = writer.frames, !.open = writer.open]
          /\ Refused("block")
          /\ \E n \in 0 .. len - 1 : mxf' = PutCells(m, SubSeq(b, 1, n))
  <2> DEFINE started == [writer EXCEPT !.st = st, !.clipStart = ClipStart]
  <2>1. started = [writer EXCEPT !.st = st, !.clipStart = ClipStart, !.frames = writer.frames, !.open = writer.open]
    BY <1>1 DEF WriterShape
  <2>2. [started EXCEPT !.frames = @ + len \div SampleLen] =
        [writer EXCEPT !.st = st, !.clipStart = ClipStart, !.frames = writer.frames + len \div SampleLen, !.open = writer.open]
    BY <1>1 DEF WriterShape
  <2>3. \/ /\ mxf' = PutCells(m, b)
           /\ writer' = [started EXCEPT !.frames = @ + len \div SampleLen]
           /\ Accepted(b)
        \/ /\ writer.clipStart = 0
           /\ writer' = started
           /\ Refused("key")
           /\ \E n \in 0 .. 1 : mxf' = PutCells(mxf, SubSeq(KeyAndLength, 1, n))
        \/ /\ writer' = started
           /\ Refused("block")
           /\ \E n \in 0 .. len - 1 : mxf' = PutCells(m, SubSeq(b, 1, n))
    BY DEF WriteFramePCM, st, m, b
  <2> HIDE DEF started
  <2>4. QED
    BY <2>1, <2>2, <2>3
<1> DEFINE Good == /\ WriterShape(writer') /\ Shape(mxf') /\ PastShape(past') /\ writer'.kind = "PCM" /\ mxf'.disk = <<>>
                   /\ writer'.st = st /\ writer'.open = writer.open
                   /\ st = "RUNNING" => WritingPCM(writer', mxf', past')
<1>11. ASSUME mxf' = PutCells(m, b), Accepted(b),
              writer' = [writer EXCEPT !.st = st, !.clipStart = ClipStart, !.frames = writer.frames + len \div SampleLen,
                                       !.open = writer.open]
       PROVE  Good
  <2>1. /\ PastShape(past') /\ past'.accepted = Append(past.accepted, b) /\ past'.faults = past.faults
        /\ past'.bytes = IF past.faults = 0 THEN past.bytes \o b ELSE past.bytes
    BY <1>1, <1>3, <1>11, AcceptedDoes
  <2>2. writer.frames + len \div SampleLen \in Nat
    BY <1>9
  <2>3. /\ WriterShape(writer') /\ writer'.kind = writer.kind /\ writer'.st = st /\ writer'.clipStart = ClipStart
        /\ writer'.frames = writer.frames + len \div SampleLen /\ writer'.open = writer.open
    BY <1>1, <1>4, <1>11, <2>2, WriterDoes, ZenonT(60)
  <2>4. ASSUME st = "RUNNING" PROVE WritingPCM(writer', mxf', past')
    <3>1. Counts(past', (writer.frames + Len(b) \div SampleLen) * SampleLen)
      BY <1>1, <1>3, <1>8, <1>9, <2>1, <2>4, CountsMore
    <3>2. Counts(past', writer'.frames * SampleLen)
      BY <1>3, <2>3, <3>1
    <3>3. writer'.clipStart = Start /\ Started(m, past)
      BY <1>6, <2>3, <2>4
    <3>4. WritingPCM(writer', PutCells(m, b), past')
      BY <1>1, <1>3, <2>1, <3>2, <3>3, WritesPCM
    <3>5. QED
      BY <1>11, <3>4
  <2>5. QED
    BY <1>1, <1>3, <1>7, <1>11, <2>1, <2>3, <2>4
<1>12. ASSUME NEW fault, Refused(fault),
              writer' = [writer EXCEPT !.st = st, !.clipStart = ClipStart, !.frames = writer.frames, !.open = writer.open]
       PROVE  /\ PastShape(past') /\ SameBuffers(past, past') /\ past'.faults # 0
              /\ WriterShape(writer') /\ writer'.kind = "PCM" /\ writer'.st = st /\ writer'.open = writer.open
              /\ st = "RUNNING" => writer'.clipStart = Start /\ Counts(past', writer'.frames * SampleLen)
  <2>1. /\ PastShape(past') /\ past'.accepted = past.accepted /\ past'.bytes = past.bytes
        /\ past'.faults = past.faults + 1
    BY <1>1, <1>12, RefusedDoes
  <2>2. past.faults \in Nat
    BY <1>1 DEF PastShape, ClipAssumption
  <2>3. SameBuffers(past, past') /\ past'.faults # 0
    BY <2>1, <2>2 DEF SameBuffers
  <2>4. /\ WriterShape(writer') /\ writer'.kind = writer.kind /\ writer'.st = st /\ writer'.clipStart = ClipStart
        /\ writer'.frames = writer.frames /\ writer'.open = writer.open
    BY <1>1, <1>4, <1>9, <1>12, WriterDoes, ZenonT(60)
  <2>5. \A size : Counts(past, size) => Counts(past', size)
    BY <2>3, SamePCM
  <2>6. QED
    BY <1>1, <1>6, <1>8, <2>1, <2>3, <2>4, <2>5
<1>13. ASSUME writer.clipStart = 0, Refused("key"),
              writer' = [writer EXCEPT !.st = st, !.clipStart = ClipStart, !.frames = writer.frames, !.open = writer.open],
              NEW n \in 0 .. 1, mxf' = PutCells(mxf, SubSeq(KeyAndLength, 1, n))
       PROVE  Good
  <2> DEFINE cells == SubSeq(KeyAndLength, 1, n)
  <2>1. cells \in Seq(Cell)
    BY KeyAndLengthIs
  <2> HIDE DEF cells
  <2>2. mxf' = PutCells(mxf, cells)
    BY <1>13 DEF cells
  <2>3. /\ PastShape(past') /\ SameBuffers(past, past') /\ past'.faults # 0
        /\ WriterShape(writer') /\ writer'.kind = "PCM" /\ writer'.st = st /\ writer'.open = writer.open
        /\ st = "RUNNING" => writer'.clipStart = Start /\ Counts(past', writer'.frames * SampleLen)
    BY <1>12, <1>13
  <2>4. ASSUME st = "RUNNING" PROVE WritingPCM(writer', mxf', past')
    <3>1. Layout(mxf) /\ RipResolves(mxf) /\ past.bytes = <<>>
      BY <1>5, <1>13, <2>4 DEF WritingPCM
    <3>2. Shape(mxf') /\ SameParts(mxf, mxf') /\ mxf'.pos = mxf.pos + Len(cells)
      BY <1>1, <2>1, <2>2, PutCellsDoes
    <3>3. mxf'.pos \in Nat /\ mxf'.pos >= mxf.pos
      BY <1>1, <2>1, <3>2 DEF Shape
    <3>4. Layout(mxf') /\ RipResolves(mxf')
      BY <1>1, <3>1, <3>2, <3>3, LayoutStays DEF SameParts
    <3>5. Start # 0 /\ past'.bytes = <<>>
      BY <1>6, <2>3, <2>4, <3>1 DEF SameBuffers
    <3>6. QED
      BY <2>3, <2>4, <3>4, <3>5 DEF WritingPCM
  <2>5. QED
    BY <1>7, <2>1, <2>2, <2>3, <2>4
<1>14. ASSUME Refused("block"),
              writer' = [writer EXCEPT !.st = st, !.clipStart = ClipStart, !.frames = writer.frames, !.open = writer.open],
              NEW n \in 0 .. len - 1, mxf' = PutCells(m, SubSeq(b, 1, n))
       PROVE  Good
  <2> DEFINE cells == SubSeq(b, 1, n)
  <2>1. cells \in Seq(Cell)
    BY <1>3, PartOfBlock
  <2> HIDE DEF cells
  <2>2. mxf' = PutCells(m, cells)
    BY <1>14 DEF cells
  <2>3. /\ PastShape(past') /\ SameBuffers(past, past') /\ past'.faults # 0
        /\ WriterShape(writer') /\ writer'.kind = "PCM" /\ writer'.st = st /\ writer'.open = writer.open
        /\ st = "RUNNING" => writer'.clipStart = Start /\ Counts(past', writer'.frames * SampleLen)
    BY <1>12, <1>14
  <2>4. ASSUME st = "RUNNING" PROVE WritingPCM(writer', mxf', past')
    BY <1>1, <1>6, <2>1, <2>2, <2>3, <2>4, RefusedPCM
  <2>5. QED
    BY <1>7, <2>1, <2>2, <2>3, <2>4
<1>15. Good
  BY <1>10, <1>11, <1>13, <1>14
<1>16. InvPCM(writer', mxf', past')
  BY <1>1, <1>4, <1>15 DEF InvPCM
<1>17. QED
  BY <1>15, <1>16 DEF ClipInv

-----------------------------------------------------------------------------
(* Finalize *)

\* Cells written over earlier ones, the position where it was
LEMMA PatchDoes ==
  ASSUME NEW m, Shape(m), NEW pos \in Nat, NEW cells \in Seq(Cell)
  PROVE  LET a == [PutCells([m EXCEPT !.pos = pos], cells) EXCEPT !.pos = m.pos]
         IN  Shape(a) /\ SameParts(m, a) /\ a.pos = m.pos /\ Puts(m, a, pos, cells)
<1> DEFINE b == [m EXCEPT !.pos = pos]
           c == PutCells(b, cells)
           a == [c EXCEPT !.pos = m.pos]
<1>1. Shape(b) /\ SameParts(m, b) /\ b.pos = pos /\ b.cells = m.cells /\ m.pos \in Nat
  <2>1. b = [m EXCEPT !.pos = pos]
    OBVIOUS
  <2> HIDE DEF b
  <2>2. /\ b.pos = pos /\ b.parts = m.parts /\ b.rip = m.rip /\ b.disk = m.disk /\ b.segs = m.segs /\ b.cells = m.cells
        /\ b.stream = m.stream /\ b.queued = m.queued
        /\ b = [pos |-> b.pos, parts |-> b.parts, rip |-> b.rip, disk |-> b.disk, segs |-> b.segs, cells |-> b.cells,
                stream |-> b.stream, queued |-> b.queued]
    BY <2>1 DEF Shape
  <2>3. QED
    BY <2>2 DEF Shape, SameParts
<1> HIDE DEF b
<1>2. Shape(c) /\ SameParts(b, c) /\ Puts(b, c, pos, cells)
  BY <1>1, PutCellsDoes
<1> HIDE DEF c
<1>3. Shape(a) /\ SameParts(c, a) /\ a.pos = m.pos /\ a.cells = c.cells
  BY <1>1, <1>2, SMTT(30) DEF Shape, SameParts
<1> HIDE DEF a
<1>4. Puts(m, a, pos, cells)
  BY <1>1, <1>2, <1>3 DEF Puts
<1>5. SameParts(m, a)
  BY <1>1, <1>2, <1>3 DEF SameParts
<1>6. QED
  BY <1>3, <1>4, <1>5 DEF a, b, c

\* The cells of a file whose cells are those of another
LEMMA SameCells ==
  ASSUME NEW m, NEW a, a.cells = m.cells
  PROVE  \A at, bytes : HoldsAt(m, at, bytes) => HoldsAt(a, at, bytes)
  BY DEF HoldsAt

LEMMA FlushIndexDoes ==
  ASSUME ClipAssumption, NEW m, Shape(m), Layout(m), NEW segs
  PROVE  LET a == FlushIndex(m, segs)
         IN  /\ Shape(a) /\ Layout(a) /\ (RipResolves(m) => RipResolves(a)) /\ a.disk = m.disk /\ a.cells = m.cells
             /\ HasIndex(a) /\ a.stream = m.stream /\ a.queued = m.queued /\ a.pos >= m.pos
             /\ Fresh(m) => First(a, segs)
             /\ \A s : First(m, s) => First(a, s)
<1> DEFINE a == FlushIndex(m, segs)
<1>1. /\ Shape(a) /\ a.disk = m.disk /\ a.stream = m.stream /\ a.queued = m.queued
      /\ \E pack : Adds(m, a, pack, 0) /\ pack.type = "index" /\ pack.segs = segs
  BY FlushIndexAdds
<1> HIDE DEF a
<1>2. PICK pack : Adds(m, a, pack, 0) /\ pack.type = "index" /\ pack.segs = segs
  BY <1>1
<1>3. 0 \in Nat \ {1}
  OBVIOUS
<1>4. Layout(a) /\ (RipResolves(m) => RipResolves(a))
  BY <1>2, <1>3, LayoutAdds
<1>5. /\ \A s : First(m, s) => First(a, s)
      /\ HasIndex(a) /\ (Fresh(m) => First(a, segs))
  BY <1>2, <1>3, FirstAdds
<1>6. a.cells = m.cells /\ a.pos = m.pos + PackLen
  BY <1>2 DEF Adds, Lists
<1>7. a.pos >= m.pos
  BY <1>6 DEF Shape, ClipAssumption
<1>8. QED
  BY <1>1, <1>4, <1>5, <1>6, <1>7 DEF a

LEMMA FooterDoes ==
  ASSUME ClipAssumption, NEW m, Shape(m), Layout(m)
  PROVE  LET a == Footer(m)
         IN  /\ Shape(a) /\ Layout(a) /\ (RipResolves(m) => RipResolves(a)) /\ a.disk = a.rip /\ a.cells = m.cells
             /\ a.pos >= m.pos
             /\ Fresh(m) => Fresh(a)
             /\ \A s : First(m, s) => First(a, s)
             /\ HasIndex(m) => HasIndex(a)
<1> DEFINE a == Footer(m)
<1>1. /\ Shape(a) /\ a.disk = a.rip
      /\ \E pack : Adds(m, a, pack, 0) /\ pack.type = "footer"
  BY FooterAdds
<1> HIDE DEF a
<1>2. PICK pack : Adds(m, a, pack, 0) /\ pack.type = "footer"
  BY <1>1
<1>3. 0 \in Nat \ {1} /\ pack.type # "index"
  BY <1>2
<1>4. Layout(a) /\ (RipResolves(m) => RipResolves(a))
  BY <1>2, <1>3, LayoutAdds
<1>5. (\A s : First(m, s) => First(a, s)) /\ (Fresh(m) => Fresh(a)) /\ (HasIndex(m) => HasIndex(a))
  BY <1>2, <1>3, FirstAdds
<1>6. a.cells = m.cells /\ a.pos = m.pos + PackLen
  BY <1>2 DEF Adds, Lists
<1>7. a.pos >= m.pos
  BY <1>6 DEF Shape, ClipAssumption
<1>8. QED
  BY <1>1, <1>4, <1>5, <1>6, <1>7 DEF a

\* The length of the clip, in its place
LEMMA BackPatchDoes ==
  ASSUME ClipAssumption, WriterShape(writer), Shape(mxf), writer.kind = "PCM" \/ writer.streamOffset >= 2
  PROVE  LET cells == <<<<"length", ClipLength>>>>
             a == BackPatch(mxf)
         IN  /\ ClipLength \in Nat /\ cells \in Seq(Cell) /\ Len(cells) = 1
             /\ Shape(a) /\ SameParts(mxf, a) /\ a.pos = mxf.pos
             /\ Puts(mxf, a, writer.clipStart + 1, cells)
<1>1. ClipLength \in Nat
  <2>1. CASE writer.kind = "PCM"
    <3>1. writer.frames \in Nat /\ SampleLen \in Nat
      BY DEF WriterShape, ClipAssumption
    <3>2. writer.frames * SampleLen \in Nat
      BY <3>1, NatProduct
    <3>3. QED
      BY <2>1, <3>2 DEF ClipLength
  <2>2. CASE writer.kind # "PCM"
    BY <2>2 DEF ClipLength, KLLen, WriterShape
  <2>3. QED
    BY <2>1, <2>2
<1>2. <<"length", ClipLength>> \in Cell
  BY <1>1 DEF Cell, CellKinds
<1> DEFINE cells == <<<<"length", ClipLength>>>>
<1>3. cells \in Seq(Cell) /\ Len(cells) = 1
  BY <1>2
<1> HIDE DEF cells
<1>4. writer.clipStart + 1 \in Nat
  BY DEF WriterShape
<1>5. BackPatch(mxf) = [PutCells([mxf EXCEPT !.pos = writer.clipStart + 1], cells) EXCEPT !.pos = mxf.pos]
  BY DEF BackPatch, cells
<1>6. /\ Shape(BackPatch(mxf)) /\ SameParts(mxf, BackPatch(mxf)) /\ BackPatch(mxf).pos = mxf.pos
      /\ Puts(mxf, BackPatch(mxf), writer.clipStart + 1, cells)
  <2> DEFINE at == writer.clipStart + 1
             a == [PutCells([mxf EXCEPT !.pos = at], cells) EXCEPT !.pos = mxf.pos]
  <2>1. at \in Nat /\ BackPatch(mxf) = a
    BY <1>4, <1>5
  <2> HIDE DEF at
  <2>2. Shape(a) /\ SameParts(mxf, a) /\ a.pos = mxf.pos /\ Puts(mxf, a, at, cells)
    BY <1>3, <2>1, PatchDoes
  <2> HIDE DEF a
  <2>3. QED
    BY <2>1, <2>2 DEF at
<1>7. QED
  BY <1>1, <1>3, <1>6 DEF cells

LEMMA FinalizedPCM ==
  ASSUME ClipAssumption, ClipInv, writer.kind = "PCM", writer.st = "RUNNING"
  PROVE  LET flushed == IF writer.frames > 0 THEN FlushIndex(BackPatch(mxf), <<>>) ELSE BackPatch(mxf)
             a == Footer(flushed)
         IN  Shape(flushed) /\ Shape(a) /\ ClosedPCM(a, past)
<1> DEFINE cells == <<<<"length", ClipLength>>>>
           b == BackPatch(mxf)
           c == IF writer.frames > 0 THEN FlushIndex(b, <<>>) ELSE b
           a == Footer(c)
<1>1. WriterShape(writer) /\ Shape(mxf) /\ PastShape(past) /\ WritingPCM(writer, mxf, past)
  BY DEF ClipInv, InvPCM
<1>2. /\ ClipLength \in Nat /\ cells \in Seq(Cell) /\ Len(cells) = 1
      /\ Shape(b) /\ SameParts(mxf, b) /\ b.pos = mxf.pos
      /\ Puts(mxf, b, writer.clipStart + 1, cells)
  BY <1>1, BackPatchDoes
<1>3. cells[1] = <<"length", writer.frames * SampleLen>>
  BY DEF ClipLength
<1> HIDE DEF b, cells
<1>4. Layout(b) /\ RipResolves(b)
  <2>1. Layout(mxf) /\ RipResolves(mxf) /\ b.pos \in Nat /\ b.pos >= mxf.pos
    BY <1>1, <1>2 DEF WritingPCM, Shape
  <2>2. QED
    BY <1>1, <1>2, <2>1, LayoutStays DEF SameParts
<1>5. Shape(c) /\ Layout(c) /\ RipResolves(c) /\ c.cells = b.cells /\ (writer.frames > 0 => HasIndex(c))
  <2>1. CASE writer.frames > 0
    <3>1. c = FlushIndex(b, <<>>)
      BY <2>1
    <3>2. QED
      BY <1>2, <1>4, <2>1, <3>1, FlushIndexDoes
  <2>2. CASE ~(writer.frames > 0)
    BY <1>2, <1>4, <2>2
  <2>3. QED
    BY <2>1, <2>2
<1> HIDE DEF c
<1>6. Shape(a) /\ Layout(a) /\ RipResolves(a) /\ a.disk = a.rip /\ a.cells = c.cells /\ (HasIndex(c) => HasIndex(a))
  BY <1>5, FooterDoes
<1> HIDE DEF a
<1>7. ASSUME past.bytes # <<>>, Whole(past)
      PROVE  /\ HasIndex(a) /\ HoldsAt(a, Start + 2, past.bytes)
             /\ \E n \in Nat : /\ Counts(past, n * SampleLen)
                               /\ HoldsAt(a, Start, <<<<"key", 0>>, <<"length", n * SampleLen>>>>)
  <2>1. /\ HoldsAt(mxf, Start, KeyAndLength) /\ HoldsAt(mxf, Start + 2, past.bytes) /\ writer.clipStart = Start
        /\ Counts(past, writer.frames * SampleLen) /\ writer.frames \in Nat /\ Start \in Nat
    BY <1>1, <1>7 DEF WritingPCM, WriterShape, Start, ClipAssumption
  <2>2. past.bytes \in Seq(Cell) /\ Len(past.bytes) \in Nat \ {0}
    <3>1. past.bytes \in Seq(Cell)
      BY <1>1 DEF PastShape
    <3>2. QED
      BY <1>7, <3>1
  <2>3. writer.frames > 0
    <3>1. writer.frames * SampleLen >= Len(past.bytes)
      BY <1>7, <2>1 DEF Counts
    <3>2. writer.frames # 0
      <4>1. SampleLen \in Nat
        BY DEF ClipAssumption
      <4>2. 0 * SampleLen = 0
        BY <4>1
      <4>3. QED
        BY <2>2, <3>1, <4>2
    <3>3. QED
      BY <2>1, <3>2
  <2>4. HasIndex(a)
    BY <1>5, <1>6, <2>3
  <2>5. HoldsAt(b, Start + 2, past.bytes)
    <3>1. (Start + 1) + Len(cells) <= Start + 2 /\ Start + 2 \in Nat /\ Start + 1 \in Nat
      BY <1>2, <2>1
    <3> DEFINE at == Start + 2
               pos == Start + 1
    <3>2. Puts(mxf, b, pos, cells) /\ HoldsAt(mxf, at, past.bytes) /\ pos + Len(cells) <= at /\ pos \in Nat /\ at \in Nat
      BY <1>2, <2>1, <3>1
    <3> HIDE DEF at, pos
    <3>3. HoldsAt(b, at, past.bytes)
      BY <1>1, <1>2, <2>2, <3>2, HoldsKept
    <3>4. QED
      BY <3>3 DEF at
  <2>6. HoldsAt(b, Start, <<<<"key", 0>>, <<"length", writer.frames * SampleLen>>>>)
    <3> DEFINE both == <<<<"key", 0>>, <<"length", writer.frames * SampleLen>>>>
    <3>1. 1 \in 1 .. Len(KeyAndLength) /\ KeyAndLength[1] = <<"key", 0>> /\ Start + 1 - 1 = Start
      BY <2>1 DEF KeyAndLength
    <3>2. Start \in DOMAIN mxf.cells /\ mxf.cells[Start] = <<"key", 0>>
      <4>1. \A i \in 1 .. Len(KeyAndLength) :
              Start + i - 1 \in DOMAIN mxf.cells /\ mxf.cells[Start + i - 1] = KeyAndLength[i]
        BY <2>1 DEF HoldsAt
      <4>2. QED
        BY <3>1, <4>1
    <3>3. Aside(Start, Start + 1, cells)
      BY <2>1 DEF Aside
    <3>4. Start \in DOMAIN b.cells /\ b.cells[Start] = <<"key", 0>>
      BY <1>2, <2>1, <3>2, <3>3 DEF Puts
    <3>5. 1 \in DOMAIN cells /\ Start + 1 + 1 - 1 = Start + 2 - 1
      BY <1>2, <2>1
    <3>6. Start + 2 - 1 \in DOMAIN b.cells /\ b.cells[Start + 2 - 1] = <<"length", writer.frames * SampleLen>>
      BY <1>2, <1>3, <2>1, <3>5 DEF Puts
    <3>7. Len(both) = 2 /\ both[1] = <<"key", 0>> /\ both[2] = <<"length", writer.frames * SampleLen>>
      OBVIOUS
    <3> HIDE DEF both
    <3>8. \A i \in 1 .. Len(both) : i = 1 \/ i = 2
      BY <3>7
    <3>9. HoldsAt(b, Start, both)
      BY <3>1, <3>4, <3>6, <3>7, <3>8 DEF HoldsAt
    <3>10. QED
      BY <3>9 DEF both
  <2>7. a.cells = b.cells
    BY <1>5, <1>6
  <2>8. /\ HoldsAt(a, Start + 2, past.bytes)
        /\ HoldsAt(a, Start, <<<<"key", 0>>, <<"length", writer.frames * SampleLen>>>>)
    BY <2>5, <2>6, <2>7, SameCells
  <2>9. QED
    BY <2>1, <2>4, <2>8
<1>8. ClosedPCM(a, past)
  BY <1>6, <1>7 DEF ClosedPCM
<1>9. QED
  BY <1>5, <1>6, <1>8 DEF a, c, b

\* A clip that is closed, or may not be: the file is whatever the footer left.
LEMMA FinalizePCMKeeps ==
  ASSUME ClipAssumption, ClipInv, FinalizePCM
  PROVE  ClipInv'
<1> DEFINE patched == BackPatch(mxf)
           flushed == IF writer.frames > 0 THEN FlushIndex(patched, <<>>) ELSE patched
<1>1. /\ writer.kind = "PCM" /\ writer.st = "RUNNING" /\ WriterShape(writer) /\ Shape(mxf) /\ PastShape(past)
      /\ mxf.disk = <<>>
  BY DEF FinalizePCM, ClipInv, InvPCM
<1>2. writer.clipStart \in Nat /\ writer.frames \in Nat /\ writer.clipStart + 1 \in Nat /\ writer.clipStart + 2 \in Nat
  BY <1>1 DEF WriterShape
<1>3. Shape(flushed) /\ Shape(Footer(flushed)) /\ ClosedPCM(Footer(flushed), past)
  BY <1>1, FinalizedPCM
<1>4. Shape(patched) /\ SameParts(mxf, patched)
  BY <1>1, BackPatchDoes
<1>5. \/ /\ \/ mxf' = Footer(flushed) /\ Call("OK", "none")
            \/ mxf' \in FooterFails(flushed) /\ Call("OK", "footer")
         /\ writer' = [writer EXCEPT !.st = "FINAL", !.clipStart = 0, !.open = FALSE]
      \/ /\ mxf' = [mxf EXCEPT !.pos = writer.clipStart + 1]
         /\ writer' = [writer EXCEPT !.st = "FINAL"]
         /\ Call("FAIL", "length")
      \/ /\ mxf' = [patched EXCEPT !.pos = writer.clipStart + 2]
         /\ writer' = [writer EXCEPT !.st = "FINAL", !.clipStart = 0]
         /\ Call("FAIL", "seekBack")
  BY DEF FinalizePCM
<1> HIDE DEF patched, flushed
<1>6. \A start \in Nat : \A open :
        writer' = [writer EXCEPT !.st = "FINAL", !.clipStart = start, !.frames = writer.frames, !.open = open] =>
          WriterShape(writer') /\ writer'.kind = "PCM" /\ writer'.st = "FINAL" /\ writer'.open = open
  <2> SUFFICES ASSUME NEW start \in Nat, NEW open,
                      writer' = [writer EXCEPT !.st = "FINAL", !.clipStart = start, !.frames = writer.frames, !.open = open]
               PROVE  WriterShape(writer') /\ writer'.kind = "PCM" /\ writer'.st = "FINAL" /\ writer'.open = open
    OBVIOUS
  <2>1. "FINAL" \in {"NONE", "READY", "RUNNING", "FINAL", "CRASHED"}
    OBVIOUS
  <2>2. QED
    BY <1>1, <1>2, <2>1, WriterDoes, ZenonT(60)
\* Whatever the file is, nothing is said of it unless the clip was closed.
<1>7. ASSUME NEW start \in Nat, NEW open, Shape(mxf'), PastShape(past'),
             writer' = [writer EXCEPT !.st = "FINAL", !.clipStart = start, !.frames = writer.frames, !.open = open],
             open => mxf'.disk = <<>>, mxf'.disk # <<>> /\ Ended(past') => ClosedPCM(mxf', past')
      PROVE  ClipInv'
  <2>1. WriterShape(writer') /\ writer'.kind = "PCM" /\ writer'.st = "FINAL" /\ writer'.open = open
    BY <1>6, <1>7
  <2>2. InvPCM(writer', mxf', past')
    BY <1>7, <2>1 DEF InvPCM
  <2>3. QED
    BY <1>7, <2>1, <2>2 DEF ClipInv
<1>8. \A start : [writer EXCEPT !.st = "FINAL", !.clipStart = start, !.open = FALSE] =
                 [writer EXCEPT !.st = "FINAL", !.clipStart = start, !.frames = writer.frames, !.open = FALSE]
  BY <1>1 DEF WriterShape
<1>9. ASSUME mxf' = Footer(flushed), Call("OK", "none"),
             writer' = [writer EXCEPT !.st = "FINAL", !.clipStart = 0, !.open = FALSE]
      PROVE  ClipInv'
  <2>1. writer' = [writer EXCEPT !.st = "FINAL", !.clipStart = 0, !.frames = writer.frames, !.open = FALSE]
    BY <1>8, <1>9
  <2>2. PastShape(past') /\ SameBuffers(past, past')
    BY <1>1, <1>9, CallDoes DEF SameBuffers
  <2>3. Shape(mxf') /\ ClosedPCM(mxf', past')
    BY <1>3, <1>9, <2>2, SamePCM
  <2>4. 0 \in Nat
    OBVIOUS
  <2>5. QED
    BY <1>7, <2>1, <2>2, <2>3, <2>4
<1>10. ASSUME mxf' \in FooterFails(flushed), Call("OK", "footer"),
              writer' = [writer EXCEPT !.st = "FINAL", !.clipStart = 0, !.open = FALSE]
       PROVE  ClipInv'
  <2>1. writer' = [writer EXCEPT !.st = "FINAL", !.clipStart = 0, !.frames = writer.frames, !.open = FALSE]
    BY <1>8, <1>10
  <2>2. PastShape(past') /\ ~Ended(past')
    BY <1>1, <1>10, CallDoes DEF Ended
  <2>3. Shape(mxf')
    BY <1>3, <1>10, FooterFailsIs
  <2>4. 0 \in Nat
    OBVIOUS
  <2>5. QED
    BY <1>7, <2>1, <2>2, <2>3, <2>4
<1>11. ASSUME mxf' = [mxf EXCEPT !.pos = writer.clipStart + 1], Call("FAIL", "length"),
              writer' = [writer EXCEPT !.st = "FINAL"]
       PROVE  ClipInv'
  <2>1. writer' = [writer EXCEPT !.st = "FINAL", !.clipStart = writer.clipStart, !.frames = writer.frames,
                                 !.open = writer.open]
    BY <1>1, <1>11 DEF WriterShape
  <2>2. PastShape(past')
    BY <1>1, <1>11, CallDoes
  <2>3. Shape(mxf') /\ mxf'.disk = <<>>
    BY <1>1, <1>2, <1>11 DEF Shape
  <2>4. QED
    BY <1>2, <1>7, <2>1, <2>2, <2>3
<1>12. ASSUME mxf' = [patched EXCEPT !.pos = writer.clipStart + 2], Call("FAIL", "seekBack"),
              writer' = [writer EXCEPT !.st = "FINAL", !.clipStart = 0]
       PROVE  ClipInv'
  <2>1. writer' = [writer EXCEPT !.st = "FINAL", !.clipStart = 0, !.frames = writer.frames, !.open = writer.open]
    BY <1>1, <1>12 DEF WriterShape
  <2>2. PastShape(past')
    BY <1>1, <1>12, CallDoes
  <2>3. patched.disk = <<>>
    BY <1>1, <1>4 DEF SameParts
  <2>4. Shape(mxf') /\ mxf'.disk = <<>>
    BY <1>2, <1>4, <1>12, <2>3 DEF Shape
  <2>5. 0 \in Nat
    OBVIOUS
  <2>6. QED
    BY <1>7, <2>1, <2>2, <2>4, <2>5
<1>13. QED
  BY <1>5, <1>9, <1>10, <1>11, <1>12

-----------------------------------------------------------------------------
(* OpenWrite, and the calls that a state does not allow *)

\* An IAB history with the same buffers, of which as many or fewer are sound
SameIAB(p, q) == q.accepted = p.accepted /\ q.sound \in Nat /\ p.sound \in Nat /\ q.sound <= p.sound

LEMMA KeepsIAB ==
  ASSUME NEW w, NEW m, NEW p, NEW q, SameIAB(p, q), p.accepted \in Seq(Seq(Cell))
  PROVE  /\ Sized(p) => Sized(q)
         /\ \A segs : \A c \in Nat : Numbers(p, segs, c) => Numbers(q, segs, c)
         /\ \A segs \in Seq(SegmentsOf(Nat)) : Located(m, p, segs) => Located(m, q, segs)
         /\ IndexedIAB(m, p) => IndexedIAB(m, q)
         /\ WritingIAB(w, m, p) => WritingIAB(w, m, q)
         /\ ClosedIAB(m, p) => ClosedIAB(m, q)
<1>1. q.accepted = p.accepted /\ q.sound \in Nat /\ p.sound \in Nat /\ q.sound <= p.sound /\ Len(p.accepted) \in Nat
  BY DEF SameIAB
<1>2. Sized(p) => Sized(q)
  BY <1>1 DEF Sized
<1>3. \A segs : \A c \in Nat : Numbers(p, segs, c) => Numbers(q, segs, c)
  BY <1>1 DEF Numbers
<1>4. \A segs \in Seq(SegmentsOf(Nat)) : Located(m, p, segs) => Located(m, q, segs)
  <2> SUFFICES ASSUME NEW segs \in Seq(SegmentsOf(Nat)), Located(m, p, segs),
                      NEW i \in DOMAIN segs, NEW j \in DOMAIN segs[i].entries
               PROVE  LET k  == segs[i].start + j
                          at == Start + segs[i].entries[j]
                      IN  k \in DOMAIN q.accepted /\ k <= q.sound =>
                            /\ segs[i].entries[j] >= 2 /\ at + Len(q.accepted[k]) <= m.pos
                            /\ HoldsAt(m, at, q.accepted[k])
    BY DEF Located
  <2> DEFINE k  == segs[i].start + j
             at == Start + segs[i].entries[j]
  <2>1. k \in DOMAIN p.accepted /\ k <= p.sound =>
          /\ segs[i].entries[j] >= 2 /\ at + Len(p.accepted[k]) <= m.pos /\ HoldsAt(m, at, p.accepted[k])
    BY DEF Located
  <2>2. \A x \in 1 .. Len(p.accepted) : x <= q.sound => x <= p.sound
    BY <1>1
  <2>3. DOMAIN q.accepted = 1 .. Len(p.accepted) /\ DOMAIN p.accepted = 1 .. Len(p.accepted)
    BY <1>1
  <2> HIDE DEF k, at
  <2>4. k \in DOMAIN q.accepted /\ k <= q.sound =>
          /\ segs[i].entries[j] >= 2 /\ at + Len(q.accepted[k]) <= m.pos /\ HoldsAt(m, at, q.accepted[k])
    BY <1>1, <2>1, <2>2, <2>3
  <2>5. QED
    BY <2>4 DEF k, at
<1>5. (p.sound > Len(p.accepted) \/ ~(q.sound > Len(q.accepted))) /\ (p.sound = 0 => q.sound = 0)
  BY <1>1
<1>6. IndexedIAB(m, p) => IndexedIAB(m, q)
  BY <1>1, <1>3, <1>4 DEF IndexedIAB
<1>7. WritingIAB(w, m, p) => WritingIAB(w, m, q)
  BY <1>1, <1>2, <1>5, <1>6 DEF WritingIAB
<1>8. FoundIAB(m, p) => FoundIAB(m, q)
  BY <1>3, <1>4 DEF FoundIAB
<1>9. ClosedIAB(m, p) => ClosedIAB(m, q)
  BY <1>2, <1>5, <1>8 DEF ClosedIAB
<1>10. QED
  BY <1>2, <1>3, <1>4, <1>6, <1>7, <1>9

LEMMA OpenedDoes ==
  ASSUME ClipAssumption, WriterShape(writer), PastShape(past), NEW m, NEW start \in Nat, NEW offset \in Nat,
         Opened(m, start, offset)
  PROVE  /\ mxf' = m /\ WriterShape(writer') /\ PastShape(past')
         /\ writer'.kind = writer.kind /\ writer'.st = "READY" /\ writer'.open = TRUE /\ writer'.clipStart = start
         /\ writer'.frames = 0 /\ writer'.streamOffset = offset
         /\ past'.accepted = <<>> /\ past'.bytes = <<>> /\ past'.faults = 0 /\ past'.sound = MaxBlocks
<1>1. writer' = [kind |-> writer.kind, st |-> "READY", clipStart |-> start, frames |-> 0, streamOffset |-> offset,
                 open |-> TRUE]
  BY DEF Opened, NoWriter
<1>2. WriterShape(writer')
  BY <1>1 DEF WriterShape
<1>3. past' = [result |-> "OK", last |-> "none", opened |-> past.opened + 1, offered |-> 0, accepted |-> <<>>,
               bytes |-> <<>>, faults |-> 0, sound |-> MaxBlocks]
  BY DEF Opened, PastShape
<1>4. <<>> \in Seq(Seq(Cell)) /\ <<>> \in Seq(Cell) /\ Len(<<>>) = 0 /\ MaxBlocks \in Nat /\ MaxFaults \in Nat
  BY DEF ClipAssumption
<1>5. PastShape(past')
  BY <1>3, <1>4 DEF PastShape
<1>6. /\ writer'.kind = writer.kind /\ writer'.st = "READY" /\ writer'.open = TRUE /\ writer'.clipStart = start
      /\ writer'.frames = 0 /\ writer'.streamOffset = offset
  BY <1>1
<1>7. past'.accepted = <<>> /\ past'.bytes = <<>> /\ past'.faults = 0 /\ past'.sound = MaxBlocks
  BY <1>3
<1>8. mxf' = m
  BY DEF Opened
<1>9. QED
  BY <1>2, <1>5, <1>6, <1>7, <1>8

LEMMA EmptyShape == Shape(Empty) /\ Empty.disk = <<>>
<1>1. /\ Empty.pos = 0 /\ Empty.rip = <<>> /\ Empty.disk = <<>> /\ Empty.segs = <<>> /\ Empty.cells = <<>>
      /\ Empty.stream = 0 /\ Empty.queued = <<>>
      /\ Empty = [pos |-> Empty.pos, parts |-> Empty.parts, rip |-> Empty.rip, disk |-> Empty.disk, segs |-> Empty.segs,
                  cells |-> Empty.cells, stream |-> Empty.stream, queued |-> Empty.queued]
  BY DEF Empty
<1>2. QED
  BY <1>1 DEF Shape

\* A writer without a file
LEMMA OpenFailsKeeps ==
  ASSUME ClipAssumption, ClipInv, writer.st = "NONE", OpenFails
  PROVE  ClipInv'
<1>1. mxf' = Empty /\ writer' = writer /\ Call("FAIL", "header") /\ PastShape(past) /\ WriterShape(writer)
  BY DEF OpenFails, ClipInv
<1>2. PastShape(past') /\ Shape(mxf') /\ mxf'.disk = <<>>
  BY <1>1, CallDoes, EmptyShape
<1>3. writer.kind = "PCM" => InvPCM(writer', mxf', past')
  BY <1>1, <1>2 DEF InvPCM, ClipInv
<1>4. writer.kind = "IAB" => InvIAB(writer', mxf', past')
  BY <1>1, <1>2 DEF InvIAB, ClipInv
<1>5. QED
  BY <1>1, <1>2, <1>3, <1>4 DEF ClipInv

LEMMA OpenWritePCMKeeps ==
  ASSUME ClipAssumption, ClipInv, OpenWritePCM
  PROVE  ClipInv'
<1>1. writer.kind = "PCM" /\ writer.st = "NONE" /\ WriterShape(writer) /\ PastShape(past)
  BY DEF OpenWritePCM, CanOpen, ClipInv
<1>2. CASE Opened(Header(Empty), 0, 0)
  <2> DEFINE m == Header(Empty)
  <2>1. Shape(m) /\ Layout(m) /\ RipResolves(m) /\ m.pos = Start /\ m.disk = <<>>
    BY HeaderDoes DEF Start
  <2> HIDE DEF m
  <2>2. /\ mxf' = m /\ WriterShape(writer') /\ PastShape(past')
        /\ writer'.kind = "PCM" /\ writer'.st = "READY" /\ writer'.open = TRUE /\ writer'.clipStart = 0
        /\ writer'.frames = 0
        /\ past'.accepted = <<>> /\ past'.bytes = <<>> /\ past'.faults = 0
    BY <1>1, <1>2, OpenedDoes DEF m
  <2>3. Counts(past', writer'.frames * SampleLen)
    <3>1. 0 * SampleLen = 0
      BY DEF ClipAssumption
    <3>2. QED
      BY <2>2, <3>1 DEF Counts
  <2>4. WritingPCM(writer', mxf', past')
    BY <2>1, <2>2, <2>3 DEF WritingPCM
  <2>5. InvPCM(writer', mxf', past')
    BY <2>1, <2>2, <2>4 DEF InvPCM
  <2>6. QED
    BY <2>1, <2>2, <2>5 DEF ClipInv
<1>3. CASE OpenFails
  BY <1>1, <1>3, OpenFailsKeeps
<1>4. QED
  BY <1>2, <1>3 DEF OpenWritePCM

LEMMA OpenWriteIABKeeps ==
  ASSUME ClipAssumption, ClipInv, OpenWriteIAB
  PROVE  ClipInv'
<1>1. writer.kind = "IAB" /\ writer.st = "NONE" /\ WriterShape(writer) /\ PastShape(past)
  BY DEF OpenWriteIAB, CanOpen, ClipInv
<1>2. CASE Opened(PutCells(Header(Empty), KeyAndLength), Header(Empty).pos, KLLen)
  <2> DEFINE h == Header(Empty)
             m == PutCells(h, KeyAndLength)
  <2>1. Shape(h) /\ Layout(h) /\ Fresh(h) /\ h.pos = Start /\ h.disk = <<>> /\ h.segs = <<>>
    BY HeaderDoes DEF Start
  <2> HIDE DEF h
  <2>2. Start \in Nat /\ KLLen \in Nat /\ KLLen = 2
    BY DEF Start, ClipAssumption, KLLen
  <2>3. /\ mxf' = m /\ WriterShape(writer') /\ PastShape(past')
        /\ writer'.kind = "IAB" /\ writer'.st = "READY" /\ writer'.clipStart = Start /\ writer'.streamOffset = 2
        /\ past'.accepted = <<>>
    BY <1>1, <1>2, <2>1, <2>2, OpenedDoes DEF h
  <2>4. Shape(m) /\ SameParts(h, m) /\ m.pos = h.pos + Len(KeyAndLength)
    BY <2>1, KeyAndLengthIs, PutCellsDoes
  <2> HIDE DEF m
  <2>5. m.pos = Start + 2 /\ m.segs = <<>> /\ m.disk = <<>> /\ m.rip = h.rip /\ m.parts = h.parts
    BY <2>1, <2>4, KeyAndLengthIs DEF SameParts
  <2>6. m.pos \in Nat /\ m.pos >= h.pos
    BY <2>1, <2>2, <2>5
  <2>7. Layout(m) /\ Fresh(m)
    BY <2>1, <2>5, <2>6, LayoutStays, FirstStays
  <2>8. Numbers(past', <<>>, 0) /\ Located(m, past', <<>>) /\ Sized(past')
    BY <2>3 DEF Numbers, Located, Sized, Enumerated, EndsAt
  <2>9. WritingIAB(writer', m, past')
    <3>1. <<>> \in Seq(SegmentsOf(Nat)) /\ 0 \in Nat /\ m.segs = <<>> /\ 0 = Len(past'.accepted)
      BY <2>3, <2>5
    <3>2. IndexedIAB(m, past')
      BY <2>7, <2>8, <3>1 DEF IndexedIAB
    <3>3. writer'.clipStart = Start /\ writer'.streamOffset >= 2 /\ m.pos = Start + writer'.streamOffset
      BY <2>3, <2>5
    <3>4. QED
      BY <2>7, <2>8, <3>2, <3>3 DEF WritingIAB
  <2>10. InvIAB(writer', mxf', past')
    BY <2>3, <2>5, <2>9 DEF InvIAB
  <2>11. QED
    BY <2>3, <2>4, <2>10 DEF ClipInv
<1>3. CASE OpenFails
  BY <1>1, <1>3, OpenFailsKeeps
<1>4. QED
  BY <1>2, <1>3 DEF OpenWriteIAB

\* Calls that change nothing but the result
LEMMA RefusedCallKeeps ==
  ASSUME ClipAssumption, ClipInv, RefusedCall
  PROVE  ClipInv'
<1>1. /\ WriterShape(writer) /\ Shape(mxf) /\ PastShape(past) /\ writer' = writer /\ mxf' = mxf /\ Call("STATE", "none")
  BY DEF RefusedCall, ClipInv
<1>2. PastShape(past') /\ SameBuffers(past, past') /\ past'.sound = past.sound /\ past'.accepted = past.accepted
  BY <1>1, CallDoes DEF SameBuffers
<1>3. SameIAB(past, past') /\ past.accepted \in Seq(Seq(Cell))
  BY <1>1, <1>2 DEF SameIAB, PastShape
<1>4. ~Ended(past')
  BY <1>1, CallDoes DEF Ended
<1>5. writer.kind = "PCM" => InvPCM(writer', mxf', past')
  BY <1>1, <1>2, <1>4, SamePCM DEF InvPCM, ClipInv
<1>6. writer.kind = "IAB" => InvIAB(writer', mxf', past')
  BY <1>1, <1>3, <1>4, KeepsIAB DEF InvIAB, ClipInv
<1>7. QED
  BY <1>1, <1>2, <1>5, <1>6 DEF ClipInv

LEMMA CallWithoutObjectKeeps ==
  ASSUME ClipAssumption, ClipInv, CallWithoutObject
  PROVE  ClipInv'
<1>1. /\ writer.kind = "IAB" /\ writer.st = "NONE" /\ WriterShape(writer) /\ PastShape(past)
      /\ writer' = [writer EXCEPT !.st = "CRASHED"] /\ mxf' = mxf /\ Call("CRASH", "none") /\ InvIAB(writer, mxf, past)
  BY DEF CallWithoutObject, ClipInv
<1>2. PastShape(past') /\ ~Ended(past')
  BY <1>1, CallDoes DEF Ended
<1>3. WriterShape(writer') /\ writer'.kind = "IAB" /\ writer'.st = "CRASHED" /\ writer'.open = writer.open
  BY <1>1 DEF WriterShape
<1>4. InvIAB(writer', mxf', past')
  BY <1>1, <1>2, <1>3 DEF InvIAB
<1>5. QED
  BY <1>1, <1>2, <1>3, <1>4 DEF ClipInv

LEMMA AbortedWriteKeeps ==
  ASSUME ClipAssumption, ClipInv, AbortedWrite
  PROVE  ClipInv'
<1>1. WriterShape(writer) /\ Shape(mxf) /\ PastShape(past) /\ Call("ABORT", "assert") /\ mxf' = mxf
  BY DEF AbortedWrite, ClipInv
<1>2. PastShape(past') /\ ~Ended(past')
  BY <1>1, CallDoes DEF Ended
<1>3. WriterShape(writer') /\ writer'.st = "CRASHED" /\ writer'.open = FALSE
  <2>1. writer' = [writer EXCEPT !.st = "CRASHED", !.open = FALSE]
    BY DEF AbortedWrite
  <2>2. QED
    BY <1>1, <2>1 DEF WriterShape
<1>4. InvPCM(writer', mxf', past') /\ InvIAB(writer', mxf', past')
  BY <1>2, <1>3 DEF InvPCM, InvIAB
<1>5. QED
  BY <1>1, <1>2, <1>3, <1>4 DEF ClipInv

-----------------------------------------------------------------------------
(* Steps of the IAB writer *)

LEMMA PushSegs ==
  ASSUME NEW segs \in Seq(SegmentsOf(Nat)), NEW entry \in Nat
  PROVE  LET n    == Len(segs)
             next == [start |-> SegmentEnd(segs[n]), entries |-> <<entry>>]
             more == [segs[n] EXCEPT !.entries = Append(@, entry)]
         IN  /\ <<[start |-> 0, entries |-> <<entry>>]>> \in Seq(SegmentsOf(Nat))
             /\ segs # <<>> => Append(segs, next) \in Seq(SegmentsOf(Nat)) /\ [segs EXCEPT ![n] = more] \in Seq(SegmentsOf(Nat))
<1> DEFINE n    == Len(segs)
           next == [start |-> SegmentEnd(segs[n]), entries |-> <<entry>>]
           more == [segs[n] EXCEPT !.entries = Append(@, entry)]
           S == SegmentsOf(Nat)
<1>1. [start |-> 0, entries |-> <<entry>>] \in S
  BY DEF SegmentsOf
<1>2. ASSUME segs # <<>> PROVE next \in S /\ more \in S /\ n \in 1 .. Len(segs)
  <2>1. n \in 1 .. Len(segs) /\ segs[n] \in S
    BY <1>2
  <2>2. SegmentEnd(segs[n]) \in Nat
    BY <2>1 DEF SegmentEnd, SegmentsOf
  <2>3. next \in S
    BY <2>2 DEF SegmentsOf
  <2>4. Append(segs[n].entries, entry) \in Seq(Nat)
    BY <2>1 DEF SegmentsOf
  <2>5. more \in S
    BY <2>1, <2>4 DEF SegmentsOf
  <2>6. QED
    BY <2>1, <2>3, <2>5
<1> HIDE DEF next, more, S
<1>3. \A x \in S : <<x>> \in Seq(S) /\ Append(segs, x) \in Seq(S) /\ \A k \in 1 .. Len(segs) : [segs EXCEPT ![k] = x] \in Seq(S)
  BY DEF S
<1>4. <<[start |-> 0, entries |-> <<entry>>]>> \in Seq(S)
  BY <1>1, <1>3
<1>5. segs # <<>> => Append(segs, next) \in Seq(S) /\ [segs EXCEPT ![n] = more] \in Seq(S)
  BY <1>2, <1>3
<1>6. QED
  BY <1>4, <1>5 DEF S, next, more

LEMMA PushDoes ==
  ASSUME ClipAssumption, NEW m, Shape(m), NEW entry \in Nat
  PROVE  LET a == PushIndexEntry(m, entry)
         IN  /\ Shape(a) /\ a.pos = m.pos /\ a.parts = m.parts /\ a.rip = m.rip /\ a.disk = m.disk
             /\ a.cells = m.cells /\ a.stream = m.stream /\ a.queued = m.queued
<1> DEFINE n    == Len(m.segs)
           next == [start |-> SegmentEnd(m.segs[n]), entries |-> <<entry>>]
           more == [m.segs[n] EXCEPT !.entries = Append(@, entry)]
           a    == PushIndexEntry(m, entry)
<1>1. m.segs \in Seq(SegmentsOf(Nat))
  BY DEF Shape
<1>2. /\ <<[start |-> 0, entries |-> <<entry>>]>> \in Seq(SegmentsOf(Nat))
      /\ m.segs # <<>> => /\ Append(m.segs, next) \in Seq(SegmentsOf(Nat))
                          /\ [m.segs EXCEPT ![n] = more] \in Seq(SegmentsOf(Nat))
  BY <1>1, PushSegs
<1>3. \/ m.segs = <<>> /\ a = [m EXCEPT !.segs = <<[start |-> 0, entries |-> <<entry>>]>>]
      \/ m.segs # <<>> /\ a = [m EXCEPT !.segs = Append(m.segs, next)]
      \/ m.segs # <<>> /\ a = [m EXCEPT !.segs = [m.segs EXCEPT ![n] = more]]
  BY DEF PushIndexEntry, Shape
<1> HIDE DEF a, next, more
<1>4. \E segs \in Seq(SegmentsOf(Nat)) : a = [m EXCEPT !.segs = segs]
  BY <1>2, <1>3
<1>5. PICK segs \in Seq(SegmentsOf(Nat)) : a = [m EXCEPT !.segs = segs]
  BY <1>4
<1>6. /\ a.pos = m.pos /\ a.parts = m.parts /\ a.rip = m.rip /\ a.disk = m.disk
      /\ a.cells = m.cells /\ a.stream = m.stream /\ a.queued = m.queued /\ a.segs = segs
      /\ a = [pos |-> a.pos, parts |-> a.parts, rip |-> a.rip, disk |-> a.disk, segs |-> a.segs, cells |-> a.cells,
              stream |-> a.stream, queued |-> a.queued]
  BY <1>5 DEF Shape
<1>7. Shape(a)
  BY <1>6 DEF Shape
<1>8. QED
  BY <1>6, <1>7 DEF a

\* The cells of the clip after its length, up to the file position, stay.
Stays(m, a) ==
  /\ a.pos \in Nat /\ a.pos >= m.pos
  /\ \A at \in Nat, bytes \in Seq(Cell) :
       HoldsAt(m, at, bytes) /\ at >= Start + 2 /\ at + Len(bytes) <= m.pos => HoldsAt(a, at, bytes)

LEMMA StaysAgain ==
  ASSUME NEW m, Shape(m), NEW a, NEW b, Stays(m, a), Stays(a, b)
  PROVE  Stays(m, b)
<1>1. m.pos \in Nat /\ a.pos \in Nat /\ b.pos \in Nat /\ b.pos >= a.pos /\ a.pos >= m.pos
  BY DEF Stays, Shape
<1>2. ASSUME NEW at \in Nat, NEW bytes \in Seq(Cell), HoldsAt(m, at, bytes), at >= Start + 2, at + Len(bytes) <= m.pos
      PROVE  HoldsAt(b, at, bytes)
  <2>1. HoldsAt(a, at, bytes)
    BY <1>2 DEF Stays
  <2>2. at + Len(bytes) <= a.pos
    <3> DEFINE x == Len(bytes)
    <3>1. x \in Nat /\ at + x <= m.pos
      BY <1>2
    <3> HIDE DEF x
    <3>2. at + x <= a.pos
      BY <1>1, <3>1
    <3>3. QED
      BY <3>2 DEF x
  <2>3. QED
    BY <1>2, <2>1, <2>2 DEF Stays
<1>3. b.pos >= m.pos
  BY <1>1
<1>4. QED
  BY <1>1, <1>2, <1>3 DEF Stays

LEMMA StaysSame ==
  ASSUME NEW m, NEW a, a.cells = m.cells, a.pos \in Nat, a.pos >= m.pos
  PROVE  Stays(m, a)
  BY SameCells DEF Stays

\* Cells put at the position or over the length
LEMMA StaysPut ==
  ASSUME ClipAssumption, NEW m, Shape(m), NEW a, Shape(a), a.pos >= m.pos, NEW pos \in Nat, NEW cells \in Seq(Cell),
         Puts(m, a, pos, cells), pos >= m.pos \/ pos + Len(cells) <= Start + 2
  PROVE  Stays(m, a)
<1>1. m.pos \in Nat /\ a.pos \in Nat /\ Start \in Nat
  BY SMTT(30) DEF Shape, Start, ClipAssumption
<1>2. ASSUME NEW at \in Nat, NEW bytes \in Seq(Cell), HoldsAt(m, at, bytes), at >= Start + 2, at + Len(bytes) <= m.pos
      PROVE  HoldsAt(a, at, bytes)
  <2>1. at + Len(bytes) <= pos \/ pos + Len(cells) <= at
    <3> DEFINE x == Len(bytes)
               y == Len(cells)
    <3>1. x \in Nat /\ y \in Nat /\ at >= Start + 2 /\ at + x <= m.pos /\ (pos >= m.pos \/ pos + y <= Start + 2)
      BY <1>2
    <3> HIDE DEF x, y
    <3>2. at + x <= pos \/ pos + y <= at
      BY <1>1, <3>1
    <3>3. QED
      BY <3>2 DEF x, y
  <2>2. QED
    BY <1>2, <2>1, HoldsKept
<1>3. QED
  BY <1>1, <1>2 DEF Stays

LEMMA LocatedStays ==
  ASSUME ClipAssumption, NEW m, Shape(m), NEW a, Stays(m, a), NEW p, p.accepted \in Seq(Seq(Cell)),
         NEW segs \in Seq(SegmentsOf(Nat)), Located(m, p, segs)
  PROVE  Located(a, p, segs)
<1> SUFFICES ASSUME NEW i \in DOMAIN segs, NEW j \in DOMAIN segs[i].entries,
                    segs[i].start + j \in DOMAIN p.accepted, segs[i].start + j <= p.sound
             PROVE  LET k  == segs[i].start + j
                        at == Start + segs[i].entries[j]
                    IN  /\ segs[i].entries[j] >= 2 /\ at + Len(p.accepted[k]) <= a.pos
                        /\ HoldsAt(a, at, p.accepted[k])
  BY DEF Located
<1> DEFINE k  == segs[i].start + j
           e  == segs[i].entries[j]
           bytes == p.accepted[k]
<1>1. e >= 2 /\ (Start + e) + Len(bytes) <= m.pos /\ HoldsAt(m, Start + e, bytes) /\ k \in DOMAIN p.accepted
  BY DEF Located
<1>2. e \in Nat
  <2>1. segs[i] \in SegmentsOf(Nat)
    OBVIOUS
  <2>2. QED
    BY <2>1, SMTT(30) DEF SegmentsOf
<1>3. bytes \in Seq(Cell)
  BY <1>1
<1> HIDE DEF e, bytes, k
<1>4. Start \in Nat /\ m.pos \in Nat /\ a.pos \in Nat /\ a.pos >= m.pos
  BY SMTT(30) DEF Start, ClipAssumption, Shape, Stays
<1>5. Start + e \in Nat /\ Start + e >= Start + 2
  BY <1>1, <1>2, <1>4, SMTT(30)
<1>6. HoldsAt(a, Start + e, bytes)
  BY <1>1, <1>3, <1>5 DEF Stays
<1>7. (Start + e) + Len(bytes) <= a.pos
  <2> DEFINE x == Len(bytes)
  <2>1. x \in Nat /\ (Start + e) + x <= m.pos
    BY <1>1, <1>3
  <2> HIDE DEF x
  <2>2. (Start + e) + x <= a.pos
    BY <1>2, <1>4, <2>1
  <2>3. QED
    BY <2>2 DEF x
<1>8. QED
  BY <1>1, <1>6, <1>7 DEF e, bytes, k

\* A sequence with one more element
LEMMA OneAppended ==
  ASSUME NEW S, NEW q \in Seq(S), NEW x \in S
  PROVE  LET a == Append(q, x)
         IN  /\ a \in Seq(S) /\ Len(a) = Len(q) + 1 /\ Len(q) \in Nat /\ a[Len(q) + 1] = x
             /\ DOMAIN q = 1 .. Len(q) /\ DOMAIN a = 1 .. Len(q) + 1
             /\ \A i \in 1 .. Len(q) : a[i] = q[i]
  OBVIOUS

\* The segments all have what segs have, and an entry with number c + 1
Grown(segs, all, c, entry) ==
  \A i \in DOMAIN all : \A j \in DOMAIN all[i].entries :
    \/ /\ i \in DOMAIN segs /\ j \in DOMAIN segs[i].entries
       /\ all[i].start = segs[i].start /\ all[i].entries[j] = segs[i].entries[j]
    \/ all[i].start + j = c + 1 /\ all[i].entries[j] = entry

\* The frame that is written, and the entry that leads to it
LEMMA LocatedWritten ==
  ASSUME ClipAssumption, NEW m, Shape(m), NEW a, Stays(m, a), NEW p, NEW q, NEW b \in Seq(Cell), NEW entry \in Nat,
         NEW segs \in Seq(SegmentsOf(Nat)), NEW all \in Seq(SegmentsOf(Nat)), NEW c \in Nat,
         p.accepted \in Seq(Seq(Cell)), c = Len(p.accepted), q.accepted = Append(p.accepted, b), q.sound = p.sound,
         Located(m, p, segs), Enumerated(segs, c), p.sound \in Nat,
         Grown(segs, all, c, entry),
         p.sound > c => /\ entry >= 2 /\ m.pos = Start + entry /\ a.pos = m.pos + Len(b) /\ HoldsAt(a, m.pos, b)
  PROVE  Located(a, q, all)
<1>1. /\ q.accepted[c + 1] = b /\ DOMAIN p.accepted = 1 .. c /\ DOMAIN q.accepted = 1 .. c + 1
      /\ \A i \in 1 .. c : q.accepted[i] = p.accepted[i]
  BY OneAppended
<1>2. Located(a, p, segs)
  BY LocatedStays
<1> SUFFICES ASSUME NEW i \in DOMAIN all, NEW j \in DOMAIN all[i].entries,
                    all[i].start + j \in DOMAIN q.accepted, all[i].start + j <= q.sound
             PROVE  LET k  == all[i].start + j
                        at == Start + all[i].entries[j]
                    IN  /\ all[i].entries[j] >= 2 /\ at + Len(q.accepted[k]) <= a.pos
                        /\ HoldsAt(a, at, q.accepted[k])
  BY DEF Located
<1>3. CASE /\ i \in DOMAIN segs /\ j \in DOMAIN segs[i].entries
           /\ all[i].start = segs[i].start /\ all[i].entries[j] = segs[i].entries[j]
  <2>1. segs[i].start + j \in 1 .. c
    BY <1>3 DEF Enumerated
  <2>2. /\ segs[i].entries[j] >= 2 /\ Start + segs[i].entries[j] + Len(p.accepted[segs[i].start + j]) <= a.pos
        /\ HoldsAt(a, Start + segs[i].entries[j], p.accepted[segs[i].start + j])
    BY <1>1, <1>2, <1>3, <2>1 DEF Located
  <2>3. q.accepted[segs[i].start + j] = p.accepted[segs[i].start + j]
    BY <1>1, <2>1
  <2>4. QED
    BY <1>3, <2>2, <2>3
<1>4. CASE all[i].start + j = c + 1 /\ all[i].entries[j] = entry
  <2>1. p.sound > c
    BY <1>4
  <2>2. entry >= 2 /\ m.pos = Start + entry /\ a.pos = m.pos + Len(b) /\ HoldsAt(a, m.pos, b)
    BY <2>1
  <2>3. m.pos + Len(b) <= a.pos
    <3> DEFINE x == Len(b)
    <3>1. x \in Nat /\ m.pos \in Nat /\ a.pos = m.pos + x
      BY <2>2 DEF Shape
    <3> HIDE DEF x
    <3>2. m.pos + x <= a.pos
      BY ONLY <3>1
    <3>3. QED
      BY <3>2 DEF x
  <2>4. QED
    BY <1>1, <1>4, <2>2, <2>3
<1>5. QED
  BY <1>3, <1>4 DEF Grown

LEMMA SizedMore ==
  ASSUME NEW p, NEW q, NEW b \in Seq(Cell), p.accepted \in Seq(Seq(Cell)), q.accepted = Append(p.accepted, b), Sized(p),
         b # <<>>, b[1] = <<"size", Len(b)>>
  PROVE  Sized(q)
<1>1. /\ q.accepted[Len(p.accepted) + 1] = b /\ DOMAIN p.accepted = 1 .. Len(p.accepted) /\ Len(p.accepted) \in Nat
      /\ DOMAIN q.accepted = 1 .. Len(p.accepted) + 1
      /\ \A i \in 1 .. Len(p.accepted) : q.accepted[i] = p.accepted[i]
  BY OneAppended
<1> SUFFICES ASSUME NEW k \in DOMAIN q.accepted
             PROVE  q.accepted[k] # <<>> /\ q.accepted[k][1] = <<"size", Len(q.accepted[k])>>
  BY DEF Sized
<1>2. k = Len(p.accepted) + 1 \/ k \in 1 .. Len(p.accepted)
  BY <1>1
<1>3. CASE k = Len(p.accepted) + 1
  BY <1>1, <1>3
<1>4. CASE k \in 1 .. Len(p.accepted)
  BY <1>1, <1>4 DEF Sized
<1>5. QED
  BY <1>2, <1>3, <1>4

\* Numbers and places of the frames after one more was accepted
LEMMA WritesIAB ==
  ASSUME ClipAssumption, NEW w, NEW u, NEW m, NEW p, NEW q, NEW b \in Seq(Cell), b # <<>>, b[1] = <<"size", Len(b)>>,
         Shape(m), PastShape(p), WritingIAB(w, m, p), w.streamOffset \in Nat,
         q.accepted = Append(p.accepted, b), q.sound = p.sound,
         u.clipStart = w.clipStart, u.streamOffset = w.streamOffset + Len(b)
  PROVE  LET a == PutCells(PushIndexEntry(m, w.streamOffset), b)
         IN  Shape(a) /\ a.disk = m.disk /\ WritingIAB(u, a, q)
<1> DEFINE h == PushIndexEntry(m, w.streamOffset)
           a == PutCells(h, b)
<1>1. /\ Shape(h) /\ h.pos = m.pos /\ h.parts = m.parts /\ h.rip = m.rip /\ h.disk = m.disk
      /\ h.cells = m.cells
  BY PushDoes
<1> HIDE DEF h
<1>2. Shape(a) /\ SameParts(h, a) /\ a.pos = m.pos + Len(b) /\ Puts(h, a, h.pos, b)
  BY <1>1, PutCellsDoes
<1> HIDE DEF a
<1>3. /\ a.segs = h.segs /\ a.rip = m.rip /\ a.parts = m.parts /\ a.disk = m.disk
      /\ a.segs \in Seq(SegmentsOf(Nat)) /\ m.segs \in Seq(SegmentsOf(Nat))
  BY <1>1, <1>2 DEF SameParts, Shape
<1>4. m.pos \in Nat /\ a.pos \in Nat /\ Len(b) \in Nat /\ a.pos >= m.pos /\ Start \in Nat
  <2>1. Start \in Nat
    BY DEF Start, ClipAssumption
  <2>2. m.pos \in Nat /\ a.pos \in Nat
    BY <1>2 DEF Shape
  <2> DEFINE x == Len(b)
  <2>3. x \in Nat /\ a.pos = m.pos + x
    BY <1>2
  <2> HIDE DEF x
  <2>4. a.pos >= m.pos
    BY <2>2, <2>3
  <2>5. QED
    BY <2>1, <2>2, <2>3, <2>4 DEF x
<1>5. Layout(m) /\ w.clipStart = Start /\ w.streamOffset >= 2 /\ Sized(p)
  BY DEF WritingIAB
<1>6. Layout(a) /\ (Fresh(m) => Fresh(a)) /\ \A segs : First(m, segs) => First(a, segs)
  BY <1>3, <1>4, <1>5, LayoutStays, FirstStays
<1>7. HoldsAt(a, m.pos, b)
  BY <1>1, <1>2, HoldsPut
<1>8. Stays(m, a)
  <2>1. Stays(h, a)
    BY <1>1, <1>2, <1>4, StaysPut
  <2>2. Stays(m, h)
    BY <1>1, <1>4, StaysSame
  <2>3. QED
    BY <2>1, <2>2, StaysAgain
<1>9. p.accepted \in Seq(Seq(Cell)) /\ Len(p.accepted) \in Nat /\ p.sound \in Nat /\ Len(q.accepted) = Len(p.accepted) + 1
  BY DEF PastShape
<1>10. Sized(q)
  BY <1>5, <1>9, SizedMore
<1>11. q.sound > Len(q.accepted) => Fresh(a) /\ a.pos = Start + u.streamOffset
  <2>1. ASSUME q.sound > Len(q.accepted) PROVE p.sound > Len(p.accepted)
    BY <1>9, <2>1
  <2>2. ASSUME p.sound > Len(p.accepted) PROVE Fresh(a) /\ a.pos = Start + u.streamOffset
    <3>1. Fresh(m) /\ m.pos = Start + w.streamOffset
      BY <2>2 DEF WritingIAB
    <3>2. Fresh(a)
      BY <1>6, <3>1
    <3>3. a.pos = Start + u.streamOffset
      <4> DEFINE x == Len(b)
      <4>1. a.pos = m.pos + x /\ x \in Nat /\ u.streamOffset = w.streamOffset + x
        BY <1>2, <1>4
      <4> HIDE DEF x
      <4>2. QED
        BY <1>4, <3>1, <4>1
    <3>4. QED
      BY <3>2, <3>3
  <2>3. QED
    BY <2>1, <2>2
<1>12. ASSUME p.sound # 0 PROVE IndexedIAB(a, q)
  <2>1. PICK segs \in Seq(SegmentsOf(Nat)), c \in Nat :
          /\ Numbers(p, segs, c) /\ Located(m, p, segs)
          /\ \/ Fresh(m) /\ segs = m.segs /\ c = Len(p.accepted)
             \/ First(m, segs)
    BY <1>12 DEF WritingIAB, IndexedIAB
  <2>2. ASSUME Fresh(m), segs = m.segs, c = Len(p.accepted) PROVE IndexedIAB(a, q)
    <3>1. Numbering(m, Nat, c) /\ Enumerated(m.segs, c)
      <4>1. Enumerated(m.segs, c)
        BY <2>1, <2>2 DEF Numbers
      <4>2. "segs" \in DOMAIN m
        BY DEF Shape
      <4>3. QED
        BY <1>3, <4>1, <4>2 DEF Numbering, Enumerated
    <3>2. Enumerated(a.segs, c + 1) /\ OneMore(m, h, c, w.streamOffset)
      BY <1>3, <3>1, PushIndexEntryEnumerates, PushIndexEntryNumbers DEF h
    <3>3. Grown(segs, a.segs, c, w.streamOffset)
      BY <1>3, <2>2, <3>2 DEF OneMore, Kept, Grown
    <3>4. p.sound > c =>
            w.streamOffset >= 2 /\ m.pos = Start + w.streamOffset /\ a.pos = m.pos + Len(b) /\ HoldsAt(a, m.pos, b)
      BY <1>2, <1>5, <1>7, <2>2 DEF WritingIAB
    <3>5. Enumerated(segs, c)
      BY <2>1 DEF Numbers
    <3>6. Located(a, q, a.segs)
      BY <1>3, <1>8, <1>9, <2>1, <2>2, <3>3, <3>4, <3>5, LocatedWritten
    <3>7. Numbers(q, a.segs, c + 1) /\ c + 1 = Len(q.accepted) /\ c + 1 \in Nat
      <4>1. c + 1 = Len(q.accepted) /\ c + 1 \in Nat
        BY <1>9, <2>2
      <4>2. QED
        BY <3>2, <4>1 DEF Numbers
    <3>8. Fresh(a)
      BY <1>6, <2>2
    <3>9. QED
      BY <1>3, <3>6, <3>7, <3>8 DEF IndexedIAB
  <2>3. ASSUME First(m, segs) PROVE IndexedIAB(a, q)
    <3>1. First(a, segs)
      BY <1>6, <2>3
    <3>2. ~(p.sound > Len(p.accepted))
      <4>1. ~Fresh(m)
        BY <2>3 DEF First, Fresh
      <4>2. QED
        BY <4>1 DEF WritingIAB
    <3>3. Numbers(q, segs, c)
      <4>1. Enumerated(segs, c) /\ c <= Len(p.accepted) /\ (p.sound <= c \/ c = Len(p.accepted))
        BY <2>1 DEF Numbers
      <4>2. c <= Len(q.accepted) /\ q.sound <= c
        <5> DEFINE x == Len(p.accepted)
                   y == Len(q.accepted)
        <5>1. x \in Nat /\ y = x + 1 /\ ~(p.sound > x) /\ c <= x /\ (p.sound <= c \/ c = x) /\ p.sound \in Nat /\ q.sound = p.sound
          BY <1>9, <3>2, <4>1
        <5> HIDE DEF x, y
        <5>2. c <= y /\ q.sound <= c
          BY <5>1
        <5>3. QED
          BY <5>2 DEF y
      <4>3. QED
        BY <4>1, <4>2 DEF Numbers
    <3>4. Located(a, p, segs)
      BY <1>8, <1>9, <2>1, LocatedStays
    <3>5. Located(a, q, segs)
      <4>1. /\ DOMAIN p.accepted = 1 .. Len(p.accepted) /\ \A i \in 1 .. Len(p.accepted) : q.accepted[i] = p.accepted[i]
            /\ DOMAIN q.accepted = 1 .. Len(p.accepted) + 1
        BY <1>9, OneAppended
      <4>2. \A k \in DOMAIN q.accepted : k <= q.sound => k \in DOMAIN p.accepted /\ q.accepted[k] = p.accepted[k]
        <5>1. \A k \in 1 .. Len(p.accepted) + 1 : k <= p.sound => k \in 1 .. Len(p.accepted)
          <6> DEFINE x == Len(p.accepted)
          <6>1. x \in Nat /\ ~(p.sound > x) /\ p.sound \in Nat
            BY <1>9, <3>2
          <6> HIDE DEF x
          <6>2. \A k \in 1 .. x + 1 : k <= p.sound => k \in 1 .. x
            BY <6>1
          <6>3. QED
            BY <6>2 DEF x
        <5>2. QED
          BY <4>1, <5>1
      <4>3. q.sound = p.sound
        OBVIOUS
      <4> SUFFICES ASSUME NEW i \in DOMAIN segs, NEW j \in DOMAIN segs[i].entries,
                          segs[i].start + j \in DOMAIN q.accepted, segs[i].start + j <= q.sound
                   PROVE  LET k  == segs[i].start + j
                              at == Start + segs[i].entries[j]
                          IN  /\ segs[i].entries[j] >= 2 /\ at + Len(q.accepted[k]) <= a.pos
                              /\ HoldsAt(a, at, q.accepted[k])
        BY DEF Located
      <4>4. /\ segs[i].start + j \in DOMAIN p.accepted /\ q.accepted[segs[i].start + j] = p.accepted[segs[i].start + j]
            /\ segs[i].start + j <= p.sound
        BY <4>2, <4>3
      <4>5. /\ segs[i].entries[j] >= 2 /\ Start + segs[i].entries[j] + Len(p.accepted[segs[i].start + j]) <= a.pos
            /\ HoldsAt(a, Start + segs[i].entries[j], p.accepted[segs[i].start + j])
        BY <3>4, <4>4 DEF Located
      <4>6. QED
        BY <4>4, <4>5
    <3>6. QED
      BY <3>1, <3>3, <3>5 DEF IndexedIAB
  <2>4. QED
    BY <2>1, <2>2, <2>3
<1>13. u.clipStart = Start /\ u.streamOffset >= 2
  <2> DEFINE x == Len(b)
  <2>1. x \in Nat /\ u.streamOffset = w.streamOffset + x
    BY <1>4
  <2> HIDE DEF x
  <2>2. QED
    BY <1>5, <2>1
<1>14. WritingIAB(u, a, q)
  BY <1>6, <1>10, <1>11, <1>12, <1>13 DEF WritingIAB
<1>15. QED
  BY <1>2, <1>3, <1>14 DEF a, h

LEMMA WriteFrameIABKeeps ==
  ASSUME ClipAssumption, ClipInv, NEW len \in BlockLens, WriteFrameIAB(len)
  PROVE  ClipInv'
<1> DEFINE b == Block(len)
           h == PushIndexEntry(mxf, writer.streamOffset)
<1>1. /\ writer.kind = "IAB" /\ writer.st \in {"READY", "RUNNING"} /\ past.offered < MaxBlocks /\ WriterShape(writer)
      /\ Shape(mxf) /\ PastShape(past) /\ mxf.disk = <<>> /\ WritingIAB(writer, mxf, past)
  BY DEF WriteFrameIAB, ClipInv, InvIAB
<1>2. b \in Seq(Cell) /\ Len(b) = len /\ len \in Nat \ {0} /\ b[1] = <<"size", len>> /\ b # <<>>
  <2>1. b \in Seq(Cell) /\ Len(b) = len /\ len \in Nat \ {0} /\ b[1] = <<"size", len>>
    BY <1>1, BlockIs
  <2> HIDE DEF b
  <2>2. QED
    BY <2>1
<1>3. writer.streamOffset \in Nat /\ writer.frames \in Nat /\ writer.clipStart \in Nat
  BY <1>1 DEF WriterShape
<1>4. Shape(h) /\ h.disk = <<>>
  BY <1>1, <1>3, PushDoes
<1>5. \/ /\ mxf' = PutCells(h, b)
         /\ writer' = [writer EXCEPT !.st = "RUNNING", !.frames = @ + 1, !.streamOffset = @ + len]
         /\ Accepted(b)
      \/ /\ \E n \in 0 .. len - 1 : mxf' = PutCells(h, SubSeq(b, 1, n))
         /\ writer' = NoWriter("IAB")
         /\ Refused("block")
  BY DEF WriteFrameIAB
<1> HIDE DEF b
<1>6. ASSUME mxf' = PutCells(h, b), Accepted(b),
             writer' = [writer EXCEPT !.st = "RUNNING", !.frames = @ + 1, !.streamOffset = @ + len]
      PROVE  ClipInv'
  <2>1. PastShape(past') /\ past'.accepted = Append(past.accepted, b) /\ past'.sound = past.sound
    BY <1>1, <1>2, <1>6, AcceptedDoes
  <2>2. /\ WriterShape(writer') /\ writer'.kind = "IAB" /\ writer'.st = "RUNNING" /\ writer'.clipStart = writer.clipStart
        /\ writer'.streamOffset = writer.streamOffset + len
    <3>1. writer' = [kind |-> writer.kind, st |-> "RUNNING", clipStart |-> writer.clipStart, frames |-> writer.frames + 1,
                     streamOffset |-> writer.streamOffset + len, open |-> writer.open]
      BY <1>1, <1>6 DEF WriterShape
    <3>2. writer.frames + 1 \in Nat /\ writer.streamOffset + len \in Nat
      BY <1>2, <1>3
    <3>3. QED
      BY <1>1, <3>1, <3>2 DEF WriterShape
  <2>3. Shape(mxf') /\ mxf'.disk = <<>> /\ WritingIAB(writer', mxf', past')
    <3> DEFINE a == PutCells(PushIndexEntry(mxf, writer.streamOffset), b)
    <3>1. b[1] = <<"size", Len(b)>> /\ writer'.streamOffset = writer.streamOffset + Len(b)
      BY <1>2, <2>2
    <3>2. Shape(a) /\ a.disk = mxf.disk /\ WritingIAB(writer', a, past')
      BY <1>1, <1>2, <1>3, <2>1, <2>2, <3>1, WritesIAB
    <3>3. QED
      BY <1>1, <1>6, <3>2
  <2>4. InvIAB(writer', mxf', past')
    BY <2>2, <2>3 DEF InvIAB
  <2>5. QED
    BY <2>1, <2>2, <2>3, <2>4 DEF ClipInv
<1>7. ASSUME NEW n \in 0 .. len - 1, mxf' = PutCells(h, SubSeq(b, 1, n)), writer' = NoWriter("IAB"), Refused("block")
      PROVE  ClipInv'
  <2> DEFINE cells == SubSeq(b, 1, n)
  <2>1. cells \in Seq(Cell)
    BY <1>2, PartOfBlock
  <2> HIDE DEF cells, h
  <2>2. Shape(mxf') /\ mxf'.disk = <<>>
    BY <1>4, <1>7, <2>1, PutCellsDoes DEF SameParts, cells
  <2>3. PastShape(past')
    BY <1>1, <1>7, RefusedDoes
  <2>4. WriterShape(writer') /\ writer'.kind = "IAB" /\ writer'.st = "NONE" /\ writer'.open = FALSE
    BY <1>7 DEF NoWriter, WriterShape
  <2>5. InvIAB(writer', mxf', past')
    BY <2>2, <2>4 DEF InvIAB
  <2>6. QED
    BY <2>2, <2>3, <2>4, <2>5 DEF ClipInv
<1>8. QED
  BY <1>5, <1>6, <1>7

\* What a step that adds no index partition leaves as it was
Continues(m, a) == Stays(m, a) /\ Layout(a) /\ (Fresh(m) => Fresh(a)) /\ \A segs : First(m, segs) => First(a, segs)

LEMMA ContinuesAgain ==
  ASSUME NEW m, Shape(m), NEW a, NEW b, Continues(m, a), Continues(a, b)
  PROVE  Continues(m, b)
<1>1. Stays(m, b)
  BY StaysAgain DEF Continues
<1>2. QED
  BY <1>1 DEF Continues

\* The frames that were found are found, unless the entries of all are lost.
LEMMA IndexedContinues ==
  ASSUME ClipAssumption, NEW m, Shape(m), NEW a, Continues(m, a), NEW p, p.accepted \in Seq(Seq(Cell))
  PROVE  /\ IndexedIAB(m, p) /\ (a.segs = m.segs \/ ~Fresh(m)) => IndexedIAB(a, p)
         /\ FoundIAB(m, p) => FoundIAB(a, p)
<1>1. Stays(m, a) /\ (Fresh(m) => Fresh(a)) /\ \A segs : First(m, segs) => First(a, segs)
  BY DEF Continues
<1>2. \A segs \in Seq(SegmentsOf(Nat)) : Located(m, p, segs) => Located(a, p, segs)
  BY <1>1, LocatedStays
<1>3. IndexedIAB(m, p) /\ (a.segs = m.segs \/ ~Fresh(m)) => IndexedIAB(a, p)
  BY <1>1, <1>2 DEF IndexedIAB
<1>4. FoundIAB(m, p) => FoundIAB(a, p)
  BY <1>1, <1>2 DEF FoundIAB
<1>5. QED
  BY <1>3, <1>4

LEMMA NoEntries ==
  ASSUME NEW m, NEW c \in Nat, Enumerated(m.segs, c), ~HasEntries(m)
  PROVE  c = 0
<1> SUFFICES ASSUME c # 0 PROVE FALSE
  OBVIOUS
<1>1. 1 \in 1 .. c
  OBVIOUS
<1>2. PICK i \in DOMAIN m.segs : \E j \in DOMAIN m.segs[i].entries : TRUE
  BY <1>1 DEF Enumerated
<1>3. m.segs[i].entries = <<>>
  BY DEF HasEntries
<1>4. QED
  BY <1>2, <1>3

LEMMA FlushVBRDoes ==
  ASSUME ClipAssumption, NEW m, Shape(m), Layout(m), NEW p, p.accepted \in Seq(Seq(Cell))
  PROVE  LET a == FlushVBR(m)
         IN  /\ Shape(a) /\ Layout(a) /\ a.disk = m.disk /\ Stays(m, a)
             /\ IndexedIAB(m, p) => IndexedIAB(a, p) /\ FoundIAB(a, p)
<1> DEFINE a == FlushVBR(m)
<1>1. CASE HasEntries(m)
  <2>1. a = FlushIndex(m, m.segs)
    BY <1>1 DEF FlushVBR
  <2>2. /\ Shape(a) /\ Layout(a) /\ a.disk = m.disk /\ a.cells = m.cells /\ a.pos >= m.pos
        /\ Fresh(m) => First(a, m.segs)
        /\ \A s : First(m, s) => First(a, s)
    BY <2>1, FlushIndexDoes
  <2> HIDE DEF a
  <2>3. Stays(m, a)
    <3>1. a.pos \in Nat
      BY <2>2 DEF Shape
    <3>2. QED
      BY <2>2, <3>1, StaysSame
  <2>4. ASSUME IndexedIAB(m, p) PROVE IndexedIAB(a, p) /\ FoundIAB(a, p)
    <3>1. PICK segs \in Seq(SegmentsOf(Nat)), c \in Nat :
            /\ Numbers(p, segs, c) /\ Located(m, p, segs)
            /\ \/ Fresh(m) /\ segs = m.segs /\ c = Len(p.accepted)
               \/ First(m, segs)
      BY <2>4 DEF IndexedIAB
    <3>2. Located(a, p, segs)
      BY <2>3, <3>1, LocatedStays
    <3>3. First(a, segs)
      BY <2>2, <3>1
    <3>4. QED
      BY <3>1, <3>2, <3>3 DEF IndexedIAB, FoundIAB
  <2>5. QED
    BY <2>2, <2>3, <2>4 DEF a
<1>2. CASE ~HasEntries(m)
  <2>1. a = m
    BY <1>2 DEF FlushVBR
  <2>2. Stays(m, m)
    <3>1. m.pos \in Nat /\ m.pos >= m.pos
      BY DEF Shape
    <3>2. QED
      BY <3>1, StaysSame
  <2>3. ASSUME IndexedIAB(m, p) PROVE FoundIAB(m, p)
    <3>1. PICK segs \in Seq(SegmentsOf(Nat)), c \in Nat :
            /\ Numbers(p, segs, c) /\ Located(m, p, segs)
            /\ \/ Fresh(m) /\ segs = m.segs /\ c = Len(p.accepted)
               \/ First(m, segs)
      BY <2>3 DEF IndexedIAB
    <3>2. Fresh(m) /\ segs = m.segs => c = 0
      BY <1>2, <3>1, NoEntries DEF Numbers
    <3>3. QED
      BY <3>1, <3>2 DEF FoundIAB
  <2>4. QED
    BY <2>1, <2>2, <2>3
<1>3. QED
  BY <1>1, <1>2

\* An index partition that is lost
LEMMA LoseIndexDoes ==
  ASSUME ClipAssumption, NEW m, Shape(m), Layout(m), NEW f, NEW lost \in Nat
  PROVE  LET a == LoseIndex(m, f, lost) IN Shape(a) /\ a.disk = m.disk /\ Continues(m, a)
<1> DEFINE b == PushRip(m, 0, m.pos)
           segs == IF f = "index" THEN <<>> ELSE NextSegment(m)
           a == LoseIndex(m, f, lost)
<1>1. segs \in Seq(SegmentsOf(Nat))
  <2>1. NextSegment(m) \in Seq(SegmentsOf(Nat)) /\ <<>> \in Seq(SegmentsOf(Nat))
    BY NextSegmentIs
  <2>2. QED
    BY <2>1
<1>2. m.pos \in Nat
  BY DEF Shape
<1>3. /\ Shape(b) /\ b.rip = Append(m.rip, [sid |-> 0, at |-> m.pos]) /\ b.pos = m.pos /\ b.parts = m.parts
      /\ b.disk = m.disk /\ b.cells = m.cells
  BY <1>2, PushRipDoes
<1>4. a = [b EXCEPT !.pos = b.pos + lost, !.segs = segs]
  BY <1>3 DEF LoseIndex, Shape
<1> HIDE DEF a, b, segs
<1>5. /\ a.pos = b.pos + lost /\ a.parts = b.parts /\ a.rip = b.rip /\ a.disk = b.disk /\ a.segs = segs
      /\ a.cells = b.cells /\ a.stream = b.stream /\ a.queued = b.queued
      /\ a = [pos |-> a.pos, parts |-> a.parts, rip |-> a.rip, disk |-> a.disk, segs |-> a.segs, cells |-> a.cells,
              stream |-> a.stream, queued |-> a.queued]
  BY <1>3, <1>4 DEF Shape
<1>6. a.pos \in Nat /\ a.pos >= m.pos
  BY <1>2, <1>3, <1>5
<1>7. Shape(a)
  BY <1>1, <1>3, <1>5, <1>6 DEF Shape
<1>8. Loses(m, a, 0)
  BY <1>3, <1>5, <1>6 DEF Loses, Lists
<1>9. 0 \in Nat /\ 0 \in Nat \ {1}
  OBVIOUS
<1>10. Continues(m, a)
  <2>1. Layout(a)
    BY <1>8, <1>9, LayoutLoses
  <2>2. (Fresh(m) => Fresh(a)) /\ \A s : First(m, s) => First(a, s)
    BY <1>8, <1>9, FirstLoses
  <2>3. a.cells = m.cells
    BY <1>3, <1>5
  <2>4. Stays(m, a)
    BY <1>6, <2>3, StaysSame
  <2>5. QED
    BY <2>1, <2>2, <2>4 DEF Continues
<1>11. QED
  BY <1>3, <1>5, <1>7, <1>10 DEF a

\* The partition of a text, written or lost
LEMMA TextPartitionDoes ==
  ASSUME ClipAssumption, NEW m, Shape(m), Layout(m), NEW lost \in Nat, NEW put,
         \/ put = PutPack(m, NewPack(m.pos, "stream", m.stream + 2), "none")
         \/ put = [m EXCEPT !.pos = @ + lost]
  PROVE  LET a == [PushRip(put, m.stream + 2, m.pos) EXCEPT !.stream = @ + 1]
         IN  Shape(a) /\ a.disk = m.disk /\ a.segs = m.segs /\ Continues(m, a)
<1> DEFINE sid == m.stream + 2
           pack == NewPack(m.pos, "stream", sid)
           b == PushRip(put, sid, m.pos)
           a == [b EXCEPT !.stream = @ + 1]
<1>1. m.pos \in Nat /\ m.stream \in Nat /\ sid \in Nat /\ sid \in Nat \ {1} /\ PackLen \in Nat
  BY DEF Shape, ClipAssumption
<1>2. pack.at = m.pos /\ pack.type # "index"
  BY DEF NewPack
<1>3. \/ put = PutPack(m, pack, "none")
      \/ put = [m EXCEPT !.pos = m.pos + lost]
  BY DEF Shape
<1> HIDE DEF sid, pack
<1>4. /\ Shape(put) /\ put.rip = m.rip /\ put.disk = m.disk /\ put.segs = m.segs /\ put.cells = m.cells
      /\ put.pos \in Nat /\ put.pos >= m.pos
      /\ \/ put.parts = m.parts
         \/ put.parts = m.parts \cup {pack} /\ put.pos = m.pos + PackLen
  <2>1. CASE put = PutPack(m, pack, "none")
    <3>1. /\ Shape(put) /\ put.rip = m.rip /\ put.disk = m.disk /\ put.segs = m.segs /\ put.cells = m.cells
          /\ put.parts = m.parts \cup {pack} /\ put.pos = m.pos + PackLen
      BY <2>1, PutPackDoes
    <3>2. QED
      BY <1>1, <3>1
  <2>2. CASE put = [m EXCEPT !.pos = m.pos + lost]
    <3> DEFINE pos == m.pos + lost
    <3>1. pos \in Nat /\ pos >= m.pos /\ put = [m EXCEPT !.pos = pos]
      BY <1>1, <2>2
    <3> HIDE DEF pos
    <3>2. /\ put.pos = pos /\ put.parts = m.parts /\ put.rip = m.rip /\ put.disk = m.disk /\ put.segs = m.segs
          /\ put.cells = m.cells /\ put.stream = m.stream /\ put.queued = m.queued
          /\ put = [pos |-> put.pos, parts |-> put.parts, rip |-> put.rip, disk |-> put.disk, segs |-> put.segs,
                    cells |-> put.cells, stream |-> put.stream, queued |-> put.queued]
      BY <3>1 DEF Shape
    <3>3. Shape(put)
      BY <3>1, <3>2 DEF Shape
    <3>4. QED
      BY <3>1, <3>2, <3>3
  <2>3. QED
    BY <1>3, <2>1, <2>2
<1>5. /\ Shape(b) /\ b.rip = Append(put.rip, [sid |-> sid, at |-> m.pos]) /\ b.pos = put.pos /\ b.parts = put.parts
      /\ b.disk = put.disk /\ b.segs = put.segs /\ b.cells = put.cells
  <2>1. Shape(put) /\ sid \in Nat /\ m.pos \in Nat
    BY <1>1, <1>4
  <2> HIDE DEF a
  <2>2. QED
    BY <2>1, PushRipDoes, SMTT(30)
<1> HIDE DEF b
<1>6. b.stream \in Nat /\ b.stream + 1 \in Nat
  BY <1>5 DEF Shape
<1> DEFINE next == b.stream + 1
<1>7. a = [b EXCEPT !.stream = next] /\ next \in Nat
  BY <1>5, <1>6 DEF Shape
<1> HIDE DEF a, next
<1>8. /\ a.pos = b.pos /\ a.parts = b.parts /\ a.rip = b.rip /\ a.disk = b.disk /\ a.segs = b.segs
      /\ a.cells = b.cells /\ a.stream = next /\ a.queued = b.queued
      /\ a = [pos |-> a.pos, parts |-> a.parts, rip |-> a.rip, disk |-> a.disk, segs |-> a.segs, cells |-> a.cells,
              stream |-> a.stream, queued |-> a.queued]
  BY <1>5, <1>7 DEF Shape
<1>9. Shape(a)
  BY <1>5, <1>7, <1>8 DEF Shape
<1>10. Loses(m, a, sid) \/ Adds(m, a, pack, sid)
  BY <1>2, <1>4, <1>5, <1>8 DEF Loses, Adds, Lists
<1>11. Layout(a) /\ (Fresh(m) => Fresh(a)) /\ \A s : First(m, s) => First(a, s)
  <2>1. CASE Loses(m, a, sid)
    BY <1>1, <2>1, LayoutLoses, FirstLoses
  <2>2. CASE Adds(m, a, pack, sid)
    BY <1>1, <1>2, <2>2, LayoutAdds, FirstAdds
  <2>3. QED
    BY <1>10, <2>1, <2>2
<1>12. Stays(m, a)
  <2>1. a.cells = m.cells /\ a.pos \in Nat /\ a.pos >= m.pos
    BY <1>4, <1>5, <1>8
  <2>2. QED
    BY <2>1, StaysSame
<1>13. QED
  BY <1>4, <1>5, <1>8, <1>9, <1>11, <1>12 DEF Continues, a, b, sid

\* The payload, written, queued or lost
LEMMA TextPayload ==
  ASSUME ClipAssumption, NEW m, Shape(m), Layout(m), NEW text \in Seq(Cell), NEW a,
         \/ a = m
         \/ a = [m EXCEPT !.queued = @ \o text]
         \/ a = [PutCells(m, m.queued \o text) EXCEPT !.queued = <<>>]
  PROVE  Shape(a) /\ a.disk = m.disk /\ a.segs = m.segs /\ Continues(m, a)
<1> DEFINE cells == m.queued \o text
           t == PutCells(m, cells)
<1>1. m.queued \in Seq(Cell) /\ cells \in Seq(Cell) /\ <<>> \in Seq(Cell) /\ m.pos \in Nat
  BY DEF Shape
<1>2. a = m \/ a = [m EXCEPT !.queued = cells] \/ a = [t EXCEPT !.queued = <<>>]
  BY DEF Shape
<1> HIDE DEF cells
<1>3. Shape(t) /\ SameParts(m, t) /\ t.pos = m.pos + Len(cells) /\ Puts(m, t, m.pos, cells)
  BY <1>1, PutCellsDoes
<1> HIDE DEF t
<1>4. \A b : \A queued \in Seq(Cell) : Shape(b) /\ a = [b EXCEPT !.queued = queued] =>
        /\ Shape(a) /\ a.pos = b.pos /\ a.parts = b.parts /\ a.rip = b.rip /\ a.disk = b.disk /\ a.segs = b.segs
        /\ a.cells = b.cells
  <2> SUFFICES ASSUME NEW queued \in Seq(Cell), NEW b, Shape(b), a = [b EXCEPT !.queued = queued]
               PROVE  /\ Shape(a) /\ a.pos = b.pos /\ a.parts = b.parts /\ a.rip = b.rip /\ a.disk = b.disk
                      /\ a.segs = b.segs /\ a.cells = b.cells
    OBVIOUS
  <2>1. /\ a.pos = b.pos /\ a.parts = b.parts /\ a.rip = b.rip /\ a.disk = b.disk /\ a.segs = b.segs
        /\ a.cells = b.cells /\ a.stream = b.stream /\ a.queued = queued
        /\ a = [pos |-> a.pos, parts |-> a.parts, rip |-> a.rip, disk |-> a.disk, segs |-> a.segs, cells |-> a.cells,
                stream |-> a.stream, queued |-> a.queued]
    BY DEF Shape
  <2>2. Shape(a)
    BY <2>1 DEF Shape
  <2>3. QED
    BY <2>1, <2>2
<1>5. CASE a = m \/ a = [m EXCEPT !.queued = cells]
  <2>1. /\ Shape(a) /\ a.pos = m.pos /\ a.parts = m.parts /\ a.rip = m.rip /\ a.disk = m.disk /\ a.segs = m.segs
        /\ a.cells = m.cells
    BY <1>1, <1>4, <1>5
  <2>2. a.pos \in Nat /\ a.pos >= m.pos
    BY <1>1, <2>1
  <2>3. QED
    BY <2>1, <2>2, LayoutStays, FirstStays, StaysSame DEF Continues
<1>6. CASE a = [t EXCEPT !.queued = <<>>]
  <2>1. /\ Shape(a) /\ a.pos = t.pos /\ a.parts = m.parts /\ a.rip = m.rip /\ a.disk = m.disk /\ a.segs = m.segs
        /\ a.cells = t.cells
    BY <1>1, <1>3, <1>4, <1>6 DEF SameParts
  <2>2. a.pos \in Nat /\ a.pos >= m.pos
    <3> DEFINE x == Len(cells)
    <3>1. x \in Nat /\ a.pos = m.pos + x
      BY <1>1, <1>3, <2>1
    <3> HIDE DEF x
    <3>2. QED
      BY <1>1, <3>1
  <2>3. Puts(m, a, m.pos, cells)
    BY <1>3, <2>1 DEF Puts
  <2>4. m.pos >= m.pos
    BY <1>1
  <2>5. Stays(m, a)
    BY <1>1, <2>1, <2>2, <2>3, <2>4, StaysPut
  <2>6. QED
    BY <2>1, <2>2, <2>5, LayoutStays, FirstStays DEF Continues
<1>7. QED
  BY <1>2, <1>5, <1>6

LEMMA PutTextDoes ==
  ASSUME ClipAssumption, NEW m, Shape(m), Layout(m), NEW f, NEW lost \in Nat
  PROVE  LET a == PutText(m, f, lost)
         IN  Shape(a) /\ a.disk = m.disk /\ a.segs = m.segs /\ Continues(m, a)
<1> DEFINE pack == NewPack(m.pos, "stream", m.stream + 2)
           put == IF f \in PackFaults("stream") THEN [m EXCEPT !.pos = @ + lost] ELSE PutPack(m, pack, "none")
           p == TextPartition(m, f, lost)
           text == <<<<"text", m.stream>>>>
           a == PutText(m, f, lost)
<1>1. Shape(p) /\ p.disk = m.disk /\ p.segs = m.segs /\ Continues(m, p)
  <2>1. put = PutPack(m, pack, "none") \/ put = [m EXCEPT !.pos = @ + lost]
    OBVIOUS
  <2>2. p = [PushRip(put, m.stream + 2, m.pos) EXCEPT !.stream = @ + 1]
    BY DEF TextPartition
  <2> HIDE DEF put, p
  <2>3. QED
    BY <2>1, <2>2, TextPartitionDoes
<1>2. text \in Seq(Cell)
  <2>1. <<"text", m.stream>> \in Cell
    BY DEF Cell, CellKinds, Shape
  <2>2. QED
    BY <2>1
<1>3. \/ a = p
      \/ a = [p EXCEPT !.queued = @ \o text]
      \/ a = [PutCells(p, p.queued \o text) EXCEPT !.queued = <<>>]
  <2>1. a = CASE f \in {"stream", "payload"} -> p
              [] f = "payloadFlush"          -> [p EXCEPT !.queued = @ \o text]
              [] OTHER -> [PutCells(p, p.queued \o text) EXCEPT !.queued = <<>>]
    BY DEF PutText
  <2> HIDE DEF a, p, text
  <2>2. QED
    BY <2>1
<1> HIDE DEF a, p, text
<1>4. Layout(p)
  BY <1>1 DEF Continues
<1>5. Shape(a) /\ a.disk = p.disk /\ a.segs = p.segs /\ Continues(p, a)
  BY <1>1, <1>2, <1>3, <1>4, TextPayload
<1>6. Continues(m, a)
  BY <1>1, <1>5, ContinuesAgain
<1>7. QED
  BY <1>1, <1>5, <1>6 DEF a

LEMMA LostIsNat == ASSUME ClipAssumption, NEW f, NEW lost \in LostLens(f) PROVE lost \in Nat
<1>1. PackLen \in Nat
  BY DEF ClipAssumption
<1>2. lost \in 0 .. PackLen - 1 \/ lost \in 1 .. PackLen - 1 \/ lost \in {0}
  BY DEF LostLens
<1>3. QED
  BY <1>1, <1>2

LEMMA AddDmsKeeps ==
  ASSUME ClipAssumption, ClipInv, NEW f \in {"none"} \cup TextFaults, AddDms(f)
  PROVE  ClipInv'
<1> DEFINE sound == IF f \in PackFaults("index") /\ ~Indexed(mxf) THEN 0 ELSE Min({past.sound, Len(past.accepted)})
<1>1. /\ writer.kind = "IAB" /\ writer.open /\ WriterShape(writer) /\ Shape(mxf) /\ PastShape(past)
      /\ InvIAB(writer, mxf, past) /\ writer' = writer
  BY DEF AddDms, ClipInv
<1>2. mxf.disk = <<>> /\ WritingIAB(writer, mxf, past) /\ Layout(mxf) /\ (past.sound = 0 \/ IndexedIAB(mxf, past))
  BY <1>1 DEF InvIAB, WritingIAB
<1>3. past.accepted \in Seq(Seq(Cell)) /\ past.sound \in Nat /\ Len(past.accepted) \in Nat
  BY <1>1 DEF PastShape
<1>4. PICK lost \in LostLens(f) :
        mxf' = PutText(IF f \in PackFaults("index") THEN LoseIndex(mxf, f, lost) ELSE FlushVBR(mxf), f, lost)
  BY DEF AddDms
<1>5. lost \in Nat
  BY LostIsNat
<1> DEFINE m == IF f \in PackFaults("index") THEN LoseIndex(mxf, f, lost) ELSE FlushVBR(mxf)
<1>6. sound \in Nat /\ sound <= past.sound /\ sound <= Len(past.accepted)
  <2> DEFINE least == Min({past.sound, Len(past.accepted)})
  <2>1. least \in Nat /\ least <= past.sound /\ least <= Len(past.accepted)
    BY <1>3, MinOfTwo
  <2> HIDE DEF least
  <2>2. sound = 0 \/ sound = least
    BY DEF least
  <2> HIDE DEF sound
  <2>3. QED
    BY <1>3, <2>1, <2>2
<1>7. CallLeaves("OK", f, sound)
  BY DEF AddDms
<1>8. /\ Shape(m) /\ Layout(m) /\ m.disk = <<>>
      /\ sound # 0 => IndexedIAB(m, past)
  <2>1. sound # 0 => IndexedIAB(mxf, past)
    <3> HIDE DEF sound
    <3>1. QED
      BY <1>2, <1>3, <1>6
  <2>2. CASE f \in PackFaults("index")
    <3> DEFINE a == LoseIndex(mxf, f, lost)
    <3>1. Shape(a) /\ a.disk = mxf.disk /\ Continues(mxf, a)
      BY <1>1, <1>2, <1>5, LoseIndexDoes
    <3>2. sound # 0 => ~Fresh(mxf)
      BY <2>2 DEF Indexed, Fresh
    <3> HIDE DEF a, sound
    <3>3. sound # 0 => IndexedIAB(a, past)
      BY <1>1, <1>3, <2>1, <3>1, <3>2, IndexedContinues
    <3>4. Layout(a)
      BY <3>1 DEF Continues
    <3>5. QED
      BY <1>2, <2>2, <3>1, <3>3, <3>4 DEF a
  <2>3. CASE f \notin PackFaults("index")
    <3> HIDE DEF sound
    <3>1. m = FlushVBR(mxf)
      BY <2>3
    <3> HIDE DEF m
    <3>2. QED
      BY <1>1, <1>2, <1>3, <2>1, <3>1, FlushVBRDoes
  <2>4. QED
    BY <2>2, <2>3
<1>9. mxf' = PutText(m, f, lost)
  BY <1>4
<1> HIDE DEF m, sound
<1>10. Shape(mxf') /\ mxf'.disk = <<>> /\ mxf'.segs = m.segs /\ Continues(m, mxf')
  BY <1>5, <1>8, <1>9, PutTextDoes
<1>11. sound # 0 => IndexedIAB(mxf', past)
  BY <1>3, <1>8, <1>10, IndexedContinues
<1>12. PastShape(past') /\ past'.accepted = past.accepted /\ past'.sound = sound
  BY <1>1, <1>6, <1>7, CallLeavesDoes
<1>13. SameIAB(past, past')
  BY <1>3, <1>6, <1>12 DEF SameIAB
<1>14. past'.sound = 0 \/ IndexedIAB(mxf', past')
  BY <1>3, <1>11, <1>12, <1>13, KeepsIAB
<1>15. ~(past'.sound > Len(past'.accepted))
  BY <1>3, <1>6, <1>12
<1>16. Sized(past') /\ writer'.clipStart = Start /\ writer'.streamOffset >= 2
  BY <1>1, <1>2, <1>3, <1>13, KeepsIAB DEF WritingIAB
<1>17. Layout(mxf')
  BY <1>10 DEF Continues
<1>18. WritingIAB(writer', mxf', past')
  BY <1>14, <1>15, <1>16, <1>17 DEF WritingIAB
<1>19. InvIAB(writer', mxf', past')
  BY <1>1, <1>10, <1>18 DEF InvIAB
<1>20. QED
  BY <1>1, <1>10, <1>12, <1>19 DEF ClipInv

\* A file that is closed after the length was written somewhere
LEMMA ClosesIAB ==
  ASSUME ClipAssumption, NEW m, Shape(m), Layout(m), NEW p, p.accepted \in Seq(Seq(Cell)), Sized(p),
         p.sound = 0 \/ IndexedIAB(m, p)
  PROVE  LET a == Footer(FlushVBR(m)) IN Shape(a) /\ (RipResolves(a) => ClosedIAB(a, p))
<1> DEFINE b == FlushVBR(m)
           a == Footer(b)
<1>1. Shape(b) /\ Layout(b) /\ (p.sound = 0 \/ FoundIAB(b, p))
  BY FlushVBRDoes
<1> HIDE DEF b
<1>2. /\ Shape(a) /\ Layout(a) /\ a.disk = a.rip /\ a.cells = b.cells /\ a.pos >= b.pos
      /\ Fresh(b) => Fresh(a)
      /\ \A s : First(b, s) => First(a, s)
  BY <1>1, FooterDoes
<1> HIDE DEF a
<1>3. Continues(b, a)
  <2>1. a.pos \in Nat
    BY <1>2 DEF Shape
  <2>2. Stays(b, a)
    BY <1>2, <2>1, StaysSame
  <2>3. QED
    BY <1>2, <2>2 DEF Continues
<1>4. p.sound = 0 \/ FoundIAB(a, p)
  BY <1>1, <1>3, IndexedContinues
<1>5. RipResolves(a) => ClosedIAB(a, p)
  BY <1>2, <1>4 DEF ClosedIAB
<1>6. QED
  BY <1>2, <1>5 DEF a, b

\* The length written, in its place or at the end of the file
LEMMA LengthContinues ==
  ASSUME ClipAssumption, ClipInv, writer.kind = "IAB", writer.st = "RUNNING"
  PROVE  LET over == BackPatch(mxf)
             astray == [PutCells(mxf, <<<<"length", ClipLength>>>>) EXCEPT !.pos = mxf.pos]
         IN  /\ Shape(over) /\ Continues(mxf, over) /\ over.segs = mxf.segs /\ over.disk = <<>>
             /\ Shape(astray) /\ Continues(mxf, astray) /\ astray.segs = mxf.segs /\ astray.disk = <<>>
<1> DEFINE cells == <<<<"length", ClipLength>>>>
           over == BackPatch(mxf)
           astray == [PutCells(mxf, cells) EXCEPT !.pos = mxf.pos]
<1>1. /\ WriterShape(writer) /\ Shape(mxf) /\ Layout(mxf) /\ mxf.disk = <<>>
      /\ writer.clipStart = Start /\ writer.streamOffset >= 2
  BY DEF ClipInv, InvIAB, WritingIAB
<1>2. /\ cells \in Seq(Cell) /\ Len(cells) = 1 /\ Shape(over) /\ SameParts(mxf, over) /\ over.pos = mxf.pos
      /\ Puts(mxf, over, writer.clipStart + 1, cells)
  BY <1>1, BackPatchDoes
<1>3. /\ Shape(astray) /\ SameParts(mxf, astray) /\ astray.pos = mxf.pos
      /\ Puts(mxf, astray, mxf.pos, cells)
  <2>1. mxf.pos \in Nat /\ [mxf EXCEPT !.pos = mxf.pos] = mxf
    BY <1>1 DEF Shape
  <2>2. cells \in Seq(Cell)
    BY <1>2
  <2> HIDE DEF cells
  <2> DEFINE a == [PutCells([mxf EXCEPT !.pos = mxf.pos], cells) EXCEPT !.pos = mxf.pos]
  <2>3. Shape(a) /\ SameParts(mxf, a) /\ a.pos = mxf.pos /\ Puts(mxf, a, mxf.pos, cells)
    BY <1>1, <2>1, <2>2, PatchDoes
  <2>4. QED
    BY <2>1, <2>3
<1>4. mxf.pos \in Nat /\ mxf.pos >= mxf.pos /\ Start \in Nat
  BY <1>1 DEF Shape, Start, ClipAssumption
<1> HIDE DEF cells, over, astray
<1>5. Stays(mxf, over)
  <2> DEFINE pos == Start + 1
  <2>1. Puts(mxf, over, pos, cells) /\ pos \in Nat /\ pos + Len(cells) <= Start + 2 /\ over.pos >= mxf.pos
    BY <1>1, <1>2, <1>4
  <2> HIDE DEF pos
  <2>2. QED
    BY <1>1, <1>2, <2>1, StaysPut
<1>6. Stays(mxf, astray)
  <2>1. astray.pos >= mxf.pos
    BY <1>3, <1>4
  <2>2. QED
    BY <1>1, <1>2, <1>3, <1>4, <2>1, StaysPut
<1>7. ASSUME NEW a, Shape(a), SameParts(mxf, a), a.pos = mxf.pos, Stays(mxf, a)
      PROVE  Continues(mxf, a) /\ a.segs = mxf.segs /\ a.disk = <<>>
  <2>1. a.parts = mxf.parts /\ a.rip = mxf.rip /\ a.segs = mxf.segs /\ a.disk = mxf.disk /\ a.pos \in Nat /\ a.pos >= mxf.pos
    BY <1>4, <1>7 DEF SameParts
  <2>2. QED
    BY <1>1, <1>7, <2>1, LayoutStays, FirstStays DEF Continues
<1>8. QED
  BY <1>2, <1>3, <1>5, <1>6, <1>7 DEF over, astray, cells

LEMMA FinalizeIABKeeps ==
  ASSUME ClipAssumption, ClipInv, FinalizeIAB
  PROVE  ClipInv'
<1> DEFINE over == BackPatch(mxf)
           astray == [PutCells(mxf, <<<<"length", ClipLength>>>>) EXCEPT !.pos = mxf.pos]
<1>1. /\ writer.kind = "IAB" /\ writer.st = "RUNNING" /\ WriterShape(writer) /\ Shape(mxf) /\ PastShape(past)
      /\ mxf.disk = <<>> /\ WritingIAB(writer, mxf, past) /\ writer' = NoWriter("IAB")
  BY DEF FinalizeIAB, ClipInv, InvIAB
<1>2. Sized(past) /\ (past.sound = 0 \/ IndexedIAB(mxf, past))
  BY <1>1 DEF WritingIAB
<1>3. past.accepted \in Seq(Seq(Cell)) /\ past.sound \in Nat
  BY <1>1 DEF PastShape
<1>4. \/ /\ mxf' = Footer(FlushVBR(over)) \/ mxf' = Footer(FlushVBR(astray))
         /\ \E fault : Call(IF RipResolves(mxf') THEN "OK" ELSE "FAIL", fault)
      \/ /\ mxf' = mxf \/ mxf' = over
         /\ \E fault : Call("FAIL", fault)
      \/ mxf' \in FooterFails(FlushVBR(over)) /\ \E result : Call(result, "footer")
  BY DEF FinalizeIAB
<1>5. /\ Shape(over) /\ Continues(mxf, over) /\ over.segs = mxf.segs /\ over.disk = <<>>
      /\ Shape(astray) /\ Continues(mxf, astray) /\ astray.segs = mxf.segs
  BY <1>1, LengthContinues
<1> HIDE DEF over, astray
<1>6. \A a : Shape(a) /\ Continues(mxf, a) /\ a.segs = mxf.segs => Layout(a) /\ (past.sound = 0 \/ IndexedIAB(a, past))
  BY <1>1, <1>2, <1>3, IndexedContinues DEF Continues
<1>7. \A result, fault : Call(result, fault) =>
        PastShape(past') /\ SameIAB(past, past') /\ past'.result = result /\ past'.last = fault
  <2>1. ASSUME NEW result, NEW fault, Call(result, fault)
        PROVE  PastShape(past') /\ SameIAB(past, past') /\ past'.result = result /\ past'.last = fault
    <3>1. /\ PastShape(past') /\ past'.accepted = past.accepted /\ past'.sound <= past.sound
          /\ past'.result = result /\ past'.last = fault
      BY <1>1, <2>1, CallDoes
    <3>2. past'.sound \in Nat
      BY <3>1 DEF PastShape
    <3>3. QED
      BY <1>3, <3>1, <3>2 DEF SameIAB
  <2>2. QED
    BY <2>1
<1>8. PastShape(past') /\ SameIAB(past, past')
  BY <1>4, <1>7
<1>9. Shape(mxf') /\ (mxf'.disk # <<>> /\ Ended(past') => ClosedIAB(mxf', past))
  <2>1. CASE /\ mxf' = Footer(FlushVBR(over)) \/ mxf' = Footer(FlushVBR(astray))
             /\ \E fault : Call(IF RipResolves(mxf') THEN "OK" ELSE "FAIL", fault)
    <3>1. Shape(mxf') /\ (RipResolves(mxf') => ClosedIAB(mxf', past))
      BY <1>2, <1>3, <1>5, <1>6, <2>1, ClosesIAB
    <3>2. Ended(past') => RipResolves(mxf')
      BY <1>7, <2>1 DEF Ended
    <3>3. QED
      BY <3>1, <3>2
  <2>2. CASE /\ mxf' = mxf \/ mxf' = over
             /\ \E fault : Call("FAIL", fault)
    BY <1>1, <1>5, <2>2
  <2>3. CASE mxf' \in FooterFails(FlushVBR(over)) /\ \E result : Call(result, "footer")
    <3>1. Shape(FlushVBR(over))
      BY <1>3, <1>5, <1>6, FlushVBRDoes
    <3>2. Shape(mxf')
      BY <2>3, <3>1, FooterFailsIs
    <3>3. ~Ended(past')
      BY <1>7, <2>3 DEF Ended
    <3>4. QED
      BY <3>2, <3>3
  <2>4. QED
    BY <1>4, <2>1, <2>2, <2>3
<1>10. mxf'.disk # <<>> /\ Ended(past') => ClosedIAB(mxf', past')
  BY <1>3, <1>8, <1>9, KeepsIAB
<1>11. WriterShape(writer') /\ writer'.kind = "IAB" /\ writer'.st = "NONE" /\ writer'.open = FALSE
  BY <1>1 DEF NoWriter, WriterShape
<1>12. InvIAB(writer', mxf', past')
  BY <1>10, <1>11 DEF InvIAB
<1>13. QED
  BY <1>8, <1>9, <1>11, <1>12 DEF ClipInv

-----------------------------------------------------------------------------
(* The inductive invariant *)

\* It holds of a writer that has not opened a file.
LEMMA InitClip == ASSUME ClipAssumption, Init PROVE ClipInv
<1>1. PICK kind \in {"PCM", "IAB"} : writer = NoWriter(kind)
  BY DEF Init
<1>2. WriterShape(writer) /\ writer.st = "NONE" /\ writer.open = FALSE
  BY <1>1 DEF NoWriter, WriterShape
<1>3. Shape(mxf) /\ mxf.disk = <<>>
  BY EmptyShape DEF Init
<1>4. <<>> \in Seq(Seq(Cell)) /\ <<>> \in Seq(Cell) /\ Len(<<>>) = 0 /\ MaxBlocks \in Nat /\ MaxFaults \in Nat
  BY DEF ClipAssumption
<1>5. PastShape(past)
  BY <1>4 DEF Init, PastShape
<1>6. InvPCM(writer, mxf, past) /\ InvIAB(writer, mxf, past)
  BY <1>2, <1>3 DEF InvPCM, InvIAB
<1>7. QED
  BY <1>2, <1>3, <1>5, <1>6 DEF ClipInv

\* Every call keeps it.
LEMMA NextClip == ASSUME ClipAssumption, ClipInv, [Next]_vars PROVE ClipInv'
<1>1. CASE UNCHANGED vars
  BY <1>1 DEF vars, ClipInv
<1>2. CASE Next
  <2>1. CASE OpenWritePCM
    BY <2>1, OpenWritePCMKeeps
  <2>2. CASE OpenWriteIAB
    BY <2>2, OpenWriteIABKeeps
  <2>3. CASE \E len \in BlockLens : WriteFramePCM(len) \/ WriteFrameIAB(len)
    BY <2>3, WriteFramePCMKeeps, WriteFrameIABKeeps
  <2>4. CASE \E f \in {"none"} \cup TextFaults : AddDms(f)
    BY <2>4, AddDmsKeeps
  <2>5. CASE FinalizePCM
    BY <2>5, FinalizePCMKeeps
  <2>6. CASE FinalizeIAB
    BY <2>6, FinalizeIABKeeps
  <2>7. CASE RefusedCall
    BY <2>7, RefusedCallKeeps
  <2>8. CASE CallWithoutObject
    BY <2>8, CallWithoutObjectKeeps
  <2>9. CASE AbortedWrite
    BY <2>9, AbortedWriteKeeps
  <2>10. CASE Done
    BY <1>1, <2>10 DEF Done
  <2>11. QED
    BY <1>2, <2>1, <2>2, <2>3, <2>4, <2>5, <2>6, <2>7, <2>8, <2>9, <2>10 DEF Next
<1>3. QED
  BY <1>1, <1>2

-----------------------------------------------------------------------------
(* What the readers make of a closed file *)

\* An entry leads to the pack that is at its offset.
LEMMA ListedIs ==
  ASSUME NEW m, Layout(m), RipResolves(m), NEW i \in DOMAIN m.rip
  PROVE  /\ Listed(m, i) \in m.parts /\ Listed(m, i).at = m.rip[i].at
         /\ \A p \in m.parts : p.at = m.rip[i].at => Listed(m, i) = p
<1>1. PICK p \in m.parts : p.at = m.rip[i].at
  BY DEF RipResolves, Resolves
<1>2. Listed(m, i) = p
  BY <1>1, PackAtIs DEF Listed
<1>3. QED
  BY <1>1, <1>2 DEF Layout

\* The first partition with essence is the body partition of the header, the only one.
LEMMA ReaderSees ==
  ASSUME ClipAssumption, Shape(mxf), Layout(mxf), RipResolves(mxf), mxf.disk = mxf.rip
  PROVE  /\ Openable(mxf) /\ Part(mxf, FirstBody(mxf)) = NewPack(PackLen, "body", 1) /\ Bodies(mxf) = {2}
         /\ Indexes(mxf) = {i \in DOMAIN mxf.rip : Listed(mxf, i).type = "index"}
<1>1. /\ DOMAIN mxf.rip = 1 .. Len(mxf.rip) /\ Len(mxf.rip) \in Nat /\ Len(mxf.rip) >= 2 /\ 1 \in DOMAIN mxf.rip
      /\ 2 \in DOMAIN mxf.rip
  <2>1. mxf.rip \in Seq(Pair) /\ Len(mxf.rip) >= 2
    BY DEF Shape, Layout
  <2>2. QED
    BY <2>1
<1>2. /\ mxf.rip[1].sid = 0 /\ mxf.rip[1].at = 0 /\ mxf.rip[2].sid = 1 /\ mxf.rip[2].at = PackLen
      /\ \A i \in DOMAIN mxf.rip : i # 2 => mxf.rip[i].sid # 1
  BY DEF Layout
<1>3. FirstBody(mxf) = 2
  <2> DEFINE Body(i) == /\ mxf.disk[i].sid # 0
                        /\ \A j \in 1 .. i - 1 : mxf.disk[j].sid = 0
  <2>1. Body(2)
    <3>1. \A j \in 1 .. 2 - 1 : j = 1
      OBVIOUS
    <3>2. QED
      BY <1>2, <3>1
  <2>2. ASSUME NEW i \in DOMAIN mxf.disk, Body(i) PROVE i = 2
    <3>1. i \in 1 .. Len(mxf.rip) /\ i # 1
      BY <1>1, <1>2, <2>2
    <3>2. i # 2 => 2 \in 1 .. i - 1
      BY <1>1, <3>1
    <3>3. QED
      BY <1>2, <2>2, <3>2
  <2>3. 2 \in DOMAIN mxf.disk
    BY <1>1
  <2>4. FirstBody(mxf) = CHOOSE i \in DOMAIN mxf.disk : Body(i)
    BY DEF FirstBody
  <2> HIDE DEF Body
  <2>5. QED
    BY <2>1, <2>2, <2>3, <2>4
<1>4. \A i : Part(mxf, i) = Listed(mxf, i)
  BY DEF Part, Listed
<1>5. Part(mxf, 2) = NewPack(PackLen, "body", 1)
  <2>1. NewPack(PackLen, "body", 1) \in mxf.parts /\ NewPack(PackLen, "body", 1).at = PackLen
    BY DEF Layout, NewPack
  <2>2. QED
    BY <1>2, <2>1, PackAtIs DEF Part
<1>6. Bodies(mxf) = {2}
  BY <1>1, <1>2, <1>3 DEF Bodies
<1>7. Indexes(mxf) = {i \in DOMAIN mxf.rip : Listed(mxf, i).type = "index"}
  BY <1>4 DEF Indexes
<1>8. Openable(mxf)
  <2>1. Resolves(mxf, 0)
    <3>1. NewPack(0, "header", 0) \in mxf.parts /\ NewPack(0, "header", 0).at = 0
      BY DEF Layout, NewPack
    <3>2. QED
      BY <3>1 DEF Resolves
  <2>2. HasBody(mxf)
    BY <1>1, <1>2 DEF HasBody
  <2>3. \A i \in DOMAIN mxf.disk : Resolves(mxf, mxf.disk[i].at)
    BY DEF RipResolves
  <2>4. QED
    BY <1>2, <2>1, <2>2, <2>3 DEF Openable
<1>9. QED
  BY <1>3, <1>5, <1>6, <1>7, <1>8

\* Division with remainder
LEMMA Division ==
  ASSUME NEW f \in Nat \ {0}, NEW x \in Nat
  PROVE  x \div f \in Nat /\ x % f \in Nat /\ x % f < f /\ x = f * (x \div f) + (x % f)
  OBVIOUS

LEMMA Multiples ==
  ASSUME NEW f \in Nat \ {0}, NEW x \in Nat, NEW y \in Nat, x < y
  PROVE  f * x \in Nat /\ f * y \in Nat /\ f * x + f <= f * y
<1>1. PICK k \in Nat : y = x + 1 + k
  <2>1. y - x - 1 \in Nat /\ y = x + 1 + (y - x - 1)
    OBVIOUS
  <2>2. QED
    BY <2>1
<1>2. f * (x + 1 + k) = f * x + f + f * k
  OBVIOUS
<1>3. f * x \in Nat /\ f * k \in Nat
  OBVIOUS
<1>4. QED
  BY <1>1, <1>2, <1>3

LEMMA ProductRemainder ==
  ASSUME NEW s \in Nat \ {0}, NEW n \in Nat
  PROVE  (n * s) % s = 0
<1>1. n * s \in Nat
  OBVIOUS
<1> DEFINE q == (n * s) \div s
           r == (n * s) % s
<1>2. q \in Nat /\ r \in Nat /\ r < s /\ n * s = s * q + r
  BY <1>1, Division
<1> HIDE DEF q, r
<1>3. n * s = s * n
  OBVIOUS
<1>4. CASE n = q
  <2>1. s * n = s * n + r
    BY <1>2, <1>3, <1>4
  <2>2. s * n \in Nat
    OBVIOUS
  <2>3. r = 0
    BY <1>2, <2>1, <2>2
  <2>4. QED
    BY <2>3 DEF r
<1>5. CASE n < q
  <2>1. s * n \in Nat /\ s * q \in Nat /\ s * n + s <= s * q
    BY <1>2, <1>5, Multiples
  <2>2. QED
    BY <1>2, <1>3, <2>1
<1>6. CASE q < n
  <2>1. s * n \in Nat /\ s * q \in Nat /\ s * q + s <= s * n
    BY <1>2, <1>6, Multiples
  <2>2. QED
    BY <1>2, <1>3, <2>1
<1>7. QED
  BY <1>2, <1>4, <1>5, <1>6

\* The frames of a clip: every byte is in one, all but the last are full, and
\* together they are as long as the clip.
Frames(size, f) == (size \div f) + (IF size % f > 0 THEN 1 ELSE 0)

LEMMA FramesAre ==
  ASSUME NEW f \in Nat \ {0}, NEW size \in Nat
  PROVE  /\ Frames(size, f) \in Nat
         /\ \A i \in Nat : i < size =>
              /\ i \div f \in Nat /\ i \div f < Frames(size, f) /\ i % f < f /\ i % f \in Nat /\ (i \div f) * f \in Nat
              /\ (i \div f) * f + (i % f) = i
         /\ \A n \in Nat : n + 1 <= Frames(size, f) - 1 => n * f \in Nat /\ n * f + f <= size
         /\ size > 0 => /\ Frames(size, f) >= 1 /\ (Frames(size, f) - 1) * f \in Nat
                        /\ size - (Frames(size, f) - 1) * f \in 1 .. f
<1> DEFINE q == size \div f
           r == size % f
           d == Frames(size, f)
<1>1. q \in Nat /\ r \in Nat /\ r < f /\ size = f * q + r
  BY Division
<1>2. d = q + (IF r > 0 THEN 1 ELSE 0)
  BY DEF Frames
<1> HIDE DEF q, r, d
<1>3. d \in Nat /\ (r > 0 => d = q + 1) /\ (~(r > 0) => d = q)
  BY <1>1, <1>2
<1>4. f * q \in Nat
  BY <1>1
<1>5. ASSUME NEW i \in Nat, i < size
      PROVE  /\ i \div f \in Nat /\ i \div f < d /\ i % f < f /\ i % f \in Nat /\ (i \div f) * f \in Nat
             /\ (i \div f) * f + (i % f) = i
  <2> DEFINE n == i \div f
             e == i % f
  <2>1. n \in Nat /\ e \in Nat /\ e < f /\ i = f * n + e
    BY Division
  <2> HIDE DEF n, e
  <2>2. f * n = n * f /\ n * f \in Nat
    BY <2>1
  <2>3. n < d
    <3>1. CASE n > q
      <4>1. f * q + f <= f * n /\ f * n \in Nat
        BY <1>1, <2>1, <3>1, Multiples
      <4>2. FALSE
        BY <1>1, <1>4, <1>5, <2>1, <4>1
      <4>3. QED
        BY <4>2
    <3>2. CASE n = q
      <4>1. f * q + e < f * q + r
        BY <1>1, <1>5, <2>1, <3>2
      <4>2. e < r
        BY <1>1, <1>4, <2>1, <4>1
      <4>3. QED
        BY <1>1, <1>3, <2>1, <3>2, <4>2
    <3>3. CASE n < q
      BY <1>1, <1>3, <2>1, <3>3
    <3>4. QED
      BY <1>1, <2>1, <3>1, <3>2, <3>3
  <2>4. n * f + e = i
    BY <2>1, <2>2
  <2>5. QED
    BY <2>1, <2>2, <2>3, <2>4 DEF n, e
<1>6. ASSUME NEW n \in Nat, n + 1 <= d - 1
      PROVE  n * f \in Nat /\ n * f + f <= size
  <2>1. n < q
    BY <1>1, <1>3, <1>6
  <2>2. f * n \in Nat /\ f * n + f <= f * q
    BY <1>1, <2>1, Multiples
  <2>3. f * n = n * f
    OBVIOUS
  <2>4. QED
    BY <1>1, <1>4, <2>2, <2>3
<1>7. ASSUME size > 0
      PROVE  d >= 1 /\ (d - 1) * f \in Nat /\ size - (d - 1) * f \in 1 .. f
  <2>1. CASE r > 0
    <3>1. d - 1 = q /\ d >= 1
      BY <1>1, <1>3, <2>1
    <3>2. q * f = f * q
      BY <1>1
    <3>3. size - f * q = r
      BY <1>1, <1>4
    <3>4. r \in 1 .. f
      BY <1>1, <2>1
    <3>5. QED
      BY <1>4, <3>1, <3>2, <3>3, <3>4
  <2>2. CASE ~(r > 0)
    <3>1. r = 0 /\ d = q
      BY <1>1, <1>3, <2>2
    <3>2. q # 0
      <4>1. f * 0 = 0
        OBVIOUS
      <4>2. QED
        BY <1>1, <1>7, <3>1, <4>1
    <3>3. PICK k \in Nat : q = k + 1
      <4>1. q - 1 \in Nat /\ q = (q - 1) + 1
        BY <1>1, <3>2
      <4>2. QED
        BY <4>1
    <3>4. f * (k + 1) = k * f + f /\ k * f \in Nat
      OBVIOUS
    <3>5. size = k * f + f
      BY <1>1, <3>1, <3>3, <3>4
    <3>6. d - 1 = k /\ d >= 1
      BY <3>1, <3>3
    <3>7. size - k * f \in 1 .. f
      BY <3>4, <3>5
    <3>8. QED
      BY <3>4, <3>6, <3>7
  <2>3. QED
    BY <2>1, <2>2
<1>8. QED
  BY <1>3, <1>5, <1>6, <1>7 DEF d

ReadsPCM ==
  /\ OpensPCM
  /\ \A i \in DOMAIN past.bytes : ByteRead(i, past.bytes[i])
  /\ \A n \in 1 .. ClipDuration - 1 : Len(FrameCells(n - 1)) = FrameLen
  /\ past.faults = 0 =>
       (ClipDuration - 1) * FrameLen + Len(FrameCells(ClipDuration - 1)) = Len(past.bytes)

LEMMA ClosedReadsPCM ==
  ASSUME ClipAssumption, Shape(mxf), PastShape(past), ClosedPCM(mxf, past), past.bytes # <<>>, Whole(past)
  PROVE  ReadsPCM
<1> DEFINE F == FrameLen
           B == past.bytes
           size == ClipSize
           d == ClipDuration
<1>1. F \in Nat \ {0} /\ SampleLen \in Nat \ {0} /\ Start \in Nat /\ PackLen \in Nat /\ B \in Seq(Cell)
  BY DEF ClipAssumption, Start, PastShape
<1>2. Layout(mxf) /\ RipResolves(mxf) /\ mxf.disk = mxf.rip /\ HasIndex(mxf) /\ HoldsAt(mxf, Start + 2, B)
  BY DEF ClosedPCM
<1>3. PICK n \in Nat : Counts(past, n * SampleLen) /\ HoldsAt(mxf, Start, <<<<"key", 0>>, <<"length", n * SampleLen>>>>)
  BY DEF ClosedPCM
<1>4. ClipBegin = Start + 2
  <2>1. Part(mxf, FirstBody(mxf)).at = PackLen
    BY <1>2, ReaderSees DEF NewPack
  <2>2. QED
    BY <1>1, <2>1 DEF ClipBegin, KLLen, Start
<1>5. CellAt(Start) = <<"key", 0>> /\ CellAt(Start + 1) = <<"length", n * SampleLen>>
  <2> DEFINE both == <<<<"key", 0>>, <<"length", n * SampleLen>>>>
  <2>1. 1 \in 1 .. Len(both) /\ 2 \in 1 .. Len(both) /\ both[1] = <<"key", 0>> /\ both[2] = <<"length", n * SampleLen>>
    OBVIOUS
  <2> HIDE DEF both
  <2>2. HoldsAt(mxf, Start, both)
    BY <1>3 DEF both
  <2>3. Start + 1 - 1 = Start /\ Start + 2 - 1 = Start + 1
    BY <1>1
  <2>4. \A i \in 1 .. Len(both) : Start + i - 1 \in DOMAIN mxf.cells /\ mxf.cells[Start + i - 1] = both[i]
    BY <2>2 DEF HoldsAt
  <2>5. Start \in DOMAIN mxf.cells /\ mxf.cells[Start] = <<"key", 0>>
    BY <2>1, <2>3, <2>4
  <2>6. Start + 1 \in DOMAIN mxf.cells /\ mxf.cells[Start + 1] = <<"length", n * SampleLen>>
    BY <2>1, <2>3, <2>4
  <2>7. QED
    BY <2>5, <2>6 DEF CellAt
<1>6. size = n * SampleLen
  <2>1. ClipBegin - 1 = Start + 1
    BY <1>1, <1>4
  <2>2. QED
    BY <1>5, <2>1 DEF ClipSize
<1>7. size \in Nat /\ size >= Len(B) /\ (past.faults = 0 => size = Len(B)) /\ Len(B) \in Nat \ {0}
  <2>1. Len(B) \in Nat \ {0}
    BY <1>1
  <2>2. n * SampleLen \in Nat
    BY <1>1, NatProduct
  <2>3. n * SampleLen >= Len(B) /\ (past.faults = 0 => n * SampleLen = Len(B))
    BY <1>3 DEF Counts
  <2>4. QED
    BY <1>6, <2>1, <2>2, <2>3
<1>8. OpensPCM
  <2>1. Openable(mxf)
    BY <1>2, ReaderSees
  <2>2. Indexes(mxf) # {}
    <3>1. Indexes(mxf) = {i \in DOMAIN mxf.rip : Listed(mxf, i).type = "index"}
      BY <1>2, ReaderSees
    <3>2. PICK p \in mxf.parts : p.type = "index" /\ \E i \in DOMAIN mxf.rip : mxf.rip[i].at = p.at
      BY <1>2 DEF HasIndex
    <3>3. PICK i \in DOMAIN mxf.rip : mxf.rip[i].at = p.at
      BY <3>2
    <3>4. Listed(mxf, i) = p
      BY <1>2, <3>3, ListedIs
    <3>5. QED
      BY <3>1, <3>2, <3>4
  <2>3. CellAt(ClipBegin - 2)[1] = "key"
    <3>1. ClipBegin - 2 = Start
      BY <1>1, <1>4
    <3>2. QED
      BY <1>5, <3>1
  <2>4. ClipSize % SampleLen = 0
    BY <1>1, <1>6, ProductRemainder
  <2>5. QED
    BY <2>1, <2>2, <2>3, <2>4 DEF OpensPCM
<1>9. d = Frames(size, F)
  BY DEF ClipDuration, Frames
<1> HIDE DEF size, d, F, B
<1>10. \A k \in Nat : k * F \in Nat /\ k * F < size =>
         /\ Len(FrameCells(k)) = (IF size - k * F < F THEN size - k * F ELSE F)
         /\ \A i \in Nat \ {0} : i <= F /\ k * F + i <= size =>
              i \in DOMAIN FrameCells(k) /\ FrameCells(k)[i] = CellAt((Start + 2) + k * F + i - 1)
  <2>1. ASSUME NEW k \in Nat, k * F \in Nat, k * F < size
        PROVE  /\ Len(FrameCells(k)) = (IF size - k * F < F THEN size - k * F ELSE F)
               /\ \A i \in Nat \ {0} : i <= F /\ k * F + i <= size =>
                    i \in DOMAIN FrameCells(k) /\ FrameCells(k)[i] = CellAt((Start + 2) + k * F + i - 1)
    <3> DEFINE off == k * F
               len == Min({F, size - off})
               cells == [i \in 1 .. len |-> CellAt((Start + 2) + off + i - 1)]
    <3>1. off \in Nat /\ off < size /\ size - off \in Nat
      BY <1>7, <2>1
    <3>2. FrameCells(k) = cells
      BY <1>4 DEF FrameCells, F, size
    <3> HIDE DEF off
    <3>3. F \in Nat /\ size - off \in Nat
      BY <1>1, <3>1
    <3> DEFINE rest == size - off
    <3>4. rest \in Nat /\ len = Min({F, rest})
      BY <3>3
    <3> HIDE DEF len, rest
    <3>5. len \in Nat /\ len <= F /\ len <= rest /\ (len = F \/ len = rest)
      BY <3>3, <3>4, MinOfTwo
    <3>6. Len(cells) = len /\ DOMAIN cells = 1 .. len /\ \A i \in 1 .. len : cells[i] = CellAt((Start + 2) + off + i - 1)
      BY <3>5
    <3> HIDE DEF cells
    <3>7. len = (IF rest < F THEN rest ELSE F)
      BY <3>3, <3>4, <3>5
    <3>8. \A i \in Nat \ {0} : i <= F /\ off + i <= size => i \in 1 .. len
      <4>1. \A i \in Nat \ {0} : off + i <= size => i <= rest
        BY <1>7, <3>1 DEF rest
      <4>2. QED
        BY <3>3, <3>4, <3>5, <4>1
    <3>9. QED
      BY <3>2, <3>6, <3>7, <3>8 DEF off, rest
  <2>2. QED
    BY <2>1
<1>11. /\ Frames(size, F) \in Nat
       /\ \A i \in Nat : i < size =>
            /\ i \div F \in Nat /\ i \div F < Frames(size, F) /\ i % F < F /\ i % F \in Nat /\ (i \div F) * F \in Nat
            /\ (i \div F) * F + (i % F) = i
       /\ \A k \in Nat : k + 1 <= Frames(size, F) - 1 => k * F \in Nat /\ k * F + F <= size
       /\ size > 0 => /\ Frames(size, F) >= 1 /\ (Frames(size, F) - 1) * F \in Nat
                      /\ size - (Frames(size, F) - 1) * F \in 1 .. F
  BY <1>1, <1>7, FramesAre
<1>12. ASSUME NEW i \in DOMAIN past.bytes PROVE ByteRead(i, past.bytes[i])
  <2>1. i \in 1 .. Len(B) /\ i \in Nat \ {0}
    BY <1>1 DEF B
  <2>2. i - 1 \in Nat /\ i - 1 < size
    BY <1>7, <2>1
  <2> DEFINE k == (i - 1) \div F
             e == (i - 1) % F
             off == k * F
  <2>3. k \in Nat /\ k < d /\ e < F /\ e \in Nat /\ off \in Nat /\ off + e = i - 1
    BY <1>9, <1>11, <2>2
  <2> HIDE DEF k, e
  <2>4. off < size /\ e + 1 \in Nat \ {0} /\ e + 1 <= F /\ off + (e + 1) <= size
    BY <1>1, <1>7, <2>2, <2>3
  <2>5. e + 1 \in DOMAIN FrameCells(k) /\ FrameCells(k)[e + 1] = CellAt((Start + 2) + off + (e + 1) - 1)
    BY <1>10, <2>3, <2>4
  <2> HIDE DEF off
  <2>6. (Start + 2) + off + (e + 1) - 1 = (Start + 2) + i - 1
    BY <1>1, <2>1, <2>3
  <2>7. CellAt((Start + 2) + i - 1) = B[i]
    BY <1>2, <2>1 DEF HoldsAt, CellAt
  <2>8. k < ClipDuration /\ e + 1 \in DOMAIN FrameCells(k) /\ FrameCells(k)[e + 1] = past.bytes[i]
    BY <2>3, <2>5, <2>6, <2>7 DEF d, B
  <2>9. QED
    BY <2>8 DEF ByteRead, k, e, F
<1>13. ASSUME NEW m \in 1 .. ClipDuration - 1 PROVE Len(FrameCells(m - 1)) = FrameLen
  <2>1. m - 1 \in Nat /\ (m - 1) + 1 <= Frames(size, F) - 1
    BY <1>9, <1>11 DEF d
  <2> DEFINE k == m - 1
             off == k * F
  <2>2. k \in Nat /\ off \in Nat /\ off + F <= size
    BY <1>11, <2>1
  <2> HIDE DEF k
  <2>3. off < size /\ ~(size - off < F)
    <3> HIDE DEF off
    <3>1. QED
      BY <1>1, <1>7, <2>2
  <2>4. Len(FrameCells(k)) = (IF size - off < F THEN size - off ELSE F)
    BY <1>10, <2>2, <2>3
  <2>5. Len(FrameCells(k)) = F
    BY <2>3, <2>4
  <2>6. QED
    BY <2>5 DEF k, F
<1>14. ASSUME past.faults = 0
       PROVE  (ClipDuration - 1) * FrameLen + Len(FrameCells(ClipDuration - 1)) = Len(past.bytes)
  <2>1. size = Len(B) /\ size > 0
    BY <1>7, <1>14
  <2> DEFINE k == d - 1
             off == k * F
  <2>2. k \in Nat /\ off \in Nat /\ size - off \in 1 .. F
    BY <1>9, <1>11, <2>1
  <2> HIDE DEF k
  <2>3. off < size /\ (IF size - off < F THEN size - off ELSE F) = size - off
    <3> HIDE DEF off
    <3>1. QED
      BY <1>1, <1>7, <2>2
  <2>4. Len(FrameCells(k)) = size - off
    BY <1>10, <2>2, <2>3
  <2>5. off + Len(FrameCells(k)) = size
    <3> DEFINE x == Len(FrameCells(k))
    <3>1. x = size - off /\ off \in Nat /\ size \in Nat
      BY <1>7, <2>2, <2>4
    <3> HIDE DEF x, off
    <3>2. off + x = size
      BY <3>1
    <3>3. QED
      BY <3>2 DEF x
  <2>6. QED
    BY <2>1, <2>5 DEF k, F, d, B
<1>15. QED
  BY <1>8, <1>12, <1>13, <1>14 DEF ReadsPCM

\* The rows of the reader's table for one index partition, of the first body partition
RowOf(f, segs, j) == [rank |-> <<f, j>>, segment |-> segs[j], body |-> NewPack(PackLen, "body", 1)]

LEMMA FirstOfSet ==
  ASSUME NEW S \in SUBSET Nat, IsFiniteSet(S), NEW f \in S, \A i \in S : f <= i, NEW i \in S
  PROVE  Count(S, i) = 1 <=> i = f
<1> DEFINE T == {j \in S : j <= i}
<1>1. f \in T /\ i \in T
  OBVIOUS
<1>2. IsFiniteSet(T)
  <2>1. T \subseteq S
    OBVIOUS
  <2>2. QED
    BY <2>1, FS_Subset
<1>3. Count(S, i) = Cardinality(T)
  BY DEF Count
<1>4. ASSUME i = f PROVE Cardinality(T) = 1
  <2>1. \A j \in T : j <= f /\ f <= j /\ j \in Nat
    BY <1>4
  <2>2. \A j \in T : j = f
    <3> HIDE DEF T
    <3>1. f \in Nat
      OBVIOUS
    <3>2. QED
      BY <2>1, <3>1
  <2>3. T = {f}
    <3> HIDE DEF T
    <3>1. QED
      BY <1>1, <2>2
  <2>4. QED
    BY <2>3, FS_Singleton
<1> HIDE DEF T
<1>5. ASSUME Cardinality(T) = 1 PROVE i = f
  <2>1. PICK x : T = {x}
    BY <1>2, <1>5, FS_Singleton
  <2>2. QED
    BY <1>1, <2>1
<1>6. QED
  BY <1>3, <1>4, <1>5

LEMMA RipIndexes ==
  ASSUME Shape(mxf)
  PROVE  LET S == {i \in DOMAIN mxf.rip : Listed(mxf, i).type = "index"}
         IN  S \in SUBSET Nat /\ IsFiniteSet(S)
<1> DEFINE S == {i \in DOMAIN mxf.rip : Listed(mxf, i).type = "index"}
<1>1. DOMAIN mxf.rip = 1 .. Len(mxf.rip) /\ Len(mxf.rip) \in Nat
  BY DEF Shape
<1>2. S \subseteq 1 .. Len(mxf.rip) /\ 1 .. Len(mxf.rip) \subseteq Nat
  BY <1>1
<1>3. IsFiniteSet(1 .. Len(mxf.rip))
  BY <1>1, IntervalFinite
<1>4. QED
  BY <1>2, <1>3, FS_Subset

\* The first entry of the RIP that leads to an index partition leads to the first one.
LEMMA FirstIsListed ==
  ASSUME Shape(mxf), Layout(mxf), RipResolves(mxf), NEW segs, First(mxf, segs)
  PROVE  LET S == {i \in DOMAIN mxf.rip : Listed(mxf, i).type = "index"}
         IN  \E f \in S : Listed(mxf, f).segs = segs /\ \A i \in S : f <= i
<1> DEFINE S == {i \in DOMAIN mxf.rip : Listed(mxf, i).type = "index"}
<1>1. PICK p \in mxf.parts : /\ p.type = "index" /\ p.segs = segs
                             /\ \E i \in DOMAIN mxf.rip : mxf.rip[i].at = p.at
                             /\ \A q \in mxf.parts : q.type = "index" => p.at <= q.at
  BY DEF First
<1>2. PICK k \in DOMAIN mxf.rip : mxf.rip[k].at = p.at
  BY <1>1
<1>3. k \in S
  BY <1>1, <1>2, ListedIs
<1>4. S \in SUBSET Nat
  BY RipIndexes
<1>5. PICK f \in S : \A i \in S : f <= i
  <2> HIDE DEF S
  <2>1. QED
    BY <1>3, <1>4, Smallest
<1>6. mxf.rip[f].at <= mxf.rip[k].at
  <2>1. f \in DOMAIN mxf.rip /\ f \in Nat /\ k \in Nat /\ f <= k
    BY <1>3, <1>4, <1>5
  <2>2. mxf.rip[f].at \in Nat
    <3>1. mxf.rip \in Seq(Pair) /\ \A x \in Pair : x.at \in Nat
      BY DEF Shape, Pair
    <3>2. QED
      BY <2>1, <3>1
  <2>3. f = k \/ f < k
    BY <2>1
  <2>4. QED
    BY <2>1, <2>2, <2>3 DEF Layout
<1>7. Listed(mxf, f) = p
  <2>1. /\ Listed(mxf, f) \in mxf.parts /\ Listed(mxf, f).type = "index" /\ Listed(mxf, f).at = mxf.rip[f].at
        /\ f \in DOMAIN mxf.rip
    BY <1>5, ListedIs
  <2>2. p.at <= Listed(mxf, f).at /\ Listed(mxf, f).at <= p.at
    BY <1>1, <1>2, <1>6, <2>1
  <2>3. p.at \in Nat /\ Listed(mxf, f).at \in Nat
    BY <2>1 DEF Layout
  <2>4. p.at = mxf.rip[f].at
    BY <2>1, <2>2, <2>3
  <2>5. QED
    BY <2>1, <2>4, ListedIs
<1>8. QED
  BY <1>1, <1>5, <1>7

\* The table holds the segments of the first index partition, or nothing.
LEMMA TableOfClip ==
  ASSUME ClipAssumption, Shape(mxf), Layout(mxf), RipResolves(mxf), mxf.disk = mxf.rip
  PROVE  /\ Fresh(mxf) => Table(mxf) = {}
         /\ \A segs : First(mxf, segs) => \E f \in Nat : Table(mxf) = {RowOf(f, segs, j) : j \in DOMAIN segs}
<1> DEFINE bodies  == Bodies(mxf)
           indexes == Indexes(mxf)
           Pairs   == {pair \in indexes \X bodies : Count(indexes, pair[1]) = Count(bodies, pair[2])}
           Rows(pair) == {[rank |-> <<pair[1], j>>, segment |-> Part(mxf, pair[1]).segs[j],
                           body |-> Part(mxf, pair[2])] : j \in DOMAIN Part(mxf, pair[1]).segs}
<1>1. Table(mxf) = UNION {Rows(pair) : pair \in Pairs}
  BY DEF Table
<1>2. bodies = {2} /\ indexes = {i \in DOMAIN mxf.rip : Listed(mxf, i).type = "index"}
  BY ReaderSees
<1>3. \A i : Part(mxf, i) = Listed(mxf, i)
  BY DEF Part, Listed
<1>4. Part(mxf, 2) = NewPack(PackLen, "body", 1)
  <2>1. NewPack(PackLen, "body", 1) \in mxf.parts /\ NewPack(PackLen, "body", 1).at = PackLen /\ mxf.rip[2].at = PackLen
    BY DEF Layout, NewPack
  <2>2. QED
    BY <2>1, PackAtIs DEF Part
<1>5. indexes \in SUBSET Nat /\ IsFiniteSet(indexes)
  BY <1>2, RipIndexes
<1>6. Count(bodies, 2) = 1
  <2>1. IsFiniteSet({2})
    BY FS_Singleton
  <2>2. {2} \in SUBSET Nat /\ 2 \in {2} /\ \A i \in {2} : 2 <= i
    OBVIOUS
  <2>3. Count({2}, 2) = 1 <=> 2 = 2
    BY <2>1, <2>2, FirstOfSet
  <2>4. QED
    BY <1>2, <2>3
<1> HIDE DEF bodies, indexes
<1>7. \A x : x \in Pairs <=> \E i \in indexes : x = <<i, 2>> /\ Count(indexes, i) = 1
  <2>1. \A x : x \in Pairs <=> \E i \in indexes, b \in bodies : x = <<i, b>> /\ Count(indexes, i) = Count(bodies, b)
    OBVIOUS
  <2>2. QED
    BY <1>2, <1>6, <2>1, SMTT(30)
<1>8. ASSUME Fresh(mxf) PROVE Table(mxf) = {}
  <2>1. indexes = {}
    BY <1>2, <1>8, ListedIs DEF Fresh
  <2>2. Pairs = {}
    BY <2>1
  <2> HIDE DEF Pairs, Rows
  <2>3. QED
    BY <1>1, <2>2
<1>9. ASSUME NEW segs, First(mxf, segs)
      PROVE  \E f \in Nat : Table(mxf) = {RowOf(f, segs, j) : j \in DOMAIN segs}
  <2>1. PICK f \in indexes : Listed(mxf, f).segs = segs /\ \A i \in indexes : f <= i
    BY <1>2, <1>9, FirstIsListed
  <2>2. (\A i \in indexes : f <= i) /\ f \in Nat
    BY <1>5, <2>1
  <2>3. \A i \in indexes : Count(indexes, i) = 1 <=> i = f
    BY <1>5, <2>1, <2>2, FirstOfSet
  <2>4. \A x : x \in Pairs <=> x = <<f, 2>>
    BY <1>7, <2>1, <2>3
  <2> DEFINE pair == <<f, 2>>
  <2>5. Pairs = {pair}
    BY <2>4
  <2>6. Rows(pair) = {RowOf(f, segs, j) : j \in DOMAIN segs}
    <3>1. pair[1] = f /\ pair[2] = 2 /\ Part(mxf, f).segs = segs
      BY <1>3, <2>1
    <3>2. QED
      BY <1>4, <3>1 DEF RowOf
  <2> HIDE DEF Pairs, Rows, pair
  <2>7. UNION {Rows(x) : x \in Pairs} = Rows(pair)
    BY <2>5
  <2>8. QED
    BY <1>1, <2>2, <2>6, <2>7
<1>10. QED
  BY <1>8, <1>9

\* The sum of the durations is the number of the entries.
LEMMA DurationIs ==
  ASSUME NEW f \in Nat, NEW segs \in Seq(SegmentsOf(Nat)), NEW c \in Nat, Enumerated(segs, c)
  PROVE  Duration({RowOf(f, segs, j) : j \in DOMAIN segs}) = c
<1> DEFINE table == {RowOf(f, segs, j) : j \in DOMAIN segs}
           E == UNION {{<<t.rank, j>> : j \in DOMAIN t.segment.entries} : t \in table}
           g == [x \in E |-> segs[x[1][2]].start + x[2]]
<1>1. \A x : x \in E <=> \E i \in DOMAIN segs : \E j \in DOMAIN segs[i].entries : x = <<<<f, i>>, j>>
  <2>1. \A i : RowOf(f, segs, i).rank = <<f, i>> /\ RowOf(f, segs, i).segment = segs[i]
    BY DEF RowOf
  <2>2. \A x : x \in E <=> \E t \in table : \E j \in DOMAIN t.segment.entries : x = <<t.rank, j>>
    <3> HIDE DEF table
    <3>1. QED
      OBVIOUS
  <2>3. \A t : t \in table <=> \E i \in DOMAIN segs : t = RowOf(f, segs, i)
    OBVIOUS
  <2> HIDE DEF E, table
  <2>4. \A i \in DOMAIN segs : RowOf(f, segs, i) \in table
    BY <2>3
  <2>5. ASSUME NEW x \in E PROVE \E i \in DOMAIN segs : \E j \in DOMAIN segs[i].entries : x = <<<<f, i>>, j>>
    <3>1. PICK t \in table : \E j \in DOMAIN t.segment.entries : x = <<t.rank, j>>
      BY <2>2
    <3>2. PICK i \in DOMAIN segs : t = RowOf(f, segs, i)
      BY <2>3
    <3>3. t.rank = <<f, i>> /\ t.segment = segs[i]
      BY <2>1, <3>2
    <3>4. \E j \in DOMAIN segs[i].entries : x = <<<<f, i>>, j>>
      BY <3>1, <3>3
    <3>5. QED
      BY <3>4
  <2>6. ASSUME NEW i \in DOMAIN segs, NEW j \in DOMAIN segs[i].entries PROVE <<<<f, i>>, j>> \in E
    <3> DEFINE t == RowOf(f, segs, i)
    <3>1. t \in table /\ t.rank = <<f, i>> /\ t.segment = segs[i]
      BY <2>1, <2>4
    <3> HIDE DEF t
    <3>2. QED
      BY <2>2, <3>1
  <2>7. QED
    BY <2>5, <2>6
<1>2. Duration(table) = Cardinality(E)
  BY DEF Duration
<1> HIDE DEF E, table
<1>3. \A i \in DOMAIN segs : \A j \in DOMAIN segs[i].entries :
        <<<<f, i>>, j>> \in E /\ g[<<<<f, i>>, j>>] = segs[i].start + j
  BY <1>1
<1> HIDE DEF g
<1>4. g \in [E -> 1 .. c]
  <2>1. \A x \in E : segs[x[1][2]].start + x[2] \in 1 .. c
    BY <1>1 DEF Enumerated
  <2>2. QED
    BY <2>1 DEF g
<1>5. \A x, y \in E : g[x] = g[y] => x = y
  <2> SUFFICES ASSUME NEW x \in E, NEW y \in E, g[x] = g[y] PROVE x = y
    OBVIOUS
  <2>1. PICK i \in DOMAIN segs : \E j \in DOMAIN segs[i].entries : x = <<<<f, i>>, j>>
    BY <1>1
  <2>2. PICK j \in DOMAIN segs[i].entries : x = <<<<f, i>>, j>>
    BY <2>1
  <2>3. PICK u \in DOMAIN segs : \E v \in DOMAIN segs[u].entries : y = <<<<f, u>>, v>>
    BY <1>1
  <2>4. PICK v \in DOMAIN segs[u].entries : y = <<<<f, u>>, v>>
    BY <2>3
  <2>5. segs[i].start + j = segs[u].start + v
    BY <1>3, <2>2, <2>4
  <2>6. i = u /\ j = v
    BY <2>5 DEF Enumerated
  <2>7. QED
    BY <2>2, <2>4, <2>6
<1>6. \A k \in 1 .. c : \E x \in E : g[x] = k
  <2> SUFFICES ASSUME NEW k \in 1 .. c PROVE \E x \in E : g[x] = k
    OBVIOUS
  <2>1. PICK i \in DOMAIN segs : \E j \in DOMAIN segs[i].entries : segs[i].start + j = k
    BY DEF Enumerated
  <2>2. PICK j \in DOMAIN segs[i].entries : segs[i].start + j = k
    BY <2>1
  <2>3. QED
    BY <1>3, <2>2
<1>7. Cardinality(E) = c
  BY <1>4, <1>5, <1>6, NumberedSet
<1>8. QED
  BY <1>2, <1>7 DEF table

\* One segment covers a frame, and its entry leads to it.
LEMMA LookupIs ==
  ASSUME ClipAssumption, NEW f \in Nat, NEW segs \in Seq(SegmentsOf(Nat)), NEW c \in Nat, Enumerated(segs, c),
         NEW i \in DOMAIN segs, NEW j \in DOMAIN segs[i].entries
  PROVE  LookupIn({RowOf(f, segs, x) : x \in DOMAIN segs}, segs[i].start + j - 1) = Start + segs[i].entries[j]
<1> DEFINE table == {RowOf(f, segs, x) : x \in DOMAIN segs}
           k == segs[i].start + j - 1
           hits == {t \in table : t.segment.start <= k /\ k < t.segment.start + Len(t.segment.entries)}
           Before(s, t) == IF s.rank[1] = t.rank[1] THEN s.rank[2] <= t.rank[2] ELSE s.rank[1] < t.rank[1]
           first == CHOOSE t \in hits : \A s \in hits : Before(t, s)
           row == RowOf(f, segs, i)
<1>1. \A x \in DOMAIN segs : /\ x \in Nat /\ segs[x].start \in Nat /\ segs[x].entries \in Seq(Nat)
                             /\ Len(segs[x].entries) \in Nat /\ DOMAIN segs[x].entries = 1 .. Len(segs[x].entries)
  <2> SUFFICES ASSUME NEW x \in DOMAIN segs
               PROVE  /\ x \in Nat /\ segs[x].start \in Nat /\ segs[x].entries \in Seq(Nat)
                      /\ Len(segs[x].entries) \in Nat /\ DOMAIN segs[x].entries = 1 .. Len(segs[x].entries)
    OBVIOUS
  <2>1. segs[x] \in SegmentsOf(Nat) /\ x \in Nat
    OBVIOUS
  <2>2. segs[x].start \in Nat /\ segs[x].entries \in Seq(Nat)
    BY <2>1 DEF SegmentsOf
  <2>3. QED
    BY <2>1, <2>2
<1>2. \A x : RowOf(f, segs, x).rank = <<f, x>> /\ RowOf(f, segs, x).segment = segs[x]
             /\ RowOf(f, segs, x).body = NewPack(PackLen, "body", 1)
  BY DEF RowOf
<1>3. j \in Nat /\ j >= 1 /\ j <= Len(segs[i].entries) /\ k \in Nat
  BY <1>1
<1>4. \A t : t \in hits <=> t = row
  <2>1. row \in hits
    <3>1. row \in table /\ row.segment = segs[i]
      BY <1>2
    <3>2. segs[i].start <= k /\ k < segs[i].start + Len(segs[i].entries)
      <4> DEFINE n == Len(segs[i].entries)
                 s == segs[i].start
      <4>1. n \in Nat /\ s \in Nat /\ j <= n /\ k = s + j - 1
        BY <1>1, <1>3
      <4> HIDE DEF n, s, k
      <4>2. s <= k /\ k < s + n
        BY <1>3, <4>1
      <4>3. QED
        BY <4>2 DEF n, s
    <3>3. QED
      BY <3>1, <3>2
  <2>2. ASSUME NEW t \in hits PROVE t = row
    <3>1. PICK x \in DOMAIN segs : t = RowOf(f, segs, x)
      OBVIOUS
    <3>2. segs[x].start <= k /\ k < segs[x].start + Len(segs[x].entries)
      BY <1>2, <3>1
    <3> DEFINE v == k - segs[x].start + 1
    <3>3. v \in DOMAIN segs[x].entries /\ segs[x].start + v = segs[i].start + j
      <4> DEFINE n == Len(segs[x].entries)
                 s == segs[x].start
                 z == segs[i].start
      <4>1. n \in Nat /\ s \in Nat /\ z \in Nat /\ s <= k /\ k < s + n /\ k = z + j - 1 /\ j \in Nat /\ k \in Nat
        BY <1>1, <1>3, <3>2
      <4>2. DOMAIN segs[x].entries = 1 .. n
        BY <1>1
      <4> HIDE DEF n, s, k, z
      <4>3. k - s + 1 \in 1 .. n /\ s + (k - s + 1) = z + j
        BY ONLY <4>1
      <4>4. QED
        BY <4>2, <4>3 DEF n, s, z
    <3> HIDE DEF v
    <3>4. x = i
      BY <3>3 DEF Enumerated
    <3>5. QED
      BY <3>1, <3>4
  <2>3. QED
    BY <2>1, <2>2
<1>5. first = row
  <2>1. Before(row, row)
    BY <1>1, <1>2
  <2> HIDE DEF hits, row, Before
  <2>2. row \in hits /\ \A s \in hits : Before(row, s)
    BY <1>4, <2>1
  <2>3. first \in hits
    BY <2>2
  <2>4. QED
    BY <1>4, <2>3
<1>6. hits # {}
  <2>1. row \in hits
    BY <1>4
  <2> HIDE DEF hits
  <2>2. QED
    BY <2>1
<1>7. LookupIn(table, k) = first.segment.entries[k - first.segment.start + 1] - first.body.offset + first.body.at + PackLen
  <2>1. LookupIn(table, k) = IF hits = {} THEN 0
          ELSE first.segment.entries[k - first.segment.start + 1] - first.body.offset + first.body.at + PackLen
    BY DEF LookupIn
  <2> HIDE DEF hits, first
  <2>2. QED
    BY <1>6, <2>1
<1> HIDE DEF hits, first
<1>8. first.segment = segs[i] /\ first.body.offset = 0 /\ first.body.at = PackLen
  BY <1>2, <1>5 DEF NewPack
<1>9. k - segs[i].start + 1 = j
  BY <1>1, <1>3
<1>10. segs[i].entries[j] - 0 + PackLen + PackLen = Start + segs[i].entries[j]
  <2>1. segs[i].entries[j] \in Nat /\ PackLen \in Nat
    BY <1>1 DEF ClipAssumption
  <2>2. QED
    BY <2>1 DEF Start
<1>11. LookupIn(table, k) = Start + segs[i].entries[j]
  BY <1>7, <1>8, <1>9, <1>10
<1>12. QED
  BY <1>11

ReadsIAB ==
  LET sound == SubSeq(past.accepted, 1, Min({past.sound, Len(past.accepted)}))
  IN  /\ OpensIAB
      /\ past.sound = MaxBlocks => Duration(Table(mxf)) = Len(past.accepted)
      /\ \A n \in DOMAIN sound : FrameIAB(n - 1) = sound[n]

\* The reader finds the frame that an entry leads to.
LEMMA FrameIs ==
  ASSUME NEW frame \in Seq(Cell), NEW n, NEW at \in Nat \ {0}, Lookup(mxf, n) = at, HoldsAt(mxf, at, frame),
         frame # <<>>, frame[1] = <<"size", Len(frame)>>
  PROVE  FrameIAB(n) = frame
<1> DEFINE len == Len(frame)
           read == [i \in 1 .. len |-> CellAt(at + i - 1)]
<1>1. len \in Nat \ {0} /\ DOMAIN frame = 1 .. len
  OBVIOUS
<1>2. \A i \in 1 .. len : CellAt(at + i - 1) = frame[i]
  BY DEF HoldsAt, CellAt
<1>3. CellAt(at) = <<"size", len>>
  <2>1. 1 \in 1 .. len /\ at + 1 - 1 = at
    BY <1>1
  <2> HIDE DEF len
  <2>2. CellAt(at) = frame[1]
    BY <1>2, <2>1
  <2>3. QED
    BY <2>2 DEF len
<1> HIDE DEF len
<1>4. CellAt(at)[1] = "size" /\ CellAt(at)[2] = len
  BY <1>3
<1>5. FrameIAB(n) = [i \in 1 .. CellAt(at)[2] |-> CellAt(at + i - 1)]
  BY <1>4 DEF FrameIAB
<1>6. FrameIAB(n) = read
  BY <1>4, <1>5
<1>7. read = [i \in 1 .. len |-> frame[i]]
  BY <1>2
<1>8. frame = [i \in 1 .. len |-> frame[i]]
  BY <1>1
<1>9. QED
  BY <1>6, <1>7, <1>8

LEMMA ClosedReadsIAB ==
  ASSUME ClipAssumption, Shape(mxf), PastShape(past), ClosedIAB(mxf, past)
  PROVE  ReadsIAB
<1> DEFINE A == past.accepted
           len == Len(A)
           z == Min({past.sound, len})
           sound == SubSeq(A, 1, z)
<1>1. Layout(mxf) /\ RipResolves(mxf) /\ mxf.disk = mxf.rip /\ Sized(past) /\ (past.sound = 0 \/ FoundIAB(mxf, past))
  BY DEF ClosedIAB
<1>2. A \in Seq(Seq(Cell)) /\ len \in Nat /\ past.sound \in Nat /\ len <= past.offered /\ past.offered \in Nat
      /\ past.offered <= MaxBlocks /\ Start \in Nat \ {0} /\ MaxBlocks \in Nat \ {0}
  BY DEF PastShape, ClipAssumption, Start
<1>3. OpensIAB
  BY <1>1, ReaderSees DEF OpensIAB
<1>4. z \in Nat /\ z <= len /\ z <= past.sound
  BY <1>2, MinOfTwo
<1>5. DOMAIN sound = 1 .. z /\ \A n \in 1 .. z : sound[n] = A[n] /\ n \in DOMAIN A
  <2> HIDE DEF z
  <2>1. QED
    BY <1>2, <1>4
<1> HIDE DEF z, len, A, sound
\* The entries of all frames are lost.
<1>6. CASE past.sound = 0
  <2>1. past.sound # MaxBlocks /\ 1 .. z = {}
    BY <1>2, <1>4, <1>6
  <2>2. \A n \in DOMAIN sound : FrameIAB(n - 1) = sound[n]
    BY <1>5, <2>1
  <2>3. QED
    BY <1>3, <2>1, <2>2 DEF ReadsIAB, sound, z, len, A
<1>7. CASE FoundIAB(mxf, past)
  <2>1. PICK segs \in Seq(SegmentsOf(Nat)), c \in Nat :
          /\ Numbers(past, segs, c) /\ Located(mxf, past, segs)
          /\ \/ Fresh(mxf) /\ c = 0
             \/ First(mxf, segs)
    BY <1>7 DEF FoundIAB
  <2>2. Enumerated(segs, c) /\ c <= len /\ (past.sound <= c \/ c = len)
    BY <2>1 DEF Numbers, len, A
  <2>3. z <= c /\ (past.sound = MaxBlocks => c = len)
    BY <1>2, <1>4, <2>2
  <2>4. CASE Fresh(mxf) /\ c = 0
    <3>1. Table(mxf) = {}
      BY <1>1, <2>4, TableOfClip
    <3>2. Duration({}) = 0
      <4>1. UNION {{<<t.rank, j>> : j \in DOMAIN t.segment.entries} : t \in {}} = {}
        OBVIOUS
      <4>2. QED
        BY <4>1, FS_EmptySet DEF Duration
    <3>3. past.sound = MaxBlocks => Duration(Table(mxf)) = len
      BY <2>3, <2>4, <3>1, <3>2
    <3>4. 1 .. z = {}
      BY <1>4, <2>3, <2>4
    <3>5. \A n \in DOMAIN sound : FrameIAB(n - 1) = sound[n]
      BY <1>5, <3>4
    <3>6. QED
      BY <1>3, <3>3, <3>5 DEF ReadsIAB, sound, z, len, A
  <2>5. CASE First(mxf, segs)
    <3>1. \E f \in Nat : Table(mxf) = {RowOf(f, segs, j) : j \in DOMAIN segs}
      BY <1>1, <2>5, TableOfClip
    <3>2. PICK f \in Nat : Table(mxf) = {RowOf(f, segs, j) : j \in DOMAIN segs}
      BY <3>1
    <3>3. Duration(Table(mxf)) = c
      BY <2>2, <3>2, DurationIs
    <3>4. past.sound = MaxBlocks => Duration(Table(mxf)) = len
      BY <2>3, <3>3
    <3>5. ASSUME NEW n \in DOMAIN sound PROVE FrameIAB(n - 1) = sound[n]
      <4>1. n \in Nat /\ n \in 1 .. c /\ n \in DOMAIN past.accepted /\ n <= past.sound /\ sound[n] = past.accepted[n]
        BY <1>2, <1>4, <2>3, <1>5 DEF A
      <4>2. PICK i \in DOMAIN segs : \E j \in DOMAIN segs[i].entries : segs[i].start + j = n
        BY <2>2, <4>1 DEF Enumerated
      <4>3. PICK j \in DOMAIN segs[i].entries : segs[i].start + j = n
        BY <4>2
      <4>4. Lookup(mxf, segs[i].start + j - 1) = Start + segs[i].entries[j]
        BY <2>2, <3>2, LookupIs DEF Lookup
      <4> DEFINE frame == past.accepted[n]
                 entry == segs[i].entries[j]
      <4>5. entry >= 2 /\ HoldsAt(mxf, Start + entry, frame)
        BY <2>1, <4>1, <4>3 DEF Located
      <4>6. entry \in Nat /\ j \in Nat /\ segs[i].start \in Nat
        <5>1. segs[i] \in SegmentsOf(Nat)
          OBVIOUS
        <5>2. segs[i].entries \in Seq(Nat) /\ segs[i].start \in Nat
          BY <5>1 DEF SegmentsOf
        <5>3. QED
          BY <5>2
      <4>7. frame \in Seq(Cell) /\ frame # <<>> /\ frame[1] = <<"size", Len(frame)>>
        BY <1>1, <1>2, <4>1 DEF Sized, A
      <4> HIDE DEF frame, entry
      <4>8. Start + entry \in Nat \ {0}
        BY <1>2, <4>6
      <4>9. Lookup(mxf, n - 1) = Start + entry
        <5>1. \A s, k \in Nat : s + k = n => n - 1 = s + k - 1
          BY <4>1
        <5>2. n - 1 = segs[i].start + j - 1
          BY ONLY <4>3, <4>6, <5>1
        <5>3. QED
          BY <4>4, <5>2 DEF entry
      <4>10. FrameIAB(n - 1) = frame
        BY <4>5, <4>7, <4>8, <4>9, FrameIs
      <4>11. QED
        BY <4>1, <4>10 DEF frame
    <3>6. QED
      BY <1>3, <3>4, <3>5 DEF ReadsIAB, sound, z, len, A
  <2>6. QED
    BY <2>1, <2>4, <2>5
<1>8. QED
  BY <1>1, <1>6, <1>7

\* What the invariant says of the readers, and of the types
LEMMA ClipReads == ASSUME ClipAssumption, ClipInv PROVE ClipReadsBack
<1> SUFFICES ASSUME Finalized
             PROVE  /\ writer.kind = "IAB" => ReadsIAB
                    /\ writer.kind # "IAB" /\ Regular /\ past.bytes # <<>> => ReadsPCM
  BY DEF ClipReadsBack, ReadsIAB, ReadsPCM
<1>1. WriterShape(writer) /\ Shape(mxf) /\ PastShape(past) /\ mxf.disk # <<>> /\ Ended(past)
  BY DEF ClipInv, Finalized, Ended
<1>2. ASSUME writer.kind = "IAB" PROVE ReadsIAB
  <2>1. ClosedIAB(mxf, past)
    BY <1>1, <1>2 DEF ClipInv, InvIAB
  <2>2. QED
    BY <1>1, <2>1, ClosedReadsIAB
<1>3. ASSUME writer.kind # "IAB", Regular, past.bytes # <<>> PROVE ReadsPCM
  <2>1. writer.kind = "PCM"
    BY <1>1, <1>3 DEF WriterShape
  <2>2. ClosedPCM(mxf, past)
    BY <1>1, <2>1 DEF ClipInv, InvPCM
  <2>3. Whole(past)
    BY <1>3 DEF Regular, Whole
  <2>4. QED
    BY <1>1, <1>3, <2>2, <2>3, ClosedReadsPCM
<1>4. QED
  BY <1>2, <1>3

LEMMA ClipTyped == ASSUME ClipAssumption, ClipInv PROVE ClipTypeOK
<1>1. WriterShape(writer) /\ Shape(mxf) /\ PastShape(past)
  BY DEF ClipInv
<1>2. \A x \in Cell : x[1] \in CellKinds
  BY DEF Cell
<1>3. \A o \in DOMAIN mxf.cells : mxf.cells[o][1] \in {"key", "length", "byte", "size", "text"}
  BY <1>1, <1>2 DEF Shape, CellKinds
<1>4. QED
  BY <1>1, <1>3 DEF WriterShape, PastShape, ClipTypeOK

=============================================================================
