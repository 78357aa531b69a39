------------------------ MODULE DirectoryTree_proofs ------------------------
(***************************************************************************)
(* What deleting, creating and resolving do to a tree of directories and   *)
(* links, proved for any names, links, paths and limits.                   *)
(*                                                                         *)
(* The kernel's walk along a path is a function over Walking, recursive    *)
(* over the links that may still be followed and the names that are left.  *)
(* WalkInduction is the induction it needs, for a set of walks in the      *)
(* place of a predicate; from it follow how a walk along a path splits     *)
(* (Splits), what a longer limit changes (MoreLinks), and which walks a    *)
(* change of the tree leaves as they were (LedAsBefore, LedInTree).        *)
(*                                                                         *)
(* The invariant has a part for each function.  Those of the deletions     *)
(* compare the tree with the one before the call: CameOf says what can     *)
(* have happened to it meanwhile.                                          *)
(***************************************************************************)
EXTENDS DirectoryTree, Integers, SequenceTheorems, WellFoundedInduction, TLAPS

LEMMA SmallestNumber ==
  ASSUME NEW T \in SUBSET Nat, T # {}
  PROVE  \E x \in T : \A y \in T : x <= y
<1> DEFINE R == OpToRel(<, Nat)
<1>1. IsWellFoundedOn(R, Nat)
  BY NatLessThanWellFounded
<1>2. \A x, y \in Nat : x < y => <<x, y>> \in R
  BY DEF OpToRel
<1> HIDE DEF R
<1>3. PICK x \in T : \A y \in T : ~(<<y, x>> \in R)
  BY <1>1, WFMin
<1>4. \A y \in T : y \in Nat /\ x \in Nat /\ ~(y < x)
  BY <1>2, <1>3
<1>5. QED
  BY <1>4

-----------------------------------------------------------------------------
(* Walks *)

\* Fewer links are left, or fewer names
Below(y, x) == y.links < x.links \/ (y.links = x.links /\ Len(y.rest) < Len(x.rest))

\* Induction on walks: what holds of a walk when it holds of those below it holds
\* of them all.
LEMMA WalkInduction ==
  ASSUME TreeAssumption, NEW S,
         \A x \in Walking : (\A y \in Walking : Below(y, x) => y \in S) => x \in S
  PROVE  \A x \in Walking : x \in S
<1> SUFFICES ASSUME NEW z \in Walking, z \notin S PROVE FALSE
  OBVIOUS
<1>1. \A x \in Walking : x.links \in Nat /\ Len(x.rest) \in Nat
  BY DEF Walking, TreeAssumption
<1> DEFINE T == {x \in Walking : x \notin S}
           Lefts == {x.links : x \in T}
<1>2. Lefts \in SUBSET Nat /\ Lefts # {}
  BY <1>1
<1>3. PICK l \in Lefts : \A k \in Lefts : l <= k
  BY <1>2, SmallestNumber
<1> DEFINE U == {y \in T : y.links = l}
           Lengths == {Len(x.rest) : x \in U}
<1>4. Lengths \in SUBSET Nat /\ Lengths # {}
  <2>1. PICK x \in T : x.links = l
    BY <1>3
  <2>2. x \in U
    BY <2>1
  <2>3. \A y \in U : Len(y.rest) \in Nat
    BY <1>1
  <2> HIDE DEF U
  <2>4. Lengths \in SUBSET Nat
    BY <2>3
  <2>5. Len(x.rest) \in Lengths
    BY <2>2
  <2>6. QED
    BY <2>4, <2>5
<1>5. PICK n \in Lengths : \A k \in Lengths : n <= k
  BY <1>4, SmallestNumber
<1>6. PICK x \in T : x.links = l /\ Len(x.rest) = n
  BY <1>5
<1>7. \A y \in T : l <= y.links /\ (y.links = l => n <= Len(y.rest))
  BY <1>3, <1>5
<1>8. \A y \in Walking : Below(y, x) => y \in S
  BY <1>1, <1>6, <1>7 DEF Below
<1>9. QED
  BY <1>6, <1>8

Nodes == [type : {"file", "dir", "link"}, to : Seq(Names)]

IsTree(t) == DOMAIN t \subseteq Seq(Names) \ {<<>>} /\ t \in [DOMAIN t -> Nodes]

\* A walk follows the link in the last place, or does not
Stat == TRUE
Lstat == FALSE
Modes == {Stat, Lstat}

\* Where a walk that goes on comes next
Next1(x) == Append(x.at, Head(x.rest))

\* It follows a link
Turns(t, f, x) == t[Next1(x)].type = "link" /\ (Len(x.rest) = 1 => f = Stat)

Ends(t, f, x) ==
  \/ x.rest = <<>> \/ ~IsDir(t, x.at) \/ Next1(x) \notin DOMAIN t
  \/ Turns(t, f, x) /\ x.links = 0

Value(x) == IF x.rest = <<>> THEN x.at ELSE Nowhere

Succ(t, f, x) ==
  IF Turns(t, f, x) THEN On(x.links - 1, <<>>, t[Next1(x)].to \o Tail(x.rest))
  ELSE On(x.links, Next1(x), Tail(x.rest))

LEMMA SuccBelow ==
  ASSUME TreeAssumption, NEW t, IsTree(t), NEW f \in Modes, NEW x \in Walking, ~Ends(t, f, x)
  PROVE  Succ(t, f, x) \in Walking /\ Below(Succ(t, f, x), x)
<1> DEFINE next == Next1(x)
<1>1. x.links \in 0 .. MaxLinks /\ x.links \in Nat /\ x.at \in Seq(Names) /\ x.rest \in Seq(Names)
  BY DEF Walking, TreeAssumption
<1>2. x.rest # <<>> /\ next \in DOMAIN t /\ (Turns(t, f, x) => x.links # 0)
  BY DEF Ends
<1>3. Head(x.rest) \in Names /\ Tail(x.rest) \in Seq(Names) /\ Len(Tail(x.rest)) < Len(x.rest)
  BY <1>1, <1>2
<1>4. next \in Seq(Names)
  BY <1>1, <1>3 DEF Next1
<1>5. t[next].to \in Seq(Names) /\ <<>> \in Seq(Names)
  BY <1>2 DEF IsTree, Nodes
<1>6. t[next].to \o Tail(x.rest) \in Seq(Names)
  BY <1>3, <1>5
<1>7. CASE ~Turns(t, f, x)
  <2>1. Succ(t, f, x) = On(x.links, next, Tail(x.rest))
    BY <1>7 DEF Succ
  <2> HIDE DEF next
  <2>2. QED
    BY ONLY <1>1, <1>3, <1>4, <2>1 DEF Walking, Below, On
<1>8. CASE Turns(t, f, x)
  <2>1. Succ(t, f, x) = On(x.links - 1, <<>>, t[next].to \o Tail(x.rest))
    BY <1>8 DEF Succ
  <2>2. x.links - 1 \in 0 .. MaxLinks /\ x.links - 1 < x.links
    BY <1>1, <1>2, <1>8 DEF TreeAssumption
  <2> DEFINE rest == t[next].to \o Tail(x.rest)
  <2> HIDE DEF next, rest
  <2>3. rest \in Seq(Names)
    BY <1>6 DEF rest
  <2>4. QED
    BY ONLY <1>1, <1>5, <2>1, <2>2, <2>3 DEF Walking, Below, On, rest
<1>9. QED
  BY <1>7, <1>8

\* The walk that the recursion describes exists: the values that the ends of
\* walks have, and that a state has from its successor, are one for each state.
LEMMA WalksDo ==
  ASSUME TreeAssumption, NEW t, IsTree(t), NEW f \in Modes, NEW x \in Walking
  PROVE  Walks(t, f)[x] = IF Ends(t, f, x) THEN Value(x) ELSE Walks(t, f)[Succ(t, f, x)]
<1> DEFINE Places == Seq(Names) \cup {Nowhere}
           Closed(G) == /\ \A y \in Walking : Ends(t, f, y) => <<y, Value(y)>> \in G
                        /\ \A y \in Walking : ~Ends(t, f, y) =>
                             \A v \in Places : <<Succ(t, f, y), v>> \in G => <<y, v>> \in G
           All == Walking \X Places
           Least == {g \in All : \A G \in SUBSET All : Closed(G) => g \in G}
           Good == {y \in Walking : \E v \in Places : \A w \in Places : <<y, w>> \in Least <=> w = v}
<1>1. \A y \in Walking : Value(y) \in Places
  BY DEF Value, Walking
<1>2. \A y \in Walking : ~Ends(t, f, y) => Succ(t, f, y) \in Walking /\ Below(Succ(t, f, y), y)
  BY SuccBelow
<1>3. Closed(Least)
  BY <1>1, <1>2
<1>4. Least \in SUBSET All /\ \A G \in SUBSET All : Closed(G) => Least \subseteq G
  OBVIOUS
<1> HIDE DEF Least
<1>5. ASSUME NEW y \in Walking, \A z \in Walking : Below(z, y) => z \in Good
      PROVE  y \in Good
  <2>1. CASE Ends(t, f, y)
    <3> DEFINE G == {g \in Least : ~(g[1] = y /\ g[2] # Value(y))}
    <3>1. \A z \in Walking : Ends(t, f, z) => <<z, Value(z)>> \in G
      BY <1>3
    <3>2. ASSUME NEW z \in Walking, ~Ends(t, f, z), NEW v \in Places, <<Succ(t, f, z), v>> \in G PROVE <<z, v>> \in G
      BY <1>3, <2>1, <3>2
    <3>3. Least \subseteq G
      BY <1>4, <3>1, <3>2
    <3>4. \A w \in Places : <<y, w>> \in Least => w = Value(y)
      BY <3>3
    <3>5. QED
      BY <1>1, <1>3, <2>1, <3>4
  <2>2. CASE ~Ends(t, f, y)
    <3>1. Succ(t, f, y) \in Good
      BY <1>2, <1>5, <2>2
    <3>2. PICK u \in Places : \A w \in Places : <<Succ(t, f, y), w>> \in Least <=> w = u
      BY <3>1
    <3> DEFINE G == {g \in Least : ~(g[1] = y /\ g[2] # u)}
    <3>3. \A z \in Walking : Ends(t, f, z) => <<z, Value(z)>> \in G
      BY <1>3, <2>2
    <3>4. ASSUME NEW z \in Walking, ~Ends(t, f, z), NEW v \in Places, <<Succ(t, f, z), v>> \in G PROVE <<z, v>> \in G
      BY <1>3, <3>2, <3>4
    <3>5. Least \subseteq G
      BY <1>4, <3>3, <3>4
    <3>6. \A w \in Places : <<y, w>> \in Least => w = u
      BY <3>5
    <3>7. QED
      BY <1>3, <2>2, <3>2, <3>6
  <2>3. QED
    BY <2>1, <2>2
<1>6. \A y \in Walking : y \in Good
  <2> HIDE DEF Good
  <2>1. QED
    BY <1>5, WalkInduction
<1> DEFINE C(y) == CHOOSE v \in Places : <<y, v>> \in Least
           g == [y \in Walking |-> C(y)]
<1>7. \A y \in Walking : g[y] \in Places /\ <<y, g[y]>> \in Least /\ \A w \in Places : <<y, w>> \in Least => w = g[y]
  BY <1>6
<1>8. \A y \in Walking : g[y] = IF Ends(t, f, y) THEN Value(y) ELSE g[Succ(t, f, y)]
  BY <1>1, <1>2, <1>3, <1>7
<1> DEFINE Body(w) == [y \in Walking |-> IF Ends(t, f, y) THEN Value(y) ELSE w[Succ(t, f, y)]]
           Text(w) ==
             [y \in Walking |->
                IF y.rest = <<>> THEN y.at
                ELSE LET next == Append(y.at, Head(y.rest))
                     IN  IF ~IsDir(t, y.at) \/ next \notin DOMAIN t THEN Nowhere
                         ELSE IF t[next].type # "link" \/ (Len(y.rest) = 1 /\ ~f)
                         THEN w[On(y.links, next, Tail(y.rest))]
                         ELSE IF y.links = 0 THEN Nowhere
                         ELSE w[On(y.links - 1, <<>>, t[next].to \o Tail(y.rest))]]
<1>9. \A y \in Walking : C(y) = IF Ends(t, f, y) THEN Value(y) ELSE g[Succ(t, f, y)]
  BY <1>8
<1> HIDE DEF C
<1>10. g = Body(g)
  BY <1>9
<1> HIDE DEF g
<1>11. \A w : Text(w) = Body(w)
  <2> SUFFICES ASSUME NEW w, NEW y \in Walking PROVE Text(w)[y] = Body(w)[y]
    OBVIOUS
  <2>1. QED
    BY DEF Ends, Value, Succ, Turns, Next1, Modes, Stat, Lstat
<1> HIDE DEF Body
<1>12. \E w : w = Text(w)
  BY <1>10, <1>11
<1>13. Walks(t, f) = CHOOSE w : w = Text(w)
  BY DEF Walks
<1> HIDE DEF Text
<1>14. Walks(t, f) = Body(Walks(t, f))
  BY <1>11, <1>12, <1>13
<1>15. QED
  BY <1>14 DEF Body

Led(t, f, x) == Walks(t, f)[x]
Places(t) == DOMAIN t \cup {<<>>}

LEMMA NowhereIsNone == TreeAssumption => Nowhere \notin Seq(Names)
<1> SUFFICES ASSUME TreeAssumption, Nowhere \in Seq(Names) PROVE FALSE
  OBVIOUS
<1>1. Nowhere[1] \in Names
  BY DEF Nowhere
<1>2. QED
  BY <1>1 DEF Nowhere, TreeAssumption

\* A walk, and the one with more of a path left to go
LEMMA LedBy ==
  ASSUME TreeAssumption, NEW t, IsTree(t), NEW f \in Modes, NEW x \in Walking
  PROVE  /\ Ends(t, f, x) => Led(t, f, x) = Value(x)
         /\ ~Ends(t, f, x) => /\ Led(t, f, x) = Led(t, f, Succ(t, f, x))
                              /\ Succ(t, f, x) \in Walking /\ Below(Succ(t, f, x), x)
  BY WalksDo, SuccBelow DEF Led

LEMMA WalkingParts ==
  ASSUME TreeAssumption, NEW x \in Walking
  PROVE  /\ x.links \in 0 .. MaxLinks /\ x.links \in Nat /\ x.at \in Seq(Names) /\ x.rest \in Seq(Names)
         /\ x = On(x.links, x.at, x.rest)
         /\ x.rest # <<>> => /\ Head(x.rest) \in Names /\ Tail(x.rest) \in Seq(Names)
                             /\ Next1(x) \in Seq(Names) /\ Next1(x) # <<>>
  BY DEF Walking, TreeAssumption, On, Next1

LEMMA OnWalking ==
  ASSUME NEW l \in 0 .. MaxLinks, NEW a \in Seq(Names), NEW r \in Seq(Names)
  PROVE  On(l, a, r) \in Walking /\ On(l, a, r).links = l /\ On(l, a, r).at = a /\ On(l, a, r).rest = r
  BY DEF On, Walking

LEMMA LedIsPath ==
  ASSUME TreeAssumption, NEW t, IsTree(t), NEW f \in Modes, NEW x \in Walking
  PROVE  Led(t, f, x) \in Seq(Names) \cup {Nowhere}
<1> DEFINE S == {z \in Walking : Led(t, f, z) \in Seq(Names) \cup {Nowhere}}
<1>1. ASSUME NEW z \in Walking, \A y \in Walking : Below(y, z) => y \in S PROVE z \in S
  <2>1. CASE Ends(t, f, z)
    BY <2>1, LedBy, WalkingParts DEF Value
  <2>2. CASE ~Ends(t, f, z)
    BY <1>1, <2>2, LedBy
  <2>3. QED
    BY <2>1, <2>2
<1> HIDE DEF S
<1>2. x \in S
  BY <1>1, WalkInduction
<1>3. QED
  BY <1>2 DEF S

\* A walk ends where it started or in what the tree holds.
LEMMA LedInTree ==
  ASSUME TreeAssumption, NEW t, IsTree(t), NEW f \in Modes, NEW x \in Walking, x.at \in Places(t)
  PROVE  Led(t, f, x) \in Places(t) \cup {Nowhere}
<1> DEFINE S == {z \in Walking : z.at \in Places(t) => Led(t, f, z) \in Places(t) \cup {Nowhere}}
<1>1. ASSUME NEW z \in Walking, \A y \in Walking : Below(y, z) => y \in S PROVE z \in S
  <2>1. CASE Ends(t, f, z)
    BY <2>1, LedBy DEF Value
  <2>2. CASE ~Ends(t, f, z)
    <3>1. Succ(t, f, z) \in S /\ Led(t, f, z) = Led(t, f, Succ(t, f, z))
      BY <1>1, <2>2, LedBy
    <3>2. Succ(t, f, z).at \in Places(t)
      BY <2>2 DEF Succ, On, Ends, Places
    <3>3. QED
      BY <3>1, <3>2
  <2>3. QED
    BY <2>1, <2>2
<1> HIDE DEF S
<1>2. x \in S
  BY <1>1, WalkInduction
<1>3. QED
  BY <1>2 DEF S

\* More links to follow lead to the same place.
LEMMA MoreLinks ==
  ASSUME TreeAssumption, NEW t, IsTree(t), NEW f \in Modes, NEW x \in Walking, Led(t, f, x) # Nowhere,
         NEW m \in x.links .. MaxLinks
  PROVE  Led(t, f, On(m, x.at, x.rest)) = Led(t, f, x)
<1> DEFINE S == {z \in Walking : Led(t, f, z) # Nowhere =>
                   \A k \in z.links .. MaxLinks : Led(t, f, On(k, z.at, z.rest)) = Led(t, f, z)}
<1>1. ASSUME NEW z \in Walking, \A y \in Walking : Below(y, z) => y \in S PROVE z \in S
  <2> SUFFICES ASSUME Led(t, f, z) # Nowhere, NEW k \in z.links .. MaxLinks
               PROVE  Led(t, f, On(k, z.at, z.rest)) = Led(t, f, z)
    OBVIOUS
  <2> DEFINE w == On(k, z.at, z.rest)
  <2>1. z.links \in Nat /\ k \in Nat /\ k \in 0 .. MaxLinks /\ z.links <= k
    BY WalkingParts DEF TreeAssumption
  <2>2. w \in Walking /\ w.links = k /\ w.at = z.at /\ w.rest = z.rest
    BY <2>1, WalkingParts, OnWalking
  <2> HIDE DEF w
  <2>3. Next1(w) = Next1(z) /\ (Turns(t, f, w) <=> Turns(t, f, z))
    BY <2>2 DEF Next1, Turns
  <2>4. CASE z.rest = <<>>
    BY <2>2, <2>4, LedBy DEF Ends, Value, w
  <2>5. CASE z.rest # <<>>
    <3>1. ~Ends(t, f, z)
      BY <2>5, LedBy DEF Value
    <3>2. ~Ends(t, f, w)
      BY <2>1, <2>2, <2>3, <3>1 DEF Ends
    <3>3. Succ(t, f, z) \in S /\ Led(t, f, z) = Led(t, f, Succ(t, f, z)) /\ Led(t, f, w) = Led(t, f, Succ(t, f, w))
      BY <1>1, <2>2, <3>1, <3>2, LedBy
    <3>4. Succ(t, f, w) = On(Succ(t, f, w).links, Succ(t, f, z).at, Succ(t, f, z).rest)
      BY <2>2, <2>3 DEF Succ, On
    <3>5. Succ(t, f, w).links \in Succ(t, f, z).links .. MaxLinks
      <4>1. CASE Turns(t, f, z)
        <5>1. z.links # 0
          BY <3>1, <4>1 DEF Ends
        <5>2. Succ(t, f, w).links = k - 1 /\ Succ(t, f, z).links = z.links - 1
          BY <2>2, <2>3, <4>1 DEF Succ, On
        <5>3. QED
          BY <2>1, <5>1, <5>2 DEF TreeAssumption
      <4>2. CASE ~Turns(t, f, z)
        <5>1. Succ(t, f, w).links = k /\ Succ(t, f, z).links = z.links
          BY <2>2, <2>3, <4>2 DEF Succ, On
        <5>2. QED
          BY <2>1, <5>1
      <4>3. QED
        BY <4>1, <4>2
    <3>6. QED
      BY <3>3, <3>4, <3>5 DEF w
  <2>6. QED
    BY <2>4, <2>5
<1> HIDE DEF S
<1>2. x \in S
  BY <1>1, WalkInduction
<1>3. QED
  BY <1>2 DEF S

-----------------------------------------------------------------------------
(* A path and what follows it *)

Further(x, s) == On(x.links, x.at, x.rest \o s)

LEMMA OneName ==
  ASSUME NEW r \in Seq(Names), Len(r) = 1
  PROVE  Tail(r) = <<>> /\ r = <<Head(r)>>
<1>1. r # <<>> /\ r[1] \in Names /\ DOMAIN r = {1}
  OBVIOUS
<1>2. Tail(r) \in Seq(Names) /\ Len(Tail(r)) = 0 /\ Head(r) = r[1]
  BY <1>1, HeadTailProperties
<1>3. Tail(r) = <<>>
  BY <1>2, EmptySeq
<1>4. r = <<r[1]>>
  BY <1>1
<1>5. QED
  BY <1>2, <1>3, <1>4

LEMMA Joined ==
  ASSUME NEW r \in Seq(Names), NEW s \in Seq(Names)
  PROVE  /\ r \o s \in Seq(Names) /\ Len(r \o s) = Len(r) + Len(s)
         /\ r \o <<>> = r /\ <<>> \o s = s
         /\ r # <<>> => r \o s # <<>> /\ Head(r \o s) = Head(r) /\ Tail(r \o s) = Tail(r) \o s
         /\ \A q \in Seq(Names) : (q \o r) \o s = q \o (r \o s)
<1>1. r \o s \in Seq(Names) /\ Len(r \o s) = Len(r) + Len(s)
  BY ConcatProperties
<1>2. r \o <<>> = r /\ <<>> \o s = s
  BY ConcatEmptySeq
<1>3. \A q \in Seq(Names) : (q \o r) \o s = q \o (r \o s)
  BY ConcatAssociative
<1>4. ASSUME r # <<>> PROVE r \o s # <<>> /\ Head(r \o s) = Head(r) /\ Tail(r \o s) = Tail(r) \o s
  <2>1. Len(r) \in Nat \ {0} /\ Len(s) \in Nat /\ r \in Seq(Names) \ {<<>>}
    BY <1>4
  <2>2. r \o s # <<>>
    BY <1>1, <2>1
  <2>3. Head(r \o s) = Head(r)
    BY <1>1, <2>1, <2>2
  <2>4. Tail(r) \in Seq(Names) /\ Len(Tail(r)) = Len(r) - 1 /\ Tail(r \o s) \in Seq(Names)
        /\ Len(Tail(r \o s)) = Len(r) + Len(s) - 1
    BY <1>1, <2>1, <2>2
  <2>5. Tail(r) \o s \in Seq(Names) /\ Len(Tail(r) \o s) = Len(r) - 1 + Len(s)
    BY <2>1, <2>4
  <2>6. \A i \in 1 .. Len(r) + Len(s) - 1 : Tail(r \o s)[i] = (Tail(r) \o s)[i]
    <3> SUFFICES ASSUME NEW i \in 1 .. Len(r) + Len(s) - 1 PROVE Tail(r \o s)[i] = (Tail(r) \o s)[i]
      OBVIOUS
    <3>1. Tail(r \o s)[i] = (r \o s)[i + 1]
      BY <1>1, <2>1, <2>2, <2>4
    <3>2. i + 1 \in 1 .. Len(r) + Len(s)
      BY <2>1
    <3>3. (r \o s)[i + 1] = IF i + 1 <= Len(r) THEN r[i + 1] ELSE s[i + 1 - Len(r)]
      BY <2>1, <3>2, ConcatProperties
    <3>4. (Tail(r) \o s)[i] = IF i <= Len(r) - 1 THEN Tail(r)[i] ELSE s[i - (Len(r) - 1)]
      BY <2>1, <2>4, ConcatProperties
    <3>5. i <= Len(r) - 1 => Tail(r)[i] = r[i + 1]
      BY <2>1, <2>4
    <3>6. i + 1 - Len(r) = i - (Len(r) - 1) /\ (i + 1 <= Len(r) <=> i <= Len(r) - 1)
      BY <2>1
    <3>7. QED
      BY <3>1, <3>3, <3>4, <3>5, <3>6
  <2>7. Len(Tail(r \o s)) = Len(Tail(r) \o s)
    BY <2>1, <2>4, <2>5
  <2>8. QED
    BY <2>2, <2>3, <2>4, <2>5, <2>6, <2>7
<1>5. QED
  BY <1>1, <1>2, <1>3, <1>4

\* As long as names of its own are left, the longer path is walked as the shorter
\* one is with its last link followed.
LEMMA FurtherStep ==
  ASSUME TreeAssumption, NEW t, IsTree(t), NEW f \in Modes, NEW x \in Walking, NEW s \in Seq(Names),
         f = Stat \/ s # <<>>, x.rest # <<>>
  PROVE  /\ Further(x, s) \in Walking
         /\ Ends(t, f, Further(x, s)) <=> Ends(t, Stat, x)
         /\ Ends(t, Stat, x) => Led(t, f, Further(x, s)) = Nowhere /\ Led(t, Stat, x) = Nowhere
         /\ ~Ends(t, Stat, x) => Succ(t, f, Further(x, s)) = Further(Succ(t, Stat, x), s)
<1> DEFINE y == Further(x, s)
           r == x.rest \o s
<1>10. x.links \in 0 .. MaxLinks /\ x.at \in Seq(Names) /\ x.rest \in Seq(Names)
  BY WalkingParts
<1>11. /\ r \in Seq(Names) /\ r # <<>> /\ Head(r) = Head(x.rest) /\ Tail(r) = Tail(x.rest) \o s
       /\ Len(r) = Len(x.rest) + Len(s)
  <2> DEFINE q == x.rest
  <2>1. q \in Seq(Names) /\ q # <<>> /\ s \in Seq(Names)
    BY <1>10
  <2> HIDE DEF q
  <2>2. /\ q \o s \in Seq(Names) /\ q \o s # <<>> /\ Head(q \o s) = Head(q)
        /\ Tail(q \o s) = Tail(q) \o s /\ Len(q \o s) = Len(q) + Len(s)
    BY ONLY <2>1, Joined
  <2>3. QED
    BY ONLY <2>2 DEF q, r
<1>1. y \in Walking /\ y.links = x.links /\ y.at = x.at /\ y.rest = r
  <2> HIDE DEF r
  <2>1. On(x.links, x.at, r) \in Walking
    BY <1>10, <1>11, OnWalking
  <2>2. y = On(x.links, x.at, r)
    BY DEF Further, r
  <2>3. QED
    BY <2>1, <2>2 DEF On
<1>2. y.rest # <<>> /\ Head(y.rest) = Head(x.rest) /\ Tail(y.rest) = Tail(x.rest) \o s
      /\ Len(y.rest) = Len(x.rest) + Len(s)
  BY <1>1, <1>11
<1> HIDE DEF r
<1>3. Next1(y) = Next1(x)
  BY <1>1, <1>2 DEF Next1
<1>4. s # <<>> => Len(y.rest) # 1
  BY <1>2, WalkingParts
<1>5. Turns(t, f, y) <=> Turns(t, Stat, x)
  BY <1>3, <1>4 DEF Turns
<1> HIDE DEF y
<1>6. Ends(t, f, y) <=> Ends(t, Stat, x)
  BY <1>1, <1>2, <1>3, <1>5 DEF Ends
<1>7. Ends(t, Stat, x) => Led(t, f, y) = Nowhere /\ Led(t, Stat, x) = Nowhere
  <2>1. Stat \in Modes
    BY DEF Modes
  <2>2. QED
    BY <1>1, <1>2, <1>6, <2>1, LedBy DEF Value
<1>8. ASSUME ~Ends(t, Stat, x) PROVE Succ(t, f, y) = Further(Succ(t, Stat, x), s)
  <2>1. CASE Turns(t, Stat, x)
    <3>1. Next1(x) \in DOMAIN t
      BY <1>8 DEF Ends
    <3>2. t[Next1(x)].to \in Seq(Names) /\ Tail(x.rest) \in Seq(Names)
      BY <3>1, WalkingParts DEF IsTree, Nodes
    <3>3. t[Next1(x)].to \o (Tail(x.rest) \o s) = (t[Next1(x)].to \o Tail(x.rest)) \o s
      <4> DEFINE a == t[Next1(x)].to
                 b == Tail(x.rest)
      <4>1. a \in Seq(Names) /\ b \in Seq(Names)
        BY <3>2
      <4> HIDE DEF a, b
      <4>2. (a \o b) \o s = a \o (b \o s)
        BY <4>1, ConcatAssociative
      <4>3. QED
        BY <4>2 DEF a, b
    <3>4. QED
      BY <1>1, <1>2, <1>3, <1>5, <2>1, <3>3 DEF Succ, Further, On
  <2>2. CASE ~Turns(t, Stat, x)
    BY <1>1, <1>2, <1>3, <1>5, <2>2 DEF Succ, Further, On
  <2>3. QED
    BY <2>1, <2>2
<1>9. QED
  BY <1>1, <1>6, <1>7, <1>8 DEF y

\* A path with more after it is walked to where it leads itself, its last link
\* followed, and on from there.
LEMMA Splits ==
  ASSUME TreeAssumption, NEW t, IsTree(t), NEW f \in Modes, NEW x \in Walking,
         NEW s \in Seq(Names), f = Stat \/ s # <<>>
  PROVE  /\ Led(t, Stat, x) = Nowhere => Led(t, f, Further(x, s)) = Nowhere \/ x.rest = <<>>
         /\ Led(t, Stat, x) # Nowhere =>
              \E k \in 0 .. x.links : Led(t, f, Further(x, s)) = Led(t, f, On(k, Led(t, Stat, x), s))
<1> DEFINE Holds(z) ==
             /\ Led(t, Stat, z) = Nowhere => Led(t, f, Further(z, s)) = Nowhere \/ z.rest = <<>>
             /\ Led(t, Stat, z) # Nowhere =>
                  \E k \in 0 .. z.links : Led(t, f, Further(z, s)) = Led(t, f, On(k, Led(t, Stat, z), s))
           S == {z \in Walking : Holds(z)}
<1>0. Stat \in Modes
  BY DEF Modes
<1>1. ASSUME NEW z \in Walking, \A y \in Walking : Below(y, z) => y \in S PROVE z \in S
  <2>1. z.links \in Nat /\ z.links \in 0 .. z.links
    BY WalkingParts
  <2>2. CASE z.rest = <<>>
    <3>1. Led(t, Stat, z) = z.at
      BY <2>2, <1>0, LedBy DEF Ends, Value
    <3>2. Further(z, s) = On(z.links, z.at, s)
      BY <2>2, Joined DEF Further
    <3>3. QED
      BY <2>1, <2>2, <3>1, <3>2
  <2>3. CASE z.rest # <<>> /\ Ends(t, Stat, z)
    <3>1. Led(t, f, Further(z, s)) = Nowhere /\ Led(t, Stat, z) = Nowhere
      BY <2>3, FurtherStep
    <3>2. QED
      BY <3>1
  <2>4. CASE z.rest # <<>> /\ ~Ends(t, Stat, z)
    <3> DEFINE y == Succ(t, Stat, z)
    <3>1. y \in Walking /\ Below(y, z) /\ Led(t, Stat, z) = Led(t, Stat, y) /\ y \in S
      BY <1>1, <2>4, <1>0, LedBy
    <3>2. Led(t, f, Further(z, s)) = Led(t, f, Further(y, s))
      <4> DEFINE w == Further(z, s)
      <4>1. w \in Walking
        BY <2>4, FurtherStep
      <4>2. ~Ends(t, f, w)
        BY <2>4, FurtherStep
      <4>3. Succ(t, f, w) = Further(y, s)
        BY <2>4, FurtherStep
      <4> HIDE DEF w, y
      <4>4. Led(t, f, w) = Led(t, f, Succ(t, f, w))
        BY <4>1, <4>2, <1>0, LedBy
      <4>5. QED
        BY <4>3, <4>4 DEF w
    <3>3. Led(t, Stat, y) = Nowhere => Led(t, f, Further(y, s)) = Nowhere
      <4>1. y.rest = <<>> => Led(t, Stat, y) = y.at /\ y.at \in Seq(Names)
        BY <3>1, <1>0, LedBy, WalkingParts DEF Ends, Value
      <4>2. QED
        BY <3>1, <4>1, NowhereIsNone
    <3>4. y.links \in Nat /\ y.links <= z.links
      <4>1. y.links \in Nat
        BY <3>1, WalkingParts
      <4> HIDE DEF y
      <4>2. QED
        BY <2>1, <3>1, <4>1 DEF Below
    <3>5. \A k \in 0 .. y.links : k \in 0 .. z.links
      <4> HIDE DEF y
      <4>1. QED
        BY <2>1, <3>4
    <3> HIDE DEF y
    <3>6. QED
      BY <3>1, <3>2, <3>3, <3>5
  <2>5. QED
    BY <2>2, <2>3, <2>4
<1> HIDE DEF S
<1>2. x \in S
  BY <1>1, WalkInduction
<1>3. QED
  BY <1>2 DEF S

\* A path with more after it leads nowhere, if it does not lead to a directory.
LEMMA NotDirectory ==
  ASSUME TreeAssumption, NEW t, IsTree(t), NEW f \in Modes, NEW x \in Walking,
         NEW s \in Seq(Names), s # <<>>,
         Led(t, Stat, x) = Nowhere \/ ~IsDir(t, Led(t, Stat, x))
  PROVE  Led(t, f, Further(x, s)) = Nowhere
<1>0. Stat \in Modes
  BY DEF Modes
<1>1. CASE Led(t, Stat, x) = Nowhere
  <2>1. x.rest # <<>>
    <3>1. x.rest = <<>> => Led(t, Stat, x) = x.at /\ x.at \in Seq(Names)
      BY <1>0, LedBy, WalkingParts DEF Ends, Value
    <3>2. QED
      BY <1>1, <3>1, NowhereIsNone
  <2>2. QED
    BY <1>1, <2>1, Splits
<1>2. CASE Led(t, Stat, x) # Nowhere
  <2> DEFINE d == Led(t, Stat, x)
  <2>1. PICK k \in 0 .. x.links : Led(t, f, Further(x, s)) = Led(t, f, On(k, d, s))
    BY <1>2, Splits
  <2>2. d \in Seq(Names) /\ ~IsDir(t, d)
    BY <1>0, <1>2, LedIsPath
  <2>3. k \in 0 .. MaxLinks
    BY WalkingParts DEF TreeAssumption
  <2> DEFINE y == On(k, d, s)
  <2> HIDE DEF d, y
  <2>4. y \in Walking /\ y.at = d /\ y.rest = s
    BY <2>2, <2>3, OnWalking DEF y
  <2>5. Led(t, f, y) = Nowhere
    BY <2>2, <2>4, LedBy DEF Ends, Value
  <2>6. QED
    BY <2>1, <2>5 DEF y
<1>3. QED
  BY <1>1, <1>2

\* A path, with and without its last link followed, leads to the same place, which
\* is no link, or to a link.
NoLink(t, a) == a \in DOMAIN t => t[a].type # "link"

LEMMA EntryOrTarget ==
  ASSUME TreeAssumption, NEW t, IsTree(t), NEW x \in Walking
  PROVE  /\ Led(t, Lstat, x) = Nowhere => Led(t, Stat, x) = Nowhere
         /\ Led(t, Lstat, x) # Nowhere /\ NoLink(t, Led(t, Lstat, x)) => Led(t, Stat, x) = Led(t, Lstat, x)
         /\ Led(t, Stat, x) # Nowhere /\ NoLink(t, x.at) => NoLink(t, Led(t, Stat, x))
<1>0. Stat \in Modes /\ Lstat \in Modes /\ Stat # Lstat
  BY DEF Modes, Stat, Lstat
<1> DEFINE Holds(z) ==
             /\ Led(t, Lstat, z) = Nowhere => Led(t, Stat, z) = Nowhere
             /\ Led(t, Lstat, z) # Nowhere /\ NoLink(t, Led(t, Lstat, z)) => Led(t, Stat, z) = Led(t, Lstat, z)
             /\ Led(t, Stat, z) # Nowhere /\ NoLink(t, z.at) => NoLink(t, Led(t, Stat, z))
           S == {z \in Walking : Holds(z)}
<1>1. ASSUME NEW z \in Walking, \A y \in Walking : Below(y, z) => y \in S PROVE z \in S
  <2>1. CASE z.rest = <<>>
    <3>1. Led(t, Stat, z) = z.at /\ Led(t, Lstat, z) = z.at
      BY <1>0, <2>1, LedBy DEF Ends, Value
    <3>2. z.at # Nowhere
      BY WalkingParts, NowhereIsNone
    <3>3. QED
      BY <3>1, <3>2
  <2>2. CASE z.rest # <<>> /\ (Turns(t, Stat, z) <=> Turns(t, Lstat, z))
    <3>1. CASE Ends(t, Lstat, z)
      <4>1. Ends(t, Stat, z)
        BY <2>2, <3>1 DEF Ends
      <4>2. Led(t, Lstat, z) = Nowhere /\ Led(t, Stat, z) = Nowhere
        BY <1>0, <2>2, <3>1, <4>1, LedBy DEF Value
      <4>3. QED
        BY <4>2
    <3>2. CASE ~Ends(t, Lstat, z)
      <4>1. ~Ends(t, Stat, z) /\ Succ(t, Stat, z) = Succ(t, Lstat, z)
        BY <2>2, <3>2 DEF Ends, Succ
      <4> DEFINE y == Succ(t, Lstat, z)
      <4>2. y \in S /\ Led(t, Lstat, z) = Led(t, Lstat, y)
        BY <1>0, <1>1, <3>2, LedBy
      <4>3. Led(t, Stat, z) = Led(t, Stat, y)
        BY <1>0, <4>1, LedBy
      <4>4. NoLink(t, y.at)
        <5>1. <<>> \notin DOMAIN t
          BY DEF IsTree
        <5>2. QED
          BY <1>0, <2>2, <5>1 DEF Succ, On, NoLink, Turns
      <4> HIDE DEF y
      <4>5. QED
        BY <4>2, <4>3, <4>4
    <3>3. QED
      BY <3>1, <3>2
  <2>3. CASE z.rest # <<>> /\ ~(Turns(t, Stat, z) <=> Turns(t, Lstat, z))
    <3>1. Len(z.rest) = 1 /\ t[Next1(z)].type = "link" /\ Turns(t, Stat, z) /\ ~Turns(t, Lstat, z)
      BY <1>0, <2>3 DEF Turns
    <3>2. CASE Ends(t, Lstat, z)
      <4>1. Ends(t, Stat, z)
        BY <3>1, <3>2 DEF Ends
      <4>2. Led(t, Lstat, z) = Nowhere /\ Led(t, Stat, z) = Nowhere
        BY <1>0, <2>3, <3>2, <4>1, LedBy DEF Value
      <4>3. QED
        BY <4>2
    <3>3. CASE ~Ends(t, Lstat, z)
      <4> DEFINE y == Succ(t, Lstat, z)
      <4>1. y = On(z.links, Next1(z), Tail(z.rest)) /\ y \in Walking /\ Led(t, Lstat, z) = Led(t, Lstat, y)
        BY <1>0, <3>1, <3>3, LedBy DEF Succ
      <4>2. y.at = Next1(z) /\ y.rest = <<>>
        <5>1. z.rest \in Seq(Names)
          BY WalkingParts
        <5>2. Tail(z.rest) = <<>>
          BY <3>1, <5>1, OneName
        <5>3. QED
          BY <4>1, <5>2 DEF On
      <4> HIDE DEF y
      <4>3. Led(t, Lstat, y) = Next1(z)
        BY <1>0, <4>1, <4>2, LedBy DEF Ends, Value
      <4>4. Led(t, Lstat, z) = Next1(z) /\ Next1(z) \in DOMAIN t /\ Next1(z) # Nowhere
        BY <2>3, <3>3, <4>1, <4>3, WalkingParts, NowhereIsNone DEF Ends
      <4>5. ~NoLink(t, Led(t, Lstat, z))
        BY <3>1, <4>4 DEF NoLink
      <4>6. Led(t, Stat, z) # Nowhere /\ NoLink(t, z.at) => NoLink(t, Led(t, Stat, z))
        <5>1. CASE Ends(t, Stat, z)
          BY <1>0, <2>3, <5>1, LedBy DEF Value
        <5>2. CASE ~Ends(t, Stat, z)
          <6> DEFINE w == Succ(t, Stat, z)
          <6>1. w \in S /\ Led(t, Stat, z) = Led(t, Stat, w)
            BY <1>0, <1>1, <5>2, LedBy
          <6>2. NoLink(t, w.at)
            BY <3>1 DEF Succ, On, NoLink, IsTree
          <6> HIDE DEF w
          <6>3. QED
            BY <6>1, <6>2
        <5>3. QED
          BY <5>1, <5>2
      <4>7. QED
        BY <4>4, <4>5, <4>6
    <3>4. QED
      BY <3>2, <3>3
  <2>4. QED
    BY <2>1, <2>2, <2>3
<1> HIDE DEF S
<1>2. x \in S
  BY <1>1, WalkInduction
<1>3. QED
  BY <1>2 DEF S

\* A path whose last place is a link, with more after it, is walked as what the
\* link leads to is, with at least one link less to follow.
LEMMA LinkWay ==
  ASSUME TreeAssumption, NEW t, IsTree(t), NEW f \in Modes, NEW x \in Walking,
         NEW s \in Seq(Names), f = Stat \/ s # <<>>, x.rest # <<>>,
         Led(t, Lstat, x) \in DOMAIN t, t[Led(t, Lstat, x)].type = "link"
  PROVE  \/ Led(t, f, Further(x, s)) = Nowhere
         \/ /\ MaxLinks - 1 \in 0 .. MaxLinks
            /\ Led(t, f, Further(x, s)) = Led(t, f, On(MaxLinks - 1, <<>>, t[Led(t, Lstat, x)].to \o s))
<1>0. Stat \in Modes /\ Lstat \in Modes /\ Stat # Lstat
  BY DEF Modes, Stat, Lstat
<1> DEFINE y == Led(t, Lstat, x)
           Way == On(MaxLinks - 1, <<>>, t[y].to \o s)
           Holds(z) == z.rest # <<>> /\ Led(t, Lstat, z) = y =>
             Led(t, f, Further(z, s)) = Nowhere \/ (MaxLinks - 1 \in 0 .. MaxLinks /\ Led(t, f, Further(z, s)) = Led(t, f, Way))
           S == {z \in Walking : Holds(z)}
<1>1. /\ y \in DOMAIN t /\ t[y].type = "link" /\ t[y].to \in Seq(Names) /\ y \in Seq(Names) /\ y # <<>>
      /\ y # Nowhere
  BY NowhereIsNone DEF IsTree, Nodes
<1> HIDE DEF y, Way
<1>2. ASSUME NEW z \in Walking, \A w \in Walking : Below(w, z) => w \in S PROVE z \in S
  <2> SUFFICES ASSUME z.rest # <<>>, Led(t, Lstat, z) = y PROVE Holds(z)
    OBVIOUS
  <2>1. ~Ends(t, Lstat, z)
    BY <1>0, <1>1, LedBy DEF Value
  <2> DEFINE w == Succ(t, Lstat, z)
             u == Succ(t, Stat, z)
  <2>2. w \in S /\ w \in Walking /\ Led(t, Lstat, w) = y
    BY <1>0, <1>2, <2>1, LedBy
  <2>3. Ends(t, Stat, z) => Led(t, f, Further(z, s)) = Nowhere
    BY FurtherStep
  <2>4. ~Ends(t, Stat, z) => Led(t, f, Further(z, s)) = Led(t, f, Further(u, s))
    <3> SUFFICES ASSUME ~Ends(t, Stat, z) PROVE Led(t, f, Further(z, s)) = Led(t, f, Further(u, s))
      OBVIOUS
    <3> DEFINE v == Further(z, s)
    <3>1. v \in Walking
      BY FurtherStep
    <3>2. ~Ends(t, f, v)
      BY FurtherStep
    <3>3. Succ(t, f, v) = Further(u, s)
      BY FurtherStep
    <3> HIDE DEF v, u
    <3>4. Led(t, f, v) = Led(t, f, Succ(t, f, v))
      BY <3>1, <3>2, LedBy
    <3>5. QED
      BY <3>3, <3>4 DEF v
  <2>5. CASE Turns(t, Stat, z) <=> Turns(t, Lstat, z)
    <3>1. u = w /\ ~Ends(t, Stat, z)
      BY <2>1, <2>5 DEF Ends, Succ
    <3>2. w.rest # <<>>
      <4>1. w.rest = <<>> => Led(t, Lstat, w) = w.at
        BY <1>0, <2>2, LedBy DEF Ends, Value
      <4>2. w.at = <<>> \/ (w.at = Next1(z) /\ ~Turns(t, Lstat, z))
        BY DEF Succ, On
      <4>3. ~Turns(t, Lstat, z) => t[Next1(z)].type # "link"
        BY <1>0, <2>5 DEF Turns
      <4> HIDE DEF w
      <4>4. QED
        BY <1>1, <2>2, <4>1, <4>2, <4>3
    <3> HIDE DEF w, u
    <3>3. QED
      BY <2>2, <2>4, <3>1, <3>2
  <2>6. CASE ~(Turns(t, Stat, z) <=> Turns(t, Lstat, z))
    <3>1. Len(z.rest) = 1 /\ t[Next1(z)].type = "link" /\ Turns(t, Stat, z) /\ ~Turns(t, Lstat, z)
      BY <1>0, <2>6 DEF Turns
    <3>2. Tail(z.rest) = <<>> /\ z.links \in 0 .. MaxLinks
      BY <3>1, WalkingParts, OneName
    <3>3. w.at = Next1(z) /\ w.rest = <<>>
      BY <3>1, <3>2 DEF Succ, On
    <3>4. y = Next1(z)
      BY <1>0, <2>2, <3>3, LedBy DEF Ends, Value
    <3>5. SUFFICES ASSUME ~Ends(t, Stat, z), Led(t, f, Further(z, s)) # Nowhere
                   PROVE  MaxLinks - 1 \in 0 .. MaxLinks /\ Led(t, f, Further(z, s)) = Led(t, f, Way)
      BY <2>3
    <3>6. z.links # 0
      BY <3>1, <3>5 DEF Ends
    <3>7. z.links - 1 \in 0 .. MaxLinks /\ MaxLinks - 1 \in 0 .. MaxLinks /\ MaxLinks - 1 \in z.links - 1 .. MaxLinks
      BY <3>2, <3>6 DEF TreeAssumption
    <3> DEFINE q == t[y].to \o s
               v == On(z.links - 1, <<>>, q)
    <3>8. Further(u, s) = v
      <4>1. u = On(z.links - 1, <<>>, t[y].to \o Tail(z.rest))
        BY <3>1, <3>4 DEF Succ
      <4>2. t[y].to \o Tail(z.rest) = t[y].to
        <5>1. \A a \in Seq(Names) : a \o <<>> = a
          BY ConcatEmptySeq
        <5>2. QED
          BY <1>1, <3>2, <5>1
      <4>3. u = On(z.links - 1, <<>>, t[y].to)
        BY <4>1, <4>2
      <4> HIDE DEF u
      <4>4. QED
        BY <4>3 DEF Further, On
    <3>9. q \in Seq(Names) /\ <<>> \in Seq(Names)
      BY <1>1, Joined
    <3>10. Led(t, f, v) # Nowhere /\ Led(t, f, Further(z, s)) = Led(t, f, v)
      BY <2>4, <3>5, <3>8
    <3> HIDE DEF q
    <3>11. v \in Walking /\ v.links = z.links - 1 /\ v.at = <<>> /\ v.rest = q
      <4> DEFINE k == z.links - 1
      <4>1. k \in 0 .. MaxLinks
        BY <3>7
      <4> HIDE DEF k
      <4>2. On(k, <<>>, q) \in Walking /\ On(k, <<>>, q).links = k /\ On(k, <<>>, q).at = <<>> /\ On(k, <<>>, q).rest = q
        BY <3>9, <4>1 DEF On, Walking
      <4>3. QED
        BY <4>2 DEF k
    <3> HIDE DEF v
    <3>12. Led(t, f, On(MaxLinks - 1, <<>>, q)) = Led(t, f, v)
      BY <3>7, <3>10, <3>11, MoreLinks
    <3>13. QED
      BY <3>7, <3>10, <3>12 DEF Way, q
  <2>7. QED
    BY <2>5, <2>6
<1> HIDE DEF S
<1>3. x \in S
  BY <1>2, WalkInduction
<1>4. QED
  BY <1>3 DEF S, y, Way

-----------------------------------------------------------------------------
(* Paths from the root *)

LEMMA FromRoot ==
  ASSUME TreeAssumption, NEW p \in Seq(Names)
  PROVE  /\ On(MaxLinks, <<>>, p) \in Walking /\ On(MaxLinks, <<>>, p).rest = p /\ On(MaxLinks, <<>>, p).at = <<>>
         /\ On(MaxLinks, <<>>, p).links = MaxLinks /\ MaxLinks \in Nat
         /\ \A t : Target(t, p) = Led(t, Stat, On(MaxLinks, <<>>, p))
         /\ \A t : Entry(t, p) = Led(t, Lstat, On(MaxLinks, <<>>, p))
         /\ \A s : Further(On(MaxLinks, <<>>, p), s) = On(MaxLinks, <<>>, p \o s)
<1>1. MaxLinks \in 0 .. MaxLinks /\ <<>> \in Seq(Names) /\ MaxLinks \in Nat
  BY DEF TreeAssumption
<1>2. QED
  BY <1>1, OnWalking DEF Target, Entry, Walk, Led, Stat, Lstat, Further, On

\* Entry and Target of a path
LEMMA Reached ==
  ASSUME TreeAssumption, NEW t, IsTree(t), NEW p \in Seq(Names)
  PROVE  /\ Entry(t, p) \in DOMAIN t \cup {<<>>, Nowhere} /\ Target(t, p) \in DOMAIN t \cup {<<>>, Nowhere}
         /\ Entry(t, p) = Nowhere => Target(t, p) = Nowhere
         /\ Entry(t, p) # Nowhere /\ NoLink(t, Entry(t, p)) => Target(t, p) = Entry(t, p)
         /\ Target(t, p) # Nowhere => NoLink(t, Target(t, p))
         /\ Nowhere \notin DOMAIN t \cup {<<>>}
<1> DEFINE x == On(MaxLinks, <<>>, p)
<1>1. x \in Walking /\ x.at = <<>> /\ Target(t, p) = Led(t, Stat, x) /\ Entry(t, p) = Led(t, Lstat, x)
  BY FromRoot
<1> HIDE DEF x
<1>2. Stat \in Modes /\ Lstat \in Modes
  BY DEF Modes
<1>3. Led(t, Stat, x) \in Places(t) \cup {Nowhere} /\ Led(t, Lstat, x) \in Places(t) \cup {Nowhere}
  BY <1>1, <1>2, LedInTree DEF Places
<1>4. NoLink(t, x.at)
  BY <1>1 DEF NoLink, IsTree
<1>5. Nowhere \notin DOMAIN t \cup {<<>>}
  <2>1. <<>> \in Seq(Names) /\ DOMAIN t \subseteq Seq(Names)
    BY DEF IsTree
  <2>2. QED
    BY <2>1, NowhereIsNone
<1>6. QED
  BY <1>1, <1>3, <1>4, <1>5, EntryOrTarget DEF Places

\* The entry of a path with a name more is that name in the directory of the path.
LEMMA EntryOfChild ==
  ASSUME TreeAssumption, NEW t, IsTree(t), NEW p \in Seq(Names), NEW n \in Names
  PROVE  Entry(t, Append(p, n)) =
           IF PathIsDirectory(t, p) /\ Append(Target(t, p), n) \in DOMAIN t
           THEN Append(Target(t, p), n) ELSE Nowhere
<1> DEFINE x == On(MaxLinks, <<>>, p)
           d == Target(t, p)
           s == <<n>>
<1>0. Stat \in Modes /\ Lstat \in Modes /\ Stat # Lstat
  BY DEF Modes, Stat, Lstat
<1>1. /\ s \in Seq(Names) /\ s # <<>> /\ Head(s) = n /\ Tail(s) = <<>> /\ Len(s) = 1
      /\ Append(p, n) = p \o s /\ Append(p, n) \in Seq(Names)
  OBVIOUS
<1> HIDE DEF s
<1>2. x \in Walking /\ x.links = MaxLinks /\ d = Led(t, Stat, x) /\ Entry(t, Append(p, n)) = Led(t, Lstat, Further(x, s))
  <2>1. Entry(t, Append(p, n)) = Led(t, Lstat, On(MaxLinks, <<>>, p \o s))
    BY <1>1, FromRoot
  <2>2. Further(x, s) = On(MaxLinks, <<>>, p \o s)
    BY FromRoot
  <2>3. QED
    BY <2>1, <2>2, FromRoot
<1> HIDE DEF x, d
<1>3. CASE ~PathIsDirectory(t, p)
  <2>1. d = Nowhere \/ ~IsDir(t, d)
    BY <1>3 DEF PathIsDirectory, d
  <2>2. Led(t, Lstat, Further(x, s)) = Nowhere
    BY <1>0, <1>1, <1>2, <2>1, NotDirectory
  <2>3. QED
    BY <1>2, <1>3, <2>2
<1>4. CASE PathIsDirectory(t, p)
  <2>1. d # Nowhere /\ IsDir(t, d) /\ d \in Seq(Names)
    BY <1>0, <1>2, <1>4, LedIsPath DEF PathIsDirectory, d
  <2>2. PICK k \in 0 .. x.links : Led(t, Lstat, Further(x, s)) = Led(t, Lstat, On(k, d, s))
    BY <1>0, <1>1, <1>2, <2>1, Splits
  <2> DEFINE y == On(k, d, s)
             z == On(k, Append(d, n), <<>>)
  <2>3. k \in 0 .. MaxLinks
    BY <1>2
  <2>4. Append(d, n) \in Seq(Names) /\ <<>> \in Seq(Names)
    BY <2>1
  <2>5. y \in Walking /\ y.at = d /\ y.rest = s
    BY <1>1, <2>1, <2>3, OnWalking
  <2>6. z \in Walking /\ z.at = Append(d, n) /\ z.rest = <<>>
    <3> DEFINE e == Append(d, n)
    <3>1. e \in Seq(Names)
      BY <2>4
    <3> HIDE DEF e
    <3>2. On(k, e, <<>>) \in Walking /\ On(k, e, <<>>).at = e /\ On(k, e, <<>>).rest = <<>>
      BY <2>3, <2>4, <3>1 DEF On, Walking
    <3>3. QED
      BY <3>2 DEF e
  <2>7. Next1(y) = Append(d, n) /\ y.links = k
    BY <1>1 DEF Next1, On
  <2>8. ~Turns(t, Lstat, y)
    BY <1>0, <1>1, <2>5 DEF Turns
  <2>9. Succ(t, Lstat, y) = z
    BY <1>1, <2>5, <2>7, <2>8 DEF Succ
  <2> HIDE DEF y, z
  <2>10. Led(t, Lstat, z) = Append(d, n)
    BY <1>0, <2>6, LedBy DEF Ends, Value
  <2>11. Ends(t, Lstat, y) <=> Append(d, n) \notin DOMAIN t
    BY <1>1, <2>1, <2>5, <2>7, <2>8 DEF Ends
  <2>12. Led(t, Lstat, y) = IF Append(d, n) \in DOMAIN t THEN Append(d, n) ELSE Nowhere
    BY <1>0, <1>1, <2>5, <2>9, <2>10, <2>11, LedBy DEF Value
  <2>13. QED
    BY <1>2, <1>4, <2>2, <2>12 DEF d, y
<1>5. QED
  BY <1>3, <1>4

-----------------------------------------------------------------------------
(* A tree that came of another one: some places were taken out of it, and those *)
(* of N added, which are no links and have nothing but places of N below them   *)

CameOf(t, u, N) ==
  /\ \A p \in DOMAIN t : IF p \in N THEN t[p].type # "link" ELSE p \in DOMAIN u /\ t[p] = u[p]
  /\ \A p \in N, n \in Names : Append(p, n) \in DOMAIN t => Append(p, n) \in N
  /\ <<>> \notin N

LEMMA LedAsBefore ==
  ASSUME TreeAssumption, NEW t, IsTree(t), NEW u, IsTree(u), NEW N, CameOf(t, u, N),
         NEW f \in Modes, NEW x \in Walking, x.at \notin N
  PROVE  Led(t, f, x) \in N \cup {Nowhere, Led(u, f, x)}
<1> DEFINE Holds(z) == /\ z.at \in N => Led(t, f, z) \in N \cup {Nowhere}
                       /\ z.at \notin N => Led(t, f, z) \in N \cup {Nowhere, Led(u, f, z)}
           S == {z \in Walking : Holds(z)}
<1>1. ASSUME NEW z \in Walking, \A y \in Walking : Below(y, z) => y \in S PROVE z \in S
  <2>1. CASE z.rest = <<>>
    BY <2>1, LedBy DEF Ends, Value
  <2>2. CASE z.rest # <<>> /\ Ends(t, f, z)
    BY <2>2, LedBy DEF Value
  <2>3. CASE z.rest # <<>> /\ ~Ends(t, f, z)
    <3> DEFINE y == Succ(t, f, z)
               next == Next1(z)
    <3>1. y \in S /\ Led(t, f, z) = Led(t, f, y)
      BY <1>1, <2>3, LedBy
    <3>2. next \in DOMAIN t /\ IsDir(t, z.at)
      BY <2>3 DEF Ends
    <3>3. Head(z.rest) \in Names
      BY <2>3, WalkingParts
    <3>4. z.at \in N => next \in N
      BY <3>2, <3>3 DEF CameOf, Next1
    <3>5. next \in N => y.at \in N
      <4>1. next \in N => ~Turns(t, f, z)
        BY <3>2 DEF CameOf, Turns
      <4>2. QED
        BY <4>1 DEF Succ, On
    <3>6. CASE next \in N
      <4> HIDE DEF y
      <4>1. QED
        BY <3>1, <3>5, <3>6
    <3>7. CASE next \notin N
      <4>1. next \in DOMAIN u /\ t[next] = u[next]
        BY <3>2, <3>7 DEF CameOf
      <4>2. z.at \notin N
        BY <3>4, <3>7
      <4>3. IsDir(u, z.at)
        BY <3>2, <4>2 DEF CameOf, IsDir
      <4>4. Turns(u, f, z) <=> Turns(t, f, z)
        BY <4>1 DEF Turns
      <4>5. ~Ends(u, f, z) /\ Succ(u, f, z) = y
        BY <2>3, <4>1, <4>3, <4>4 DEF Ends, Succ
      <4>6. Led(u, f, z) = Led(u, f, y)
        BY <4>5, LedBy
      <4>7. y.at \notin N
        BY <3>7 DEF Succ, On, CameOf
      <4> HIDE DEF y
      <4>8. QED
        BY <3>1, <4>2, <4>6, <4>7
    <3>8. QED
      BY <3>6, <3>7
  <2>4. QED
    BY <2>1, <2>2, <2>3
<1> HIDE DEF S
<1>2. x \in S
  BY <1>1, WalkInduction
<1>3. QED
  BY <1>2 DEF S

LEMMA ReachedAsBefore ==
  ASSUME TreeAssumption, NEW t, IsTree(t), NEW u, IsTree(u), NEW N, CameOf(t, u, N), NEW p \in Seq(Names)
  PROVE  Entry(t, p) \in N \cup {Nowhere, Entry(u, p)} /\ Target(t, p) \in N \cup {Nowhere, Target(u, p)}
<1> DEFINE x == On(MaxLinks, <<>>, p)
<1>1. x \in Walking /\ x.at = <<>>
  BY FromRoot
<1>2. \A w : Target(w, p) = Led(w, Stat, x) /\ Entry(w, p) = Led(w, Lstat, x)
  BY FromRoot
<1> HIDE DEF x
<1>3. Stat \in Modes /\ Lstat \in Modes
  BY DEF Modes
<1>4. x.at \notin N
  BY <1>1 DEF CameOf
<1>5. QED
  BY <1>1, <1>2, <1>3, <1>4, LedAsBefore

\* A tree that is a part of another one
Part(t, u) == \A p \in DOMAIN t : p \in DOMAIN u /\ t[p] = u[p]

LEMMA ReachedInPart ==
  ASSUME TreeAssumption, NEW t, IsTree(t), NEW u, IsTree(u), Part(t, u), NEW p \in Seq(Names)
  PROVE  /\ Entry(t, p) # Nowhere => Entry(u, p) = Entry(t, p)
         /\ Target(t, p) # Nowhere => Target(u, p) = Target(t, p)
         /\ PathIsDirectory(t, p) => PathIsDirectory(u, p)
<1>1. CameOf(t, u, {})
  BY DEF CameOf, Part
<1>2. Entry(t, p) \in {Nowhere, Entry(u, p)} /\ Target(t, p) \in {Nowhere, Target(u, p)}
  BY <1>1, ReachedAsBefore
<1>3. \A a : IsDir(t, a) => IsDir(u, a)
  BY DEF IsDir, Part
<1>4. QED
  BY <1>2, <1>3 DEF PathIsDirectory

\* What an entry led to is gone with it.
LEMMA ReachedNoMore ==
  ASSUME TreeAssumption, NEW t, IsTree(t), NEW p \in Seq(Names), Entry(t, p) # <<>>,
         IsTree(Without(t, Entry(t, p)))
  PROVE  Entry(Without(t, Entry(t, p)), p) = Nowhere
<1> DEFINE y == Entry(t, p)
           u == Without(t, y)
<1>1. Part(u, t) /\ y \notin DOMAIN u
  BY DEF Part, Without
<1>2. Entry(u, p) \in DOMAIN u \cup {<<>>, Nowhere}
  BY Reached
<1>3. Entry(u, p) # Nowhere => y = Entry(u, p)
  BY <1>1, ReachedInPart
<1>4. QED
  BY <1>1, <1>2, <1>3

-----------------------------------------------------------------------------
(* Places under a place *)

LEMMA UnderChild ==
  ASSUME NEW b \in Seq(Names), NEW a \in Seq(Names), NEW n \in Names
  PROVE  /\ Append(a, n) \in Seq(Names) /\ Len(Append(a, n)) = Len(a) + 1
         /\ Under(b, b)
         /\ Under(b, a) => Under(b, Append(a, n))
         /\ ~Under(b, a) /\ Under(b, Append(a, n)) => b = Append(a, n)
         /\ b # <<>> => ~Under(b, <<>>)
         /\ Under(b, a) => Len(b) <= Len(a)
         /\ Front(Append(a, n)) = a
<1> DEFINE c == Append(a, n)
<1>1. /\ c \in Seq(Names) /\ Len(c) = Len(a) + 1 /\ Len(a) \in Nat /\ Len(b) \in Nat
      /\ \A i \in 1 .. Len(a) : c[i] = a[i]
  BY AppendProperties
<1> HIDE DEF c
<1>2. \A k \in Nat : k <= Len(a) => SubSeq(c, 1, k) = SubSeq(a, 1, k)
  <2> SUFFICES ASSUME NEW k \in Nat, k <= Len(a) PROVE SubSeq(c, 1, k) = SubSeq(a, 1, k)
    OBVIOUS
  <2>1. SubSeq(c, 1, k) = [i \in 1 .. k |-> c[i]] /\ SubSeq(a, 1, k) = [i \in 1 .. k |-> a[i]]
    BY <1>1
  <2>2. \A i \in 1 .. k : c[i] = a[i]
    BY <1>1
  <2>3. QED
    BY <2>1, <2>2
<1>3. \A s \in Seq(Names) : SubSeq(s, 1, Len(s)) = s
  OBVIOUS
<1>4. Under(b, b)
  BY <1>1, <1>3 DEF Under
<1>5. Under(b, a) => Under(b, c)
  BY <1>1, <1>2 DEF Under
<1>6. ~Under(b, a) /\ Under(b, c) => b = c
  <2>1. Len(b) = Len(c) => SubSeq(c, 1, Len(b)) = c
    BY <1>1, <1>3
  <2>2. Len(b) <= Len(c) /\ Len(b) # Len(c) => Len(b) <= Len(a)
    BY <1>1
  <2>3. QED
    BY <1>1, <1>2, <2>1, <2>2 DEF Under
<1>7. b # <<>> => ~Under(b, <<>>)
  <2>1. Len(<<>>) = 0 /\ (b # <<>> => Len(b) # 0)
    BY EmptySeq
  <2>2. QED
    BY <1>1, <2>1 DEF Under
<1>8. Front(c) = a
  <2>1. Front(c) = SubSeq(c, 1, Len(a))
    BY <1>1 DEF Front
  <2>2. QED
    BY <1>1, <1>2, <1>3, <2>1
<1>9. QED
  BY <1>1, <1>4, <1>5, <1>6, <1>7, <1>8 DEF Under, c

\* No link under b leads to a directory.
NoWays(t, b) == \A p \in DOMAIN t : Under(b, p) /\ t[p].type = "link" => ~PathIsDirectory(t, p)

-----------------------------------------------------------------------------
(* A place of the tree, taken as a path *)

WellFormed(t) == IsTree(t) /\ \A p \in DOMAIN t : IsDir(t, Front(p))

LEMMA PlacesAbove ==
  ASSUME NEW t, WellFormed(t), NEW p \in DOMAIN t, NEW k \in 0 .. Len(p) - 1
  PROVE  IsDir(t, SubSeq(p, 1, k))
<1>1. p \in Seq(Names) /\ Len(p) \in Nat
  BY DEF WellFormed, IsTree
<1> DEFINE T == {m \in Nat : m < Len(p) /\ ~IsDir(t, SubSeq(p, 1, Len(p) - 1 - m))}
<1> SUFFICES ASSUME ~IsDir(t, SubSeq(p, 1, k)) PROVE FALSE
  OBVIOUS
<1>2. Len(p) - 1 - k \in T
  <2>1. Len(p) - 1 - k \in Nat /\ Len(p) - 1 - k < Len(p) /\ Len(p) - 1 - (Len(p) - 1 - k) = k
    BY <1>1
  <2>2. QED
    BY <2>1
<1>3. PICK m \in T : \A j \in T : m <= j
  <2>1. T \in SUBSET Nat /\ T # {}
    BY <1>2
  <2> HIDE DEF T
  <2>2. QED
    BY <2>1, SmallestNumber
<1> DEFINE i == Len(p) - 1 - m
<1>4. m \in Nat /\ m < Len(p) /\ ~IsDir(t, SubSeq(p, 1, i)) /\ i \in Nat /\ i < Len(p)
  BY <1>1, <1>3
<1>5. CASE m = 0
  <2>1. SubSeq(p, 1, i) = Front(p)
    BY <1>1, <1>5 DEF Front
  <2>2. QED
    BY <1>4, <2>1 DEF WellFormed
<1>6. CASE m # 0
  <2>1. m - 1 \in Nat /\ m - 1 < Len(p) /\ Len(p) - 1 - (m - 1) = i + 1 /\ ~(m <= m - 1)
    BY <1>1, <1>4, <1>6
  <2>2. IsDir(t, SubSeq(p, 1, i + 1))
    <3>1. m - 1 \notin T
      BY <1>3, <2>1
    <3>2. QED
      BY <2>1, <3>1
  <2> HIDE DEF i, T
  <2> DEFINE q == SubSeq(p, 1, i + 1)
  <2>3. q \in Seq(Names) /\ Len(q) = i + 1 /\ i + 1 <= Len(p)
    BY <1>1, <1>4
  <2>4. q # <<>>
    BY <1>4, <2>3
  <2>5. Front(q) = SubSeq(p, 1, i)
    <3>1. Front(q) = SubSeq(q, 1, i)
      BY <1>4, <2>3 DEF Front
    <3>2. \A j \in 1 .. i + 1 : q[j] = p[j]
      BY <1>1, <1>4, <2>3
    <3>3. SubSeq(q, 1, i) = [j \in 1 .. i |-> q[j]] /\ SubSeq(p, 1, i) = [j \in 1 .. i |-> p[j]]
      BY <1>1, <1>4, <2>3
    <3>4. \A j \in 1 .. i : j \in 1 .. i + 1
      BY <1>4
    <3> HIDE DEF q
    <3>5. QED
      BY <3>1, <3>2, <3>3, <3>4
  <2> HIDE DEF q
  <2>6. q \in DOMAIN t
    BY <2>2, <2>4 DEF IsDir, q
  <2>7. QED
    BY <1>4, <2>5, <2>6 DEF WellFormed
<1>7. QED
  BY <1>5, <1>6

\* A link's own path leads to what the link leads to, with a link less to follow.
LEMMA LinkLeads ==
  ASSUME TreeAssumption, NEW t, WellFormed(t), NEW y \in DOMAIN t, t[y].type = "link", MaxLinks # 0
  PROVE  Target(t, y) = Led(t, Stat, On(MaxLinks - 1, <<>>, t[y].to))
<1>0. Stat \in Modes /\ IsTree(t) /\ MaxLinks \in 0 .. MaxLinks /\ MaxLinks \in Nat
  BY DEF Modes, WellFormed, TreeAssumption
<1>1. y \in Seq(Names) /\ y # <<>> /\ Len(y) \in Nat \ {0} /\ t[y].to \in Seq(Names)
  BY <1>0 DEF IsTree, Nodes
<1> DEFINE n == Len(y)
           x(k) == On(MaxLinks, SubSeq(y, 1, k), SubSeq(y, k + 1, n))
           G(k) == Led(t, Stat, x(k))
<1>2. ASSUME NEW k \in 0 .. n - 1
      PROVE  /\ x(k) \in Walking /\ x(k).links = MaxLinks /\ x(k).at = SubSeq(y, 1, k) /\ x(k).rest # <<>>
             /\ Next1(x(k)) = SubSeq(y, 1, k + 1) /\ Tail(x(k).rest) = SubSeq(y, k + 2, n)
  <2>0. k \in Nat /\ n \in Nat /\ k + 1 <= n /\ k <= n
    BY <1>1
  <2>1. /\ SubSeq(y, 1, k) \in Seq(Names) /\ SubSeq(y, k + 1, n) \in Seq(Names)
        /\ Len(SubSeq(y, 1, k)) = k /\ Len(SubSeq(y, k + 1, n)) = n - k
    BY <1>1, <2>0
  <2>2. Head(SubSeq(y, k + 1, n)) = y[k + 1] /\ Tail(SubSeq(y, k + 1, n)) = SubSeq(y, k + 2, n)
    <3> DEFINE m == k + 1
    <3>1. m \in 1 .. Len(y) /\ n \in 1 .. Len(y) /\ m <= n /\ m + 1 = k + 2
      BY <1>1, <2>0
    <3> HIDE DEF m
    <3>2. Head(SubSeq(y, m, n)) = y[m] /\ Tail(SubSeq(y, m, n)) = SubSeq(y, m + 1, n)
      BY <1>1, <3>1, HeadTailOfSubSeq
    <3>3. QED
      BY <3>1, <3>2 DEF m
  <2>3. Append(SubSeq(y, 1, k), y[k + 1]) = SubSeq(y, 1, k + 1)
    BY <1>1, <2>0
  <2>4. SubSeq(y, k + 1, n) # <<>>
    <3> DEFINE r == SubSeq(y, k + 1, n)
    <3>1. Len(r) = n - k
      BY <2>1
    <3> HIDE DEF r, n
    <3>2. r # <<>>
      BY <2>0, <3>1, EmptySeq
    <3>3. QED
      BY <3>2 DEF r
  <2> DEFINE a == SubSeq(y, 1, k)
             r == SubSeq(y, k + 1, n)
  <2> HIDE DEF a, r
  <2>5. /\ On(MaxLinks, a, r) \in Walking /\ On(MaxLinks, a, r).links = MaxLinks /\ On(MaxLinks, a, r).at = a
        /\ On(MaxLinks, a, r).rest = r
    <3>1. a \in Seq(Names) /\ r \in Seq(Names)
      BY <2>1 DEF a, r
    <3>2. QED
      BY <1>0, <3>1 DEF On, Walking
  <2>6. x(k) = On(MaxLinks, a, r)
    BY DEF a, r
  <2> HIDE DEF x
  <2>7. Next1(x(k)) = Append(a, Head(r))
    BY <2>5, <2>6 DEF Next1
  <2>8. QED
    BY <2>2, <2>3, <2>4, <2>5, <2>6, <2>7 DEF a, r
<1>3. ASSUME NEW k \in 0 .. n - 1, k + 1 < n PROVE G(k) = G(k + 1)
  <2>1. k \in 0 .. Len(y) - 1 /\ k + 1 \in 0 .. Len(y) - 1 /\ k + 1 \in Nat /\ k + 1 # 0 /\ k + 1 <= n
    BY <1>1, <1>3
  <2>2. IsDir(t, SubSeq(y, 1, k)) /\ IsDir(t, SubSeq(y, 1, k + 1))
    BY <2>1, PlacesAbove
  <2>3. Len(SubSeq(y, 1, k + 1)) = k + 1
    BY <1>1, <2>1
  <2>4. SubSeq(y, 1, k + 1) # <<>>
    BY <2>1, <2>3
  <2>5. SubSeq(y, 1, k + 1) \in DOMAIN t /\ t[SubSeq(y, 1, k + 1)].type = "dir"
    BY <2>2, <2>4 DEF IsDir
  <2>6. ~Turns(t, Stat, x(k))
    <3> HIDE DEF x
    <3>1. QED
      BY <1>2, <2>5 DEF Turns
  <2>7. ~Ends(t, Stat, x(k))
    <3> HIDE DEF x
    <3>1. QED
      BY <1>2, <2>2, <2>5, <2>6 DEF Ends
  <2>8. Succ(t, Stat, x(k)) = x(k + 1)
    <3>1. k + 2 = (k + 1) + 1
      BY <2>1
    <3>2. Succ(t, Stat, x(k)) = On(MaxLinks, SubSeq(y, 1, k + 1), SubSeq(y, (k + 1) + 1, n))
      <4> HIDE DEF x
      <4>1. QED
        BY <1>2, <2>6, <3>1 DEF Succ
    <3>3. QED
      BY <3>2
  <2> HIDE DEF x
  <2>9. QED
    BY <1>0, <1>2, <2>7, <2>8, LedBy
<1>4. ASSUME NEW k \in 0 .. n - 1 PROVE G(k) = G(0)
  <2> DEFINE T == {j \in Nat : j <= n - 1 /\ G(j) # G(0)}
  <2> HIDE DEF G
  <2>1. SUFFICES ASSUME G(k) # G(0) PROVE FALSE
    OBVIOUS
  <2>2. k \in T
    BY <1>1, <2>1
  <2>3. PICK j \in T : \A i \in T : j <= i
    <3>1. T \in SUBSET Nat /\ T # {}
      BY <2>2
    <3> HIDE DEF T
    <3>2. QED
      BY <3>1, SmallestNumber
  <2>4. j \in Nat /\ j <= n - 1 /\ G(j) # G(0) /\ j # 0
    BY <2>3
  <2>5. j - 1 \in 0 .. n - 1 /\ j - 1 + 1 < n /\ j - 1 + 1 = j /\ ~(j <= j - 1) /\ j - 1 \in Nat /\ j - 1 <= n - 1
    BY <1>1, <2>4
  <2>6. G(j - 1) = G(0)
    <3>1. j - 1 \notin T
      BY <2>3, <2>5
    <3>2. QED
      BY <2>5, <3>1
  <2> DEFINE i == j - 1
  <2>7. G(i) = G(i + 1)
    BY <1>3, <2>5
  <2>8. QED
    BY <2>4, <2>5, <2>6, <2>7
<1>5. G(0) = Target(t, y)
  <2>1. SubSeq(y, 1, 0) = <<>> /\ SubSeq(y, 0 + 1, n) = y
    BY <1>1
  <2>2. QED
    BY <1>1, <2>1, FromRoot
<1>6. G(n - 1) = Led(t, Stat, On(MaxLinks - 1, <<>>, t[y].to))
  <2> DEFINE k == n - 1
  <2>1. k \in 0 .. n - 1 /\ k + 1 = n /\ k + 2 = n + 1 /\ k \in 0 .. Len(y) - 1
    BY <1>1
  <2>2. SubSeq(y, 1, n) = y /\ SubSeq(y, n + 1, n) = <<>>
    BY <1>1
  <2>3. IsDir(t, SubSeq(y, 1, k))
    BY <2>1, PlacesAbove
  <2> HIDE DEF x, k
  <2>4. x(k) \in Walking /\ x(k).links = MaxLinks /\ x(k).at = SubSeq(y, 1, k) /\ x(k).rest # <<>>
        /\ Next1(x(k)) = y /\ Tail(x(k).rest) = <<>>
    BY <1>2, <2>1, <2>2
  <2>5. Turns(t, Stat, x(k))
    BY <2>4 DEF Turns
  <2>6. ~Ends(t, Stat, x(k))
    BY <2>3, <2>4 DEF Ends
  <2>7. t[y].to \o <<>> = t[y].to
    BY <1>1, ConcatEmptySeq
  <2>8. Succ(t, Stat, x(k)) = On(MaxLinks - 1, <<>>, t[y].to)
    BY <2>4, <2>5, <2>7 DEF Succ
  <2>9. QED
    BY <1>0, <2>4, <2>6, <2>8, LedBy DEF k
<1>7. n - 1 \in 0 .. n - 1
  BY <1>1
<1> HIDE DEF G
<1>8. QED
  BY <1>4, <1>5, <1>6, <1>7

\* What the link at the end of a path leads to is where its own path leads, unless
\* too few links may be followed.
LEMMA LinkAlone ==
  ASSUME TreeAssumption, NEW t, WellFormed(t), NEW y \in DOMAIN t, t[y].type = "link",
         NEW l \in 0 .. MaxLinks, l # MaxLinks, Led(t, Stat, On(l, <<>>, t[y].to)) # Nowhere
  PROVE  Target(t, y) = Led(t, Stat, On(l, <<>>, t[y].to))
<1>0. Stat \in Modes /\ IsTree(t) /\ MaxLinks \in Nat /\ MaxLinks # 0
  BY DEF Modes, WellFormed, TreeAssumption
<1> DEFINE to == t[y].to
           m == MaxLinks - 1
           x == On(l, <<>>, to)
<1>1. to \in Seq(Names) /\ <<>> \in Seq(Names)
  BY <1>0 DEF IsTree, Nodes
<1>2. m \in 0 .. MaxLinks /\ m \in l .. MaxLinks
  BY <1>0
<1>3. Led(t, Stat, x) # Nowhere /\ Target(t, y) = Led(t, Stat, On(m, <<>>, to))
  BY <1>0, LinkLeads
<1> HIDE DEF to, m
<1>4. x \in Walking /\ x.links = l /\ x.at = <<>> /\ x.rest = to
  BY <1>1 DEF On, Walking
<1> HIDE DEF x
<1>5. Led(t, Stat, On(m, <<>>, to)) = Led(t, Stat, x)
  BY <1>0, <1>2, <1>3, <1>4, MoreLinks
<1>6. QED
  BY <1>3, <1>5 DEF x, to

-----------------------------------------------------------------------------
(* Where no link below b leads to a directory *)

\* A walk that turns at a link and is not lost finds a directory at the link.
LEMMA TurnLeads ==
  ASSUME TreeAssumption, NEW t, WellFormed(t), NEW x \in Walking, ~Ends(t, Lstat, x), Turns(t, Lstat, x),
         Led(t, Lstat, x) # Nowhere
  PROVE  Next1(x) \in DOMAIN t /\ t[Next1(x)].type = "link" /\ PathIsDirectory(t, Next1(x))
<1>0. Stat \in Modes /\ Lstat \in Modes /\ Stat # Lstat /\ IsTree(t) /\ MaxLinks \in Nat
  BY DEF Modes, Stat, Lstat, WellFormed, TreeAssumption
<1> DEFINE y == Next1(x)
           l == x.links - 1
           w == On(l, <<>>, t[y].to)
           s == Tail(x.rest)
<1>1. y \in DOMAIN t /\ t[y].type = "link" /\ x.rest # <<>> /\ x.links # 0
  BY DEF Ends, Turns
<1>2. x.links \in 0 .. MaxLinks /\ x.rest \in Seq(Names) /\ s \in Seq(Names) /\ t[y].to \in Seq(Names)
  BY <1>0, <1>1, WalkingParts DEF IsTree, Nodes
<1>3. l \in 0 .. MaxLinks /\ l # MaxLinks
  BY <1>0, <1>1, <1>2
<1>4. s # <<>>
  <2>1. Len(x.rest) # 1
    BY <1>0 DEF Turns
  <2>2. Len(x.rest) \in Nat \ {0} /\ Len(s) = Len(x.rest) - 1
    BY <1>1, <1>2, EmptySeq, HeadTailProperties
  <2>3. Len(s) # 0
    BY <2>1, <2>2
  <2> HIDE DEF s
  <2>4. QED
    BY <1>2, <2>3, EmptySeq
<1>5. Succ(t, Lstat, x) = Further(w, s)
  BY DEF Succ, Further, On
<1>6. Led(t, Lstat, Further(w, s)) # Nowhere
  BY <1>0, <1>5, LedBy
<1> HIDE DEF s, l
<1>7. w \in Walking
  BY <1>2, <1>3 DEF On, Walking
<1>8. Led(t, Stat, w) # Nowhere /\ IsDir(t, Led(t, Stat, w))
  <2> HIDE DEF w
  <2>1. QED
    BY <1>0, <1>2, <1>4, <1>6, <1>7, NotDirectory
<1>9. Target(t, y) = Led(t, Stat, w)
  <2> HIDE DEF y
  <2>1. QED
    BY <1>1, <1>3, <1>8, LinkAlone
<1>10. QED
  BY <1>1, <1>8, <1>9 DEF PathIsDirectory

\* A walk from a place under b stays there.
LEMMA StaysUnder ==
  ASSUME TreeAssumption, NEW t, WellFormed(t), NEW b \in Seq(Names), NoWays(t, b),
         NEW x \in Walking, Under(b, x.at), x.rest # <<>>, Led(t, Lstat, x) # Nowhere
  PROVE  Len(Led(t, Lstat, x)) > Len(x.at)
<1>0. Stat \in Modes /\ Lstat \in Modes /\ Stat # Lstat /\ IsTree(t)
  BY DEF Modes, Stat, Lstat, WellFormed
<1> DEFINE Holds(z) == Under(b, z.at) /\ z.rest # <<>> /\ Led(t, Lstat, z) # Nowhere => Len(Led(t, Lstat, z)) > Len(z.at)
           S == {z \in Walking : Holds(z)}
<1>1. ASSUME NEW z \in Walking, \A y \in Walking : Below(y, z) => y \in S PROVE z \in S
  <2> SUFFICES ASSUME Under(b, z.at), z.rest # <<>>, Led(t, Lstat, z) # Nowhere
               PROVE  Len(Led(t, Lstat, z)) > Len(z.at)
    OBVIOUS
  <2>1. ~Ends(t, Lstat, z)
    BY <1>0, LedBy DEF Value
  <2>2. z.at \in Seq(Names) /\ Len(z.at) \in Nat /\ Head(z.rest) \in Names /\ Next1(z) = Append(z.at, Head(z.rest))
    BY WalkingParts DEF Next1
  <2>3. Under(b, Next1(z)) /\ Len(Next1(z)) = Len(z.at) + 1
    BY <2>2, UnderChild
  <2>4. ~Turns(t, Lstat, z)
    BY <2>1, <2>3, TurnLeads DEF NoWays
  <2> DEFINE y == Succ(t, Lstat, z)
  <2>5. y \in S /\ y \in Walking /\ Led(t, Lstat, z) = Led(t, Lstat, y)
    BY <1>0, <1>1, <2>1, LedBy
  <2>6. y.at = Next1(z)
    BY <2>4 DEF Succ, On
  <2> HIDE DEF y
  <2>7. CASE y.rest = <<>>
    <3>1. Led(t, Lstat, y) = y.at
      BY <1>0, <2>5, <2>7, LedBy DEF Ends, Value
    <3>2. QED
      BY <2>2, <2>3, <2>5, <2>6, <3>1
  <2>8. CASE y.rest # <<>>
    <3>1. Len(Led(t, Lstat, y)) > Len(z.at) + 1
      BY <2>3, <2>5, <2>6, <2>8
    <3>2. Led(t, Lstat, y) \in Seq(Names)
      BY <1>0, <2>5, LedIsPath
    <3>3. Len(Led(t, Lstat, y)) \in Nat
      BY <3>2
    <3>4. QED
      BY <2>2, <2>5, <3>1, <3>3
  <2>9. QED
    BY <2>7, <2>8
<1> HIDE DEF S
<1>2. x \in S
  BY <1>1, WalkInduction
<1>3. QED
  BY <1>2 DEF S

\* What a path leads to is found when things below it were taken away.
LEMMA BaseStays ==
  ASSUME TreeAssumption, NEW u, WellFormed(u), NEW t, IsTree(t), Part(t, u), NEW p \in Seq(Names),
         Entry(u, p) \in DOMAIN t, NoWays(u, Entry(u, p)),
         \A q \in DOMAIN u : q \in DOMAIN t \/ Under(Entry(u, p), q)
  PROVE  Entry(t, p) = Entry(u, p)
<1>0. Stat \in Modes /\ Lstat \in Modes /\ Stat # Lstat /\ IsTree(u)
  BY DEF Modes, Stat, Lstat, WellFormed
<1> DEFINE b == Entry(u, p)
           Holds(z) == ~Under(b, z.at) /\ Led(u, Lstat, z) = b => Led(t, Lstat, z) = b
           S == {z \in Walking : Holds(z)}
<1>1. b \in DOMAIN t /\ b \in DOMAIN u /\ b \in Seq(Names) /\ b # <<>> /\ NoWays(u, b) /\ b # Nowhere
      /\ \A q \in DOMAIN u : q \in DOMAIN t \/ Under(b, q)
  BY NowhereIsNone DEF IsTree, Part
<1> HIDE DEF b
<1>2. ASSUME NEW z \in Walking, \A y \in Walking : Below(y, z) => y \in S PROVE z \in S
  <2> SUFFICES ASSUME ~Under(b, z.at), Led(u, Lstat, z) = b PROVE Led(t, Lstat, z) = b
    OBVIOUS
  <2>1. z.rest # <<>>
    <3>1. z.rest = <<>> => Led(u, Lstat, z) = z.at
      BY <1>0, LedBy DEF Ends, Value
    <3>2. Under(b, b)
      BY <1>1 DEF Under
    <3>3. QED
      BY <3>1, <3>2
  <2>2. ~Ends(u, Lstat, z)
    BY <1>0, <1>1, <2>1, LedBy DEF Value
  <2>3. z.at \in Seq(Names) /\ Head(z.rest) \in Names /\ Next1(z) = Append(z.at, Head(z.rest)) /\ Next1(z) \in Seq(Names)
    BY <2>1, WalkingParts DEF Next1
  <2>4. Next1(z) \in DOMAIN u /\ IsDir(u, z.at)
    BY <2>2 DEF Ends
  <2>5. Next1(z) \in DOMAIN t /\ t[Next1(z)] = u[Next1(z)]
    <3>1. Under(b, Next1(z)) => b = Next1(z)
      BY <1>1, <2>3, UnderChild
    <3>2. QED
      BY <1>1, <2>4, <3>1 DEF Part
  <2>6. IsDir(t, z.at)
    BY <1>1, <2>4 DEF IsDir, Part
  <2>7. Turns(t, Lstat, z) <=> Turns(u, Lstat, z)
    BY <2>5 DEF Turns
  <2>8. ~Ends(t, Lstat, z) /\ Succ(t, Lstat, z) = Succ(u, Lstat, z)
    BY <2>2, <2>5, <2>6, <2>7 DEF Ends, Succ
  <2> DEFINE y == Succ(u, Lstat, z)
  <2>9. y \in S /\ y \in Walking /\ Led(u, Lstat, y) = b /\ Led(t, Lstat, z) = Led(t, Lstat, y)
    BY <1>0, <1>2, <2>2, <2>8, LedBy
  <2>10. CASE ~Under(b, y.at)
    <3> HIDE DEF y
    <3>1. QED
      BY <2>9, <2>10
  <2>11. CASE Under(b, y.at)
    <3>1. ~Turns(u, Lstat, z)
      <4>1. Turns(u, Lstat, z) => y.at = <<>>
        BY DEF Succ, On
      <4>2. ~Under(b, <<>>)
        BY <1>1, <2>3, UnderChild
      <4> HIDE DEF y
      <4>3. QED
        BY <2>11, <4>1, <4>2
    <3>2. y.at = Next1(z)
      BY <3>1 DEF Succ, On
    <3> HIDE DEF y
    <3>3. y.at = b
      BY <1>1, <2>3, <2>11, <3>2, UnderChild
    <3>4. y.rest = <<>>
      <4>1. y.rest # <<>> => Len(b) > Len(b)
        BY <1>0, <1>1, <2>9, <2>11, <3>3, StaysUnder
      <4>2. Len(b) \in Nat
        BY <1>1
      <4>3. QED
        BY <4>1, <4>2
    <3>5. Led(t, Lstat, y) = b
      BY <1>0, <2>9, <3>3, <3>4, LedBy DEF Ends, Value
    <3>6. QED
      BY <2>9, <3>5
  <2>12. QED
    BY <2>10, <2>11
<1> DEFINE x == On(MaxLinks, <<>>, p)
<1>3. x \in Walking /\ x.at = <<>> /\ Entry(u, p) = Led(u, Lstat, x) /\ Entry(t, p) = Led(t, Lstat, x)
  BY FromRoot
<1> HIDE DEF S, x
<1>4. x \in S
  BY <1>2, <1>3, WalkInduction
<1>5. ~Under(b, x.at)
  <2>1. Len(<<>>) = 0 /\ Len(b) \in Nat /\ Len(b) # 0
    BY <1>1, EmptySeq
  <2>2. QED
    BY <1>3, <2>1 DEF Under
<1>6. QED
  BY <1>3, <1>4, <1>5 DEF S, b

\* A link that a path leads to, and that leads to a directory, does so by itself.
LEMMA LinkToDirectory ==
  ASSUME TreeAssumption, NEW t, WellFormed(t), NEW p \in Seq(Names),
         Entry(t, p) \in DOMAIN t, t[Entry(t, p)].type = "link", PathIsDirectory(t, p)
  PROVE  PathIsDirectory(t, Entry(t, p))
<1>0. Stat \in Modes /\ Lstat \in Modes /\ IsTree(t) /\ MaxLinks \in Nat
  BY DEF Modes, WellFormed, TreeAssumption
<1> DEFINE x == On(MaxLinks, <<>>, p)
           y == Entry(t, p)
<1>1. x \in Walking /\ x.rest = p /\ Target(t, p) = Led(t, Stat, x) /\ y = Led(t, Lstat, x)
      /\ Further(x, <<>>) = On(MaxLinks, <<>>, p \o <<>>)
  BY FromRoot
<1>2. Further(x, <<>>) = x /\ <<>> \in Seq(Names)
  BY <1>1, ConcatEmptySeq
<1>3. y \in DOMAIN t /\ t[y].type = "link" /\ y # <<>> /\ t[y].to \in Seq(Names)
  BY <1>0 DEF IsTree, Nodes
<1> HIDE DEF x, y
<1>4. x.rest # <<>>
  <2>1. x.rest = <<>> => Led(t, Lstat, x) = x.at
    BY <1>0, <1>1, LedBy DEF Ends, Value
  <2>2. x.at = <<>>
    BY DEF x, On
  <2>3. QED
    BY <1>1, <1>3, <2>1, <2>2
<1>5. Led(t, Stat, x) # Nowhere
  BY <1>1 DEF PathIsDirectory
<1>6. MaxLinks - 1 \in 0 .. MaxLinks /\ Led(t, Stat, x) = Led(t, Stat, On(MaxLinks - 1, <<>>, t[y].to \o <<>>))
  <2>1. Led(t, Lstat, x) \in DOMAIN t /\ t[Led(t, Lstat, x)].type = "link"
    BY <1>1, <1>3
  <2> DEFINE s == <<>>
  <2>2. s \in Seq(Names) /\ Further(x, s) = x
    BY <1>2
  <2> HIDE DEF s
  <2>3. \/ Led(t, Stat, Further(x, s)) = Nowhere
        \/ /\ MaxLinks - 1 \in 0 .. MaxLinks
           /\ Led(t, Stat, Further(x, s)) = Led(t, Stat, On(MaxLinks - 1, <<>>, t[Led(t, Lstat, x)].to \o s))
    BY <1>0, <1>1, <1>4, <2>1, <2>2, LinkWay
  <2>4. QED
    BY <1>1, <1>5, <2>2, <2>3 DEF s
<1>7. t[y].to \o <<>> = t[y].to
  BY <1>3, ConcatEmptySeq
<1>8. MaxLinks # 0
  BY <1>0, <1>6
<1>9. Target(t, y) = Target(t, p)
  BY <1>1, <1>3, <1>6, <1>7, <1>8, LinkLeads
<1>10. QED
  BY <1>9 DEF PathIsDirectory, y

\* No path but the empty one leads to the root, its last link not followed.
LEMMA NotTheRoot ==
  ASSUME TreeAssumption, NEW t, IsTree(t), NEW p \in Seq(Names), p # <<>>
  PROVE  Entry(t, p) # <<>>
<1>0. Lstat \in Modes /\ Stat # Lstat
  BY DEF Modes, Stat, Lstat
<1> DEFINE S == {z \in Walking : z.rest # <<>> => Led(t, Lstat, z) # <<>>}
<1>1. ASSUME NEW z \in Walking, \A y \in Walking : Below(y, z) => y \in S PROVE z \in S
  <2> SUFFICES ASSUME z.rest # <<>> PROVE Led(t, Lstat, z) # <<>>
    OBVIOUS
  <2>1. CASE Ends(t, Lstat, z)
    <3>1. Led(t, Lstat, z) = Nowhere
      BY <1>0, <2>1, LedBy DEF Value
    <3>2. QED
      BY <3>1 DEF Nowhere
  <2>2. CASE ~Ends(t, Lstat, z)
    <3> DEFINE y == Succ(t, Lstat, z)
    <3>1. y \in S /\ y \in Walking /\ Led(t, Lstat, z) = Led(t, Lstat, y)
      BY <1>0, <1>1, <2>2, LedBy
    <3>2. z.rest \in Seq(Names) /\ Tail(z.rest) \in Seq(Names) /\ Next1(z) # <<>> /\ Next1(z) \in DOMAIN t
      BY <2>2, WalkingParts DEF Ends
    <3>3. y.rest # <<>> \/ y.at # <<>>
      <4>1. CASE Turns(t, Lstat, z)
        <5> DEFINE a == t[Next1(z)].to
                   b == Tail(z.rest)
        <5>1. a \in Seq(Names) /\ b \in Seq(Names)
          BY <3>2 DEF IsTree, Nodes
        <5>2. Len(z.rest) # 1
          BY <1>0, <4>1 DEF Turns
        <5>3. Len(z.rest) \in Nat \ {0} /\ Len(b) = Len(z.rest) - 1
          BY <3>2, EmptySeq, HeadTailProperties
        <5>4. Len(b) \in Nat /\ Len(b) # 0
          BY <5>2, <5>3
        <5>5. y.rest = a \o b
          BY <4>1 DEF Succ, On
        <5> HIDE DEF a, b, y
        <5>6. Len(a \o b) = Len(a) + Len(b) /\ Len(a) \in Nat
          BY <5>1, Joined
        <5>7. Len(a \o b) # 0
          BY <5>4, <5>6
        <5>8. QED
          BY <5>5, <5>7, EmptySeq
      <4>2. CASE ~Turns(t, Lstat, z)
        BY <3>2, <4>2 DEF Succ, On
      <4>3. QED
        BY <4>1, <4>2
    <3> HIDE DEF y
    <3>4. y.rest = <<>> => Led(t, Lstat, y) = y.at
      BY <1>0, <3>1, LedBy DEF Ends, Value
    <3>5. QED
      BY <3>1, <3>3, <3>4
  <2>3. QED
    BY <2>1, <2>2
<1> DEFINE x == On(MaxLinks, <<>>, p)
<1>2. x \in Walking /\ x.rest = p /\ Entry(t, p) = Led(t, Lstat, x)
  BY FromRoot
<1> HIDE DEF S, x
<1>3. x \in S
  BY <1>1, <1>2, WalkInduction
<1>4. QED
  BY <1>2, <1>3 DEF S

\* What is read of a link can take the place of the path that led to the link.
LEMMA ReadAsLink ==
  ASSUME TreeAssumption, NEW t, IsTree(t), NEW p \in Seq(Names), NEW s \in Seq(Names),
         Entry(t, p) \in DOMAIN t, t[Entry(t, p)].type = "link", Target(t, p \o s) # Nowhere
  PROVE  Target(t, t[Entry(t, p)].to \o s) = Target(t, p \o s)
<1>0. Stat \in Modes /\ Lstat \in Modes /\ MaxLinks \in Nat
  BY DEF Modes, TreeAssumption
<1> DEFINE x == On(MaxLinks, <<>>, p)
           y == Entry(t, p)
           q == t[y].to \o s
<1>1. x \in Walking /\ x.rest = p /\ x.at = <<>> /\ y = Led(t, Lstat, x)
  BY FromRoot
<1>2. y \in DOMAIN t /\ t[y].type = "link" /\ y # <<>> /\ t[y].to \in Seq(Names)
  BY DEF IsTree, Nodes
<1>3. q \in Seq(Names) /\ p \o s \in Seq(Names) /\ <<>> \in Seq(Names)
  BY <1>2, Joined
<1>4. Further(x, s) = On(MaxLinks, <<>>, p \o s)
  BY FromRoot
<1>5. Target(t, p \o s) = Led(t, Stat, Further(x, s)) /\ Target(t, q) = Led(t, Stat, On(MaxLinks, <<>>, q))
  <2> HIDE DEF q
  <2>1. QED
    BY <1>3, <1>4, FromRoot
<1> HIDE DEF x, y
<1>6. x.rest # <<>>
  <2>1. x.rest = <<>> => Led(t, Lstat, x) = x.at
    BY <1>0, <1>1, LedBy DEF Ends, Value
  <2>2. QED
    BY <1>1, <1>2, <2>1
<1>7. MaxLinks - 1 \in 0 .. MaxLinks /\ Led(t, Stat, Further(x, s)) = Led(t, Stat, On(MaxLinks - 1, <<>>, q))
  <2>1. Led(t, Lstat, x) \in DOMAIN t /\ t[Led(t, Lstat, x)].type = "link"
    BY <1>1, <1>2
  <2>2. \/ Led(t, Stat, Further(x, s)) = Nowhere
        \/ /\ MaxLinks - 1 \in 0 .. MaxLinks
           /\ Led(t, Stat, Further(x, s)) = Led(t, Stat, On(MaxLinks - 1, <<>>, t[Led(t, Lstat, x)].to \o s))
    BY <1>0, <1>1, <1>6, <2>1, LinkWay
  <2>3. QED
    BY <1>1, <1>5, <2>2
<1> DEFINE m == MaxLinks - 1
           w == On(m, <<>>, q)
<1>8. m \in 0 .. MaxLinks /\ MaxLinks \in m .. MaxLinks
  BY <1>0, <1>7
<1> HIDE DEF q, m
<1>9. w \in Walking /\ w.links = m /\ w.at = <<>> /\ w.rest = q
  BY <1>3, <1>8 DEF On, Walking
<1>10. Led(t, Stat, w) # Nowhere /\ Target(t, p \o s) = Led(t, Stat, w)
  BY <1>5, <1>7 DEF m
<1> HIDE DEF w
<1>11. Led(t, Stat, On(MaxLinks, <<>>, q)) = Led(t, Stat, w)
  BY <1>0, <1>8, <1>9, <1>10, MoreLinks
<1>12. QED
  BY <1>5, <1>10, <1>11 DEF q, y

-----------------------------------------------------------------------------
(* The tree with an entry more or less *)

LEMMA PathParts ==
  ASSUME NEW p \in Seq(Names), p # <<>>
  PROVE  Front(p) \in Seq(Names) /\ Last(p) \in Names /\ p = Append(Front(p), Last(p))
<1>1. Len(p) \in Nat \ {0}
  BY EmptySeq
<1>2. Front(p) = SubSeq(p, 1, Len(p) - 1) /\ Last(p) = p[Len(p)]
  BY DEF Front, Last
<1>3. Front(p) \in Seq(Names) /\ Last(p) \in Names /\ Len(Front(p)) = Len(p) - 1
  <2> DEFINE n == Len(p) - 1
  <2>1. n \in 0 .. Len(p) /\ Len(p) \in 1 .. Len(p) /\ (1 <= n => n - 1 + 1 = n) /\ (~(1 <= n) => n = 0)
    <3>1. n \in Nat /\ n <= Len(p)
      BY ONLY <1>1 DEF n
    <3> HIDE DEF n
    <3>2. QED
      BY ONLY <1>1, <3>1
  <2>2. p[Len(p)] \in Names /\ \A i \in 1 .. n : p[i] \in Names
    BY <2>1
  <2> HIDE DEF n
  <2>3. SubSeq(p, 1, n) \in Seq(Names) /\ Len(SubSeq(p, 1, n)) = n
    BY <2>1, <2>2
  <2>4. QED
    BY <1>2, <2>2, <2>3 DEF n
<1>4. \A i \in 1 .. Len(p) - 1 : Front(p)[i] = p[i]
  BY <1>1, <1>2
<1> DEFINE q == Append(Front(p), Last(p))
<1>5. q \in Seq(Names) /\ Len(q) = Len(p) /\ q[Len(p)] = Last(p) /\ \A i \in 1 .. Len(p) - 1 : q[i] = Front(p)[i]
  BY <1>1, <1>3, AppendProperties
<1> HIDE DEF q
<1>6. \A i \in 1 .. Len(p) : q[i] = p[i]
  BY <1>1, <1>2, <1>4, <1>5
<1>7. q = p
  BY <1>5, <1>6, SeqEqual
<1>8. QED
  BY <1>3, <1>7 DEF q

LEMMA NodesAre ==
  ASSUME NEW to \in Seq(Names)
  PROVE  File \in Nodes /\ Dir \in Nodes /\ Link(to) \in Nodes /\ File.type = "file" /\ Dir.type = "dir"
         /\ Link(to).type = "link"
<1>1. <<>> \in Seq(Names)
  OBVIOUS
<1>2. QED
  BY <1>1 DEF File, Dir, Link, Nodes

LEMMA WithWell ==
  ASSUME NEW t, WellFormed(t), NEW at \in Seq(Names), at # <<>>, at \notin DOMAIN t, IsDir(t, Front(at)),
         NEW node \in {File, Dir}
  PROVE  WellFormed(With(t, at, node)) /\ Part(t, With(t, at, node))
<1> DEFINE u == With(t, at, node)
<1>1. DOMAIN u = DOMAIN t \cup {at} /\ u[at] = node /\ (\A p \in DOMAIN t : u[p] = t[p])
      /\ u = [p \in DOMAIN u |-> IF p = at THEN node ELSE t[p]]
  BY DEF With
<1>2. node \in Nodes /\ node.type # "link"
  <2>1. <<>> \in Seq(Names)
    OBVIOUS
  <2>2. File \in Nodes /\ Dir \in Nodes /\ File.type = "file" /\ Dir.type = "dir"
    BY <2>1, NodesAre
  <2>3. QED
    BY <2>2
<1> HIDE DEF u
<1>3. IsTree(u)
  BY <1>1, <1>2 DEF WellFormed, IsTree
<1>4. \A a : IsDir(t, a) => IsDir(u, a)
  BY <1>1 DEF IsDir
<1>5. \A p \in DOMAIN u : IsDir(u, Front(p))
  BY <1>1, <1>4 DEF WellFormed
<1>6. QED
  BY <1>1, <1>3, <1>5 DEF WellFormed, Part, u

\* Nothing is in the place
Childless(t, at) == \A n \in Names : Append(at, n) \notin DOMAIN t

LEMMA WithoutWell ==
  ASSUME NEW t, WellFormed(t), NEW at, Childless(t, at)
  PROVE  WellFormed(Without(t, at)) /\ Part(Without(t, at), t) /\ DOMAIN Without(t, at) = DOMAIN t \ {at}
<1> DEFINE u == Without(t, at)
<1>1. DOMAIN u = DOMAIN t \ {at} /\ (\A p \in DOMAIN u : u[p] = t[p]) /\ u = [p \in DOMAIN u |-> t[p]]
  BY DEF Without
<1> HIDE DEF u
<1>2. IsTree(u)
  BY <1>1 DEF WellFormed, IsTree
<1>3. ASSUME NEW p \in DOMAIN u PROVE IsDir(u, Front(p))
  <2>1. p \in Seq(Names) /\ p # <<>> /\ p \in DOMAIN t /\ IsDir(t, Front(p))
    BY <1>1 DEF WellFormed, IsTree
  <2>2. Front(p) # at
    BY <2>1, PathParts DEF Childless
  <2>3. QED
    BY <1>1, <2>1, <2>2 DEF IsDir
<1>4. QED
  BY <1>1, <1>2, <1>3 DEF WellFormed, Part, u

-----------------------------------------------------------------------------
(* The trees at the start *)

LEMMA RootEntriesAre ==
  ASSUME TreeAssumption, NEW r \in RootEntries
  PROVE  /\ r.node \in Nodes /\ DOMAIN r.in \subseteq Names /\ \A m \in DOMAIN r.in : r.in[m] \in Nodes
         /\ \A m \in DOMAIN r.in : r.node.type = "dir"
<1>1. Leaves \subseteq Nodes
  <2>1. <<>> \in Seq(Names) /\ Links \subseteq Seq(Names)
    BY DEF TreeAssumption
  <2>2. QED
    BY <2>1, NodesAre DEF Leaves
<1>2. CASE \E l \in Leaves : r = [node |-> l, in |-> [n \in {} |-> File]]
  BY <1>1, <1>2
<1>3. CASE \E s \in Subtrees : r = [node |-> Dir, in |-> s]
  <2>1. PICK s \in Subtrees : r = [node |-> Dir, in |-> s]
    BY <1>3
  <2>2. PICK d \in SUBSET Names : s \in [d -> Leaves]
    BY <2>1 DEF Subtrees
  <2>3. <<>> \in Seq(Names)
    OBVIOUS
  <2>4. Dir \in Nodes /\ Dir.type = "dir"
    BY <2>3, NodesAre
  <2>5. QED
    BY <1>1, <2>1, <2>2, <2>4
<1>4. QED
  BY <1>2, <1>3 DEF RootEntries

LEMMA ShortPaths ==
  ASSUME NEW n \in Names, NEW m \in Names
  PROVE  /\ <<n>> \in Seq(Names) /\ <<n>> # <<>> /\ Len(<<n>>) = 1 /\ <<n>>[1] = n /\ Front(<<n>>) = <<>>
         /\ <<n, m>> \in Seq(Names) /\ <<n, m>> # <<>> /\ Len(<<n, m>>) = 2 /\ <<n, m>>[1] = n /\ <<n, m>>[2] = m
         /\ Front(<<n, m>>) = <<n>>
<1>1. /\ <<n>> \in Seq(Names) /\ <<n>> # <<>> /\ Len(<<n>>) = 1 /\ <<n>>[1] = n
      /\ <<n, m>> \in Seq(Names) /\ <<n, m>> # <<>> /\ Len(<<n, m>>) = 2 /\ <<n, m>>[1] = n /\ <<n, m>>[2] = m
  OBVIOUS
<1>2. <<n, m>> = Append(<<n>>, m) /\ <<n>> = Append(<<>>, n) /\ <<>> \in Seq(Names)
  OBVIOUS
<1>3. QED
  BY <1>1, <1>2, UnderChild

\* The trees at the start are trees: what is in a directory is below it
LEMMA TreesWell ==
  ASSUME TreeAssumption, NEW t \in Trees
  PROVE  WellFormed(t)
<1>1. PICK d \in SUBSET Names : \E r \in [d -> RootEntries] : t = TreeOf(r)
  BY DEF Trees
<1>2. PICK root \in [d -> RootEntries] : t = TreeOf(root)
  BY <1>1
<1>3. ASSUME NEW n \in d
      PROVE  /\ root[n].node \in Nodes /\ DOMAIN root[n].in \subseteq Names
             /\ \A m \in DOMAIN root[n].in : root[n].in[m] \in Nodes /\ root[n].node.type = "dir"
  BY <1>2, <1>3, RootEntriesAre
<1> DEFINE P1 == {<<n>> : n \in DOMAIN root}
           P2 == UNION {{<<n, m>> : m \in DOMAIN root[n].in} : n \in DOMAIN root}
           At(p) == IF Len(p) = 1 THEN root[p[1]].node ELSE root[p[1]].in[p[2]]
<1>4. t = [p \in P1 \cup P2 |-> At(p)]
  BY <1>2 DEF TreeOf
<1>5. ASSUME NEW p \in P1
      PROVE  p \in Seq(Names) \ {<<>>} /\ At(p) \in Nodes /\ Front(p) = <<>>
  <2>1. PICK n \in d : p = <<n>>
    BY <1>2, <1>5
  <2>2. QED
    BY <1>3, <2>1, ShortPaths
<1>6. ASSUME NEW p \in P2
      PROVE  /\ p \in Seq(Names) \ {<<>>} /\ At(p) \in Nodes
             /\ Front(p) \in P1 /\ At(Front(p)).type = "dir"
  <2>1. PICK n \in d : \E m \in DOMAIN root[n].in : p = <<n, m>>
    BY <1>2, <1>6
  <2>2. PICK m \in DOMAIN root[n].in : p = <<n, m>>
    BY <2>1
  <2>3. n \in Names /\ m \in Names
    BY <1>3, <2>1, <2>2
  <2>4. At(<<n>>) = root[n].node
    <3>1. Len(<<n>>) = 1 /\ <<n>>[1] = n
      BY <2>3, ShortPaths
    <3>2. QED
      BY <3>1
  <2>5. Front(p) = <<n>> /\ p \in Seq(Names) \ {<<>>}
    BY <2>2, <2>3, ShortPaths
  <2>6. At(p) = root[n].in[m]
    <3>1. Len(p) = 2 /\ p[1] = n /\ p[2] = m
      BY <2>2, <2>3, ShortPaths
    <3>2. QED
      BY <3>1
  <2>7. QED
    BY <1>2, <1>3, <2>1, <2>2, <2>4, <2>5, <2>6
<1> HIDE DEF P1, P2, At
<1>7. DOMAIN t = P1 \cup P2 /\ \A p \in P1 \cup P2 : t[p] = At(p)
  BY <1>4
<1>8. IsTree(t)
  <2>1. t \in [DOMAIN t -> Nodes]
    BY <1>4, <1>5, <1>6, <1>7
  <2>2. QED
    BY <1>5, <1>6, <1>7, <2>1 DEF IsTree
<1>9. \A p \in DOMAIN t : IsDir(t, Front(p))
  BY <1>5, <1>6, <1>7 DEF IsDir
<1>10. QED
  BY <1>8, <1>9 DEF WellFormed

-----------------------------------------------------------------------------
(* The types *)

StackFrames == [path : Seq(Names), at : {"enter", "scan", "rmdir"}, was : SUBSET Names, seen : SUBSET Names]

Ops == {"DeletePath", "DeleteDirectoryIfEmpty", "CreateDirectoriesInPath", "PathResolveLinks"}

Jobs == [op : Ops, path : Asked, pc : {"start", "delete", "make", "read", "done"}, done : Nat, out : Seq(Names),
         result : {"OK", "NO_PERM", "NOTAFILE", "FAIL", "NOT_EMPTY", "DIR_CREATE", "false"}]

Others == [refused : Nat, added : SUBSET (Seq(Names) \ {<<>>})]

Where ==
  /\ job.op = "DeletePath" => job.pc \in {"start", "done"} /\ (job.pc = "done" <=> stack = <<>>)
  /\ job.op = "DeleteDirectoryIfEmpty" =>
       job.pc \in {"start", "delete", "done"} /\ (job.pc = "delete" <=> stack # <<>>)
  /\ job.op = "CreateDirectoriesInPath" =>
       job.pc \in {"start", "make", "done"} /\ stack = <<>> /\ (job.pc = "make" => job.done < Len(job.path))
  /\ job.op = "PathResolveLinks" => job.pc \in {"start", "read", "done"} /\ stack = <<>>
  /\ job.done <= Len(job.path)

Typed ==
  /\ WellFormed(tree) /\ WellFormed(first)
  /\ job \in Jobs /\ stack \in Seq(StackFrames) /\ events \in Others
  /\ Where

LEMMA AskedAre == TreeAssumption => \A p \in Asked : p \in Seq(Names) /\ Len(p) \in Nat
BY DEF TreeAssumption

LEMMA FrameIs ==
  ASSUME NEW p \in Seq(Names)
  PROVE  Frame(p) \in StackFrames /\ Frame(p).path = p /\ Frame(p).at = "enter" /\ Frame(p).seen = {} /\ Frame(p).was = {}
BY DEF Frame, StackFrames

LEMMA OneFrame ==
  ASSUME NEW f \in StackFrames
  PROVE  <<f>> \in Seq(StackFrames) /\ Len(<<f>>) = 1 /\ <<f>>[1] = f /\ <<f>> # <<>>
OBVIOUS

\* A frame is entered from the innermost one
LEMMA PushedFrames ==
  ASSUME NEW s \in Seq(StackFrames), s # <<>>, NEW f \in StackFrames, NEW g \in StackFrames, NEW w, w = <<f, g>> \o Tail(s)
  PROVE  /\ w \in Seq(StackFrames) /\ w # <<>> /\ Len(w) = Len(s) + 1 /\ w[1] = f /\ w[2] = g
         /\ \A i \in 3 .. Len(s) + 1 : w[i] = s[i - 1]
         /\ Len(s) \in Nat \ {0}
<1>1. Len(s) \in Nat \ {0}
  BY EmptySeq
<1>2. Tail(s) \in Seq(StackFrames) /\ Len(Tail(s)) = Len(s) - 1 /\ \A i \in 1 .. Len(s) - 1 : Tail(s)[i] = s[i + 1]
  BY HeadTailProperties
<1> DEFINE r == Tail(s)
           h == <<f, g>>
<1>3. h \in Seq(StackFrames) /\ Len(h) = 2 /\ h[1] = f /\ h[2] = g
  OBVIOUS
<1>4. r \in Seq(StackFrames) /\ Len(r) = Len(s) - 1 /\ \A i \in 1 .. Len(s) - 1 : r[i] = s[i + 1]
  BY <1>2
<1>5. w = h \o r
  OBVIOUS
<1> HIDE DEF h, r
<1>6. w \in Seq(StackFrames) /\ Len(w) = Len(h) + Len(r) /\ \A i \in 1 .. Len(h) + Len(r) : w[i] = IF i <= Len(h) THEN h[i] ELSE r[i - Len(h)]
  BY <1>3, <1>4, <1>5, ConcatProperties
<1>7. Len(w) = Len(s) + 1 /\ w[1] = f /\ w[2] = g
  BY <1>1, <1>3, <1>4, <1>6
<1>8. ASSUME NEW i \in 3 .. Len(s) + 1 PROVE w[i] = s[i - 1]
  <2>1. i - 2 \in 1 .. Len(s) - 1 /\ ~(i <= 2) /\ i - 2 + 1 = i - 1 /\ i \in 1 .. Len(s) + 1
    BY <1>1
  <2>2. w[i] = r[i - 2]
    BY <1>3, <1>4, <1>6, <1>7, <2>1
  <2>3. QED
    BY <1>4, <2>1, <2>2
<1>9. QED
  BY <1>1, <1>6, <1>7, <1>8

\* The innermost frame changes, but not its path
LEMMA TopFrame ==
  ASSUME NEW s \in Seq(StackFrames), s # <<>>
  PROVE  /\ Len(s) \in Nat \ {0} /\ s[1] \in StackFrames /\ s[1].path \in Seq(Names)
         /\ Tail(s) \in Seq(StackFrames) /\ Len(Tail(s)) = Len(s) - 1
         /\ \A i \in 1 .. Len(s) - 1 : Tail(s)[i] = s[i + 1]
         /\ (Tail(s) = <<>> <=> Len(s) = 1)
<1>1. Len(s) \in Nat \ {0}
  BY EmptySeq
<1>2. s[1] \in StackFrames
  BY <1>1
<1>3. Tail(s) \in Seq(StackFrames) /\ Len(Tail(s)) = Len(s) - 1 /\ \A i \in 1 .. Len(s) - 1 : Tail(s)[i] = s[i + 1]
  BY HeadTailProperties
<1>4. Tail(s) = <<>> <=> Len(Tail(s)) = 0
  BY <1>3, EmptySeq
<1>5. QED
  BY <1>1, <1>2, <1>3, <1>4 DEF StackFrames

LEMMA OtherFrame ==
  ASSUME NEW s \in Seq(StackFrames), s # <<>>, NEW f \in StackFrames
  PROVE  /\ [s EXCEPT ![1] = f] \in Seq(StackFrames) /\ Len([s EXCEPT ![1] = f]) = Len(s)
         /\ [s EXCEPT ![1] = f][1] = f /\ \A i \in 2 .. Len(s) : [s EXCEPT ![1] = f][i] = s[i]
         /\ [s EXCEPT ![1] = f] # <<>>
<1>1. Len(s) \in Nat \ {0}
  BY EmptySeq
<1> DEFINE w == [s EXCEPT ![1] = f]
<1>2. w \in Seq(StackFrames) /\ Len(w) = Len(s) /\ w[1] = f /\ \A i \in 2 .. Len(s) : w[i] = s[i]
  BY <1>1
<1> HIDE DEF w
<1>3. w # <<>>
  BY <1>1, <1>2, EmptySeq
<1>4. QED
  BY <1>2, <1>3 DEF w

-----------------------------------------------------------------------------
(* What the steps of h__DeletePath change *)

JobGoesOn ==
  /\ job' \in Jobs /\ job'.op = job.op /\ job'.path = job.path /\ job'.done = job.done /\ job'.out = job.out

Apart == events' \in Others /\ events'.added = events.added /\ (Quiet' => Quiet /\ events' = events)

Removes ==
  /\ Entry(tree, Top.path) \in DOMAIN tree /\ Childless(tree, Entry(tree, Top.path))
  /\ tree' = Without(tree, Entry(tree, Top.path))

FrameStays ==
  /\ stack' \in Seq(StackFrames) /\ stack' # <<>> /\ Len(stack') = Len(stack)
  /\ \A i \in 1 .. Len(stack) : stack'[i].path = stack[i].path
  /\ tree' = tree /\ job'.pc = job.pc /\ job'.result \in {job.result, "OK", "NO_PERM"}

FramePushed ==
  /\ stack' \in Seq(StackFrames) /\ stack' # <<>> /\ Len(stack') = Len(stack) + 1
  /\ \E n \in Names : stack'[1].path = Append(stack[1].path, n)
  /\ \A i \in 2 .. Len(stack) + 1 : stack'[i].path = stack[i - 1].path
  /\ tree' = tree /\ job' = job

FramePopped ==
  /\ stack' = Tail(stack)
  /\ job'.pc = IF Len(stack) = 1 THEN "done" ELSE job.pc
  /\ job'.result \in {job.result, "OK", "NO_PERM", "NOTAFILE", "FAIL"}
  /\ job'.result = "OK" => Removes
  /\ tree' = tree \/ Removes

DeletePathStep == EnterDirectory \/ Unlink \/ NextEntry \/ LastEntry \/ RemoveDirectory

LEMMA RefuseApart == ASSUME Typed, Refuse PROVE Apart /\ ~Quiet'
<1>1. events \in Others /\ events' = [events EXCEPT !.refused = @ + 1]
  BY DEF Typed, Refuse
<1>2. events'.refused = events.refused + 1 /\ events'.added = events.added /\ events' \in Others
  BY <1>1 DEF Others
<1>3. events'.refused # 0
  BY <1>1, <1>2 DEF Others
<1>4. QED
  BY <1>2, <1>3 DEF Apart, Quiet

LEMMA NoneApart == ASSUME Typed, events' = events PROVE Apart
BY DEF Apart, Typed, Quiet

Results == {"OK", "NO_PERM", "NOTAFILE", "FAIL", "NOT_EMPTY", "DIR_CREATE", "false"}

LEMMA JobSame ==
  ASSUME NEW j \in Jobs, NEW r \in Results, NEW k, k = [j EXCEPT !.result = r]
  PROVE  /\ k \in Jobs /\ k.op = j.op /\ k.path = j.path /\ k.done = j.done /\ k.out = j.out
         /\ k.pc = j.pc /\ k.result = r
BY DEF Jobs, Results

LEMMA ReturnsJob ==
  ASSUME Typed, NEW r \in Results, Returns(r)
  PROVE  JobGoesOn /\ job'.result = r /\ job'.pc = "done"
<1>1. job \in Jobs
  BY DEF Typed
<1>2. job' = [job EXCEPT !.pc = "done", !.result = r]
  BY DEF Returns
<1>3. QED
  BY <1>1, <1>2 DEF JobGoesOn, Jobs, Results

LEMMA PopJob ==
  ASSUME Typed, NEW r \in Results, Pop(r)
  PROVE  /\ JobGoesOn /\ job'.result = r /\ stack' = Tail(stack)
         /\ job'.pc = IF Len(stack) = 1 THEN "done" ELSE job.pc
<1>1. job \in Jobs
  BY DEF Typed
<1>2. CASE Len(stack) = 1
  BY <1>2, ReturnsJob DEF Pop
<1>3. CASE Len(stack) # 1
  <2>1. job' = [job EXCEPT !.result = r] /\ stack' = Tail(stack)
    BY <1>3 DEF Pop
  <2>2. QED
    BY <1>1, <1>3, <2>1, JobSame DEF JobGoesOn
<1>4. QED
  BY <1>2, <1>3

\* What the top frame's path names
LEMMA TopReached ==
  ASSUME TreeAssumption, Typed, stack # <<>>
  PROVE  /\ Top \in StackFrames /\ Top.path \in Seq(Names) /\ IsTree(tree)
         /\ Entry(tree, Top.path) \in DOMAIN tree \cup {<<>>, Nowhere}
         /\ Nowhere \notin DOMAIN tree \cup {<<>>}
         /\ Listing(tree, Top.path) \subseteq Names
<1>1. Top \in StackFrames /\ Top.path \in Seq(Names)
  BY TopFrame DEF Typed, Top
<1>2. IsTree(tree)
  BY DEF Typed, WellFormed
<1> DEFINE p == Top.path
<1>3. p \in Seq(Names)
  BY <1>1
<1> HIDE DEF p
<1>4. Entry(tree, p) \in DOMAIN tree \cup {<<>>, Nowhere} /\ Nowhere \notin DOMAIN tree \cup {<<>>}
  BY <1>2, <1>3, Reached
<1>5. QED
  BY <1>1, <1>2, <1>4 DEF Listing, p

\* Nothing is in what is no directory
LEMMA LeafChildless ==
  ASSUME NEW t, WellFormed(t), NEW y \in DOMAIN t, ~IsDir(t, y)
  PROVE  Childless(t, y)
<1>1. y \in Seq(Names)
  BY DEF WellFormed, IsTree
<1>2. ASSUME NEW n \in Names, Append(y, n) \in DOMAIN t PROVE FALSE
  <2>1. Front(Append(y, n)) = y
    BY <1>1, UnderChild
  <2>2. QED
    BY <1>2, <2>1 DEF WellFormed
<1>3. QED
  BY <1>2 DEF Childless

LEMMA EnterDirectoryStep ==
  ASSUME TreeAssumption, Typed, EnterDirectory
  PROVE  stack # <<>> /\ first' = first /\ JobGoesOn /\ Apart /\ FrameStays
<1>1. stack # <<>> /\ stack \in Seq(StackFrames) /\ job \in Jobs /\ tree' = tree /\ first' = first
  BY DEF EnterDirectory, Deleting, Typed
<1>2. Top \in StackFrames /\ Listing(tree, Top.path) \subseteq Names /\ Top = stack[1]
  BY <1>1, TopReached DEF Top
<1> DEFINE L == Listing(tree, Top.path)
<1>3. CASE /\ stack' = [stack EXCEPT ![1].at = "scan", ![1].was = Listing(tree, Top.path)]
           /\ job' = [job EXCEPT !.result = "OK"] /\ UNCHANGED events
  <2> DEFINE f == [Top EXCEPT !.at = "scan", !.was = L]
  <2>1. stack' = [stack EXCEPT ![1].at = "scan", ![1].was = L] /\ L \subseteq Names
    BY <1>2, <1>3
  <2> HIDE DEF L
  <2>2. stack' = [stack EXCEPT ![1] = f]
    BY <1>1, <1>2, <2>1
  <2>3. f \in StackFrames /\ f.path = Top.path
    BY <1>2, <2>1 DEF StackFrames
  <2> HIDE DEF f
  <2>4. FrameStays
    <3>1. \A i \in 1 .. Len(stack) : stack'[i].path = stack[i].path
      BY <1>1, <1>2, <2>2, <2>3, OtherFrame
    <3>2. stack' \in Seq(StackFrames) /\ stack' # <<>> /\ Len(stack') = Len(stack)
      BY <1>1, <2>2, <2>3, OtherFrame
    <3>3. job'.pc = job.pc /\ job'.result = "OK"
      BY <1>1, <1>3, JobSame DEF Results
    <3>4. QED
      BY <1>1, <3>1, <3>2, <3>3 DEF FrameStays
  <2>5. JobGoesOn
    BY <1>1, <1>3, JobSame DEF JobGoesOn, Results
  <2>6. QED
    BY <1>1, <1>3, <2>4, <2>5, NoneApart
<1>4. CASE Refuse /\ stack' = [stack EXCEPT ![1].at = "rmdir"] /\ job' = [job EXCEPT !.result = "NO_PERM"]
  <2> DEFINE f == [Top EXCEPT !.at = "rmdir"]
  <2>1. stack' = [stack EXCEPT ![1] = f]
    BY <1>1, <1>2, <1>4
  <2>2. f \in StackFrames /\ f.path = Top.path
    BY <1>2 DEF StackFrames
  <2> HIDE DEF f
  <2>3. FrameStays
    <3>1. \A i \in 1 .. Len(stack) : stack'[i].path = stack[i].path
      BY <1>1, <1>2, <2>1, <2>2, OtherFrame
    <3>2. stack' \in Seq(StackFrames) /\ stack' # <<>> /\ Len(stack') = Len(stack)
      BY <1>1, <2>1, <2>2, OtherFrame
    <3>3. job'.pc = job.pc /\ job'.result = "NO_PERM"
      BY <1>1, <1>4, JobSame DEF Results
    <3>4. QED
      BY <1>1, <3>1, <3>2, <3>3 DEF FrameStays
  <2>4. JobGoesOn
    BY <1>1, <1>4, JobSame DEF JobGoesOn, Results
  <2>5. QED
    BY <1>1, <1>4, <2>3, <2>4, RefuseApart
<1>5. QED
  BY <1>3, <1>4 DEF EnterDirectory

LEMMA LastEntryStep ==
  ASSUME TreeAssumption, Typed, LastEntry
  PROVE  stack # <<>> /\ first' = first /\ JobGoesOn /\ Apart /\ FrameStays
<1>1. stack # <<>> /\ stack \in Seq(StackFrames) /\ job \in Jobs /\ tree' = tree /\ first' = first /\ job' = job
      /\ events' = events /\ stack' = [stack EXCEPT ![1].at = "rmdir"]
  BY DEF LastEntry, Deleting, Typed
<1>2. Top \in StackFrames /\ Top = stack[1]
  BY <1>1, TopReached DEF Top
<1> DEFINE f == [Top EXCEPT !.at = "rmdir"]
<1>3. stack' = [stack EXCEPT ![1] = f]
  BY <1>1, <1>2
<1>4. f \in StackFrames /\ f.path = Top.path
  BY <1>2 DEF StackFrames
<1> HIDE DEF f
<1>5. FrameStays
  <2>1. \A i \in 1 .. Len(stack) : stack'[i].path = stack[i].path
    BY <1>1, <1>2, <1>3, <1>4, OtherFrame
  <2>2. stack' \in Seq(StackFrames) /\ stack' # <<>> /\ Len(stack') = Len(stack)
    BY <1>1, <1>3, <1>4, OtherFrame
  <2>3. QED
    BY <1>1, <2>1, <2>2 DEF FrameStays
<1>6. QED
  BY <1>1, <1>5, NoneApart DEF JobGoesOn

LEMMA NextEntryStep ==
  ASSUME TreeAssumption, Typed, NextEntry
  PROVE  stack # <<>> /\ first' = first /\ JobGoesOn /\ Apart /\ FramePushed
<1>1. stack # <<>> /\ stack \in Seq(StackFrames) /\ job \in Jobs /\ tree' = tree /\ first' = first /\ job' = job
      /\ events' = events
  BY DEF NextEntry, Deleting, Typed
<1>2. Top \in StackFrames /\ Top.path \in Seq(Names) /\ Top = stack[1] /\ Listing(tree, Top.path) \subseteq Names
      /\ Top.was \subseteq Names
  BY <1>1, TopReached DEF Top, StackFrames
<1>3. PICK n \in (Top.was \cup Listing(tree, Top.path)) \ Top.seen :
        stack' = <<Frame(Child(Top.path, n)), [Top EXCEPT !.seen = @ \cup {n}]>> \o Tail(stack)
  BY DEF NextEntry
<1> DEFINE f == Frame(Child(Top.path, n))
           g == [Top EXCEPT !.seen = @ \cup {n}]
<1>4. n \in Names
  BY <1>2, <1>3
<1>5. f \in StackFrames /\ f.path = Append(Top.path, n)
  <2>1. Append(Top.path, n) \in Seq(Names)
    BY <1>2, <1>4
  <2>2. QED
    BY <2>1, FrameIs DEF Child
<1>6. g \in StackFrames /\ g.path = Top.path
  BY <1>2, <1>4 DEF StackFrames
<1> HIDE DEF f, g
<1>7. stack' = <<f, g>> \o Tail(stack)
  BY <1>3 DEF f, g
<1>8. /\ stack' \in Seq(StackFrames) /\ stack' # <<>> /\ Len(stack') = Len(stack) + 1
      /\ stack'[1] = f /\ stack'[2] = g /\ (\A i \in 3 .. Len(stack) + 1 : stack'[i] = stack[i - 1])
      /\ Len(stack) \in Nat \ {0}
  BY <1>1, <1>5, <1>6, <1>7, PushedFrames
<1>9. ASSUME NEW i \in 2 .. Len(stack) + 1 PROVE stack'[i].path = stack[i - 1].path
  <2>1. CASE i = 2
    BY <1>2, <1>6, <1>8, <2>1
  <2>2. CASE i # 2
    BY <1>8, <2>2
  <2>3. QED
    BY <2>1, <2>2
<1>10. FramePushed
  BY <1>1, <1>2, <1>4, <1>5, <1>8, <1>9 DEF FramePushed
<1>11. QED
  BY <1>1, <1>10, NoneApart DEF JobGoesOn

LEMMA UnlinkStep ==
  ASSUME TreeAssumption, Typed, Unlink
  PROVE  stack # <<>> /\ first' = first /\ JobGoesOn /\ Apart /\ FramePopped
<1>1. stack # <<>> /\ first' = first
  BY DEF Unlink, Deleting
<1> DEFINE y == Entry(tree, Top.path)
<1>2. y \in DOMAIN tree \cup {<<>>, Nowhere} /\ WellFormed(tree)
  BY <1>1, TopReached DEF Typed
<1>3. \/ y = Nowhere /\ Pop("NOTAFILE") /\ UNCHANGED <<tree, events>>
      \/ y # Nowhere /\ ~IsDir(tree, y) /\ tree' = Without(tree, y) /\ Pop("OK") /\ UNCHANGED events
      \/ y # Nowhere /\ IsDir(tree, y) /\ Pop("FAIL") /\ UNCHANGED <<tree, events>>
      \/ y # Nowhere /\ Refuse /\ Pop("NO_PERM") /\ UNCHANGED tree
  BY DEF Unlink
<1> HIDE DEF y
<1>4. CASE y = Nowhere /\ Pop("NOTAFILE") /\ UNCHANGED <<tree, events>>
  BY <1>1, <1>4, PopJob, NoneApart DEF FramePopped, Results
<1>5. CASE y # Nowhere /\ ~IsDir(tree, y) /\ tree' = Without(tree, y) /\ Pop("OK") /\ UNCHANGED events
  <2>1. y \in DOMAIN tree
    BY <1>2, <1>5 DEF IsDir
  <2>2. Childless(tree, y)
    BY <1>2, <1>5, <2>1, LeafChildless
  <2>3. Removes
    BY <1>5, <2>1, <2>2 DEF Removes, y
  <2>4. QED
    BY <1>1, <1>5, <2>3, PopJob, NoneApart DEF FramePopped, Results
<1>6. CASE y # Nowhere /\ IsDir(tree, y) /\ Pop("FAIL") /\ UNCHANGED <<tree, events>>
  BY <1>1, <1>6, PopJob, NoneApart DEF FramePopped, Results
<1>7. CASE y # Nowhere /\ Refuse /\ Pop("NO_PERM") /\ UNCHANGED tree
  BY <1>1, <1>7, PopJob, RefuseApart DEF FramePopped, Results
<1>8. QED
  BY <1>3, <1>4, <1>5, <1>6, <1>7

LEMMA RemoveDirectoryStep ==
  ASSUME TreeAssumption, Typed, RemoveDirectory
  PROVE  stack # <<>> /\ first' = first /\ JobGoesOn /\ Apart /\ FramePopped
<1>1. stack # <<>> /\ first' = first
  BY DEF RemoveDirectory, Deleting
<1> DEFINE y == Entry(tree, Top.path)
           p == Top.path
<1>2. y \in DOMAIN tree \cup {<<>>, Nowhere} /\ p \in Seq(Names) /\ IsTree(tree) /\ y = Entry(tree, p)
      /\ WellFormed(tree)
  BY <1>1, TopReached DEF Typed
<1>3. \/ Pop("NOTAFILE") /\ UNCHANGED <<tree, events>>
      \/ Pop("FAIL") /\ UNCHANGED <<tree, events>>
      \/ /\ y \in DOMAIN tree /\ IsDir(tree, y) /\ Listing(tree, p) = {}
         /\ tree' = Without(tree, y) /\ Pop(job.result) /\ UNCHANGED events
      \/ Refuse /\ Pop("NO_PERM") /\ UNCHANGED tree
  BY DEF RemoveDirectory
<1> HIDE DEF y, p
<1>4. CASE Pop("NOTAFILE") /\ UNCHANGED <<tree, events>>
  BY <1>1, <1>4, PopJob, NoneApart DEF FramePopped, Results
<1>5. CASE Pop("FAIL") /\ UNCHANGED <<tree, events>>
  BY <1>1, <1>5, PopJob, NoneApart DEF FramePopped, Results
<1>6. CASE /\ y \in DOMAIN tree /\ IsDir(tree, y) /\ Listing(tree, p) = {}
           /\ tree' = Without(tree, y) /\ Pop(job.result) /\ UNCHANGED events
  <2>1. y # Nowhere /\ NoLink(tree, y)
    <3>1. y # Nowhere
      BY <1>2, <1>6, Reached
    <3>2. y # <<>>
      BY <1>2, <1>6 DEF IsTree
    <3>3. QED
      BY <1>6, <3>1, <3>2 DEF NoLink, IsDir
  <2>2. Target(tree, p) = y
    BY <1>2, <2>1, Reached
  <2>3. Childless(tree, y)
    BY <1>6, <2>2 DEF Childless, Listing
  <2>4. Removes
    BY <1>6, <2>3 DEF Removes, y
  <2>5. job.result \in Results
    BY DEF Typed, Jobs, Results
  <2>6. QED
    BY <1>1, <1>6, <2>4, <2>5, PopJob, NoneApart DEF FramePopped
<1>7. CASE Refuse /\ Pop("NO_PERM") /\ UNCHANGED tree
  BY <1>1, <1>7, PopJob, RefuseApart DEF FramePopped, Results
<1>8. QED
  BY <1>3, <1>4, <1>5, <1>6, <1>7

\* A step of h__DeletePath keeps the tree or takes what the innermost directory's
\* path names, in which there is nothing, and it changes the frames by one
LEMMA DeletePathSteps ==
  ASSUME TreeAssumption, Typed, DeletePathStep
  PROVE  /\ stack # <<>> /\ first' = first /\ JobGoesOn /\ Apart
         /\ FrameStays \/ FramePushed \/ FramePopped
BY EnterDirectoryStep, LastEntryStep, NextEntryStep, UnlinkStep, RemoveDirectoryStep DEF DeletePathStep

LEMMA OnlyDeleting ==
  ASSUME DeletePathStep
  PROVE  job.op \in {"DeletePath", "DeleteDirectoryIfEmpty"}
BY DEF DeletePathStep, EnterDirectory, Unlink, NextEntry, LastEntry, RemoveDirectory, Deleting

LEMMA RemovesWell ==
  ASSUME TreeAssumption, Typed, Removes
  PROVE  WellFormed(tree') /\ DOMAIN tree' = DOMAIN tree \ {Entry(tree, Top.path)}
         /\ \A p \in DOMAIN tree' : tree'[p] = tree[p]
<1> DEFINE y == Entry(tree, Top.path)
<1>1. WellFormed(tree) /\ Childless(tree, y) /\ tree' = Without(tree, y)
  BY DEF Removes, Typed
<1> HIDE DEF y
<1>2. WellFormed(Without(tree, y)) /\ DOMAIN Without(tree, y) = DOMAIN tree \ {y} /\ Part(Without(tree, y), tree)
  BY <1>1, WithoutWell
<1>3. QED
  BY <1>1, <1>2 DEF Part, y

LEMMA DeletePathTyped ==
  ASSUME TreeAssumption, Typed, DeletePathStep
  PROVE  Typed'
<1>1. stack # <<>> /\ first' = first /\ JobGoesOn /\ Apart /\ (FrameStays \/ FramePushed \/ FramePopped)
  BY DeletePathSteps
<1>2. stack \in Seq(StackFrames) /\ job.op \in {"DeletePath", "DeleteDirectoryIfEmpty"} /\ Where /\ Len(stack) \in Nat \ {0}
  BY <1>1, OnlyDeleting, TopFrame DEF Typed
<1>3. job.pc # "done" /\ (job.op = "DeletePath" => job.pc = "start")
      /\ (job.op = "DeleteDirectoryIfEmpty" => job.pc = "delete")
  BY <1>1, <1>2 DEF Where
<1>4. WellFormed(tree')
  BY <1>1, RemovesWell DEF FrameStays, FramePushed, FramePopped, Typed
<1>5. stack' \in Seq(StackFrames)
  BY <1>1, <1>2, TopFrame DEF FrameStays, FramePushed, FramePopped
<1>6. Where'
  <2>1. job'.op = job.op /\ job'.path = job.path /\ job'.done = job.done
    BY <1>1 DEF JobGoesOn
  <2>2. CASE FrameStays \/ FramePushed
    <3>1. stack' # <<>> /\ job'.pc = job.pc
      BY <2>2 DEF FrameStays, FramePushed
    <3>2. QED
      BY <1>1, <1>2, <1>3, <2>1, <3>1 DEF Where
  <2>3. CASE FramePopped
    <3>1. stack' = <<>> <=> Len(stack) = 1
      BY <1>1, <1>2, <2>3, TopFrame DEF FramePopped
    <3>2. job'.pc = IF Len(stack) = 1 THEN "done" ELSE job.pc
      BY <2>3 DEF FramePopped
    <3>3. QED
      BY <1>2, <1>3, <2>1, <3>1, <3>2 DEF Where
  <2>4. QED
    BY <1>1, <2>2, <2>3
<1>7. WellFormed(first') /\ job' \in Jobs /\ events' \in Others
  BY <1>1 DEF Typed, JobGoesOn, Apart
<1>8. QED
  BY <1>4, <1>5, <1>6, <1>7 DEF Typed

\* What another program adds
LEMMA OtherSteps ==
  ASSUME TreeAssumption, Typed, Other
  PROVE  \E at \in Seq(Names) \ {<<>>} : \E node \in {File, Dir} :
           /\ at \notin DOMAIN tree /\ IsDir(tree, Front(at)) /\ tree' = With(tree, at, node)
           /\ events'.added = events.added \cup {at} /\ events' \in Others /\ ~Quiet'
           /\ WellFormed(tree') /\ Part(tree, tree')
<1>1. PICK at \in Paths \ DOMAIN tree : \E node \in {File, Dir} :
        IsDir(tree, Front(at)) /\ tree' = With(tree, at, node) /\ events' = [events EXCEPT !.added = @ \cup {at}]
  BY DEF Other
<1>2. PICK node \in {File, Dir} :
        IsDir(tree, Front(at)) /\ tree' = With(tree, at, node) /\ events' = [events EXCEPT !.added = @ \cup {at}]
  BY <1>1
<1>3. at \in Seq(Names) /\ at # <<>> /\ at \notin DOMAIN tree
  <2>1. at \notin DOMAIN tree /\ ((\E n \in Names : at = <<n>>) \/ (\E n, m \in Names : at = <<n, m>>))
    BY <1>1 DEF Paths
  <2>2. CASE \E n \in Names : at = <<n>>
    BY <2>1, <2>2, ShortPaths
  <2>3. CASE \E n, m \in Names : at = <<n, m>>
    BY <2>1, <2>3, ShortPaths
  <2>4. QED
    BY <2>1, <2>2, <2>3
<1>4. WellFormed(tree') /\ Part(tree, tree')
  BY <1>2, <1>3, WithWell DEF Typed
<1>5. events'.added = events.added \cup {at} /\ events' \in Others
  BY <1>2, <1>3 DEF Typed, Others
<1>6. ~Quiet'
  BY <1>5 DEF Quiet
<1>7. QED
  BY <1>2, <1>3, <1>4, <1>5, <1>6

LEMMA OtherTyped ==
  ASSUME TreeAssumption, Typed, Other
  PROVE  Typed'
<1>1. WellFormed(tree') /\ events' \in Others
  BY OtherSteps
<1>2. job' = job /\ stack' = stack /\ first' = first
  BY DEF Other
<1>3. QED
  BY <1>1, <1>2 DEF Typed, Where

LEMMA CheckEmptyTyped ==
  ASSUME TreeAssumption, Typed, CheckEmpty
  PROVE  Typed'
<1>1. job.op = "DeleteDirectoryIfEmpty" /\ job.pc = "start" /\ tree' = tree /\ first' = first /\ stack = <<>>
      /\ job \in Jobs /\ Where
  BY DEF CheckEmpty, Typed, Where
<1>2. CASE \E r \in {"NOTAFILE", "NO_PERM", "NOT_EMPTY"} : Returns(r) /\ stack' = stack /\ events' \in Others
  <2>1. PICK r \in {"NOTAFILE", "NO_PERM", "NOT_EMPTY"} : Returns(r) /\ stack' = stack /\ events' \in Others
    BY <1>2
  <2>2. JobGoesOn /\ job'.pc = "done"
    BY <2>1, ReturnsJob DEF Results
  <2>3. Where'
    BY <1>1, <2>1, <2>2 DEF Where, JobGoesOn
  <2>4. QED
    BY <1>1, <2>1, <2>2, <2>3 DEF Typed, JobGoesOn
<1>3. CASE job' = [job EXCEPT !.pc = "delete"] /\ stack' = <<Frame(job.path)>> /\ UNCHANGED events
  <2>1. job.path \in Seq(Names) /\ job.done <= Len(job.path)
    BY <1>1, AskedAre DEF Jobs, Where
  <2>2. job' \in Jobs /\ job'.pc = "delete" /\ job'.op = job.op /\ job'.path = job.path /\ job'.done = job.done
    BY <1>1, <1>3 DEF Jobs
  <2>3. stack' \in Seq(StackFrames) /\ stack' # <<>>
    BY <1>3, <2>1, FrameIs, OneFrame
  <2>4. Where'
    BY <1>1, <2>1, <2>2, <2>3 DEF Where
  <2>5. QED
    BY <1>1, <1>3, <2>2, <2>3, <2>4 DEF Typed
<1>4. QED
  <2>1. \/ Returns("NOTAFILE") /\ UNCHANGED <<stack, events>>
        \/ Refuse /\ Returns("NO_PERM") /\ UNCHANGED stack
        \/ Returns("NOT_EMPTY") /\ UNCHANGED <<stack, events>>
        \/ job' = [job EXCEPT !.pc = "delete"] /\ stack' = <<Frame(job.path)>> /\ UNCHANGED events
    BY DEF CheckEmpty
  <2>2. events \in Others /\ (Refuse => events' \in Others)
    BY RefuseApart DEF Typed, Apart
  <2>3. QED
    BY <1>2, <1>3, <2>1, <2>2

LEMMA PrefixIs ==
  ASSUME TreeAssumption, Typed, NEW k \in 0 .. Len(job.path)
  PROVE  /\ job.path \in Seq(Names) /\ Prefix(k) \in Seq(Names) /\ Len(Prefix(k)) = k
         /\ (k # 0 => Prefix(k) # <<>> /\ Front(Prefix(k)) = Prefix(k - 1))
         /\ (k = 0 => Prefix(k) = <<>>)
         /\ (k = Len(job.path) => Prefix(k) = job.path)
<1> DEFINE p == job.path
<1>1. p \in Seq(Names) /\ Len(p) \in Nat
  BY AskedAre DEF Typed, Jobs
<1> HIDE DEF p
<1>2. k \in 0 .. Len(p)
  BY DEF p
<1> DEFINE q == SubSeq(p, 1, k)
<1>3. q \in Seq(Names) /\ Len(q) = k /\ \A i \in 1 .. k : q[i] = p[i]
  <2>1. \A i \in 1 .. k : p[i] \in Names
    BY <1>1, <1>2
  <2>2. QED
    BY <1>1, <1>2, <2>1
<1>4. k # 0 => q # <<>> /\ Front(q) = SubSeq(p, 1, k - 1)
  <2>1. SUFFICES ASSUME k # 0 PROVE q # <<>> /\ Front(q) = SubSeq(p, 1, k - 1)
    OBVIOUS
  <2> HIDE DEF q
  <2>2. q # <<>> /\ Front(q) = SubSeq(q, 1, k - 1)
    BY <1>2, <1>3, <2>1, EmptySeq DEF Front
  <2>3. SubSeq(q, 1, k - 1) = [i \in 1 .. k - 1 |-> q[i]] /\ SubSeq(p, 1, k - 1) = [i \in 1 .. k - 1 |-> p[i]]
    BY <1>1, <1>2, <1>3, <2>1
  <2>4. \A i \in 1 .. k - 1 : i \in 1 .. k
    BY <1>2
  <2>5. QED
    BY <1>3, <2>2, <2>3, <2>4
<1>5. k = 0 => q = <<>>
  BY <1>3, EmptySeq
<1>6. k = Len(p) => q = p
  BY <1>1, SubSeqFull
<1>7. QED
  BY <1>1, <1>3, <1>4, <1>5, <1>6 DEF Prefix, p

\* Another name of the path, in CreateDirectoriesInPath
LEMMA LookTyped ==
  ASSUME TreeAssumption, Typed, Look
  PROVE  Typed'
<1>1. job.op = "CreateDirectoriesInPath" /\ job.pc = "start" /\ UNCHANGED <<tree, stack, first, events>>
      /\ job \in Jobs /\ Where /\ job.path \in Seq(Names) /\ Len(job.path) \in Nat /\ job.done \in Nat
  BY AskedAre DEF Look, Creating, Typed, Jobs
<1>2. CASE job.done = Len(job.path)
  <2>1. Returns("OK")
    BY <1>2 DEF Look
  <2>2. JobGoesOn /\ job'.pc = "done"
    BY <2>1, ReturnsJob DEF Results
  <2>3. Where'
    BY <1>1, <2>2 DEF Where, JobGoesOn
  <2>4. QED
    BY <1>1, <2>2, <2>3 DEF Typed, JobGoesOn
<1>3. CASE job.done # Len(job.path)
  <2>1. job' = [job EXCEPT !.done = @ + 1] \/ job' = [job EXCEPT !.pc = "make"]
    BY <1>3 DEF Look
  <2>2. job.done < Len(job.path)
    BY <1>1, <1>3 DEF Where
  <2>3. CASE job' = [job EXCEPT !.done = @ + 1]
    <3>1. job' \in Jobs /\ job'.op = job.op /\ job'.path = job.path /\ job'.pc = job.pc /\ job'.done = job.done + 1
      BY <1>1, <2>3 DEF Jobs
    <3>2. Where'
      BY <1>1, <2>2, <3>1 DEF Where
    <3>3. QED
      BY <1>1, <3>1, <3>2 DEF Typed
  <2>4. CASE job' = [job EXCEPT !.pc = "make"]
    <3>1. job' \in Jobs /\ job'.op = job.op /\ job'.path = job.path /\ job'.pc = "make" /\ job'.done = job.done
      BY <1>1, <2>4 DEF Jobs
    <3>2. Where'
      BY <1>1, <2>2, <3>1 DEF Where
    <3>3. QED
      BY <1>1, <3>1, <3>2 DEF Typed
  <2>5. QED
    BY <2>1, <2>3, <2>4
<1>4. QED
  BY <1>2, <1>3

\* mkdir adds a directory at the next start of the path, or fails
LEMMA MakeDirectorySteps ==
  ASSUME TreeAssumption, Typed, MakeDirectory
  PROVE  /\ stack' = stack /\ first' = first /\ events' \in Others /\ events'.added = events.added
         /\ job.op = "CreateDirectoriesInPath" /\ job.done + 1 \in 1 .. Len(job.path)
         /\ \/ tree' = tree /\ Returns("DIR_CREATE")
            \/ /\ WellFormed(tree') /\ Part(tree, tree') /\ job' = [job EXCEPT !.pc = "start", !.done = @ + 1]
               /\ PathIsDirectory(tree', Prefix(job.done + 1))
<1> DEFINE k == job.done
           path == Prefix(k + 1)
           parent == Target(tree, Front(path))
           n == Last(path)
           at == Append(parent, n)
<1>1. job.op = "CreateDirectoriesInPath" /\ job.pc = "make" /\ stack' = stack /\ first' = first
      /\ job \in Jobs /\ Where /\ job.path \in Seq(Names) /\ Len(job.path) \in Nat /\ k \in Nat
  BY AskedAre DEF MakeDirectory, Creating, Typed, Jobs
<1>2. k + 1 \in 1 .. Len(job.path) /\ k \in 0 .. Len(job.path) /\ k + 1 \in 0 .. Len(job.path) /\ k + 1 - 1 = k /\ k + 1 # 0
  BY <1>1 DEF Where
<1>3. path \in Seq(Names) /\ path # <<>> /\ Front(path) = Prefix(k) /\ Prefix(k) \in Seq(Names)
  BY <1>2, PrefixIs
<1>4. events \in Others
  BY DEF Typed
<1>5. n \in Names /\ path = Append(Prefix(k), n)
  BY <1>3, PathParts
<1>6. CASE UNCHANGED <<tree, events>> /\ Returns("DIR_CREATE")
  BY <1>1, <1>2, <1>4, <1>6
<1>7. CASE Refuse /\ Returns("DIR_CREATE") /\ UNCHANGED tree
  BY <1>1, <1>2, <1>7, RefuseApart DEF Apart
<1>8. CASE /\ parent # Nowhere /\ IsDir(tree, parent) /\ at \notin DOMAIN tree /\ tree' = With(tree, at, Dir)
           /\ job' = [job EXCEPT !.pc = "start", !.done = @ + 1] /\ UNCHANGED events
  <2>1. parent \in Seq(Names) /\ IsTree(tree) /\ WellFormed(tree)
    <3>1. IsTree(tree) /\ WellFormed(tree)
      BY DEF Typed, WellFormed
    <3>2. parent \in DOMAIN tree \cup {<<>>, Nowhere}
      BY <1>3, <3>1, Reached
    <3>3. <<>> \in Seq(Names)
      OBVIOUS
    <3>4. QED
      BY <1>8, <3>1, <3>2, <3>3 DEF IsTree
  <2> HIDE DEF parent
  <2>2. at \in Seq(Names) /\ at # <<>> /\ Front(at) = parent
    <3>1. at \in Seq(Names) /\ Len(at) = Len(parent) + 1 /\ Front(at) = parent
      BY <1>5, <2>1, UnderChild
    <3>2. at # <<>>
      BY <2>1, <3>1, EmptySeq
    <3>3. QED
      BY <3>1, <3>2
  <2>3. Dir \in {File, Dir}
    OBVIOUS
  <2> HIDE DEF at, n, path, k
  <2>4. WellFormed(tree') /\ Part(tree, tree')
    BY <1>8, <2>1, <2>2, <2>3, WithWell
  <2>5. at \in DOMAIN tree' /\ tree'[at] = Dir
    BY <1>8 DEF With
  <2>6. PathIsDirectory(tree', Prefix(k)) /\ Target(tree', Prefix(k)) = parent
    <3>1. Target(tree, Prefix(k)) = parent /\ PathIsDirectory(tree, Prefix(k))
      BY <1>3, <1>8 DEF parent, PathIsDirectory
    <3>2. IsTree(tree')
      BY <2>4 DEF WellFormed
    <3>3. QED
      BY <1>3, <1>8, <2>1, <2>4, <3>1, <3>2, ReachedInPart
  <2>7. Entry(tree', path) = at
    <3>1. IsTree(tree')
      BY <2>4 DEF WellFormed
    <3>2. at = Append(parent, n)
      BY DEF at
    <3>3. QED
      BY <1>3, <1>5, <2>5, <2>6, <3>1, <3>2, EntryOfChild
  <2>8. PathIsDirectory(tree', path)
    <3>1. IsTree(tree') /\ tree'[at].type = "dir"
      BY <2>4, <2>5 DEF WellFormed, Dir
    <3>2. at # Nowhere
      BY <2>5, <3>1, <1>3, Reached
    <3>3. NoLink(tree', at)
      BY <3>1 DEF NoLink
    <3>4. Target(tree', path) = at
      BY <1>3, <2>7, <3>1, <3>2, <3>3, Reached
    <3>5. QED
      BY <2>5, <3>1, <3>2, <3>4 DEF PathIsDirectory, IsDir
  <2>9. QED
    BY <1>1, <1>2, <1>4, <1>8, <2>4, <2>8 DEF path, k
<1>9. QED
  <2>1. \/ UNCHANGED <<tree, events>> /\ Returns("DIR_CREATE")
        \/ Refuse /\ Returns("DIR_CREATE") /\ UNCHANGED tree
        \/ /\ parent # Nowhere /\ IsDir(tree, parent) /\ at \notin DOMAIN tree /\ tree' = With(tree, at, Dir)
           /\ job' = [job EXCEPT !.pc = "start", !.done = @ + 1] /\ UNCHANGED events
    BY DEF MakeDirectory
  <2> HIDE DEF at, parent
  <2>2. QED
    BY <1>6, <1>7, <1>8, <2>1

LEMMA MakeDirectoryTyped ==
  ASSUME TreeAssumption, Typed, MakeDirectory
  PROVE  Typed'
<1>1. /\ stack' = stack /\ first' = first /\ events' \in Others
      /\ job.op = "CreateDirectoriesInPath" /\ job.done + 1 \in 1 .. Len(job.path)
      /\ \/ tree' = tree /\ Returns("DIR_CREATE")
         \/ WellFormed(tree') /\ job' = [job EXCEPT !.pc = "start", !.done = @ + 1]
  BY MakeDirectorySteps
<1>2. job \in Jobs /\ Where /\ WellFormed(tree) /\ WellFormed(first) /\ stack \in Seq(StackFrames)
  BY DEF Typed
<1>3. CASE tree' = tree /\ Returns("DIR_CREATE")
  <2>1. JobGoesOn /\ job'.pc = "done"
    BY <1>3, ReturnsJob DEF Results
  <2>2. Where'
    BY <1>1, <1>2, <2>1 DEF Where, JobGoesOn
  <2>3. QED
    BY <1>1, <1>2, <1>3, <2>1, <2>2 DEF Typed, JobGoesOn
<1>4. CASE WellFormed(tree') /\ job' = [job EXCEPT !.pc = "start", !.done = @ + 1]
  <2>1. job' \in Jobs /\ job'.op = job.op /\ job'.path = job.path /\ job'.pc = "start" /\ job'.done = job.done + 1
    <3>1. job.done + 1 \in Nat
      BY <1>2 DEF Jobs
    <3> DEFINE d == job.done + 1
    <3>2. job' = [job EXCEPT !.pc = "start", !.done = d] /\ d \in Nat /\ job \in Jobs
      BY <1>2, <1>4, <3>1
    <3> HIDE DEF d
    <3>3. job' \in Jobs /\ job'.op = job.op /\ job'.path = job.path /\ job'.pc = "start" /\ job'.done = d
      BY ONLY <3>2 DEF Jobs
    <3>4. QED
      BY <3>3 DEF d
  <2>2. Where'
    <3>1. job.done \in Nat /\ job.done + 1 <= Len(job.path)
      BY <1>1, <1>2 DEF Jobs
    <3>2. QED
      BY <1>1, <1>2, <2>1, <3>1 DEF Where
  <2>3. QED
    BY <1>1, <1>2, <1>4, <2>1, <2>2 DEF Typed
<1>5. QED
  BY <1>1, <1>3, <1>4

LEMMA TakeNameTyped ==
  ASSUME TreeAssumption, Typed, TakeName
  PROVE  Typed'
<1>1. job.op = "PathResolveLinks" /\ job.pc = "start" /\ UNCHANGED <<tree, stack, first, events>>
      /\ job \in Jobs /\ Where /\ job.path \in Seq(Names) /\ Len(job.path) \in Nat /\ job.done \in Nat
      /\ job.out \in Seq(Names)
  BY AskedAre DEF TakeName, Resolving, Typed, Jobs
<1>2. CASE job.done = Len(job.path)
  <2>1. Returns("OK")
    BY <1>2 DEF TakeName
  <2>2. JobGoesOn /\ job'.pc = "done"
    BY <2>1, ReturnsJob DEF Results
  <2>3. Where'
    BY <1>1, <2>2 DEF Where, JobGoesOn
  <2>4. QED
    BY <1>1, <2>2, <2>3 DEF Typed, JobGoesOn
<1>3. CASE job.done # Len(job.path)
  <2>1. job' = [job EXCEPT !.pc = "read", !.done = @ + 1, !.out = Append(@, job.path[job.done + 1])]
    BY <1>3 DEF TakeName
  <2>2. job.done + 1 \in 1 .. Len(job.path)
    BY <1>1, <1>3 DEF Where
  <2>3. Append(job.out, job.path[job.done + 1]) \in Seq(Names)
    BY <1>1, <2>2
  <2>4. job' \in Jobs /\ job'.op = job.op /\ job'.path = job.path /\ job'.pc = "read" /\ job'.done = job.done + 1
    <3>1. job.done + 1 \in Nat
      BY <1>1
    <3> DEFINE d == job.done + 1
               o == Append(job.out, job.path[job.done + 1])
    <3>2. job' = [job EXCEPT !.pc = "read", !.done = d, !.out = o] /\ d \in Nat /\ o \in Seq(Names) /\ job \in Jobs
      BY <1>1, <2>1, <2>3, <3>1
    <3> HIDE DEF d, o
    <3>3. job' \in Jobs /\ job'.op = job.op /\ job'.path = job.path /\ job'.pc = "read" /\ job'.done = d
      BY ONLY <3>2 DEF Jobs
    <3>4. QED
      BY <3>3 DEF d
  <2>5. Where'
    BY <1>1, <2>2, <2>4 DEF Where
  <2>6. QED
    BY <1>1, <2>4, <2>5 DEF Typed
<1>4. QED
  BY <1>2, <1>3

LEMMA ReadLinkTyped ==
  ASSUME TreeAssumption, Typed, ReadLink
  PROVE  Typed'
<1> DEFINE at == Entry(tree, job.out)
<1>1. job.op = "PathResolveLinks" /\ job.pc = "read" /\ UNCHANGED <<tree, stack, first, events>>
      /\ job \in Jobs /\ Where /\ IsTree(tree)
  BY DEF ReadLink, Resolving, Typed, WellFormed
<1>2. CASE Returns("false")
  <2>1. JobGoesOn /\ job'.pc = "done"
    BY <1>2, ReturnsJob DEF Results
  <2>2. Where'
    BY <1>1, <2>1 DEF Where, JobGoesOn
  <2>3. QED
    BY <1>1, <2>1, <2>2 DEF Typed, JobGoesOn
<1>3. CASE job' = [job EXCEPT !.pc = "start"]
  <2>1. job' \in Jobs /\ job'.op = job.op /\ job'.path = job.path /\ job'.pc = "start" /\ job'.done = job.done
    BY <1>1, <1>3 DEF Jobs
  <2>2. Where'
    BY <1>1, <2>1 DEF Where
  <2>3. QED
    BY <1>1, <2>1, <2>2 DEF Typed
<1>4. CASE at \in DOMAIN tree /\ job' = [job EXCEPT !.pc = AfterLink, !.out = tree[at].to]
  <2>1. tree[at].to \in Seq(Names)
    BY <1>1, <1>4 DEF IsTree, Nodes
  <2>2. job' \in Jobs /\ job'.op = job.op /\ job'.path = job.path /\ job'.pc = "read" /\ job'.done = job.done
    BY <1>1, <1>4, <2>1 DEF Jobs, AfterLink
  <2>3. Where'
    BY <1>1, <2>2 DEF Where
  <2>4. QED
    BY <1>1, <2>2, <2>3 DEF Typed
<1>5. QED
  <2>1. \/ Returns("false") \/ job' = [job EXCEPT !.pc = "start"]
        \/ at \in DOMAIN tree /\ job' = [job EXCEPT !.pc = AfterLink, !.out = tree[at].to]
    BY DEF ReadLink
  <2> HIDE DEF at
  <2>2. QED
    BY <1>2, <1>3, <1>4, <2>1

LEMMA TypedAtFirst == ASSUME TreeAssumption, Init PROVE Typed
<1>1. WellFormed(tree) /\ WellFormed(first)
  BY TreesWell DEF Init
<1>2. PICK op \in Ops, path \in Asked :
        /\ job = [op |-> op, path |-> path, pc |-> "start", done |-> 0, out |-> <<>>, result |-> "OK"]
        /\ stack = IF op = "DeletePath" THEN <<Frame(path)>> ELSE <<>>
  BY DEF Init, Ops
<1>3. path \in Seq(Names) /\ Len(path) \in Nat
  BY AskedAre
<1>4. job \in Jobs
  <2>1. <<>> \in Seq(Names)
    OBVIOUS
  <2>2. QED
    BY <1>2, <2>1 DEF Jobs
<1>5. stack \in Seq(StackFrames) /\ (stack # <<>> <=> op = "DeletePath")
  BY <1>2, <1>3, FrameIs, OneFrame
<1>6. Where
  BY <1>2, <1>3, <1>5 DEF Where, Ops
<1>7. events \in Others
  BY DEF Init, Others
<1>8. QED
  BY <1>1, <1>4, <1>5, <1>6, <1>7 DEF Typed

LEMMA TypedSteps == ASSUME TreeAssumption, Typed, [Next]_vars PROVE Typed'
<1>1. CASE UNCHANGED vars
  BY <1>1 DEF vars, Typed, Where
<1>2. CASE Next
  <2>1. CASE Done
    BY <1>1, <2>1 DEF Done
  <2>2. QED
    BY <1>2, <2>1, DeletePathTyped, OtherTyped, CheckEmptyTyped, LookTyped, MakeDirectoryTyped, TakeNameTyped,
       ReadLinkTyped DEF Next, DeletePathStep
<1>3. QED
  BY <1>1, <1>2

\* The function that runs and its path stay
LEMMA WhichJob ==
  ASSUME TreeAssumption, Typed, [Next]_vars
  PROVE  job'.op = job.op /\ job'.path = job.path /\ first' = first
<1>1. job \in Jobs
  BY DEF Typed
<1>2. CASE UNCHANGED vars
  BY <1>2 DEF vars
<1>3. CASE DeletePathStep
  BY <1>3, DeletePathSteps DEF JobGoesOn
<1>4. CASE Other
  BY <1>4 DEF Other
<1>5. CASE CheckEmpty
  BY <1>1, <1>5 DEF CheckEmpty, Returns, Jobs
<1>6. CASE Look
  BY <1>1, <1>6 DEF Look, Returns, Jobs
<1>7. CASE MakeDirectory
  BY <1>1, <1>7 DEF MakeDirectory, Returns, Jobs
<1>8. CASE TakeName
  BY <1>1, <1>8 DEF TakeName, Returns, Jobs
<1>9. CASE ReadLink
  BY <1>1, <1>9 DEF ReadLink, Returns, Jobs
<1>10. QED
  BY <1>2, <1>3, <1>4, <1>5, <1>6, <1>7, <1>8, <1>9 DEF Next, Done, DeletePathStep, vars

-----------------------------------------------------------------------------
(* CreateDirectoriesInPath *)

CreateInv ==
  job.op = "CreateDirectoriesInPath" =>
    /\ Part(first, tree)
    /\ job.pc # "done" => PathIsDirectory(tree, Prefix(job.done))
    /\ job.pc = "done" /\ job.result = "OK" => PathIsDirectory(tree, job.path)

LEMMA PartOfPart ==
  ASSUME NEW t, NEW u, NEW v, Part(t, u), Part(u, v)
  PROVE  Part(t, v) /\ Part(t, t)
BY DEF Part

LEMMA RootIsDirectory ==
  ASSUME TreeAssumption, NEW t, IsTree(t)
  PROVE  Target(t, <<>>) = <<>> /\ Entry(t, <<>>) = <<>> /\ PathIsDirectory(t, <<>>)
<1>1. <<>> \in Seq(Names)
  OBVIOUS
<1> DEFINE x == On(MaxLinks, <<>>, <<>>)
<1>2. x \in Walking /\ x.rest = <<>> /\ x.at = <<>> /\ Target(t, <<>>) = Led(t, Stat, x) /\ Entry(t, <<>>) = Led(t, Lstat, x)
  BY <1>1, FromRoot
<1> HIDE DEF x
<1>3. Stat \in Modes /\ Lstat \in Modes
  BY DEF Modes
<1>4. Target(t, <<>>) = <<>> /\ Entry(t, <<>>) = <<>>
  BY <1>2, <1>3, LedBy DEF Ends, Value
<1>5. <<>> # Nowhere
  BY <1>1, NowhereIsNone
<1>6. QED
  BY <1>4, <1>5 DEF PathIsDirectory, IsDir

LEMMA CreateAtFirst == ASSUME TreeAssumption, Init PROVE CreateInv
<1>1. Typed /\ first = tree /\ job.done = 0 /\ job.pc = "start"
  BY TypedAtFirst DEF Init
<1>2. job.path \in Seq(Names) /\ Len(job.path) \in Nat /\ IsTree(tree)
  BY <1>1, AskedAre DEF Typed, Jobs, WellFormed
<1>3. Prefix(job.done) = <<>>
  BY <1>1, <1>2, PrefixIs
<1>4. PathIsDirectory(tree, Prefix(job.done))
  BY <1>2, <1>3, RootIsDirectory
<1>5. Part(first, tree)
  BY <1>1 DEF Part
<1>6. QED
  BY <1>1, <1>4, <1>5 DEF CreateInv

LEMMA CreateSteps == ASSUME TreeAssumption, Typed, CreateInv, [Next]_vars PROVE CreateInv'
<1>1. Typed'
  BY TypedSteps
<1>2. job'.op = job.op /\ job'.path = job.path /\ first' = first
  BY WhichJob
<1> SUFFICES ASSUME job.op = "CreateDirectoriesInPath"
             PROVE  CreateInv'
  BY <1>2 DEF CreateInv
<1>3. /\ Part(first, tree) /\ (job.pc # "done" => PathIsDirectory(tree, Prefix(job.done)))
      /\ job.pc = "done" /\ job.result = "OK" => PathIsDirectory(tree, job.path)
  BY DEF CreateInv
<1>4. /\ IsTree(tree) /\ IsTree(tree') /\ job \in Jobs /\ Where /\ job.path \in Seq(Names) /\ Len(job.path) \in Nat
      /\ job.done \in Nat
  BY <1>1, AskedAre DEF Typed, WellFormed, Jobs
<1>5. CASE UNCHANGED vars
  BY <1>3, <1>5 DEF vars, CreateInv, Prefix
<1>6. CASE Other
  <2>1. Part(tree, tree') /\ job' = job /\ job.pc # "done"
    BY <1>6, OtherSteps DEF Other
  <2>2. Part(first', tree')
    BY <1>2, <1>3, <2>1, PartOfPart
  <2>3. job.done \in 0 .. Len(job.path)
    BY <1>4 DEF Where
  <2>4. Prefix(job.done) \in Seq(Names)
    BY <2>3, PrefixIs
  <2>5. PathIsDirectory(tree', Prefix(job.done))
    BY <1>3, <1>4, <2>1, <2>4, ReachedInPart
  <2>6. QED
    BY <2>1, <2>2, <2>5 DEF CreateInv, Prefix
<1>7. CASE Look
  <2>1. tree' = tree /\ job.pc = "start"
    BY <1>7 DEF Look
  <2>2. Part(first', tree')
    BY <1>2, <1>3, <2>1
  <2>3. CASE job.done = Len(job.path)
    <3>1. Returns("OK") /\ Prefix(job.done) = job.path
      BY <1>4, <1>7, <2>3, PrefixIs DEF Look
    <3>2. job'.pc = "done"
      BY <3>1, ReturnsJob DEF Results
    <3>3. PathIsDirectory(tree', job'.path)
      BY <1>2, <1>3, <2>1, <3>1
    <3>4. QED
      BY <2>2, <3>2, <3>3 DEF CreateInv
  <2>4. CASE job.done # Len(job.path) /\ PathIsDirectory(tree, Prefix(job.done + 1))
    <3>1. job' = [job EXCEPT !.done = @ + 1]
      BY <1>7, <2>4 DEF Look
    <3>2. job'.pc = "start" /\ job'.done = job.done + 1
      BY <1>4, <2>1, <3>1 DEF Jobs
    <3>3. PathIsDirectory(tree', Prefix(job.done + 1)) /\ Prefix(job.done)' = Prefix(job.done + 1)
      BY <1>2, <2>1, <2>4, <3>2 DEF Prefix
    <3>4. QED
      BY <2>2, <3>2, <3>3 DEF CreateInv
  <2>5. CASE job.done # Len(job.path) /\ ~PathIsDirectory(tree, Prefix(job.done + 1))
    <3>1. job' = [job EXCEPT !.pc = "make"]
      BY <1>7, <2>5 DEF Look
    <3>2. job'.pc = "make" /\ job'.done = job.done
      BY <1>4, <3>1 DEF Jobs
    <3>3. PathIsDirectory(tree, Prefix(job.done))'
      BY <1>2, <1>3, <2>1, <3>2 DEF Prefix
    <3>4. QED
      BY <2>2, <3>2, <3>3 DEF CreateInv
  <2>6. QED
    BY <2>3, <2>4, <2>5
<1>8. CASE MakeDirectory
  <2>1. \/ tree' = tree /\ Returns("DIR_CREATE")
        \/ /\ Part(tree, tree') /\ job' = [job EXCEPT !.pc = "start", !.done = @ + 1]
           /\ PathIsDirectory(tree', Prefix(job.done + 1))
    BY <1>8, MakeDirectorySteps
  <2>2. CASE tree' = tree /\ Returns("DIR_CREATE")
    <3>1. job'.pc = "done" /\ job'.result = "DIR_CREATE"
      BY <2>2, ReturnsJob DEF Results
    <3>2. QED
      BY <1>2, <1>3, <2>2, <3>1 DEF CreateInv
  <2>3. CASE /\ Part(tree, tree') /\ job' = [job EXCEPT !.pc = "start", !.done = @ + 1]
             /\ PathIsDirectory(tree', Prefix(job.done + 1))
    <3>1. job'.pc = "start" /\ job'.done = job.done + 1
      <4> DEFINE d == job.done + 1
      <4>1. job' = [job EXCEPT !.pc = "start", !.done = d] /\ job \in Jobs
        BY <1>4, <2>3
      <4> HIDE DEF d
      <4>2. job'.pc = "start" /\ job'.done = d
        BY ONLY <4>1 DEF Jobs
      <4>3. QED
        BY <4>2 DEF d
    <3>2. Prefix(job.done)' = Prefix(job.done + 1)
      BY <1>2, <3>1 DEF Prefix
    <3>3. Part(first', tree')
      BY <1>2, <1>3, <2>3, PartOfPart
    <3>4. QED
      BY <2>3, <3>1, <3>2, <3>3 DEF CreateInv
  <2>4. QED
    BY <2>1, <2>2, <2>3
<1>9. QED
  <2>1. ~DeletePathStep /\ ~CheckEmpty /\ ~TakeName /\ ~ReadLink
    BY OnlyDeleting DEF CheckEmpty, TakeName, ReadLink, Resolving
  <2>2. QED
    BY <1>5, <1>6, <1>7, <1>8, <2>1 DEF Next, Done, DeletePathStep

-----------------------------------------------------------------------------
(* PathResolveLinks *)

Left == SubSeq(job.path, job.done + 1, Len(job.path))

Resolved(t, out) == out = <<>> \/ (Entry(t, out) # Nowhere /\ NoLink(t, Entry(t, out)))

ResolveInv ==
  job.op = "PathResolveLinks" /\ events.added = {} =>
    /\ Target(tree, job.path) # Nowhere => Target(tree, job.out \o Left) = Target(tree, job.path)
    /\ job.pc = "start" \/ (job.pc = "done" /\ job.result = "OK") => Resolved(tree, job.out)
    /\ job.pc = "done" /\ job.result = "OK" => job.done = Len(job.path)

\* The next name of the path goes from what is left to what is read
LEMMA NextName ==
  ASSUME NEW p \in Seq(Names), NEW o \in Seq(Names), NEW k \in 0 .. Len(p) - 1
  PROVE  /\ SubSeq(p, k + 1, Len(p)) \in Seq(Names) /\ SubSeq(p, k + 2, Len(p)) \in Seq(Names) /\ p[k + 1] \in Names
         /\ Append(o, p[k + 1]) \in Seq(Names)
         /\ Append(o, p[k + 1]) \o SubSeq(p, k + 2, Len(p)) = o \o SubSeq(p, k + 1, Len(p))
<1>1. Len(p) \in Nat /\ k + 1 \in 1 .. Len(p) /\ k \in Nat
  OBVIOUS
<1> DEFINE a == SubSeq(p, k + 1, Len(p))
           b == SubSeq(p, k + 2, Len(p))
           n == p[k + 1]
<1>2. a \in Seq(Names) /\ b \in Seq(Names) /\ n \in Names
  <2>1. (\A i \in k + 1 .. Len(p) : p[i] \in Names) /\ (\A i \in k + 2 .. Len(p) : p[i] \in Names) /\ n \in Names
    BY <1>1
  <2>2. k + 1 \in Int /\ k + 2 \in Int /\ Len(p) \in Int
    BY <1>1
  <2>3. QED
    BY <2>1, <2>2, SubSeqProperties
<1>3. a = <<n>> \o b
  <2> DEFINE m == k + 1
             j == Len(p)
  <2>1. m \in 1 .. Len(p) /\ j \in m .. Len(p) /\ m + 1 = k + 2
    BY <1>1
  <2> HIDE DEF m, j
  <2>2. SubSeq(p, m, j) = <<p[m]>> \o SubSeq(p, m + 1, j)
    BY <2>1, SubSeqRecursiveFirst
  <2>3. QED
    BY <2>1, <2>2 DEF m, j
<1> HIDE DEF a, b, n
<1>4. Append(o, n) = o \o <<n>> /\ Append(o, n) \in Seq(Names) /\ <<n>> \in Seq(Names)
  BY <1>2
<1> DEFINE c == <<n>>
<1>5. Append(o, n) = o \o c /\ c \in Seq(Names) /\ a = c \o b
  BY <1>3, <1>4
<1> HIDE DEF c
<1>6. (o \o c) \o b = o \o (c \o b)
  <2>1. o \in Seq(Names) /\ c \in Seq(Names) /\ b \in Seq(Names)
    BY <1>2, <1>5
  <2>2. QED
    BY ONLY <2>1, ConcatAssociative
<1>7. Append(o, n) \o b = o \o a
  BY <1>5, <1>6
<1>8. QED
  BY <1>2, <1>4, <1>7 DEF a, b, n

LEMMA LeftIs ==
  ASSUME TreeAssumption, Typed
  PROVE  /\ Left \in Seq(Names) /\ job.path \in Seq(Names) /\ job.out \in Seq(Names) /\ Len(job.path) \in Nat
         /\ job.done \in 0 .. Len(job.path)
         /\ job.done = Len(job.path) => Left = <<>>
         /\ job.done = 0 => Left = job.path
<1> DEFINE p == job.path
           k == job.done
<1>1. p \in Seq(Names) /\ Len(p) \in Nat /\ k \in 0 .. Len(p) /\ job.out \in Seq(Names)
  BY AskedAre DEF Typed, Jobs, Where
<1> HIDE DEF p, k
<1>2. SubSeq(p, k + 1, Len(p)) \in Seq(Names)
  <2>1. k + 1 \in Int /\ Len(p) \in Int /\ \A i \in k + 1 .. Len(p) : p[i] \in Names
    BY <1>1
  <2>2. QED
    BY <2>1, SubSeqProperties
<1>3. k = Len(p) => SubSeq(p, k + 1, Len(p)) = <<>>
  BY <1>1, SubSeqEmpty
<1>4. k = 0 => SubSeq(p, k + 1, Len(p)) = p
  BY <1>1, SubSeqFull
<1>5. QED
  BY <1>1, <1>2, <1>3, <1>4 DEF Left, p, k

LEMMA ResolveAtFirst == ASSUME TreeAssumption, Init PROVE ResolveInv
<1>1. Typed /\ job.done = 0 /\ job.pc = "start" /\ job.out = <<>>
  BY TypedAtFirst DEF Init
<1>2. Left = job.path /\ job.path \in Seq(Names)
  BY <1>1, LeftIs
<1>3. job.out \o Left = job.path
  BY <1>1, <1>2, ConcatEmptySeq
<1>4. QED
  BY <1>1, <1>3 DEF ResolveInv, Resolved

LEMMA ResolveSteps == ASSUME TreeAssumption, Typed, ResolveInv, [Next]_vars PROVE ResolveInv'
<1>1. job'.op = job.op /\ job'.path = job.path /\ Typed'
  BY WhichJob, TypedSteps
<1> SUFFICES ASSUME job.op = "PathResolveLinks", events'.added = {}
             PROVE  ResolveInv'
  BY <1>1 DEF ResolveInv
<1>2. /\ IsTree(tree) /\ job \in Jobs /\ Left \in Seq(Names) /\ job.path \in Seq(Names) /\ job.out \in Seq(Names)
      /\ Len(job.path) \in Nat /\ job.done \in 0 .. Len(job.path) /\ events \in Others
  BY LeftIs DEF Typed, WellFormed
<1>3. CASE UNCHANGED vars
  BY <1>3 DEF vars, ResolveInv, Left
<1>4. CASE Other
  <2>1. \E at \in Seq(Names) \ {<<>>} : events'.added = events.added \cup {at}
    BY <1>4, OtherSteps
  <2>2. QED
    BY <2>1
<1>5. CASE TakeName
  <2>1. job.pc = "start" /\ tree' = tree /\ events' = events
    BY <1>5 DEF TakeName
  <2>2. /\ Target(tree, job.path) # Nowhere => Target(tree, job.out \o Left) = Target(tree, job.path)
        /\ Resolved(tree, job.out)
    BY <2>1 DEF ResolveInv
  <2>3. CASE job.done = Len(job.path)
    <3>1. Returns("OK")
      BY <1>5, <2>3 DEF TakeName
    <3>2. job'.pc = "done" /\ JobGoesOn
      BY <3>1, ReturnsJob DEF Results
    <3>3. Left' = Left
      BY <3>2 DEF Left, JobGoesOn
    <3>4. QED
      BY <1>1, <2>1, <2>2, <2>3, <3>2, <3>3 DEF ResolveInv, JobGoesOn
  <2>4. CASE job.done # Len(job.path)
    <3> DEFINE d == job.done + 1
               o == Append(job.out, job.path[job.done + 1])
    <3>1. job' = [job EXCEPT !.pc = "read", !.done = d, !.out = o]
      BY <1>5, <2>4 DEF TakeName
    <3> HIDE DEF d, o
    <3>2. job'.pc = "read" /\ job'.done = d /\ job'.out = o
      <4>1. job \in Jobs
        BY <1>2
      <4>2. QED
        BY ONLY <3>1, <4>1 DEF Jobs
    <3>3. o \o SubSeq(job.path, d + 1, Len(job.path)) = job.out \o Left
      <4>1. job.done \in 0 .. Len(job.path) - 1 /\ d + 1 = job.done + 2
        BY <1>2, <2>4 DEF d
      <4> DEFINE k == job.done
                 p == job.path
                 q == job.out
      <4>2. k \in 0 .. Len(p) - 1 /\ p \in Seq(Names) /\ q \in Seq(Names)
        BY <1>2, <4>1
      <4> HIDE DEF k, p, q
      <4>3. Append(q, p[k + 1]) \o SubSeq(p, k + 2, Len(p)) = q \o SubSeq(p, k + 1, Len(p))
        BY <4>2, NextName
      <4>4. QED
        BY <4>1, <4>3 DEF k, p, q, Left, o
    <3>4. Left' = SubSeq(job.path, d + 1, Len(job.path))
      BY <1>1, <3>2 DEF Left
    <3>5. QED
      BY <1>1, <2>1, <2>2, <3>2, <3>3, <3>4 DEF ResolveInv
  <2>5. QED
    BY <2>3, <2>4
<1>6. CASE ReadLink
  <2> DEFINE at == Entry(tree, job.out)
  <2>1. job.pc = "read" /\ tree' = tree /\ events' = events
    BY <1>6 DEF ReadLink
  <2>2. Target(tree, job.path) # Nowhere => Target(tree, job.out \o Left) = Target(tree, job.path)
    BY <2>1 DEF ResolveInv
  <2>3. \/ Returns("false")
        \/ at # Nowhere /\ IsDir(tree, at) /\ job' = [job EXCEPT !.pc = "start"]
        \/ at # Nowhere /\ at \in DOMAIN tree /\ tree[at].type = "file" /\ job' = [job EXCEPT !.pc = "start"]
        \/ at \in DOMAIN tree /\ tree[at].type = "link" /\ job' = [job EXCEPT !.pc = "read", !.out = tree[at].to]
    <3>1. Nowhere \notin DOMAIN tree
      BY <1>2, Reached
    <3>2. \/ Returns("false")
          \/ at # Nowhere /\ IsDir(tree, at) /\ job' = [job EXCEPT !.pc = "start"]
          \/ at \in DOMAIN tree /\ tree[at].type = "file" /\ job' = [job EXCEPT !.pc = "start"]
          \/ at \in DOMAIN tree /\ tree[at].type = "link" /\ job' = [job EXCEPT !.pc = AfterLink, !.out = tree[at].to]
      BY <1>6 DEF ReadLink
    <3> HIDE DEF at
    <3>3. QED
      BY <3>1, <3>2 DEF AfterLink
  <2> HIDE DEF at
  <2>4. CASE Returns("false")
    <3>1. JobGoesOn /\ job'.pc = "done" /\ job'.result = "false"
      BY <2>4, ReturnsJob DEF Results
    <3>2. Left' = Left
      BY <3>1 DEF Left, JobGoesOn
    <3>3. QED
      BY <1>1, <2>1, <2>2, <3>1, <3>2 DEF ResolveInv, JobGoesOn
  <2>5. CASE at # Nowhere /\ NoLink(tree, at) /\ job' = [job EXCEPT !.pc = "start"]
    <3>1. job'.pc = "start" /\ job'.done = job.done /\ job'.out = job.out
      BY <1>2, <2>5 DEF Jobs
    <3>2. Left' = Left
      BY <1>1, <3>1 DEF Left
    <3>3. Resolved(tree, job.out)
      BY <2>5 DEF Resolved, at
    <3>4. QED
      BY <1>1, <2>1, <2>2, <3>1, <3>2, <3>3 DEF ResolveInv
  <2>6. CASE at \in DOMAIN tree /\ tree[at].type = "link" /\ job' = [job EXCEPT !.pc = "read", !.out = tree[at].to]
    <3>1. job'.pc = "read" /\ job'.done = job.done /\ job'.out = tree[at].to
      BY <1>2, <2>6 DEF Jobs
    <3>2. Left' = Left
      BY <1>1, <3>1 DEF Left
    <3>3. Target(tree, job.path) # Nowhere => Target(tree, tree[at].to \o Left) = Target(tree, job.path)
      <4>1. Target(tree, job.out \o Left) # Nowhere => Target(tree, tree[at].to \o Left) = Target(tree, job.out \o Left)
        <5> DEFINE o == job.out
                   r == Left
        <5>1. o \in Seq(Names) /\ r \in Seq(Names) /\ at = Entry(tree, o)
          BY <1>2 DEF at
        <5> HIDE DEF o, r
        <5>2. Target(tree, o \o r) # Nowhere => Target(tree, tree[at].to \o r) = Target(tree, o \o r)
          BY <1>2, <2>6, <5>1, ReadAsLink
        <5>3. QED
          BY <5>2 DEF o, r
      <4>2. QED
        BY <2>2, <4>1
    <3>4. QED
      BY <1>1, <2>1, <3>1, <3>2, <3>3 DEF ResolveInv
  <2>7. IsDir(tree, at) => NoLink(tree, at)
    BY <1>2 DEF IsTree, NoLink, IsDir
  <2>8. at \in DOMAIN tree /\ tree[at].type = "file" => NoLink(tree, at)
    BY DEF NoLink
  <2>9. QED
    BY <2>3, <2>4, <2>5, <2>6, <2>7, <2>8
<1>7. QED
  <2>1. ~DeletePathStep /\ ~CheckEmpty /\ ~Look /\ ~MakeDirectory
    BY OnlyDeleting DEF CheckEmpty, Look, MakeDirectory, Creating
  <2>2. QED
    BY <1>3, <1>4, <1>5, <1>6, <2>1 DEF Next, Done, DeletePathStep

LEMMA ResolveHolds ==
  ASSUME TreeAssumption, Typed, ResolveInv
  PROVE  ResolvedPathLeadsThere
<1> SUFFICES ASSUME job.op = "PathResolveLinks", job.pc = "done", job.result = "OK", events.added = {}
             PROVE  /\ Target(tree, job.path) # Nowhere => Target(tree, job.out) = Target(tree, job.path)
                    /\ job.out # <<>> => tree[Entry(tree, job.out)].type # "link"
  BY DEF ResolvedPathLeadsThere
<1>1. Left = <<>> /\ job.out \in Seq(Names) /\ IsTree(tree)
  BY LeftIs DEF ResolveInv, Typed, WellFormed
<1>2. job.out \o Left = job.out
  BY <1>1, ConcatEmptySeq
<1>3. Target(tree, job.path) # Nowhere => Target(tree, job.out) = Target(tree, job.path)
  BY <1>2 DEF ResolveInv
<1>4. ASSUME job.out # <<>> PROVE tree[Entry(tree, job.out)].type # "link"
  <2> DEFINE o == job.out
             y == Entry(tree, o)
  <2>1. o \in Seq(Names) /\ o # <<>> /\ y # Nowhere /\ NoLink(tree, y)
    BY <1>1, <1>4 DEF ResolveInv, Resolved
  <2> HIDE DEF o
  <2>2. y \in DOMAIN tree \cup {<<>>, Nowhere} /\ y # <<>>
    BY <1>1, <2>1, Reached, NotTheRoot
  <2>3. QED
    BY <2>1, <2>2 DEF NoLink, o
<1>5. QED
  BY <1>3, <1>4

-----------------------------------------------------------------------------
(* What another program adds while the tree is deleted from *)

CameInv == job.op \in {"DeletePath", "DeleteDirectoryIfEmpty"} => CameOf(tree, first, events.added)

LEMMA CameAtFirst == ASSUME Init PROVE CameInv
<1>1. events.added = {} /\ first = tree
  BY DEF Init
<1>2. CameOf(tree, first, {})
  BY <1>1 DEF CameOf
<1>3. QED
  BY <1>1, <1>2 DEF CameInv

LEMMA CameMore ==
  ASSUME TreeAssumption, NEW t, WellFormed(t), NEW u, NEW N, CameOf(t, u, N),
         NEW at \in Seq(Names) \ {<<>>}, at \notin DOMAIN t, NEW node \in {File, Dir}
  PROVE  CameOf(With(t, at, node), u, N \cup {at})
<1> DEFINE v == With(t, at, node)
           M == N \cup {at}
<1>1. DOMAIN v = DOMAIN t \cup {at} /\ v[at] = node /\ \A p \in DOMAIN t : v[p] = t[p]
  BY DEF With
<1>2. node.type # "link"
  BY DEF File, Dir
<1> HIDE DEF v
<1>3. \A p \in DOMAIN v : IF p \in M THEN v[p].type # "link" ELSE p \in DOMAIN u /\ v[p] = u[p]
  BY <1>1, <1>2 DEF CameOf
<1>4. ASSUME NEW p \in M, NEW n \in Names, Append(p, n) \in DOMAIN v PROVE Append(p, n) \in M
  <2>1. CASE Append(p, n) = at
    BY <2>1
  <2>2. CASE Append(p, n) \in DOMAIN t /\ p \in N
    BY <2>2 DEF CameOf
  <2>3. CASE Append(p, n) \in DOMAIN t /\ p = at
    <3>1. Front(Append(at, n)) = at
      BY UnderChild
    <3>2. IsDir(t, at)
      BY <2>3, <3>1 DEF WellFormed
    <3>3. QED
      BY <3>2 DEF IsDir
  <2>4. QED
    BY <1>1, <1>4, <2>1, <2>2, <2>3
<1>5. <<>> \notin M
  BY DEF CameOf
<1>6. QED
  BY <1>3, <1>4, <1>5 DEF CameOf, v

LEMMA CameSteps == ASSUME TreeAssumption, Typed, CameInv, [Next]_vars PROVE CameInv'
<1>1. job'.op = job.op /\ first' = first
  BY WhichJob
<1> SUFFICES ASSUME job.op \in {"DeletePath", "DeleteDirectoryIfEmpty"}
             PROVE  CameOf(tree', first, events'.added)
  BY <1>1 DEF CameInv
<1>2. CameOf(tree, first, events.added)
  BY DEF CameInv
<1>3. CASE UNCHANGED vars
  BY <1>2, <1>3 DEF vars
<1>4. CASE Other
  <2>1. PICK at \in Seq(Names) \ {<<>>} : \E node \in {File, Dir} :
          at \notin DOMAIN tree /\ tree' = With(tree, at, node) /\ events'.added = events.added \cup {at}
    BY <1>4, OtherSteps
  <2>2. PICK node \in {File, Dir} :
          at \notin DOMAIN tree /\ tree' = With(tree, at, node) /\ events'.added = events.added \cup {at}
    BY <2>1
  <2>3. WellFormed(tree)
    BY DEF Typed
  <2> DEFINE N == events.added
  <2>4. CameOf(tree, first, N)
    BY <1>2
  <2> HIDE DEF N
  <2>5. CameOf(With(tree, at, node), first, N \cup {at})
    BY <2>2, <2>3, <2>4, CameMore
  <2>6. QED
    BY <2>2, <2>5 DEF N
<1>5. CASE DeletePathStep
  <2>1. events'.added = events.added /\ (tree' = tree \/ Removes)
    BY <1>5, DeletePathSteps DEF Apart, FrameStays, FramePushed, FramePopped
  <2>2. CASE tree' = tree
    BY <1>2, <2>1, <2>2
  <2>3. CASE Removes
    <3>1. DOMAIN tree' \subseteq DOMAIN tree /\ \A p \in DOMAIN tree' : tree'[p] = tree[p]
      BY <2>3, RemovesWell
    <3> DEFINE N == events.added
    <3>2. CameOf(tree, first, N) /\ events'.added = N
      BY <1>2, <2>1
    <3> HIDE DEF N
    <3>3. CameOf(tree', first, N)
      BY <3>1, <3>2 DEF CameOf
    <3>4. QED
      BY <3>2, <3>3
  <2>4. QED
    BY <2>1, <2>2, <2>3
<1>6. CASE CheckEmpty
  <2>1. tree' = tree /\ events'.added = events.added
    BY <1>6, RefuseApart DEF CheckEmpty, Apart
  <2>2. QED
    BY <1>2, <2>1
<1>7. QED
  <2>1. ~Look /\ ~MakeDirectory /\ ~TakeName /\ ~ReadLink
    BY DEF Look, MakeDirectory, Creating, TakeName, ReadLink, Resolving
  <2>2. QED
    BY <1>3, <1>4, <1>5, <1>6, <2>1 DEF Next, Done, DeletePathStep

\* The innermost frame takes what was added, or what its path named at first
LEMMA RemovesWhat ==
  ASSUME TreeAssumption, Typed, CameInv, DeletePathStep, Removes
  PROVE  Entry(tree, Top.path) \in events.added \/ Entry(tree, Top.path) = Entry(first, Top.path)
<1>1. CameOf(tree, first, events.added) /\ stack # <<>>
  BY OnlyDeleting, DeletePathSteps DEF CameInv
<1>2. Top.path \in Seq(Names) /\ Nowhere \notin DOMAIN tree /\ IsTree(tree) /\ IsTree(first)
  BY <1>1, TopReached DEF Typed, WellFormed
<1> DEFINE N == events.added
           p == Top.path
<1>3. CameOf(tree, first, N) /\ p \in Seq(Names) /\ Entry(tree, p) # Nowhere
  BY <1>1, <1>2 DEF Removes
<1> HIDE DEF N, p
<1>4. Entry(tree, p) \in N \cup {Nowhere, Entry(first, p)}
  BY <1>2, <1>3, ReachedAsBefore
<1>5. QED
  BY <1>3, <1>4 DEF N, p

-----------------------------------------------------------------------------
(* DeleteDirectoryIfEmpty *)

EmptyInv ==
  job.op = "DeleteDirectoryIfEmpty" =>
    /\ job.pc # "done" =>
         Part(first, tree) /\ events.added \cap DOMAIN first = {} /\ job.result # "NOT_EMPTY"
    /\ job.pc = "delete" =>
         /\ stack[Len(stack)].path = job.path
         /\ \A n \in Names : Entry(first, Append(job.path, n)) = Nowhere
         /\ \A i \in 1 .. Len(stack) - 1 : Entry(first, stack[i].path) = Nowhere
    /\ job.pc = "done" =>
         /\ Gone \subseteq {Base}
         /\ job.result = "NOT_EMPTY" => Gone = {}
         /\ Quiet /\ job.result = "OK" => Gone # {}

LEMMA EmptyAtFirst == ASSUME TreeAssumption, Init PROVE EmptyInv
BY DEF Init, EmptyInv, Part

LEMMA EmptyOther ==
  ASSUME TreeAssumption, Typed, EmptyInv, Other, job.op = "DeleteDirectoryIfEmpty"
  PROVE  EmptyInv'
<1>1. job' = job /\ stack' = stack /\ first' = first /\ job.pc # "done"
  BY DEF Other
<1>2. PICK at \in Seq(Names) \ {<<>>} : 
        at \notin DOMAIN tree /\ Part(tree, tree') /\ events'.added = events.added \cup {at}
  BY OtherSteps
<1>3. Part(first, tree) /\ events.added \cap DOMAIN first = {} /\ job.result # "NOT_EMPTY"
  BY <1>1 DEF EmptyInv
<1>4. Part(first, tree')
  BY <1>2, <1>3, PartOfPart
<1>5. events'.added \cap DOMAIN first = {}
  BY <1>2, <1>3 DEF Part
<1>6. QED
  BY <1>1, <1>3, <1>4, <1>5 DEF EmptyInv

LEMMA EmptyCheck ==
  ASSUME TreeAssumption, Typed, EmptyInv, CheckEmpty
  PROVE  EmptyInv'
<1>1. job.op = "DeleteDirectoryIfEmpty" /\ job.pc = "start" /\ tree' = tree /\ first' = first /\ job \in Jobs
      /\ job.path \in Seq(Names) /\ IsTree(tree) /\ IsTree(first)
  BY AskedAre DEF CheckEmpty, Typed, WellFormed, Jobs
<1>2. Part(first, tree) /\ events.added \cap DOMAIN first = {} /\ job.result # "NOT_EMPTY"
  BY <1>1 DEF EmptyInv
<1>3. events'.added = events.added
  BY RefuseApart DEF CheckEmpty, Apart
<1>4. CASE Returns("NOTAFILE") \/ Returns("NO_PERM") \/ Returns("NOT_EMPTY")
  <2>1. job'.pc = "done" /\ job'.result # "OK" /\ job'.op = job.op
    BY <1>4, ReturnsJob DEF Results, JobGoesOn
  <2>2. Gone' = {}
    BY <1>1, <1>2 DEF Gone, Part
  <2>3. QED
    BY <2>1, <2>2 DEF EmptyInv
<1>5. CASE /\ PathIsDirectory(tree, job.path) /\ Listing(tree, job.path) = {}
           /\ job' = [job EXCEPT !.pc = "delete"] /\ stack' = <<Frame(job.path)>>
  <2>1. job'.pc = "delete" /\ job'.op = job.op /\ job'.path = job.path /\ job'.result = job.result
    BY <1>1, <1>5 DEF Jobs
  <2>2. Len(stack') = 1 /\ stack'[Len(stack')].path = job.path
    <3>1. Frame(job.path) \in StackFrames /\ Frame(job.path).path = job.path
      BY <1>1, FrameIs
    <3>2. QED
      BY <1>5, <3>1, OneFrame
  <2>3. ASSUME NEW n \in Names PROVE Entry(first, Append(job.path, n)) = Nowhere
    <3> DEFINE p == job.path
    <3>1. p \in Seq(Names) /\ Listing(tree, p) = {}
      BY <1>1, <1>5
    <3> HIDE DEF p
    <3>2. Target(first, p) # Nowhere => Target(tree, p) = Target(first, p)
      BY <1>1, <1>2, <3>1, ReachedInPart
    <3>3. ~(PathIsDirectory(first, p) /\ Append(Target(first, p), n) \in DOMAIN first)
      BY <1>2, <3>1, <3>2 DEF Listing, Part, PathIsDirectory
    <3>4. Entry(first, Append(p, n)) = Nowhere
      BY <1>1, <3>1, <3>3, EntryOfChild
    <3>5. QED
      BY <3>4 DEF p
  <2>4. QED
    BY <1>1, <1>2, <1>3, <2>1, <2>2, <2>3 DEF EmptyInv
<1>6. QED
  BY <1>4, <1>5 DEF CheckEmpty

LEMMA EmptyDelete ==
  ASSUME TreeAssumption, Typed, CameInv, EmptyInv, DeletePathStep, job.op = "DeleteDirectoryIfEmpty"
  PROVE  EmptyInv'
<1>1. stack # <<>> /\ first' = first /\ JobGoesOn /\ Apart /\ (FrameStays \/ FramePushed \/ FramePopped)
  BY DeletePathSteps
<1>2. stack \in Seq(StackFrames) /\ Len(stack) \in Nat \ {0} /\ job.pc = "delete" /\ IsTree(first)
  BY <1>1, TopFrame DEF Typed, Where, WellFormed
<1>3. Part(first, tree) /\ events.added \cap DOMAIN first = {} /\ job.result # "NOT_EMPTY"
  BY <1>2 DEF EmptyInv
<1>4. /\ stack[Len(stack)].path = job.path
      /\ \A n \in Names : Entry(first, Append(job.path, n)) = Nowhere
      /\ \A i \in 1 .. Len(stack) - 1 : Entry(first, stack[i].path) = Nowhere
  BY <1>2 DEF EmptyInv
<1>5. job'.op = job.op /\ job'.path = job.path /\ events'.added = events.added /\ (Quiet' => Quiet)
  BY <1>1 DEF JobGoesOn, Apart
<1>6. CASE FrameStays
  <2>1. Len(stack') = Len(stack) /\ (\A i \in 1 .. Len(stack) : stack'[i].path = stack[i].path)
        /\ tree' = tree /\ job'.pc = "delete" /\ job'.result # "NOT_EMPTY"
    BY <1>2, <1>3, <1>6 DEF FrameStays
  <2>2. stack'[Len(stack')].path = job.path
    BY <1>2, <1>4, <2>1
  <2>3. \A i \in 1 .. Len(stack') - 1 : Entry(first, stack'[i].path) = Nowhere
    BY <1>2, <1>4, <2>1
  <2>4. QED
    BY <1>1, <1>3, <1>4, <1>5, <2>1, <2>2, <2>3 DEF EmptyInv
<1>7. CASE FramePushed
  <2>1. Len(stack') = Len(stack) + 1 /\ (\A i \in 2 .. Len(stack) + 1 : stack'[i].path = stack[i - 1].path)
        /\ tree' = tree /\ job' = job
    BY <1>7 DEF FramePushed
  <2>2. PICK n \in Names : stack'[1].path = Append(stack[1].path, n)
    BY <1>7 DEF FramePushed
  <2>3. Entry(first, stack'[1].path) = Nowhere
    <3>1. CASE Len(stack) = 1
      BY <1>4, <2>2, <3>1
    <3>2. CASE Len(stack) # 1
      <4> DEFINE p == stack[1].path
      <4>1. Entry(first, p) = Nowhere /\ p \in Seq(Names)
        BY <1>1, <1>2, <1>4, <3>2, TopFrame
      <4> HIDE DEF p
      <4>2. Target(first, p) = Nowhere
        BY <1>2, <4>1, Reached
      <4>3. Entry(first, Append(p, n)) = Nowhere
        BY <1>2, <4>1, <4>2, EntryOfChild DEF PathIsDirectory
      <4>4. QED
        BY <2>2, <4>3 DEF p
    <3>3. QED
      BY <3>1, <3>2
  <2>4. stack'[Len(stack')].path = job.path
    <3>1. Len(stack) + 1 \in 2 .. Len(stack) + 1 /\ Len(stack) + 1 - 1 = Len(stack)
      BY <1>2
    <3>2. QED
      BY <1>4, <2>1, <3>1
  <2>5. ASSUME NEW i \in 1 .. Len(stack') - 1 PROVE Entry(first, stack'[i].path) = Nowhere
    <3>1. CASE i = 1
      BY <2>3, <3>1
    <3>2. CASE i # 1
      <4>1. i \in 2 .. Len(stack) + 1 /\ i - 1 \in 1 .. Len(stack) - 1
        BY <1>2, <2>1, <3>2
      <4>2. stack'[i].path = stack[i - 1].path
        BY <2>1, <4>1
      <4>3. Entry(first, stack[i - 1].path) = Nowhere
        BY <1>4, <4>1
      <4>4. QED
        BY <4>2, <4>3
    <3>3. QED
      BY <3>1, <3>2
  <2>6. QED
    BY <1>1, <1>2, <1>3, <1>4, <1>5, <2>1, <2>4, <2>5 DEF EmptyInv
<1>8. CASE FramePopped
  <2> DEFINE y == Entry(tree, Top.path)
  <2>1. tree' = tree \/ Removes
    BY <1>8 DEF FramePopped
  <2>2. job'.result # "NOT_EMPTY" /\ job'.pc = (IF Len(stack) = 1 THEN "done" ELSE "delete") /\ stack' = Tail(stack)
    BY <1>2, <1>3, <1>8 DEF FramePopped
  <2>3. Removes => /\ DOMAIN tree' = DOMAIN tree \ {y} /\ y \in DOMAIN tree /\ (\A p \in DOMAIN tree' : tree'[p] = tree[p])
                   /\ (y \in events.added \/ y = Entry(first, Top.path))
    BY RemovesWell, RemovesWhat DEF Removes
  <2> HIDE DEF y
  <2>4. CASE Len(stack) = 1
    <3>1. Top.path = job.path
      BY <1>4, <2>4 DEF Top
    <3>2. Gone' \subseteq {Base'}
      <4>1. Base' = Entry(first, job.path)
        BY <1>1, <1>5 DEF Base
      <4>2. ASSUME NEW p \in DOMAIN first, p \notin DOMAIN tree' PROVE p = Entry(first, job.path)
        <5>1. p \in DOMAIN tree
          BY <1>3 DEF Part
        <5>2. Removes /\ p = y
          BY <2>1, <2>3, <4>2, <5>1
        <5>3. QED
          BY <1>3, <2>3, <3>1, <5>2
      <4>3. QED
        BY <1>1, <4>1, <4>2 DEF Gone
    <3>3. ASSUME Quiet', job'.result = "OK" PROVE Gone' # {}
      <4>1. Removes /\ events.added = {}
        BY <1>5, <1>8, <3>3 DEF FramePopped, Quiet
      <4>2. y \in DOMAIN first
        <5>1. CameOf(tree, first, {})
          BY <4>1 DEF CameInv
        <5>2. QED
          BY <2>3, <4>1, <5>1 DEF CameOf
      <4>3. QED
        BY <1>1, <2>3, <4>1, <4>2 DEF Gone
    <3>4. QED
      BY <1>5, <2>2, <2>4, <3>2, <3>3 DEF EmptyInv
  <2>5. CASE Len(stack) # 1
    <3>1. Entry(first, Top.path) = Nowhere /\ Nowhere \notin DOMAIN tree
      <4>1. Nowhere \notin DOMAIN tree
        BY <1>1, TopReached
      <4> DEFINE k == Len(stack)
      <4>2. k \in Nat /\ k # 0 /\ k # 1
        BY <1>2, <2>5
      <4> HIDE DEF k
      <4>3. 1 \in 1 .. k - 1
        BY <4>2
      <4>4. QED
        BY <1>4, <4>1, <4>3 DEF Top, k
    <3>2. Part(first, tree')
      <4>1. Removes => y \notin DOMAIN first
        BY <1>3, <2>3, <3>1
      <4>2. QED
        BY <1>3, <2>1, <2>3, <4>1 DEF Part
    <3>3. /\ Len(stack') = Len(stack) - 1
          /\ \A i \in 1 .. Len(stack) - 1 : stack'[i] = stack[i + 1]
      BY <1>1, <1>2, <2>2, TopFrame
    <3>4. stack'[Len(stack')].path = job.path
      <4>1. Len(stack) - 1 \in 1 .. Len(stack) - 1 /\ Len(stack) - 1 + 1 = Len(stack)
        <5> DEFINE k == Len(stack)
        <5>1. k \in Nat /\ k # 0 /\ k # 1
          BY <1>2, <2>5
        <5> HIDE DEF k
        <5>2. k - 1 \in 1 .. k - 1 /\ k - 1 + 1 = k
          BY <5>1
        <5>3. QED
          BY <5>2 DEF k
      <4>2. QED
        BY <1>4, <3>3, <4>1
    <3>5. ASSUME NEW i \in 1 .. Len(stack') - 1 PROVE Entry(first, stack'[i].path) = Nowhere
      <4>1. i \in 1 .. Len(stack) - 1 /\ i + 1 \in 1 .. Len(stack) - 1
        BY <1>2, <3>3
      <4>2. QED
        BY <1>4, <3>3, <4>1
    <3>6. QED
      BY <1>1, <1>3, <1>4, <1>5, <2>2, <2>5, <3>2, <3>4, <3>5 DEF EmptyInv
  <2>6. QED
    BY <2>4, <2>5
<1>9. QED
  BY <1>1, <1>6, <1>7, <1>8

LEMMA EmptySteps == ASSUME TreeAssumption, Typed, CameInv, EmptyInv, [Next]_vars PROVE EmptyInv'
<1>1. job'.op = job.op
  BY WhichJob
<1> SUFFICES ASSUME job.op = "DeleteDirectoryIfEmpty"
             PROVE  EmptyInv'
  BY <1>1 DEF EmptyInv
<1>2. CASE UNCHANGED vars
  BY <1>2 DEF vars, EmptyInv, Gone, Base, Quiet
<1>3. ~Look /\ ~MakeDirectory /\ ~TakeName /\ ~ReadLink
  BY DEF Look, MakeDirectory, Creating, TakeName, ReadLink, Resolving
<1>4. QED
  BY <1>2, <1>3, EmptyOther, EmptyCheck, EmptyDelete DEF Next, Done, DeletePathStep

-----------------------------------------------------------------------------
(* DeletePath *)

Inside(p) == Entry(first, p) = Nowhere \/ (Base # Nowhere /\ Under(Base, Entry(first, p)))

DeleteInv ==
  job.op = "DeletePath" =>
    /\ stack # <<>> => stack[Len(stack)].path = job.path
    /\ job.pc = "done" /\ job.result = "OK" => Entry(tree, job.path) = Nowhere
    /\ Ways = {} =>
         /\ \A p \in DOMAIN first : p \notin DOMAIN tree \/ p \in events.added => Under(Base, p)
         /\ \A i \in 1 .. Len(stack) : Inside(stack[i].path)

\* What a frame's path names
Named(t, s, i) == Entry(t, s[i].path)

\* The frames while nobody interferes: each names something below the first, and
\* what the next one names; of what was in a directory when it was opened, the
\* names seen are gone, but for the next frame's.
CalmFrame(t, s, b, i) ==
  LET f == s[i]
      e == Named(t, s, i)
  IN  /\ e \in DOMAIN t /\ Under(b, e)
      /\ f.at # "enter" => t[e].type = "dir"
      /\ f.at = "enter" => f.seen = {}
      /\ i # 1 => f.at = "scan"
      /\ f.at = "rmdir" => Childless(t, e)
      /\ f.at = "scan" =>
           /\ \A n \in Names : Append(e, n) \in DOMAIN t =>
                n \in f.was /\ (n \in f.seen => i # 1 /\ Named(t, s, i - 1) = Append(e, n))
           /\ \A n \in f.was : n \notin f.seen => Append(e, n) \in DOMAIN t

CalmFrames(t, s, b) ==
  /\ \A i \in 1 .. Len(s) : CalmFrame(t, s, b, i)
  /\ \A i \in 1 .. Len(s), j \in 1 .. Len(s) : i < j =>
       Under(Named(t, s, j), Named(t, s, i)) /\ Len(Named(t, s, j)) < Len(Named(t, s, i))
  /\ \A i \in 1 .. Len(s) - 1 : \E n \in s[i + 1].seen : Named(t, s, i) = Append(Named(t, s, i + 1), n)

CalmInv ==
  job.op = "DeletePath" /\ Quiet /\ Ways = {} /\ Base \notin {Nowhere, <<>>} =>
    job.result = "OK" /\ CalmFrames(tree, stack, Base)

LEMMA DeleteAtFirst == ASSUME TreeAssumption, Init PROVE DeleteInv /\ CalmInv
<1>1. Typed /\ first = tree /\ events.added = {} /\ job.pc = "start" /\ job.result = "OK"
  BY TypedAtFirst DEF Init
<1> SUFFICES ASSUME job.op = "DeletePath"
             PROVE  DeleteInv /\ CalmInv
  BY DEF DeleteInv, CalmInv
<1>2. stack = <<Frame(job.path)>> /\ job.path \in Seq(Names) /\ IsTree(first)
  BY <1>1, AskedAre DEF Init, Typed, Jobs, WellFormed
<1>3. Frame(job.path) \in StackFrames /\ Frame(job.path).path = job.path /\ Frame(job.path).at = "enter"
      /\ Frame(job.path).seen = {}
  BY <1>2, FrameIs
<1>4. Len(stack) = 1 /\ stack[1] = Frame(job.path)
  BY <1>2, <1>3, OneFrame
<1>5. Base = Entry(first, job.path)
  BY DEF Base
<1>6. Base \in DOMAIN first \cup {<<>>, Nowhere}
  BY <1>2, <1>5, Reached
<1>7. Base # Nowhere => Base \in Seq(Names) /\ Under(Base, Base)
  <2>1. <<>> \in Seq(Names)
    OBVIOUS
  <2>2. Base # Nowhere => Base \in Seq(Names)
    BY <1>2, <1>6, <2>1 DEF IsTree
  <2>3. \A b \in Seq(Names) : Under(b, b)
    <3>1. ASSUME NEW b \in Seq(Names) PROVE Under(b, b)
      <4>1. SubSeq(b, 1, Len(b)) = b /\ Len(b) \in Nat
        BY SubSeqFull
      <4>2. QED
        BY <4>1 DEF Under
    <3>2. QED
      BY <3>1
  <2>4. QED
    BY <2>2, <2>3
<1>8. Inside(job.path)
  BY <1>5, <1>7 DEF Inside
<1>9. DeleteInv
  BY <1>1, <1>3, <1>4, <1>8 DEF DeleteInv
<1>10. ASSUME Base \notin {Nowhere, <<>>} PROVE CalmFrames(tree, stack, Base)
  <2>1. Named(tree, stack, 1) = Base /\ Base \in DOMAIN tree /\ Under(Base, Base)
    BY <1>1, <1>3, <1>4, <1>5, <1>6, <1>7, <1>10 DEF Named
  <2>2. CalmFrame(tree, stack, Base, 1)
    BY <1>3, <1>4, <2>1 DEF CalmFrame
  <2>3. QED
    BY <1>4, <2>2 DEF CalmFrames
<1>11. QED
  BY <1>1, <1>9, <1>10 DEF CalmInv

\* A name of a directory inside is inside, if there is no link to a directory
LEMMA InsideChild ==
  ASSUME TreeAssumption, Typed, Ways = {}, NEW p \in Seq(Names), Inside(p), NEW n \in Names
  PROVE  Inside(Append(p, n))
<1>1. WellFormed(first) /\ IsTree(first) /\ job.path \in Seq(Names)
  BY AskedAre DEF Typed, WellFormed, Jobs
<1>2. Base \in DOMAIN first \cup {<<>>, Nowhere}
  BY <1>1, Reached DEF Base
<1> DEFINE e == Entry(first, p)
           d == Target(first, p)
<1>3. /\ e \in DOMAIN first \cup {<<>>, Nowhere} /\ (e = Nowhere => d = Nowhere)
      /\ (e # Nowhere /\ NoLink(first, e) => d = e)
  BY <1>1, Reached
<1>4. Entry(first, Append(p, n)) =
        IF PathIsDirectory(first, p) /\ Append(d, n) \in DOMAIN first THEN Append(d, n) ELSE Nowhere
  BY <1>1, EntryOfChild
<1> SUFFICES ASSUME PathIsDirectory(first, p), Append(d, n) \in DOMAIN first
             PROVE  Inside(Append(p, n))
  BY <1>4 DEF Inside
<1>5. d # Nowhere /\ e # Nowhere
  BY <1>3 DEF PathIsDirectory
<1>6. Base # Nowhere /\ Under(Base, e)
  BY <1>5 DEF Inside
<1>7. NoLink(first, e)
  <2> SUFFICES ASSUME e \in DOMAIN first, first[e].type = "link" PROVE FALSE
    BY DEF NoLink
  <2>1. PathIsDirectory(first, e)
    BY <1>1, LinkToDirectory
  <2> HIDE DEF e, d
  <2>2. e \in Ways
    BY <1>6, <2>1 DEF Ways
  <2>3. QED
    BY <2>2
<1> HIDE DEF e, d
<1>8. d = e
  BY <1>3, <1>5, <1>7
<1>9. Base \in Seq(Names) /\ e \in Seq(Names)
  <2>1. <<>> \in Seq(Names)
    OBVIOUS
  <2>2. QED
    BY <1>1, <1>2, <1>3, <1>5, <1>6, <2>1 DEF IsTree
<1>10. Under(Base, Append(e, n))
  BY <1>6, <1>9, UnderChild
<1>11. QED
  BY <1>4, <1>6, <1>8, <1>10 DEF Inside

LEMMA DeleteOther ==
  ASSUME TreeAssumption, Typed, DeleteInv, Other, job.op = "DeletePath"
  PROVE  DeleteInv'
<1>1. job' = job /\ stack' = stack /\ first' = first /\ job.pc # "done"
  BY DEF Other
<1>2. PICK at \in Seq(Names) \ {<<>>} :
        at \notin DOMAIN tree /\ Part(tree, tree') /\ events'.added = events.added \cup {at}
  BY OtherSteps
<1>3. Ways' = Ways /\ Base' = Base /\ \A p : Inside(p)' = Inside(p)
  BY <1>1 DEF Ways, Base, Inside
<1>4. ASSUME Ways = {}, NEW p \in DOMAIN first, p \notin DOMAIN tree' \/ p \in events'.added
      PROVE  Under(Base, p)
  <2>1. p \notin DOMAIN tree \/ p \in events.added
    BY <1>2, <1>4 DEF Part
  <2>2. QED
    BY <1>4, <2>1 DEF DeleteInv
<1>5. Ways = {} => \A i \in 1 .. Len(stack) : Inside(stack[i].path)
  BY DEF DeleteInv
<1>6. Ways' = {} => \A i \in 1 .. Len(stack') : Inside(stack[i].path)'
  <2> SUFFICES ASSUME Ways' = {}, NEW i \in 1 .. Len(stack') PROVE Inside(stack[i].path)'
    OBVIOUS
  <2>1. Inside(stack[i].path)
    BY <1>1, <1>3, <1>5
  <2>2. QED
    BY <1>1, <2>1 DEF Inside, Base
<1>7. stack # <<>> => stack[Len(stack)].path = job.path
  BY DEF DeleteInv
<1>8. QED
  BY <1>1, <1>3, <1>4, <1>6, <1>7 DEF DeleteInv

LEMMA DeleteDelete ==
  ASSUME TreeAssumption, Typed, CameInv, DeleteInv, DeletePathStep, job.op = "DeletePath"
  PROVE  DeleteInv'
<1>1. stack # <<>> /\ first' = first /\ JobGoesOn /\ Apart /\ (FrameStays \/ FramePushed \/ FramePopped)
  BY DeletePathSteps
<1>2. stack \in Seq(StackFrames) /\ Len(stack) \in Nat \ {0} /\ job.pc = "start" /\ IsTree(first) /\ IsTree(tree)
  BY <1>1, TopFrame DEF Typed, Where, WellFormed
<1> DEFINE k == Len(stack)
<1>3. stack[k].path = job.path /\ k \in Nat /\ k # 0
  BY <1>1, <1>2 DEF DeleteInv
<1>4. job'.op = job.op /\ job'.path = job.path /\ events'.added = events.added
  BY <1>1 DEF JobGoesOn, Apart
<1>5. Ways' = Ways /\ Base' = Base
  BY <1>1, <1>4 DEF Ways, Base
<1>6. ASSUME NEW p, Inside(p) PROVE Entry(first', p) = Nowhere \/ (Base' # Nowhere /\ Under(Base', Entry(first', p)))
  BY <1>1, <1>5, <1>6 DEF Inside
<1>7. Ways = {} =>
         /\ \A p \in DOMAIN first : p \notin DOMAIN tree \/ p \in events.added => Under(Base, p)
         /\ \A i \in 1 .. k : Inside(stack[i].path)
  BY DEF DeleteInv
<1>8. CASE FrameStays
  <2>1. Len(stack') = k /\ (\A i \in 1 .. k : stack'[i].path = stack[i].path)
        /\ tree' = tree /\ job'.pc = "start"
    BY <1>2, <1>8 DEF FrameStays
  <2> HIDE DEF k
  <2>2. stack'[Len(stack')].path = job.path
    BY <1>3, <2>1
  <2>3. Ways = {} => \A i \in 1 .. Len(stack') : Inside(stack[i].path)'
    BY <1>6, <1>7, <2>1 DEF Inside
  <2>4. QED
    BY <1>1, <1>4, <1>5, <1>7, <2>1, <2>2, <2>3 DEF DeleteInv
<1>9. CASE FramePushed
  <2>1. Len(stack') = k + 1 /\ (\A i \in 2 .. k + 1 : stack'[i].path = stack[i - 1].path)
        /\ tree' = tree /\ job' = job
    BY <1>9 DEF FramePushed
  <2>2. PICK n \in Names : stack'[1].path = Append(stack[1].path, n)
    BY <1>9 DEF FramePushed
  <2>3. stack[1].path \in Seq(Names)
    BY <1>1, <1>2, TopFrame
  <2> HIDE DEF k
  <2>4. stack'[Len(stack')].path = job.path
    <3>1. k + 1 \in 2 .. k + 1 /\ k + 1 - 1 = k
      BY <1>3
    <3>2. QED
      BY <1>3, <2>1, <3>1
  <2>5. ASSUME Ways = {}, NEW i \in 1 .. Len(stack') PROVE Inside(stack'[i].path)
    <3>1. CASE i = 1
      <4>1. Inside(stack[1].path)
        BY <1>3, <1>7, <2>5
      <4>2. QED
        BY <2>2, <2>3, <2>5, <3>1, <4>1, InsideChild
    <3>2. CASE i # 1
      <4>1. i \in 2 .. k + 1 /\ i - 1 \in 1 .. k
        BY <1>3, <2>1, <3>2
      <4>2. QED
        BY <1>7, <2>1, <2>5, <4>1
    <3>3. QED
      BY <3>1, <3>2
  <2>6. Ways = {} => \A i \in 1 .. Len(stack') : Inside(stack[i].path)'
    BY <1>6, <2>5 DEF Inside
  <2>7. QED
    BY <1>1, <1>2, <1>4, <1>5, <1>7, <2>1, <2>4, <2>6 DEF DeleteInv
<1>10. CASE FramePopped
  <2> DEFINE y == Entry(tree, Top.path)
  <2>1. (tree' = tree \/ Removes) /\ job'.pc = (IF k = 1 THEN "done" ELSE "start") /\ stack' = Tail(stack)
        /\ (job'.result = "OK" => Removes)
    BY <1>2, <1>10 DEF FramePopped
  <2>2. Removes => /\ DOMAIN tree' = DOMAIN tree \ {y} /\ y \in DOMAIN tree
                   /\ (y \in events.added \/ y = Entry(first, Top.path))
                   /\ tree' = Without(tree, y) /\ IsTree(tree')
    BY RemovesWell, RemovesWhat DEF Removes, WellFormed
  <2>3. Nowhere \notin DOMAIN tree /\ Top = stack[1] /\ Top.path \in Seq(Names)
    BY <1>1, TopReached DEF Top
  <2>4. Ways = {} => \A p \in DOMAIN first : p \notin DOMAIN tree' \/ p \in events.added => Under(Base, p)
    <3> SUFFICES ASSUME Ways = {}, NEW p \in DOMAIN first, p \in DOMAIN tree, p \notin DOMAIN tree', p \notin events.added
                 PROVE  Under(Base, p)
      BY <1>7
    <3>1. Removes /\ p = y
      BY <2>1, <2>2
    <3> HIDE DEF y
    <3>2. y = Entry(first, Top.path)
      BY <2>2, <3>1
    <3>3. Inside(Top.path)
      BY <1>3, <1>7, <2>3
    <3>4. QED
      BY <2>3, <3>1, <3>2, <3>3 DEF Inside
  <2>5. /\ Len(stack') = k - 1 /\ (\A i \in 1 .. k - 1 : stack'[i] = stack[i + 1])
        /\ (stack' = <<>> <=> k = 1)
    BY <1>1, <1>2, <2>1, TopFrame
  <2>6. job'.pc = "done" /\ job'.result = "OK" => Entry(tree', job.path) = Nowhere
    <3> SUFFICES ASSUME k = 1, Removes PROVE Entry(tree', job.path) = Nowhere
      BY <2>1
    <3> DEFINE p == Top.path
    <3>1. p = job.path /\ p \in Seq(Names) /\ Entry(tree, p) = y
      BY <1>3, <2>3
    <3> HIDE DEF p, y
    <3>2. y # <<>>
      BY <1>2, <2>2 DEF IsTree
    <3>3. Entry(Without(tree, y), p) = Nowhere
      BY <1>2, <2>2, <3>1, <3>2, ReachedNoMore
    <3>4. QED
      BY <2>2, <3>1, <3>3
  <2> HIDE DEF k, y
  <2>7. stack' # <<>> => stack'[Len(stack')].path = job.path
    <3> SUFFICES ASSUME k # 1 PROVE stack'[Len(stack')].path = job.path
      BY <2>5
    <3>1. k - 1 \in 1 .. k - 1 /\ k - 1 + 1 = k
      BY <1>3
    <3>2. QED
      BY <1>3, <2>5, <3>1
  <2>8. ASSUME Ways = {}, NEW i \in 1 .. Len(stack') PROVE Inside(stack'[i].path)
    <3>1. i \in 1 .. k - 1 /\ i + 1 \in 1 .. k
      BY <1>3, <2>5
    <3>2. QED
      BY <1>7, <2>5, <2>8, <3>1
  <2>9. Ways = {} => \A i \in 1 .. Len(stack') : Inside(stack[i].path)'
    BY <1>6, <2>8 DEF Inside
  <2>10. QED
    BY <1>1, <1>4, <1>5, <2>4, <2>6, <2>7, <2>9 DEF DeleteInv
<1>11. QED
  BY <1>1, <1>8, <1>9, <1>10

LEMMA DeleteSteps == ASSUME TreeAssumption, Typed, CameInv, DeleteInv, [Next]_vars PROVE DeleteInv'
<1>1. job'.op = job.op
  BY WhichJob
<1> SUFFICES ASSUME job.op = "DeletePath"
             PROVE  DeleteInv'
  BY <1>1 DEF DeleteInv
<1>2. CASE UNCHANGED vars
  BY <1>2 DEF vars, DeleteInv, Ways, Base, Inside
<1>3. ~Look /\ ~MakeDirectory /\ ~TakeName /\ ~ReadLink /\ ~CheckEmpty
  BY DEF Look, MakeDirectory, Creating, TakeName, ReadLink, Resolving, CheckEmpty
<1>4. QED
  BY <1>2, <1>3, DeleteOther, DeleteDelete DEF Next, Done, DeletePathStep

\* Places below each other
LEMMA UnderUnder ==
  ASSUME NEW a \in Seq(Names), NEW b \in Seq(Names), NEW c \in Seq(Names), Under(a, b), Under(b, c)
  PROVE  Under(a, c)
<1>1. Len(a) \in Nat /\ Len(b) \in Nat /\ Len(c) \in Nat /\ Len(a) <= Len(b) /\ Len(b) <= Len(c)
      /\ SubSeq(b, 1, Len(a)) = a /\ SubSeq(c, 1, Len(b)) = b
  BY DEF Under
<1> DEFINE j == Len(a)
           k == Len(b)
<1>2. j \in Nat /\ k \in Nat /\ j <= k /\ k <= Len(c) /\ SubSeq(b, 1, j) = a /\ SubSeq(c, 1, k) = b
  BY <1>1
<1> HIDE DEF j, k
<1>3. \A i \in 1 .. k : b[i] = c[i]
  <2>1. SubSeq(c, 1, k) = [i \in 1 .. k |-> c[i]]
    BY <1>1, <1>2
  <2>2. QED
    BY <1>2, <2>1
<1>4. SubSeq(b, 1, j) = [i \in 1 .. j |-> b[i]] /\ SubSeq(c, 1, j) = [i \in 1 .. j |-> c[i]]
  BY <1>1, <1>2
<1>5. \A i \in 1 .. j : i \in 1 .. k
  BY <1>2
<1>6. SubSeq(c, 1, j) = a
  BY <1>2, <1>3, <1>4, <1>5
<1>7. QED
  BY <1>1, <1>6 DEF Under, j

\* The names in a place are different places
LEMMA ChildrenDiffer ==
  ASSUME NEW a \in Seq(Names), NEW n \in Names, NEW m \in Names, Append(a, n) = Append(a, m)
  PROVE  n = m
<1>1. Append(a, n)[Len(a) + 1] = n /\ Append(a, m)[Len(a) + 1] = m
  BY AppendProperties
<1>2. QED
  BY <1>1

LEMMA CalmNames ==
  ASSUME NEW t, WellFormed(t), NEW b \in Seq(Names), NEW s \in Seq(StackFrames), CalmFrames(t, s, b),
         NEW i \in 1 .. Len(s)
  PROVE  /\ Named(t, s, i) \in DOMAIN t /\ Named(t, s, i) \in Seq(Names) /\ Named(t, s, i) # <<>>
         /\ Under(b, Named(t, s, i)) /\ Len(Named(t, s, i)) \in Nat
         /\ s[i] \in StackFrames /\ s[i].path \in Seq(Names) /\ s[i].seen \subseteq Names /\ s[i].was \subseteq Names
<1>1. s[i] \in StackFrames
  OBVIOUS
<1>2. Named(t, s, i) \in DOMAIN t /\ Under(b, Named(t, s, i))
  BY DEF CalmFrames, CalmFrame
<1> DEFINE e == Named(t, s, i)
<1>3. e \in Seq(Names) /\ e # <<>>
  BY <1>2 DEF WellFormed, IsTree
<1> HIDE DEF e
<1>4. Len(e) \in Nat
  BY <1>3
<1>5. QED
  BY <1>1, <1>2, <1>3, <1>4 DEF StackFrames, e

\* Taking what the innermost frame names changes nothing that the others name
LEMMA NamedStays ==
  ASSUME TreeAssumption, NEW t, WellFormed(t), NEW b \in Seq(Names), NoWays(t, b),
         NEW s \in Seq(StackFrames), CalmFrames(t, s, b), s # <<>>, Childless(t, Named(t, s, 1)),
         NEW j \in 2 .. Len(s)
  PROVE  /\ Named(Without(t, Named(t, s, 1)), s, j) = Named(t, s, j)
         /\ Named(t, s, j) # Named(t, s, 1) /\ Len(Named(t, s, j)) < Len(Named(t, s, 1))
<1> DEFINE k == Len(s)
           y == Named(t, s, 1)
           e == Named(t, s, j)
           p == s[j].path
           u == Without(t, y)
<1>1. k \in Nat /\ 1 \in 1 .. k /\ j \in 1 .. k /\ 1 < j
  BY EmptySeq
<1>2. y \in DOMAIN t /\ y \in Seq(Names) /\ Len(y) \in Nat
  BY <1>1, CalmNames
<1>3. e \in DOMAIN t /\ e \in Seq(Names) /\ Len(e) \in Nat /\ Under(b, e) /\ p \in Seq(Names) /\ Entry(t, p) = e
  BY <1>1, CalmNames DEF Named
<1>4. Under(e, y) /\ Len(e) < Len(y)
  BY <1>1 DEF CalmFrames
<1>5. Childless(t, y)
  OBVIOUS
<1> HIDE DEF k, y, e, p, u
<1>6. WellFormed(u) /\ Part(u, t) /\ DOMAIN u = DOMAIN t \ {y}
  BY <1>5, WithoutWell DEF u
<1>7. e # y
  BY <1>2, <1>3, <1>4
<1>8. NoWays(t, e)
  <2>1. ASSUME NEW q \in DOMAIN t, Under(e, q) PROVE Under(b, q)
    <3>1. q \in Seq(Names)
      BY DEF WellFormed, IsTree
    <3>2. QED
      BY <1>3, <2>1, <3>1, UnderUnder
  <2>2. QED
    BY <2>1 DEF NoWays
<1>9. \A q \in DOMAIN t : q \in DOMAIN u \/ Under(e, q)
  BY <1>4, <1>6
<1>10. e \in DOMAIN u /\ IsTree(u)
  BY <1>3, <1>6, <1>7 DEF WellFormed
<1>11. Entry(u, p) = e
  BY <1>3, <1>6, <1>8, <1>9, <1>10, BaseStays
<1>12. QED
  BY <1>4, <1>7, <1>11 DEF Named, u, y, e, p

LEMMA CalmPop ==
  ASSUME TreeAssumption, NEW t, WellFormed(t), NEW b \in Seq(Names), NoWays(t, b),
         NEW s \in Seq(StackFrames), CalmFrames(t, s, b), s # <<>>, Childless(t, Named(t, s, 1))
  PROVE  CalmFrames(Without(t, Named(t, s, 1)), Tail(s), b)
<1> DEFINE k == Len(s)
           y == Named(t, s, 1)
           u == Without(t, y)
           w == Tail(s)
           e(i) == Named(t, s, i)
<1>1. k \in Nat \ {0} /\ w \in Seq(StackFrames) /\ Len(w) = k - 1 /\ \A i \in 1 .. k - 1 : w[i] = s[i + 1]
  BY TopFrame
<1>2. WellFormed(u) /\ Part(u, t) /\ DOMAIN u = DOMAIN t \ {y}
  BY WithoutWell
<1>3. \A j \in 2 .. k : /\ Named(u, s, j) = e(j)
                        /\ e(j) # y /\ Len(e(j)) < Len(y)
  BY NamedStays
<1>4. \A i \in 1 .. k : e(i) \in DOMAIN t /\ e(i) \in Seq(Names) /\ Under(b, e(i)) /\ Len(e(i)) \in Nat
                        /\ s[i] \in StackFrames /\ s[i].seen \subseteq Names /\ s[i].was \subseteq Names
  BY CalmNames
<1>5. \A i \in 1 .. k : CalmFrame(t, s, b, i)
  BY DEF CalmFrames
<1>6. \A i \in 1 .. k, j \in 1 .. k : i < j => Under(e(j), e(i)) /\ Len(e(j)) < Len(e(i))
  BY DEF CalmFrames
<1>7. \A i \in 1 .. k - 1 : \E n \in s[i + 1].seen : e(i) = Append(e(i + 1), n)
  BY DEF CalmFrames
<1>8. e(1) = y
  OBVIOUS
<1> HIDE DEF k, y, u, w, e
<1>9. ASSUME NEW i \in 1 .. k - 1 PROVE Named(u, w, i) = e(i + 1) /\ i + 1 \in 2 .. k /\ i + 1 \in 1 .. k
  <2>1. i + 1 \in 2 .. k /\ i + 1 \in 1 .. k
    BY <1>1
  <2>2. Named(u, w, i) = Named(u, s, i + 1)
    BY <1>1 DEF Named
  <2>3. QED
    BY <1>3, <2>1, <2>2
<1>10. ASSUME NEW i \in 1 .. k - 1 PROVE CalmFrame(u, w, b, i)
  <2> DEFINE f == s[i + 1]
             c == e(i + 1)
  <2>1. w[i] = f /\ Named(u, w, i) = c /\ i + 1 \in 2 .. k /\ i + 1 \in 1 .. k /\ i \in 1 .. k /\ i \in Nat
        /\ i + 1 # 1 /\ i + 1 - 1 = i
    BY <1>1, <1>9
  <2>2. c \in DOMAIN t /\ c \in Seq(Names) /\ Under(b, c) /\ c # y /\ Len(c) \in Nat /\ f.seen \subseteq Names
        /\ f.was \subseteq Names
    BY <1>3, <1>4, <2>1
  <2>3. /\ f.at # "enter" => t[c].type = "dir"
        /\ f.at = "scan"
        /\ \A n \in Names : Append(c, n) \in DOMAIN t => n \in f.was /\ (n \in f.seen => e(i) = Append(c, n))
        /\ \A n \in f.was : n \notin f.seen => Append(c, n) \in DOMAIN t
    BY <1>5, <2>1 DEF CalmFrame, e
  <2>4. PICK m \in f.seen : e(i) = Append(c, m)
    BY <1>7
  <2> HIDE DEF f, c
  <2>5. c \in DOMAIN u /\ u[c] = t[c]
    BY <1>2, <2>2 DEF Part
  <2>6. ASSUME NEW n \in Names, Append(c, n) \in DOMAIN u
        PROVE  n \in f.was /\ (n \in f.seen => i # 1 /\ Named(u, w, i - 1) = Append(c, n))
    <3>1. n \in f.was /\ (n \in f.seen => e(i) = Append(c, n)) /\ Append(c, n) # y
      BY <1>2, <2>3, <2>6
    <3>2. CASE i = 1
      BY <1>8, <3>1, <3>2
    <3>3. CASE i # 1
      <4>1. i - 1 \in 1 .. k - 1 /\ i - 1 + 1 = i
        BY <1>1, <3>3
      <4>2. Named(u, w, i - 1) = e(i)
        BY <1>9, <4>1
      <4>3. QED
        BY <3>1, <3>3, <4>2
    <3>4. QED
      BY <3>2, <3>3
  <2>7. ASSUME NEW n \in f.was, n \notin f.seen PROVE Append(c, n) \in DOMAIN u
    <3>1. Append(c, n) \in DOMAIN t /\ n \in Names /\ m \in Names
      BY <2>2, <2>3, <2>4, <2>7
    <3>2. Append(c, n) # y
      <4>1. CASE i = 1
        <5>1. y = Append(c, m) /\ m # n
          BY <1>8, <2>4, <2>7, <4>1
        <5>2. QED
          BY <2>2, <3>1, <5>1, ChildrenDiffer
      <4>2. CASE i # 1
        <5>1. Len(e(i)) < Len(y) /\ Len(e(i)) \in Nat /\ Len(y) \in Nat
          <6>1. i \in 2 .. k /\ 1 \in 1 .. k
            BY <1>1, <4>2
          <6>2. QED
            BY <1>3, <1>4, <1>8, <6>1
        <5>2. Len(Append(c, n)) = Len(c) + 1 /\ Len(Append(c, m)) = Len(c) + 1
          BY <2>2, <3>1, AppendProperties
        <5>3. QED
          BY <2>4, <5>1, <5>2
      <4>3. QED
        BY <4>1, <4>2
    <3>3. QED
      BY <1>2, <3>1, <3>2
  <2>8. QED
    BY <2>1, <2>2, <2>3, <2>5, <2>6, <2>7 DEF CalmFrame
<1>11. ASSUME NEW i \in 1 .. k - 1, NEW j \in 1 .. k - 1, i < j
       PROVE  Under(Named(u, w, j), Named(u, w, i)) /\ Len(Named(u, w, j)) < Len(Named(u, w, i))
  <2>1. i + 1 \in 1 .. k /\ j + 1 \in 1 .. k /\ i + 1 < j + 1
    BY <1>1, <1>11
  <2>2. Under(e(j + 1), e(i + 1)) /\ Len(e(j + 1)) < Len(e(i + 1))
    BY <1>6, <2>1
  <2>3. QED
    BY <1>9, <2>2
<1>12. ASSUME NEW i \in 1 .. k - 2 PROVE \E n \in w[i + 1].seen : Named(u, w, i) = Append(Named(u, w, i + 1), n)
  <2>1. i \in 1 .. k - 1 /\ i + 1 \in 1 .. k - 1 /\ i + 1 + 1 = i + 2
    BY <1>1
  <2>2. \E n \in s[i + 1 + 1].seen : e(i + 1) = Append(e(i + 1 + 1), n)
    BY <1>7, <2>1
  <2>3. w[i + 1] = s[i + 1 + 1] /\ Named(u, w, i) = e(i + 1) /\ Named(u, w, i + 1) = e(i + 1 + 1)
    BY <1>1, <1>9, <2>1
  <2>4. QED
    BY <2>2, <2>3
<1>13. Len(w) = k - 1 /\ Len(w) - 1 = k - 2
  BY <1>1
<1>14. CalmFrames(u, w, b)
  BY <1>10, <1>11, <1>12, <1>13 DEF CalmFrames
<1>15. QED
  BY <1>14 DEF u, w, y

LEMMA CalmTop ==
  ASSUME NEW t, NEW b, NEW s \in Seq(StackFrames), CalmFrames(t, s, b), s # <<>>, NEW f \in StackFrames, f.path = s[1].path,
         NEW w, w = [s EXCEPT ![1] = f], CalmFrame(t, w, b, 1)
  PROVE  CalmFrames(t, w, b)
<1> DEFINE k == Len(s)
<1>1. k \in Nat \ {0}
  BY EmptySeq
<1>2. Len(w) = k /\ w[1] = f /\ \A i \in 2 .. k : w[i] = s[i]
  BY OtherFrame
<1>3. \A i \in 1 .. k : CalmFrame(t, s, b, i)
  BY DEF CalmFrames
<1>4. \A i \in 1 .. k, j \in 1 .. k : i < j =>
       Under(Named(t, s, j), Named(t, s, i)) /\ Len(Named(t, s, j)) < Len(Named(t, s, i))
  BY DEF CalmFrames
<1>5. \A i \in 1 .. k - 1 : \E n \in s[i + 1].seen : Named(t, s, i) = Append(Named(t, s, i + 1), n)
  BY DEF CalmFrames
<1> HIDE DEF k
<1>6. ASSUME NEW i \in 1 .. k PROVE Named(t, w, i) = Named(t, s, i)
  <2>1. w[i].path = s[i].path
    BY <1>1, <1>2
  <2>2. QED
    BY <2>1 DEF Named
<1>7. ASSUME NEW i \in 1 .. k PROVE CalmFrame(t, w, b, i)
  <2>1. CASE i = 1
    BY <2>1
  <2>2. CASE i # 1
    <3>1. w[i] = s[i] /\ Named(t, w, i) = Named(t, s, i) /\ Named(t, w, i - 1) = Named(t, s, i - 1)
      <4>1. i \in 2 .. k /\ i - 1 \in 1 .. k
        BY <1>1, <2>2
      <4>2. QED
        BY <1>2, <1>6, <4>1
    <3>2. CalmFrame(t, s, b, i)
      BY <1>3
    <3>3. QED
      BY <3>1, <3>2 DEF CalmFrame
  <2>3. QED
    BY <2>1, <2>2
<1>8. ASSUME NEW i \in 1 .. k - 1 PROVE \E n \in w[i + 1].seen : Named(t, w, i) = Append(Named(t, w, i + 1), n)
  <2>1. i \in 1 .. k /\ i + 1 \in 1 .. k /\ i + 1 \in 2 .. k
    BY <1>1
  <2>2. w[i + 1] = s[i + 1] /\ Named(t, w, i) = Named(t, s, i) /\ Named(t, w, i + 1) = Named(t, s, i + 1)
    BY <1>2, <1>6, <2>1
  <2>3. QED
    BY <1>5, <2>2
<1>9. QED
  BY <1>2, <1>4, <1>6, <1>7, <1>8 DEF CalmFrames

LEMMA CalmPush ==
  ASSUME TreeAssumption, NEW t, WellFormed(t), NEW b \in Seq(Names),
         NEW s \in Seq(StackFrames), CalmFrames(t, s, b), s # <<>>, s[1].at = "scan",
         NEW n \in Names, n \notin s[1].seen, Append(Named(t, s, 1), n) \in DOMAIN t,
         NEW f \in StackFrames, f.path = Append(s[1].path, n), f.at = "enter", f.seen = {},
         NEW g \in StackFrames, g.path = s[1].path, g.at = "scan", g.was = s[1].was, g.seen = s[1].seen \cup {n},
         NEW w, Len(w) = Len(s) + 1, w[1] = f, w[2] = g, \A i \in 3 .. Len(s) + 1 : w[i] = s[i - 1]
  PROVE  CalmFrames(t, w, b)
<1> DEFINE k == Len(s)
           e(i) == Named(t, s, i)
           p == s[1].path
           y == Append(e(1), n)
<1>1. k \in Nat \ {0} /\ p \in Seq(Names) /\ s[1] \in StackFrames /\ s[1].seen \subseteq Names
  BY TopFrame DEF StackFrames
<1>2. \A i \in 1 .. k : e(i) \in DOMAIN t /\ e(i) \in Seq(Names) /\ Under(b, e(i)) /\ Len(e(i)) \in Nat
  BY CalmNames
<1>3. \A i \in 1 .. k : CalmFrame(t, s, b, i)
  BY DEF CalmFrames
<1>4. \A i \in 1 .. k, j \in 1 .. k : i < j => Under(e(j), e(i)) /\ Len(e(j)) < Len(e(i))
  BY DEF CalmFrames
<1>5. \A i \in 1 .. k - 1 : \E m \in s[i + 1].seen : e(i) = Append(e(i + 1), m)
  BY DEF CalmFrames
<1>6. g \in StackFrames /\ g.path = p /\ g.at = "scan" /\ g.was = s[1].was /\ g.seen = s[1].seen \cup {n}
  OBVIOUS
<1>7. f \in StackFrames /\ f.path = Append(p, n) /\ f.at = "enter" /\ f.seen = {}
  OBVIOUS
<1>8. y \in DOMAIN t /\ IsTree(t) /\ Entry(t, p) = e(1)
  BY DEF WellFormed, Named
<1>10. /\ t[e(1)].type = "dir" /\ e(1) \in DOMAIN t
       /\ \A m \in Names : Append(e(1), m) \in DOMAIN t => m \in s[1].was /\ m \notin s[1].seen
       /\ \A m \in s[1].was : m \notin s[1].seen => Append(e(1), m) \in DOMAIN t
  <2>1. CalmFrame(t, s, b, 1)
    BY <1>1, <1>3
  <2>2. QED
    BY <2>1 DEF CalmFrame
<1>11. /\ Len(w) = k + 1 /\ w[1] = f /\ w[2] = g
       /\ \A i \in 3 .. k + 1 : w[i] = s[i - 1]
  OBVIOUS
<1> HIDE DEF k, e, p, y
<1>12. e(1) # Nowhere /\ NoLink(t, e(1))
  <2>1. e(1) # Nowhere
    BY <1>1, <1>8, <1>10, Reached
  <2>2. QED
    BY <1>10, <2>1 DEF NoLink
<1>13. Target(t, p) = e(1) /\ PathIsDirectory(t, p)
  <2>1. Target(t, p) = e(1)
    BY <1>1, <1>8, <1>12, Reached
  <2>2. QED
    BY <1>10, <1>12, <2>1 DEF PathIsDirectory, IsDir
<1>14. Entry(t, Append(p, n)) = y
  BY <1>1, <1>8, <1>13, EntryOfChild DEF y
<1>15. Named(t, w, 1) = y
  BY <1>7, <1>11, <1>14 DEF Named
<1>16. ASSUME NEW i \in 2 .. k + 1
       PROVE  Named(t, w, i) = e(i - 1) /\ i - 1 \in 1 .. k /\ (i # 2 => w[i] = s[i - 1])
  <2>1. i - 1 \in 1 .. k /\ (i # 2 => w[i] = s[i - 1])
    BY <1>1, <1>11
  <2>2. w[i].path = s[i - 1].path
    <3>1. CASE i = 2
      <4>1. i - 1 = 1 /\ w[i] = g
        BY <1>11, <3>1
      <4>2. QED
        BY <1>6, <4>1 DEF p
    <3>2. CASE i # 2
      BY <2>1, <3>2
    <3>3. QED
      BY <3>1, <3>2
  <2>3. QED
    BY <2>1, <2>2 DEF Named, e
<1>17. y \in Seq(Names) /\ Len(y) = Len(e(1)) + 1 /\ Under(e(1), y) /\ Under(b, y) /\ 1 \in 1 .. k
  <2>1. e(1) \in Seq(Names) /\ 1 \in 1 .. k /\ Under(b, e(1))
    BY <1>1, <1>2
  <2>2. Under(e(1), e(1)) /\ Under(e(1), Append(e(1), n)) /\ Len(Append(e(1), n)) = Len(e(1)) + 1
        /\ Append(e(1), n) \in Seq(Names)
    <3> DEFINE c == e(1)
    <3>1. c \in Seq(Names)
      BY <2>1
    <3> HIDE DEF c
    <3>2. Under(c, c)
      BY <3>1, UnderChild
    <3>3. Under(c, Append(c, n)) /\ Len(Append(c, n)) = Len(c) + 1 /\ Append(c, n) \in Seq(Names)
      BY <3>1, <3>2, UnderChild
    <3>4. QED
      BY <3>2, <3>3 DEF c
  <2>3. Under(b, Append(e(1), n))
    BY <2>1, UnderChild
  <2>4. QED
    BY <2>1, <2>2, <2>3 DEF y
<1>18. ASSUME NEW i \in 1 .. k + 1 PROVE CalmFrame(t, w, b, i)
  <2>1. CASE i = 1
    BY <1>7, <1>8, <1>11, <1>15, <1>17, <2>1 DEF CalmFrame
  <2>2. CASE i = 2
    <3>1. w[2] = g /\ Named(t, w, 2) = e(1) /\ Named(t, w, 2 - 1) = y
      <4>1. 2 \in 2 .. k + 1 /\ 2 - 1 = 1
        BY <1>1
      <4>2. QED
        BY <1>11, <1>15, <1>16, <4>1
    <3>2. e(1) \in DOMAIN t /\ Under(b, e(1))
      BY <1>2, <1>17
    <3>3. ASSUME NEW m \in Names, Append(e(1), m) \in DOMAIN t
          PROVE  m \in g.was /\ (m \in g.seen => y = Append(e(1), m))
      BY <1>6, <1>10, <3>3 DEF y
    <3>4. \A m \in g.was : m \notin g.seen => Append(e(1), m) \in DOMAIN t
      BY <1>6, <1>10
    <3> DEFINE c == e(1)
    <3>5. Named(t, w, 2) = c /\ c \in DOMAIN t /\ Under(b, c) /\ t[c].type = "dir"
          /\ (\A m \in g.was : m \notin g.seen => Append(c, m) \in DOMAIN t)
          /\ \A m \in Names : Append(c, m) \in DOMAIN t => m \in g.was /\ (m \in g.seen => y = Append(c, m))
      BY <1>10, <3>1, <3>2, <3>3, <3>4
    <3> HIDE DEF c
    <3>6. QED
      BY <1>6, <2>2, <3>1, <3>5 DEF CalmFrame
  <2>3. CASE i # 1 /\ i # 2
    <3>1. i \in 2 .. k + 1 /\ i - 1 \in 2 .. k + 1 /\ i - 1 \in 1 .. k /\ i - 1 # 1
      BY <1>1, <2>3
    <3>2. w[i] = s[i - 1] /\ Named(t, w, i) = Named(t, s, i - 1) /\ Named(t, w, i - 1) = Named(t, s, i - 1 - 1)
      BY <1>16, <2>3, <3>1 DEF e
    <3>3. CalmFrame(t, s, b, i - 1)
      BY <1>3, <3>1
    <3>4. QED
      BY <2>3, <3>1, <3>2, <3>3 DEF CalmFrame
  <2>4. QED
    BY <2>1, <2>2, <2>3
<1>19. ASSUME NEW i \in 1 .. k + 1, NEW j \in 1 .. k + 1, i < j
       PROVE  Under(Named(t, w, j), Named(t, w, i)) /\ Len(Named(t, w, j)) < Len(Named(t, w, i))
  <2>1. j \in 2 .. k + 1 /\ j - 1 \in 1 .. k /\ Named(t, w, j) = e(j - 1)
    <3>1. j \in 2 .. k + 1
      BY <1>1, <1>19
    <3>2. QED
      BY <1>16, <3>1
  <2>2. e(j - 1) \in Seq(Names) /\ Len(e(j - 1)) \in Nat /\ e(1) \in Seq(Names) /\ Len(e(1)) \in Nat
    BY <1>2, <1>17, <2>1
  <2>3. CASE i = 1
    <3>1. CASE j = 2
      <4>1. j - 1 = 1
        BY <3>1
      <4>2. QED
        BY <1>15, <1>17, <2>1, <2>2, <2>3, <4>1
    <3>2. CASE j # 2
      <4>1. 1 < j - 1
        BY <1>1, <2>1, <3>2
      <4>2. Under(e(j - 1), e(1)) /\ Len(e(j - 1)) < Len(e(1))
        BY <1>4, <1>17, <2>1, <4>1
      <4>3. Under(e(j - 1), y)
        BY <1>17, <2>2, <4>2, UnderUnder
      <4>4. QED
        BY <1>15, <1>17, <2>1, <2>2, <2>3, <4>2, <4>3
    <3>3. QED
      BY <3>1, <3>2
  <2>4. CASE i # 1
    <3>1. i \in 2 .. k + 1 /\ i - 1 < j - 1
      BY <1>1, <1>19, <2>4
    <3>2. Named(t, w, i) = e(i - 1) /\ i - 1 \in 1 .. k
      BY <1>16, <3>1
    <3>3. QED
      BY <1>4, <2>1, <3>1, <3>2
  <2>5. QED
    BY <2>3, <2>4
<1>20. ASSUME NEW i \in 1 .. k PROVE \E m \in w[i + 1].seen : Named(t, w, i) = Append(Named(t, w, i + 1), m)
  <2>1. i + 1 \in 2 .. k + 1 /\ i + 1 - 1 = i
    BY <1>1
  <2>2. Named(t, w, i + 1) = e(i)
    <3> DEFINE j == i + 1
    <3>1. j \in 2 .. k + 1 /\ j - 1 = i
      BY <2>1
    <3> HIDE DEF j
    <3>2. Named(t, w, j) = e(j - 1)
      BY <1>16, <3>1
    <3>3. QED
      BY <3>1, <3>2 DEF j
  <2>3. CASE i = 1
    <3>1. w[i + 1] = g /\ Named(t, w, i) = y /\ Named(t, w, i + 1) = e(1)
      BY <1>11, <1>15, <2>2, <2>3
    <3>2. n \in g.seen
      BY <1>6
    <3>3. QED
      BY <3>1, <3>2 DEF y
  <2>4. CASE i # 1
    <3>1. i \in 2 .. k + 1 /\ i - 1 \in 1 .. k - 1 /\ i - 1 + 1 = i /\ i + 1 # 2
      BY <1>1, <2>4
    <3>2. \E m \in s[i].seen : e(i - 1) = Append(e(i), m)
      <4>1. \E m \in s[i - 1 + 1].seen : e(i - 1) = Append(e(i - 1 + 1), m)
        BY <1>5, <3>1
      <4>2. QED
        BY <3>1, <4>1
    <3>3. Named(t, w, i) = e(i - 1)
      BY <1>16, <3>1
    <3> DEFINE j == i + 1
    <3>4. j \in 2 .. k + 1 /\ j - 1 = i /\ j # 2
      BY <2>1, <3>1
    <3> HIDE DEF j
    <3>5. w[j] = s[j - 1]
      BY <1>16, <3>4
    <3>6. w[i + 1] = s[i]
      BY <3>4, <3>5 DEF j
    <3>7. QED
      BY <2>2, <3>2, <3>3, <3>6
  <2>5. QED
    BY <2>3, <2>4
<1>21. Len(w) = k + 1 /\ Len(w) - 1 = k
  BY <1>1, <1>11
<1>22. QED
  BY <1>18, <1>19, <1>20, <1>21 DEF CalmFrames

\* While nobody interferes
Calm ==
  /\ job.op = "DeletePath" /\ Quiet /\ Ways = {} /\ Base \notin {Nowhere, <<>>}
  /\ job.result = "OK" /\ CalmFrames(tree, stack, Base) /\ stack # <<>>

LEMMA CalmFacts ==
  ASSUME TreeAssumption, Typed, CameInv, Calm
  PROVE  /\ Base \in Seq(Names) /\ NoWays(tree, Base) /\ WellFormed(tree) /\ IsTree(tree)
         /\ Entry(tree, Top.path) = Named(tree, stack, 1) /\ Named(tree, stack, 1) \in DOMAIN tree
         /\ Named(tree, stack, 1) # Nowhere /\ Under(Base, Named(tree, stack, 1))
         /\ CalmFrame(tree, stack, Base, 1) /\ Top = stack[1] /\ Top \in StackFrames /\ Top.path \in Seq(Names)
         /\ Named(tree, stack, 1) # <<>>
<1>1. WellFormed(tree) /\ IsTree(tree) /\ WellFormed(first) /\ IsTree(first) /\ job.path \in Seq(Names)
      /\ stack \in Seq(StackFrames) /\ stack # <<>> /\ CalmFrames(tree, stack, Base)
  BY AskedAre DEF Typed, WellFormed, Jobs, Calm
<1>2. Base \in Seq(Names)
  <2>1. Base \in DOMAIN first \cup {<<>>, Nowhere}
    BY <1>1, Reached DEF Base
  <2>2. QED
    BY <1>1, <2>1 DEF Calm, IsTree
<1>3. Part(tree, first)
  <2>1. CameOf(tree, first, {})
    BY DEF CameInv, Calm, Quiet
  <2>2. QED
    BY <2>1 DEF CameOf, Part
<1>4. NoWays(tree, Base)
  <2> SUFFICES ASSUME NEW p \in DOMAIN tree, Under(Base, p), tree[p].type = "link", PathIsDirectory(tree, p) PROVE FALSE
    BY DEF NoWays
  <2>1. p \in Seq(Names)
    BY <1>1 DEF IsTree
  <2>2. PathIsDirectory(first, p)
    BY <1>1, <1>3, <2>1, ReachedInPart
  <2>3. p \in Ways
    BY <1>3, <2>2 DEF Part, Ways
  <2>4. QED
    BY <2>3 DEF Calm
<1>5. Len(stack) \in Nat \ {0} /\ Top = stack[1] /\ Top \in StackFrames /\ Top.path \in Seq(Names) /\ Nowhere \notin DOMAIN tree
  BY <1>1, TopFrame, TopReached DEF Top
<1>6. 1 \in 1 .. Len(stack)
  BY <1>5
<1>7. CalmFrame(tree, stack, Base, 1)
  BY <1>1, <1>6 DEF CalmFrames
<1>8. Named(tree, stack, 1) \in DOMAIN tree /\ Under(Base, Named(tree, stack, 1)) /\ Named(tree, stack, 1) # <<>>
  BY <1>1, <1>2, <1>6, CalmNames
<1>9. Entry(tree, Top.path) = Named(tree, stack, 1)
  BY <1>5 DEF Named
<1>10. QED
  BY <1>1, <1>2, <1>4, <1>5, <1>7, <1>8, <1>9

\* A directory that a frame names is one, and no link to it
LEMMA CalmTarget ==
  ASSUME TreeAssumption, Typed, CameInv, Calm
  PROVE  /\ PathIsDirectory(tree, Top.path) <=> tree[Named(tree, stack, 1)].type = "dir"
         /\ tree[Named(tree, stack, 1)].type = "dir" => Target(tree, Top.path) = Named(tree, stack, 1)
<1> DEFINE e == Named(tree, stack, 1)
           p == Top.path
<1>1. Base \in Seq(Names) /\ NoWays(tree, Base) /\ WellFormed(tree) /\ IsTree(tree) /\ Entry(tree, p) = e
      /\ e \in DOMAIN tree /\ e # Nowhere /\ Under(Base, e) /\ p \in Seq(Names) /\ e # <<>>
  BY CalmFacts
<1> HIDE DEF e, p
<1>2. tree[e].type # "link" => Target(tree, p) = e
  BY <1>1, Reached DEF NoLink
<1>3. tree[e].type = "dir" => PathIsDirectory(tree, p)
  BY <1>1, <1>2 DEF PathIsDirectory, IsDir
<1>4. PathIsDirectory(tree, p) => tree[e].type # "link"
  <2> SUFFICES ASSUME PathIsDirectory(tree, p), tree[e].type = "link" PROVE FALSE
    OBVIOUS
  <2>1. PathIsDirectory(tree, e)
    BY <1>1, LinkToDirectory
  <2>2. QED
    BY <1>1, <2>1 DEF NoWays
<1>5. PathIsDirectory(tree, p) => tree[e].type = "dir"
  BY <1>1, <1>2, <1>4 DEF PathIsDirectory, IsDir
<1>6. QED
  BY <1>2, <1>3, <1>5 DEF e, p

LEMMA CalmEnter ==
  ASSUME TreeAssumption, Typed, CameInv, Calm, EnterDirectory, Quiet'
  PROVE  job'.result = "OK" /\ CalmFrames(tree', stack', Base)
<1> DEFINE e == Named(tree, stack, 1)
           L == Listing(tree, Top.path)
           f == [Top EXCEPT !.at = "scan", !.was = L]
<1>1. CalmFrame(tree, stack, Base, 1) /\ Top = stack[1] /\ Top \in StackFrames /\ e \in DOMAIN tree /\ Under(Base, e)
      /\ stack \in Seq(StackFrames) /\ stack # <<>> /\ CalmFrames(tree, stack, Base) /\ Entry(tree, Top.path) = e
  BY CalmFacts DEF Typed, Calm
<1>2. ~Refuse
  BY RefuseApart
<1>3. /\ stack' = [stack EXCEPT ![1].at = "scan", ![1].was = L] /\ job' = [job EXCEPT !.result = "OK"]
      /\ tree' = tree /\ Top.at = "enter" /\ PathIsDirectory(tree, Top.path)
  BY <1>2 DEF EnterDirectory
<1>4. tree[e].type = "dir" /\ Target(tree, Top.path) = e
  BY <1>3, CalmTarget
<1>5. L = {n \in Names : Append(e, n) \in DOMAIN tree}
  BY <1>4 DEF Listing
<1> HIDE DEF L
<1>6. stack' = [stack EXCEPT ![1] = f]
  BY <1>1, <1>3
<1>7. f \in StackFrames /\ f.path = Top.path /\ f.at = "scan" /\ f.was = L /\ f.seen = Top.seen
  BY <1>1, <1>5 DEF StackFrames
<1>8. Top.seen = {}
  BY <1>1, <1>3 DEF CalmFrame
<1> HIDE DEF f, e
<1> DEFINE w == stack'
<1>9. w[1] = f /\ w = [stack EXCEPT ![1] = f]
  BY <1>1, <1>6, <1>7, OtherFrame
<1> HIDE DEF w
<1>10. Named(tree, w, 1) = e
  BY <1>1, <1>7, <1>9 DEF Named, e
<1>11. CalmFrame(tree, w, Base, 1)
  BY <1>1, <1>4, <1>5, <1>7, <1>8, <1>9, <1>10 DEF CalmFrame
<1>12. CalmFrames(tree, w, Base)
  BY <1>1, <1>7, <1>9, <1>11, CalmTop
<1>13. job'.result = "OK"
  BY <1>3 DEF Typed, Jobs
<1>14. QED
  BY <1>3, <1>12, <1>13 DEF w

LEMMA CalmLast ==
  ASSUME TreeAssumption, Typed, CameInv, Calm, LastEntry
  PROVE  job'.result = "OK" /\ CalmFrames(tree', stack', Base)
<1> DEFINE e == Named(tree, stack, 1)
           f == [Top EXCEPT !.at = "rmdir"]
<1>1. CalmFrame(tree, stack, Base, 1) /\ Top = stack[1] /\ Top \in StackFrames /\ e \in DOMAIN tree /\ Under(Base, e)
      /\ stack \in Seq(StackFrames) /\ stack # <<>> /\ CalmFrames(tree, stack, Base) /\ job.result = "OK"
  BY CalmFacts DEF Typed, Calm
<1>2. stack' = [stack EXCEPT ![1].at = "rmdir"] /\ tree' = tree /\ job' = job /\ Top.at = "scan"
      /\ Top.was \subseteq Top.seen
  BY <1>1 DEF LastEntry
<1>3. tree[e].type = "dir" /\ Childless(tree, e)
  BY <1>1, <1>2 DEF CalmFrame, Childless
<1>4. stack' = [stack EXCEPT ![1] = f]
  BY <1>1, <1>2
<1>5. f \in StackFrames /\ f.path = Top.path /\ f.at = "rmdir"
  BY <1>1 DEF StackFrames
<1> HIDE DEF f, e
<1> DEFINE w == stack'
<1>6. w[1] = f /\ w = [stack EXCEPT ![1] = f]
  BY <1>1, <1>4, <1>5, OtherFrame
<1> HIDE DEF w
<1>7. Named(tree, w, 1) = e
  BY <1>1, <1>5, <1>6 DEF Named, e
<1>8. CalmFrame(tree, w, Base, 1)
  BY <1>1, <1>3, <1>5, <1>6, <1>7 DEF CalmFrame
<1>9. CalmFrames(tree, w, Base)
  BY <1>1, <1>5, <1>6, <1>8, CalmTop
<1>10. QED
  BY <1>1, <1>2, <1>9 DEF w

LEMMA CalmNext ==
  ASSUME TreeAssumption, Typed, CameInv, Calm, NextEntry
  PROVE  job'.result = "OK" /\ CalmFrames(tree', stack', Base)
<1> DEFINE e == Named(tree, stack, 1)
<1>1. CalmFrame(tree, stack, Base, 1) /\ Top = stack[1] /\ Top \in StackFrames /\ e \in DOMAIN tree /\ Under(Base, e)
      /\ stack \in Seq(StackFrames) /\ stack # <<>> /\ CalmFrames(tree, stack, Base) /\ job.result = "OK"
      /\ WellFormed(tree) /\ Top.path \in Seq(Names) /\ Base \in Seq(Names)
  BY CalmFacts DEF Typed, Calm
<1>2. PICK n \in (Top.was \cup Listing(tree, Top.path)) \ Top.seen :
        stack' = <<Frame(Child(Top.path, n)), [Top EXCEPT !.seen = @ \cup {n}]>> \o Tail(stack)
  BY DEF NextEntry
<1>3. tree' = tree /\ job' = job /\ Top.at = "scan"
  BY DEF NextEntry
<1>4. tree[e].type = "dir" /\ (\A m \in Top.was : m \notin Top.seen => Append(e, m) \in DOMAIN tree)
  BY <1>1, <1>3 DEF CalmFrame
<1>5. Target(tree, Top.path) = e
  BY <1>4, CalmTarget
<1>6. n \in Names /\ n \notin Top.seen /\ Append(e, n) \in DOMAIN tree
  <2>1. n \in Top.was \/ n \in Listing(tree, Top.path)
    BY <1>2
  <2>2. CASE n \in Top.was
    BY <1>1, <1>2, <1>4, <2>2 DEF StackFrames
  <2>3. CASE n \in Listing(tree, Top.path)
    BY <1>2, <1>5, <2>3 DEF Listing
  <2>4. QED
    BY <2>1, <2>2, <2>3
<1> DEFINE f == Frame(Child(Top.path, n))
           g == [Top EXCEPT !.seen = @ \cup {n}]
<1>7. f \in StackFrames /\ f.path = Append(Top.path, n) /\ f.at = "enter" /\ f.seen = {}
  <2>1. Append(Top.path, n) \in Seq(Names)
    BY <1>1, <1>6
  <2>2. QED
    BY <2>1, FrameIs DEF Child
<1>8. g \in StackFrames /\ g.path = Top.path /\ g.at = "scan" /\ g.was = Top.was /\ g.seen = Top.seen \cup {n}
  BY <1>1, <1>3, <1>6 DEF StackFrames
<1> HIDE DEF f, g, e
<1> DEFINE w == stack'
<1>9. w = <<f, g>> \o Tail(stack)
  BY <1>2 DEF f, g
<1> HIDE DEF w
<1>10. Len(w) = Len(stack) + 1 /\ w[1] = f /\ w[2] = g /\ \A i \in 3 .. Len(stack) + 1 : w[i] = stack[i - 1]
  BY <1>1, <1>7, <1>8, <1>9, PushedFrames
<1>11. CalmFrames(tree, w, Base)
  BY <1>1, <1>3, <1>6, <1>7, <1>8, <1>10, CalmPush DEF e
<1>12. QED
  BY <1>1, <1>3, <1>11 DEF w

LEMMA CalmUnlink ==
  ASSUME TreeAssumption, Typed, CameInv, Calm, Unlink, Quiet'
  PROVE  job'.result = "OK" /\ CalmFrames(tree', stack', Base)
<1> DEFINE e == Named(tree, stack, 1)
<1>1. /\ e \in DOMAIN tree /\ e # Nowhere /\ e # <<>> /\ Entry(tree, Top.path) = e /\ WellFormed(tree)
      /\ stack \in Seq(StackFrames) /\ stack # <<>> /\ CalmFrames(tree, stack, Base)
      /\ Base \in Seq(Names) /\ NoWays(tree, Base)
  BY CalmFacts DEF Typed, Calm
<1>2. ~IsDir(tree, e)
  <2>1. tree[e].type # "dir"
    BY CalmTarget DEF Unlink
  <2>2. QED
    BY <1>1, <2>1 DEF IsDir
<1>3. ~Refuse
  BY RefuseApart
<1>4. tree' = Without(tree, e) /\ Pop("OK")
  BY <1>1, <1>2, <1>3 DEF Unlink
<1>5. Childless(tree, e)
  BY <1>1, <1>2, LeafChildless
<1>6. job'.result = "OK" /\ stack' = Tail(stack)
  BY <1>4, PopJob DEF Results
<1>7. CalmFrames(Without(tree, e), Tail(stack), Base)
  BY <1>1, <1>5, CalmPop
<1>8. QED
  BY <1>4, <1>6, <1>7

LEMMA CalmRemove ==
  ASSUME TreeAssumption, Typed, CameInv, Calm, RemoveDirectory, Quiet'
  PROVE  job'.result = "OK" /\ CalmFrames(tree', stack', Base)
<1> DEFINE e == Named(tree, stack, 1)
<1>1. /\ e \in DOMAIN tree /\ e # Nowhere /\ e # <<>> /\ Entry(tree, Top.path) = e /\ WellFormed(tree)
      /\ stack \in Seq(StackFrames) /\ stack # <<>> /\ CalmFrames(tree, stack, Base) /\ job.result = "OK"
      /\ Base \in Seq(Names) /\ NoWays(tree, Base) /\ CalmFrame(tree, stack, Base, 1) /\ Top = stack[1]
  BY CalmFacts DEF Typed, Calm
<1>2. tree[e].type = "dir" /\ Childless(tree, e)
  BY <1>1 DEF CalmFrame, RemoveDirectory
<1>3. Listing(tree, Top.path) = {}
  <2>1. Target(tree, Top.path) = e
    BY <1>2, CalmTarget
  <2>2. QED
    BY <1>2, <2>1 DEF Listing, Childless
<1>4. ~Refuse
  BY RefuseApart
<1> HIDE DEF e
<1>5. tree' = Without(tree, e) /\ Pop("OK")
  BY <1>1, <1>2, <1>3, <1>4 DEF RemoveDirectory
<1>6. job'.result = "OK" /\ stack' = Tail(stack)
  BY <1>5, PopJob DEF Results
<1>7. CalmFrames(Without(tree, e), Tail(stack), Base)
  BY <1>1, <1>2, CalmPop DEF e
<1>8. QED
  BY <1>5, <1>6, <1>7

LEMMA CalmSteps == ASSUME TreeAssumption, Typed, CameInv, CalmInv, [Next]_vars PROVE CalmInv'
<1>1. job'.op = job.op /\ job'.path = job.path /\ first' = first
  BY WhichJob
<1>2. Ways' = Ways /\ Base' = Base
  BY <1>1 DEF Ways, Base
<1> SUFFICES ASSUME job.op = "DeletePath", Quiet', Ways = {}, Base \notin {Nowhere, <<>>}
             PROVE  job'.result = "OK" /\ CalmFrames(tree', stack', Base)
  BY <1>1, <1>2 DEF CalmInv
<1>3. CASE UNCHANGED vars
  <2>1. Quiet
    BY <1>3 DEF vars, Quiet
  <2>2. QED
    BY <1>3, <2>1 DEF vars, CalmInv
<1>4. CASE Other
  BY <1>4, OtherSteps
<1>5. CASE DeletePathStep
  <2>1. Calm
    BY <1>5, DeletePathSteps DEF Apart, CalmInv, Calm
  <2>2. QED
    BY <1>5, <2>1, CalmEnter, CalmLast, CalmNext, CalmUnlink, CalmRemove DEF DeletePathStep
<1>6. ~Look /\ ~MakeDirectory /\ ~TakeName /\ ~ReadLink /\ ~CheckEmpty
  BY DEF Look, MakeDirectory, Creating, TakeName, ReadLink, Resolving, CheckEmpty
<1>7. QED
  BY <1>3, <1>4, <1>5, <1>6 DEF Next, Done, DeletePathStep

-----------------------------------------------------------------------------
(* The invariant *)

TreeInv == Typed /\ CreateInv /\ ResolveInv /\ CameInv /\ EmptyInv /\ DeleteInv /\ CalmInv

LEMMA TreeInvAtFirst == TreeAssumption /\ Init => TreeInv
BY TypedAtFirst, CreateAtFirst, ResolveAtFirst, CameAtFirst, EmptyAtFirst, DeleteAtFirst DEF TreeInv

LEMMA TreeInvSteps == TreeAssumption /\ TreeInv /\ [Next]_vars => TreeInv'
BY TypedSteps, CreateSteps, ResolveSteps, CameSteps, EmptySteps, DeleteSteps, CalmSteps DEF TreeInv

LEMMA DeleteStays ==
  ASSUME TreeAssumption, TreeInv
  PROVE  DeleteStaysInside
<1> SUFFICES ASSUME job.op = "DeletePath", job.pc = "done" PROVE DeleteStaysInside
  BY DEF DeleteStaysInside
<1>1. job.result = "OK" => Entry(tree, job.path) = Nowhere
  BY DEF TreeInv, DeleteInv
<1>2. Ways = {} => \A p \in Gone : Under(Base, p)
  BY DEF TreeInv, DeleteInv, Gone
<1>3. Ways = {} /\ Quiet /\ Base \notin {Nowhere, <<>>} => job.result = "OK"
  BY DEF TreeInv, CalmInv
<1>4. QED
  BY <1>1, <1>2, <1>3 DEF DeleteStaysInside

LEMMA OnlyEmpty ==
  ASSUME TreeAssumption, TreeInv
  PROVE  OnlyEmptyDeleted
<1> SUFFICES ASSUME job.pc = "done" PROVE OnlyEmptyDeleted
  BY DEF OnlyEmptyDeleted
<1>1. job.op = "DeleteDirectoryIfEmpty" =>
        /\ Gone \subseteq {Base} /\ (job.result = "NOT_EMPTY" => Gone = {})
        /\ Quiet /\ job.result = "OK" => Gone # {}
  BY DEF TreeInv, EmptyInv
<1>2. job.op = "CreateDirectoriesInPath" => Gone = {} /\ (job.result = "OK" => PathIsDirectory(tree, job.path))
  BY DEF TreeInv, CreateInv, Gone, Part
<1>3. QED
  BY <1>1, <1>2 DEF OnlyEmptyDeleted

\* What the run checks of the types
LEMMA TreeTypes ==
  ASSUME TreeAssumption, TreeInv
  PROVE  TreeTypeOK
<1>1. WellFormed(tree) /\ IsTree(tree) /\ job \in Jobs /\ stack \in Seq(StackFrames) /\ job.done <= Len(job.path)
      /\ Len(job.path) \in Nat
  BY AskedAre DEF TreeInv, Typed, Where, WellFormed, Jobs
<1>2. \A p \in DOMAIN tree : p \in Seq(Names) /\ IsDir(tree, Front(p)) /\ tree[p].type \in {"file", "dir", "link"}
  BY <1>1 DEF WellFormed, IsTree, Nodes
<1>3. job.done \in 0 .. Len(job.path)
  BY <1>1 DEF Jobs
<1>4. \A i \in DOMAIN stack : stack[i].seen \subseteq Names
  <2>1. \A i \in DOMAIN stack : stack[i] \in StackFrames
    BY <1>1
  <2>2. QED
    BY <2>1 DEF StackFrames
<1>5. QED
  BY <1>2, <1>3, <1>4 DEF TreeTypeOK

LEMMA TreeConsequences ==
  TreeAssumption /\ TreeInv => DeleteStaysInside /\ OnlyEmptyDeleted /\ ResolvedPathLeadsThere /\ TreeTypeOK
BY DeleteStays, OnlyEmpty, ResolveHolds, TreeTypes DEF TreeInv
=============================================================================
