-------------------------- MODULE Components_proofs --------------------------
(***************************************************************************)
(* Proofs about the components that share no state: each one's invariant   *)
(* is proved of its own instance in Components, and the composition is      *)
(* shown to keep the invariant of the component that runs.                  *)
(***************************************************************************)
EXTENDS Components, Integers, FiniteSetTheorems, TLAPS

-----------------------------------------------------------------------------
(* The composition: which component runs does not change, and a step is one *)
(* of it, or leaves what it uses alone                                      *)

LEMMA Parts ==
  ASSUME [Next]_vars
  PROVE  /\ part' = part
         /\ part = "wrap"   => Wrap!Next \/ UNCHANGED <<s1, s2, s3, s4>>
         /\ part = "unwrap" => Unwrap!Next \/ UNCHANGED <<s1, s2, s3>>
         /\ part = "clip"   => Clip!Next \/ UNCHANGED <<s1, s2, s3>>
         /\ part = "global" => Global!Next \/ UNCHANGED <<s1, s2, s3>>
         /\ part = "file"   => File!Next \/ UNCHANGED <<s1, s2, s3, s4, s5, s6>>
         /\ part = "tree"   => Tree!Next \/ UNCHANGED <<s1, s2, s3, s4, s5>>
         /\ part = "pair"   => Pair!Next \/ UNCHANGED <<s1, s2, s3, s4, s5>>
         /\ part = "command" => CommandNext \/ UNCHANGED commandVars
<1>1. CASE UNCHANGED vars
  BY <1>1 DEF vars, commandVars
<1>2. CASE Next
  BY <1>2 DEF Next, Keep4, Keep5, Keep6, KeepCommand, WrapStep, UnwrapStep, Wrap!Next, Unwrap!Next
<1>3. QED
  BY <1>1, <1>2

-----------------------------------------------------------------------------
(* PairReader: kind is s1, reader s2, last s3, troubles s4, calls s5       *)

PairLen(p) == Units[p[1]].len[p[2]]

\* What the reader has done that m_StereoFrameReady and m_LastPosition do not account for
Misled == {"unread", "seek", "stray", "stale"}

LEMMA PairUnits ==
  ASSUME NEW n \in DOMAIN Units
  PROVE  /\ KL \in Nat /\ KL >= 1
         /\ Pair!At(n) \in Nat /\ Pair!At(n) >= 1
         /\ Units[n].len[1] \in Nat /\ Units[n].len[1] > KL + 1
         /\ Units[n].len[2] \in Nat /\ Units[n].len[2] > KL + 1
         /\ \A m \in DOMAIN Units : m < n => Pair!At(m) + Units[m].len[1] + Units[m].len[2] <= Pair!At(n)
  <1>1. Units \in Seq([at : Nat \ {0}, len : Seq(Nat)]) /\ Pair!PairAssumption
    BY ComponentsAssumption DEF Pair!PairAssumption
  <1>2. Units[n] \in [at : Nat \ {0}, len : Seq(Nat)] /\ Len(Units[n].len) = 2
    <2>1. Units[n] \in [at : Nat \ {0}, len : Seq(Nat)]
      <3>1. \A S : Units \in Seq(S) => Units[n] \in S
        OBVIOUS
      <3>2. QED
        BY <1>1, <3>1
    <2>2. QED
      BY <1>1, <2>1 DEF Pair!PairAssumption
  <1>3. Units[n].len[1] \in Nat /\ Units[n].len[2] \in Nat
    <2>1. \A s \in Seq(Nat) : Len(s) = 2 => s[1] \in Nat /\ s[2] \in Nat
      OBVIOUS
    <2>2. QED
      BY <1>2, <2>1
  <1>4. Pair!At(n) \in Nat /\ Pair!At(n) >= 1
    <2>1. Units[n].at \in Nat \ {0}
      BY ONLY <1>2
    <2>2. QED
      BY ONLY <2>1 DEF Pair!At
  <1>5. KL \in Nat /\ KL >= 1 /\ Units[n].len[1] > KL + 1 /\ Units[n].len[2] > KL + 1
    BY <1>1 DEF Pair!PairAssumption
  <1>6. \A m \in DOMAIN Units : m < n => Pair!At(m) + Units[m].len[1] + Units[m].len[2] <= Pair!At(n)
    BY <1>1 DEF Pair!PairAssumption, Pair!At
  <1>7. QED
    BY <1>3, <1>4, <1>5, <1>6

LEMMA PairPlaces ==
  /\ DOMAIN Units \subseteq Nat \ {0}
  /\ \A n \in DOMAIN Units : /\ <<n, 1>> \in Pair!Places /\ <<n, 2>> \in Pair!Places
                             /\ Pair!Place(<<n, 1>>) = Pair!At(n)
                             /\ Pair!Place(<<n, 2>>) = Pair!At(n) + Units[n].len[1]
                             /\ PairLen(<<n, 1>>) = Units[n].len[1] /\ PairLen(<<n, 2>>) = Units[n].len[2]
  /\ \A p \in Pair!Places : \E n \in DOMAIN Units : p = <<n, 1>> \/ p = <<n, 2>>
<1>1. Units \in Seq([at : Nat \ {0}, len : Seq(Nat)])
  BY ComponentsAssumption DEF Pair!PairAssumption
<1>2. \A n \in DOMAIN Units : Pair!At(n) \in Nat
  BY PairUnits
<1>3. QED
  BY <1>1, <1>2 DEF Pair!Places, Pair!Place, PairLen

\* A position within a packet belongs to no other
LEMMA PairApart ==
  ASSUME NEW p \in Pair!Places, NEW q \in Pair!Places, NEW d \in Nat, d < PairLen(p),
         Pair!Place(q) = Pair!Place(p) + d
  PROVE  q = p /\ d = 0
<1>1. PICK m \in DOMAIN Units : p = <<m, 1>> \/ p = <<m, 2>>
  BY PairPlaces
<1>2. PICK n \in DOMAIN Units : q = <<n, 1>> \/ q = <<n, 2>>
  BY PairPlaces
<1>3. m \in Nat /\ n \in Nat
  BY PairPlaces
<1>4. /\ p = <<m, 1>> => Pair!Place(p) = Pair!At(m) /\ PairLen(p) = Units[m].len[1]
      /\ p = <<m, 2>> => Pair!Place(p) = Pair!At(m) + Units[m].len[1] /\ PairLen(p) = Units[m].len[2]
      /\ q = <<n, 1>> => Pair!Place(q) = Pair!At(n)
      /\ q = <<n, 2>> => Pair!Place(q) = Pair!At(n) + Units[n].len[1]
  BY PairPlaces
<1>5. /\ Pair!At(m) \in Nat /\ Units[m].len[1] \in Nat /\ Units[m].len[1] > 0 /\ Units[m].len[2] \in Nat /\ Units[m].len[2] > 0
      /\ Pair!At(n) \in Nat /\ Units[n].len[1] \in Nat /\ Units[n].len[1] > 0 /\ Units[n].len[2] \in Nat /\ Units[n].len[2] > 0
      /\ m < n => Pair!At(m) + Units[m].len[1] + Units[m].len[2] <= Pair!At(n)
      /\ n < m => Pair!At(n) + Units[n].len[1] + Units[n].len[2] <= Pair!At(m)
  BY PairUnits
<1>6. m = n
  BY <1>1, <1>2, <1>3, <1>4, <1>5
<1>7. QED
  BY <1>1, <1>2, <1>3, <1>4, <1>5, <1>6

LEMMA PairPacketAt ==
  /\ Pair!Nothing \notin Pair!Places
  /\ \A p \in Pair!Places : Pair!Place(p) \in Nat /\ PairLen(p) \in Nat /\ PairLen(p) > KL + 1
  /\ \A p \in Pair!Places : Pair!PacketAt(Pair!Place(p)) = p
  /\ \A pos : \/ Pair!PacketAt(pos) = Pair!Nothing
              \/ Pair!PacketAt(pos) \in Pair!Places /\ Pair!Place(Pair!PacketAt(pos)) = pos
  /\ \A p \in Pair!Places : \A d \in Nat \ {0} :
       d < PairLen(p) => Pair!PacketAt(Pair!Place(p) + d) = Pair!Nothing
<1>1. Pair!Nothing \notin Pair!Places
  BY PairPlaces DEF Pair!Places, Pair!Nothing
<1>2. \A p \in Pair!Places : Pair!Place(p) \in Nat /\ PairLen(p) \in Nat /\ PairLen(p) > KL + 1
  <2>1. TAKE p \in Pair!Places
  <2>2. PICK n \in DOMAIN Units : p = <<n, 1>> \/ p = <<n, 2>>
    BY PairPlaces
  <2>3. /\ Pair!At(n) \in Nat /\ Units[n].len[1] \in Nat /\ Units[n].len[1] > KL + 1
        /\ Units[n].len[2] \in Nat /\ Units[n].len[2] > KL + 1
    BY PairUnits
  <2>4. /\ p = <<n, 1>> => Pair!Place(p) = Pair!At(n) /\ PairLen(p) = Units[n].len[1]
        /\ p = <<n, 2>> => Pair!Place(p) = Pair!At(n) + Units[n].len[1] /\ PairLen(p) = Units[n].len[2]
    BY PairPlaces
  <2>5. QED
    BY <2>2, <2>3, <2>4
<1>3. KL \in Nat
  BY ComponentsAssumption DEF Pair!PairAssumption
<1>4. \A p, q \in Pair!Places : Pair!Place(q) = Pair!Place(p) => q = p
  <2>1. SUFFICES ASSUME NEW p \in Pair!Places, NEW q \in Pair!Places, Pair!Place(q) = Pair!Place(p)
                 PROVE  q = p
    OBVIOUS
  <2>2. Pair!Place(q) = Pair!Place(p) + 0 /\ 0 < PairLen(p)
    BY <1>2, <1>3, <2>1
  <2>3. QED
    BY <2>2, PairApart
<1>5. ASSUME NEW pos
      PROVE  \/ Pair!PacketAt(pos) = Pair!Nothing /\ \A p \in Pair!Places : Pair!Place(p) # pos
             \/ Pair!PacketAt(pos) \in Pair!Places /\ Pair!Place(Pair!PacketAt(pos)) = pos
  BY DEF Pair!PacketAt
<1>6. \A p \in Pair!Places : Pair!PacketAt(Pair!Place(p)) = p
  BY <1>4, <1>5
<1>7. ASSUME NEW p \in Pair!Places, NEW d \in Nat \ {0}, d < PairLen(p)
      PROVE  Pair!PacketAt(Pair!Place(p) + d) = Pair!Nothing
  BY <1>5, <1>7, PairApart
<1>8. QED
  BY <1>1, <1>2, <1>5, <1>6, <1>7

PairReaders == [filePos : Nat, lastPosition : Nat, ready : {Pair!NoFrame} \cup DOMAIN Units]

PairTroubles == {"unread", "seek", "stray", "partial", "stale"}
PairSteps == [reader : PairReaders, ok : BOOLEAN, packet : Pair!Places \cup {Pair!Nothing}, troubles : SUBSET PairTroubles]

\* A position that no packet starts at is taken to be stray, or is inside one
PairLost(r) == Pair!PacketAt(r.filePos) = Pair!Nothing

LEMMA PairReadType ==
  ASSUME NEW r \in PairReaders, NEW half \in {1, 2}, NEW f, NEW len \in Pair!Lengths(r.filePos)
  PROVE  /\ Pair!Read_EKLV_Packet(r, half, f, len) \in PairSteps
         /\ Pair!Read_EKLV_Packet(r, half, f, len).reader.ready = r.ready
         /\ LET s == Pair!Read_EKLV_Packet(r, half, f, len) IN ~s.ok => s.packet = Pair!Nothing
         /\ len \in Nat
<1>1. KL \in Nat /\ StrayLens \subseteq Nat
  BY ComponentsAssumption DEF Pair!PairAssumption
<1>2. len \in Nat
  BY <1>1, PairPacketAt DEF Pair!Lengths, PairLen
<1>3. Pair!PacketAt(r.filePos) \in Pair!Places \cup {Pair!Nothing}
  BY PairPacketAt
<1>4. r.filePos \in Nat /\ r.lastPosition \in Nat
  BY DEF PairReaders
<1>5. Pair!Read_EKLV_Packet(r, half, f, len) \in PairSteps
  <2> DEFINE past(n) == [r EXCEPT !.filePos = @ + n, !.lastPosition = @ + len]
  <2> DEFINE one == [r EXCEPT !.filePos = @ + 1]
  <2>1. ASSUME NEW n \in Nat PROVE past(n) \in PairReaders
    <3>1. r.filePos + n \in Nat /\ r.lastPosition + len \in Nat
      BY <1>2, <1>4
    <3>2. \A i, j \in Nat : [r EXCEPT !.filePos = i, !.lastPosition = j] \in PairReaders
      BY DEF PairReaders
    <3>3. QED
      BY ONLY <3>1, <3>2
  <2>2. one \in PairReaders
    BY <1>4 DEF PairReaders
  <2>3. past(KL) \in PairReaders /\ past(KL + 1) \in PairReaders /\ past(len) \in PairReaders
    <3> HIDE DEF past
    <3>1. KL \in Nat /\ KL + 1 \in Nat /\ len \in Nat
      BY <1>1, <1>2
    <3>2. QED
      BY <2>1, <3>1
  <2> DEFINE S == Pair!Read_EKLV_Packet(r, half, f, len)
             P == Pair!PacketAt(r.filePos)
  <2>4. \E q \in {r, one, past(KL), past(KL + 1), past(len)}, k \in {P, Pair!Nothing}, ok \in BOOLEAN,
           w \in {{}, {"unread"}, {"stray"}, {"partial"}} :
          S = Pair!Step(q, ok, k, w)
    <3>1. CASE f = "header"
      BY <3>1 DEF Pair!Read_EKLV_Packet
    <3>2. CASE f = "half"
      BY <3>2 DEF Pair!Read_EKLV_Packet
    <3>3. CASE f \notin {"header", "half"}
      BY <3>3, Zenon DEF Pair!Read_EKLV_Packet
    <3>4. QED
      BY <3>1, <3>2, <3>3
  <2> HIDE DEF S, P, past, one
  <2>5. PICK q \in {r, one, past(KL), past(KL + 1), past(len)}, k \in {P, Pair!Nothing}, ok \in BOOLEAN,
             w \in {{}, {"unread"}, {"stray"}, {"partial"}} :
          S = Pair!Step(q, ok, k, w)
    BY <2>4
  <2>6. q \in PairReaders
    BY <2>2, <2>3, <2>5
  <2>7. k \in Pair!Places \cup {Pair!Nothing}
    BY <1>3, <2>5 DEF P
  <2>8. w \in SUBSET PairTroubles
    BY <2>5 DEF PairTroubles
  <2>9. QED
    BY <2>5, <2>6, <2>7, <2>8 DEF S, Pair!Step, PairSteps
<1>6. Pair!Read_EKLV_Packet(r, half, f, len).reader.ready = r.ready
  BY DEF Pair!Read_EKLV_Packet, Pair!Step, PairReaders
<1>7. ~Pair!Read_EKLV_Packet(r, half, f, len).ok => Pair!Read_EKLV_Packet(r, half, f, len).packet = Pair!Nothing
  BY DEF Pair!Read_EKLV_Packet, Pair!Step
<1>8. QED
  BY <1>2, <1>5, <1>6, <1>7

\* Reading at a packet, or at no packet's start: unless that is noticed, the
\* packet is passed and m_LastPosition with it, or the file is left inside it
LEMMA PairRead ==
  ASSUME NEW r \in PairReaders, NEW half \in {1, 2}, NEW f, NEW len \in Pair!Lengths(r.filePos),
         NEW p \in Pair!Places, r.filePos = Pair!Place(p) \/ PairLost(r),
         Pair!Read_EKLV_Packet(r, half, f, len).troubles \cap Misled = {}
  PROVE  LET s == Pair!Read_EKLV_Packet(r, half, f, len)
         IN  /\ r.filePos = Pair!Place(p)
             /\ \/ ~s.ok /\ PairLost(s.reader)
                \/ /\ s.reader.filePos = Pair!Place(p) + PairLen(p)
                   /\ s.reader.lastPosition = r.lastPosition + PairLen(p)
                   /\ s.ok => s.packet = p
<1>1. KL \in Nat \ {0}
  BY ComponentsAssumption DEF Pair!PairAssumption
<1>2. Pair!PacketAt(r.filePos) # Pair!Nothing /\ f # "header"
  BY DEF Pair!Read_EKLV_Packet, Pair!Step, Misled
<1>3. r.filePos = Pair!Place(p) /\ Pair!PacketAt(r.filePos) = p
  BY <1>2, PairPacketAt DEF PairLost
<1>4. len = PairLen(p) /\ len \in Nat /\ len > KL + 1
  BY <1>2, <1>3, PairPacketAt DEF Pair!Lengths, PairLen
<1>5. Pair!PacketAt(r.filePos + 1) = Pair!Nothing
  BY <1>1, <1>3, <1>4, PairPacketAt
<1>6. Pair!PacketAt(r.filePos + KL) = Pair!Nothing
  BY <1>1, <1>3, <1>4, PairPacketAt
<1>7. Pair!PacketAt(r.filePos + (KL + 1)) = Pair!Nothing
  <2>1. KL + 1 \in Nat \ {0} /\ KL + 1 < PairLen(p)
    BY <1>1, <1>4
  <2>2. QED
    BY <1>3, <2>1, PairPacketAt
<1>8. QED
  BY <1>2, <1>3, <1>4, <1>5, <1>6, <1>7 DEF Pair!Read_EKLV_Packet, Pair!Step, PairReaders, PairLost

PairTracked(r) ==
  \/ PairLost(r)
  \/ /\ r.filePos = r.lastPosition \/ \A n \in DOMAIN Units : Pair!At(n) # r.lastPosition
     /\ r.ready # Pair!NoFrame => r.filePos = r.lastPosition /\ r.filePos = Pair!Place(<<r.ready, 2>>)

\* Where a reader goes that asks for frame n, unless it has failed to seek
LEMMA PairSeek ==
  ASSUME NEW n \in DOMAIN Units, NEW f, s2 \in PairReaders
  PROVE  LET s == Pair!SeekFrame(Pair!At(n), f)
         IN  /\ s \in PairSteps
             /\ s.reader.ready = s2.ready
             /\ PairTracked(s2) /\ s.troubles \cap Misled = {} =>
                  /\ s.ok /\ s.troubles = {}
                  /\ s.reader.filePos = Pair!Place(<<n, 1>>) \/ PairLost(s.reader)
                  /\ s.reader.lastPosition = Pair!At(n)
<1>1. Pair!At(n) \in Nat /\ Pair!Place(<<n, 1>>) = Pair!At(n)
  BY PairUnits, PairPlaces
<1>2. Pair!SeekFrame(Pair!At(n), f) \in PairSteps
  BY <1>1 DEF Pair!SeekFrame, Pair!Step, Pair!Begin, PairSteps, PairReaders, PairTroubles
<1>3. Pair!SeekFrame(Pair!At(n), f).reader.ready = s2.ready
  BY DEF Pair!SeekFrame, Pair!Step, Pair!Begin, PairReaders
<1>4. ASSUME PairTracked(s2), Pair!SeekFrame(Pair!At(n), f).troubles \cap Misled = {}
      PROVE  LET s == Pair!SeekFrame(Pair!At(n), f)
             IN  /\ s.ok /\ s.troubles = {}
                 /\ s.reader.filePos = Pair!Place(<<n, 1>>) \/ PairLost(s.reader)
                 /\ s.reader.lastPosition = Pair!At(n)
  <2>1. CASE Pair!At(n) = s2.lastPosition
    BY <1>1, <1>4, <2>1 DEF Pair!SeekFrame, Pair!Step, Pair!Begin, PairTracked, PairLost
  <2>2. CASE Pair!At(n) # s2.lastPosition
    <3>1. f # "seek"
      BY <1>4, <2>2 DEF Pair!SeekFrame, Pair!Step, Misled
    <3>2. QED
      BY <1>1, <2>2, <3>1 DEF Pair!SeekFrame, Pair!Step, PairReaders
  <2>3. QED
    BY <2>1, <2>2
<1>5. QED
  BY <1>2, <1>3, <1>4

\* Reading a packet, when the step before has succeeded
PairReading(b, half, f, len) == Pair!Then(b, LAMBDA r : Pair!Read_EKLV_Packet(r, half, f, len))

LEMMA PairThen ==
  ASSUME NEW b \in PairSteps, NEW half \in {1, 2}, NEW f, NEW len \in Pair!Met(b), NEW p \in Pair!Places
  PROVE  LET s == PairReading(b, half, f, len)
         IN  /\ s \in PairSteps
             /\ s.reader.ready = b.reader.ready
             /\ b.troubles \subseteq s.troubles
             /\ s.ok => b.ok
             /\ b.ok /\ ~s.ok => s.packet = Pair!Nothing
             /\ /\ b.ok
                /\ b.reader.filePos = Pair!Place(p) \/ PairLost(b.reader)
                /\ s.troubles \cap Misled = {}
                => /\ b.reader.filePos = Pair!Place(p)
                   /\ \/ ~s.ok /\ PairLost(s.reader)
                      \/ /\ s.reader.filePos = Pair!Place(p) + PairLen(p)
                         /\ s.reader.lastPosition = b.reader.lastPosition + PairLen(p)
                         /\ s.ok => s.packet = p
<1> DEFINE t == Pair!Read_EKLV_Packet(b.reader, half, f, len)
           s == PairReading(b, half, f, len)
<1>1. b.reader \in PairReaders /\ b.ok \in BOOLEAN /\ b.troubles \subseteq PairTroubles
  BY DEF PairSteps
<1>2. len \in Pair!Lengths(b.reader.filePos)
  BY DEF Pair!Met
<1>3. t \in PairSteps /\ t.reader.ready = b.reader.ready /\ (~t.ok => t.packet = Pair!Nothing)
  BY <1>1, <1>2, PairReadType
<1>4. s = IF ~b.ok THEN b ELSE [t EXCEPT !.troubles = @ \cup b.troubles]
  BY DEF Pair!Then, PairReading
<1>5. /\ b.reader.filePos = Pair!Place(p) \/ PairLost(b.reader)
      /\ t.troubles \cap Misled = {}
      => /\ b.reader.filePos = Pair!Place(p)
         /\ \/ ~t.ok /\ PairLost(t.reader)
            \/ /\ t.reader.filePos = Pair!Place(p) + PairLen(p)
               /\ t.reader.lastPosition = b.reader.lastPosition + PairLen(p)
               /\ t.ok => t.packet = p
  BY <1>1, <1>2, PairRead
<1> HIDE DEF s, t
<1>6. CASE ~b.ok
  BY <1>4, <1>6 DEF s
<1>7. CASE b.ok
  <2>1. s = [reader |-> t.reader, ok |-> t.ok, packet |-> t.packet, troubles |-> t.troubles \cup b.troubles]
    BY <1>3, <1>4, <1>7 DEF PairSteps
  <2>2. s \in PairSteps
    BY <1>1, <1>3, <2>1 DEF PairSteps
  <2>3. /\ s.reader = t.reader /\ s.ok = t.ok /\ s.packet = t.packet /\ s.troubles = t.troubles \cup b.troubles
    BY <2>1
  <2>4. s.troubles \cap Misled = {} => t.troubles \cap Misled = {}
    BY <2>3
  <2>5. s.reader.ready = b.reader.ready /\ b.troubles \subseteq s.troubles /\ b.ok
    BY <1>3, <1>7, <2>3
  <2>6. ~s.ok => s.packet = Pair!Nothing
    BY <1>3, <2>3
  <2>7. QED
    BY <1>5, <2>2, <2>3, <2>4, <2>5, <2>6 DEF s
<1>8. QED
  BY <1>1, <1>6, <1>7

\* Seeking a frame, and what m_StereoFrameReady is to be then
PairBegun(n, f, x) == [Pair!SeekFrame(Pair!At(n), f) EXCEPT !.reader.ready = x]

\* What reading the first packet of a frame leads to
PairFirstRead(n, x, s) ==
  /\ s \in PairSteps
  /\ s.reader.ready = x
  /\ PairTracked(s2) /\ s.troubles \cap Misled = {} =>
       /\ PairTracked(s.reader)
       /\ s.ok => /\ s.packet = <<n, 1>>
                  /\ s.reader.filePos = Pair!Place(<<n, 2>>)
                  /\ s.reader.lastPosition = s.reader.filePos

\* Reading the first packet of a frame, from where it is sought
LEMMA PairFirst ==
  ASSUME NEW n \in DOMAIN Units, NEW f, s2 \in PairReaders, NEW x, x = Pair!NoFrame \/ x = n,
         NEW len \in Pair!Met(PairBegun(n, f, x))
  PROVE  PairFirstRead(n, x, PairReading(PairBegun(n, f, x), 1, f, len))
<1> DEFINE b == PairBegun(n, f, x)
           s == PairReading(b, 1, f, len)
           k == Pair!SeekFrame(Pair!At(n), f)
<1>1. /\ k \in PairSteps
      /\ PairTracked(s2) /\ k.troubles \cap Misled = {} =>
           /\ k.ok /\ k.troubles = {}
           /\ k.reader.filePos = Pair!Place(<<n, 1>>) \/ PairLost(k.reader)
           /\ k.reader.lastPosition = Pair!At(n)
  BY PairSeek
<1>2. b = [k EXCEPT !.reader.ready = x] /\ len \in Pair!Met(b)
  BY DEF PairBegun
<1> HIDE DEF k, b
<1>3. /\ k.reader \in PairReaders /\ x \in {Pair!NoFrame} \cup DOMAIN Units
      /\ b = [reader |-> [k.reader EXCEPT !.ready = x], ok |-> k.ok, packet |-> k.packet, troubles |-> k.troubles]
  BY <1>1, <1>2 DEF PairSteps
<1>4. /\ [k.reader EXCEPT !.ready = x] \in PairReaders
      /\ b.reader.ready = x /\ b.reader.filePos = k.reader.filePos /\ b.reader.lastPosition = k.reader.lastPosition
      /\ b.ok = k.ok /\ b.troubles = k.troubles
  BY <1>3 DEF PairReaders
<1>5. b \in PairSteps
  <2>1. k.ok \in BOOLEAN /\ k.packet \in Pair!Places \cup {Pair!Nothing} /\ k.troubles \in SUBSET PairTroubles
    BY <1>1 DEF PairSteps
  <2>2. [k.reader EXCEPT !.ready = x] \in PairReaders
    BY <1>4
  <2> DEFINE q == [k.reader EXCEPT !.ready = x]
  <2> HIDE DEF q
  <2>3. b = [reader |-> q, ok |-> k.ok, packet |-> k.packet, troubles |-> k.troubles]
    BY <1>3 DEF q
  <2>4. q \in PairReaders
    BY <2>2 DEF q
  <2>5. QED
    BY ONLY <2>1, <2>3, <2>4 DEF PairSteps
<1>6. <<n, 1>> \in Pair!Places
  BY PairPlaces
<1>7. /\ s \in PairSteps /\ s.reader.ready = x /\ b.troubles \subseteq s.troubles
      /\ /\ b.ok
         /\ b.reader.filePos = Pair!Place(<<n, 1>>) \/ PairLost(b.reader)
         /\ s.troubles \cap Misled = {}
         => /\ b.reader.filePos = Pair!Place(<<n, 1>>)
            /\ \/ ~s.ok /\ PairLost(s.reader)
               \/ /\ s.reader.filePos = Pair!Place(<<n, 1>>) + PairLen(<<n, 1>>)
                  /\ s.reader.lastPosition = b.reader.lastPosition + PairLen(<<n, 1>>)
                  /\ s.ok => s.packet = <<n, 1>>
  <2>1. 1 \in {1, 2} /\ b.reader.ready = x /\ len \in Pair!Met(b)
    BY <1>2, <1>4
  <2>2. QED
    BY ONLY <1>5, <1>6, <2>1, PairThen
<1>8. Pair!Place(<<n, 1>>) = Pair!At(n) /\ Pair!Place(<<n, 2>>) = Pair!Place(<<n, 1>>) + PairLen(<<n, 1>>)
  BY PairPlaces
<1> HIDE DEF s
<1>9. ASSUME PairTracked(s2), s.troubles \cap Misled = {}
      PROVE  /\ PairTracked(s.reader)
             /\ s.ok => /\ s.packet = <<n, 1>>
                        /\ s.reader.filePos = Pair!Place(<<n, 2>>)
                        /\ s.reader.lastPosition = s.reader.filePos
  <2>1. k.troubles \cap Misled = {}
    BY <1>4, <1>7, <1>9
  <2>2. /\ b.ok /\ b.reader.lastPosition = Pair!At(n)
        /\ b.reader.filePos = Pair!Place(<<n, 1>>) \/ PairLost(b.reader)
    BY <1>1, <1>4, <1>9, <2>1 DEF PairLost
  <2>3. \/ ~s.ok /\ PairLost(s.reader)
        \/ /\ s.reader.filePos = Pair!Place(<<n, 2>>)
           /\ s.reader.lastPosition = s.reader.filePos
           /\ s.ok => s.packet = <<n, 1>>
    BY <1>7, <1>8, <1>9, <2>2
  <2>4. s.reader.ready \in {Pair!NoFrame, n}
    BY <1>7
  <2>5. QED
    BY <2>3, <2>4 DEF PairTracked
<1>10. QED
  BY <1>7, <1>9 DEF s, b, PairFirstRead

\* Reading the second packet of a frame, from after the first
LEMMA PairSecond ==
  ASSUME NEW n \in DOMAIN Units, NEW f, NEW b \in PairSteps, b.reader.ready = Pair!NoFrame, NEW len \in Pair!Met(b)
  PROVE  LET s == PairReading(b, 2, f, len)
         IN  /\ s \in PairSteps
             /\ s.reader.ready = Pair!NoFrame
             /\ b.troubles \subseteq s.troubles
             /\ b.ok /\ ~s.ok => s.packet = Pair!Nothing
             /\ /\ b.ok
                /\ \/ PairLost(b.reader)
                   \/ /\ b.reader.filePos = Pair!Place(<<n, 2>>)
                      /\ b.reader.lastPosition = b.reader.filePos \/ b.reader.lastPosition = Pair!At(n)
                /\ s.troubles \cap Misled = {}
                => /\ PairTracked(s.reader)
                   /\ s.ok => s.packet = <<n, 2>>
<1> DEFINE s == PairReading(b, 2, f, len)
<1>1. <<n, 2>> \in Pair!Places
  BY PairPlaces
<1>2. /\ s \in PairSteps /\ s.reader.ready = Pair!NoFrame /\ b.troubles \subseteq s.troubles
      /\ b.ok /\ ~s.ok => s.packet = Pair!Nothing
      /\ /\ b.ok
         /\ b.reader.filePos = Pair!Place(<<n, 2>>) \/ PairLost(b.reader)
         /\ s.troubles \cap Misled = {}
         => /\ b.reader.filePos = Pair!Place(<<n, 2>>)
            /\ \/ ~s.ok /\ PairLost(s.reader)
               \/ /\ s.reader.filePos = Pair!Place(<<n, 2>>) + PairLen(<<n, 2>>)
                  /\ s.reader.lastPosition = b.reader.lastPosition + PairLen(<<n, 2>>)
                  /\ s.ok => s.packet = <<n, 2>>
  BY <1>1, PairThen
<1> HIDE DEF s
<1>3. ASSUME b.ok, s.troubles \cap Misled = {},
             \/ PairLost(b.reader)
             \/ /\ b.reader.filePos = Pair!Place(<<n, 2>>)
                /\ b.reader.lastPosition = b.reader.filePos \/ b.reader.lastPosition = Pair!At(n)
      PROVE  PairTracked(s.reader) /\ (s.ok => s.packet = <<n, 2>>)
  <2>1. /\ b.reader.filePos = Pair!Place(<<n, 2>>)
        /\ \/ ~s.ok /\ PairLost(s.reader)
           \/ /\ s.reader.filePos = Pair!Place(<<n, 2>>) + PairLen(<<n, 2>>)
              /\ s.reader.lastPosition = b.reader.lastPosition + PairLen(<<n, 2>>)
              /\ s.ok => s.packet = <<n, 2>>
    BY <1>2, <1>3
  <2>2. ~PairLost(b.reader)
    BY <1>1, <2>1, PairPacketAt DEF PairLost
  <2>3. \A m \in DOMAIN Units : Pair!At(m) # Pair!At(n) + Units[n].len[2]
    <3>1. TAKE m \in DOMAIN Units
    <3>2. /\ Pair!At(m) \in Nat /\ Units[m].len[1] \in Nat /\ Units[m].len[2] \in Nat
          /\ n < m => Pair!At(n) + Units[n].len[1] + Units[n].len[2] <= Pair!At(m)
      BY PairUnits
    <3>3. /\ Pair!At(n) \in Nat /\ Units[n].len[1] \in Nat /\ Units[n].len[1] > 0
          /\ Units[n].len[2] \in Nat /\ Units[n].len[2] > 0
          /\ m < n => Pair!At(m) + Units[m].len[1] + Units[m].len[2] <= Pair!At(n)
      BY PairUnits
    <3>4. m \in Nat /\ n \in Nat
      BY PairPlaces
    <3>5. QED
      BY <3>2, <3>3, <3>4
  <2>4. PairLen(<<n, 2>>) = Units[n].len[2]
    BY PairPlaces
  <2>5. CASE b.reader.lastPosition = b.reader.filePos
    BY <1>2, <2>1, <2>5 DEF PairTracked
  <2>6. CASE b.reader.lastPosition = Pair!At(n)
    BY <1>2, <2>1, <2>3, <2>4, <2>6 DEF PairTracked
  <2>7. QED
    BY <1>3, <2>1, <2>2, <2>5, <2>6
<1>4. QED
  BY <1>2, <1>3 DEF s

\* Skipping the left picture of a frame ends at the right one
LEMMA PairSkip ==
  ASSUME NEW n \in DOMAIN Units, NEW f, s2 \in PairReaders, NEW skip \in Pair!Skipped(n, f)
  PROVE  LET s == Pair!SkipLeft(n, f, skip)
         IN  /\ s \in PairSteps
             /\ s.reader.ready = s2.ready
             /\ PairTracked(s2) /\ s.troubles \cap Misled = {} =>
                  /\ s.ok
                  /\ s.reader.filePos = Pair!Place(<<n, 2>>)
                  /\ s.reader.lastPosition = Pair!At(n)
<1> DEFINE s == Pair!SkipLeft(n, f, skip)
           k == Pair!SeekFrame(Pair!At(n), f)
           past(pos) == [k.reader EXCEPT !.filePos = pos]
<1>1. /\ k \in PairSteps /\ k.reader.ready = s2.ready
      /\ PairTracked(s2) /\ k.troubles \cap Misled = {} =>
           /\ k.ok /\ k.troubles = {}
           /\ k.reader.filePos = Pair!Place(<<n, 1>>) \/ PairLost(k.reader)
           /\ k.reader.lastPosition = Pair!At(n)
  BY PairSeek
<1>2. /\ k.reader \in PairReaders /\ k.troubles \in SUBSET PairTroubles
      /\ k.reader.filePos \in Nat /\ k.reader.lastPosition \in Nat
  BY <1>1 DEF PairSteps, PairReaders
<1>3. Pair!At(n) \in Nat /\ KL \in Nat /\ StrayLens \subseteq Nat /\ <<n, 1>> \in Pair!Places
  BY ComponentsAssumption, PairUnits, PairPlaces DEF Pair!PairAssumption
<1>4. skip \in Pair!Lengths(k.reader.filePos) \cup {0}
  BY DEF Pair!Skipped
<1>5. skip \in Nat
  <2>1. Pair!Lengths(k.reader.filePos) \subseteq Nat
    BY <1>3, PairPacketAt DEF Pair!Lengths, PairLen
  <2>2. QED
    BY <1>4, <2>1
<1>6. s = IF f = "skip" THEN Pair!Step(k.reader, FALSE, Pair!Nothing, k.troubles \cup {"unread"})
          ELSE IF skip = 0 THEN Pair!Step(past(k.reader.filePos + KL), FALSE, Pair!Nothing, k.troubles \cup {"stray"})
          ELSE IF f = "over" THEN Pair!Step(past(k.reader.filePos + KL), FALSE, Pair!Nothing, k.troubles \cup {"seek"})
          ELSE Pair!Step(past(Pair!At(n) + skip), TRUE, Pair!Nothing,
                         k.troubles \cup IF Pair!PacketAt(k.reader.filePos) = Pair!Nothing THEN {"stray"} ELSE {})
  BY DEF Pair!SkipLeft
<1> HIDE DEF s, k
<1>7. \A i \in Nat : past(i) \in PairReaders /\ past(i).ready = k.reader.ready
  BY <1>2 DEF PairReaders
<1>8. \A i \in Nat : past(i).filePos = i /\ past(i).lastPosition = k.reader.lastPosition
  BY <1>2 DEF PairReaders
<1>9. k.reader.filePos + KL \in Nat /\ Pair!At(n) + skip \in Nat
  BY <1>2, <1>3, <1>5
<1> HIDE DEF past
<1>10. \A q \in PairReaders, ok \in BOOLEAN, w \in SUBSET PairTroubles :
         Pair!Step(q, ok, Pair!Nothing, k.troubles \cup w) \in PairSteps
  BY <1>2 DEF Pair!Step, PairSteps
<1>11. /\ {"unread"} \in SUBSET PairTroubles /\ {"stray"} \in SUBSET PairTroubles
       /\ {"seek"} \in SUBSET PairTroubles /\ {} \in SUBSET PairTroubles
  BY DEF PairTroubles
<1>12. s \in PairSteps
  <2>1. past(k.reader.filePos + KL) \in PairReaders /\ past(Pair!At(n) + skip) \in PairReaders
    BY <1>7, <1>9
  <2>2. QED
    BY <1>2, <1>6, <1>10, <1>11, <2>1
<1>13. s.reader.ready = s2.ready
  BY <1>1, <1>6, <1>7, <1>9 DEF Pair!Step
<1>14. ASSUME PairTracked(s2), s.troubles \cap Misled = {}
       PROVE  /\ s.ok
              /\ s.reader.filePos = Pair!Place(<<n, 2>>)
              /\ s.reader.lastPosition = Pair!At(n)
  <2>1. k.troubles \subseteq s.troubles
    BY <1>6 DEF Pair!Step
  <2>2. /\ s = Pair!Step(past(Pair!At(n) + skip), TRUE, Pair!Nothing,
                         k.troubles \cup IF Pair!PacketAt(k.reader.filePos) = Pair!Nothing THEN {"stray"} ELSE {})
    BY <1>6, <1>14 DEF Pair!Step, Misled
  <2>3. Pair!PacketAt(k.reader.filePos) # Pair!Nothing
    BY <1>14, <2>2 DEF Pair!Step, Misled
  <2>4. k.reader.filePos = Pair!Place(<<n, 1>>) /\ k.reader.lastPosition = Pair!At(n)
    BY <1>1, <1>14, <2>1, <2>3 DEF PairLost
  <2>5. Pair!PacketAt(k.reader.filePos) = <<n, 1>>
    BY <1>3, <2>4, PairPacketAt
  <2>6. skip = PairLen(<<n, 1>>)
    <3>1. Pair!Lengths(k.reader.filePos) = {PairLen(<<n, 1>>)}
      BY <2>3, <2>5 DEF Pair!Lengths, PairLen
    <3>2. skip \in Pair!Lengths(k.reader.filePos)
      BY <2>3 DEF Pair!Skipped, k
    <3>3. QED
      BY <3>1, <3>2
  <2>7. Pair!At(n) + skip = Pair!Place(<<n, 2>>)
    BY <2>6, PairPlaces
  <2>8. s.reader = past(Pair!At(n) + skip) /\ s.ok = TRUE
    BY <2>2 DEF Pair!Step
  <2>9. QED
    BY <1>8, <1>9, <2>4, <2>7, <2>8
<1>15. QED
  BY <1>12, <1>13, <1>14 DEF s

PairPackets == Seq(Pair!Places \cup {Pair!Nothing})

PairInv ==
  /\ s1 \in {"stereo", "phdr"}
  /\ s1 = "phdr" => s2.ready = Pair!NoFrame
  /\ s4 \subseteq PairTroubles
  /\ s4 \cap Misled = {} => PairTracked(s2)
  /\ Pair!PairTypeOK
  /\ Pair!PairsMatch

\* A call that leaves the reader where m_LastPosition and m_StereoFrameReady say
LEMMA PairReturn ==
  ASSUME PairInv, NEW op, NEW n, NEW s \in PairSteps, NEW ok \in BOOLEAN, NEW packets \in PairPackets,
         Pair!Returned(op, n, s, ok, packets),
         s1 = "phdr" => s.reader.ready = Pair!NoFrame,
         PairTracked(s2) /\ s.troubles \cap Misled = {} =>
           PairTracked(s.reader) /\ (ok => packets \in Pair!Deliverable(op, n))
  PROVE  PairInv'
<1>1. /\ s2' = s.reader /\ s4' = s4 \cup s.troubles /\ s1' = s1
      /\ s3' = [op |-> op, frame |-> n, result |-> IF ok THEN "OK" ELSE "FAIL", packets |-> packets]
      /\ s5' = s5 + 1 /\ s5 < MaxCalls
  BY DEF Pair!Returned
<1>2. s.reader \in PairReaders /\ s.troubles \subseteq PairTroubles
  BY DEF PairSteps
<1>3. MaxCalls \in Nat /\ s5 \in 0 .. MaxCalls
  BY ComponentsAssumption DEF Pair!PairAssumption, PairInv, Pair!PairTypeOK
<1>4. s4' \cap Misled = {} => PairTracked(s2)' /\ (ok => packets \in Pair!Deliverable(op, n))
  <2>1. ASSUME s4' \cap Misled = {}
        PROVE  PairTracked(s.reader) /\ (ok => packets \in Pair!Deliverable(op, n))
    BY <1>1, <2>1 DEF PairInv
  <2>2. PairTracked(s2)' <=> PairTracked(s2')
    BY DEF PairTracked, PairLost
  <2>3. QED
    BY <1>1, <2>1, <2>2
<1>5. Pair!PairTypeOK'
  <2>1. s5' \in 0 .. MaxCalls
    BY <1>1, <1>3
  <2>2. s3'.result \in {"OK", "FAIL"} /\ s3'.packets \in Seq(Pair!Places \cup {Pair!Nothing})
    BY <1>1 DEF PairPackets
  <2>3. s2' \in PairReaders
    BY <1>1, <1>2
  <2>4. QED
    BY <2>1, <2>2, <2>3 DEF Pair!PairTypeOK, PairReaders
<1>6. Pair!PairsMatch'
  <2>1. s3'.op = op /\ s3'.frame = n /\ s3'.packets = packets /\ (s3'.result = "OK" => ok)
    BY <1>1
  <2>2. Misled = {"unread", "seek", "stray", "stale"}
    BY DEF Misled
  <2>3. QED
    BY <1>4, <2>1, <2>2 DEF Pair!PairsMatch
<1>7. QED
  BY <1>1, <1>2, <1>4, <1>5, <1>6 DEF PairInv

LEMMA PairLeft ==
  ASSUME PairInv, s1 = "stereo", NEW n \in DOMAIN Units, NEW f, NEW len \in Pair!Met(Pair!SeekFrame(Pair!At(n), f)),
         LET s == Pair!ReadLeft(n, f, len) IN Pair!Returned("Left", n, s, s.ok, <<s.packet>>)
  PROVE  PairInv'
<1> DEFINE b == PairBegun(n, f, n)
           s == PairReading(b, 1, f, len)
<1>1. s2 \in PairReaders /\ s1 = "stereo"
  BY DEF PairInv, Pair!PairTypeOK, PairReaders
<1>2. len \in Pair!Met(b)
  <2>1. Pair!SeekFrame(Pair!At(n), f) \in PairSteps
    BY <1>1, PairSeek
  <2>2. b.reader.filePos = Pair!SeekFrame(Pair!At(n), f).reader.filePos
    BY <2>1 DEF PairBegun, PairSteps, PairReaders
  <2>3. QED
    BY <2>2 DEF Pair!Met
<1>3. Pair!Returned("Left", n, s, s.ok, <<s.packet>>)
  BY DEF Pair!ReadLeft, PairReading, PairBegun
<1> HIDE DEF b, s
<1>4. /\ s \in PairSteps
      /\ PairTracked(s2) /\ s.troubles \cap Misled = {} =>
           PairTracked(s.reader) /\ (s.ok => s.packet = <<n, 1>>)
  <2>1. n \in DOMAIN Units /\ len \in Pair!Met(PairBegun(n, f, n))
    BY <1>2 DEF b
  <2>2. QED
    <3>1. PairFirstRead(n, n, PairReading(PairBegun(n, f, n), 1, f, len))
      BY <1>1, <2>1, PairFirst
    <3>2. QED
      BY <3>1 DEF b, s, PairFirstRead
<1>5. s.ok \in BOOLEAN /\ <<s.packet>> \in PairPackets
  BY <1>4 DEF PairSteps, PairPackets
<1>6. s.packet = <<n, 1>> => <<s.packet>> \in Pair!Deliverable("Left", n)
  BY DEF Pair!Deliverable
<1>7. QED
  BY <1>1, <1>3, <1>4, <1>5, <1>6, PairReturn

LEMMA PairRight ==
  ASSUME PairInv, s1 = "stereo", NEW n \in DOMAIN Units, NEW f, NEW skip \in Pair!Skipped(n, f),
         NEW len \in Pair!Met(IF s2.ready = n THEN Pair!Begin ELSE Pair!SkipLeft(n, f, skip)),
         LET s == Pair!ReadRight(n, f, skip, len) IN Pair!Returned("Right", n, s, s.ok, <<s.packet>>)
  PROVE  PairInv'
<1> DEFINE k == IF s2.ready = n THEN Pair!Begin ELSE Pair!SkipLeft(n, f, skip)
           b == [k EXCEPT !.reader.ready = Pair!NoFrame]
<1> DEFINE s == PairReading(b, 2, f, len)
<1>1. s2 \in PairReaders /\ s1 = "stereo"
  BY DEF PairInv, Pair!PairTypeOK, PairReaders
<1>2. Pair!Returned("Right", n, s, s.ok, <<s.packet>>)
  BY DEF Pair!ReadRight, PairReading, Pair!ReadyAfterRight
<1>3. /\ k \in PairSteps
      /\ PairTracked(s2) /\ k.troubles \cap Misled = {} =>
           /\ k.ok
           /\ \/ PairLost(k.reader)
              \/ /\ k.reader.filePos = Pair!Place(<<n, 2>>)
                 /\ k.reader.lastPosition = k.reader.filePos \/ k.reader.lastPosition = Pair!At(n)
  <2>1. CASE s2.ready = n
    <3>1. k = [reader |-> s2, ok |-> TRUE, packet |-> Pair!Nothing, troubles |-> {}] /\ n # Pair!NoFrame
      BY <2>1, PairPlaces DEF Pair!Begin, Pair!Step, Pair!NoFrame
    <3> HIDE DEF k
    <3>2. k.reader = s2 /\ k.ok = TRUE /\ k.troubles = {}
      BY <3>1
    <3>3. k \in PairSteps
      <4>1. {} \in SUBSET PairTroubles /\ TRUE \in BOOLEAN /\ Pair!Nothing \in Pair!Places \cup {Pair!Nothing}
        OBVIOUS
      <4>2. QED
        BY ONLY <1>1, <3>1, <4>1 DEF PairSteps
    <3>4. QED
      BY <2>1, <3>1, <3>2, <3>3 DEF PairTracked
  <2>2. CASE s2.ready # n
    BY <1>1, <2>2, PairSkip
  <2>3. QED
    BY <2>1, <2>2
<1>4. len \in Pair!Met(k)
  OBVIOUS
<1> HIDE DEF k
<1>5. k.reader \in PairReaders /\ k.ok \in BOOLEAN /\ k.packet \in Pair!Places \cup {Pair!Nothing} /\ k.troubles \in SUBSET PairTroubles
  BY <1>3 DEF PairSteps
<1> DEFINE q == [k.reader EXCEPT !.ready = Pair!NoFrame]
<1>6. q \in PairReaders /\ q.ready = Pair!NoFrame /\ q.filePos = k.reader.filePos /\ q.lastPosition = k.reader.lastPosition
  BY <1>5 DEF PairReaders
<1>7. b = [reader |-> q, ok |-> k.ok, packet |-> k.packet, troubles |-> k.troubles]
  BY <1>3 DEF PairSteps
<1> HIDE DEF b, s, q
<1>8. b \in PairSteps
  BY ONLY <1>5, <1>6, <1>7 DEF PairSteps
<1>9. b.reader = q /\ b.ok = k.ok /\ b.troubles = k.troubles
  BY <1>7
<1>10. b.reader.ready = Pair!NoFrame /\ len \in Pair!Met(b)
  BY <1>4, <1>6, <1>9 DEF Pair!Met
<1>11. /\ s \in PairSteps /\ s.reader.ready = Pair!NoFrame /\ b.troubles \subseteq s.troubles
       /\ /\ b.ok
          /\ \/ PairLost(b.reader)
             \/ /\ b.reader.filePos = Pair!Place(<<n, 2>>)
                /\ b.reader.lastPosition = b.reader.filePos \/ b.reader.lastPosition = Pair!At(n)
          /\ s.troubles \cap Misled = {}
          => PairTracked(s.reader) /\ (s.ok => s.packet = <<n, 2>>)
  <2>1. n \in DOMAIN Units
    OBVIOUS
  <2>2. QED
    BY ONLY <1>8, <1>10, <2>1, PairSecond DEF s
<1>12. PairTracked(s2) /\ s.troubles \cap Misled = {} =>
         PairTracked(s.reader) /\ (s.ok => s.packet = <<n, 2>>)
  <2>1. ASSUME PairTracked(s2), s.troubles \cap Misled = {}
        PROVE  k.troubles \cap Misled = {}
    BY <1>9, <1>11, <2>1
  <2>2. QED
    BY <1>3, <1>6, <1>9, <1>11, <2>1 DEF PairLost
<1>13. s.ok \in BOOLEAN /\ <<s.packet>> \in PairPackets
  BY <1>11 DEF PairSteps, PairPackets
<1>14. s.packet = <<n, 2>> => <<s.packet>> \in Pair!Deliverable("Right", n)
  BY DEF Pair!Deliverable
<1>15. QED
  BY <1>1, <1>2, <1>11, <1>12, <1>13, <1>14, PairReturn

\* Reading both packets: when the first has been read, the second is where the file is
LEMMA PairBothRead ==
  ASSUME s2 \in PairReaders, NEW n \in DOMAIN Units, NEW x, NEW k, PairFirstRead(n, x, k), k.ok,
         NEW b, b = [k EXCEPT !.reader.ready = Pair!NoFrame], NEW f, NEW len \in Pair!Met(k)
  PROVE  /\ PairReading(b, 2, f, len) \in PairSteps
         /\ PairReading(b, 2, f, len).reader.ready = Pair!NoFrame
         /\ k.packet \in Pair!Places \cup {Pair!Nothing}
         /\ ~PairReading(b, 2, f, len).ok => PairReading(b, 2, f, len).packet = Pair!Nothing
         /\ PairTracked(s2) /\ PairReading(b, 2, f, len).troubles \cap Misled = {} =>
              /\ PairTracked(PairReading(b, 2, f, len).reader)
              /\ k.packet = <<n, 1>>
              /\ PairReading(b, 2, f, len).ok => PairReading(b, 2, f, len).packet = <<n, 2>>
<1> DEFINE q == [k.reader EXCEPT !.ready = Pair!NoFrame]
           s == PairReading(b, 2, f, len)
<1>1. /\ k \in PairSteps
      /\ PairTracked(s2) /\ k.troubles \cap Misled = {} =>
           /\ k.packet = <<n, 1>>
           /\ k.reader.filePos = Pair!Place(<<n, 2>>)
           /\ k.reader.lastPosition = k.reader.filePos
  BY DEF PairFirstRead
<1>2. k.reader \in PairReaders /\ k.ok \in BOOLEAN /\ k.packet \in Pair!Places \cup {Pair!Nothing} /\ k.troubles \in SUBSET PairTroubles
  BY <1>1 DEF PairSteps
<1>3. q \in PairReaders /\ q.ready = Pair!NoFrame /\ q.filePos = k.reader.filePos /\ q.lastPosition = k.reader.lastPosition
  BY <1>2 DEF PairReaders
<1>4. b = [reader |-> q, ok |-> k.ok, packet |-> k.packet, troubles |-> k.troubles]
  BY <1>1 DEF PairSteps
<1> HIDE DEF q, s
<1>5. b \in PairSteps
  <2>1. \A i \in PairReaders, ok \in BOOLEAN, m \in Pair!Places \cup {Pair!Nothing}, w \in SUBSET PairTroubles :
          [reader |-> i, ok |-> ok, packet |-> m, troubles |-> w] \in PairSteps
    BY DEF PairSteps
  <2>2. QED
    BY ONLY <1>2, <1>3, <1>4, <2>1
<1>6. b.reader = q /\ b.ok = k.ok /\ b.troubles = k.troubles
  BY ONLY <1>4
<1>7. b.reader.ready = Pair!NoFrame /\ len \in Pair!Met(b) /\ n \in DOMAIN Units
  BY <1>3, <1>6 DEF Pair!Met
<1>8. /\ s \in PairSteps /\ s.reader.ready = Pair!NoFrame /\ b.troubles \subseteq s.troubles
      /\ b.ok /\ ~s.ok => s.packet = Pair!Nothing
      /\ /\ b.ok
         /\ \/ PairLost(b.reader)
            \/ /\ b.reader.filePos = Pair!Place(<<n, 2>>)
               /\ b.reader.lastPosition = b.reader.filePos \/ b.reader.lastPosition = Pair!At(n)
         /\ s.troubles \cap Misled = {}
         => PairTracked(s.reader) /\ (s.ok => s.packet = <<n, 2>>)
  BY ONLY <1>5, <1>7, PairSecond DEF s
<1>9. PairTracked(s2) /\ s.troubles \cap Misled = {} =>
        /\ PairTracked(s.reader)
        /\ k.packet = <<n, 1>>
        /\ s.ok => s.packet = <<n, 2>>
  <2>1. s.troubles \cap Misled = {} => k.troubles \cap Misled = {}
    BY <1>6, <1>8
  <2>2. QED
    BY <1>1, <1>3, <1>6, <1>8, <2>1
<1>10. QED
  BY <1>2, <1>6, <1>8, <1>9 DEF s

LEMMA PairBoth ==
  ASSUME PairInv, s1 = "stereo", NEW n \in DOMAIN Units, NEW f,
         NEW len \in Pair!Met(Pair!SeekFrame(Pair!At(n), "none")), Pair!ReadLeft(n, "none", len).ok,
         NEW len2 \in Pair!Met(Pair!ReadLeft(n, "none", len)),
         LET s == Pair!ReadLeft(n, "none", len)
             t == PairReading([s EXCEPT !.reader.ready = Pair!ReadyAfterRight(n)], 2, f, len2)
         IN  Pair!Returned("Both", n, t, t.ok, <<s.packet, t.packet>>)
  PROVE  PairInv'
<1> DEFINE k == Pair!ReadLeft(n, "none", len)
           b == [k EXCEPT !.reader.ready = Pair!NoFrame]
           t == PairReading(b, 2, f, len2)
<1>1. s2 \in PairReaders
  BY DEF PairInv, Pair!PairTypeOK, PairReaders
<1>2. len \in Pair!Met(PairBegun(n, "none", n))
  <2>1. Pair!SeekFrame(Pair!At(n), "none") \in PairSteps
    BY <1>1, PairSeek
  <2>2. PairBegun(n, "none", n).reader.filePos = Pair!SeekFrame(Pair!At(n), "none").reader.filePos
    BY <2>1 DEF PairBegun, PairSteps, PairReaders
  <2>3. QED
    BY <2>2 DEF Pair!Met
<1>3. k = PairReading(PairBegun(n, "none", n), 1, "none", len)
  BY DEF Pair!ReadLeft, PairReading, PairBegun
<1>4. PairFirstRead(n, n, k)
  BY <1>1, <1>2, <1>3, PairFirst
<1>5. Pair!Returned("Both", n, t, t.ok, <<k.packet, t.packet>>)
  BY DEF Pair!ReadyAfterRight
<1>6. k.ok /\ len2 \in Pair!Met(k)
  OBVIOUS
<1> HIDE DEF k, t
<1>7. /\ t \in PairSteps /\ k.packet \in Pair!Places \cup {Pair!Nothing}
      /\ PairTracked(s2) /\ t.troubles \cap Misled = {} =>
           PairTracked(t.reader) /\ k.packet = <<n, 1>> /\ (t.ok => t.packet = <<n, 2>>)
  <2> HIDE DEF b
  <2>1. b = [k EXCEPT !.reader.ready = Pair!NoFrame] /\ n \in DOMAIN Units
    BY DEF b
  <2>2. QED
    BY ONLY <1>1, <1>4, <1>6, <2>1, PairBothRead DEF t
<1>8. t.ok \in BOOLEAN /\ <<k.packet, t.packet>> \in PairPackets
  BY <1>7 DEF PairSteps, PairPackets
<1>9. k.packet = <<n, 1>> /\ t.packet = <<n, 2>> => <<k.packet, t.packet>> \in Pair!Deliverable("Both", n)
  BY DEF Pair!Deliverable
<1> HIDE DEF b
<1>10. QED
  BY <1>5, <1>7, <1>8, <1>9, PairReturn

\* The picture of a PHDR frame, where m_StereoFrameReady is never set
LEMMA PairPicture ==
  ASSUME PairInv, s1 = "phdr", NEW n \in DOMAIN Units, NEW f, NEW len \in Pair!Met(Pair!SeekFrame(Pair!At(n), f))
  PROVE  PairFirstRead(n, Pair!NoFrame, PairReading(Pair!SeekFrame(Pair!At(n), f), 1, f, len))
<1> DEFINE k == Pair!SeekFrame(Pair!At(n), f)
<1>1. s2 \in PairReaders /\ s2.ready = Pair!NoFrame
  BY DEF PairInv, Pair!PairTypeOK, PairReaders
<1>2. k \in PairSteps /\ k.reader.ready = Pair!NoFrame
  BY <1>1, PairSeek
<1> HIDE DEF k
<1>3. PairBegun(n, f, Pair!NoFrame) = [k EXCEPT !.reader = [k.reader EXCEPT !.ready = Pair!NoFrame]]
  BY DEF PairBegun, k
<1>4. [k.reader EXCEPT !.ready = Pair!NoFrame] = k.reader
  BY <1>2 DEF PairSteps, PairReaders
<1>5. [k EXCEPT !.reader = k.reader] = k
  BY <1>2 DEF PairSteps
<1>6. PairBegun(n, f, Pair!NoFrame) = k
  BY <1>3, <1>4, <1>5
<1>7. len \in Pair!Met(PairBegun(n, f, Pair!NoFrame))
  BY <1>6 DEF k
<1>8. PairFirstRead(n, Pair!NoFrame, PairReading(PairBegun(n, f, Pair!NoFrame), 1, f, len))
  BY <1>1, <1>7, PairFirst
<1>9. QED
  BY <1>6, <1>8 DEF k

LEMMA PairPictureFails ==
  ASSUME PairInv, s1 = "phdr", NEW n \in DOMAIN Units, NEW k, PairFirstRead(n, Pair!NoFrame, k), ~k.ok,
         Pair!Returned("Picture", n, k, FALSE, <<k.packet>>)
  PROVE  PairInv'
<1>1. /\ k \in PairSteps /\ k.reader.ready = Pair!NoFrame
      /\ PairTracked(s2) /\ k.troubles \cap Misled = {} => PairTracked(k.reader)
  BY DEF PairFirstRead
<1>2. <<k.packet>> \in PairPackets /\ FALSE \in BOOLEAN
  BY <1>1 DEF PairSteps, PairPackets
<1>3. QED
  BY <1>1, <1>2, PairReturn

LEMMA PairPictureRead ==
  ASSUME PairInv, s1 = "phdr", NEW n \in DOMAIN Units, NEW k, PairFirstRead(n, Pair!NoFrame, k), k.ok,
         NEW f, NEW len \in Pair!Met(k),
         LET t == PairReading(k, 2, f, len) IN Pair!Returned("Picture", n, t, TRUE, <<k.packet, t.packet>>)
  PROVE  PairInv'
<1> DEFINE b == [k EXCEPT !.reader.ready = Pair!NoFrame]
           t == PairReading(b, 2, f, len)
<1>1. s2 \in PairReaders
  BY DEF PairInv, Pair!PairTypeOK, PairReaders
<1>2. b = k
  <2>1. k \in PairSteps /\ k.reader.ready = Pair!NoFrame
    BY DEF PairFirstRead
  <2>2. [k.reader EXCEPT !.ready = Pair!NoFrame] = k.reader
    BY <2>1 DEF PairSteps, PairReaders
  <2>3. [k EXCEPT !.reader = k.reader] = k
    BY <2>1 DEF PairSteps
  <2>4. b = [k EXCEPT !.reader = [k.reader EXCEPT !.ready = Pair!NoFrame]]
    OBVIOUS
  <2>5. QED
    BY <2>2, <2>3, <2>4
<1>3. Pair!Returned("Picture", n, t, TRUE, <<k.packet, t.packet>>)
  BY <1>2
<1>4. k.ok /\ len \in Pair!Met(k) /\ PairFirstRead(n, Pair!NoFrame, k) /\ n \in DOMAIN Units
      /\ b = [k EXCEPT !.reader.ready = Pair!NoFrame]
  OBVIOUS
<1> HIDE DEF b, t
<1>5. /\ t \in PairSteps /\ t.reader.ready = Pair!NoFrame /\ k.packet \in Pair!Places \cup {Pair!Nothing}
      /\ ~t.ok => t.packet = Pair!Nothing
      /\ PairTracked(s2) /\ t.troubles \cap Misled = {} =>
           PairTracked(t.reader) /\ k.packet = <<n, 1>> /\ (t.ok => t.packet = <<n, 2>>)
  BY ONLY <1>1, <1>4, PairBothRead DEF t
<1>6. <<k.packet, t.packet>> \in PairPackets /\ TRUE \in BOOLEAN
  BY <1>5 DEF PairSteps, PairPackets
<1>7. k.packet = <<n, 1>> /\ t.packet \in {<<n, 2>>, Pair!Nothing} => <<k.packet, t.packet>> \in Pair!Deliverable("Picture", n)
  BY DEF Pair!Deliverable
<1>8. PairTracked(s2) /\ t.troubles \cap Misled = {} =>
        PairTracked(t.reader) /\ <<k.packet, t.packet>> \in Pair!Deliverable("Picture", n)
  BY <1>5, <1>7 DEF PairSteps
<1>9. QED
  BY <1>3, <1>5, <1>6, <1>8, PairReturn

LEMMA PairReopen ==
  ASSUME PairInv, Pair!Reopen
  PROVE  PairInv'
<1> DEFINE s == Pair!Step([s2 EXCEPT !.filePos = Pair!At(1), !.lastPosition = 0], TRUE, Pair!Nothing,
                          IF s2.ready = Pair!NoFrame THEN {} ELSE {"stale"})
           q == [s2 EXCEPT !.filePos = Pair!At(1), !.lastPosition = 0]
<1>1. s2 \in PairReaders
  BY DEF PairInv, Pair!PairTypeOK, PairReaders
<1>2. 1 \in DOMAIN Units
  BY ComponentsAssumption DEF Pair!PairAssumption
<1>3. \A n \in DOMAIN Units : Pair!At(n) \in Nat /\ Pair!At(n) >= 1
  BY PairUnits
<1>4. /\ q \in PairReaders /\ q.ready = s2.ready /\ q.filePos = Pair!At(1) /\ q.lastPosition = 0
  BY <1>1, <1>2, <1>3 DEF PairReaders
<1> HIDE DEF q
<1>5. s = Pair!Step(q, TRUE, Pair!Nothing, IF s2.ready = Pair!NoFrame THEN {} ELSE {"stale"})
  BY DEF q
<1> HIDE DEF s
<1>6. s \in PairSteps /\ s.reader = q /\ (s2.ready # Pair!NoFrame => "stale" \in s.troubles)
  BY <1>4, <1>5 DEF Pair!Step, PairSteps, PairTroubles
<1>7. s.troubles \cap Misled = {} => PairTracked(s.reader)
  <2>1. ASSUME s.troubles \cap Misled = {} PROVE q.ready = Pair!NoFrame
    BY <1>4, <1>6, <2>1 DEF Misled
  <2>2. \A n \in DOMAIN Units : Pair!At(n) # 0
    BY <1>3
  <2>3. QED
    BY <1>4, <1>6, <2>1, <2>2 DEF PairTracked
<1>8. <<>> \in PairPackets /\ <<>> \in Pair!Deliverable("Reopen", Pair!NoFrame) /\ TRUE \in BOOLEAN
  BY DEF PairPackets, Pair!Deliverable
<1>9. s1 = "phdr" => s.reader.ready = Pair!NoFrame
  BY <1>4, <1>6 DEF PairInv
<1>10. Pair!Returned("Reopen", Pair!NoFrame, s, TRUE, <<>>)
  BY DEF Pair!Reopen, s
<1>11. QED
  BY <1>6, <1>7, <1>8, <1>9, <1>10, PairReturn

LEMMA PairInit == Pair!Init => PairInv
<1> SUFFICES ASSUME Pair!Init PROVE PairInv
  OBVIOUS
<1>1. 1 \in DOMAIN Units /\ MaxCalls \in Nat
  BY ComponentsAssumption DEF Pair!PairAssumption
<1>2. \A n \in DOMAIN Units : Pair!At(n) \in Nat /\ Pair!At(n) >= 1
  BY PairUnits
<1>3. s2 = [filePos |-> Pair!At(1), lastPosition |-> 0, ready |-> Pair!NoFrame] /\ s4 = {} /\ s1 \in {"stereo", "phdr"}
      /\ s3 = [op |-> "Reopen", frame |-> Pair!NoFrame, result |-> "OK", packets |-> <<>>] /\ s5 = 0
  BY DEF Pair!Init
<1>4. PairTracked(s2)
  BY <1>2, <1>3 DEF PairTracked
<1>5. Pair!PairTypeOK
  BY <1>1, <1>2, <1>3 DEF Pair!PairTypeOK
<1>6. Pair!PairsMatch
  BY <1>3 DEF Pair!PairsMatch, Pair!Deliverable
<1>7. QED
  BY <1>3, <1>4, <1>5, <1>6 DEF PairInv

LEMMA PairNext == PairInv /\ (Pair!Next \/ UNCHANGED <<s1, s2, s3, s4, s5>>) => PairInv'
<1> SUFFICES ASSUME PairInv, Pair!Next \/ UNCHANGED <<s1, s2, s3, s4, s5>> PROVE PairInv'
  OBVIOUS
<1>1. ASSUME NEW n \in DOMAIN Units, Pair!LeftFrame(n) PROVE PairInv'
  BY <1>1, PairLeft DEF Pair!LeftFrame
<1>2. ASSUME NEW n \in DOMAIN Units, Pair!RightFrame(n) PROVE PairInv'
  BY <1>2, PairRight DEF Pair!RightFrame
<1>3. ASSUME NEW n \in DOMAIN Units, Pair!BothFrames(n) PROVE PairInv'
  <2>1. PICK len \in Pair!Met(Pair!SeekFrame(Pair!At(n), "none")) :
          /\ Pair!ReadLeft(n, "none", len).ok
          /\ \E f \in Pair!PacketFaults, len2 \in Pair!Met(Pair!ReadLeft(n, "none", len)) :
               LET s == Pair!ReadLeft(n, "none", len)
                   t == PairReading([s EXCEPT !.reader.ready = Pair!ReadyAfterRight(n)], 2, f, len2)
               IN  Pair!Returned("Both", n, t, t.ok, <<s.packet, t.packet>>)
    BY <1>3 DEF Pair!BothFrames, PairReading
  <2>2. PICK f \in Pair!PacketFaults, len2 \in Pair!Met(Pair!ReadLeft(n, "none", len)) :
          LET s == Pair!ReadLeft(n, "none", len)
              t == PairReading([s EXCEPT !.reader.ready = Pair!ReadyAfterRight(n)], 2, f, len2)
          IN  Pair!Returned("Both", n, t, t.ok, <<s.packet, t.packet>>)
    BY <2>1
  <2>3. s1 = "stereo"
    BY <1>3 DEF Pair!BothFrames
  <2>4. QED
    BY <2>1, <2>2, <2>3, PairBoth
<1>4. ASSUME NEW n \in DOMAIN Units, Pair!PictureWithMetadata(n) PROVE PairInv'
  <2>1. PICK f \in Pair!PacketFaults \cup {"seek"} : \E len \in Pair!Met(Pair!SeekFrame(Pair!At(n), f)) :
         LET s == PairReading(Pair!SeekFrame(Pair!At(n), f), 1, f, len)
         IN  IF ~s.ok THEN Pair!Returned("Picture", n, s, FALSE, <<s.packet>>)
             ELSE \E g \in Pair!PacketFaults, len2 \in Pair!Met(s) :
                    LET t == PairReading(s, 2, g, len2)
                    IN  Pair!Returned("Picture", n, t, TRUE, <<s.packet, t.packet>>)
    BY <1>4 DEF Pair!PictureWithMetadata, PairReading
  <2>2. PICK len \in Pair!Met(Pair!SeekFrame(Pair!At(n), f)) :
         LET s == PairReading(Pair!SeekFrame(Pair!At(n), f), 1, f, len)
         IN  IF ~s.ok THEN Pair!Returned("Picture", n, s, FALSE, <<s.packet>>)
             ELSE \E g \in Pair!PacketFaults, len2 \in Pair!Met(s) :
                    LET t == PairReading(s, 2, g, len2)
                    IN  Pair!Returned("Picture", n, t, TRUE, <<s.packet, t.packet>>)
    BY <2>1
  <2> DEFINE k == PairReading(Pair!SeekFrame(Pair!At(n), f), 1, f, len)
  <2>3. s1 = "phdr"
    BY <1>4 DEF Pair!PictureWithMetadata
  <2>4. PairFirstRead(n, Pair!NoFrame, k)
    BY <2>3, PairPicture
  <2>5. IF ~k.ok THEN Pair!Returned("Picture", n, k, FALSE, <<k.packet>>)
        ELSE \E g \in Pair!PacketFaults, len2 \in Pair!Met(k) :
               LET t == PairReading(k, 2, g, len2)
               IN  Pair!Returned("Picture", n, t, TRUE, <<k.packet, t.packet>>)
    BY <2>2
  <2> HIDE DEF k
  <2>6. CASE ~k.ok
    BY <2>3, <2>4, <2>5, <2>6, PairPictureFails
  <2>7. CASE k.ok
    BY <2>3, <2>4, <2>5, <2>7, PairPictureRead
  <2>8. QED
    BY <2>6, <2>7
<1>5. CASE Pair!Reopen
  BY <1>5, PairReopen
<1>6. CASE UNCHANGED <<s1, s2, s3, s4, s5>>
  BY <1>6 DEF PairInv, PairTracked, PairLost, Pair!PairTypeOK, Pair!PairsMatch
<1>7. QED
  BY <1>1, <1>2, <1>3, <1>4, <1>5, <1>6 DEF Pair!Next, Pair!vars

\* In every behaviour a call that succeeds delivers the eye of the frame it was
\* asked for, and a PHDR picture is given its own metadata, unless a seek has failed,
\* nothing could be read or the reader has been given another file after a left picture
\* (ASDCP::JP2K::MXFSReader::h__SReader, m_StereoFrameReady; AS_02::PHDR::MXFReader::h__Reader).
THEOREM PairsMatchHolds == Spec => []PairsMatch
<1> DEFINE Inv == part = "pair" => PairInv
<1>1. Init => Inv
  BY PairInit DEF Init
<1>2. Inv /\ [Next]_vars => Inv'
  BY Parts, PairNext
<1>3. Inv => PairsMatch
  BY DEF PairsMatch, PairInv
<1> HIDE DEF Inv
<1>4. QED
  BY <1>1, <1>2, <1>3, PTL DEF Spec

-----------------------------------------------------------------------------
(* WrapTools: its tool is s1, its input s2, its run s3 and its file s4. While
   frames are copied, what the file holds is what has been read; the loop is left
   when all that is promised is there, or the second eye of a pair is not. *)

WrapRow(row) ==
  /\ row.eyes \in {1, 2} /\ row.body \in {"frames", "text"} /\ row.short \in {"none", "option", "drop"}
  /\ row.limit \in BOOLEAN /\ row.repeat \in BOOLEAN /\ row.dry \in BOOLEAN
  /\ row.extras \in {"none", "resources", "texts"}
  /\ row.eyes = 2 => row.body = "frames" /\ row.short = "none" /\ ~row.repeat /\ row.extras = "none"
  /\ row.body = "text" => row.short = "none" /\ ~row.repeat
  /\ row.repeat => row.short = "none"

LEMMA WrapRowsHold == \A row \in Wrap!Wrappers : WrapRow(row)
<1>1. WrapRow(Wrap!write_MPEG2_file)
  BY DEF WrapRow, Wrap!write_MPEG2_file, Wrap!Plain, Wrap!write_timed_text_file
<1>2. WrapRow(Wrap!write_JP2K_S_file)
  BY DEF WrapRow, Wrap!write_JP2K_S_file, Wrap!Plain, Wrap!write_timed_text_file
<1>3. WrapRow(Wrap!write_JP2K_file)
  BY DEF WrapRow, Wrap!write_JP2K_file, Wrap!Plain, Wrap!write_timed_text_file
<1>4. WrapRow(Wrap!write_PCM_file)
  BY DEF WrapRow, Wrap!write_PCM_file, Wrap!Plain, Wrap!write_timed_text_file
<1>5. WrapRow(Wrap!write_PCM_with_ATMOS_sync_file)
  BY DEF WrapRow, Wrap!write_PCM_with_ATMOS_sync_file, Wrap!Plain, Wrap!write_timed_text_file
<1>6. WrapRow(Wrap!write_timed_text_file)
  BY DEF WrapRow, Wrap!write_timed_text_file, Wrap!Plain, Wrap!write_timed_text_file
<1>7. WrapRow(Wrap!write_dolby_atmos_file)
  BY DEF WrapRow, Wrap!write_dolby_atmos_file, Wrap!Plain, Wrap!write_timed_text_file
<1>8. WrapRow(Wrap!write_aux_data_file)
  BY DEF WrapRow, Wrap!write_aux_data_file, Wrap!Plain, Wrap!write_timed_text_file
<1>9. WrapRow(Wrap!test_write_MPEG2_file)
  BY DEF WrapRow, Wrap!test_write_MPEG2_file, Wrap!Plain, Wrap!write_timed_text_file
<1>10. WrapRow(Wrap!test_write_JP2K_S_file)
  BY DEF WrapRow, Wrap!test_write_JP2K_S_file, Wrap!Plain, Wrap!write_timed_text_file
<1>11. WrapRow(Wrap!test_write_JP2K_file)
  BY DEF WrapRow, Wrap!test_write_JP2K_file, Wrap!Plain, Wrap!write_timed_text_file
<1>12. WrapRow(Wrap!test_write_PCM_file)
  BY DEF WrapRow, Wrap!test_write_PCM_file, Wrap!Plain, Wrap!write_timed_text_file
<1>13. WrapRow(Wrap!test_write_timed_text_file)
  BY DEF WrapRow, Wrap!test_write_timed_text_file, Wrap!Plain, Wrap!write_timed_text_file
<1>14. WrapRow(Wrap!as02_write_JP2K_file)
  BY DEF WrapRow, Wrap!as02_write_JP2K_file, Wrap!Plain, Wrap!write_timed_text_file
<1>15. WrapRow(Wrap!as02_write_ACES_file)
  BY DEF WrapRow, Wrap!as02_write_ACES_file, Wrap!Plain, Wrap!write_timed_text_file
<1>16. WrapRow(Wrap!as02_write_PCM_file)
  BY DEF WrapRow, Wrap!as02_write_PCM_file, Wrap!Plain, Wrap!write_timed_text_file
<1>17. WrapRow(Wrap!as02_write_timed_text_file)
  BY DEF WrapRow, Wrap!as02_write_timed_text_file, Wrap!Plain, Wrap!write_timed_text_file
<1>18. WrapRow(Wrap!as02_write_isxd_file)
  BY DEF WrapRow, Wrap!as02_write_isxd_file, Wrap!Plain, Wrap!write_timed_text_file
<1>19. WrapRow(Wrap!write_JXS_file)
  BY DEF WrapRow, Wrap!write_JXS_file, Wrap!Plain, Wrap!write_timed_text_file
<1>20. WrapRow(Wrap!write_IAB_file)
  BY DEF WrapRow, Wrap!write_IAB_file, Wrap!Plain, Wrap!write_timed_text_file
<1>21. WrapRow(Wrap!phdr_write_JP2K_file)
  BY DEF WrapRow, Wrap!phdr_write_JP2K_file, Wrap!Plain, Wrap!write_timed_text_file
<1>22. \A kind \in DOMAIN Wrap!asdcp_wrap_main : WrapRow(Wrap!asdcp_wrap_main[kind])
  BY <1>1, <1>2, <1>3, <1>4, <1>5, <1>6, <1>7, <1>8, <1>9, <1>10, <1>11, <1>12, <1>13, <1>14, <1>15, <1>16, <1>17, <1>18, <1>19, <1>20, <1>21 DEF Wrap!asdcp_wrap_main
<1>23. \A kind \in DOMAIN Wrap!asdcp_test_main : WrapRow(Wrap!asdcp_test_main[kind])
  BY <1>1, <1>2, <1>3, <1>4, <1>5, <1>6, <1>7, <1>8, <1>9, <1>10, <1>11, <1>12, <1>13, <1>14, <1>15, <1>16, <1>17, <1>18, <1>19, <1>20, <1>21 DEF Wrap!asdcp_test_main
<1>24. \A kind \in DOMAIN Wrap!as_02_wrap_main : WrapRow(Wrap!as_02_wrap_main[kind])
  BY <1>1, <1>2, <1>3, <1>4, <1>5, <1>6, <1>7, <1>8, <1>9, <1>10, <1>11, <1>12, <1>13, <1>14, <1>15, <1>16, <1>17, <1>18, <1>19, <1>20, <1>21 DEF Wrap!as_02_wrap_main
<1>25. \A kind \in DOMAIN Wrap!as_02_wrap_jxs_main : WrapRow(Wrap!as_02_wrap_jxs_main[kind])
  BY <1>1, <1>2, <1>3, <1>4, <1>5, <1>6, <1>7, <1>8, <1>9, <1>10, <1>11, <1>12, <1>13, <1>14, <1>15, <1>16, <1>17, <1>18, <1>19, <1>20, <1>21 DEF Wrap!as_02_wrap_jxs_main
<1>26. \A kind \in DOMAIN Wrap!as_02_wrap_iab_main : WrapRow(Wrap!as_02_wrap_iab_main[kind])
  BY <1>1, <1>2, <1>3, <1>4, <1>5, <1>6, <1>7, <1>8, <1>9, <1>10, <1>11, <1>12, <1>13, <1>14, <1>15, <1>16, <1>17, <1>18, <1>19, <1>20, <1>21 DEF Wrap!as_02_wrap_iab_main
<1>27. \A kind \in DOMAIN Wrap!phdr_wrap_main : WrapRow(Wrap!phdr_wrap_main[kind])
  BY <1>1, <1>2, <1>3, <1>4, <1>5, <1>6, <1>7, <1>8, <1>9, <1>10, <1>11, <1>12, <1>13, <1>14, <1>15, <1>16, <1>17, <1>18, <1>19, <1>20, <1>21 DEF Wrap!phdr_wrap_main
<1>28. QED
  BY <1>22, <1>23, <1>24, <1>25, <1>26, <1>27 DEF Wrap!Wrappers

WrapPlaces == {"open", "describe", "openwrite", "reset", "loop", "read", "write", "document", "extras", "exit"}

WrapRuns ==
  [pc : WrapPlaces, result : {"OK", "FAIL"}, read : [{1, 2} -> Nat], count : 0 .. Wrap!NoLimit, extras : 0 .. MaxExtras]
WrapFiles ==
  [st : {"none", "open", "final"}, frames : Seq({1, 2} \X Nat), extras : SUBSET (1 .. MaxExtras), error : BOOLEAN]

WrapTyped ==
  /\ s1.row \in Wrap!Wrappers /\ s1.opt \in Wrap!Options(s1.row) /\ s2 \in Wrap!Inputs(s1.row)
  /\ s3 \in WrapRuns
  /\ s4 \in WrapFiles

\* The frames the file gets, of which the first k are there
WrapNth(i) ==
  IF s1.opt.repeat THEN <<1, 1>>
  ELSE IF s1.row.eyes = 2 THEN <<IF i % 2 = 1 THEN 1 ELSE 2, (i + 1) \div 2>>
  ELSE <<1, i>>

WrapShown(k) == [i \in 1 .. k |-> WrapNth(i)]

WrapLimited == s1.opt.duration < Wrap!NoLimit

\* The frames of the source but for an incomplete last one that is dropped
WrapWhole == s2.left - (IF s2.short /\ (s1.row.short = "drop" \/ s1.opt.partial) THEN 1 ELSE 0)

\* All the frames the file gets
WrapAll ==
  LET limit == IF s1.opt.duration = Wrap!NoLimit \/ s1.row.body = "text" THEN MaxFrames ELSE s1.opt.duration
  IN  WrapShown(IF s1.opt.repeat THEN limit
                ELSE IF s1.row.eyes = 2 THEN 2 * Wrap!Least(limit, Wrap!Least(s2.left, s2.right))
                ELSE Wrap!Least(limit, WrapWhole))

\* How many frames have been read and written, and the loop's counter, in the loop
WrapCopied ==
  LET a == s3.read[1]
      b == s3.read[2]
      c == s3.count
  IN  IF s1.opt.repeat
      THEN /\ c <= s1.opt.duration
           /\ s3.pc = "loop" => s4.frames = WrapShown(c) /\ a = (IF c = 0 THEN 0 ELSE 1)
           /\ s3.pc = "read" => c = 1 /\ a = 0 /\ s4.frames = WrapShown(0)
           /\ s3.pc = "write" => c >= 1 /\ a = (IF c = 1 THEN 0 ELSE 1) /\ s4.frames = WrapShown(c - 1)
      ELSE IF s1.row.eyes = 1
      THEN /\ s4.frames = WrapShown(a) /\ a <= WrapWhole
           /\ WrapLimited => c = (IF s3.pc = "loop" THEN a ELSE a + 1) /\ c <= s1.opt.duration
           /\ s3.pc = "write" => a < WrapWhole
      ELSE /\ s4.frames = WrapShown(a + b) /\ b <= a /\ a <= b + 1 /\ a <= s2.left /\ b <= s2.right
           /\ WrapLimited => c = (IF s3.pc = "loop" THEN b ELSE b + 1) /\ c <= s1.opt.duration
           /\ s3.pc = "loop" => a = b
           /\ s3.pc = "write" => IF a > b THEN b < s2.right ELSE a < s2.left

\* The frames are all there, or an eye of the last one is missing
WrapGathered == s4.frames = WrapAll \/ (s1.row.eyes = 2 /\ Len(s4.frames) % 2 # 0)

WrapExtra ==
  /\ s3.extras <= s2.extras
  /\ s1.row.extras = "resources" => s4.extras = 1 .. s3.extras
  /\ s1.row.extras = "texts" /\ s3.extras > 0 /\ s3.result = "OK" => s3.extras \in s4.extras

WrapFresh == s3.read = <<0, 0>> /\ s3.count = 0 /\ s4.frames = <<>>
WrapNoExtras == s3.extras = 0 /\ s4.extras = {} /\ s3.result = "OK"

WrapProgress ==
  \/ s3.pc \in {"open", "describe", "openwrite"} /\ s4.st = "none" /\ WrapFresh /\ WrapNoExtras
  \/ s3.pc = "reset" /\ s4.st = "open" /\ WrapFresh /\ WrapNoExtras
  \/ s3.pc = "document" /\ s4.st = "open" /\ s1.row.body = "text" /\ WrapNoExtras
  \/ s3.pc \in {"loop", "read", "write"} /\ s4.st = "open" /\ s1.row.body = "frames" /\ WrapCopied /\ WrapNoExtras
  \/ s3.pc = "extras" /\ s4.st = "open" /\ WrapGathered /\ WrapExtra
  \/ s3.pc = "exit" /\ Wrap!WrapComplete

WrapInv == WrapTyped /\ (s1.opt.dry \/ WrapProgress)

\* What the rows, the options and the source of a run are
LEMMA WrapFacts ==
  ASSUME WrapTyped
  PROVE  /\ WrapRow(s1.row) /\ MaxFrames \in Nat \ {0} /\ Wrap!NoLimit = MaxFrames + 1
         /\ s1.opt.duration \in 0 .. Wrap!NoLimit /\ s1.opt.repeat \in BOOLEAN /\ s1.opt.dry \in BOOLEAN
         /\ s1.opt.partial \in BOOLEAN /\ s1.opt.start \in 0 .. 1
         /\ ~s1.row.limit => s1.opt.duration = Wrap!NoLimit
         /\ s1.opt.repeat => s1.row.repeat /\ s1.opt.duration < Wrap!NoLimit
         /\ s2.left \in 1 .. MaxFrames /\ s2.right \in 1 .. MaxFrames /\ s2.short \in BOOLEAN /\ s2.extras \in 0 .. MaxExtras
         /\ MaxExtras \in Nat
         /\ s1.row.body = "text" => s2.left = 1
         /\ s2.short => s1.row.short # "none"
         /\ WrapWhole \in Nat /\ WrapWhole <= s2.left
         /\ s1.opt.repeat \/ s1.row.eyes = 2 \/ s1.row.body = "text" => WrapWhole = s2.left /\ ~s2.short
<1>1. MaxFrames \in Nat \ {0} /\ MaxExtras \in Nat
  BY ComponentsAssumption DEF Wrap!WrapAssumption
<1>2. WrapRow(s1.row)
  BY WrapRowsHold DEF WrapTyped
<1>3. /\ s1.opt \in [duration : 0 .. Wrap!NoLimit, start : 0 .. 1, repeat : BOOLEAN, dry : BOOLEAN, partial : BOOLEAN]
      /\ ~s1.row.limit => s1.opt.duration = Wrap!NoLimit
      /\ s1.opt.repeat => s1.row.repeat /\ s1.opt.duration < Wrap!NoLimit
  BY DEF WrapTyped, Wrap!Options
<1>4. /\ s2 \in [left : 1 .. MaxFrames, right : 1 .. MaxFrames, short : BOOLEAN, extras : 0 .. MaxExtras]
      /\ s1.row.body = "text" => s2.left = 1
      /\ s2.short => s1.row.short # "none"
  BY DEF WrapTyped, Wrap!Inputs
<1>5. WrapWhole \in Nat /\ WrapWhole <= s2.left
  BY <1>1, <1>4 DEF WrapWhole
<1>6. s1.opt.repeat \/ s1.row.eyes = 2 \/ s1.row.body = "text" => WrapWhole = s2.left /\ ~s2.short
  BY <1>1, <1>2, <1>3, <1>4 DEF WrapWhole, WrapRow
<1>7. QED
  BY <1>1, <1>2, <1>3, <1>4, <1>5, <1>6 DEF Wrap!NoLimit

LEMMA WrapShownMore ==
  ASSUME WrapTyped, NEW k \in Nat
  PROVE  /\ WrapShown(k) \in Seq({1, 2} \X Nat) /\ Len(WrapShown(k)) = k
         /\ Append(WrapShown(k), WrapNth(k + 1)) = WrapShown(k + 1)
<1>1. \A i \in Nat : WrapNth(i) \in {1, 2} \X Nat
  BY DEF WrapNth
<1>2. WrapShown(k) \in Seq({1, 2} \X Nat) /\ Len(WrapShown(k)) = k
  BY <1>1 DEF WrapShown
<1>3. Append(WrapShown(k), WrapNth(k + 1)) = WrapShown(k + 1)
  <2> DEFINE e(i) == WrapNth(i)
  <2> HIDE DEF e
  <2>1. Append([i \in 1 .. k |-> e(i)], e(k + 1)) = [i \in 1 .. k + 1 |-> e(i)]
    OBVIOUS
  <2>2. QED
    BY <2>1 DEF e, WrapShown
<1>4. QED
  BY <1>2, <1>3

LEMMA WrapInit == Wrap!Init => WrapInv
<1> SUFFICES ASSUME Wrap!Init PROVE WrapInv
  OBVIOUS
<1>1. /\ s1.row \in Wrap!Wrappers /\ s1.opt \in Wrap!Options(s1.row) /\ s2 \in Wrap!Inputs(s1.row)
      /\ s3 = [pc |-> "open", result |-> "OK", read |-> <<0, 0>>, count |-> 0, extras |-> 0]
      /\ s4 = [st |-> "none", frames |-> <<>>, extras |-> {}, error |-> FALSE]
  <2>1. PICK row \in Wrap!Wrappers : \E o \in Wrap!Options(row) : s1 = [row |-> row, opt |-> o] /\ s2 \in Wrap!Inputs(row)
    BY DEF Wrap!Init
  <2>2. PICK o \in Wrap!Options(row) : s1 = [row |-> row, opt |-> o] /\ s2 \in Wrap!Inputs(row)
    BY <2>1
  <2>3. s1.row = row /\ s1.opt = o
    BY <2>2
  <2>4. QED
    BY <2>2, <2>3 DEF Wrap!Init
<1>2. MaxFrames \in Nat \ {0} /\ MaxExtras \in Nat
  BY ComponentsAssumption DEF Wrap!WrapAssumption
<1>3. <<0, 0>> \in [{1, 2} -> Nat]
  OBVIOUS
<1>4. WrapTyped
  BY <1>1, <1>2, <1>3 DEF WrapTyped, WrapRuns, WrapFiles, WrapPlaces, Wrap!NoLimit
<1>5. WrapProgress
  BY <1>1 DEF WrapProgress, WrapFresh, WrapNoExtras
<1>6. QED
  BY <1>4, <1>5 DEF WrapInv

\* Giving up leaves no finalized file.
LEMMA WrapStops ==
  ASSUME WrapInv, s3.pc # "exit", Wrap!Stop("FAIL"), UNCHANGED <<s1, s2>>, s4' = s4 \/ s4'.st = "open",
         s4' \in WrapFiles
  PROVE  WrapInv'
<1>1. s3' \in WrapRuns
      /\ s3'.pc = "exit" /\ s3'.result = "FAIL"
  BY DEF WrapInv, WrapTyped, WrapRuns, Wrap!Stop, WrapPlaces
<1>2. WrapTyped'
  BY <1>1 DEF WrapInv, WrapTyped
<1>3. ~s1.opt.dry => s4'.st # "final"
  BY DEF WrapInv, WrapProgress
<1>4. ~s1.opt.dry => Wrap!WrapComplete'
  BY <1>1, <1>3 DEF Wrap!WrapComplete
<1>5. QED
  BY <1>1, <1>2, <1>4 DEF WrapInv, WrapProgress

LEMMA WrapMoves ==
  WrapTyped => \A p \in WrapPlaces : Wrap!Step(p) =>
    /\ s3' \in WrapRuns
    /\ s3'.pc = p /\ s3'.result = s3.result /\ s3'.read = s3.read /\ s3'.count = s3.count /\ s3'.extras = s3.extras
<1> SUFFICES ASSUME WrapTyped, NEW p \in WrapPlaces, Wrap!Step(p)
      PROVE  /\ s3' \in WrapRuns
             /\ s3'.pc = p /\ s3'.result = s3.result /\ s3'.read = s3.read /\ s3'.count = s3.count /\ s3'.extras = s3.extras
  OBVIOUS
<1>1. s3 \in WrapRuns
  BY DEF WrapTyped
<1>2. s3' = [s3 EXCEPT !.pc = p]
  BY DEF Wrap!Step
<1>3. \A r \in WrapRuns : [r EXCEPT !.pc = p] \in WrapRuns
  <2> DEFINE Places == WrapPlaces
             Results == {"OK", "FAIL"}
             Reads == [{1, 2} -> Nat]
             Counts == 0 .. Wrap!NoLimit
             Extras == 0 .. MaxExtras
  <2>1. p \in Places
    OBVIOUS
  <2>2. WrapRuns = [pc : Places, result : Results, read : Reads, count : Counts, extras : Extras]
    BY DEF WrapRuns
  <2> HIDE DEF Places, Results, Reads, Counts, Extras
  <2>3. QED
    BY ONLY <2>1, <2>2
<1>4. \A r \in WrapRuns : LET q == [r EXCEPT !.pc = p] IN
        q.pc = p /\ q.result = r.result /\ q.read = r.read /\ q.count = r.count /\ q.extras = r.extras
  BY ONLY DEF WrapRuns
<1>5. QED
  BY ONLY <1>1, <1>2, <1>3, <1>4

\* What the updates of the actions do to a record
LEMMA WrapRunUpdates ==
  \A r \in WrapRuns :
    /\ \A e \in {1, 2}, n \in Nat : \A p \in WrapPlaces : [r EXCEPT !.read[e] = n, !.pc = p] \in WrapRuns
    /\ \A c \in 0 .. Wrap!NoLimit : \A p \in WrapPlaces : [r EXCEPT !.count = c, !.pc = p] \in WrapRuns
    /\ \A x \in 0 .. MaxExtras : [r EXCEPT !.extras = x] \in WrapRuns
    /\ \A x \in 0 .. MaxExtras : \A o \in {"OK", "FAIL"} : [r EXCEPT !.extras = x, !.result = o] \in WrapRuns
    /\ \A p \in WrapPlaces : \A o \in {"OK", "FAIL"} : [r EXCEPT !.pc = p, !.result = o] \in WrapRuns
<1> DEFINE Places == WrapPlaces
           Results == {"OK", "FAIL"}
           Counts == 0 .. Wrap!NoLimit
           Extras == 0 .. MaxExtras
<1>1. WrapRuns = [pc : Places, result : Results, read : [{1, 2} -> Nat], count : Counts, extras : Extras]
  BY DEF WrapRuns
<1> HIDE DEF Places, Results, Counts, Extras
<1>2. \A r \in WrapRuns :
    /\ \A e \in {1, 2}, n \in Nat : \A p \in Places : [r EXCEPT !.read[e] = n, !.pc = p] \in WrapRuns
    /\ \A c \in Counts : \A p \in Places : [r EXCEPT !.count = c, !.pc = p] \in WrapRuns
    /\ \A x \in Extras : [r EXCEPT !.extras = x] \in WrapRuns
    /\ \A x \in Extras : \A o \in Results : [r EXCEPT !.extras = x, !.result = o] \in WrapRuns
    /\ \A p \in Places : \A o \in Results : [r EXCEPT !.pc = p, !.result = o] \in WrapRuns
  BY <1>1
<1>3. QED
  BY <1>2 DEF Places, Results, Counts, Extras

LEMMA WrapFileUpdates ==
  \A f \in WrapFiles :
    /\ \A t \in {"none", "open", "final"} : [f EXCEPT !.st = t] \in WrapFiles
    /\ \A x \in {1, 2} \X Nat : [f EXCEPT !.frames = Append(@, x)] \in WrapFiles
    /\ \A x \in {1, 2} \X Nat : [f EXCEPT !.frames = <<x>>] \in WrapFiles
    /\ \A n \in 1 .. MaxExtras : [f EXCEPT !.extras = @ \cup {n}] \in WrapFiles
<1> DEFINE States == {"none", "open", "final"}
           Frames == Seq({1, 2} \X Nat)
           Extras == SUBSET (1 .. MaxExtras)
<1>1. WrapFiles = [st : States, frames : Frames, extras : Extras, error : BOOLEAN]
  BY DEF WrapFiles
<1>2. \A q \in Frames : \A x \in {1, 2} \X Nat : Append(q, x) \in Frames /\ <<x>> \in Frames
  OBVIOUS
<1>3. \A q \in Extras : \A n \in 1 .. MaxExtras : q \cup {n} \in Extras
  OBVIOUS
<1> HIDE DEF States, Frames, Extras
<1>4. \A f \in WrapFiles :
    /\ \A t \in States : [f EXCEPT !.st = t] \in WrapFiles
    /\ \A x \in {1, 2} \X Nat : [f EXCEPT !.frames = Append(@, x)] \in WrapFiles
    /\ \A x \in {1, 2} \X Nat : [f EXCEPT !.frames = <<x>>] \in WrapFiles
    /\ \A n \in 1 .. MaxExtras : [f EXCEPT !.extras = @ \cup {n}] \in WrapFiles
  BY <1>1, <1>2, <1>3
<1>5. QED
  BY <1>4 DEF States

\* Without -f that is what is promised, with an incomplete last frame or without it.
LEMMA WrapPromised ==
  ASSUME WrapTyped, s1.opt.start = 0
  PROVE  \E kept \in BOOLEAN : WrapAll = Wrap!Promised(kept)
<1> DEFINE kept == ~(s1.row.short = "drop" \/ s1.opt.partial)
           limit == IF s1.opt.duration = Wrap!NoLimit \/ s1.row.body = "text" THEN MaxFrames ELSE s1.opt.duration
<1>1. \A k : s1.opt.repeat => WrapShown(k) = [i \in 1 .. k |-> <<1, s1.opt.start + 1>>]
  BY DEF WrapShown, WrapNth
<1>2. \A k : ~s1.opt.repeat /\ s1.row.eyes = 2 =>
        WrapShown(k) = [i \in 1 .. k |-> <<IF i % 2 = 1 THEN 1 ELSE 2, s1.opt.start + (i + 1) \div 2>>]
  BY DEF WrapShown, WrapNth
<1>3. \A k : ~s1.opt.repeat /\ s1.row.eyes # 2 => WrapShown(k) = [i \in 1 .. k |-> <<1, s1.opt.start + i>>]
  BY DEF WrapShown, WrapNth
<1>4. WrapWhole = s2.left - (IF s2.short /\ ~kept THEN 1 ELSE 0) /\ WrapWhole - s1.opt.start = WrapWhole
  BY WrapFacts DEF WrapWhole
<1>5. Wrap!Least(s2.left, s2.right) - s1.opt.start = Wrap!Least(s2.left, s2.right)
  BY WrapFacts DEF Wrap!Least
<1>6. WrapAll = Wrap!Promised(kept)
  BY <1>1, <1>2, <1>3, <1>4, <1>5 DEF WrapAll, Wrap!Promised, Wrap!Row, Wrap!Opt
<1>7. QED
  BY <1>6

LEMMA WrapSame ==
  UNCHANGED <<s1, s2>> =>
    /\ \A k : WrapShown(k)' = WrapShown(k)
    /\ \A kept : Wrap!Promised(kept)' = Wrap!Promised(kept)
    /\ WrapAll' = WrapAll /\ WrapWhole' = WrapWhole /\ WrapLimited' = WrapLimited
<1> SUFFICES ASSUME UNCHANGED <<s1, s2>>
      PROVE  /\ \A k : WrapShown(k)' = WrapShown(k)
             /\ \A kept : Wrap!Promised(kept)' = Wrap!Promised(kept)
             /\ WrapAll' = WrapAll /\ WrapWhole' = WrapWhole /\ WrapLimited' = WrapLimited
  OBVIOUS
<1>1. \A k : WrapShown(k)' = WrapShown(k)
  BY DEF WrapShown, WrapNth
<1>2. \A kept : Wrap!Promised(kept)' = Wrap!Promised(kept)
  BY DEF Wrap!Promised, Wrap!Row, Wrap!Opt
<1>3. WrapWhole' = WrapWhole /\ WrapLimited' = WrapLimited
  BY DEF WrapWhole, WrapLimited
<1>4. WrapAll' = WrapAll
  BY <1>1, <1>3 DEF WrapAll
<1>5. QED
  BY <1>1, <1>2, <1>3, <1>4

LEMMA WrapTypedNext ==
  ASSUME WrapTyped, Wrap!Next
  PROVE  WrapTyped'
<1>1. /\ s3 \in WrapRuns /\ s4 \in WrapFiles
      /\ s3.pc \in WrapPlaces /\ s3.read[1] \in Nat /\ s3.read[2] \in Nat /\ s3.count \in 0 .. Wrap!NoLimit
      /\ s3.extras \in 0 .. MaxExtras /\ s3.result \in {"OK", "FAIL"} /\ s4.frames \in Seq({1, 2} \X Nat)
  BY DEF WrapTyped, WrapRuns, WrapFiles
<1>2. UNCHANGED <<s1, s2>> /\ s3' \in WrapRuns /\ s4' \in WrapFiles => WrapTyped'
  BY DEF WrapTyped
<1>3. \A p \in WrapPlaces : Wrap!Step(p) => s3' \in WrapRuns
  BY WrapMoves
<1>4. \A o \in {"OK", "FAIL"} : Wrap!Stop(o) => s3' \in WrapRuns
  BY <1>1, WrapRunUpdates DEF Wrap!Stop, WrapPlaces
<1>5. CASE Wrap!OpenRead
  BY <1>1, <1>2, <1>3, <1>4, <1>5 DEF Wrap!OpenRead, WrapPlaces
<1>6. CASE Wrap!Describe
  BY <1>1, <1>2, <1>3, <1>4, <1>6 DEF Wrap!Describe, WrapPlaces
<1>7. CASE Wrap!OpenWrite
  BY <1>1, <1>2, <1>3, <1>4, <1>7, WrapFileUpdates DEF Wrap!OpenWrite, WrapPlaces
<1>8. CASE Wrap!Reset
  BY <1>1, <1>2, <1>3, <1>4, <1>8 DEF Wrap!Reset, WrapPlaces
<1>9. CASE Wrap!Loop
  <2>1. Wrap!Least(s3.count + 1, Wrap!NoLimit) \in 0 .. Wrap!NoLimit
    <3> DEFINE limit == Wrap!NoLimit
               count == s3.count
    <3>1. limit \in Nat /\ count \in 0 .. limit
      BY <1>1, WrapFacts
    <3> HIDE DEF limit, count
    <3>2. Wrap!Least(count + 1, limit) \in 0 .. limit
      BY ONLY <3>1 DEF Wrap!Least
    <3>3. QED
      BY ONLY <3>2 DEF limit, count
  <2>2. s3' \in WrapRuns \/ Wrap!Step("extras")
    <3>1. \A p \in WrapPlaces, c \in 0 .. Wrap!NoLimit : [s3 EXCEPT !.count = c, !.pc = p] \in WrapRuns
      BY <1>1, WrapRunUpdates
    <3>2. \A p \in {"read", "write"} : [s3 EXCEPT !.count = Wrap!Least(@ + 1, Wrap!NoLimit), !.pc = p] \in WrapRuns
      BY <2>1, <3>1 DEF WrapPlaces
    <3> DEFINE p == IF Wrap!Opt.repeat /\ s3.count > 0 THEN "write" ELSE "read"
    <3>3. s3' = [s3 EXCEPT !.count = Wrap!Least(@ + 1, Wrap!NoLimit), !.pc = p] \/ Wrap!Step("extras")
      BY ONLY <1>9 DEF Wrap!Loop
    <3>4. p \in {"read", "write"}
      OBVIOUS
    <3> HIDE DEF p
    <3>5. QED
      BY ONLY <3>2, <3>3, <3>4
  <2>3. QED
    BY <1>1, <1>2, <1>3, <1>9, <2>2 DEF Wrap!Loop, WrapPlaces
<1>10. CASE Wrap!ReadFrame
  <2>1. Wrap!Eye \in {1, 2}
    BY DEF Wrap!Eye
  <2>2. \A p \in {"read", "loop"} : [s3 EXCEPT !.read[Wrap!Eye] = @ + 1, !.pc = p] \in WrapRuns
    <3>1. s3.read[Wrap!Eye] + 1 \in Nat
      BY <1>1, <2>1
    <3>2. \A p \in WrapPlaces, n \in Nat : [s3 EXCEPT !.read[Wrap!Eye] = n, !.pc = p] \in WrapRuns
      BY <1>1, <2>1, WrapRunUpdates
    <3>3. QED
      BY <3>1, <3>2 DEF WrapPlaces
  <2>3. s3' \in WrapRuns \/ Wrap!Step("write") \/ Wrap!Step("extras") \/ Wrap!Stop("FAIL")
    BY <1>10, <2>2 DEF Wrap!ReadFrame, Wrap!AfterLast
  <2>4. QED
    BY <1>1, <1>2, <1>3, <1>4, <1>10, <2>3 DEF Wrap!ReadFrame, WrapPlaces
<1>11. CASE Wrap!WriteFrame
  <2> DEFINE eye == Wrap!Eye
             n == IF s1.opt.repeat /\ s3.count > 1 THEN s3.read[1] ELSE s3.read[eye] + 1
  <2>1. eye \in {1, 2} /\ n \in Nat
    BY <1>1 DEF Wrap!Eye
  <2>2. /\ \A p \in WrapPlaces : [s3 EXCEPT !.read[eye] = n, !.pc = p] \in WrapRuns
        /\ [s4 EXCEPT !.frames = Append(@, <<eye, n>>)] \in WrapFiles
    BY <1>1, <2>1, WrapRunUpdates, WrapFileUpdates
  <2>3. \/ /\ s4' = IF s1.opt.dry THEN s4 ELSE [s4 EXCEPT !.frames = Append(@, <<eye, n>>)]
           /\ s3' = [s3 EXCEPT !.read[eye] = n, !.pc = IF eye < s1.row.eyes THEN "read" ELSE "loop"]
        \/ Wrap!Stop("FAIL") /\ UNCHANGED s4
    BY <1>11 DEF Wrap!WriteFrame, Wrap!Opt, Wrap!Row
  <2> HIDE DEF eye, n
  <2>4. QED
    BY <1>1, <1>2, <1>4, <1>11, <2>2, <2>3 DEF Wrap!WriteFrame, WrapPlaces
<1>12. CASE Wrap!WriteDocument
  BY <1>1, <1>2, <1>3, <1>4, <1>12, WrapFileUpdates DEF Wrap!WriteDocument, WrapPlaces
<1>13. CASE Wrap!WriteResource \/ Wrap!WriteText
  <2>1. s3.extras + 1 \in 1 .. MaxExtras
    BY <1>1, <1>13, WrapFacts DEF Wrap!WriteResource, Wrap!WriteText
  <2>2. /\ [s3 EXCEPT !.extras = Wrap!Next1] \in WrapRuns
        /\ \A o \in {"OK", "FAIL"} : [s3 EXCEPT !.extras = Wrap!Next1, !.result = o] \in WrapRuns
        /\ [s4 EXCEPT !.extras = @ \cup {Wrap!Next1}] \in WrapFiles
    <3>1. Wrap!Next1 \in 1 .. MaxExtras /\ Wrap!Next1 \in 0 .. MaxExtras
      BY <2>1, WrapFacts DEF Wrap!Next1
    <3>2. QED
      BY <1>1, <3>1, WrapRunUpdates, WrapFileUpdates
  <2>3. QED
    BY <1>1, <1>2, <1>4, <1>13, <2>2 DEF Wrap!WriteResource, Wrap!WriteText
<1>14. CASE Wrap!Finalize
  BY <1>1, <1>2, <1>3, <1>4, <1>14, WrapFileUpdates DEF Wrap!Finalize, WrapPlaces
<1>15. CASE Wrap!Exit
  BY <1>1, <1>2, <1>15 DEF Wrap!Exit, Wrap!vars
<1>16. QED
  BY <1>5, <1>6, <1>7, <1>8, <1>9, <1>10, <1>11, <1>12, <1>13, <1>14, <1>15 DEF Wrap!Next, Wrap!Proceed

\* Where the frames of a file begin
LEMMA WrapStarts ==
  WrapTyped /\ WrapFresh /\ WrapNoExtras /\ s4.st = "open" /\ s3.pc = "loop" /\ s1.row.body = "frames" => WrapProgress
<1> SUFFICES ASSUME WrapTyped, WrapFresh, WrapNoExtras, s4.st = "open", s3.pc = "loop", s1.row.body = "frames"
      PROVE  WrapProgress
  OBVIOUS
<1>1. WrapShown(0) = <<>>
  BY DEF WrapShown
<1>2. s3.read[1] = 0 /\ s3.read[2] = 0
  BY DEF WrapFresh
<1>3. WrapCopied
  BY <1>1, <1>2, WrapFacts DEF WrapCopied, WrapFresh, WrapLimited
<1>4. QED
  BY <1>3 DEF WrapProgress

LEMMA WrapStartsNext ==
  (WrapTyped /\ WrapFresh /\ WrapNoExtras /\ s4.st = "open" /\ s3.pc = "loop" /\ s1.row.body = "frames" => WrapProgress)'
  BY WrapStarts, PTL

LEMMA WrapLoop ==
  ASSUME WrapInv, ~s1.opt.dry, WrapTyped', Wrap!Loop
  PROVE  WrapProgress'
<1> DEFINE a == s3.read[1]
           b == s3.read[2]
           c == s3.count
<1>1. /\ s3 \in WrapRuns /\ c \in Nat /\ a \in Nat /\ b \in Nat
      /\ s4.frames' = s4.frames /\ UNCHANGED <<s1, s2, s4>> /\ s3.pc = "loop"
  BY DEF WrapInv, WrapTyped, WrapRuns, Wrap!Loop
<1>2. WrapCopied /\ WrapNoExtras /\ s4.st = "open" /\ s1.row.body = "frames"
  BY <1>1 DEF WrapInv, WrapProgress
<1>3. CASE ~s1.row.limit \/ s1.opt.duration = Wrap!NoLimit \/ c < s1.opt.duration
  <2>1. s3' = [s3 EXCEPT !.count = Wrap!Least(@ + 1, Wrap!NoLimit), !.pc = IF s1.opt.repeat /\ s3.count > 0 THEN "write" ELSE "read"]
    BY <1>3 DEF Wrap!Loop, Wrap!Row, Wrap!Opt
  <2>2. /\ s3'.pc = IF s1.opt.repeat /\ c > 0 THEN "write" ELSE "read"
        /\ s3'.count = Wrap!Least(c + 1, Wrap!NoLimit) /\ s3'.read = s3.read
        /\ s3'.extras = s3.extras /\ s3'.result = s3.result
    BY <1>1, <2>1 DEF WrapRuns
  <2>3. WrapLimited => s3'.count = c + 1 /\ c < s1.opt.duration
    BY <1>1, <1>3, <2>2, WrapFacts DEF Wrap!Least, WrapLimited, WrapInv
  <2>4. WrapCopied'
    <3>1. CASE s1.opt.repeat
      BY <1>1, <1>2, <2>2, <2>3, <3>1, WrapFacts, WrapSame DEF WrapCopied, WrapLimited, WrapInv
    <3>2. CASE ~s1.opt.repeat /\ s1.row.eyes = 1
      BY <1>1, <1>2, <2>2, <2>3, <3>2, WrapFacts, WrapSame DEF WrapCopied, WrapInv
    <3>3. CASE ~s1.opt.repeat /\ s1.row.eyes # 1
      BY <1>1, <1>2, <2>2, <2>3, <3>3, WrapFacts, WrapSame DEF WrapCopied, WrapInv
    <3>4. QED
      BY <3>1, <3>2, <3>3
  <2>5. QED
    BY <1>1, <1>2, <2>2, <2>4 DEF WrapProgress, WrapNoExtras
<1>4. CASE ~(~s1.row.limit \/ s1.opt.duration = Wrap!NoLimit \/ c < s1.opt.duration)
  <2>1. Wrap!Step("extras")
    BY <1>4 DEF Wrap!Loop, Wrap!Row, Wrap!Opt
  <2>2. s3'.pc = "extras" /\ s3'.read = s3.read /\ s3'.extras = s3.extras /\ s3'.result = s3.result
    BY <2>1, WrapMoves DEF WrapPlaces, WrapInv
  <2>3. WrapLimited /\ s1.opt.duration \in Nat /\ c >= s1.opt.duration
    BY <1>1, <1>4, WrapFacts DEF WrapLimited, WrapInv
  <2>4. s4.frames = WrapAll
    <3>1. CASE s1.opt.repeat
      BY <1>1, <1>2, <2>3, <3>1, WrapFacts DEF WrapAll, WrapCopied, WrapLimited, WrapInv
    <3>2. CASE ~s1.opt.repeat /\ s1.row.eyes = 1
      <4>1. c = a /\ a = s1.opt.duration /\ a <= WrapWhole /\ s4.frames = WrapShown(a)
        BY <1>1, <1>2, <2>3, <3>2 DEF WrapCopied
      <4>2. Wrap!Least(s1.opt.duration, WrapWhole) = a
        BY <4>1, <1>1, WrapFacts DEF Wrap!Least, WrapInv
      <4>3. QED
        BY <1>2, <2>3, <3>2, <4>1, <4>2, WrapFacts DEF WrapAll, WrapLimited, WrapInv
    <3>3. CASE ~s1.opt.repeat /\ s1.row.eyes # 1
      <4>1. c = b /\ b = s1.opt.duration /\ a = b /\ a <= s2.left /\ b <= s2.right /\ s4.frames = WrapShown(a + b)
        BY <1>1, <1>2, <2>3, <3>3 DEF WrapCopied
      <4>2. 2 * Wrap!Least(s1.opt.duration, Wrap!Least(s2.left, s2.right)) = a + b
        BY <4>1, <1>1, WrapFacts DEF Wrap!Least, WrapInv
      <4>3. s1.row.eyes = 2
        BY <3>3, WrapFacts DEF WrapRow, WrapInv
      <4>4. QED
        BY <1>2, <2>3, <3>3, <4>1, <4>2, <4>3, WrapFacts DEF WrapAll, WrapLimited, WrapInv
    <3>4. QED
      BY <3>1, <3>2, <3>3
  <2>5. WrapGathered'
    BY <1>1, <2>4, WrapSame DEF WrapGathered
  <2>6. WrapExtra'
    BY <1>1, <1>2, <2>2, WrapFacts DEF WrapExtra, WrapNoExtras, WrapInv
  <2>7. QED
    BY <1>1, <1>2, <2>2, <2>5, <2>6 DEF WrapProgress
<1>5. QED
  BY <1>3, <1>4

\* A source that ends has all its frames in the file, but that a last one may lack an eye.
LEMMA WrapSourceEnds ==
  ASSUME WrapInv, ~s1.opt.dry, s3.pc = "read", s3.read[Wrap!Eye] = Wrap!Length(Wrap!Eye) \/ Wrap!DropsShort
  PROVE  WrapGathered
<1> DEFINE a == s3.read[1]
           b == s3.read[2]
           c == s3.count
           limit == IF s1.opt.duration = Wrap!NoLimit \/ s1.row.body = "text" THEN MaxFrames ELSE s1.opt.duration
<1>1. c \in Nat /\ a \in Nat /\ b \in Nat /\ WrapTyped
  BY DEF WrapInv, WrapTyped, WrapRuns
<1>2. WrapCopied /\ s1.row.body = "frames"
  BY DEF WrapInv, WrapProgress
<1>3. WrapLimited <=> s1.opt.duration # Wrap!NoLimit
  BY <1>1, WrapFacts DEF WrapLimited
<1>4. limit = IF WrapLimited THEN s1.opt.duration ELSE MaxFrames
  BY <1>2, <1>3
<1>5. limit \in Nat /\ (~WrapLimited => limit >= s2.left /\ limit >= s2.right)
  BY <1>1, <1>4, WrapFacts
<1>6. CASE s1.opt.repeat
  <2>1. a = 0 /\ s1.row.eyes = 1 /\ ~s2.short
    BY <1>1, <1>2, <1>6, WrapFacts DEF WrapCopied, WrapRow
  <2>2. QED
    BY <1>1, <2>1, WrapFacts DEF Wrap!Eye, Wrap!Row, Wrap!Length, Wrap!DropsShort, Wrap!IsShort
<1>7. CASE ~s1.opt.repeat /\ s1.row.eyes = 1
  <2>1. s4.frames = WrapShown(a) /\ a <= WrapWhole /\ (WrapLimited => a < s1.opt.duration)
    BY <1>1, <1>2, <1>7, WrapFacts DEF WrapCopied
  <2>2. a = s2.left \/ (s2.short /\ a = s2.left - 1 /\ (s1.row.short = "drop" \/ s1.opt.partial))
    BY <1>7 DEF Wrap!Eye, Wrap!Row, Wrap!Opt, Wrap!Length, Wrap!DropsShort, Wrap!IsShort
  <2>3. a = WrapWhole
    BY <1>1, <2>1, <2>2, WrapFacts DEF WrapWhole
  <2>4. Wrap!Least(limit, WrapWhole) = a
    BY <1>1, <1>4, <1>5, <2>1, <2>3, WrapFacts DEF Wrap!Least
  <2>5. QED
    BY <1>1, <1>7, <2>1, <2>4 DEF WrapAll, WrapGathered
<1>8. CASE ~s1.opt.repeat /\ s1.row.eyes # 1
  <2>1. s1.row.eyes = 2 /\ ~s2.short
    BY <1>1, <1>8, WrapFacts DEF WrapRow
  <2>2. /\ s4.frames = WrapShown(a + b) /\ b <= a /\ a <= b + 1 /\ a <= s2.left /\ b <= s2.right
        /\ WrapLimited => b < s1.opt.duration
    BY <1>1, <1>2, <1>8, WrapFacts DEF WrapCopied
  <2>3. CASE a > b
    <3>1. a + b \in Nat /\ a = b + 1
      BY <1>1, <2>2, <2>3
    <3>2. Len(s4.frames) = a + b /\ a = b + 1
      <4>1. Len(WrapShown(a + b)) = a + b
        BY <1>1, <3>1, WrapShownMore
      <4>2. QED
        BY <2>2, <3>1, <4>1
    <3>3. (a + b) % 2 # 0
      BY <1>1, <3>2
    <3>4. QED
      BY <2>1, <3>2, <3>3 DEF WrapGathered
  <2>4. CASE a = b
    <3>1. Wrap!Eye = 1
      BY <1>1, <2>4 DEF Wrap!Eye
    <3>2. a = s2.left
      BY <2>1, <3>1 DEF Wrap!Eye, Wrap!Row, Wrap!Length, Wrap!DropsShort, Wrap!IsShort
    <3>3. limit >= a
      BY <1>1, <1>4, <1>5, <2>2, <2>4, <3>2, WrapFacts
    <3>4. 2 * Wrap!Least(limit, Wrap!Least(s2.left, s2.right)) = a + b
      BY <1>1, <1>5, <2>2, <2>4, <3>2, <3>3, WrapFacts DEF Wrap!Least
    <3>5. QED
      BY <1>1, <1>8, <2>1, <2>2, <3>4 DEF WrapAll, WrapGathered
  <2>5. QED
    BY <1>1, <2>2, <2>3, <2>4
<1>9. QED
  BY <1>6, <1>7, <1>8

LEMMA WrapReadFrame ==
  ASSUME WrapInv, ~s1.opt.dry, WrapTyped', Wrap!ReadFrame
  PROVE  WrapProgress'
<1> DEFINE a == s3.read[1]
           b == s3.read[2]
<1>1. s3.pc = "read" /\ UNCHANGED <<s1, s2, s4>> /\ WrapTyped /\ a \in Nat /\ b \in Nat
  BY DEF Wrap!ReadFrame, WrapInv, WrapTyped, WrapRuns
<1>2. WrapCopied /\ WrapNoExtras /\ s4.st = "open" /\ s1.row.body = "frames"
  BY <1>1 DEF WrapInv, WrapProgress
<1>3. CASE s3.read[Wrap!Eye] < Wrap!Length(Wrap!Eye) /\ ~Wrap!DropsShort /\ Wrap!Step("write")
  <2>1. s3'.pc = "write" /\ s3'.read = s3.read /\ s3'.extras = s3.extras /\ s3'.result = s3.result /\ s3'.count = s3.count
    BY <1>1, <1>3, WrapMoves DEF WrapPlaces
  <2>2. WrapCopied'
    <3>1. CASE s1.opt.repeat
      BY <1>1, <1>2, <2>1, <3>1, WrapSame DEF WrapCopied
    <3>2. CASE ~s1.opt.repeat /\ s1.row.eyes = 1
      <4>1. a < s2.left /\ ~(s2.short /\ a = s2.left - 1 /\ (s1.row.short = "drop" \/ s1.opt.partial))
        BY <1>3, <3>2 DEF Wrap!Eye, Wrap!Row, Wrap!Opt, Wrap!Length, Wrap!DropsShort, Wrap!IsShort
      <4>2. a < WrapWhole
        BY <1>1, <4>1, WrapFacts DEF WrapWhole
      <4>3. QED
        BY <1>1, <1>2, <2>1, <3>2, <4>2, WrapSame DEF WrapCopied
    <3>3. CASE ~s1.opt.repeat /\ s1.row.eyes # 1
      <4>1. s1.row.eyes = 2
        BY <1>1, <3>3, WrapFacts DEF WrapRow
      <4>2. IF a > b THEN b < s2.right ELSE a < s2.left
        BY <1>3, <4>1 DEF Wrap!Eye, Wrap!Row, Wrap!Length
      <4>3. QED
        BY <1>1, <1>2, <2>1, <3>3, <4>2, WrapSame DEF WrapCopied
    <3>4. QED
      BY <3>1, <3>2, <3>3
  <2>3. QED
    BY <1>1, <1>2, <2>1, <2>2 DEF WrapProgress, WrapNoExtras
<1>4. CASE (s3.read[Wrap!Eye] = Wrap!Length(Wrap!Eye) \/ Wrap!DropsShort) /\ Wrap!Step("extras")
  <2>1. s3'.pc = "extras" /\ s3'.extras = s3.extras /\ s3'.result = s3.result
    BY <1>1, <1>4, WrapMoves DEF WrapPlaces
  <2>2. WrapGathered
    BY <1>1, <1>4, WrapSourceEnds
  <2>3. WrapGathered'
    BY <1>1, <2>2, WrapSame DEF WrapGathered
  <2>4. WrapExtra'
    BY <1>1, <1>2, <2>1, WrapFacts DEF WrapExtra, WrapNoExtras
  <2>5. QED
    BY <1>1, <1>2, <2>1, <2>3, <2>4 DEF WrapProgress
<1>5. CASE Wrap!Stop("FAIL")
  BY <1>1, <1>5, WrapStops DEF WrapTyped, WrapInv
<1>6. QED
  BY <1>3, <1>4, <1>5 DEF Wrap!ReadFrame, Wrap!AfterLast, Wrap!Opt

LEMMA WrapWriteFrame ==
  ASSUME WrapInv, ~s1.opt.dry, WrapTyped', Wrap!WriteFrame
  PROVE  WrapProgress'
<1> DEFINE a == s3.read[1]
           b == s3.read[2]
           c == s3.count
           eye == Wrap!Eye
           n == IF s1.opt.repeat /\ c > 1 THEN a ELSE s3.read[eye] + 1
<1>1. s3.pc = "write" /\ UNCHANGED <<s1, s2>> /\ WrapTyped /\ a \in Nat /\ b \in Nat /\ c \in Nat /\ s3 \in WrapRuns /\ s4 \in WrapFiles
  BY DEF Wrap!WriteFrame, WrapInv, WrapTyped, WrapRuns
<1>2. WrapCopied /\ WrapNoExtras /\ s4.st = "open" /\ s1.row.body = "frames"
  BY <1>1 DEF WrapInv, WrapProgress
<1>3. CASE /\ s4' = [s4 EXCEPT !.frames = Append(@, <<eye, n>>)]
           /\ s3' = [s3 EXCEPT !.read[eye] = n, !.pc = IF eye < s1.row.eyes THEN "read" ELSE "loop"]
  <2>1. /\ s4'.frames = Append(s4.frames, <<eye, n>>) /\ s4'.st = s4.st /\ s4'.extras = s4.extras
        /\ s3'.pc = (IF eye < s1.row.eyes THEN "read" ELSE "loop")
        /\ s3'.read = [s3.read EXCEPT ![eye] = n]
        /\ s3'.count = c /\ s3'.extras = s3.extras /\ s3'.result = s3.result
    <3> HIDE DEF eye, n
    <3>1. QED
      BY <1>1, <1>3 DEF WrapRuns, WrapFiles
  <2>2. eye = IF s1.row.eyes = 2 /\ a > b THEN 2 ELSE 1
    BY DEF Wrap!Eye, Wrap!Row
  <2>3. s3'.read[1] = (IF eye = 1 THEN n ELSE a) /\ s3'.read[2] = (IF eye = 2 THEN n ELSE b)
    BY <1>1, <2>1, <2>2 DEF WrapRuns
  <2>4. WrapCopied'
    <3>1. CASE s1.opt.repeat
      <4>1. s1.row.eyes = 1 /\ eye = 1 /\ n = 1 /\ c >= 1 /\ s4.frames = WrapShown(c - 1) /\ c <= s1.opt.duration
        BY <1>1, <1>2, <2>2, <3>1, WrapFacts DEF WrapCopied, WrapRow
      <4>2. WrapNth(c) = <<1, 1>>
        BY <3>1 DEF WrapNth
      <4>3. s4'.frames = WrapShown(c)
        <5>1. c - 1 \in Nat /\ c - 1 + 1 = c
          BY <1>1, <4>1
        <5>2. Append(WrapShown(c - 1), WrapNth(c - 1 + 1)) = WrapShown(c - 1 + 1)
          BY <1>1, <5>1, WrapShownMore
        <5>3. QED
          BY <2>1, <4>1, <4>2, <5>1, <5>2
      <4>4. QED
        BY <1>1, <2>1, <2>3, <3>1, <4>1, <4>3, WrapSame DEF WrapCopied
    <3>2. CASE ~s1.opt.repeat /\ s1.row.eyes = 1
      <4>1. eye = 1 /\ n = a + 1
        BY <2>2, <3>2
      <4>2. /\ s4.frames = WrapShown(a) /\ a < WrapWhole
            /\ WrapLimited => c = a + 1 /\ c <= s1.opt.duration
        BY <1>1, <1>2, <3>2 DEF WrapCopied
      <4>3. WrapNth(a + 1) = <<1, a + 1>>
        BY <3>2 DEF WrapNth
      <4>4. s4'.frames = WrapShown(a + 1)
        BY <1>1, <2>1, <4>1, <4>2, <4>3, WrapShownMore, ZenonT(60)
      <4>5. s3'.read[1] = a + 1 /\ s3'.pc = "loop" /\ a + 1 <= WrapWhole
        BY <1>1, <2>1, <2>3, <3>2, <4>1, <4>2, WrapFacts
      <4>6. QED
        BY <1>1, <2>1, <3>2, <4>2, <4>4, <4>5, WrapSame DEF WrapCopied
    <3>3. CASE ~s1.opt.repeat /\ s1.row.eyes # 1
      <4>1. s1.row.eyes = 2
        BY <1>1, <3>3, WrapFacts DEF WrapRow
      <4>2. /\ s4.frames = WrapShown(a + b) /\ b <= a /\ a <= b + 1 /\ a <= s2.left /\ b <= s2.right
            /\ WrapLimited => c = b + 1 /\ c <= s1.opt.duration
            /\ IF a > b THEN b < s2.right ELSE a < s2.left
        BY <1>1, <1>2, <3>3 DEF WrapCopied
      <4>3. WrapNth(a + b + 1) = <<IF (a + b + 1) % 2 = 1 THEN 1 ELSE 2, (a + b + 2) \div 2>>
        BY <1>1, <3>3, <4>1 DEF WrapNth
      <4>4. WrapNth(a + b + 1) = <<eye, n>>
        <5>1. CASE a > b
          <6>1. eye = 2 /\ n = b + 1 /\ a = b + 1
            BY <1>1, <2>2, <3>3, <4>1, <4>2, <5>1
          <6>2. (a + b + 1) % 2 = 0 /\ (a + b + 2) \div 2 = b + 1
            BY <1>1, <6>1
          <6>3. QED
            BY <4>3, <6>1, <6>2
        <5>2. CASE a = b
          <6>1. eye = 1 /\ n = a + 1
            BY <1>1, <2>2, <3>3, <4>1, <5>2
          <6>2. (a + b + 1) % 2 = 1 /\ (a + b + 2) \div 2 = a + 1
            BY <1>1, <5>2
          <6>3. QED
            BY <4>3, <6>1, <6>2
        <5>3. QED
          BY <1>1, <4>2, <5>1, <5>2
      <4>5. s4'.frames = WrapShown(a + b + 1)
        <5>1. a + b \in Nat
          BY <1>1
        <5>2. Append(WrapShown(a + b), WrapNth(a + b + 1)) = WrapShown(a + b + 1)
          BY <1>1, <5>1, WrapShownMore
        <5>3. QED
          BY <2>1, <4>2, <4>4, <5>2
      <4>6. QED
        <5>1. CASE a > b
          <6>1. eye = 2 /\ n = b + 1 /\ a = b + 1
            BY <1>1, <2>2, <3>3, <4>1, <4>2, <5>1
          <6>2. s3'.read[1] = a /\ s3'.read[2] = b + 1 /\ s3'.pc = "loop"
            BY <2>1, <2>3, <4>1, <6>1
          <6>3. s4'.frames = WrapShown(s3.read[1] + s3.read[2])'
            <7>1. s3'.read[1] + s3'.read[2] = a + b + 1
              BY <1>1, <6>2
            <7>2. QED
              BY <1>1, <4>5, <7>1, WrapSame
          <6>4. /\ s3'.read[2] <= s3'.read[1] /\ s3'.read[1] <= s3'.read[2] + 1 /\ s3'.read[1] <= s2.left /\ s3'.read[2] <= s2.right
            BY <1>1, <4>2, <5>1, <6>1, <6>2, WrapFacts
          <6>5. QED
            BY <1>1, <2>1, <3>3, <4>2, <5>1, <6>1, <6>2, <6>3, <6>4, WrapSame DEF WrapCopied
        <5>2. CASE a = b
          <6>1. eye = 1 /\ n = a + 1
            BY <1>1, <2>2, <3>3, <4>1, <5>2
          <6>2. s3'.read[1] = a + 1 /\ s3'.read[2] = b /\ s3'.pc = "read"
            BY <2>1, <2>3, <4>1, <6>1
          <6>3. s4'.frames = WrapShown(s3.read[1] + s3.read[2])'
            <7>1. s3'.read[1] + s3'.read[2] = a + b + 1
              BY <1>1, <6>2
            <7>2. QED
              BY <1>1, <4>5, <7>1, WrapSame
          <6>4. /\ s3'.read[2] <= s3'.read[1] /\ s3'.read[1] <= s3'.read[2] + 1 /\ s3'.read[1] <= s2.left /\ s3'.read[2] <= s2.right
            BY <1>1, <4>2, <5>2, <6>1, <6>2, WrapFacts
          <6>5. QED
            BY <1>1, <2>1, <3>3, <4>2, <5>2, <6>1, <6>2, <6>3, <6>4, WrapSame DEF WrapCopied
        <5>3. QED
          BY <1>1, <4>2, <5>1, <5>2
    <3>4. QED
      BY <3>1, <3>2, <3>3
  <2>5. s3'.pc \in {"loop", "read", "write"}
    BY <2>1
  <2>6. QED
    BY <1>1, <1>2, <2>1, <2>4, <2>5 DEF WrapProgress, WrapNoExtras
<1>4. CASE Wrap!Stop("FAIL") /\ UNCHANGED s4
  BY <1>1, <1>4, WrapStops DEF WrapTyped, WrapInv
<1>5. QED
  BY <1>3, <1>4 DEF Wrap!WriteFrame, Wrap!Opt, Wrap!Row

LEMMA WrapWriteDocument ==
  ASSUME WrapInv, ~s1.opt.dry, WrapTyped', Wrap!WriteDocument
  PROVE  WrapProgress'
<1>1. s3.pc = "document" /\ UNCHANGED <<s1, s2>> /\ WrapTyped /\ s3 \in WrapRuns /\ s4 \in WrapFiles
  BY DEF Wrap!WriteDocument, WrapInv, WrapTyped
<1>2. WrapNoExtras /\ s4.st = "open" /\ s1.row.body = "text"
  BY <1>1 DEF WrapInv, WrapProgress
<1>3. CASE Wrap!Step("extras") /\ s4' = [s4 EXCEPT !.frames = <<<<1, 1>>>>]
  <2>1. s3'.pc = "extras" /\ s3'.extras = s3.extras /\ s3'.result = s3.result
    BY <1>1, <1>3, WrapMoves DEF WrapPlaces
  <2>2. s4'.frames = <<<<1, 1>>>> /\ s4'.st = s4.st /\ s4'.extras = s4.extras
    BY <1>1, <1>3 DEF WrapFiles
  <2>3. ~s1.opt.repeat /\ s1.row.eyes = 1 /\ WrapWhole = 1 /\ MaxFrames >= 1 /\ MaxFrames \in Nat
    BY <1>1, <1>2, WrapFacts DEF WrapRow
  <2>4. WrapAll = WrapShown(1)
    BY <1>1, <1>2, <2>3 DEF WrapAll, Wrap!Least
  <2>5. WrapShown(1) = <<<<1, 1>>>>
    <3>1. WrapNth(1) = <<1, 1>>
      BY <2>3 DEF WrapNth
    <3>2. WrapShown(1) = [i \in 1 .. 1 |-> WrapNth(i)]
      BY DEF WrapShown
    <3>3. \A x : [i \in 1 .. 1 |-> x] = <<x>>
      OBVIOUS
    <3>4. [i \in 1 .. 1 |-> WrapNth(i)] = [i \in 1 .. 1 |-> <<1, 1>>]
      BY <3>1
    <3>5. QED
      BY <3>2, <3>3, <3>4
  <2>6. WrapGathered'
    BY <1>1, <2>2, <2>4, <2>5, WrapSame DEF WrapGathered
  <2>7. WrapExtra'
    BY <1>1, <1>2, <2>1, <2>2, WrapFacts DEF WrapExtra, WrapNoExtras
  <2>8. QED
    BY <1>2, <2>1, <2>2, <2>6, <2>7 DEF WrapProgress
<1>4. CASE Wrap!Stop("FAIL") /\ UNCHANGED s4
  BY <1>1, <1>4, WrapStops DEF WrapTyped, WrapInv
<1>5. QED
  BY <1>3, <1>4 DEF Wrap!WriteDocument

LEMMA WrapExtras ==
  ASSUME WrapInv, ~s1.opt.dry, WrapTyped', Wrap!WriteResource \/ Wrap!WriteText
  PROVE  WrapProgress'
<1>1. s3.pc = "extras" /\ UNCHANGED <<s1, s2>> /\ WrapTyped /\ s3 \in WrapRuns /\ s4 \in WrapFiles /\ s3.extras \in 0 .. MaxExtras
      /\ MaxExtras \in Nat
  BY WrapFacts DEF Wrap!WriteResource, Wrap!WriteText, WrapInv, WrapTyped, WrapRuns
<1>2. WrapGathered /\ WrapExtra /\ s4.st = "open" /\ s3.extras < s2.extras
  BY <1>1 DEF WrapInv, WrapProgress, Wrap!WriteResource, Wrap!WriteText
<1>3. WrapGathered' <=> s4'.frames = WrapAll \/ (s1.row.eyes = 2 /\ Len(s4'.frames) % 2 # 0)
  BY <1>1, WrapSame DEF WrapGathered
<1>4. CASE Wrap!Stop("FAIL") /\ UNCHANGED s4
  BY <1>1, <1>4, WrapStops DEF WrapTyped, WrapInv
<1>5. CASE Wrap!WriteResource /\ s4' = [s4 EXCEPT !.extras = @ \cup {Wrap!Next1}] /\ s3' = [s3 EXCEPT !.extras = Wrap!Next1]
  <2>1. s4'.st = "open" /\ s4'.frames = s4.frames /\ s4'.extras = s4.extras \cup {s3.extras + 1}
    BY <1>1, <1>2, <1>5 DEF WrapFiles, Wrap!Next1
  <2>2. s3'.pc = "extras" /\ s3'.extras = s3.extras + 1 /\ s1.row.extras = "resources"
    BY <1>1, <1>5 DEF WrapRuns, Wrap!Next1, Wrap!WriteResource, Wrap!Row
  <2>3. s4'.extras = 1 .. s3'.extras
    BY <1>1, <1>2, <2>1, <2>2 DEF WrapExtra
  <2>4. s3'.extras <= s2.extras
    BY <1>1, <1>2, <2>2, WrapFacts
  <2>5. QED
    BY <1>1, <1>2, <1>3, <2>1, <2>2, <2>3, <2>4 DEF WrapProgress, WrapExtra, WrapGathered
<1>6. CASE /\ Wrap!WriteText /\ s3'.pc = "extras" /\ s3'.extras = s3.extras + 1
           /\ s4'.st = "open" /\ s4'.frames = s4.frames
           /\ s3'.result = "OK" => s3.extras + 1 \in s4'.extras
  <2>1. s1.row.extras = "texts" /\ s3'.extras <= s2.extras
    BY <1>1, <1>2, <1>6, WrapFacts DEF Wrap!WriteText, Wrap!Row
  <2>2. QED
    BY <1>1, <1>2, <1>3, <1>6, <2>1 DEF WrapProgress, WrapExtra, WrapGathered
<1>7. ASSUME Wrap!WriteText, ~(Wrap!Stop("FAIL") /\ UNCHANGED s4)
      PROVE  /\ s3'.pc = "extras" /\ s3'.extras = s3.extras + 1
             /\ s4'.st = "open" /\ s4'.frames = s4.frames
             /\ s3'.result = "OK" => s3.extras + 1 \in s4'.extras
  <2>1. CASE s4' = [s4 EXCEPT !.extras = @ \cup {Wrap!Next1}] /\ s3' = [s3 EXCEPT !.extras = Wrap!Next1, !.result = "OK"]
    <3>1. s3'.pc = "extras" /\ s3'.extras = s3.extras + 1
      BY <1>1, <2>1 DEF Wrap!Next1, WrapRuns
    <3>2. s4'.st = "open" /\ s4'.frames = s4.frames /\ s4'.extras = s4.extras \cup {s3.extras + 1}
      BY <1>1, <1>2, <2>1 DEF Wrap!Next1, WrapFiles
    <3>3. QED
      BY <3>1, <3>2
  <2>2. CASE s4' = s4 /\ s3' = [s3 EXCEPT !.extras = Wrap!Next1, !.result = "FAIL"]
    <3>1. s3'.pc = "extras" /\ s3'.extras = s3.extras + 1 /\ s3'.result = "FAIL"
      BY <1>1, <2>2 DEF Wrap!Next1, WrapRuns
    <3>2. QED
      BY <1>2, <2>2, <3>1
  <2>3. QED
    BY <1>7, <2>1, <2>2 DEF Wrap!WriteText
<1>8. QED
  BY <1>4, <1>5, <1>6, <1>7 DEF Wrap!WriteResource, Wrap!Opt

LEMMA WrapFinalize ==
  ASSUME WrapInv, ~s1.opt.dry, WrapTyped', Wrap!Finalize
  PROVE  WrapProgress'
<1>1. s3.pc = "extras" /\ UNCHANGED <<s1, s2>> /\ WrapTyped /\ s3 \in WrapRuns /\ s4 \in WrapFiles
  BY DEF Wrap!Finalize, WrapInv, WrapTyped
<1>2. WrapGathered /\ WrapExtra /\ s4.st = "open"
  BY <1>1 DEF WrapInv, WrapProgress
<1>3. CASE Wrap!Stop("FAIL") /\ UNCHANGED s4
  BY <1>1, <1>3, WrapStops DEF WrapTyped, WrapInv
<1>4. CASE /\ s3.result = "OK" /\ Len(s4.frames) % s1.row.eyes = 0
           /\ Wrap!Stop("OK") /\ s4' = [s4 EXCEPT !.st = "final"]
  <2>1. s4'.st = "final" /\ s4'.frames = s4.frames /\ s4'.extras = s4.extras
    BY <1>1, <1>4 DEF WrapFiles
  <2>2. s3'.pc = "exit" /\ s3'.result = "OK"
    BY <1>1, <1>4 DEF WrapRuns, Wrap!Stop
  <2>3. s3.extras = s2.extras
    BY <1>1 DEF Wrap!Finalize, Wrap!ExtrasDone, Wrap!Opt
  <2>4. s1.opt.start = 0 => \E kept \in BOOLEAN : s4'.frames = Wrap!Promised(kept)'
    BY <1>1, <1>2, <1>4, <2>1, WrapPromised, WrapSame DEF WrapGathered
  <2>5. Wrap!WrapComplete'
    BY <1>1, <1>2, <1>4, <2>1, <2>2, <2>3, <2>4 DEF Wrap!WrapComplete, Wrap!Row, Wrap!Opt, WrapExtra
  <2>6. QED
    BY <2>2, <2>5 DEF WrapProgress
<1>5. QED
  BY <1>3, <1>4 DEF Wrap!Finalize, Wrap!Opt, Wrap!Row

LEMMA WrapBefore ==
  ASSUME WrapInv, ~s1.opt.dry, WrapTyped', Wrap!OpenRead \/ Wrap!Describe \/ Wrap!OpenWrite \/ Wrap!Reset
  PROVE  WrapProgress'
<1>1. /\ s3.pc \in {"open", "describe", "openwrite", "reset"} /\ UNCHANGED <<s1, s2>> /\ WrapTyped /\ s3 \in WrapRuns /\ s4 \in WrapFiles
  BY DEF Wrap!OpenRead, Wrap!Describe, Wrap!OpenWrite, Wrap!Reset, WrapInv, WrapTyped
<1>2. WrapFresh /\ WrapNoExtras /\ s4.st = (IF s3.pc = "reset" THEN "open" ELSE "none")
  BY <1>1 DEF WrapInv, WrapProgress
<1>3. \A p \in WrapPlaces : Wrap!Step(p) =>
        s3'.pc = p /\ s3'.result = s3.result /\ s3'.read = s3.read /\ s3'.count = s3.count /\ s3'.extras = s3.extras
  BY <1>1, WrapMoves
<1>4. CASE Wrap!Stop("FAIL") /\ (s4' = s4 \/ s4'.st = "open")
  BY <1>1, <1>4, WrapStops DEF WrapTyped, WrapInv
<1>5. CASE Wrap!OpenRead
  BY <1>2, <1>3, <1>4, <1>5 DEF Wrap!OpenRead, WrapProgress, WrapFresh, WrapNoExtras, WrapPlaces
<1>6. CASE Wrap!Describe
  BY <1>2, <1>3, <1>4, <1>6 DEF Wrap!Describe, Wrap!Opt, WrapProgress, WrapFresh, WrapNoExtras, WrapPlaces
<1>7. CASE Wrap!OpenWrite
  <2>1. s4' = [s4 EXCEPT !.st = "open"] => s4'.st = "open" /\ s4'.frames = s4.frames /\ s4'.extras = s4.extras
    BY <1>1 DEF WrapFiles
  <2>2. QED
    BY <1>2, <1>3, <1>4, <1>7, <2>1 DEF Wrap!OpenWrite, WrapProgress, WrapFresh, WrapNoExtras, WrapPlaces
<1>8. CASE Wrap!Reset
  <2>1. s3.pc = "reset" /\ s4.st = "open" /\ s4' = s4
    BY <1>2, <1>8 DEF Wrap!Reset
  <2>2. s1.row.body \in {"frames", "text"}
    BY <1>1, WrapFacts DEF WrapRow
  <2>3. CASE s1.row.body = "text" /\ Wrap!Step("document")
    BY <1>1, <1>2, <1>3, <2>1, <2>3 DEF WrapProgress, WrapFresh, WrapNoExtras, WrapPlaces
  <2>4. CASE s1.row.body # "text" /\ Wrap!Step("loop")
    <3>1. s3'.pc = "loop" /\ (s1.row.body = "frames")' /\ (s4.st = "open")' /\ WrapFresh' /\ WrapNoExtras'
      BY <1>1, <1>2, <1>3, <2>1, <2>2, <2>4 DEF WrapFresh, WrapNoExtras, WrapPlaces
    <3>2. QED
      BY <3>1, WrapStartsNext
  <2>5. QED
    BY <1>4, <1>8, <2>1, <2>3, <2>4 DEF Wrap!Reset, Wrap!Row
<1>9. QED
  BY <1>5, <1>6, <1>7, <1>8

LEMMA WrapNext == WrapInv /\ [Wrap!Next]_<<s1, s2, s3, s4>> => WrapInv'
<1>1. CASE UNCHANGED <<s1, s2, s3, s4>>
  <2>1. WrapTyped => WrapTyped'
    BY <1>1 DEF WrapTyped
  <2>2. WrapProgress => WrapProgress'
    <3>1. WrapCopied => WrapCopied'
      BY <1>1, WrapSame DEF WrapCopied
    <3>2. WrapGathered => WrapGathered'
      BY <1>1, WrapSame DEF WrapGathered
    <3>3. Wrap!WrapComplete => Wrap!WrapComplete'
      BY <1>1, WrapSame DEF Wrap!WrapComplete, Wrap!Row, Wrap!Opt
    <3>4. QED
      BY <1>1, <3>1, <3>2, <3>3 DEF WrapProgress, WrapFresh, WrapNoExtras, WrapExtra
  <2>3. QED
    BY <1>1, <2>1, <2>2 DEF WrapInv
<1>2. ASSUME WrapInv, Wrap!Next
      PROVE  WrapInv'
  <2>1. WrapTyped' /\ UNCHANGED <<s1, s2>>
    BY <1>2, WrapTypedNext DEF WrapInv, Wrap!Next, Wrap!Proceed, Wrap!Exit, Wrap!vars, Wrap!OpenRead, Wrap!Describe,
         Wrap!OpenWrite, Wrap!Reset, Wrap!Loop, Wrap!ReadFrame, Wrap!WriteFrame, Wrap!WriteDocument, Wrap!WriteResource,
         Wrap!WriteText, Wrap!Finalize
  <2>2. ASSUME ~s1.opt.dry PROVE WrapProgress'
    <3>1. CASE Wrap!OpenRead \/ Wrap!Describe \/ Wrap!OpenWrite \/ Wrap!Reset
      BY <1>2, <2>1, <2>2, <3>1, WrapBefore
    <3>2. CASE Wrap!Loop
      BY <1>2, <2>1, <2>2, <3>2, WrapLoop
    <3>3. CASE Wrap!ReadFrame
      BY <1>2, <2>1, <2>2, <3>3, WrapReadFrame
    <3>4. CASE Wrap!WriteFrame
      BY <1>2, <2>1, <2>2, <3>4, WrapWriteFrame
    <3>5. CASE Wrap!WriteDocument
      BY <1>2, <2>1, <2>2, <3>5, WrapWriteDocument
    <3>6. CASE Wrap!WriteResource \/ Wrap!WriteText
      BY <1>2, <2>1, <2>2, <3>6, WrapExtras
    <3>7. CASE Wrap!Finalize
      BY <1>2, <2>1, <2>2, <3>7, WrapFinalize
    <3>8. CASE Wrap!Exit
      BY <1>1, <1>2, <2>2, <3>8 DEF Wrap!Exit, Wrap!vars, WrapInv
    <3>9. QED
      BY <1>2, <3>1, <3>2, <3>3, <3>4, <3>5, <3>6, <3>7, <3>8 DEF Wrap!Next, Wrap!Proceed
  <2>3. QED
    BY <2>1, <2>2 DEF WrapInv
<1>3. QED
  BY <1>1, <1>2

\* In every behaviour a writing program that exits with 0 leaves a finalized file with
\* every frame that its source and -d promise, in order, both eyes of each, and its
\* resources; one that does not leaves no finalized file (asdcp-wrap.cpp, as-02-wrap.cpp
\* and their like: the loop of each write_ function, and what ends it). Of a run with
\* -f the frames are left open, and whether an incomplete last frame is there.
THEOREM WrapCompleteHolds == Spec => []WrapComplete
<1> DEFINE Inv == part = "wrap" => WrapInv
<1>1. Init => Inv
  BY WrapInit DEF Init
<1>2. Inv /\ [Next]_vars => Inv'
  BY Parts, WrapNext
<1>3. Inv => WrapComplete
  BY DEF WrapComplete, WrapInv, WrapProgress, Wrap!WrapComplete, Wrap!Opt
<1> HIDE DEF Inv
<1>4. QED
  BY <1>1, <1>2, <1>3, PTL DEF Spec

-----------------------------------------------------------------------------
(* UnwrapTools: its job is s1, where it is s2 and what it has extracted s3. The
   frames extracted are the first of those selected, up to where the program is; it
   stops where the selection does. *)

UnwrapRow(row) ==
  /\ row.eyes \in {1, 2} /\ row.range \in {"clamp", "checked", "reduced", "document"}
  /\ row.items \in {"none", "resources", "targets"}
  /\ row.range \in {"document", "checked", "reduced"} => row.eyes = 1
  /\ row.to = "wave" => row.range \in {"checked", "reduced"} /\ row.items = "none"
  /\ row.items = "targets" => row.range = "clamp" /\ row.eyes = 1
  /\ row.items = "resources" => row.range = "document"
  /\ ~row.checked => row.to = "wave"

LEMMA UnwrapRowsHold == \A row \in Unwrap!Unwrappers : UnwrapRow(row)
<1>1. UnwrapRow(Unwrap!read_MPEG2_file)
  BY DEF UnwrapRow, Unwrap!read_MPEG2_file, Unwrap!Pictures
<1>2. UnwrapRow(Unwrap!gop_start_test)
  BY DEF UnwrapRow, Unwrap!gop_start_test, Unwrap!Pictures
<1>3. UnwrapRow(Unwrap!read_JP2K_S_file)
  BY DEF UnwrapRow, Unwrap!read_JP2K_S_file, Unwrap!Pictures
<1>4. UnwrapRow(Unwrap!read_JP2K_file)
  BY DEF UnwrapRow, Unwrap!read_JP2K_file, Unwrap!Pictures
<1>5. UnwrapRow(Unwrap!read_PCM_file)
  BY DEF UnwrapRow, Unwrap!read_PCM_file, Unwrap!Pictures
<1>6. UnwrapRow(Unwrap!read_timed_text_file)
  BY DEF UnwrapRow, Unwrap!read_timed_text_file, Unwrap!Pictures
<1>7. UnwrapRow(Unwrap!read_DCData_file)
  BY DEF UnwrapRow, Unwrap!read_DCData_file, Unwrap!Pictures
<1>8. UnwrapRow(Unwrap!test_read_MPEG2_file)
  BY DEF UnwrapRow, Unwrap!test_read_MPEG2_file, Unwrap!read_MPEG2_file, Unwrap!Pictures
<1>9. UnwrapRow(Unwrap!test_gop_start_test)
  BY DEF UnwrapRow, Unwrap!test_gop_start_test, Unwrap!gop_start_test, Unwrap!Pictures
<1>10. UnwrapRow(Unwrap!test_read_JP2K_S_file)
  BY DEF UnwrapRow, Unwrap!test_read_JP2K_S_file, Unwrap!read_JP2K_S_file, Unwrap!Pictures
<1>11. UnwrapRow(Unwrap!test_read_JP2K_file)
  BY DEF UnwrapRow, Unwrap!test_read_JP2K_file, Unwrap!read_JP2K_file, Unwrap!Pictures
<1>12. UnwrapRow(Unwrap!test_read_PCM_file)
  BY DEF UnwrapRow, Unwrap!test_read_PCM_file, Unwrap!read_PCM_file, Unwrap!Pictures
<1>13. UnwrapRow(Unwrap!test_read_timed_text_file)
  BY DEF UnwrapRow, Unwrap!test_read_timed_text_file, Unwrap!read_timed_text_file, Unwrap!Pictures
<1>14. UnwrapRow(Unwrap!as02_read_JP2K_file)
  BY DEF UnwrapRow, Unwrap!as02_read_JP2K_file, Unwrap!Pictures
<1>15. UnwrapRow(Unwrap!as02_read_ACES_file)
  BY DEF UnwrapRow, Unwrap!as02_read_ACES_file, Unwrap!as02_read_JP2K_file, Unwrap!Pictures
<1>16. UnwrapRow(Unwrap!as02_read_PCM_file)
  BY DEF UnwrapRow, Unwrap!as02_read_PCM_file, Unwrap!Pictures
<1>17. UnwrapRow(Unwrap!as02_read_timed_text_file)
  BY DEF UnwrapRow, Unwrap!as02_read_timed_text_file, Unwrap!read_timed_text_file, Unwrap!Pictures
<1>18. UnwrapRow(Unwrap!read_isxd_file)
  BY DEF UnwrapRow, Unwrap!read_isxd_file, Unwrap!Pictures
<1>19. UnwrapRow(Unwrap!extract_generic_stream_partition_payload)
  BY DEF UnwrapRow, Unwrap!extract_generic_stream_partition_payload, Unwrap!read_timed_text_file, Unwrap!Pictures
<1>20. UnwrapRow(Unwrap!read_iab_file)
  BY DEF UnwrapRow, Unwrap!read_iab_file, Unwrap!Pictures
<1>21. UnwrapRow(Unwrap!phdr_read_JP2K_file)
  BY DEF UnwrapRow, Unwrap!phdr_read_JP2K_file, Unwrap!as02_read_JP2K_file, Unwrap!Pictures
<1>22. \A kind \in DOMAIN Unwrap!asdcp_unwrap_main : UnwrapRow(Unwrap!asdcp_unwrap_main[kind])
  BY <1>1, <1>2, <1>3, <1>4, <1>5, <1>6, <1>7, <1>8, <1>9, <1>10, <1>11, <1>12, <1>13, <1>14, <1>15, <1>16, <1>17, <1>18, <1>19, <1>20, <1>21 DEF Unwrap!asdcp_unwrap_main
<1>23. \A kind \in DOMAIN Unwrap!asdcp_test_main : UnwrapRow(Unwrap!asdcp_test_main[kind])
  BY <1>1, <1>2, <1>3, <1>4, <1>5, <1>6, <1>7, <1>8, <1>9, <1>10, <1>11, <1>12, <1>13, <1>14, <1>15, <1>16, <1>17, <1>18, <1>19, <1>20, <1>21 DEF Unwrap!asdcp_test_main
<1>24. \A kind \in DOMAIN Unwrap!as_02_unwrap_main : UnwrapRow(Unwrap!as_02_unwrap_main[kind])
  BY <1>1, <1>2, <1>3, <1>4, <1>5, <1>6, <1>7, <1>8, <1>9, <1>10, <1>11, <1>12, <1>13, <1>14, <1>15, <1>16, <1>17, <1>18, <1>19, <1>20, <1>21 DEF Unwrap!as_02_unwrap_main
<1>25. \A kind \in DOMAIN Unwrap!phdr_unwrap_main : UnwrapRow(Unwrap!phdr_unwrap_main[kind])
  BY <1>1, <1>2, <1>3, <1>4, <1>5, <1>6, <1>7, <1>8, <1>9, <1>10, <1>11, <1>12, <1>13, <1>14, <1>15, <1>16, <1>17, <1>18, <1>19, <1>20, <1>21 DEF Unwrap!phdr_unwrap_main
<1>26. QED
  BY <1>22, <1>23, <1>24, <1>25 DEF Unwrap!Unwrappers

UnwrapPlaces == {"open", "prepare", "copy", "document", "resources", "list", "targets", "exit"}

UnwrapRuns ==
  [pc : UnwrapPlaces, result : {"OK", "FAIL"}, next : Nat, eye : {1, 2}, item : 0 .. MaxItems, failed : BOOLEAN]
UnwrapOuts ==
  [frames : Seq(Nat \X Nat), items : SUBSET (1 .. MaxItems), declared : Int, headers : BOOLEAN]

UnwrapTyped ==
  /\ s1.row \in Unwrap!Unwrappers /\ s1.opt \in Unwrap!Options(s1.row) /\ s1.file \in Unwrap!Files(s1.row)
  /\ s2 \in UnwrapRuns
  /\ s3 \in UnwrapOuts

\* What -f and -d select ends before this frame, and the first k frames and eyes of it
UnwrapEnd ==
  LET total == IF s1.row.range = "document" THEN 1 ELSE Unwrap!FrameCount
  IN  Unwrap!Least(s1.opt.start + (IF s1.opt.duration \in {0, Unwrap!All} THEN total ELSE s1.opt.duration), total)

UnwrapCount == IF UnwrapEnd > s1.opt.start THEN UnwrapEnd - s1.opt.start ELSE 0

UnwrapShown(k) ==
  [i \in 1 .. k |-> <<s1.opt.start + (i - 1) \div s1.row.eyes, 1 + ((i - 1) % s1.row.eyes)>>]

\* Where the frames that -f and -d select are promised
UnwrapPromises ==
  \/ s1.opt.start = 0
  \/ s1.row.range = "checked"
  \/ s1.row.range = "clamp" /\ s1.opt.duration # Unwrap!All

UnwrapFresh == s3.frames = <<>> /\ s2.next = s1.opt.start /\ s2.eye = 1
UnwrapNoItems == s3.items = {} /\ s2.item = 0

UnwrapCopied ==
  /\ s2.eye <= s1.row.eyes /\ s2.next >= s1.opt.start
  /\ s2.next > s1.opt.start => s2.next <= Unwrap!LastFrame
  /\ s2.eye > 1 => s2.next < Unwrap!LastFrame
  /\ s3.frames = UnwrapShown((s2.next - s1.opt.start) * s1.row.eyes + s2.eye - 1)

UnwrapDeclared == s1.row.to = "wave" /\ s3.headers /\ UnwrapPromises => s3.declared = UnwrapCount

UnwrapGathered == UnwrapPromises /\ ~s2.failed => s3.frames = Unwrap!Selected

UnwrapProgress ==
  \/ s2.pc = "open" /\ UnwrapFresh /\ UnwrapNoItems
  \/ s2.pc = "prepare" /\ UnwrapFresh /\ UnwrapNoItems /\ ~Unwrap!StartRefused
  \/ s2.pc = "copy" /\ UnwrapCopied /\ UnwrapNoItems /\ UnwrapDeclared /\ s1.row.range # "document"
  \/ s2.pc = "document" /\ UnwrapNoItems /\ s1.row.range = "document"
  \/ s2.pc = "resources" /\ s3.frames = Unwrap!Selected /\ s1.row.range = "document" /\ s3.items = 1 .. s2.item
  \/ s2.pc = "list" /\ UnwrapGathered /\ UnwrapNoItems /\ s1.row.items = "targets"
  \/ s2.pc = "targets" /\ UnwrapGathered /\ s1.row.items = "targets" /\ (~s2.failed => s3.items = 1 .. s2.item)
  \/ s2.pc = "exit" /\ Unwrap!UnwrapComplete

UnwrapInv == UnwrapTyped /\ (s1.opt.dry \/ UnwrapProgress)

LEMMA UnwrapFacts ==
  ASSUME UnwrapTyped
  PROVE  /\ UnwrapRow(s1.row) /\ MaxLength \in Nat \ {0} /\ MaxItems \in Nat
         /\ Words \in Nat /\ Words > 2 * MaxLength + 2 /\ Unwrap!All = Words - 1
         /\ s1.opt.start \in 0 .. MaxLength + 1 /\ s1.opt.dry \in BOOLEAN
         /\ s1.opt.duration \in 0 .. MaxLength \/ s1.opt.duration = Unwrap!All
         /\ s1.row.range = "document" => s1.opt.start = 0 /\ s1.opt.duration = Unwrap!All
         /\ s1.file.length \in 1 .. MaxLength /\ s1.file.items \in 0 .. MaxItems
         /\ s1.row.items = "none" => s1.file.items = 0
         /\ Unwrap!FrameCount \in 0 .. MaxLength
<1>1. MaxLength \in Nat \ {0} /\ MaxItems \in Nat /\ Words \in Nat /\ Words > 2 * MaxLength + 2
  BY ComponentsAssumption DEF Unwrap!UnwrapAssumption
<1>2. UnwrapRow(s1.row)
  BY UnwrapRowsHold DEF UnwrapTyped
<1>3. /\ s1.opt \in [start : 0 .. MaxLength + 1, duration : 0 .. MaxLength \cup {Unwrap!All}, dry : BOOLEAN]
      /\ s1.opt.dry \/ s1.row.range = "document" => s1.opt.start = 0 /\ s1.opt.duration = Unwrap!All
  BY DEF UnwrapTyped, Unwrap!Options
<1>4. /\ s1.file \in [length : 1 .. MaxLength, given : SUBSET {"descriptor", "index", "clip"}, items : 0 .. MaxItems]
      /\ s1.row.items = "none" => s1.file.items = 0
  BY DEF UnwrapTyped, Unwrap!Files
<1>5. \A where : Unwrap!Given(where) \in 0 .. MaxLength
  BY <1>1, <1>4 DEF Unwrap!Given
<1>6. Unwrap!LengthKnown \in 0 .. MaxLength
  BY <1>5 DEF Unwrap!LengthKnown, Unwrap!FirstOf
<1>7. Unwrap!FrameCount \in 0 .. MaxLength
  BY <1>5, <1>6 DEF Unwrap!FrameCount
<1>8. QED
  BY <1>1, <1>2, <1>3, <1>4, <1>7 DEF Unwrap!All

LEMMA UnwrapSelected ==
  ASSUME UnwrapTyped
  PROVE  /\ Unwrap!Selected = UnwrapShown(UnwrapCount * s1.row.eyes)
         /\ UnwrapCount \in Nat
         /\ s1.row.range = "document" => UnwrapCount = 1
<1>1. Unwrap!Selected = UnwrapShown(UnwrapCount * s1.row.eyes)
  BY DEF Unwrap!Selected, UnwrapShown, UnwrapCount, UnwrapEnd, Unwrap!Row, Unwrap!Opt
<1>2. UnwrapEnd \in Nat /\ (s1.row.range = "document" => UnwrapEnd = 1)
  BY UnwrapFacts DEF UnwrapEnd, Unwrap!Least
<1>3. QED
  BY <1>1, <1>2, UnwrapFacts DEF UnwrapCount

LEMMA UnwrapModulo ==
  ASSUME NEW k \in Nat, NEW w \in Nat, k < w
  PROVE  k % w = k
  OBVIOUS

\* The loop stops where the selection does.
LEMMA UnwrapStopsThere ==
  ASSUME UnwrapTyped, UnwrapPromises, s1.row.range # "document"
  PROVE  Unwrap!LastFrame = UnwrapEnd
<1> DEFINE start == s1.opt.start
           duration == s1.opt.duration
           total == Unwrap!FrameCount
<1>1. /\ start \in Nat /\ start <= MaxLength + 1 /\ duration \in Nat /\ total \in Nat /\ total <= MaxLength
      /\ duration <= MaxLength \/ duration = Words - 1
      /\ MaxLength \in Nat /\ Words \in Nat /\ Words > 2 * MaxLength + 2 /\ Unwrap!All = Words - 1
  BY UnwrapFacts
<1>2. UnwrapEnd = Unwrap!Least(start + (IF duration \in {0, Words - 1} THEN total ELSE duration), total)
  BY <1>1 DEF UnwrapEnd
<1>3. \A k \in Nat : k < Words => k % Words = k
  BY <1>1, UnwrapModulo
<1>4. Unwrap!Reduced = IF duration > 0 THEN Unwrap!Least(duration, total) ELSE total
  BY DEF Unwrap!Reduced, Unwrap!Opt
<1>5. CASE s1.row.range = "clamp"
  <2>1. Unwrap!LastFrame = Unwrap!Least((start + Unwrap!FirstOf(duration, total)) % Words, total)
    BY <1>5 DEF Unwrap!LastFrame, Unwrap!Row, Unwrap!Opt
  <2>2. start = 0 \/ duration # Words - 1
    BY <1>1, <1>5 DEF UnwrapPromises
  <2>3. start + Unwrap!FirstOf(duration, total) \in Nat /\ start + Unwrap!FirstOf(duration, total) < Words
    BY <1>1, <2>2 DEF Unwrap!FirstOf
  <2>4. Unwrap!LastFrame = Unwrap!Least(start + Unwrap!FirstOf(duration, total), total)
    BY <1>3, <2>1, <2>3
  <2>5. QED
    BY <1>1, <1>2, <2>2, <2>4 DEF Unwrap!Least, Unwrap!FirstOf
<1>6. CASE s1.row.range = "checked"
  <2>1. Unwrap!LastFrame = Unwrap!Least((start + Unwrap!Reduced) % Words, total)
    BY <1>6 DEF Unwrap!LastFrame, Unwrap!Row, Unwrap!Opt
  <2>2. start + Unwrap!Reduced \in Nat /\ start + Unwrap!Reduced < Words
    BY <1>1, <1>4 DEF Unwrap!Least
  <2>3. Unwrap!LastFrame = Unwrap!Least(start + Unwrap!Reduced, total)
    BY <1>3, <2>1, <2>2
  <2>4. QED
    BY <1>1, <1>2, <1>4, <2>3 DEF Unwrap!Least
<1>7. CASE s1.row.range = "reduced"
  <2>1. Unwrap!LastFrame = Unwrap!Reduced - start
    BY <1>7 DEF Unwrap!LastFrame, Unwrap!Row, Unwrap!Opt
  <2>2. start = 0
    BY <1>7 DEF UnwrapPromises
  <2>3. QED
    BY <1>1, <1>2, <1>4, <2>1, <2>2 DEF Unwrap!Least
<1>8. QED
  BY <1>5, <1>6, <1>7, UnwrapFacts DEF UnwrapRow

LEMMA UnwrapSame ==
  UNCHANGED s1 =>
    /\ \A k : UnwrapShown(k)' = UnwrapShown(k)
    /\ Unwrap!Selected' = Unwrap!Selected /\ UnwrapCount' = UnwrapCount
    /\ Unwrap!LastFrame' = Unwrap!LastFrame /\ Unwrap!StartRefused' = Unwrap!StartRefused
    /\ UnwrapPromises' = UnwrapPromises
<1> SUFFICES ASSUME UNCHANGED s1
      PROVE  /\ \A k : UnwrapShown(k)' = UnwrapShown(k)
             /\ Unwrap!Selected' = Unwrap!Selected /\ UnwrapCount' = UnwrapCount
             /\ Unwrap!LastFrame' = Unwrap!LastFrame /\ Unwrap!StartRefused' = Unwrap!StartRefused
             /\ UnwrapPromises' = UnwrapPromises
  OBVIOUS
<1>1. \A k : UnwrapShown(k)' = UnwrapShown(k)
  BY DEF UnwrapShown
<1>2. \A where : Unwrap!Given(where)' = Unwrap!Given(where)
  BY DEF Unwrap!Given
<1>3. Unwrap!LengthKnown' = Unwrap!LengthKnown
  BY <1>2 DEF Unwrap!LengthKnown, Unwrap!Row
<1>4. Unwrap!FrameCount' = Unwrap!FrameCount
  BY <1>2, <1>3 DEF Unwrap!FrameCount, Unwrap!Row
<1>5. Unwrap!Reduced' = Unwrap!Reduced
  BY <1>4 DEF Unwrap!Reduced, Unwrap!Opt
<1>6. Unwrap!LastFrame' = Unwrap!LastFrame /\ Unwrap!StartRefused' = Unwrap!StartRefused
  BY <1>4, <1>5 DEF Unwrap!LastFrame, Unwrap!StartRefused, Unwrap!Row, Unwrap!Opt
<1>7. UnwrapCount' = UnwrapCount
  BY <1>4 DEF UnwrapCount, UnwrapEnd
<1>8. Unwrap!Selected' = Unwrap!Selected
  BY <1>4 DEF Unwrap!Selected, Unwrap!Row, Unwrap!Opt
<1>9. UnwrapPromises' = UnwrapPromises
  BY DEF UnwrapPromises
<1>10. QED
  BY <1>1, <1>6, <1>7, <1>8, <1>9

LEMMA UnwrapShownMore ==
  ASSUME UnwrapTyped, NEW k \in Nat
  PROVE  /\ UnwrapShown(k) \in Seq(Nat \X Nat) /\ Len(UnwrapShown(k)) = k
         /\ Append(UnwrapShown(k), <<s1.opt.start + k \div s1.row.eyes, 1 + (k % s1.row.eyes)>>) = UnwrapShown(k + 1)
<1> DEFINE e(i) == <<s1.opt.start + (i - 1) \div s1.row.eyes, 1 + ((i - 1) % s1.row.eyes)>>
<1>1. \A i \in Nat \ {0} : e(i) \in Nat \X Nat
  <2>1. s1.opt.start \in Nat /\ s1.row.eyes \in {1, 2}
    BY UnwrapFacts DEF UnwrapRow
  <2>2. \A x \in Nat, w \in {1, 2} : \A i \in Nat \ {0} : x + (i - 1) \div w \in Nat /\ 1 + ((i - 1) % w) \in Nat
    OBVIOUS
  <2>3. QED
    BY <2>1, <2>2
<1>2. e(k + 1) = <<s1.opt.start + k \div s1.row.eyes, 1 + (k % s1.row.eyes)>>
  OBVIOUS
<1>3. UnwrapShown(k) = [i \in 1 .. k |-> e(i)] /\ UnwrapShown(k + 1) = [i \in 1 .. k + 1 |-> e(i)]
  BY DEF UnwrapShown
<1> HIDE DEF e
<1>4. Append([i \in 1 .. k |-> e(i)], e(k + 1)) = [i \in 1 .. k + 1 |-> e(i)]
  OBVIOUS
<1>5. QED
  BY <1>1, <1>2, <1>3, <1>4

\* What the updates of the actions do to a record
LEMMA UnwrapRunUpdates ==
  \A r \in UnwrapRuns :
    /\ \A p \in UnwrapPlaces : [r EXCEPT !.pc = p] \in UnwrapRuns
    /\ \A p \in UnwrapPlaces : [r EXCEPT !.pc = p, !.failed = TRUE] \in UnwrapRuns
    /\ \A o \in {"OK", "FAIL"} : \A p \in UnwrapPlaces : [r EXCEPT !.pc = p, !.result = o] \in UnwrapRuns
    /\ \A o \in {"OK", "FAIL"} : \A p \in UnwrapPlaces : [r EXCEPT !.pc = p, !.result = o, !.failed = TRUE] \in UnwrapRuns
    /\ \A e \in {1, 2} : [r EXCEPT !.eye = e] \in UnwrapRuns
    /\ \A n \in Nat : \A e \in {1, 2} : [r EXCEPT !.next = n, !.eye = e] \in UnwrapRuns
    /\ \A x \in 0 .. MaxItems : [r EXCEPT !.item = x] \in UnwrapRuns
    /\ \A x \in 0 .. MaxItems : \A o \in {"OK", "FAIL"} : [r EXCEPT !.item = x, !.result = o] \in UnwrapRuns
    /\ \A x \in 0 .. MaxItems : \A o \in {"OK", "FAIL"} : [r EXCEPT !.item = x, !.result = o, !.failed = TRUE] \in UnwrapRuns
<1> DEFINE Places == UnwrapPlaces
           Results == {"OK", "FAIL"}
           Eyes == {1, 2}
           Items == 0 .. MaxItems
<1>1. UnwrapRuns = [pc : Places, result : Results, next : Nat, eye : Eyes, item : Items, failed : BOOLEAN]
  BY DEF UnwrapRuns
<1> HIDE DEF Places, Results, Eyes, Items
<1>2. \A r \in UnwrapRuns :
    /\ \A p \in Places : [r EXCEPT !.pc = p] \in UnwrapRuns
    /\ \A p \in Places : [r EXCEPT !.pc = p, !.failed = TRUE] \in UnwrapRuns
    /\ \A o \in Results : \A p \in Places : [r EXCEPT !.pc = p, !.result = o] \in UnwrapRuns
    /\ \A o \in Results : \A p \in Places : [r EXCEPT !.pc = p, !.result = o, !.failed = TRUE] \in UnwrapRuns
    /\ \A e \in Eyes : [r EXCEPT !.eye = e] \in UnwrapRuns
    /\ \A n \in Nat : \A e \in Eyes : [r EXCEPT !.next = n, !.eye = e] \in UnwrapRuns
  BY <1>1
<1>3. \A r \in UnwrapRuns :
    /\ \A x \in Items : [r EXCEPT !.item = x] \in UnwrapRuns
    /\ \A x \in Items : \A o \in Results : [r EXCEPT !.item = x, !.result = o] \in UnwrapRuns
    /\ \A x \in Items : \A o \in Results : [r EXCEPT !.item = x, !.result = o, !.failed = TRUE] \in UnwrapRuns
  BY <1>1
<1>4. QED
  BY <1>2, <1>3 DEF Places, Results, Eyes, Items

LEMMA UnwrapOutUpdates ==
  \A f \in UnwrapOuts :
    /\ \A d \in Int : [f EXCEPT !.declared = d] \in UnwrapOuts
    /\ [f EXCEPT !.headers = FALSE] \in UnwrapOuts
    /\ \A x \in Nat \X Nat : [f EXCEPT !.frames = Append(@, x)] \in UnwrapOuts
    /\ \A x \in Nat \X Nat : [f EXCEPT !.frames = <<x>>] \in UnwrapOuts
    /\ \A n \in 1 .. MaxItems : [f EXCEPT !.items = @ \cup {n}] \in UnwrapOuts
<1> DEFINE Frames == Seq(Nat \X Nat)
           Items == SUBSET (1 .. MaxItems)
<1>1. UnwrapOuts = [frames : Frames, items : Items, declared : Int, headers : BOOLEAN]
  BY DEF UnwrapOuts
<1>2. \A q \in Frames : \A x \in Nat \X Nat : Append(q, x) \in Frames /\ <<x>> \in Frames
  OBVIOUS
<1>3. \A q \in Items : \A n \in 1 .. MaxItems : q \cup {n} \in Items
  OBVIOUS
<1> HIDE DEF Frames, Items
<1>4. \A f \in UnwrapOuts :
    /\ \A d \in Int : [f EXCEPT !.declared = d] \in UnwrapOuts
    /\ [f EXCEPT !.headers = FALSE] \in UnwrapOuts
    /\ \A x \in Nat \X Nat : [f EXCEPT !.frames = Append(@, x)] \in UnwrapOuts
    /\ \A x \in Nat \X Nat : [f EXCEPT !.frames = <<x>>] \in UnwrapOuts
    /\ \A n \in 1 .. MaxItems : [f EXCEPT !.items = @ \cup {n}] \in UnwrapOuts
  BY <1>1, <1>2, <1>3
<1>5. QED
  BY <1>4

LEMMA UnwrapInit == Unwrap!Init => UnwrapInv
<1> SUFFICES ASSUME Unwrap!Init PROVE UnwrapInv
  OBVIOUS
<1>1. s1.row \in Unwrap!Unwrappers /\ s1.opt \in Unwrap!Options(s1.row) /\ s1.file \in Unwrap!Files(s1.row)
  <2>1. PICK row \in Unwrap!Unwrappers :
          \E o \in Unwrap!Options(row), f \in Unwrap!Files(row) : s1 = [row |-> row, opt |-> o, file |-> f]
    BY DEF Unwrap!Init
  <2>2. PICK o \in Unwrap!Options(row), f \in Unwrap!Files(row) : s1 = [row |-> row, opt |-> o, file |-> f]
    BY <2>1
  <2>3. QED
    BY <2>2
<1>2. /\ s2 = [pc |-> "open", result |-> "OK", next |-> s1.opt.start, eye |-> 1, item |-> 0, failed |-> FALSE]
      /\ s3 = [frames |-> <<>>, items |-> {}, declared |-> 0, headers |-> TRUE]
  BY DEF Unwrap!Init
<1>3. MaxItems \in Nat /\ MaxLength \in Nat
  BY ComponentsAssumption DEF Unwrap!UnwrapAssumption
<1>4. s1.opt.start \in Nat
  BY <1>1, <1>3 DEF Unwrap!Options
<1>5. UnwrapTyped
  BY <1>1, <1>2, <1>3, <1>4 DEF UnwrapTyped, UnwrapRuns, UnwrapOuts, UnwrapPlaces
<1>6. UnwrapProgress
  BY <1>2 DEF UnwrapProgress, UnwrapFresh, UnwrapNoItems
<1>7. QED
  BY <1>5, <1>6 DEF UnwrapInv

LEMMA UnwrapLastInt == UnwrapTyped => Unwrap!LastFrame \in Int
<1> SUFFICES ASSUME UnwrapTyped PROVE Unwrap!LastFrame \in Int
  OBVIOUS
<1>1. Words \in Nat \ {0} /\ s1.opt.start \in Nat /\ Unwrap!FrameCount \in Nat /\ s1.opt.duration \in Nat
  BY UnwrapFacts
<1>2. Unwrap!Reduced \in Nat /\ Unwrap!FirstOf(s1.opt.duration, Unwrap!FrameCount) \in Nat
  BY <1>1 DEF Unwrap!Reduced, Unwrap!FirstOf, Unwrap!Least, Unwrap!Opt
<1>3. \A k \in Nat : Unwrap!Least(k % Words, Unwrap!FrameCount) \in Int
  <2>1. \A k \in Nat : k % Words \in Nat
    BY ONLY <1>1
  <2>2. QED
    BY ONLY <1>1, <2>1 DEF Unwrap!Least
<1>4. /\ s1.opt.start + Unwrap!FirstOf(s1.opt.duration, Unwrap!FrameCount) \in Nat
      /\ s1.opt.start + Unwrap!Reduced \in Nat /\ Unwrap!Reduced - s1.opt.start \in Int
  BY ONLY <1>1, <1>2
<1> DEFINE clamped == Unwrap!Least((s1.opt.start + Unwrap!FirstOf(s1.opt.duration, Unwrap!FrameCount)) % Words, Unwrap!FrameCount)
           checked == Unwrap!Least((s1.opt.start + Unwrap!Reduced) % Words, Unwrap!FrameCount)
           other   == Unwrap!Reduced - s1.opt.start
           range   == Unwrap!Row.range
<1>5. Unwrap!LastFrame = CASE range = "clamp" -> clamped [] range = "checked" -> checked [] OTHER -> other
  BY ONLY DEF Unwrap!LastFrame, Unwrap!Opt, clamped, checked, other, range
<1>6. clamped \in Int /\ checked \in Int /\ other \in Int
  BY <1>3, <1>4
<1> HIDE DEF clamped, checked, other, range
<1>7. Unwrap!LastFrame = IF range = "clamp" THEN clamped ELSE IF range = "checked" THEN checked ELSE other
  BY ONLY <1>5
<1>8. QED
  BY ONLY <1>6, <1>7

LEMMA UnwrapTypedNext ==
  ASSUME UnwrapTyped, Unwrap!Next
  PROVE  UnwrapTyped'
<1>1. /\ s2 \in UnwrapRuns /\ s3 \in UnwrapOuts
      /\ s2.pc \in UnwrapPlaces /\ s2.next \in Nat /\ s2.eye \in {1, 2} /\ s2.item \in 0 .. MaxItems
      /\ s2.result \in {"OK", "FAIL"} /\ MaxItems \in Nat
  BY UnwrapFacts DEF UnwrapTyped, UnwrapRuns
<1>2. UNCHANGED s1 /\ s2' \in UnwrapRuns /\ s3' \in UnwrapOuts => UnwrapTyped'
  <2>1. s1.row \in Unwrap!Unwrappers /\ s1.opt \in Unwrap!Options(s1.row) /\ s1.file \in Unwrap!Files(s1.row)
    BY DEF UnwrapTyped
  <2>2. UNCHANGED s1 =>
          s1'.row \in Unwrap!Unwrappers /\ s1'.opt \in Unwrap!Options(s1'.row) /\ s1'.file \in Unwrap!Files(s1'.row)
    BY ONLY <2>1
  <2>3. QED
    BY ONLY <2>2 DEF UnwrapTyped
<1>3. ASSUME NEW p \in UnwrapPlaces, Unwrap!Step(p) PROVE s2' \in UnwrapRuns
  <2>1. [s2 EXCEPT !.pc = p] \in UnwrapRuns
    <3>1. s2 \in UnwrapRuns /\ p \in UnwrapPlaces
      BY <1>1
    <3>2. QED
      BY ONLY <3>1, UnwrapRunUpdates
  <2>2. QED
    BY ONLY <1>3, <2>1 DEF Unwrap!Step
<1>4. (\A o \in {"OK", "FAIL"} : Unwrap!Stop(o) => s2' \in UnwrapRuns) /\ (Unwrap!Fail => s2' \in UnwrapRuns)
  <2>1. s2 \in UnwrapRuns /\ "exit" \in UnwrapPlaces
    BY <1>1 DEF UnwrapPlaces
  <2>2. /\ \A o \in {"OK", "FAIL"} : [s2 EXCEPT !.pc = "exit", !.result = o] \in UnwrapRuns
        /\ [s2 EXCEPT !.pc = "exit", !.result = "FAIL", !.failed = TRUE] \in UnwrapRuns
    BY ONLY <2>1, UnwrapRunUpdates
  <2>3. QED
    BY ONLY <2>2 DEF Unwrap!Stop, Unwrap!Fail
<1>5. CASE Unwrap!OpenRead
  BY <1>1, <1>2, <1>3, <1>4, <1>5 DEF Unwrap!OpenRead, UnwrapPlaces
<1>6. CASE Unwrap!Prepare
  <2> DEFINE d == IF s1.row.range = "checked" THEN (Unwrap!LastFrame - s1.opt.start) % Words ELSE Unwrap!LastFrame
  <2>1. d \in Int
    <3>1. \A k \in Int : k % Words \in Int
      BY UnwrapFacts
    <3>2. QED
      BY <3>1, UnwrapLastInt, UnwrapFacts
  <2>2. /\ UNCHANGED s1
        /\ \/ Unwrap!Step("document") \/ Unwrap!Step("copy") \/ Unwrap!Fail
           \/ s2' = [s2 EXCEPT !.pc = "copy", !.failed = TRUE]
        /\ s3' = s3 \/ s3' = [s3 EXCEPT !.declared = d] \/ s3' = [s3 EXCEPT !.headers = FALSE]
    BY <1>6 DEF Unwrap!Prepare, Unwrap!Row, Unwrap!Opt
  <2> HIDE DEF d
  <2>3. s2' \in UnwrapRuns
    BY <1>1, <1>3, <1>4, <2>2, UnwrapRunUpdates DEF UnwrapPlaces
  <2>4. s3' \in UnwrapOuts
    BY <1>1, <2>1, <2>2, UnwrapOutUpdates
  <2>5. QED
    BY <1>2, <2>2, <2>3, <2>4
<1>7. CASE Unwrap!CopyFrame
  <2>1. /\ UNCHANGED s1
        /\ \/ s2.eye < s1.row.eyes /\ s2' = [s2 EXCEPT !.eye = @ + 1]
           \/ s2' = [s2 EXCEPT !.next = @ + 1, !.eye = 1]
           \/ s2' = [s2 EXCEPT !.pc = "list", !.failed = TRUE]
           \/ Unwrap!Fail
        /\ s3' = s3 \/ s3' = [s3 EXCEPT !.frames = Append(@, <<s2.next, s2.eye>>)]
    BY <1>7 DEF Unwrap!CopyFrame, Unwrap!Row
  <2>2. s2' \in UnwrapRuns
    <3>1. s2.next + 1 \in Nat /\ (s2.eye < s1.row.eyes => s2.eye + 1 \in {1, 2})
      BY <1>1, UnwrapFacts DEF UnwrapRow
    <3>2. "list" \in UnwrapPlaces
      BY DEF UnwrapPlaces
    <3>3. CASE s2.eye < s1.row.eyes /\ s2' = [s2 EXCEPT !.eye = @ + 1]
      BY <1>1, <3>1, <3>3, UnwrapRunUpdates
    <3>4. CASE s2' = [s2 EXCEPT !.next = @ + 1, !.eye = 1]
      <4>1. \A n \in Nat : [s2 EXCEPT !.next = n, !.eye = 1] \in UnwrapRuns
        BY <1>1, UnwrapRunUpdates
      <4>2. QED
        BY <3>1, <3>4, <4>1
    <3>5. CASE s2' = [s2 EXCEPT !.pc = "list", !.failed = TRUE]
      BY <1>1, <3>2, <3>5, UnwrapRunUpdates
    <3>6. QED
      BY <1>4, <2>1, <3>3, <3>4, <3>5
  <2>3. s3' \in UnwrapOuts
    <3>1. <<s2.next, s2.eye>> \in Nat \X Nat
      BY <1>1
    <3>2. QED
      BY <1>1, <2>1, <3>1, UnwrapOutUpdates
  <2>4. QED
    BY <1>2, <2>1, <2>2, <2>3
<1>8. CASE Unwrap!CopyEnd
  BY <1>1, <1>2, <1>3, <1>4, <1>8 DEF Unwrap!CopyEnd, UnwrapPlaces
<1>9. CASE Unwrap!ReadDocument
  <2>1. <<0, 1>> \in Nat \X Nat
    OBVIOUS
  <2>2. s3' \in UnwrapOuts
    BY <1>1, <1>9, <2>1, UnwrapOutUpdates DEF Unwrap!ReadDocument
  <2>3. QED
    BY <1>1, <1>2, <1>3, <1>4, <1>9, <2>2 DEF Unwrap!ReadDocument, UnwrapPlaces
<1>10. CASE Unwrap!ReadResource \/ Unwrap!ReadTarget
  <2>1. s2.item < s1.file.items => s2.item + 1 \in 1 .. MaxItems /\ s2.item + 1 \in 0 .. MaxItems
    BY <1>1, UnwrapFacts
  <2>2. s3' \in UnwrapOuts
    <3>1. CASE Unwrap!ReadResource
      BY <1>1, <2>1, <3>1, UnwrapOutUpdates DEF Unwrap!ReadResource
    <3>2. CASE Unwrap!ReadTarget
      BY <1>1, <2>1, <3>2, UnwrapOutUpdates DEF Unwrap!ReadTarget
    <3>3. QED
      BY <1>10, <3>1, <3>2
  <2>3. s2' \in UnwrapRuns
    <3>1. s2.item < s1.file.items =>
            /\ [s2 EXCEPT !.item = @ + 1] \in UnwrapRuns
            /\ [s2 EXCEPT !.item = @ + 1, !.result = "OK"] \in UnwrapRuns
            /\ [s2 EXCEPT !.item = @ + 1, !.result = "FAIL", !.failed = TRUE] \in UnwrapRuns
      BY <1>1, <2>1, UnwrapRunUpdates
    <3>2. CASE Unwrap!ReadResource
      BY ONLY <1>4, <3>1, <3>2 DEF Unwrap!ReadResource
    <3>3. CASE Unwrap!ReadTarget
      BY ONLY <1>1, <1>4, <3>1, <3>3 DEF Unwrap!ReadTarget
    <3>4. QED
      BY <1>10, <3>2, <3>3
  <2>4. QED
    BY <1>2, <1>10, <2>2, <2>3 DEF Unwrap!ReadResource, Unwrap!ReadTarget
<1>11. CASE Unwrap!ListTargets
  BY <1>1, <1>2, <1>4, <1>11, UnwrapRunUpdates DEF Unwrap!ListTargets, UnwrapPlaces
<1>12. CASE Unwrap!Exit
  BY <1>1, <1>2, <1>12 DEF Unwrap!Exit, Unwrap!vars
<1>13. QED
  BY <1>5, <1>6, <1>7, <1>8, <1>9, <1>10, <1>11, <1>12 DEF Unwrap!Next, Unwrap!Proceed

\* Giving up promises nothing.
LEMMA UnwrapStops ==
  ASSUME UnwrapTyped, UnwrapTyped', Unwrap!Fail \/ Unwrap!Stop("FAIL")
  PROVE  UnwrapProgress'
<1>1. s2'.pc = "exit" /\ s2'.result = "FAIL"
  BY DEF UnwrapTyped, UnwrapRuns, Unwrap!Fail, Unwrap!Stop
<1>2. QED
  BY <1>1 DEF UnwrapProgress, Unwrap!UnwrapComplete, Unwrap!Succeeded

LEMMA UnwrapMoves ==
  UnwrapTyped => \A p \in UnwrapPlaces : Unwrap!Step(p) =>
    s2'.pc = p /\ s2'.result = s2.result /\ s2'.next = s2.next /\ s2'.eye = s2.eye /\ s2'.item = s2.item /\ s2'.failed = s2.failed
  BY DEF UnwrapTyped, UnwrapRuns, Unwrap!Step

LEMMA UnwrapBefore ==
  ASSUME UnwrapInv, ~s1.opt.dry, UnwrapTyped', Unwrap!OpenRead \/ Unwrap!Prepare
  PROVE  UnwrapProgress'
<1>1. UNCHANGED s1 /\ UnwrapTyped /\ s2 \in UnwrapRuns /\ s3 \in UnwrapOuts
  BY DEF Unwrap!OpenRead, Unwrap!Prepare, UnwrapInv, UnwrapTyped
<1>2. CASE Unwrap!OpenRead
  <2>1. s2.pc = "open" /\ UnwrapFresh /\ UnwrapNoItems /\ UNCHANGED s3
    BY <1>2 DEF Unwrap!OpenRead, UnwrapInv, UnwrapProgress
  <2>2. CASE ~Unwrap!StartRefused /\ Unwrap!Step("prepare")
    BY <1>1, <2>1, <2>2, UnwrapMoves, UnwrapSame DEF UnwrapProgress, UnwrapFresh, UnwrapNoItems, UnwrapPlaces
  <2>3. QED
    BY <1>1, <1>2, <2>2, UnwrapStops DEF Unwrap!OpenRead
<1>3. CASE Unwrap!Prepare
  <2>1. s2.pc = "prepare" /\ UnwrapFresh /\ UnwrapNoItems /\ ~Unwrap!StartRefused
    BY <1>3 DEF Unwrap!Prepare, UnwrapInv, UnwrapProgress
  <2>2. ASSUME s2'.next = s2.next, s2'.eye = s2.eye, s2'.pc = "copy", s3'.frames = s3.frames PROVE UnwrapCopied'
    <3>1. s2.next = s1.opt.start /\ s2.eye = 1 /\ s3.frames = <<>> /\ s1.opt.start \in Nat /\ s1.row.eyes \in {1, 2}
      BY <1>1, <2>1, UnwrapFacts DEF UnwrapFresh, UnwrapRow
    <3>2. (s2.next - s1.opt.start) * s1.row.eyes + s2.eye - 1 = 0
      BY <3>1
    <3>3. UnwrapShown(0) = <<>>
      BY DEF UnwrapShown
    <3>4. s3'.frames = UnwrapShown((s2.next - s1.opt.start) * s1.row.eyes + s2.eye - 1)'
      BY <1>1, <2>2, <3>1, <3>2, <3>3, UnwrapSame
    <3>5. QED
      BY <1>1, <2>2, <3>1, <3>4, UnwrapSame DEF UnwrapCopied
  <2>3. CASE s1.row.range = "document" /\ Unwrap!Step("document") /\ s3'.items = s3.items
    BY <1>1, <2>1, <2>3, UnwrapMoves DEF UnwrapProgress, UnwrapNoItems, UnwrapPlaces
  <2>4. CASE /\ s1.row.range # "document" /\ Unwrap!Step("copy")
             /\ s3' = IF s1.row.to = "wave" 
                      THEN [s3 EXCEPT !.declared = IF s1.row.range = "checked" THEN (Unwrap!LastFrame - s1.opt.start) % Words
                                                   ELSE Unwrap!LastFrame]
                      ELSE s3
    <3>1. /\ s2'.next = s2.next /\ s2'.eye = s2.eye /\ s2'.pc = "copy" /\ s2'.item = s2.item
          /\ s3'.frames = s3.frames /\ s3'.items = s3.items
          /\ s1.row.to = "wave" => s3'.declared = IF s1.row.range = "checked" THEN (Unwrap!LastFrame - s1.opt.start) % Words
                                                   ELSE Unwrap!LastFrame
      BY <1>1, <2>4, UnwrapMoves DEF UnwrapOuts, UnwrapPlaces
    <3>2. ASSUME s1.row.to = "wave", UnwrapPromises PROVE s3'.declared = UnwrapCount
      <4>1. Unwrap!LastFrame = UnwrapEnd
        BY <1>1, <2>4, <3>2, UnwrapStopsThere
      <4>2. s1.row.range \in {"checked", "reduced"}
        BY <1>1, <3>2, UnwrapFacts DEF UnwrapRow
      <4>3. s1.opt.start \in Nat /\ Unwrap!FrameCount \in 0 .. MaxLength /\ MaxLength \in Nat /\ Words \in Nat /\ Words > 2 * MaxLength + 2
            /\ s1.opt.duration \in Nat
        BY <1>1, UnwrapFacts
      <4>4. CASE s1.row.range = "checked"
        <5>1. s1.opt.start <= Unwrap!FrameCount
          BY <2>1, <4>3, <4>4 DEF Unwrap!StartRefused, Unwrap!Row, Unwrap!Opt
        <5>2. UnwrapEnd >= s1.opt.start /\ UnwrapEnd <= Unwrap!FrameCount /\ UnwrapEnd \in Nat
          BY <4>3, <4>4, <5>1 DEF UnwrapEnd, Unwrap!Least
        <5>3. UnwrapEnd - s1.opt.start \in Nat /\ UnwrapEnd - s1.opt.start < Words /\ UnwrapCount = UnwrapEnd - s1.opt.start
          BY <4>3, <5>2 DEF UnwrapCount
        <5>4. (UnwrapEnd - s1.opt.start) % Words = UnwrapEnd - s1.opt.start
          BY <4>3, <5>3, UnwrapModulo
        <5>5. QED
          BY <3>1, <3>2, <4>1, <4>4, <5>3, <5>4
      <4>5. CASE s1.row.range = "reduced"
        <5>1. s1.opt.start = 0
          BY <3>2, <4>5 DEF UnwrapPromises
        <5>2. UnwrapEnd \in Nat
          BY <4>3, <5>1 DEF UnwrapEnd, Unwrap!Least
        <5>3. UnwrapCount = UnwrapEnd
          BY <5>1, <5>2 DEF UnwrapCount
        <5>4. QED
          BY <3>1, <3>2, <4>1, <4>5, <5>3
      <4>6. QED
        BY <4>2, <4>4, <4>5
    <3>3. UnwrapDeclared'
      BY <1>1, <3>2, UnwrapSame DEF UnwrapDeclared
    <3>4. UnwrapCopied'
      BY <2>2, <3>1
    <3>5. QED
      BY <1>1, <2>1, <2>4, <3>1, <3>3, <3>4 DEF UnwrapProgress, UnwrapNoItems
  <2>5. CASE s1.row.to = "wave" /\ s2' = [s2 EXCEPT !.pc = "copy", !.failed = TRUE] /\ s3' = [s3 EXCEPT !.headers = FALSE]
    <3>1. /\ s2'.next = s2.next /\ s2'.eye = s2.eye /\ s2'.pc = "copy" /\ s2'.item = s2.item
          /\ s3'.frames = s3.frames /\ s3'.items = s3.items /\ s3'.headers = FALSE
      BY <1>1, <2>5 DEF UnwrapRuns, UnwrapOuts
    <3>2. s1.row.range # "document"
      BY <1>1, <2>5, UnwrapFacts DEF UnwrapRow
    <3>3. UnwrapCopied'
      BY <2>2, <3>1
    <3>4. QED
      BY <1>1, <2>1, <3>1, <3>2, <3>3 DEF UnwrapProgress, UnwrapNoItems, UnwrapDeclared
  <2>6. CASE Unwrap!Fail
    BY <1>1, <2>6, UnwrapStops
  <2>7. s1.row.range = "document" => s1.row.to # "wave"
    BY <1>1, UnwrapFacts DEF UnwrapRow
  <2>8. QED
    BY <1>3, <2>3, <2>4, <2>5, <2>6, <2>7 DEF Unwrap!Prepare, Unwrap!Row, Unwrap!Opt
<1>4. QED
  BY <1>2, <1>3

LEMMA UnwrapCopyFrame ==
  ASSUME UnwrapInv, ~s1.opt.dry, UnwrapTyped', Unwrap!CopyFrame
  PROVE  UnwrapProgress'
<1> DEFINE start == s1.opt.start
           eyes == s1.row.eyes
           next == s2.next
           eye == s2.eye
           k == (next - start) * eyes + eye - 1
<1>1. /\ UNCHANGED s1 /\ UnwrapTyped /\ s2 \in UnwrapRuns /\ s3 \in UnwrapOuts /\ s2.pc = "copy" /\ next < Unwrap!LastFrame
      /\ next \in Nat /\ eye \in {1, 2} /\ start \in Nat /\ eyes \in {1, 2}
  BY UnwrapFacts DEF Unwrap!CopyFrame, UnwrapInv, UnwrapTyped, UnwrapRuns, UnwrapRow
<1>2. UnwrapCopied /\ UnwrapNoItems /\ UnwrapDeclared /\ s1.row.range # "document"
  BY <1>1 DEF UnwrapInv, UnwrapProgress
<1>3. CASE /\ s2' = IF eye < eyes THEN [s2 EXCEPT !.eye = @ + 1] ELSE [s2 EXCEPT !.next = @ + 1, !.eye = 1]
           /\ s3' = [s3 EXCEPT !.frames = Append(@, <<next, eye>>)]
  <2>1. /\ s3'.frames = Append(s3.frames, <<next, eye>>) /\ s3'.items = s3.items /\ s3'.headers = s3.headers
        /\ s3'.declared = s3.declared
    BY <1>1, <1>3 DEF UnwrapOuts
  <2>2. /\ s2'.pc = "copy" /\ s2'.item = s2.item
        /\ s2'.next = (IF eye < eyes THEN next ELSE next + 1) /\ s2'.eye = (IF eye < eyes THEN eye + 1 ELSE 1)
    BY <1>1, <1>3 DEF UnwrapRuns
  <2>3. next >= start /\ eye <= eyes /\ s3.frames = UnwrapShown(k)
    BY <1>1, <1>2 DEF UnwrapCopied
  <2>4. k \in Nat /\ start + k \div eyes = next /\ 1 + (k % eyes) = eye
    BY <1>1, <2>3
  <2>5. (s2'.next - start) * eyes + s2'.eye - 1 = k + 1
    BY <1>1, <2>2, <2>3
  <2>6. s3'.frames = UnwrapShown(k + 1)
    <3> HIDE DEF k
    <3>1. Append(UnwrapShown(k), <<start + k \div eyes, 1 + (k % eyes)>>) = UnwrapShown(k + 1)
      BY <1>1, <2>4, UnwrapShownMore
    <3>2. QED
      BY <2>1, <2>3, <2>4, <3>1
  <2>7. s3'.frames = UnwrapShown((s2.next - s1.opt.start) * s1.row.eyes + s2.eye - 1)'
    <3> HIDE DEF k
    <3>1. QED
      BY <1>1, <2>5, <2>6, UnwrapSame
  <2>8. Unwrap!LastFrame \in Int
    BY <1>1, UnwrapLastInt
  <2>9. UnwrapCopied'
    <3> HIDE DEF k
    <3>1. QED
      BY <1>1, <2>2, <2>3, <2>7, <2>8, UnwrapSame DEF UnwrapCopied
  <2>10. UnwrapDeclared'
    BY <1>1, <1>2, <2>1, UnwrapSame DEF UnwrapDeclared
  <2>11. QED
    BY <1>1, <1>2, <2>1, <2>2, <2>9, <2>10 DEF UnwrapProgress, UnwrapNoItems
<1>4. CASE s1.row.items = "targets" /\ s2' = [s2 EXCEPT !.pc = "list", !.failed = TRUE] /\ UNCHANGED s3
  <2>1. s2'.pc = "list" /\ s2'.failed = TRUE /\ s2'.item = s2.item
    BY <1>1, <1>4 DEF UnwrapRuns
  <2>2. QED
    BY <1>1, <1>2, <1>4, <2>1 DEF UnwrapProgress, UnwrapNoItems, UnwrapGathered
<1>5. CASE Unwrap!Fail
  BY <1>1, <1>5, UnwrapStops
<1>6. QED
  BY <1>3, <1>4, <1>5 DEF Unwrap!CopyFrame, Unwrap!Row, Unwrap!Opt

LEMMA UnwrapCopyEnd ==
  ASSUME UnwrapInv, ~s1.opt.dry, UnwrapTyped', Unwrap!CopyEnd
  PROVE  UnwrapProgress'
<1> DEFINE start == s1.opt.start
           eyes == s1.row.eyes
           next == s2.next
           eye == s2.eye
<1>1. /\ UNCHANGED <<s1, s3>> /\ UnwrapTyped /\ s2 \in UnwrapRuns /\ s3 \in UnwrapOuts /\ s2.pc = "copy"
      /\ ~(next < Unwrap!LastFrame)
      /\ next \in Nat /\ eye \in {1, 2} /\ start \in Nat /\ eyes \in {1, 2}
  BY UnwrapFacts DEF Unwrap!CopyEnd, UnwrapInv, UnwrapTyped, UnwrapRuns, UnwrapRow
<1>2. UnwrapCopied /\ UnwrapNoItems /\ UnwrapDeclared /\ s1.row.range # "document"
  BY <1>1 DEF UnwrapInv, UnwrapProgress
<1>3. eye = 1 /\ next >= start /\ (next > start => next <= Unwrap!LastFrame)
      /\ s3.frames = UnwrapShown((next - start) * eyes + eye - 1)
  BY <1>1, <1>2 DEF UnwrapCopied
<1>4. (next - start) * eyes + eye - 1 = (next - start) * eyes
  BY <1>1, <1>3
<1>5. UnwrapPromises => next - start = UnwrapCount
  <2>1. UnwrapPromises => Unwrap!LastFrame = UnwrapEnd
    BY <1>1, <1>2, UnwrapStopsThere
  <2>2. Unwrap!LastFrame \in Int
    BY <1>1, UnwrapLastInt
  <2>3. QED
    BY <1>1, <1>3, <2>1, <2>2 DEF UnwrapCount
<1>6. UnwrapPromises => s3.frames = Unwrap!Selected
  BY <1>1, <1>3, <1>4, <1>5, UnwrapSelected
<1>7. CASE s1.row.items = "targets" /\ Unwrap!Step("list")
  <2>1. s2'.pc = "list" /\ s2'.item = s2.item
    BY <1>1, <1>7, UnwrapMoves DEF UnwrapPlaces
  <2>2. UnwrapGathered'
    BY <1>1, <1>6, UnwrapSame DEF UnwrapGathered
  <2>3. QED
    BY <1>1, <1>2, <1>7, <2>1, <2>2 DEF UnwrapProgress, UnwrapNoItems
<1>8. CASE s1.row.items # "targets" /\ Unwrap!Stop("OK")
  <2>1. s2'.pc = "exit"
    BY <1>1, <1>8 DEF UnwrapRuns, Unwrap!Stop
  <2>2. s1.row.items = "none" /\ s1.file.items = 0
    BY <1>1, <1>2, <1>8, UnwrapFacts DEF UnwrapRow
  <2>3. s3.items = 1 .. s1.file.items
    BY <1>2, <2>2 DEF UnwrapNoItems
  <2>4. ASSUME UnwrapPromises, s3.headers, s1.row.to = "wave"
        PROVE  s3.declared * eyes = Len(s3.frames)
    <3>1. eyes = 1 /\ s3.declared = UnwrapCount /\ UnwrapCount \in Nat
      BY <1>1, <1>2, <2>4, UnwrapFacts, UnwrapSelected DEF UnwrapRow, UnwrapDeclared
    <3>2. UnwrapCount * eyes = UnwrapCount
      BY <3>1
    <3>3. Len(UnwrapShown(UnwrapCount)) = UnwrapCount
      BY <1>1, <3>1, UnwrapShownMore
    <3>4. s3.frames = UnwrapShown(UnwrapCount)
      BY <1>1, <1>6, <2>4, <3>2, UnwrapSelected
    <3>5. QED
      BY <3>1, <3>2, <3>3, <3>4
  <2>5. UnwrapPromises /\ s3.headers => Unwrap!Extracted
    BY <1>6, <2>3, <2>4 DEF Unwrap!Extracted, Unwrap!Row
  <2>6. (UnwrapPromises /\ s3.headers => Unwrap!Extracted)'
    BY <1>1, <2>5, UnwrapSame DEF Unwrap!Extracted, Unwrap!Row
  <2>7. QED
    BY <2>1, <2>6 DEF UnwrapProgress, Unwrap!UnwrapComplete, UnwrapPromises, Unwrap!Row, Unwrap!Opt
<1>9. QED
  BY <1>7, <1>8 DEF Unwrap!CopyEnd, Unwrap!Row

\* What is left when a program that has resources to extract ends
LEMMA UnwrapEnds ==
  ASSUME UnwrapTyped, UnwrapTyped', UNCHANGED <<s1, s3>>, s2'.pc = "exit", s1.row.to # "wave",
         UnwrapPromises /\ s3.headers /\ (s1.row.items = "targets" => ~s2'.failed) /\ s2'.result = "OK" =>
           s3.frames = Unwrap!Selected /\ s3.items = 1 .. s1.file.items
  PROVE  UnwrapProgress'
<1>1. UnwrapPromises /\ s3.headers /\ (s1.row.items = "targets" => ~s2'.failed) /\ s2'.result = "OK" => Unwrap!Extracted'
  BY UnwrapSame DEF Unwrap!Extracted, Unwrap!Row
<1>2. UnwrapPromises' <=> UnwrapPromises
  BY UnwrapSame
<1>3. Unwrap!UnwrapComplete'
  BY <1>1, <1>2 DEF Unwrap!UnwrapComplete, Unwrap!Succeeded, UnwrapPromises, Unwrap!Row, Unwrap!Opt
<1>4. QED
  BY <1>3 DEF UnwrapProgress

LEMMA UnwrapReadDocument ==
  ASSUME UnwrapInv, ~s1.opt.dry, UnwrapTyped', Unwrap!ReadDocument
  PROVE  UnwrapProgress'
<1>1. UNCHANGED s1 /\ UnwrapTyped /\ s2 \in UnwrapRuns /\ s3 \in UnwrapOuts /\ s2.pc = "document"
  BY DEF Unwrap!ReadDocument, UnwrapInv, UnwrapTyped
<1>2. UnwrapNoItems /\ s1.row.range = "document"
  BY <1>1 DEF UnwrapInv, UnwrapProgress
<1>3. CASE Unwrap!Step("resources") /\ s3' = [s3 EXCEPT !.frames = <<<<0, 1>>>>]
  <2>1. s2'.pc = "resources" /\ s2'.item = 0
    BY <1>1, <1>2, <1>3, UnwrapMoves DEF UnwrapNoItems, UnwrapPlaces
  <2>2. s3'.frames = <<<<0, 1>>>> /\ s3'.items = {}
    BY <1>1, <1>2, <1>3 DEF UnwrapOuts, UnwrapNoItems
  <2>3. Unwrap!Selected = UnwrapShown(1)
    <3>1. UnwrapCount = 1 /\ s1.row.eyes = 1
      BY <1>1, <1>2, UnwrapSelected, UnwrapFacts DEF UnwrapRow
    <3>2. UnwrapCount * s1.row.eyes = 1
      BY <3>1
    <3>3. QED
      BY <1>1, <3>2, UnwrapSelected
  <2>4. UnwrapShown(1) = <<<<0, 1>>>>
    <3>1. s1.opt.start = 0 /\ s1.row.eyes = 1
      BY <1>1, <1>2, UnwrapFacts DEF UnwrapRow
    <3>2. UnwrapShown(1) = [i \in 1 .. 1 |-> <<0 + (i - 1) \div 1, 1 + ((i - 1) % 1)>>]
      BY <3>1 DEF UnwrapShown
    <3>3. \A i \in 1 .. 1 : <<0 + (i - 1) \div 1, 1 + ((i - 1) % 1)>> = <<0, 1>>
      OBVIOUS
    <3>4. \A x : [i \in 1 .. 1 |-> x] = <<x>>
      OBVIOUS
    <3>5. [i \in 1 .. 1 |-> <<0 + (i - 1) \div 1, 1 + ((i - 1) % 1)>>] = [i \in 1 .. 1 |-> <<0, 1>>]
      BY <3>3
    <3>6. QED
      BY <3>2, <3>4, <3>5
  <2>5. QED
    BY <1>1, <1>2, <2>1, <2>2, <2>3, <2>4, UnwrapSame DEF UnwrapProgress
<1>4. CASE Unwrap!Fail
  BY <1>1, <1>4, UnwrapStops
<1>5. QED
  BY <1>3, <1>4 DEF Unwrap!ReadDocument, Unwrap!Opt

LEMMA UnwrapReadResource ==
  ASSUME UnwrapInv, ~s1.opt.dry, UnwrapTyped', Unwrap!ReadResource
  PROVE  UnwrapProgress'
<1>1. /\ UNCHANGED s1 /\ UnwrapTyped /\ s2 \in UnwrapRuns /\ s3 \in UnwrapOuts /\ s2.pc = "resources"
      /\ s2.item \in Nat /\ s1.file.items \in Nat
  BY UnwrapFacts DEF Unwrap!ReadResource, UnwrapInv, UnwrapTyped, UnwrapRuns
<1>2. s3.frames = Unwrap!Selected /\ s1.row.range = "document" /\ s3.items = 1 .. s2.item
  BY <1>1 DEF UnwrapInv, UnwrapProgress
<1>3. CASE s2' = [s2 EXCEPT !.item = @ + 1] /\ s3' = [s3 EXCEPT !.items = @ \cup {s2.item + 1}]
  <2>1. s2'.pc = "resources" /\ s2'.item = s2.item + 1
    BY <1>1, <1>3 DEF UnwrapRuns
  <2>2. s3'.frames = s3.frames /\ s3'.items = s3.items \cup {s2.item + 1}
    BY <1>1, <1>3 DEF UnwrapOuts
  <2>3. s3'.items = 1 .. s2'.item
    BY <1>1, <1>2, <2>1, <2>2
  <2>4. QED
    BY <1>1, <1>2, <2>1, <2>2, <2>3, UnwrapSame DEF UnwrapProgress
<1>4. CASE s2.item = s1.file.items /\ Unwrap!Stop("OK") /\ UNCHANGED s3
  <2>1. s2'.pc = "exit"
    BY <1>1, <1>4 DEF UnwrapRuns, Unwrap!Stop
  <2>2. s1.row.to # "wave"
    BY <1>1, <1>2, UnwrapFacts DEF UnwrapRow
  <2>3. QED
    BY <1>1, <1>2, <1>4, <2>1, <2>2, UnwrapEnds
<1>5. CASE Unwrap!Fail
  BY <1>1, <1>5, UnwrapStops
<1>6. QED
  BY <1>3, <1>4, <1>5 DEF Unwrap!ReadResource, Unwrap!Opt

LEMMA UnwrapTargets ==
  ASSUME UnwrapInv, ~s1.opt.dry, UnwrapTyped', Unwrap!ListTargets \/ Unwrap!ReadTarget
  PROVE  UnwrapProgress'
<1>1. /\ UNCHANGED s1 /\ UnwrapTyped /\ s2 \in UnwrapRuns /\ s3 \in UnwrapOuts /\ s2.pc \in {"list", "targets"}
      /\ s2.item \in Nat /\ s1.file.items \in Nat
  BY UnwrapFacts DEF Unwrap!ListTargets, Unwrap!ReadTarget, UnwrapInv, UnwrapTyped, UnwrapRuns
<1>2. UnwrapGathered /\ s1.row.items = "targets" /\ (~s2.failed => s3.items = 1 .. s2.item)
  <2>1. CASE s2.pc = "list"
    <3>1. UnwrapGathered /\ s1.row.items = "targets" /\ s3.items = {} /\ s2.item = 0
      BY <2>1 DEF UnwrapInv, UnwrapProgress, UnwrapNoItems
    <3>2. QED
      BY <3>1
  <2>2. CASE s2.pc = "targets"
    BY <2>2 DEF UnwrapInv, UnwrapProgress
  <2>3. QED
    BY <1>1, <2>1, <2>2
<1>3. CASE Unwrap!Fail
  BY <1>1, <1>3, UnwrapStops
<1>4. CASE s2' = [s2 EXCEPT !.pc = "targets", !.result = "OK"] /\ UNCHANGED s3
  <2>1. s2'.pc = "targets" /\ s2'.item = s2.item /\ s2'.failed = s2.failed
    BY <1>1, <1>4 DEF UnwrapRuns
  <2>2. QED
    BY <1>1, <1>2, <1>4, <2>1, UnwrapSame DEF UnwrapProgress, UnwrapGathered
<1>5. CASE s2.pc = "targets" /\ s2' = [s2 EXCEPT !.item = @ + 1, !.result = "OK"] /\ s3' = [s3 EXCEPT !.items = @ \cup {s2.item + 1}]
  <2>1. s2'.pc = "targets" /\ s2'.item = s2.item + 1 /\ s2'.failed = s2.failed
    BY <1>1, <1>5 DEF UnwrapRuns
  <2>2. s3'.frames = s3.frames /\ s3'.items = s3.items \cup {s2.item + 1}
    BY <1>1, <1>5 DEF UnwrapOuts
  <2>3. ~s2'.failed => s3'.items = 1 .. s2'.item
    BY <1>1, <1>2, <2>1, <2>2
  <2>4. QED
    BY <1>1, <1>2, <2>1, <2>2, <2>3, UnwrapSame DEF UnwrapProgress, UnwrapGathered
<1>6. CASE s2.pc = "targets" /\ s2' = [s2 EXCEPT !.item = @ + 1, !.result = "FAIL", !.failed = TRUE] /\ UNCHANGED s3
  <2>1. s2'.pc = "targets" /\ s2'.failed = TRUE
    BY <1>1, <1>6 DEF UnwrapRuns
  <2>2. QED
    BY <1>1, <1>2, <2>1 DEF UnwrapProgress, UnwrapGathered
<1>7. CASE s2.item = s1.file.items /\ Unwrap!Stop(s2.result) /\ UNCHANGED s3
  <2>1. s2'.pc = "exit" /\ s2'.failed = s2.failed
    BY <1>1, <1>7 DEF UnwrapRuns, Unwrap!Stop
  <2>2. s1.row.to # "wave"
    BY <1>1, <1>2, UnwrapFacts DEF UnwrapRow
  <2>3. UnwrapPromises /\ ~s2'.failed => s3.frames = Unwrap!Selected /\ s3.items = 1 .. s1.file.items
    BY <1>2, <1>7, <2>1 DEF UnwrapGathered
  <2>4. QED
    BY <1>1, <1>2, <1>7, <2>1, <2>2, <2>3, UnwrapEnds
<1>8. QED
  BY <1>3, <1>4, <1>5, <1>6, <1>7 DEF Unwrap!ListTargets, Unwrap!ReadTarget, Unwrap!Opt

LEMMA UnwrapNext == UnwrapInv /\ [Unwrap!Next]_<<s1, s2, s3>> => UnwrapInv'
<1>1. CASE UNCHANGED <<s1, s2, s3>>
  <2>1. UnwrapTyped => UnwrapTyped'
    BY <1>1 DEF UnwrapTyped
  <2>2. UnwrapProgress => UnwrapProgress'
    <3>1. UnwrapCopied => UnwrapCopied'
      BY <1>1, UnwrapSame DEF UnwrapCopied
    <3>2. UnwrapDeclared => UnwrapDeclared'
      BY <1>1, UnwrapSame DEF UnwrapDeclared
    <3>3. UnwrapGathered => UnwrapGathered'
      BY <1>1, UnwrapSame DEF UnwrapGathered
    <3>4. Unwrap!Extracted => Unwrap!Extracted'
      BY <1>1, UnwrapSame DEF Unwrap!Extracted, Unwrap!Row
    <3>5. Unwrap!UnwrapComplete => Unwrap!UnwrapComplete'
      BY <1>1, <3>4 DEF Unwrap!UnwrapComplete, Unwrap!Succeeded, Unwrap!Row, Unwrap!Opt
    <3>6. QED
      BY <1>1, <3>1, <3>2, <3>3, <3>5, UnwrapSame DEF UnwrapProgress, UnwrapFresh, UnwrapNoItems
  <2>3. QED
    BY <1>1, <2>1, <2>2 DEF UnwrapInv
<1>2. ASSUME UnwrapInv, Unwrap!Next
      PROVE  UnwrapInv'
  <2>1. UnwrapTyped' /\ UNCHANGED s1
    BY <1>2, UnwrapTypedNext DEF UnwrapInv, Unwrap!Next, Unwrap!Proceed, Unwrap!Exit, Unwrap!vars, Unwrap!OpenRead, Unwrap!Prepare,
         Unwrap!CopyFrame, Unwrap!CopyEnd, Unwrap!ReadDocument, Unwrap!ReadResource, Unwrap!ListTargets, Unwrap!ReadTarget
  <2>2. ASSUME ~s1.opt.dry PROVE UnwrapProgress'
    <3>1. CASE Unwrap!OpenRead \/ Unwrap!Prepare
      BY <1>2, <2>1, <2>2, <3>1, UnwrapBefore
    <3>2. CASE Unwrap!CopyFrame
      BY <1>2, <2>1, <2>2, <3>2, UnwrapCopyFrame
    <3>3. CASE Unwrap!CopyEnd
      BY <1>2, <2>1, <2>2, <3>3, UnwrapCopyEnd
    <3>4. CASE Unwrap!ReadDocument
      BY <1>2, <2>1, <2>2, <3>4, UnwrapReadDocument
    <3>5. CASE Unwrap!ReadResource
      BY <1>2, <2>1, <2>2, <3>5, UnwrapReadResource
    <3>6. CASE Unwrap!ListTargets \/ Unwrap!ReadTarget
      BY <1>2, <2>1, <2>2, <3>6, UnwrapTargets
    <3>7. CASE Unwrap!Exit
      BY <1>1, <1>2, <2>2, <3>7 DEF Unwrap!Exit, Unwrap!vars, UnwrapInv
    <3>8. QED
      BY <1>2, <3>1, <3>2, <3>3, <3>4, <3>5, <3>6, <3>7 DEF Unwrap!Next, Unwrap!Proceed
  <2>3. QED
    BY <2>1, <2>2 DEF UnwrapInv
<1>3. QED
  BY <1>1, <1>2

\* In every behaviour a program that extracts essence and exits with 0 has extracted
\* what -f and -d select, in order, both eyes of each frame, and every resource, and its
\* wave files declare the frames they hold, where it promises so: see UnwrapComplete
\* (asdcp-unwrap.cpp, as-02-unwrap.cpp and their like: last_frame, and the loop to it).
THEOREM UnwrapCompleteHolds == Spec => []UnwrapComplete
<1> DEFINE Inv == part = "unwrap" => UnwrapInv
<1>1. Init => Inv
  BY UnwrapInit DEF Init
<1>2. Inv /\ [Next]_vars => Inv'
  BY Parts, UnwrapNext
<1>3. Inv => UnwrapComplete
  BY DEF UnwrapComplete, UnwrapInv, UnwrapProgress, Unwrap!UnwrapComplete, Unwrap!Succeeded, Unwrap!Opt
<1> HIDE DEF Inv
<1>4. QED
  BY <1>1, <1>2, <1>3, PTL DEF Spec

\* The frame that comes next, and the length that wave files declare, stay below what
\* is added modulo Words.
UnwrapRanges == s2.next \in 0 .. Words /\ s3.declared \in 0 .. Words - 1

LEMMA UnwrapLastLeast ==
  ASSUME UnwrapTyped
  PROVE  /\ Unwrap!LastFrame <= MaxLength
         /\ s1.row.range = "reduced" /\ ~Unwrap!StartRefused => Unwrap!LastFrame >= 0
<1>1. /\ Words \in Nat \ {0} /\ MaxLength \in Nat /\ s1.opt.start \in Nat /\ s1.opt.duration \in Nat
      /\ Unwrap!FrameCount \in 0 .. MaxLength /\ UnwrapRow(s1.row)
  BY UnwrapFacts
<1>2. Unwrap!Reduced \in 0 .. MaxLength
  BY <1>1 DEF Unwrap!Reduced, Unwrap!Least, Unwrap!Opt
<1>3. Unwrap!FirstOf(s1.opt.duration, Unwrap!FrameCount) \in Nat
  BY <1>1 DEF Unwrap!FirstOf
<1>4. \A k \in Nat : k % Words \in Nat
  BY <1>1
<1>5. \A k \in Nat : Unwrap!Least(k, Unwrap!FrameCount) <= MaxLength
  BY <1>1 DEF Unwrap!Least
<1>6. Unwrap!LastFrame <= MaxLength
  BY <1>1, <1>2, <1>3, <1>4, <1>5 DEF Unwrap!LastFrame, Unwrap!Opt
<1>7. s1.row.range = "reduced" /\ ~Unwrap!StartRefused => Unwrap!LastFrame >= 0
  BY <1>1, <1>2 DEF Unwrap!LastFrame, Unwrap!StartRefused, Unwrap!Opt, Unwrap!Row
<1>8. QED
  BY <1>6, <1>7

LEMMA UnwrapRangesNext ==
  ASSUME UnwrapInv, UnwrapRanges, Unwrap!Next \/ UNCHANGED <<s1, s2, s3>>
  PROVE  UnwrapRanges'
<1>1. /\ UnwrapTyped /\ s2 \in UnwrapRuns /\ s3 \in UnwrapOuts /\ Words \in Nat /\ Words > 2 * MaxLength + 2
      /\ MaxLength \in Nat /\ s1.opt.start \in Nat /\ Unwrap!LastFrame \in Int /\ Unwrap!LastFrame <= MaxLength
      /\ UnwrapRow(s1.row)
  BY UnwrapFacts, UnwrapLastInt, UnwrapLastLeast DEF UnwrapInv, UnwrapTyped
<1>2. s2'.next = s2.next /\ s3'.declared = s3.declared => UnwrapRanges'
  BY DEF UnwrapRanges
<1>3. \A p : Unwrap!Step(p) => s2'.next = s2.next
  BY <1>1 DEF Unwrap!Step, UnwrapRuns
<1>4. (\A o : Unwrap!Stop(o) => s2'.next = s2.next) /\ (Unwrap!Fail => s2'.next = s2.next)
  BY <1>1 DEF Unwrap!Stop, Unwrap!Fail, UnwrapRuns
<1>5. CASE Unwrap!OpenRead \/ Unwrap!CopyEnd
  BY <1>2, <1>3, <1>4, <1>5 DEF Unwrap!OpenRead, Unwrap!CopyEnd
<1>6. CASE Unwrap!Prepare
  <2>1. s2'.next = s2.next
    <3>1. [s2 EXCEPT !.pc = "copy", !.failed = TRUE].next = s2.next
      BY <1>1 DEF UnwrapRuns
    <3>2. QED
      BY <1>3, <1>4, <1>6, <3>1 DEF Unwrap!Prepare
  <2>2. CASE s3' = s3 \/ s3' = [s3 EXCEPT !.headers = FALSE]
    <3>1. [s3 EXCEPT !.headers = FALSE].declared = s3.declared
      BY <1>1 DEF UnwrapOuts
    <3>2. QED
      BY <1>2, <2>1, <2>2, <3>1
  <2> DEFINE d == IF s1.row.range = "checked" THEN (Unwrap!LastFrame - s1.opt.start) % Words ELSE Unwrap!LastFrame
  <2>3. CASE s1.row.to = "wave" /\ ~s1.opt.dry /\ s3' = [s3 EXCEPT !.declared = d]
    <3>1. s1.row.range = "reduced" => ~Unwrap!StartRefused
      BY <1>6, <2>3 DEF UnwrapInv, UnwrapProgress, Unwrap!Prepare
    <3>2. \A k \in Int : k % Words \in 0 .. Words - 1
      BY <1>1
    <3>3. d \in 0 .. Words - 1
      <4>1. CASE s1.row.range = "checked"
        BY <1>1, <3>2, <4>1
      <4>2. CASE s1.row.range # "checked"
        <5>1. s1.row.range = "reduced"
          BY <1>1, <2>3, <4>2 DEF UnwrapRow
        <5>2. Unwrap!LastFrame >= 0
          BY <1>1, <3>1, <5>1, UnwrapLastLeast
        <5>3. QED
          BY <1>1, <4>2, <5>2
      <4>3. QED
        BY <4>1, <4>2
    <3> HIDE DEF d
    <3>4. s3'.declared = d
      BY <1>1, <2>3 DEF UnwrapOuts
    <3>5. QED
      BY <2>1, <3>3, <3>4 DEF UnwrapRanges
  <2>4. QED
    BY <1>6, <2>2, <2>3 DEF Unwrap!Prepare, Unwrap!Row, Unwrap!Opt
<1>7. CASE Unwrap!CopyFrame
  <2>1. s3'.declared = s3.declared
    <3>1. \A x : [s3 EXCEPT !.frames = Append(@, x)].declared = s3.declared
      BY <1>1 DEF UnwrapOuts
    <3>2. QED
      BY <1>7, <3>1 DEF Unwrap!CopyFrame
  <2>2. s2'.next = s2.next \/ s2'.next = s2.next + 1
    <3>1. \A e : [s2 EXCEPT !.eye = e].next = s2.next /\ [s2 EXCEPT !.next = s2.next + 1, !.eye = e].next = s2.next + 1
      BY <1>1 DEF UnwrapRuns
    <3>2. [s2 EXCEPT !.pc = "list", !.failed = TRUE].next = s2.next
      BY <1>1 DEF UnwrapRuns
    <3>3. QED
      BY <1>4, <1>7, <3>1, <3>2 DEF Unwrap!CopyFrame
  <2>3. s2.next < Unwrap!LastFrame
    BY <1>7 DEF Unwrap!CopyFrame
  <2>4. QED
    BY <1>1, <2>1, <2>2, <2>3 DEF UnwrapRanges
<1>8. CASE Unwrap!ReadDocument
  <2>1. [s3 EXCEPT !.frames = <<<<0, 1>>>>].declared = s3.declared
    BY <1>1 DEF UnwrapOuts
  <2>2. QED
    BY <1>2, <1>3, <1>4, <1>8, <2>1 DEF Unwrap!ReadDocument
<1>9. CASE Unwrap!ReadResource \/ Unwrap!ReadTarget
  <2>1. \A x : [s3 EXCEPT !.items = @ \cup x].declared = s3.declared
    BY <1>1 DEF UnwrapOuts
  <2>2. \A k : [s2 EXCEPT !.item = k].next = s2.next
    BY <1>1 DEF UnwrapRuns
  <2>3. s3'.declared = s3.declared
    BY <1>9, <2>1 DEF Unwrap!ReadResource, Unwrap!ReadTarget
  <2>4. s2'.next = s2.next
    <3>1. CASE Unwrap!ReadResource
      BY ONLY <1>4, <2>2, <3>1 DEF Unwrap!ReadResource
    <3>2. CASE Unwrap!ReadTarget
      <4>1. \/ s2' = [s2 EXCEPT !.item = s2.item + 1, !.result = "OK"]
            \/ s2' = [s2 EXCEPT !.item = s2.item + 1, !.result = "FAIL", !.failed = TRUE]
            \/ Unwrap!Stop(s2.result)
        BY ONLY <3>2 DEF Unwrap!ReadTarget
      <4>2. CASE s2' = [s2 EXCEPT !.item = s2.item + 1, !.result = "OK"]
        BY ONLY <1>1, <4>2 DEF UnwrapRuns
      <4>3. CASE s2' = [s2 EXCEPT !.item = s2.item + 1, !.result = "FAIL", !.failed = TRUE]
        BY ONLY <1>1, <4>3 DEF UnwrapRuns
      <4>4. QED
        BY ONLY <1>4, <4>1, <4>2, <4>3
    <3>3. QED
      BY <1>9, <3>1, <3>2
  <2>5. QED
    BY <1>2, <2>3, <2>4
<1>10. CASE Unwrap!ListTargets
  <2>1. [s2 EXCEPT !.pc = "targets", !.result = "OK"].next = s2.next
    BY <1>1 DEF UnwrapRuns
  <2>2. QED
    BY <1>2, <1>4, <1>10, <2>1 DEF Unwrap!ListTargets
<1>11. CASE UNCHANGED <<s1, s2, s3>> \/ Unwrap!Exit
  BY <1>2, <1>11 DEF Unwrap!Exit, Unwrap!vars
<1>12. QED
  BY <1>5, <1>6, <1>7, <1>8, <1>9, <1>10, <1>11 DEF Unwrap!Next, Unwrap!Proceed

-----------------------------------------------------------------------------
(* FileAccess: its disk is s1, its queue s2, what was written s3; source and
   reading are s5 and s6. The queue holds no more buffers than the packets that
   failed since the last good one had; once it is full it stays full. *)

FileCells == Nat \X Nat \X Nat
FileQueues == Seq(Nat \X Nat)
FileEntries ==
  [kind : {1, 2, 3}, result : {"OK", "FAIL", "FULL"}, from : Nat, to : Nat, left : Nat]

LEMMA FileGathered ==
  ASSUME NEW n \in Nat, NEW q \in FileQueues
  PROVE  File!Gathered(n, q) \in Seq(FileCells) /\ Len(File!Gathered(n, q)) = 2 * Len(q)
<1> DEFINE cell(k) == LET i == (k + 1) \div 2
                          half == IF k % 2 = 1 THEN 1 ELSE 2
                      IN  IF q[i][1] = n THEN File!Cell(n, q[i][2], half) ELSE File!Cell(0, i, half)
<1>1. \A k \in 1 .. 2 * Len(q) : cell(k) \in FileCells
  <2> SUFFICES ASSUME NEW k \in 1 .. 2 * Len(q) PROVE cell(k) \in FileCells
    OBVIOUS
  <2>1. (k + 1) \div 2 \in 1 .. Len(q)
    BY DEF FileQueues
  <2>2. \A i \in 1 .. Len(q) : q[i] \in Nat \X Nat
    BY DEF FileQueues
  <2>3. q[(k + 1) \div 2][2] \in Nat
    BY <2>1, <2>2
  <2>4. QED
    BY <2>1, <2>3 DEF FileCells, File!Cell
<1>2. File!Gathered(n, q) = [k \in 1 .. 2 * Len(q) |-> cell(k)]
  BY DEF File!Gathered
<1>3. 2 * Len(q) \in Nat
  BY DEF FileQueues
<1> HIDE DEF cell
<1>4. \A m \in Nat : (\A k \in 1 .. m : cell(k) \in FileCells) =>
        [k \in 1 .. m |-> cell(k)] \in Seq(FileCells) /\ Len([k \in 1 .. m |-> cell(k)]) = m
  OBVIOUS
<1>5. QED
  BY <1>1, <1>2, <1>3, <1>4

LEMMA FileBuffers ==
  ASSUME NEW n \in Nat, NEW bufs \in Nat
  PROVE  File!Buffers(n, bufs) \in FileQueues /\ Len(File!Buffers(n, bufs)) = bufs
  BY DEF File!Buffers, FileQueues

LEMMA FilePacket ==
  ASSUME NEW n \in Nat, NEW bufs \in Nat
  PROVE  File!Packet(n, bufs) \in Seq(FileCells) /\ Len(File!Packet(n, bufs)) = 2 * bufs
<1>1. File!Buffers(n, bufs) \in FileQueues /\ Len(File!Buffers(n, bufs)) = bufs
  BY FileBuffers
<1>2. File!Gathered(n, File!Buffers(n, bufs)) \in Seq(FileCells) /\ Len(File!Gathered(n, File!Buffers(n, bufs))) = 2 * bufs
  BY <1>1, FileGathered
<1>3. QED
  BY <1>2 DEF File!Packet

\* Whatever the queue held before, the memory of a packet comes last.
LEMMA FilePacketLast ==
  ASSUME NEW n \in Nat, NEW q \in FileQueues, NEW bufs \in Nat
  PROVE  SubSeq(File!Gathered(n, q \o File!Buffers(n, bufs)), 2 * Len(q) + 1, 2 * Len(q) + 2 * bufs) = File!Packet(n, bufs)
<1> DEFINE own == File!Buffers(n, bufs)
           all == q \o own
           h(k) == IF k % 2 = 1 THEN 1 ELSE 2
<1>1. own \in FileQueues /\ Len(own) = bufs /\ (\A b \in 1 .. bufs : own[b] = <<n, b>>)
  BY FileBuffers DEF File!Buffers
<1>2. all \in FileQueues /\ Len(all) = Len(q) + bufs /\ (\A b \in 1 .. bufs : all[Len(q) + b] = own[b])
  <2> HIDE DEF own
  <2>1. \A x, y \in Seq(Nat \X Nat) :
          x \o y \in Seq(Nat \X Nat) /\ Len(x \o y) = Len(x) + Len(y) /\ (\A b \in 1 .. Len(y) : (x \o y)[Len(x) + b] = y[b])
    OBVIOUS
  <2>2. QED
    BY <1>1, <2>1 DEF FileQueues
<1>3. Len(q) \in Nat
  BY DEF FileQueues
<1>4. \A k \in 1 .. 2 * bufs :
        /\ 2 * Len(q) + k \in 1 .. 2 * Len(all) /\ (2 * Len(q) + k + 1) \div 2 = Len(q) + (k + 1) \div 2
        /\ (k + 1) \div 2 \in 1 .. bufs /\ h(2 * Len(q) + k) = h(k)
  BY <1>2, <1>3
<1>5. \A k \in 1 .. 2 * bufs : File!Gathered(n, all)[2 * Len(q) + k] = File!Cell(n, (k + 1) \div 2, h(k))
  <2> SUFFICES ASSUME NEW k \in 1 .. 2 * bufs
        PROVE  File!Gathered(n, all)[2 * Len(q) + k] = File!Cell(n, (k + 1) \div 2, h(k))
    OBVIOUS
  <2> DEFINE i == (2 * Len(q) + k + 1) \div 2
  <2>1. File!Gathered(n, all)[2 * Len(q) + k] =
          IF all[i][1] = n THEN File!Cell(n, all[i][2], h(2 * Len(q) + k)) ELSE File!Cell(0, i, h(2 * Len(q) + k))
    BY <1>4 DEF File!Gathered
  <2>2. all[i] = <<n, (k + 1) \div 2>>
    BY <1>1, <1>2, <1>4
  <2>3. QED
    BY <1>4, <2>1, <2>2
<1>6. \A k \in 1 .. 2 * bufs : File!Packet(n, bufs)[k] = File!Cell(n, (k + 1) \div 2, h(k))
  <2> SUFFICES ASSUME NEW k \in 1 .. 2 * bufs
        PROVE  File!Packet(n, bufs)[k] = File!Cell(n, (k + 1) \div 2, h(k))
    OBVIOUS
  <2>1. k \in 1 .. 2 * Len(own)
    BY <1>1
  <2>2. File!Packet(n, bufs)[k] = IF own[(k + 1) \div 2][1] = n THEN File!Cell(n, own[(k + 1) \div 2][2], h(k)) ELSE File!Cell(0, (k + 1) \div 2, h(k))
    BY <2>1 DEF File!Packet, File!Gathered
  <2>3. QED
    BY <1>1, <1>4, <2>2
<1>7. /\ File!Gathered(n, all) \in Seq(FileCells) /\ Len(File!Gathered(n, all)) = 2 * Len(q) + 2 * bufs
      /\ File!Packet(n, bufs) \in Seq(FileCells) /\ Len(File!Packet(n, bufs)) = 2 * bufs
  <2> HIDE DEF all
  <2>1. File!Gathered(n, all) \in Seq(FileCells) /\ Len(File!Gathered(n, all)) = 2 * Len(all)
    BY <1>2, FileGathered
  <2>2. File!Gathered(n, own) \in Seq(FileCells) /\ Len(File!Gathered(n, own)) = 2 * Len(own)
    BY <1>1, FileGathered
  <2>3. QED
    BY <1>1, <1>2, <1>3, <2>1, <2>2 DEF File!Packet
<1> HIDE DEF own, all, h
<1>8. \A x, y \in Seq(FileCells) : \A m, k \in Nat :
        Len(x) = m + k /\ Len(y) = k /\ (\A j \in 1 .. k : x[m + j] = y[j]) => SubSeq(x, m + 1, m + k) = y
  OBVIOUS
<1>9. \A j \in 1 .. 2 * bufs : File!Gathered(n, all)[2 * Len(q) + j] = File!Packet(n, bufs)[j]
  BY <1>5, <1>6
<1>10. QED
  BY <1>3, <1>7, <1>8, <1>9 DEF all, own

\* Of two sequences, one after the other
LEMMA FileParts ==
  ASSUME NEW S, NEW x \in Seq(S), NEW y \in Seq(S)
  PROVE  /\ x \o y \in Seq(S) /\ Len(x \o y) = Len(x) + Len(y)
         /\ \A a \in Nat \ {0}, b \in Nat : b <= Len(x) => SubSeq(x \o y, a, b) = SubSeq(x, a, b)
         /\ \A a \in Nat \ {0}, b \in Nat : b <= Len(y) => SubSeq(x \o y, Len(x) + a, Len(x) + b) = SubSeq(y, a, b)
<1>1. x \o y \in Seq(S) /\ Len(x \o y) = Len(x) + Len(y)
  OBVIOUS
<1>2. \A a \in Nat \ {0}, b \in Nat : b <= Len(x) => SubSeq(x \o y, a, b) = SubSeq(x, a, b)
  OBVIOUS
<1>3. \A a \in Nat \ {0}, b \in Nat : b <= Len(y) => SubSeq(x \o y, Len(x) + a, Len(x) + b) = SubSeq(y, a, b)
  OBVIOUS
<1>4. QED
  BY <1>1, <1>2, <1>3

\* The packets written so far, and what the file and the queue hold of them
FileKept(w, i, disk) ==
  LET own == 2 * w.kind
  IN  w.result = "OK" =>
        /\ w.to <= Len(disk) /\ w.to - own >= 0
        /\ SubSeq(disk, w.to - own + 1, w.to) = File!Packet(i, w.kind)
        /\ w.kind = 1 \/ w.left = 0 => w.to - w.from = own

FileRefused(w, i) ==
  w.result = "FULL" =>
    /\ w.left + w.kind > IOVecMaxEntries /\ w.kind # 1
    /\ Len(s2) = IOVecMaxEntries
    /\ \A j \in i .. Len(s3) : s3[j].kind # 1 => s3[j].result = "FULL"

FileWritten ==
  /\ s1 \in Seq(FileCells) /\ s2 \in FileQueues /\ s3 \in Seq(FileEntries)
  /\ Len(s2) <= IOVecMaxEntries /\ Len(s2) <= File!Left
  /\ \A i \in DOMAIN s3 : FileKept(s3[i], i, s1) /\ FileRefused(s3[i], i)

LEMMA FileLeft == s3 \in Seq(FileEntries) => File!Left \in Nat
<1> SUFFICES ASSUME s3 \in Seq(FileEntries), s3 # <<>> PROVE File!Left \in Nat
  BY DEF File!Left
<1>1. s3[Len(s3)] \in FileEntries
  OBVIOUS
<1>2. s3[Len(s3)].left \in Nat /\ s3[Len(s3)].kind \in Nat
  BY <1>1 DEF FileEntries
<1>3. QED
  BY <1>2 DEF File!Left, File!Last

\* What a call that writes adds to the history, and to what Left says
LEMMA FileWrote ==
  ASSUME FileWritten, NEW kind \in {1, 2, 3}, NEW result \in {"OK", "FAIL", "FULL"}, File!Wrote(kind, result), s1' \in Seq(FileCells)
  PROVE  LET w == [kind |-> kind, result |-> result, from |-> Len(s1), to |-> Len(s1'), left |-> File!Left]
         IN  /\ s3' = Append(s3, w) /\ w \in FileEntries /\ s3' \in Seq(FileEntries)
             /\ File!Left' = IF kind = 1 THEN File!Left ELSE IF result = "OK" THEN 0 ELSE File!Left + kind
<1> DEFINE w == [kind |-> kind, result |-> result, from |-> Len(s1), to |-> Len(s1'), left |-> File!Left]
<1>1. Len(s1) \in Nat /\ Len(s1') \in Nat /\ File!Left \in Nat /\ s3 \in Seq(FileEntries)
  BY FileLeft DEF FileWritten
<1>2. s3' = Append(s3, w)
  BY DEF File!Wrote
<1>3. w \in FileEntries
  BY <1>1 DEF FileEntries
<1>4. s3' \in Seq(FileEntries) /\ s3' # <<>> /\ s3'[Len(s3')] = w
  <2> HIDE DEF w
  <2>1. QED
    BY <1>1, <1>2, <1>3
<1>5. File!Left' = IF w.kind \notin {2, 3} THEN w.left ELSE IF w.result = "OK" THEN 0 ELSE w.left + w.kind
  <2> HIDE DEF w
  <2>1. QED
    BY <1>4 DEF File!Left, File!Last, File!Write_EKLV
<1>6. QED
  BY <1>2, <1>3, <1>4, <1>5

\* What was written stays written.
LEMMA FileGrows ==
  ASSUME FileWritten, NEW w \in FileEntries, NEW more \in Seq(FileCells),
         s1' = s1 \o more, s3' = Append(s3, w), Len(s2) = IOVecMaxEntries => Len(s2') = IOVecMaxEntries,
         Len(s2) = IOVecMaxEntries /\ w.kind # 1 => w.result = "FULL",
         FileKept(w, Len(s3) + 1, s1'),
         w.result = "FULL" => w.left + w.kind > IOVecMaxEntries /\ w.kind # 1 /\ Len(s2') = IOVecMaxEntries
  PROVE  (\A i \in DOMAIN s3 : FileKept(s3[i], i, s1) /\ FileRefused(s3[i], i))'
<1>1. s1 \in Seq(FileCells) /\ s3 \in Seq(FileEntries) /\ Len(s3) \in Nat /\ Len(s1) \in Nat /\ Len(more) \in Nat
  BY DEF FileWritten
<1>2. Len(s3') = Len(s3) + 1 /\ s3'[Len(s3) + 1] = w /\ (\A i \in 1 .. Len(s3) : s3'[i] = s3[i]) /\ DOMAIN s3' = 1 .. Len(s3) + 1
  BY <1>1
<1>3. \A i \in 1 .. Len(s3) : FileKept(s3[i], i, s1) /\ FileRefused(s3[i], i) /\ s3[i] \in FileEntries
  BY <1>1 DEF FileWritten
<1>4. ASSUME NEW i \in 1 .. Len(s3) PROVE FileKept(s3[i], i, s1')
  <2>1. /\ s3[i].to \in Nat /\ s3[i].kind \in {1, 2, 3}
    BY <1>3 DEF FileEntries
  <2>2. ASSUME s3[i].result = "OK"
        PROVE  SubSeq(s1', s3[i].to - 2 * s3[i].kind + 1, s3[i].to) = SubSeq(s1, s3[i].to - 2 * s3[i].kind + 1, s3[i].to)
               /\ s3[i].to <= Len(s1')
    <3>1. FileKept(s3[i], i, s1)
      BY <1>3
    <3>2. s3[i].to <= Len(s1) /\ s3[i].to - 2 * s3[i].kind >= 0
      BY <2>2, <3>1 DEF FileKept
    <3>3. s3[i].to - 2 * s3[i].kind + 1 \in Nat \ {0}
      BY <2>1, <3>2, SMTT(30)
    <3>4. /\ Len(s1 \o more) = Len(s1) + Len(more)
          /\ \A a \in Nat \ {0}, b \in Nat : b <= Len(s1) => SubSeq(s1 \o more, a, b) = SubSeq(s1, a, b)
      BY <1>1, FileParts
    <3>5. SubSeq(s1 \o more, s3[i].to - 2 * s3[i].kind + 1, s3[i].to) = SubSeq(s1, s3[i].to - 2 * s3[i].kind + 1, s3[i].to)
      BY <2>1, <3>2, <3>3, <3>4
    <3>6. s3[i].to <= Len(s1')
      BY <1>1, <2>1, <3>2, <3>4
    <3>7. QED
      BY <3>5, <3>6
  <2>3. QED
    BY <1>3, <2>2 DEF FileKept
<1>5. ASSUME NEW i \in 1 .. Len(s3), s3[i].result = "FULL"
      PROVE  /\ s3[i].left + s3[i].kind > IOVecMaxEntries /\ s3[i].kind # 1 /\ Len(s2') = IOVecMaxEntries
             /\ \A j \in i .. Len(s3) + 1 : s3'[j].kind # 1 => s3'[j].result = "FULL"
  <2>1. /\ s3[i].left + s3[i].kind > IOVecMaxEntries /\ s3[i].kind # 1 /\ Len(s2) = IOVecMaxEntries
        /\ \A j \in i .. Len(s3) : s3[j].kind # 1 => s3[j].result = "FULL"
    BY <1>3, <1>5 DEF FileRefused
  <2>2. ASSUME NEW j \in i .. Len(s3) + 1, s3'[j].kind # 1 PROVE s3'[j].result = "FULL"
    <3>1. CASE j = Len(s3) + 1
      BY <1>2, <2>1, <2>2, <3>1
    <3>2. CASE j # Len(s3) + 1
      <4>1. j \in i .. Len(s3) /\ j \in 1 .. Len(s3)
        <5>1. Len(s3) \in Nat /\ i \in 1 .. Len(s3) /\ j \in i .. Len(s3) + 1 /\ j # Len(s3) + 1
          BY <1>1, <1>5, <2>2, <3>2
        <5>2. \A m \in Nat : \A a \in 1 .. m : \A b \in a .. m + 1 : b # m + 1 => b \in a .. m /\ b \in 1 .. m
          OBVIOUS
        <5>3. QED
          BY <5>1, <5>2
      <4>2. s3'[j] = s3[j]
        BY <1>2, <4>1
      <4>3. QED
        BY <2>1, <2>2, <4>1, <4>2
    <3>3. QED
      BY <3>1, <3>2
  <2>3. QED
    BY <2>1, <2>2
<1>6. ASSUME NEW i \in 1 .. Len(s3) PROVE FileKept(s3'[i], i, s1') /\ (FileRefused(s3[i], i))'
  <2>1. s3'[i] = s3[i]
    BY <1>2
  <2>2. (FileRefused(s3[i], i))'
    BY <1>2, <1>5, <2>1 DEF FileRefused
  <2>3. QED
    BY <1>4, <2>1, <2>2
<1>7. (FileRefused(s3[Len(s3)], Len(s3)))'
  BY <1>1, <1>2 DEF FileRefused
<1>8. ASSUME NEW i \in 1 .. Len(s3) + 1 PROVE FileKept(s3'[i], i, s1') /\ (FileRefused(s3[i], i))'
  <2>1. CASE i = Len(s3) + 1
    BY <1>2, <1>7, <2>1
  <2>2. CASE i # Len(s3) + 1
    BY <1>1, <1>6, <2>2
  <2>3. QED
    BY <2>1, <2>2
<1>9. QED
  BY <1>2, <1>8

LEMMA FileOpened == ASSUME File!OpenWrite PROVE FileWritten'
<1>1. s1' = <<>> /\ s2' = <<>> /\ s3' = <<>>
  BY DEF File!OpenWrite
<1>2. File!Left' = 0
  BY <1>1 DEF File!Left
<1>3. IOVecMaxEntries \in Nat
  BY ComponentsAssumption DEF File!FileAssumption
<1>4. /\ <<>> \in Seq(FileCells) /\ <<>> \in FileQueues /\ <<>> \in Seq(FileEntries)
  BY DEF FileQueues
<1>5. Len(s2') <= IOVecMaxEntries /\ Len(s2') <= File!Left' /\ DOMAIN s3' = {}
  BY <1>1, <1>2, <1>3
<1>6. QED
  BY <1>1, <1>4, <1>5 DEF FileWritten

\* What all that writes has in common
LEMMA FileAdds ==
  ASSUME FileWritten, NEW kind \in {1, 2, 3}, NEW result \in {"OK", "FAIL", "FULL"}, NEW more \in Seq(FileCells),
         File!Wrote(kind, result), s1' = s1 \o more,
         s2' \in FileQueues, Len(s2') <= IOVecMaxEntries,
         Len(s2') <= IF kind = 1 THEN File!Left ELSE IF result = "OK" THEN 0 ELSE File!Left + kind,
         Len(s2) = IOVecMaxEntries => Len(s2') = IOVecMaxEntries,
         Len(s2) = IOVecMaxEntries /\ kind # 1 => result = "FULL",
         result = "OK" => Len(more) >= 2 * kind
                          /\ SubSeq(more, Len(more) - 2 * kind + 1, Len(more)) = File!Packet(Len(s3) + 1, kind)
                          /\ (kind = 1 \/ File!Left = 0 => Len(more) = 2 * kind),
         result = "FULL" => File!Left + kind > IOVecMaxEntries /\ kind # 1 /\ Len(s2') = IOVecMaxEntries
  PROVE  FileWritten'
<1> DEFINE w == [kind |-> kind, result |-> result, from |-> Len(s1), to |-> Len(s1'), left |-> File!Left]
<1>1. s1 \in Seq(FileCells) /\ s3 \in Seq(FileEntries) /\ Len(s1) \in Nat /\ Len(more) \in Nat /\ kind \in Nat
  BY DEF FileWritten
<1>2. s1' \in Seq(FileCells) /\ Len(s1') = Len(s1) + Len(more)
  BY <1>1, FileParts
<1>3. /\ s3' = Append(s3, w) /\ w \in FileEntries /\ s3' \in Seq(FileEntries)
      /\ File!Left' = IF kind = 1 THEN File!Left ELSE IF result = "OK" THEN 0 ELSE File!Left + kind
  BY <1>2, FileWrote
<1>4. FileKept(w, Len(s3) + 1, s1')
  <2>1. ASSUME result = "OK"
        PROVE  SubSeq(s1', Len(s1') - 2 * kind + 1, Len(s1')) = File!Packet(Len(s3) + 1, kind)
    <3>1. Len(more) - 2 * kind + 1 \in Nat \ {0}
      BY <1>1, <2>1
    <3>2. \A a \in Nat \ {0}, b \in Nat : b <= Len(more) =>
            SubSeq(s1 \o more, Len(s1) + a, Len(s1) + b) = SubSeq(more, a, b)
      BY <1>1, FileParts
    <3>3. SubSeq(s1 \o more, Len(s1) + (Len(more) - 2 * kind + 1), Len(s1) + Len(more)) =
            SubSeq(more, Len(more) - 2 * kind + 1, Len(more))
      BY <1>1, <3>1, <3>2, SMTT(30)
    <3>4. Len(s1) + (Len(more) - 2 * kind + 1) = Len(s1') - 2 * kind + 1
      BY <1>1, <1>2
    <3>5. QED
      BY <1>2, <2>1, <3>3, <3>4
  <2>2. QED
    BY <1>1, <1>2, <2>1 DEF FileKept
<1>5. w.kind = kind /\ w.result = result /\ w.left = File!Left
  OBVIOUS
<1> HIDE DEF w
<1>6. (\A i \in DOMAIN s3 : FileKept(s3[i], i, s1) /\ FileRefused(s3[i], i))'
  BY <1>3, <1>4, <1>5, FileGrows
<1>7. QED
  BY <1>2, <1>3, <1>6 DEF FileWritten

LEMMA FileWrite == ASSUME FileWritten, File!Write PROVE FileWritten'
<1> DEFINE n == Len(s3) + 1
           own == File!Packet(n, 1)
<1>1. s1 \in Seq(FileCells) /\ s2 \in FileQueues /\ s3 \in Seq(FileEntries) /\ File!Left \in Nat
      /\ Len(s2) <= IOVecMaxEntries /\ Len(s2) <= File!Left /\ s2' = s2
  BY FileLeft DEF FileWritten, File!Write
<1>2. n \in Nat /\ File!Number = n
  BY <1>1 DEF File!Number
<1> HIDE DEF n
<1>3. own \in Seq(FileCells) /\ Len(own) = 2
  <2>1. File!Packet(n, 1) \in Seq(FileCells) /\ Len(File!Packet(n, 1)) = 2 * 1
    BY <1>2, FilePacket
  <2>2. QED
    BY <2>1
<1>4. CASE s1' = s1 \o own /\ File!Wrote(1, "OK")
  <2> HIDE DEF own
  <2>1. SubSeq(own, 1, 2) = own
    BY <1>3
  <2>2. Len(own) >= 2 * 1 /\ Len(own) = 2 * 1 /\ SubSeq(own, Len(own) - 2 * 1 + 1, Len(own)) = own
    BY <1>3, <2>1
  <2>3. own = File!Packet(Len(s3) + 1, 1)
    BY DEF own, n
  <2>4. QED
    BY <1>1, <1>3, <1>4, <2>2, <2>3, FileAdds
<1>5. CASE (\E k \in {0, 1} : s1' = s1 \o SubSeq(own, 1, k)) /\ File!Wrote(1, "FAIL")
  <2>1. PICK k \in {0, 1} : s1' = s1 \o SubSeq(own, 1, k)
    BY <1>5
  <2> HIDE DEF own
  <2>2. SubSeq(own, 1, k) \in Seq(FileCells)
    BY <1>3
  <2>3. QED
    BY <1>1, <1>5, <2>1, <2>2, FileAdds
<1>6. QED
  BY <1>2, <1>4, <1>5 DEF File!Write

LEMMA FileWritePacket ==
  ASSUME FileWritten, NEW bufs \in {2, 3}, File!WritePacket(bufs)
  PROVE  FileWritten'
<1> DEFINE n == Len(s3) + 1
           own == File!Buffers(n, bufs)
           room == IOVecMaxEntries - Len(s2)
           q == s2 \o own
           cells == File!Gathered(n, q)
<1>1. s1 \in Seq(FileCells) /\ s2 \in FileQueues /\ s3 \in Seq(FileEntries) /\ File!Left \in Nat
      /\ Len(s2) <= IOVecMaxEntries /\ Len(s2) <= File!Left
  BY FileLeft DEF FileWritten
<1>2. IOVecMaxEntries \in Nat /\ Len(s2) \in Nat
  BY <1>1, ComponentsAssumption DEF File!FileAssumption, FileQueues
<1>3. n \in Nat /\ File!Number = n /\ bufs \in Nat /\ bufs \in {1, 2, 3} /\ bufs # 1
  BY <1>1 DEF File!Number
<1> HIDE DEF n
<1>4. own \in FileQueues /\ Len(own) = bufs
  BY <1>3, FileBuffers
<1>5. SubSeq(cells, 2 * Len(s2) + 1, 2 * Len(s2) + 2 * bufs) = File!Packet(n, bufs)
  BY <1>1, <1>3, FilePacketLast
<1> HIDE DEF own
<1>6. q \in FileQueues /\ Len(q) = Len(s2) + bufs
  <2>1. \A x, y \in Seq(Nat \X Nat) : x \o y \in Seq(Nat \X Nat) /\ Len(x \o y) = Len(x) + Len(y)
    OBVIOUS
  <2>2. QED
    BY <1>1, <1>4, <2>1 DEF FileQueues
<1> HIDE DEF q
<1>7. cells \in Seq(FileCells) /\ Len(cells) = 2 * (Len(s2) + bufs)
  BY <1>3, <1>6, FileGathered
<1> HIDE DEF cells
<1>8. CASE bufs > room /\ s2' = s2 \o SubSeq(own, 1, room) /\ s1' = s1 /\ File!Wrote(bufs, "FULL")
  <2>1. room \in 0 .. bufs - 1
    BY <1>1, <1>2, <1>3, <1>8
  <2>2. \A x \in Seq(Nat \X Nat) : \A k \in 0 .. Len(x) :
          SubSeq(x, 1, k) \in Seq(Nat \X Nat) /\ Len(SubSeq(x, 1, k)) = k
    OBVIOUS
  <2>3. \A x, y \in Seq(Nat \X Nat) : x \o y \in Seq(Nat \X Nat) /\ Len(x \o y) = Len(x) + Len(y)
    OBVIOUS
  <2> HIDE DEF room
  <2>4. room \in 0 .. Len(own)
    BY <1>3, <1>4, <2>1
  <2>5. SubSeq(own, 1, room) \in Seq(Nat \X Nat) /\ Len(SubSeq(own, 1, room)) = room
    BY <1>4, <2>2, <2>4 DEF FileQueues
  <2>6. s2' \in FileQueues /\ Len(s2') = Len(s2) + room
    BY <1>1, <1>8, <2>3, <2>5 DEF FileQueues
  <2>7. Len(s2') = IOVecMaxEntries /\ IOVecMaxEntries < File!Left + bufs
    BY <1>1, <1>2, <1>3, <1>8, <2>1, <2>6 DEF room
  <2>8. <<>> \in Seq(FileCells) /\ s1' = s1 \o <<>>
    BY <1>1, <1>8
  <2>9. Len(s2') <= IOVecMaxEntries /\ Len(s2') <= File!Left + bufs /\ File!Left + bufs > IOVecMaxEntries
    BY <1>1, <1>2, <1>3, <2>7
  <2>10. QED
    BY <1>3, <1>8, <2>6, <2>7, <2>8, <2>9, FileAdds
<1>9. CASE bufs <= room /\ s2' = <<>> /\ s1' = s1 \o cells /\ File!Wrote(bufs, "OK")
  <2>1. s2' \in FileQueues /\ Len(s2') = 0 /\ Len(s2') <= IOVecMaxEntries
    BY <1>2, <1>9 DEF FileQueues
  <2>2. Len(s2) # IOVecMaxEntries
    BY <1>2, <1>3, <1>9
  <2>3. Len(cells) >= 2 * bufs /\ (File!Left = 0 => Len(cells) = 2 * bufs)
    BY <1>1, <1>2, <1>3, <1>7
  <2>4. Len(cells) - 2 * bufs + 1 = 2 * Len(s2) + 1 /\ Len(cells) = 2 * Len(s2) + 2 * bufs
    BY <1>2, <1>3, <1>7
  <2>5. SubSeq(cells, Len(cells) - 2 * bufs + 1, Len(cells)) = File!Packet(Len(s3) + 1, bufs)
    BY <1>5, <2>4 DEF n
  <2>6. /\ s1' = s1 \o cells /\ File!Wrote(bufs, "OK") /\ s2' \in FileQueues /\ Len(s2') <= 0
        /\ Len(s2) # IOVecMaxEntries /\ bufs # 1 /\ bufs \in {1, 2, 3} /\ Len(s2') <= IOVecMaxEntries
    BY <1>3, <1>9, <2>1, <2>2
  <2>7. QED
    BY ONLY FileWritten, <1>7, <2>3, <2>5, <2>6, FileAdds
<1>10. CASE bufs <= room /\ s2' = q /\ (\E k \in 0 .. Len(cells) - 1 : s1' = s1 \o SubSeq(cells, 1, k)) /\ File!Wrote(bufs, "FAIL")
  <2>1. PICK k \in 0 .. Len(cells) - 1 : s1' = s1 \o SubSeq(cells, 1, k)
    BY <1>10
  <2>2. SubSeq(cells, 1, k) \in Seq(FileCells)
    BY <1>7, <2>1
  <2>3. s2' \in FileQueues /\ Len(s2') <= IOVecMaxEntries /\ Len(s2') <= File!Left + bufs /\ Len(s2) # IOVecMaxEntries
    BY <1>1, <1>2, <1>3, <1>6, <1>10
  <2>4. QED
    BY <1>3, <1>10, <2>1, <2>2, <2>3, FileAdds
<1>11. QED
  BY <1>3, <1>8, <1>9, <1>10 DEF File!WritePacket, File!Room, File!AfterFlush, own, q, cells

-----------------------------------------------------------------------------
(* FileAccess: the file that is read *)

FilePlaces == {"idle", "open", "read", "done"}
FileResults == {"none", "OK", "ALLOC", "FILEOPEN", "PTR", "ENDOFFILE", "READFAIL", "ABORT"}

FileReadings ==
  [pc : FilePlaces, into : {"none", "string", "buffer", "object"},
   size : 0 .. MaxSize, seen : {0, 1}, got : 0 .. MaxSize, whole : BOOLEAN, result : FileResults]

\* The size that was taken is that of the file until another program changes it.
FileTaken ==
  /\ s5 \in [size : 0 .. MaxSize, changes : {0, 1}] /\ s6 \in FileReadings
  /\ s6.got <= s6.size /\ s6.seen <= s5.changes
  /\ s6.pc # "idle" /\ s6.seen = s5.changes => s6.size = s5.size
  /\ s6.pc # "done" => s6.got = 0
  /\ File!ReadWhole

LEMMA FileLess ==
  \A a, b \in Nat : File!Min({a, b}) \in {a, b} /\ File!Min({a, b}) <= a /\ File!Min({a, b}) <= b
<1> SUFFICES ASSUME NEW a \in Nat, NEW b \in Nat
      PROVE File!Min({a, b}) \in {a, b} /\ File!Min({a, b}) <= a /\ File!Min({a, b}) <= b
  OBVIOUS
<1>1. \E x \in {a, b} : \A y \in {a, b} : x <= y
  OBVIOUS
<1>2. QED
  BY <1>1 DEF File!Min

LEMMA FileReadUpdates ==
  \A r \in FileReadings :
    /\ \A p \in FilePlaces : [r EXCEPT !.pc = p] \in FileReadings
    /\ \A o \in FileResults : [r EXCEPT !.pc = "done", !.result = o] \in FileReadings
    /\ \A p \in FilePlaces, i \in {"string", "buffer", "object"}, n \in 0 .. MaxSize, c \in {0, 1} :
         [r EXCEPT !.pc = p, !.into = i, !.size = n, !.seen = c] \in FileReadings
    /\ \A n \in 0 .. MaxSize, b \in BOOLEAN, o \in FileResults :
         [r EXCEPT !.pc = "done", !.got = n, !.whole = b, !.result = o] \in FileReadings
<1> DEFINE Intos == {"none", "string", "buffer", "object"}
           Sizes == 0 .. MaxSize
           Changes == {0, 1}
<1>1. FileReadings = [pc : FilePlaces, into : Intos, size : Sizes, seen : Changes, got : Sizes, whole : BOOLEAN, result : FileResults]
  BY DEF FileReadings
<1>2. "done" \in FilePlaces /\ (\A i \in {"string", "buffer", "object"} : i \in Intos)
  BY DEF FilePlaces
<1> HIDE DEF Intos, Sizes, Changes
<1>3. \A r \in FileReadings :
    /\ \A p \in FilePlaces : [r EXCEPT !.pc = p] \in FileReadings
    /\ \A o \in FileResults : [r EXCEPT !.pc = "done", !.result = o] \in FileReadings
    /\ \A p \in FilePlaces, i \in Intos, n \in Sizes, c \in Changes :
         [r EXCEPT !.pc = p, !.into = i, !.size = n, !.seen = c] \in FileReadings
    /\ \A n \in Sizes, b \in BOOLEAN, o \in FileResults :
         [r EXCEPT !.pc = "done", !.got = n, !.whole = b, !.result = o] \in FileReadings
  BY <1>1, <1>2
<1>4. QED
  BY <1>2, <1>3 DEF Sizes, Changes

\* What a call that ends leaves of what is known
LEMMA FileEnded ==
  ASSUME FileTaken, s6.pc \in {"open", "read"}, s5' = s5, s6' \in FileReadings, s6'.pc = "done",
         s6'.result # "OK" \/ (s6.into = "string" /\ s6.size = 0 /\ s6.pc = "open"), s6'.result # "ABORT",
         s6'.size = s6.size, s6'.seen = s6.seen, s6'.got = s6.got, s6'.into = s6.into
  PROVE  FileTaken'
<1>1. File!ReadWhole'
  BY DEF File!ReadWhole, FileTaken
<1>2. QED
  BY <1>1 DEF FileTaken

LEMMA FileEnds ==
  ASSUME FileTaken, NEW o, o \in FileResults, File!Ends(o)
  PROVE  /\ s6' \in FileReadings /\ s6'.pc = "done" /\ s6'.result = o /\ s6'.size = s6.size /\ s6'.seen = s6.seen
         /\ s6'.got = s6.got /\ s6'.into = s6.into
<1>1. s6 \in FileReadings /\ s6' = [s6 EXCEPT !.pc = "done", !.result = o]
  BY DEF FileTaken, File!Ends
<1>2. s6' \in FileReadings
  BY <1>1, FileReadUpdates
<1>3. QED
  BY <1>1, <1>2 DEF FileReadings

LEMMA FileFails ==
  ASSUME FileTaken, s6.pc \in {"open", "read"}, s5' = s5,
         File!Ends("ALLOC") \/ File!Ends("FILEOPEN") \/ File!Ends("PTR") \/ File!Ends("ENDOFFILE") \/ File!Ends("READFAIL")
  PROVE  FileTaken'
<1>1. PICK o : o \in {"ALLOC", "FILEOPEN", "PTR", "ENDOFFILE", "READFAIL"} /\ File!Ends(o)
  OBVIOUS
<1>2. o \in FileResults /\ o # "OK" /\ o # "ABORT"
  BY <1>1 DEF FileResults
<1>3. /\ s6' \in FileReadings /\ s6'.pc = "done" /\ s6'.result = o /\ s6'.size = s6.size /\ s6'.seen = s6.seen
      /\ s6'.got = s6.got /\ s6'.into = s6.into
  BY <1>1, <1>2, FileEnds
<1>4. s6'.result # "OK" /\ s6'.result # "ABORT"
  BY <1>2, <1>3
<1>5. QED
  BY <1>3, <1>4, FileEnded

LEMMA FileChange == ASSUME FileTaken, File!Change PROVE FileTaken'
  BY DEF FileTaken, File!Change, File!ReadWhole, FileReadings

LEMMA FileTakeSize == ASSUME FileTaken, File!TakeSize PROVE FileTaken'
<1>1. PICK into \in {"string", "buffer", "object"} :
        s6' = [s6 EXCEPT !.pc = "open", !.into = into, !.size = s5.size, !.seen = s5.changes]
  BY DEF File!TakeSize
<1>2. s6 \in FileReadings /\ s6.pc = "idle" /\ s5.size \in 0 .. MaxSize /\ s5.changes \in {0, 1} /\ s5' = s5
  BY DEF FileTaken, File!TakeSize
<1>3. s6' \in FileReadings
  BY <1>1, <1>2, FileReadUpdates DEF FilePlaces
<1>4. s6'.pc = "open" /\ s6'.size = s5.size /\ s6'.seen = s5.changes /\ s6'.got = s6.got
  BY <1>1, <1>2 DEF FileReadings
<1>5. QED
  BY <1>2, <1>3, <1>4 DEF FileTaken, File!ReadWhole

LEMMA FileOpen == ASSUME FileTaken, File!Open PROVE FileTaken'
<1>1. s6 \in FileReadings /\ s6.pc = "open" /\ s5' = s5
  BY DEF FileTaken, File!Open
<1>2. CASE s6.into = "string" /\ s6.size = MaxSize /\ File!Ends("ALLOC")
  BY <1>1, <1>2, FileFails
<1>3. CASE s6.into = "string" /\ s6.size = 0 /\ File!Ends("OK")
  <2>1. PICK o : o = "OK" /\ File!Ends(o)
    BY <1>3
  <2>2. o \in FileResults
    BY <2>1 DEF FileResults
  <2>3. QED
    BY <1>1, <1>3, <2>1, <2>2, FileEnds, FileEnded
<1>4. CASE s6' = [s6 EXCEPT !.pc = "read"]
  <2>1. s6' \in FileReadings
    BY <1>1, <1>4, FileReadUpdates DEF FilePlaces
  <2>2. s6'.pc = "read" /\ s6'.size = s6.size /\ s6'.seen = s6.seen /\ s6'.got = s6.got
    BY <1>1, <1>4 DEF FileReadings
  <2>3. QED
    BY <1>1, <2>1, <2>2 DEF FileTaken, File!ReadWhole
<1>5. CASE File!Ends("FILEOPEN")
  BY <1>1, <1>5, FileFails
<1>6. QED
  BY <1>2, <1>3, <1>4, <1>5 DEF File!Open

LEMMA FileRead == ASSUME FileTaken, File!Read PROVE FileTaken'
<1>1. s6 \in FileReadings /\ s6.pc = "read" /\ s5' = s5
  BY DEF FileTaken, File!Read
<1>2. CASE File!Ends("PTR") \/ File!Ends("ENDOFFILE") \/ File!Ends("READFAIL")
  BY <1>1, <1>2, FileFails
<1>3. ASSUME NEW n \in 1 .. File!Min({s6.size, s5.size}), s6.size > 0,
             s6' = [s6 EXCEPT !.pc = "done", !.got = n, !.whole = n = File!Min({s6.size, s5.size}),
                              !.result = CASE s6.into = "string" -> "OK"
                                           [] s6.into = "buffer" -> File!BufferResult(n, s6.size)
                                           [] OTHER -> IF n = s6.size THEN "OK" ELSE "ABORT"]
      PROVE  FileTaken'
  <2> DEFINE least == File!Min({s6.size, s5.size})
             o == CASE s6.into = "string" -> "OK"
                    [] s6.into = "buffer" -> File!BufferResult(n, s6.size)
                    [] OTHER -> IF n = s6.size THEN "OK" ELSE "ABORT"
             b == n = least
  <2>1. s6.size \in Nat /\ s6.size <= MaxSize /\ s5.size \in Nat /\ s6.pc # "idle"
    BY <1>1, ComponentsAssumption DEF FileTaken, FileReadings, File!FileAssumption
  <2>2. least \in Nat /\ least <= s6.size /\ least <= s5.size /\ least \in {s6.size, s5.size}
    BY <2>1, FileLess
  <2>3. o \in FileResults /\ b \in BOOLEAN
        /\ (s6.into # "string" => (o = "OK" => n = s6.size) /\ (n = s6.size => o # "ABORT"))
        /\ (s6.into = "string" => o = "OK")
    <3> HIDE DEF least
    <3>1. QED
      BY <1>1 DEF FileResults, File!BufferResult
  <2> HIDE DEF o, least
  <2>4. n \in Nat /\ n <= least /\ n >= 1 /\ s6' = [s6 EXCEPT !.pc = "done", !.got = n, !.whole = b, !.result = o]
    BY <1>3, <2>2 DEF o, least
  <2> HIDE DEF b
  <2>5. n \in 0 .. MaxSize /\ n <= s6.size
    BY <2>1, <2>2, <2>4, ComponentsAssumption DEF File!FileAssumption
  <2>6. s6' \in FileReadings
    BY <1>1, <2>3, <2>4, <2>5, FileReadUpdates
  <2>7. /\ s6'.pc = "done" /\ s6'.got = n /\ s6'.whole = b /\ s6'.result = o /\ s6'.size = s6.size /\ s6'.seen = s6.seen
        /\ s6'.into = s6.into
    BY <1>1, <2>4 DEF FileReadings
  <2>8. b <=> n = least
    BY DEF b
  <2>9. File!ReadWhole'
    <3>1. s5.changes = s6.seen => s6.size = s5.size
      BY <2>1 DEF FileTaken
    <3>2. b /\ s5.changes = s6.seen => n = s6.size /\ n = s5.size
      BY <2>2, <2>8, <3>1
    <3>3. QED
      BY <1>1, <2>3, <2>7, <3>2 DEF File!ReadWhole
  <2>10. QED
    BY <1>1, <2>5, <2>6, <2>7, <2>9 DEF FileTaken
<1>4. QED
  BY <1>2, <1>3 DEF File!Read

-----------------------------------------------------------------------------
FileInv == FileWritten /\ FileTaken

LEMMA FileInit == File!Init => FileInv
<1> SUFFICES ASSUME File!Init PROVE FileInv
  OBVIOUS
<1>1. /\ s1 = <<>> /\ s2 = <<>> /\ s3 = <<>> /\ s5 \in [size : 0 .. MaxSize, changes : {0}]
      /\ s6 = [pc |-> "idle", into |-> "none", size |-> 0, seen |-> 0, got |-> 0, whole |-> TRUE, result |-> "none"]
  BY DEF File!Init, File!Idle
<1>2. IOVecMaxEntries \in Nat /\ MaxSize \in Nat
  BY ComponentsAssumption DEF File!FileAssumption
<1>3. File!Left = 0
  BY <1>1 DEF File!Left
<1>4. FileWritten
  BY <1>1, <1>2, <1>3 DEF FileWritten, FileQueues
<1>5. s6 \in FileReadings
  BY <1>1, <1>2 DEF FileReadings, FilePlaces, FileResults
<1>6. FileTaken
  BY <1>1, <1>2, <1>5 DEF FileTaken, File!ReadWhole
<1>7. QED
  BY <1>4, <1>6 DEF FileInv

LEMMA FileNext == FileInv /\ (File!Next \/ UNCHANGED <<s1, s2, s3, s4, s5, s6>>) => FileInv'
<1> SUFFICES ASSUME FileInv, File!Next \/ UNCHANGED <<s1, s2, s3, s4, s5, s6>> PROVE FileInv'
  OBVIOUS
<1>1. UNCHANGED <<s1, s2, s3>> => FileWritten'
  BY DEF FileInv, FileWritten, FileKept, FileRefused, File!Left, File!Last
<1>2. UNCHANGED <<s5, s6>> => FileTaken'
  BY DEF FileInv, FileTaken, File!ReadWhole
<1>3. CASE File!Writing
  <2>1. UNCHANGED <<s5, s6>>
    BY <1>3 DEF File!Writing, File!OpenWrite, File!WritePacket, File!Write
  <2>2. FileWritten'
    BY <1>3, FileOpened, FileWritePacket, FileWrite DEF FileInv, File!Writing, File!Write_EKLV
  <2>3. QED
    BY <1>2, <2>1, <2>2 DEF FileInv
<1>4. CASE File!Reading
  <2>1. UNCHANGED <<s1, s2, s3>>
    BY <1>4 DEF File!Reading, File!Change, File!TakeSize, File!Open, File!Read, File!Ends
  <2>2. FileTaken'
    BY <1>4, FileChange, FileTakeSize, FileOpen, FileRead DEF FileInv, File!Reading
  <2>3. QED
    BY <1>1, <2>1, <2>2 DEF FileInv
<1>5. CASE UNCHANGED <<s1, s2, s3, s4, s5, s6>>
  BY <1>1, <1>2, <1>5 DEF FileInv
<1>6. QED
  BY <1>3, <1>4, <1>5 DEF File!Next, File!Done, File!vars

\* What FlushesHold says follows for each packet.
LEMMA FileFlushes == FileWritten => File!FlushesHold
<1> SUFFICES ASSUME FileWritten, NEW i \in DOMAIN s3
      PROVE  LET w == s3[i]
                 own == File!Packet(i, w.kind)
             IN  /\ w.result = "OK" =>
                      /\ SubSeq(s1, w.to - Len(own) + 1, w.to) = own
                      /\ w.kind = 1 \/ w.left = 0 => w.to - w.from = Len(own)
                 /\ w.result = "FULL" =>
                      /\ w.left + w.kind > IOVecMaxEntries
                      /\ \A j \in i .. Len(s3) : s3[j].kind \in File!Write_EKLV => s3[j].result = "FULL"
  BY DEF File!FlushesHold
<1>1. s3 \in Seq(FileEntries) /\ i \in Nat /\ s3[i] \in FileEntries /\ FileKept(s3[i], i, s1) /\ FileRefused(s3[i], i)
  BY DEF FileWritten
<1>2. s3[i].kind \in Nat
  BY <1>1 DEF FileEntries
<1>3. Len(File!Packet(i, s3[i].kind)) = 2 * s3[i].kind
  BY <1>1, <1>2, FilePacket
<1>4. \A j \in i .. Len(s3) : s3[j].kind \in File!Write_EKLV => s3[j].kind # 1
  BY DEF File!Write_EKLV
<1>5. QED
  BY <1>1, <1>3, <1>4 DEF FileKept, FileRefused

\* An accepted packet is whole in the file, a full queue comes of failed writes
\* alone, and what is read with RESULT_OK is as much as was to be read.
THEOREM FilesHoldHolds == Spec => []FilesHold
<1> DEFINE Inv == part = "file" => FileInv
<1>1. Init => Inv
  BY FileInit DEF Init
<1>2. Inv /\ [Next]_vars => Inv'
  BY Parts, FileNext
<1>3. Inv => FilesHold
  BY FileFlushes DEF FilesHold, FileInv, FileTaken
<1> HIDE DEF Inv
<1>4. QED
  BY <1>1, <1>2, <1>3, PTL DEF Spec

-----------------------------------------------------------------------------
(* CommandLines: what usage() shows agrees with the switch *)

\* The tables of a program agree: what usage() says of an option the switch does.
TablesAgree(u, o, left, optional) ==
  /\ u.flags \ left \subseteq o.flags
  /\ u.valued \ left \subseteq o.valued \cup o.checked \cup optional
  /\ DOMAIN u.lists \ left \subseteq DOMAIN o.lists
  /\ \A x \in DOMAIN u.lists \ left : u.lists[x] \subseteq o.lists[x] /\ 0 \notin u.lists[x]
  /\ o.flags \cap (u.valued \cup o.checked \cup DOMAIN o.lists \cup DOMAIN u.lists) \subseteq left
  /\ u.valued \cap DOMAIN o.lists \subseteq left

\* The option that is the default of what it writes is the one written at first.
DefaultsAgree(u, f) == \A x \in DOMAIN f.first : u.default \cap f.writes[x] \subseteq {f.first[x]}

\* Given the options g, the last one written to the mode being m, and n names
ModeOf(f, g, m) ==
  "mode" \in DOMAIN f.first =>
    /\ f.first.mode = "none"
    /\ IF g \cap f.writes.mode = {} THEN m = "none" ELSE m \in g \cap f.writes.mode

Shown(form, g, n) ==
  (form.needs # {} => g \cap form.needs # {}) /\ g \cap form.bars = {} /\ n \in form.names

CompleteFor(f, e, g, m, n) ==
  /\ (IF "mode" \in DOMAIN f.first THEN m \notin e.nameless ELSE g \cap e.nameless = {} \/ g \cap e.once # {})
        => n >= e.least
  /\ n <= e.most
  /\ e.modes # {} => g \cap e.modes # {}
  /\ g \cap e.apart # {} => m = "none"

\* What usage() shows is complete, and of the options that exclude each other it
\* asks for one.
FormsAgree(u, f, e) ==
  /\ \A form \in u.forms : \A g, m, n :
       ModeOf(f, g, m) /\ Shown(form, g, n) /\ g \cap e.quits = {} => CompleteFor(f, e, g, m, n)
  /\ \A form \in u.forms : e.once \subseteq form.needs \cup form.bars

LeftOf(t) == IF t \in DOMAIN Left THEN Left[t] ELSE {}
OptionalOf(t) == IF t = "as_02_wrap" THEN as_02_wrap_words.optional ELSE {}

ToolAgrees(t) ==
  /\ TablesAgree(Tools[t].usage, Tools[t].options, LeftOf(t), OptionalOf(t))
  /\ DefaultsAgree(Tools[t].usage, Tools[t].fields)
  /\ FormsAgree(Tools[t].usage, Tools[t].fields, Tools[t].ends)

LEMMA HelpForm ==
  ASSUME NEW g, NEW n, NEW e, e.quits \cap {"h", "V"} = {"h", "V"} PROVE ~(Shown(Help, g, n) /\ g \cap e.quits = {})
  BY DEF Shown, Help, Form

LEMMA ToolAsdcpWrap == ToolAgrees("asdcp_wrap")
<1>1. Tools["asdcp_wrap"] = [usage |-> asdcp_wrap_usage, options |-> asdcp_wrap_options, fields |-> asdcp_wrap_fields, ends |-> asdcp_wrap_ends]
  BY DEF Tools, Tool
<1>2. TablesAgree(asdcp_wrap_usage, asdcp_wrap_options, LeftOf("asdcp_wrap"), OptionalOf("asdcp_wrap"))
  BY DEF TablesAgree, LeftOf, Left, OptionalOf, asdcp_wrap_usage, asdcp_wrap_options, Nothing
<1>3. DefaultsAgree(asdcp_wrap_usage, asdcp_wrap_fields)
  BY DEF DefaultsAgree, asdcp_wrap_usage, asdcp_wrap_fields, OwnFields, Nothing
<1>4. FormsAgree(asdcp_wrap_usage, asdcp_wrap_fields, asdcp_wrap_ends)
  BY NamesAssumption DEF FormsAgree, ModeOf, Shown, CompleteFor, asdcp_wrap_usage, asdcp_wrap_fields, asdcp_wrap_ends,
     OwnFields, Nothing, Ends, Form, Help, Files, AtLeast
<1>5. QED
  BY <1>1, <1>2, <1>3, <1>4 DEF ToolAgrees

LEMMA ToolAsdcpUnwrap == ToolAgrees("asdcp_unwrap")
<1>1. Tools["asdcp_unwrap"] = [usage |-> asdcp_unwrap_usage, options |-> asdcp_unwrap_options, fields |-> asdcp_unwrap_fields, ends |-> asdcp_unwrap_ends]
  BY DEF Tools, Tool
<1>2. TablesAgree(asdcp_unwrap_usage, asdcp_unwrap_options, LeftOf("asdcp_unwrap"), OptionalOf("asdcp_unwrap"))
  BY DEF TablesAgree, LeftOf, Left, OptionalOf, asdcp_unwrap_usage, asdcp_unwrap_options, Nothing
<1>3. DefaultsAgree(asdcp_unwrap_usage, asdcp_unwrap_fields)
  BY DEF DefaultsAgree, asdcp_unwrap_usage, asdcp_unwrap_fields, OwnFields, Nothing
<1>4. FormsAgree(asdcp_unwrap_usage, asdcp_unwrap_fields, asdcp_unwrap_ends)
  BY NamesAssumption DEF FormsAgree, ModeOf, Shown, CompleteFor, asdcp_unwrap_usage, asdcp_unwrap_fields, asdcp_unwrap_ends,
     OwnFields, Nothing, Ends, Form, Help, Files, AtLeast
<1>5. QED
  BY <1>1, <1>2, <1>3, <1>4 DEF ToolAgrees

LEMMA ToolAsdcpTest == ToolAgrees("asdcp_test")
<1>1. Tools["asdcp_test"] = [usage |-> asdcp_test_usage, options |-> asdcp_test_options, fields |-> asdcp_test_fields, ends |-> asdcp_test_ends]
  BY DEF Tools, Tool
<1>2. TablesAgree(asdcp_test_usage, asdcp_test_options, LeftOf("asdcp_test"), OptionalOf("asdcp_test"))
  BY DEF TablesAgree, LeftOf, Left, OptionalOf, asdcp_test_usage, asdcp_test_options, Nothing
<1>3. DefaultsAgree(asdcp_test_usage, asdcp_test_fields)
  BY DEF DefaultsAgree, asdcp_test_usage, asdcp_test_fields, OwnFields, Nothing
<1>4. FormsAgree(asdcp_test_usage, asdcp_test_fields, asdcp_test_ends)
  <2> DEFINE e == asdcp_test_ends
             f == asdcp_test_fields
  <2>1. /\ e.least = 1 /\ e.most = MaxNames /\ e.modes = {"c", "g", "G", "i", "t", "u", "U", "x"} /\ e.nameless = {"g", "u", "U"}
        /\ e.once = {} /\ e.apart = {} /\ e.quits = {"h", "V"}
        /\ "mode" \in DOMAIN f.first /\ f.writes.mode = {"c", "g", "G", "i", "t", "u", "U", "x"} /\ f.first.mode = "none"
    BY DEF asdcp_test_ends, asdcp_test_fields, Ends, OwnFields, Nothing
  <2>2. \A g, m, n : ModeOf(f, g, m) /\ Shown(Help, g, n) /\ g \cap e.quits = {} => CompleteFor(f, e, g, m, n)
    <3> HIDE DEF e, f
    <3> SUFFICES ASSUME NEW g, NEW m, NEW n, ModeOf(f, g, m), Shown(Help, g, n), g \cap e.quits = {}
          PROVE  CompleteFor(f, e, g, m, n)
      OBVIOUS
    <3>1. QED
      BY NamesAssumption, <2>1 DEF ModeOf, Shown, CompleteFor, Form, Help, AtLeast
  <2>3. \A g, m, n : ModeOf(f, g, m) /\ Shown(Form({"c"}, {"G", "g", "i", "t", "u", "U", "x"}, AtLeast(1)), g, n) /\ g \cap e.quits = {} => CompleteFor(f, e, g, m, n)
    <3> HIDE DEF e, f
    <3> SUFFICES ASSUME NEW g, NEW m, NEW n, ModeOf(f, g, m), Shown(Form({"c"}, {"G", "g", "i", "t", "u", "U", "x"}, AtLeast(1)), g, n), g \cap e.quits = {}
          PROVE  CompleteFor(f, e, g, m, n)
      OBVIOUS
    <3>1. QED
      BY NamesAssumption, <2>1 DEF ModeOf, Shown, CompleteFor, Form, Help, AtLeast
  <2>4. \A g, m, n : ModeOf(f, g, m) /\ Shown(Form({"i", "G", "t", "x"}, {"c", "g", "u", "U"}, {1}), g, n) /\ g \cap e.quits = {} => CompleteFor(f, e, g, m, n)
    <3> HIDE DEF e, f
    <3> SUFFICES ASSUME NEW g, NEW m, NEW n, ModeOf(f, g, m), Shown(Form({"i", "G", "t", "x"}, {"c", "g", "u", "U"}, {1}), g, n), g \cap e.quits = {}
          PROVE  CompleteFor(f, e, g, m, n)
      OBVIOUS
    <3>1. QED
      BY NamesAssumption, <2>1 DEF ModeOf, Shown, CompleteFor, Form, Help, AtLeast
  <2>5. \A g, m, n : ModeOf(f, g, m) /\ Shown(Form({"g", "u", "U"}, {"c", "G", "i", "t", "x"}, {0}), g, n) /\ g \cap e.quits = {} => CompleteFor(f, e, g, m, n)
    <3> HIDE DEF e, f
    <3> SUFFICES ASSUME NEW g, NEW m, NEW n, ModeOf(f, g, m), Shown(Form({"g", "u", "U"}, {"c", "G", "i", "t", "x"}, {0}), g, n), g \cap e.quits = {}
          PROVE  CompleteFor(f, e, g, m, n)
      OBVIOUS
    <3>1. QED
      BY NamesAssumption, <2>1 DEF ModeOf, Shown, CompleteFor, Form, Help, AtLeast
  <2>6. \A form \in {Help, Form({"c"}, {"G", "g", "i", "t", "u", "U", "x"}, AtLeast(1)), Form({"i", "G", "t", "x"}, {"c", "g", "u", "U"}, {1}), Form({"g", "u", "U"}, {"c", "G", "i", "t", "x"}, {0})} : e.once \subseteq form.needs \cup form.bars
    <3> HIDE DEF e
    <3>1. QED
      BY <2>1 DEF Form, Help
  <2>7. asdcp_test_usage.forms = {Help, Form({"c"}, {"G", "g", "i", "t", "u", "U", "x"}, AtLeast(1)), Form({"i", "G", "t", "x"}, {"c", "g", "u", "U"}, {1}), Form({"g", "u", "U"}, {"c", "G", "i", "t", "x"}, {0})}
    BY DEF asdcp_test_usage
  <2> HIDE DEF e, f
  <2>8. FormsAgree(asdcp_test_usage, f, e)
    BY <2>2, <2>3, <2>4, <2>5, <2>6, <2>7 DEF FormsAgree
  <2>9. QED
    BY <2>8 DEF e, f
<1>5. QED
  BY <1>1, <1>2, <1>3, <1>4 DEF ToolAgrees

LEMMA ToolAs02Wrap == ToolAgrees("as_02_wrap")
<1>1. Tools["as_02_wrap"] = [usage |-> as_02_wrap_usage, options |-> as_02_wrap_all, fields |-> as_02_wrap_fields, ends |-> as_02_wrap_ends]
  BY DEF Tools, Tool
<1>2. TablesAgree(as_02_wrap_usage, as_02_wrap_all, LeftOf("as_02_wrap"), OptionalOf("as_02_wrap"))
  <2>1. /\ as_02_wrap_all.flags = as_02_wrap_options.flags /\ as_02_wrap_all.checked = as_02_wrap_options.checked
        /\ as_02_wrap_all.valued = as_02_wrap_options.valued \cup as_02_wrap_words.valued \cup as_02_wrap_mca
        /\ as_02_wrap_all.lists = [o \in DOMAIN as_02_wrap_lists \cup DOMAIN as_02_wrap_words.lists |->
             IF o \in DOMAIN as_02_wrap_words.lists THEN as_02_wrap_words.lists[o] ELSE as_02_wrap_lists[o]]
    BY DEF as_02_wrap_all, as_02_wrap_options
  <2>2. /\ DOMAIN as_02_wrap_all.lists = {"l", "o", "O", "y", "tfi", "tfr"}
        /\ as_02_wrap_all.lists["l"] = 2 .. 8 /\ as_02_wrap_all.lists["o"] = {2} /\ as_02_wrap_all.lists["O"] = {8}
        /\ as_02_wrap_all.lists["y"] = 1 .. 3 /\ as_02_wrap_all.lists["tfi"] = 1 .. 8
        /\ as_02_wrap_all.lists["tfr"] = {2}
    BY <2>1 DEF as_02_wrap_words, as_02_wrap_lists, Pairs
  <2>3. LeftOf("as_02_wrap") = {} /\ OptionalOf("as_02_wrap") = {"suba"}
    BY DEF LeftOf, Left, OptionalOf, as_02_wrap_words
  <2>4. /\ DOMAIN as_02_wrap_usage.lists = {"l", "o", "O", "y", "tfi", "tfr"}
        /\ as_02_wrap_usage.lists["l"] = {2} /\ as_02_wrap_usage.lists["o"] = {2} /\ as_02_wrap_usage.lists["O"] = {8}
        /\ as_02_wrap_usage.lists["y"] = 1 .. 3 /\ as_02_wrap_usage.lists["tfi"] = 1 .. 8
        /\ as_02_wrap_usage.lists["tfr"] = {2}
    BY DEF as_02_wrap_usage, Pairs
  <2>5. \A x \in DOMAIN as_02_wrap_usage.lists :
          as_02_wrap_usage.lists[x] \subseteq as_02_wrap_all.lists[x] /\ 0 \notin as_02_wrap_usage.lists[x]
    BY <2>2, <2>4
  <2>6. /\ as_02_wrap_usage.flags \subseteq as_02_wrap_all.flags
        /\ as_02_wrap_usage.valued \subseteq as_02_wrap_all.valued \cup as_02_wrap_all.checked \cup {"suba"}
    BY <2>1 DEF as_02_wrap_usage, as_02_wrap_options, as_02_wrap_words, as_02_wrap_mca
  <2>7. as_02_wrap_all.flags \cap (as_02_wrap_usage.valued \cup as_02_wrap_all.checked \cup {"l", "o", "O", "y", "tfi", "tfr"}) = {}
    BY <2>1 DEF as_02_wrap_usage, as_02_wrap_options
  <2>8. as_02_wrap_usage.valued \cap {"l", "o", "O", "y", "tfi", "tfr"} = {}
    BY DEF as_02_wrap_usage
  <2>9. QED
    BY <2>2, <2>3, <2>4, <2>5, <2>6, <2>7, <2>8 DEF TablesAgree
<1>3. DefaultsAgree(as_02_wrap_usage, as_02_wrap_fields)
  BY DEF DefaultsAgree, as_02_wrap_usage, as_02_wrap_fields, OwnFields, Nothing, as_02_wrap_lists, as_02_wrap_words, as_02_wrap_mca, as_02_wrap_all, Pairs
<1>4. FormsAgree(as_02_wrap_usage, as_02_wrap_fields, as_02_wrap_ends)
  BY NamesAssumption DEF FormsAgree, ModeOf, Shown, CompleteFor, as_02_wrap_usage, as_02_wrap_fields, as_02_wrap_ends,
     OwnFields, Nothing, Ends, Form, Help, Files, AtLeast, as_02_wrap_lists, as_02_wrap_words, as_02_wrap_mca, as_02_wrap_all, Pairs
<1>5. QED
  BY <1>1, <1>2, <1>3, <1>4 DEF ToolAgrees

LEMMA ToolAs02Unwrap == ToolAgrees("as_02_unwrap")
<1>1. Tools["as_02_unwrap"] = [usage |-> as_02_unwrap_usage, options |-> as_02_unwrap_options, fields |-> as_02_unwrap_fields, ends |-> as_02_unwrap_ends]
  BY DEF Tools, Tool
<1>2. TablesAgree(as_02_unwrap_usage, as_02_unwrap_options, LeftOf("as_02_unwrap"), OptionalOf("as_02_unwrap"))
  BY DEF TablesAgree, LeftOf, Left, OptionalOf, as_02_unwrap_usage, as_02_unwrap_options, Nothing
<1>3. DefaultsAgree(as_02_unwrap_usage, as_02_unwrap_fields)
  BY DEF DefaultsAgree, as_02_unwrap_usage, as_02_unwrap_fields, OwnFields, Nothing
<1>4. FormsAgree(as_02_unwrap_usage, as_02_unwrap_fields, as_02_unwrap_ends)
  BY NamesAssumption DEF FormsAgree, ModeOf, Shown, CompleteFor, as_02_unwrap_usage, as_02_unwrap_fields, as_02_unwrap_ends,
     OwnFields, Nothing, Ends, Form, Help, Files, AtLeast
<1>5. QED
  BY <1>1, <1>2, <1>3, <1>4 DEF ToolAgrees

LEMMA ToolAs02WrapJxs == ToolAgrees("as_02_wrap_jxs")
<1>1. Tools["as_02_wrap_jxs"] = [usage |-> as_02_wrap_jxs_usage, options |-> as_02_wrap_jxs_options, fields |-> as_02_wrap_jxs_fields, ends |-> as_02_wrap_jxs_ends]
  BY DEF Tools, Tool
<1>2. TablesAgree(as_02_wrap_jxs_usage, as_02_wrap_jxs_options, LeftOf("as_02_wrap_jxs"), OptionalOf("as_02_wrap_jxs"))
  BY DEF TablesAgree, LeftOf, Left, OptionalOf, as_02_wrap_jxs_usage, as_02_wrap_jxs_options, Nothing, as_02_wrap_jxs_lists, as_02_wrap_fields, as_02_wrap_ends, Pairs
<1>3. DefaultsAgree(as_02_wrap_jxs_usage, as_02_wrap_jxs_fields)
  BY DEF DefaultsAgree, as_02_wrap_jxs_usage, as_02_wrap_jxs_fields, OwnFields, Nothing, as_02_wrap_jxs_lists, as_02_wrap_fields, as_02_wrap_ends, Pairs
<1>4. FormsAgree(as_02_wrap_jxs_usage, as_02_wrap_jxs_fields, as_02_wrap_jxs_ends)
  BY NamesAssumption DEF FormsAgree, ModeOf, Shown, CompleteFor, as_02_wrap_jxs_usage, as_02_wrap_jxs_fields, as_02_wrap_jxs_ends,
     OwnFields, Nothing, Ends, Form, Help, Files, AtLeast, as_02_wrap_jxs_lists, as_02_wrap_fields, as_02_wrap_ends, Pairs
<1>5. QED
  BY <1>1, <1>2, <1>3, <1>4 DEF ToolAgrees

LEMMA ToolAs02WrapIab == ToolAgrees("as_02_wrap_iab")
<1>1. Tools["as_02_wrap_iab"] = [usage |-> as_02_wrap_iab_usage, options |-> as_02_wrap_iab_options, fields |-> as_02_wrap_iab_fields, ends |-> as_02_wrap_iab_ends]
  BY DEF Tools, Tool
<1>2. TablesAgree(as_02_wrap_iab_usage, as_02_wrap_iab_options, LeftOf("as_02_wrap_iab"), OptionalOf("as_02_wrap_iab"))
  BY DEF TablesAgree, LeftOf, Left, OptionalOf, as_02_wrap_iab_usage, as_02_wrap_iab_options, Nothing
<1>3. DefaultsAgree(as_02_wrap_iab_usage, as_02_wrap_iab_fields)
  BY DEF DefaultsAgree, as_02_wrap_iab_usage, as_02_wrap_iab_fields, OwnFields, Nothing
<1>4. FormsAgree(as_02_wrap_iab_usage, as_02_wrap_iab_fields, as_02_wrap_iab_ends)
  BY NamesAssumption DEF FormsAgree, ModeOf, Shown, CompleteFor, as_02_wrap_iab_usage, as_02_wrap_iab_fields, as_02_wrap_iab_ends,
     OwnFields, Nothing, Ends, Form, Help, Files, AtLeast
<1>5. QED
  BY <1>1, <1>2, <1>3, <1>4 DEF ToolAgrees

LEMMA ToolPhdrWrap == ToolAgrees("phdr_wrap")
<1>1. Tools["phdr_wrap"] = [usage |-> phdr_wrap_usage, options |-> phdr_wrap_options, fields |-> phdr_wrap_fields, ends |-> phdr_wrap_ends]
  BY DEF Tools, Tool
<1>2. TablesAgree(phdr_wrap_usage, phdr_wrap_options, LeftOf("phdr_wrap"), OptionalOf("phdr_wrap"))
  BY DEF TablesAgree, LeftOf, Left, OptionalOf, phdr_wrap_usage, phdr_wrap_options, Nothing
<1>3. DefaultsAgree(phdr_wrap_usage, phdr_wrap_fields)
  BY DEF DefaultsAgree, phdr_wrap_usage, phdr_wrap_fields, OwnFields, Nothing
<1>4. FormsAgree(phdr_wrap_usage, phdr_wrap_fields, phdr_wrap_ends)
  BY NamesAssumption DEF FormsAgree, ModeOf, Shown, CompleteFor, phdr_wrap_usage, phdr_wrap_fields, phdr_wrap_ends,
     OwnFields, Nothing, Ends, Form, Help, Files, AtLeast
<1>5. QED
  BY <1>1, <1>2, <1>3, <1>4 DEF ToolAgrees

LEMMA ToolPhdrUnwrap == ToolAgrees("phdr_unwrap")
<1>1. Tools["phdr_unwrap"] = [usage |-> phdr_unwrap_usage, options |-> phdr_unwrap_options, fields |-> phdr_unwrap_fields, ends |-> phdr_unwrap_ends]
  BY DEF Tools, Tool
<1>2. TablesAgree(phdr_unwrap_usage, phdr_unwrap_options, LeftOf("phdr_unwrap"), OptionalOf("phdr_unwrap"))
  BY DEF TablesAgree, LeftOf, Left, OptionalOf, phdr_unwrap_usage, phdr_unwrap_options, Nothing
<1>3. DefaultsAgree(phdr_unwrap_usage, phdr_unwrap_fields)
  BY DEF DefaultsAgree, phdr_unwrap_usage, phdr_unwrap_fields, OwnFields, Nothing
<1>4. FormsAgree(phdr_unwrap_usage, phdr_unwrap_fields, phdr_unwrap_ends)
  BY NamesAssumption DEF FormsAgree, ModeOf, Shown, CompleteFor, phdr_unwrap_usage, phdr_unwrap_fields, phdr_unwrap_ends,
     OwnFields, Nothing, Ends, Form, Help, Files, AtLeast
<1>5. QED
  BY <1>1, <1>2, <1>3, <1>4 DEF ToolAgrees

LEMMA ToolAsdcpInfo == ToolAgrees("asdcp_info")
<1>1. Tools["asdcp_info"] = [usage |-> asdcp_info_usage, options |-> asdcp_info_options, fields |-> asdcp_info_fields, ends |-> asdcp_info_ends]
  BY DEF Tools, Tool
<1>2. TablesAgree(asdcp_info_usage, asdcp_info_options, LeftOf("asdcp_info"), OptionalOf("asdcp_info"))
  BY DEF TablesAgree, LeftOf, Left, OptionalOf, asdcp_info_usage, asdcp_info_options, Nothing
<1>3. DefaultsAgree(asdcp_info_usage, asdcp_info_fields)
  BY DEF DefaultsAgree, asdcp_info_usage, asdcp_info_fields, OwnFields, Nothing
<1>4. FormsAgree(asdcp_info_usage, asdcp_info_fields, asdcp_info_ends)
  BY NamesAssumption DEF FormsAgree, ModeOf, Shown, CompleteFor, asdcp_info_usage, asdcp_info_fields, asdcp_info_ends,
     OwnFields, Nothing, Ends, Form, Help, Files, AtLeast
<1>5. QED
  BY <1>1, <1>2, <1>3, <1>4 DEF ToolAgrees

LEMMA ToolAs02Info == ToolAgrees("as_02_info")
<1>1. Tools["as_02_info"] = [usage |-> as_02_info_usage, options |-> as_02_info_options, fields |-> as_02_info_fields, ends |-> as_02_info_ends]
  BY DEF Tools, Tool
<1>2. TablesAgree(as_02_info_usage, as_02_info_options, LeftOf("as_02_info"), OptionalOf("as_02_info"))
  BY DEF TablesAgree, LeftOf, Left, OptionalOf, as_02_info_usage, as_02_info_options, Nothing
<1>3. DefaultsAgree(as_02_info_usage, as_02_info_fields)
  BY DEF DefaultsAgree, as_02_info_usage, as_02_info_fields, OwnFields, Nothing
<1>4. FormsAgree(as_02_info_usage, as_02_info_fields, as_02_info_ends)
  BY NamesAssumption DEF FormsAgree, ModeOf, Shown, CompleteFor, as_02_info_usage, as_02_info_fields, as_02_info_ends,
     OwnFields, Nothing, Ends, Form, Help, Files, AtLeast
<1>5. QED
  BY <1>1, <1>2, <1>3, <1>4 DEF ToolAgrees

LEMMA ToolAsdcpUtil == ToolAgrees("asdcp_util")
<1>1. Tools["asdcp_util"] = [usage |-> asdcp_util_usage, options |-> asdcp_util_options, fields |-> asdcp_util_fields, ends |-> asdcp_util_ends]
  BY DEF Tools, Tool
<1>2. TablesAgree(asdcp_util_usage, asdcp_util_options, LeftOf("asdcp_util"), OptionalOf("asdcp_util"))
  BY DEF TablesAgree, LeftOf, Left, OptionalOf, asdcp_util_usage, asdcp_util_options, Nothing
<1>3. DefaultsAgree(asdcp_util_usage, asdcp_util_fields)
  BY DEF DefaultsAgree, asdcp_util_usage, asdcp_util_fields, OwnFields, Nothing
<1>4. FormsAgree(asdcp_util_usage, asdcp_util_fields, asdcp_util_ends)
  BY NamesAssumption DEF FormsAgree, ModeOf, Shown, CompleteFor, asdcp_util_usage, asdcp_util_fields, asdcp_util_ends,
     OwnFields, Nothing, Ends, Form, Help, Files, AtLeast
<1>5. QED
  BY <1>1, <1>2, <1>3, <1>4 DEF ToolAgrees

LEMMA ToolJ2cTest == ToolAgrees("j2c_test")
<1>1. Tools["j2c_test"] = [usage |-> j2c_test_usage, options |-> j2c_test_options, fields |-> j2c_test_fields, ends |-> j2c_test_ends]
  BY DEF Tools, Tool
<1>2. TablesAgree(j2c_test_usage, j2c_test_options, LeftOf("j2c_test"), OptionalOf("j2c_test"))
  BY DEF TablesAgree, LeftOf, Left, OptionalOf, j2c_test_usage, j2c_test_options, Nothing
<1>3. DefaultsAgree(j2c_test_usage, j2c_test_fields)
  BY DEF DefaultsAgree, j2c_test_usage, j2c_test_fields, OwnFields, Nothing
<1>4. FormsAgree(j2c_test_usage, j2c_test_fields, j2c_test_ends)
  BY NamesAssumption DEF FormsAgree, ModeOf, Shown, CompleteFor, j2c_test_usage, j2c_test_fields, j2c_test_ends,
     OwnFields, Nothing, Ends, Form, Help, Files, AtLeast
<1>5. QED
  BY <1>1, <1>2, <1>3, <1>4 DEF ToolAgrees

LEMMA ToolKmrandgen == ToolAgrees("kmrandgen")
<1>1. Tools["kmrandgen"] = [usage |-> kmrandgen_usage, options |-> kmrandgen_options, fields |-> kmrandgen_fields, ends |-> kmrandgen_ends]
  BY DEF Tools, Tool
<1>2. TablesAgree(kmrandgen_usage, kmrandgen_options, LeftOf("kmrandgen"), OptionalOf("kmrandgen"))
  BY DEF TablesAgree, LeftOf, Left, OptionalOf, kmrandgen_usage, kmrandgen_options, Nothing
<1>3. DefaultsAgree(kmrandgen_usage, kmrandgen_fields)
  BY DEF DefaultsAgree, kmrandgen_usage, kmrandgen_fields, OwnFields, Nothing
<1>4. FormsAgree(kmrandgen_usage, kmrandgen_fields, kmrandgen_ends)
  BY NamesAssumption DEF FormsAgree, ModeOf, Shown, CompleteFor, kmrandgen_usage, kmrandgen_fields, kmrandgen_ends,
     OwnFields, Nothing, Ends, Form, Help, Files, AtLeast
<1>5. QED
  BY <1>1, <1>2, <1>3, <1>4 DEF ToolAgrees

LEMMA ToolKmfilegen == ToolAgrees("kmfilegen")
<1>1. Tools["kmfilegen"] = [usage |-> kmfilegen_usage, options |-> kmfilegen_options, fields |-> kmfilegen_fields, ends |-> kmfilegen_ends]
  BY DEF Tools, Tool
<1>2. TablesAgree(kmfilegen_usage, kmfilegen_options, LeftOf("kmfilegen"), OptionalOf("kmfilegen"))
  BY DEF TablesAgree, LeftOf, Left, OptionalOf, kmfilegen_usage, kmfilegen_options, Nothing
<1>3. DefaultsAgree(kmfilegen_usage, kmfilegen_fields)
  BY DEF DefaultsAgree, kmfilegen_usage, kmfilegen_fields, OwnFields, Nothing
<1>4. FormsAgree(kmfilegen_usage, kmfilegen_fields, kmfilegen_ends)
  BY NamesAssumption DEF FormsAgree, ModeOf, Shown, CompleteFor, kmfilegen_usage, kmfilegen_fields, kmfilegen_ends,
     OwnFields, Nothing, Ends, Form, Help, Files, AtLeast
<1>5. QED
  BY <1>1, <1>2, <1>3, <1>4 DEF ToolAgrees

LEMMA ToolKlvwalk == ToolAgrees("klvwalk")
<1>1. Tools["klvwalk"] = [usage |-> klvwalk_usage, options |-> klvwalk_options, fields |-> klvwalk_fields, ends |-> klvwalk_ends]
  BY DEF Tools, Tool
<1>2. TablesAgree(klvwalk_usage, klvwalk_options, LeftOf("klvwalk"), OptionalOf("klvwalk"))
  BY DEF TablesAgree, LeftOf, Left, OptionalOf, klvwalk_usage, klvwalk_options, Nothing
<1>3. DefaultsAgree(klvwalk_usage, klvwalk_fields)
  BY DEF DefaultsAgree, klvwalk_usage, klvwalk_fields, OwnFields, Nothing
<1>4. FormsAgree(klvwalk_usage, klvwalk_fields, klvwalk_ends)
  BY NamesAssumption DEF FormsAgree, ModeOf, Shown, CompleteFor, klvwalk_usage, klvwalk_fields, klvwalk_ends,
     OwnFields, Nothing, Ends, Form, Help, Files, AtLeast
<1>5. QED
  BY <1>1, <1>2, <1>3, <1>4 DEF ToolAgrees

LEMMA ToolKlvsplit == ToolAgrees("klvsplit")
<1>1. Tools["klvsplit"] = [usage |-> klvsplit_usage, options |-> klvsplit_options, fields |-> klvsplit_fields, ends |-> klvsplit_ends]
  BY DEF Tools, Tool
<1>2. TablesAgree(klvsplit_usage, klvsplit_options, LeftOf("klvsplit"), OptionalOf("klvsplit"))
  BY DEF TablesAgree, LeftOf, Left, OptionalOf, klvsplit_usage, klvsplit_options, Nothing
<1>3. DefaultsAgree(klvsplit_usage, klvsplit_fields)
  BY DEF DefaultsAgree, klvsplit_usage, klvsplit_fields, OwnFields, Nothing
<1>4. FormsAgree(klvsplit_usage, klvsplit_fields, klvsplit_ends)
  <2> DEFINE e == klvsplit_ends
             f == klvsplit_fields
  <2>1. /\ e.least = 2 /\ e.most = MaxNames /\ e.modes = {} /\ e.nameless = {"d"}
        /\ e.once = {} /\ e.apart = {} /\ e.quits = {"h", "V"} /\ "mode" \notin DOMAIN f.first
    BY DEF klvsplit_ends, klvsplit_fields, Ends, OwnFields, Nothing
  <2>2. \A g, m, n : ModeOf(f, g, m) /\ Shown(Help, g, n) /\ g \cap e.quits = {} => CompleteFor(f, e, g, m, n)
    <3> HIDE DEF e, f
    <3> SUFFICES ASSUME NEW g, NEW m, NEW n, ModeOf(f, g, m), Shown(Help, g, n), g \cap e.quits = {}
          PROVE  CompleteFor(f, e, g, m, n)
      OBVIOUS
    <3>1. QED
      BY NamesAssumption, <2>1 DEF ModeOf, Shown, CompleteFor, Form, Help, AtLeast
  <2>3. \A g, m, n : ModeOf(f, g, m) /\ Shown(Form({"d"}, {}, {0}), g, n) /\ g \cap e.quits = {} => CompleteFor(f, e, g, m, n)
    <3> HIDE DEF e, f
    <3> SUFFICES ASSUME NEW g, NEW m, NEW n, ModeOf(f, g, m), Shown(Form({"d"}, {}, {0}), g, n), g \cap e.quits = {}
          PROVE  CompleteFor(f, e, g, m, n)
      OBVIOUS
    <3>1. QED
      BY NamesAssumption, <2>1 DEF ModeOf, Shown, CompleteFor, Form, Help, AtLeast
  <2>4. \A g, m, n : ModeOf(f, g, m) /\ Shown(Form({}, {"d"}, AtLeast(2)), g, n) /\ g \cap e.quits = {} => CompleteFor(f, e, g, m, n)
    <3> HIDE DEF e, f
    <3> SUFFICES ASSUME NEW g, NEW m, NEW n, ModeOf(f, g, m), Shown(Form({}, {"d"}, AtLeast(2)), g, n), g \cap e.quits = {}
          PROVE  CompleteFor(f, e, g, m, n)
      OBVIOUS
    <3>1. QED
      BY NamesAssumption, <2>1 DEF ModeOf, Shown, CompleteFor, Form, Help, AtLeast
  <2>5. \A form \in {Help, Form({"d"}, {}, {0}), Form({}, {"d"}, AtLeast(2))} : e.once \subseteq form.needs \cup form.bars
    <3> HIDE DEF e
    <3>1. QED
      BY <2>1 DEF Form, Help
  <2>6. klvsplit_usage.forms = {Help, Form({"d"}, {}, {0}), Form({}, {"d"}, AtLeast(2))}
    BY DEF klvsplit_usage
  <2> HIDE DEF e, f
  <2>7. FormsAgree(klvsplit_usage, f, e)
    BY <2>2, <2>3, <2>4, <2>5, <2>6 DEF FormsAgree
  <2>8. QED
    BY <2>7 DEF e, f
<1>5. QED
  BY <1>1, <1>2, <1>3, <1>4 DEF ToolAgrees

LEMMA ToolWavesplit == ToolAgrees("wavesplit")
<1>1. Tools["wavesplit"] = [usage |-> wavesplit_usage, options |-> wavesplit_options, fields |-> wavesplit_fields, ends |-> wavesplit_ends]
  BY DEF Tools, Tool
<1>2. TablesAgree(wavesplit_usage, wavesplit_options, LeftOf("wavesplit"), OptionalOf("wavesplit"))
  BY DEF TablesAgree, LeftOf, Left, OptionalOf, wavesplit_usage, wavesplit_options, Nothing
<1>3. DefaultsAgree(wavesplit_usage, wavesplit_fields)
  BY DEF DefaultsAgree, wavesplit_usage, wavesplit_fields, OwnFields, Nothing
<1>4. FormsAgree(wavesplit_usage, wavesplit_fields, wavesplit_ends)
  <2> DEFINE e == wavesplit_ends
             f == wavesplit_fields
  <2>1. /\ e.least = 1 /\ e.most = 1 /\ e.modes = {"c", "i", "V"} /\ e.nameless = {"V"}
        /\ e.once = {"c", "i"} /\ e.apart = {} /\ e.quits = {"h"} /\ "mode" \notin DOMAIN f.first
    BY DEF wavesplit_ends, wavesplit_fields, Ends, OwnFields, Nothing
  <2>2. \A g, m, n : ModeOf(f, g, m) /\ Shown(Form({"V"}, {"c", "d", "f", "i"}, {0}), g, n) /\ g \cap e.quits = {} => CompleteFor(f, e, g, m, n)
    <3> HIDE DEF e, f
    <3> SUFFICES ASSUME NEW g, NEW m, NEW n, ModeOf(f, g, m), Shown(Form({"V"}, {"c", "d", "f", "i"}, {0}), g, n), g \cap e.quits = {}
          PROVE  CompleteFor(f, e, g, m, n)
      OBVIOUS
    <3>1. QED
      BY NamesAssumption, <2>1 DEF ModeOf, Shown, CompleteFor, Form, Help, AtLeast
  <2>3. \A g, m, n : ModeOf(f, g, m) /\ Shown(Form({"c"}, {"i"}, {1}), g, n) /\ g \cap e.quits = {} => CompleteFor(f, e, g, m, n)
    <3> HIDE DEF e, f
    <3> SUFFICES ASSUME NEW g, NEW m, NEW n, ModeOf(f, g, m), Shown(Form({"c"}, {"i"}, {1}), g, n), g \cap e.quits = {}
          PROVE  CompleteFor(f, e, g, m, n)
      OBVIOUS
    <3>1. QED
      BY NamesAssumption, <2>1 DEF ModeOf, Shown, CompleteFor, Form, Help, AtLeast
  <2>4. \A g, m, n : ModeOf(f, g, m) /\ Shown(Form({"i"}, {"c"}, {1}), g, n) /\ g \cap e.quits = {} => CompleteFor(f, e, g, m, n)
    <3> HIDE DEF e, f
    <3> SUFFICES ASSUME NEW g, NEW m, NEW n, ModeOf(f, g, m), Shown(Form({"i"}, {"c"}, {1}), g, n), g \cap e.quits = {}
          PROVE  CompleteFor(f, e, g, m, n)
      OBVIOUS
    <3>1. QED
      BY NamesAssumption, <2>1 DEF ModeOf, Shown, CompleteFor, Form, Help, AtLeast
  <2>5. \A form \in {Form({"V"}, {"c", "d", "f", "i"}, {0}), Form({"c"}, {"i"}, {1}), Form({"i"}, {"c"}, {1})} : e.once \subseteq form.needs \cup form.bars
    <3> HIDE DEF e
    <3>1. QED
      BY <2>1 DEF Form, Help
  <2>6. wavesplit_usage.forms = {Form({"V"}, {"c", "d", "f", "i"}, {0}), Form({"c"}, {"i"}, {1}), Form({"i"}, {"c"}, {1})}
    BY DEF wavesplit_usage
  <2> HIDE DEF e, f
  <2>7. FormsAgree(wavesplit_usage, f, e)
    BY <2>2, <2>3, <2>4, <2>5, <2>6 DEF FormsAgree
  <2>8. QED
    BY <2>7 DEF e, f
<1>5. QED
  BY <1>1, <1>2, <1>3, <1>4 DEF ToolAgrees

LEMMA ToolPinkwave == ToolAgrees("pinkwave")
<1>1. Tools["pinkwave"] = [usage |-> pinkwave_usage, options |-> pinkwave_options, fields |-> pinkwave_fields, ends |-> pinkwave_ends]
  BY DEF Tools, Tool
<1>2. TablesAgree(pinkwave_usage, pinkwave_options, LeftOf("pinkwave"), OptionalOf("pinkwave"))
  BY DEF TablesAgree, LeftOf, Left, OptionalOf, pinkwave_usage, pinkwave_options, Nothing
<1>3. DefaultsAgree(pinkwave_usage, pinkwave_fields)
  BY DEF DefaultsAgree, pinkwave_usage, pinkwave_fields, OwnFields, Nothing
<1>4. FormsAgree(pinkwave_usage, pinkwave_fields, pinkwave_ends)
  BY NamesAssumption DEF FormsAgree, ModeOf, Shown, CompleteFor, pinkwave_usage, pinkwave_fields, pinkwave_ends,
     OwnFields, Nothing, Ends, Form, Help, Files, AtLeast
<1>5. QED
  BY <1>1, <1>2, <1>3, <1>4 DEF ToolAgrees

LEMMA ToolBlackwave == ToolAgrees("blackwave")
<1>1. Tools["blackwave"] = [usage |-> blackwave_usage, options |-> blackwave_options, fields |-> blackwave_fields, ends |-> blackwave_ends]
  BY DEF Tools, Tool
<1>2. TablesAgree(blackwave_usage, blackwave_options, LeftOf("blackwave"), OptionalOf("blackwave"))
  BY DEF TablesAgree, LeftOf, Left, OptionalOf, blackwave_usage, blackwave_options, Nothing, pinkwave_usage, pinkwave_ends
<1>3. DefaultsAgree(blackwave_usage, blackwave_fields)
  BY DEF DefaultsAgree, blackwave_usage, blackwave_fields, OwnFields, Nothing, pinkwave_usage, pinkwave_ends
<1>4. FormsAgree(blackwave_usage, blackwave_fields, blackwave_ends)
  BY NamesAssumption DEF FormsAgree, ModeOf, Shown, CompleteFor, blackwave_usage, blackwave_fields, blackwave_ends,
     OwnFields, Nothing, Ends, Form, Help, Files, AtLeast, pinkwave_usage, pinkwave_ends
<1>5. QED
  BY <1>1, <1>2, <1>3, <1>4 DEF ToolAgrees

LEMMA ToolKmuuidgen == ToolAgrees("kmuuidgen")
<1>1. Tools["kmuuidgen"] = [usage |-> kmuuidgen_usage, options |-> kmuuidgen_options, fields |-> kmuuidgen_fields, ends |-> kmuuidgen_ends]
  BY DEF Tools, Tool
<1>2. TablesAgree(kmuuidgen_usage, kmuuidgen_options, LeftOf("kmuuidgen"), OptionalOf("kmuuidgen"))
  BY DEF TablesAgree, LeftOf, Left, OptionalOf, kmuuidgen_usage, kmuuidgen_options, Nothing
<1>3. DefaultsAgree(kmuuidgen_usage, kmuuidgen_fields)
  BY DEF DefaultsAgree, kmuuidgen_usage, kmuuidgen_fields, OwnFields, Nothing
<1>4. FormsAgree(kmuuidgen_usage, kmuuidgen_fields, kmuuidgen_ends)
  BY NamesAssumption DEF FormsAgree, ModeOf, Shown, CompleteFor, kmuuidgen_usage, kmuuidgen_fields, kmuuidgen_ends,
     OwnFields, Nothing, Ends, Form, Help, Files, AtLeast
<1>5. QED
  BY <1>1, <1>2, <1>3, <1>4 DEF ToolAgrees

LEMMA ToolsAgree == \A t \in DOMAIN Tools : ToolAgrees(t)
<1>1. DOMAIN Tools =
        {"asdcp_wrap", "asdcp_unwrap", "asdcp_test", "as_02_wrap", "as_02_unwrap",
         "as_02_wrap_jxs", "as_02_wrap_iab", "phdr_wrap", "phdr_unwrap", "asdcp_info", "as_02_info",
         "asdcp_util", "j2c_test", "kmrandgen", "kmfilegen", "klvwalk", "klvsplit", "wavesplit", "pinkwave", "blackwave", "kmuuidgen"}
  BY DEF Tools
<1>2. QED
  BY <1>1, ToolAsdcpWrap, ToolAsdcpUnwrap, ToolAsdcpTest, ToolAs02Wrap, ToolAs02Unwrap, ToolAs02WrapJxs, ToolAs02WrapIab, ToolPhdrWrap, ToolPhdrUnwrap, 
     ToolAsdcpInfo, ToolAs02Info, ToolAsdcpUtil, ToolJ2cTest, ToolKmrandgen, ToolKmfilegen, ToolKlvwalk, ToolKlvsplit, ToolWavesplit, ToolPinkwave, ToolBlackwave, ToolKmuuidgen

\* A mode is none at first; what excludes a mode is asked only of a program with one.
ModeAgrees(f, e) ==
  IF "mode" \in DOMAIN f.first THEN f.first.mode = "none" ELSE e.apart = {}

LEMMA ToolsMode == \A t \in DOMAIN Tools : ModeAgrees(Tools[t].fields, Tools[t].ends)
<1>1. ModeAgrees(Tools["asdcp_wrap"].fields, Tools["asdcp_wrap"].ends)
  <2>1. Tools["asdcp_wrap"].fields = asdcp_wrap_fields /\ Tools["asdcp_wrap"].ends = asdcp_wrap_ends
    BY DEF Tools, Tool
  <2>2. ModeAgrees(asdcp_wrap_fields, asdcp_wrap_ends)
    BY DEF ModeAgrees, asdcp_wrap_fields, asdcp_wrap_ends, OwnFields, Ends, Nothing
  <2>3. QED
    BY <2>1, <2>2
<1>2. ModeAgrees(Tools["asdcp_unwrap"].fields, Tools["asdcp_unwrap"].ends)
  <2>1. Tools["asdcp_unwrap"].fields = asdcp_unwrap_fields /\ Tools["asdcp_unwrap"].ends = asdcp_unwrap_ends
    BY DEF Tools, Tool
  <2>2. ModeAgrees(asdcp_unwrap_fields, asdcp_unwrap_ends)
    BY DEF ModeAgrees, asdcp_unwrap_fields, asdcp_unwrap_ends, OwnFields, Ends, Nothing
  <2>3. QED
    BY <2>1, <2>2
<1>3. ModeAgrees(Tools["asdcp_test"].fields, Tools["asdcp_test"].ends)
  <2>1. Tools["asdcp_test"].fields = asdcp_test_fields /\ Tools["asdcp_test"].ends = asdcp_test_ends
    BY DEF Tools, Tool
  <2>2. ModeAgrees(asdcp_test_fields, asdcp_test_ends)
    BY DEF ModeAgrees, asdcp_test_fields, asdcp_test_ends, OwnFields, Ends, Nothing
  <2>3. QED
    BY <2>1, <2>2
<1>4. ModeAgrees(Tools["as_02_wrap"].fields, Tools["as_02_wrap"].ends)
  <2>1. Tools["as_02_wrap"].fields = as_02_wrap_fields /\ Tools["as_02_wrap"].ends = as_02_wrap_ends
    BY DEF Tools, Tool
  <2>2. ModeAgrees(as_02_wrap_fields, as_02_wrap_ends)
    BY DEF ModeAgrees, as_02_wrap_fields, as_02_wrap_ends, OwnFields, Ends, Nothing
  <2>3. QED
    BY <2>1, <2>2
<1>5. ModeAgrees(Tools["as_02_unwrap"].fields, Tools["as_02_unwrap"].ends)
  <2>1. Tools["as_02_unwrap"].fields = as_02_unwrap_fields /\ Tools["as_02_unwrap"].ends = as_02_unwrap_ends
    BY DEF Tools, Tool
  <2>2. ModeAgrees(as_02_unwrap_fields, as_02_unwrap_ends)
    BY DEF ModeAgrees, as_02_unwrap_fields, as_02_unwrap_ends, OwnFields, Ends, Nothing
  <2>3. QED
    BY <2>1, <2>2
<1>6. ModeAgrees(Tools["as_02_wrap_jxs"].fields, Tools["as_02_wrap_jxs"].ends)
  <2>1. Tools["as_02_wrap_jxs"].fields = as_02_wrap_jxs_fields /\ Tools["as_02_wrap_jxs"].ends = as_02_wrap_jxs_ends
    BY DEF Tools, Tool
  <2>2. ModeAgrees(as_02_wrap_jxs_fields, as_02_wrap_jxs_ends)
    BY DEF ModeAgrees, as_02_wrap_jxs_fields, as_02_wrap_jxs_ends, OwnFields, Ends, Nothing, as_02_wrap_fields, as_02_wrap_ends
  <2>3. QED
    BY <2>1, <2>2
<1>7. ModeAgrees(Tools["as_02_wrap_iab"].fields, Tools["as_02_wrap_iab"].ends)
  <2>1. Tools["as_02_wrap_iab"].fields = as_02_wrap_iab_fields /\ Tools["as_02_wrap_iab"].ends = as_02_wrap_iab_ends
    BY DEF Tools, Tool
  <2>2. ModeAgrees(as_02_wrap_iab_fields, as_02_wrap_iab_ends)
    BY DEF ModeAgrees, as_02_wrap_iab_fields, as_02_wrap_iab_ends, OwnFields, Ends, Nothing
  <2>3. QED
    BY <2>1, <2>2
<1>8. ModeAgrees(Tools["phdr_wrap"].fields, Tools["phdr_wrap"].ends)
  <2>1. Tools["phdr_wrap"].fields = phdr_wrap_fields /\ Tools["phdr_wrap"].ends = phdr_wrap_ends
    BY DEF Tools, Tool
  <2>2. ModeAgrees(phdr_wrap_fields, phdr_wrap_ends)
    BY DEF ModeAgrees, phdr_wrap_fields, phdr_wrap_ends, OwnFields, Ends, Nothing
  <2>3. QED
    BY <2>1, <2>2
<1>9. ModeAgrees(Tools["phdr_unwrap"].fields, Tools["phdr_unwrap"].ends)
  <2>1. Tools["phdr_unwrap"].fields = phdr_unwrap_fields /\ Tools["phdr_unwrap"].ends = phdr_unwrap_ends
    BY DEF Tools, Tool
  <2>2. ModeAgrees(phdr_unwrap_fields, phdr_unwrap_ends)
    BY DEF ModeAgrees, phdr_unwrap_fields, phdr_unwrap_ends, OwnFields, Ends, Nothing
  <2>3. QED
    BY <2>1, <2>2
<1>10. ModeAgrees(Tools["asdcp_info"].fields, Tools["asdcp_info"].ends)
  <2>1. Tools["asdcp_info"].fields = asdcp_info_fields /\ Tools["asdcp_info"].ends = asdcp_info_ends
    BY DEF Tools, Tool
  <2>2. ModeAgrees(asdcp_info_fields, asdcp_info_ends)
    BY DEF ModeAgrees, asdcp_info_fields, asdcp_info_ends, OwnFields, Ends, Nothing
  <2>3. QED
    BY <2>1, <2>2
<1>11. ModeAgrees(Tools["as_02_info"].fields, Tools["as_02_info"].ends)
  <2>1. Tools["as_02_info"].fields = as_02_info_fields /\ Tools["as_02_info"].ends = as_02_info_ends
    BY DEF Tools, Tool
  <2>2. ModeAgrees(as_02_info_fields, as_02_info_ends)
    BY DEF ModeAgrees, as_02_info_fields, as_02_info_ends, OwnFields, Ends, Nothing
  <2>3. QED
    BY <2>1, <2>2
<1>12. ModeAgrees(Tools["asdcp_util"].fields, Tools["asdcp_util"].ends)
  <2>1. Tools["asdcp_util"].fields = asdcp_util_fields /\ Tools["asdcp_util"].ends = asdcp_util_ends
    BY DEF Tools, Tool
  <2>2. ModeAgrees(asdcp_util_fields, asdcp_util_ends)
    BY DEF ModeAgrees, asdcp_util_fields, asdcp_util_ends, OwnFields, Ends, Nothing
  <2>3. QED
    BY <2>1, <2>2
<1>13. ModeAgrees(Tools["j2c_test"].fields, Tools["j2c_test"].ends)
  <2>1. Tools["j2c_test"].fields = j2c_test_fields /\ Tools["j2c_test"].ends = j2c_test_ends
    BY DEF Tools, Tool
  <2>2. ModeAgrees(j2c_test_fields, j2c_test_ends)
    BY DEF ModeAgrees, j2c_test_fields, j2c_test_ends, OwnFields, Ends, Nothing
  <2>3. QED
    BY <2>1, <2>2
<1>14. ModeAgrees(Tools["kmrandgen"].fields, Tools["kmrandgen"].ends)
  <2>1. Tools["kmrandgen"].fields = kmrandgen_fields /\ Tools["kmrandgen"].ends = kmrandgen_ends
    BY DEF Tools, Tool
  <2>2. ModeAgrees(kmrandgen_fields, kmrandgen_ends)
    BY DEF ModeAgrees, kmrandgen_fields, kmrandgen_ends, OwnFields, Ends, Nothing
  <2>3. QED
    BY <2>1, <2>2
<1>15. ModeAgrees(Tools["kmfilegen"].fields, Tools["kmfilegen"].ends)
  <2>1. Tools["kmfilegen"].fields = kmfilegen_fields /\ Tools["kmfilegen"].ends = kmfilegen_ends
    BY DEF Tools, Tool
  <2>2. ModeAgrees(kmfilegen_fields, kmfilegen_ends)
    BY DEF ModeAgrees, kmfilegen_fields, kmfilegen_ends, OwnFields, Ends, Nothing
  <2>3. QED
    BY <2>1, <2>2
<1>16. ModeAgrees(Tools["klvwalk"].fields, Tools["klvwalk"].ends)
  <2>1. Tools["klvwalk"].fields = klvwalk_fields /\ Tools["klvwalk"].ends = klvwalk_ends
    BY DEF Tools, Tool
  <2>2. ModeAgrees(klvwalk_fields, klvwalk_ends)
    BY DEF ModeAgrees, klvwalk_fields, klvwalk_ends, OwnFields, Ends, Nothing
  <2>3. QED
    BY <2>1, <2>2
<1>17. ModeAgrees(Tools["klvsplit"].fields, Tools["klvsplit"].ends)
  <2>1. Tools["klvsplit"].fields = klvsplit_fields /\ Tools["klvsplit"].ends = klvsplit_ends
    BY DEF Tools, Tool
  <2>2. ModeAgrees(klvsplit_fields, klvsplit_ends)
    BY DEF ModeAgrees, klvsplit_fields, klvsplit_ends, OwnFields, Ends, Nothing
  <2>3. QED
    BY <2>1, <2>2
<1>18. ModeAgrees(Tools["wavesplit"].fields, Tools["wavesplit"].ends)
  <2>1. Tools["wavesplit"].fields = wavesplit_fields /\ Tools["wavesplit"].ends = wavesplit_ends
    BY DEF Tools, Tool
  <2>2. ModeAgrees(wavesplit_fields, wavesplit_ends)
    BY DEF ModeAgrees, wavesplit_fields, wavesplit_ends, OwnFields, Ends, Nothing
  <2>3. QED
    BY <2>1, <2>2
<1>19. ModeAgrees(Tools["pinkwave"].fields, Tools["pinkwave"].ends)
  <2>1. Tools["pinkwave"].fields = pinkwave_fields /\ Tools["pinkwave"].ends = pinkwave_ends
    BY DEF Tools, Tool
  <2>2. ModeAgrees(pinkwave_fields, pinkwave_ends)
    BY DEF ModeAgrees, pinkwave_fields, pinkwave_ends, OwnFields, Ends, Nothing
  <2>3. QED
    BY <2>1, <2>2
<1>20. ModeAgrees(Tools["blackwave"].fields, Tools["blackwave"].ends)
  <2>1. Tools["blackwave"].fields = blackwave_fields /\ Tools["blackwave"].ends = blackwave_ends
    BY DEF Tools, Tool
  <2>2. ModeAgrees(blackwave_fields, blackwave_ends)
    BY DEF ModeAgrees, blackwave_fields, blackwave_ends, OwnFields, Ends, Nothing, pinkwave_ends
  <2>3. QED
    BY <2>1, <2>2
<1>21. ModeAgrees(Tools["kmuuidgen"].fields, Tools["kmuuidgen"].ends)
  <2>1. Tools["kmuuidgen"].fields = kmuuidgen_fields /\ Tools["kmuuidgen"].ends = kmuuidgen_ends
    BY DEF Tools, Tool
  <2>2. ModeAgrees(kmuuidgen_fields, kmuuidgen_ends)
    BY DEF ModeAgrees, kmuuidgen_fields, kmuuidgen_ends, OwnFields, Ends, Nothing
  <2>3. QED
    BY <2>1, <2>2
<1>22. DOMAIN Tools =
        {"asdcp_wrap", "asdcp_unwrap", "asdcp_test", "as_02_wrap", "as_02_unwrap",
         "as_02_wrap_jxs", "as_02_wrap_iab", "phdr_wrap", "phdr_unwrap", "asdcp_info", "as_02_info",
         "asdcp_util", "j2c_test", "kmrandgen", "kmfilegen", "klvwalk", "klvsplit", "wavesplit", "pinkwave", "blackwave", "kmuuidgen"}
  BY DEF Tools
<1>23. QED
  BY <1>1, <1>2, <1>3, <1>4, <1>5, <1>6, <1>7, <1>8, <1>9, <1>10, <1>11, <1>12, <1>13, <1>14, <1>15, <1>16, <1>17, <1>18, <1>19, <1>20, <1>21, <1>22

LEMMA FirstIsFunction == \A t \in DOMAIN Tools : Tools[t].fields.first = [x \in DOMAIN Tools[t].fields.first |-> Tools[t].fields.first[x]]
<1>1. Tools["asdcp_wrap"].fields.first = [x \in DOMAIN Tools["asdcp_wrap"].fields.first |-> Tools["asdcp_wrap"].fields.first[x]]
  BY DEF Tools, Tool, asdcp_wrap_fields, OwnFields, Nothing
<1>2. Tools["asdcp_unwrap"].fields.first = [x \in DOMAIN Tools["asdcp_unwrap"].fields.first |-> Tools["asdcp_unwrap"].fields.first[x]]
  BY DEF Tools, Tool, asdcp_unwrap_fields, OwnFields, Nothing
<1>3. Tools["asdcp_test"].fields.first = [x \in DOMAIN Tools["asdcp_test"].fields.first |-> Tools["asdcp_test"].fields.first[x]]
  BY DEF Tools, Tool, asdcp_test_fields, OwnFields, Nothing
<1>4. Tools["as_02_wrap"].fields.first = [x \in DOMAIN Tools["as_02_wrap"].fields.first |-> Tools["as_02_wrap"].fields.first[x]]
  BY DEF Tools, Tool, as_02_wrap_fields, OwnFields, Nothing
<1>5. Tools["as_02_unwrap"].fields.first = [x \in DOMAIN Tools["as_02_unwrap"].fields.first |-> Tools["as_02_unwrap"].fields.first[x]]
  BY DEF Tools, Tool, as_02_unwrap_fields, OwnFields, Nothing
<1>6. Tools["as_02_wrap_jxs"].fields.first = [x \in DOMAIN Tools["as_02_wrap_jxs"].fields.first |-> Tools["as_02_wrap_jxs"].fields.first[x]]
  BY DEF Tools, Tool, as_02_wrap_jxs_fields, OwnFields, Nothing, as_02_wrap_fields
<1>7. Tools["as_02_wrap_iab"].fields.first = [x \in DOMAIN Tools["as_02_wrap_iab"].fields.first |-> Tools["as_02_wrap_iab"].fields.first[x]]
  BY DEF Tools, Tool, as_02_wrap_iab_fields, OwnFields, Nothing
<1>8. Tools["phdr_wrap"].fields.first = [x \in DOMAIN Tools["phdr_wrap"].fields.first |-> Tools["phdr_wrap"].fields.first[x]]
  BY DEF Tools, Tool, phdr_wrap_fields, OwnFields, Nothing
<1>9. Tools["phdr_unwrap"].fields.first = [x \in DOMAIN Tools["phdr_unwrap"].fields.first |-> Tools["phdr_unwrap"].fields.first[x]]
  BY DEF Tools, Tool, phdr_unwrap_fields, OwnFields, Nothing
<1>10. Tools["asdcp_info"].fields.first = [x \in DOMAIN Tools["asdcp_info"].fields.first |-> Tools["asdcp_info"].fields.first[x]]
  BY DEF Tools, Tool, asdcp_info_fields, OwnFields, Nothing
<1>11. Tools["as_02_info"].fields.first = [x \in DOMAIN Tools["as_02_info"].fields.first |-> Tools["as_02_info"].fields.first[x]]
  BY DEF Tools, Tool, as_02_info_fields, OwnFields, Nothing
<1>12. Tools["asdcp_util"].fields.first = [x \in DOMAIN Tools["asdcp_util"].fields.first |-> Tools["asdcp_util"].fields.first[x]]
  BY DEF Tools, Tool, asdcp_util_fields, OwnFields, Nothing
<1>13. Tools["j2c_test"].fields.first = [x \in DOMAIN Tools["j2c_test"].fields.first |-> Tools["j2c_test"].fields.first[x]]
  BY DEF Tools, Tool, j2c_test_fields, OwnFields, Nothing
<1>14. Tools["kmrandgen"].fields.first = [x \in DOMAIN Tools["kmrandgen"].fields.first |-> Tools["kmrandgen"].fields.first[x]]
  BY DEF Tools, Tool, kmrandgen_fields, OwnFields, Nothing
<1>15. Tools["kmfilegen"].fields.first = [x \in DOMAIN Tools["kmfilegen"].fields.first |-> Tools["kmfilegen"].fields.first[x]]
  BY DEF Tools, Tool, kmfilegen_fields, OwnFields, Nothing
<1>16. Tools["klvwalk"].fields.first = [x \in DOMAIN Tools["klvwalk"].fields.first |-> Tools["klvwalk"].fields.first[x]]
  BY DEF Tools, Tool, klvwalk_fields, OwnFields, Nothing
<1>17. Tools["klvsplit"].fields.first = [x \in DOMAIN Tools["klvsplit"].fields.first |-> Tools["klvsplit"].fields.first[x]]
  BY DEF Tools, Tool, klvsplit_fields, OwnFields, Nothing
<1>18. Tools["wavesplit"].fields.first = [x \in DOMAIN Tools["wavesplit"].fields.first |-> Tools["wavesplit"].fields.first[x]]
  BY DEF Tools, Tool, wavesplit_fields, OwnFields, Nothing
<1>19. Tools["pinkwave"].fields.first = [x \in DOMAIN Tools["pinkwave"].fields.first |-> Tools["pinkwave"].fields.first[x]]
  BY DEF Tools, Tool, pinkwave_fields, OwnFields, Nothing
<1>20. Tools["blackwave"].fields.first = [x \in DOMAIN Tools["blackwave"].fields.first |-> Tools["blackwave"].fields.first[x]]
  BY DEF Tools, Tool, blackwave_fields, OwnFields, Nothing
<1>21. Tools["kmuuidgen"].fields.first = [x \in DOMAIN Tools["kmuuidgen"].fields.first |-> Tools["kmuuidgen"].fields.first[x]]
  BY DEF Tools, Tool, kmuuidgen_fields, OwnFields, Nothing
<1>22. DOMAIN Tools =
        {"asdcp_wrap", "asdcp_unwrap", "asdcp_test", "as_02_wrap", "as_02_unwrap",
         "as_02_wrap_jxs", "as_02_wrap_iab", "phdr_wrap", "phdr_unwrap", "asdcp_info", "as_02_info",
         "asdcp_util", "j2c_test", "kmrandgen", "kmfilegen", "klvwalk", "klvsplit", "wavesplit", "pinkwave", "blackwave", "kmuuidgen"}
  BY DEF Tools
<1>23. QED
  BY <1>1, <1>2, <1>3, <1>4, <1>5, <1>6, <1>7, <1>8, <1>9, <1>10, <1>11, <1>12, <1>13, <1>14, <1>15, <1>16, <1>17, <1>18, <1>19, <1>20, <1>21, <1>22

-----------------------------------------------------------------------------
(* CommandLines: a command line is read *)

GivenValues == [count : 0 .. 8, fine : BOOLEAN]
Givens == [option : Accepted \cup Documented, value : GivenValues]

\* An option that was given as usage() shows it
Proper(g) == AsDocumented(g) /\ g.option \notin LeftOf(line.tool)
AllProper == \A i \in DOMAIN line.given : Proper(line.given[i])

\* While the line is read: what the members that several options write hold
WrittenLast ==
  \A f \in DOMAIN parsed :
    \/ parsed[f] = Fields.first[f] /\ GivenOptions \cap Fields.writes[f] = {}
    \/ parsed[f] \in GivenOptions \cap Fields.writes[f]

CommandInv ==
  /\ line.tool \in DOMAIN Tools /\ line.names \in 0 .. MaxNames /\ line.given \in Seq(Givens)
  /\ Len(line.given) <= MaxOptions
  /\ line = [tool |-> line.tool, given |-> line.given, names |-> line.names]
  /\ st \in {"reading", "run", "help", "error"}
  /\ parsed = [f \in DOMAIN Fields.first |-> parsed[f]]
  /\ counted \in 0 .. MaxNames + MaxOptions * 8
  /\ st = "reading" =>
       /\ line.names = 0 /\ counted <= 8 * Len(line.given) /\ WrittenLast
       /\ AllProper => counted = 0
  /\ UsageHolds

LEMMA ValuesTyped == \A o : Values(o) \subseteq GivenValues
<1>1. NoValue \in GivenValues
  BY DEF NoValue, GivenValues
<1>2. \A v \in [count : {0, 1, 2, 3, 8}, fine : BOOLEAN] : v \in GivenValues
  BY DEF GivenValues
<1>3. \A v \in [count : {1}, fine : BOOLEAN] : v \in GivenValues
  BY DEF GivenValues
<1>4. \A v \in [count : {1}, fine : {TRUE}] : v \in GivenValues
  <2>1. [count : {1}, fine : {TRUE}] \subseteq [count : {1}, fine : BOOLEAN]
    OBVIOUS
  <2>2. QED
    BY <1>3, <2>1
<1>5. QED
  BY <1>1, <1>2, <1>3, <1>4 DEF Values

\* A proper option is refused only where another of those that exclude each other
\* was given before.
LEMMA ProperTaken ==
  ASSUME line.tool \in DOMAIN Tools, NEW o, NEW v \in GivenValues, Proper([option |-> o, value |-> v]), Refused(o, v)
  PROVE  o \in Ended.once /\ GivenOptions \cap Ended.once # {}
<1> DEFINE left == LeftOf(line.tool)
           optional == OptionalOf(line.tool)
<1>1. TablesAgree(Usage, Options, left, optional)
  BY ToolsAgree DEF ToolAgrees, Usage, Options
<1>2. /\ o \notin left
      /\ \/ o \in Usage.flags /\ v.count = 0
         \/ o \in Usage.valued /\ v.count = 1 /\ v.fine
         \/ o \in DOMAIN Usage.lists /\ v.count \in Usage.lists[o] /\ v.fine
  BY DEF Proper, AsDocumented
<1>3. Optional = optional /\ Accepted = Options.flags \cup Options.valued \cup Options.checked \cup DOMAIN Options.lists \cup optional
  BY DEF Optional, OptionalOf, Accepted
<1> HIDE DEF left, optional
<1>4. o \in Accepted
  BY <1>1, <1>2, <1>3 DEF TablesAgree
<1>5. ~(Takes(o) /\ v.count = 0 /\ o \notin Optional)
  BY <1>1, <1>2, <1>3 DEF TablesAgree, Takes
<1>6. ~(o \in Options.checked /\ ~v.fine) /\ ~(o \in DOMAIN Options.lists /\ ~v.fine)
  BY <1>1, <1>2 DEF TablesAgree
<1>7. ~(o \in DOMAIN Options.lists /\ v.count \notin Options.lists[o])
  BY <1>1, <1>2 DEF TablesAgree
<1>8. QED
  BY <1>4, <1>5, <1>6, <1>7 DEF Refused

\* What was given, after one more option
LEMMA GivenMore ==
  ASSUME line.given \in Seq(Givens), NEW g \in Givens, NEW l, l = [line EXCEPT !.given = Append(@, g)],
         line = [tool |-> line.tool, given |-> line.given, names |-> line.names], line' = l
  PROVE  /\ line'.tool = line.tool /\ line'.names = line.names /\ line'.given = Append(line.given, g)
         /\ line' = [tool |-> line'.tool, given |-> line'.given, names |-> line'.names]
         /\ line'.given \in Seq(Givens) /\ Len(line'.given) = Len(line.given) + 1
         /\ DOMAIN line'.given = DOMAIN line.given \cup {Len(line.given) + 1} /\ Len(line.given) + 1 \notin DOMAIN line.given
         /\ line'.given[Len(line.given) + 1] = g /\ (\A i \in DOMAIN line.given : line'.given[i] = line.given[i])
         /\ GivenOptions' = GivenOptions \cup {g.option}
<1>1. line'.tool = line.tool /\ line'.names = line.names /\ line'.given = Append(line.given, g)
      /\ line' = [tool |-> line'.tool, given |-> line'.given, names |-> line'.names]
  OBVIOUS
<1>2. \A q \in Seq(Givens) :
        /\ Append(q, g) \in Seq(Givens) /\ Len(Append(q, g)) = Len(q) + 1
        /\ DOMAIN Append(q, g) = DOMAIN q \cup {Len(q) + 1} /\ Len(q) + 1 \notin DOMAIN q
        /\ Append(q, g)[Len(q) + 1] = g /\ (\A i \in DOMAIN q : Append(q, g)[i] = q[i])
  OBVIOUS
<1>3. /\ line'.given \in Seq(Givens) /\ Len(line'.given) = Len(line.given) + 1
      /\ DOMAIN line'.given = DOMAIN line.given \cup {Len(line.given) + 1} /\ Len(line.given) + 1 \notin DOMAIN line.given
      /\ line'.given[Len(line.given) + 1] = g /\ (\A i \in DOMAIN line.given : line'.given[i] = line.given[i])
  BY <1>1, <1>2
<1>4. GivenOptions' = GivenOptions \cup {g.option}
  BY <1>3 DEF GivenOptions
<1>5. QED
  BY <1>1, <1>3, <1>4

\* Two indices of options a command line asks for one of
LEMMA OneOf ==
  ASSUME NEW q \in Seq(Givens), NEW needs, NEW i \in DOMAIN q, NEW j \in DOMAIN q, i # j,
         q[i].option \in needs, q[j].option \in needs
  PROVE  Cardinality({k \in DOMAIN q : q[k].option \in needs}) # 1
<1> DEFINE K == {k \in DOMAIN q : q[k].option \in needs}
<1>1. IsFiniteSet(K)
  <2>1. IsFiniteSet(1 .. Len(q))
    BY FS_Interval
  <2>2. QED
    BY <2>1, FS_Subset
<1>2. i \in K /\ j \in K
  OBVIOUS
<1> HIDE DEF K
<1>3. K # {} /\ (Cardinality(K) = 1 <=> \E x : K = {x})
  BY <1>1, <1>2, FS_Singleton
<1>4. Cardinality(K) # 1
  BY <1>2, <1>3
<1>5. QED
  BY <1>4 DEF K

LEMMA CommandRefused ==
  ASSUME CommandInv, NEW o \in Accepted \cup Documented, NEW v \in Values(o), ReadOption(o, v), Refused(o, v)
  PROVE  CommandInv'
<1> DEFINE g == [option |-> o, value |-> v]
           n == Len(line.given)
<1>1. v \in GivenValues /\ g \in Givens /\ g.option = o
  BY ValuesTyped DEF Givens
<1>2. /\ line' = [line EXCEPT !.given = Append(@, g)] /\ st' = OnError /\ parsed' = parsed /\ counted' = counted
      /\ st = "reading" /\ Len(line.given) < MaxOptions
  BY DEF ReadOption
<1>3. /\ line.tool \in DOMAIN Tools /\ line.names = 0 /\ line.given \in Seq(Givens) /\ n \in Nat
      /\ line = [tool |-> line.tool, given |-> line.given, names |-> line.names]
  BY <1>2 DEF CommandInv
<1> HIDE DEF g
<1>4. /\ line'.tool = line.tool /\ line'.names = line.names /\ line'.given = Append(line.given, g)
      /\ line' = [tool |-> line'.tool, given |-> line'.given, names |-> line'.names]
      /\ line'.given \in Seq(Givens) /\ Len(line'.given) = n + 1
      /\ DOMAIN line'.given = DOMAIN line.given \cup {n + 1} /\ n + 1 \notin DOMAIN line.given
      /\ line'.given[n + 1] = g /\ (\A i \in DOMAIN line.given : line'.given[i] = line.given[i])
      /\ GivenOptions' = GivenOptions \cup {g.option}
  BY <1>1, <1>2, <1>3, GivenMore
<1>5. Usage' = Usage /\ Ended' = Ended /\ Fields' = Fields /\ Givens' = Givens
  BY <1>4 DEF Usage, Ended, Fields, Givens, Accepted, Documented, Options, Optional
<1>6. st' \in {"help", "error"}
  BY <1>2 DEF OnError
<1>7. ~InUsage'
  <2> SUFFICES ASSUME InUsage' PROVE FALSE
    OBVIOUS
  <2>1. AsDocumented(g) /\ g.option \notin LeftOf(line.tool)
    <3>1. (\A i \in DOMAIN line.given : AsDocumented(line.given[i]))'
      BY DEF InUsage
    <3>2. \A i \in DOMAIN line'.given : AsDocumented(line'.given[i])
      BY <1>5, <3>1 DEF AsDocumented
    <3>3. AsDocumented(g)
      BY <1>4, <3>2
    <3>4. line.tool \in DOMAIN Left => GivenOptions' \cap Left[line.tool] = {}
      BY <1>4 DEF InUsage
    <3>5. QED
      BY <1>4, <3>3, <3>4 DEF LeftOf
  <2>2. o \in Ended.once /\ GivenOptions \cap Ended.once # {}
    <3>1. Proper([option |-> o, value |-> v])
      BY <2>1 DEF Proper, g
    <3>2. QED
      BY <1>1, <1>3, <3>1, ProperTaken
  <2>3. PICK i \in DOMAIN line.given : line.given[i].option \in Ended.once
    BY <2>2 DEF GivenOptions
  <2>4. PICK f \in Usage.forms : Matches(f)'
    BY <1>5 DEF InUsage
  <2>5. Ended.once \subseteq f.needs \cup f.bars
    BY <1>3, ToolsAgree DEF ToolAgrees, FormsAgree, Usage, Ended
  <2>6. GivenOptions' \cap f.bars = {}
    BY <2>4 DEF Matches
  <2>7. f.needs # {} => Cardinality({k \in DOMAIN line'.given : line'.given[k].option \in f.needs}) = 1
    BY <2>4 DEF Matches
  <2>8. o \in f.needs /\ line.given[i].option \in f.needs
    BY <1>1, <1>4, <2>2, <2>3, <2>5, <2>6 DEF GivenOptions
  <2>9. i \in DOMAIN line'.given /\ n + 1 \in DOMAIN line'.given /\ i # n + 1
        /\ line'.given[i].option \in f.needs /\ line'.given[n + 1].option \in f.needs
    BY <1>1, <1>4, <2>8
  <2>10. Cardinality({k \in DOMAIN line'.given : line'.given[k].option \in f.needs}) # 1
    BY <1>4, <2>9, OneOf
  <2>11. QED
    BY <2>7, <2>8, <2>10
<1>8. UsageHolds'
  BY <1>7 DEF UsageHolds
<1>9. n + 1 <= MaxOptions
  BY <1>2, <1>3, OptionsAssumption
<1>10. QED
  BY <1>2, <1>3, <1>4, <1>5, <1>6, <1>8, <1>9, NamesAssumption DEF CommandInv

LEMMA CommandTaken ==
  ASSUME CommandInv, NEW o \in Accepted \cup Documented, NEW v \in Values(o), ReadOption(o, v), ~Refused(o, v)
  PROVE  CommandInv'
<1> DEFINE g == [option |-> o, value |-> v]
           n == Len(line.given)
<1>1. v \in GivenValues /\ g \in Givens /\ g.option = o /\ g.value = v
  BY ValuesTyped DEF Givens
<1>2. /\ line' = [line EXCEPT !.given = Append(@, g)] /\ st' = st
      /\ parsed' = [f \in DOMAIN parsed |-> IF o \in Fields.writes[f] THEN o ELSE parsed[f]]
      /\ counted' = IF Takes(o) THEN counted ELSE counted + v.count
      /\ st = "reading" /\ Len(line.given) < MaxOptions
  BY DEF ReadOption
<1>3. /\ line.tool \in DOMAIN Tools /\ line.names = 0 /\ line.given \in Seq(Givens) /\ n \in Nat
      /\ line = [tool |-> line.tool, given |-> line.given, names |-> line.names]
      /\ counted \in Nat /\ counted <= 8 * n /\ v.count \in 0 .. 8
  BY <1>1, <1>2 DEF CommandInv, GivenValues
<1> HIDE DEF g
<1>4. /\ line'.tool = line.tool /\ line'.names = line.names /\ line'.given = Append(line.given, g)
      /\ line' = [tool |-> line'.tool, given |-> line'.given, names |-> line'.names]
      /\ line'.given \in Seq(Givens) /\ Len(line'.given) = n + 1
      /\ DOMAIN line'.given = DOMAIN line.given \cup {n + 1} /\ n + 1 \notin DOMAIN line.given
      /\ line'.given[n + 1] = g /\ (\A i \in DOMAIN line.given : line'.given[i] = line.given[i])
      /\ GivenOptions' = GivenOptions \cup {g.option}
  BY <1>1, <1>2, <1>3, GivenMore
<1>5. Usage' = Usage /\ Fields' = Fields /\ Givens' = Givens
  BY <1>4 DEF Usage, Fields, Givens, Accepted, Documented, Options, Optional
<1>6. counted' \in Nat /\ counted' <= 8 * (n + 1) /\ n + 1 <= MaxOptions
  BY <1>2, <1>3, OptionsAssumption, SMTT(30)
<1>7. DOMAIN parsed = DOMAIN Fields.first /\ WrittenLast
  BY <1>2 DEF CommandInv
<1>8. parsed' = [f \in DOMAIN Fields'.first |-> parsed'[f]]
  BY <1>2, <1>5, <1>7
<1>9. WrittenLast'
  <2> SUFFICES ASSUME NEW f \in DOMAIN parsed
        PROVE  \/ parsed'[f] = Fields.first[f] /\ GivenOptions' \cap Fields.writes[f] = {}
               \/ parsed'[f] \in GivenOptions' \cap Fields.writes[f]
    BY <1>2, <1>5 DEF WrittenLast
  <2>1. parsed'[f] = IF o \in Fields.writes[f] THEN o ELSE parsed[f]
    BY <1>2
  <2>2. \/ parsed[f] = Fields.first[f] /\ GivenOptions \cap Fields.writes[f] = {}
        \/ parsed[f] \in GivenOptions \cap Fields.writes[f]
    BY <1>7 DEF WrittenLast
  <2>3. QED
    BY <1>1, <1>4, <2>1, <2>2
<1>10. AllProper' => counted' = 0
  <2> SUFFICES ASSUME AllProper' PROVE counted' = 0
    OBVIOUS
  <2>1. \A i \in DOMAIN line'.given : Proper(line'.given[i])
    BY <1>4, <1>5 DEF AllProper, Proper, AsDocumented
  <2>2. AllProper /\ Proper(g)
    BY <1>4, <2>1 DEF AllProper
  <2>3. counted = 0
    BY <1>2, <2>2 DEF CommandInv
  <2>4. TablesAgree(Usage, Options, LeftOf(line.tool), OptionalOf(line.tool))
    BY <1>3, ToolsAgree DEF ToolAgrees, Usage, Options
  <2>5. o \in Options.flags => v.count = 0
    BY <1>1, <2>2, <2>4 DEF Proper, AsDocumented, TablesAgree
  <2>6. QED
    BY <1>2, <1>3, <2>3, <2>5 DEF Takes
<1>11. UsageHolds'
  BY <1>2 DEF UsageHolds
<1>12. counted' \in 0 .. MaxNames + MaxOptions * 8
  BY <1>3, <1>6, NamesAssumption, OptionsAssumption
<1>13. QED
  BY <1>2, <1>3, <1>4, <1>5, <1>6, <1>8, <1>9, <1>10, <1>11, <1>12, NamesAssumption DEF CommandInv

LEMMA CommandFinish ==
  ASSUME CommandInv, NEW n \in 0 .. MaxNames, Finish(n) PROVE CommandInv'
<1>1. /\ st = "reading" /\ line' = [line EXCEPT !.names = n] /\ counted' = counted + n /\ parsed' = parsed
      /\ st' = IF GivenOptions \cap Ended.quits # {} THEN "help"
               ELSE IF ~Complete(counted') THEN "error"
               ELSE IF GivenOptions \cap Ended.late # {} THEN "help"
               ELSE "run"
  BY DEF Finish
<1>2. /\ line.tool \in DOMAIN Tools /\ line.given \in Seq(Givens) /\ Len(line.given) <= MaxOptions /\ Len(line.given) \in Nat
      /\ line = [tool |-> line.tool, given |-> line.given, names |-> line.names]
      /\ counted \in Nat /\ counted <= 8 * Len(line.given) /\ WrittenLast
      /\ DOMAIN parsed = DOMAIN Fields.first /\ parsed = [f \in DOMAIN Fields.first |-> parsed[f]]
  BY <1>1 DEF CommandInv
<1>3. /\ line'.tool = line.tool /\ line'.names = n /\ line'.given = line.given
      /\ line' = [tool |-> line'.tool, given |-> line'.given, names |-> line'.names]
  BY <1>1, <1>2
<1>4. Usage' = Usage /\ Fields' = Fields /\ Givens' = Givens /\ Ended' = Ended /\ GivenOptions' = GivenOptions
  BY <1>3 DEF Usage, Fields, Givens, Accepted, Documented, Options, Optional, Ended, GivenOptions
<1>5. ASSUME InUsage'
      PROVE  /\ st' = (IF GivenOptions \cap (Ended.quits \cup Ended.late) # {} THEN "help" ELSE "run")
             /\ GivenOptions \subseteq Usage.default => parsed = Fields.first
  <2>1. AllProper
    <3>1. (\A i \in DOMAIN line.given : AsDocumented(line.given[i]))'
      BY <1>5 DEF InUsage
    <3>2. \A i \in DOMAIN line.given : AsDocumented(line.given[i])
      BY <1>3, <1>4, <3>1 DEF AsDocumented
    <3>3. line.tool \in DOMAIN Left => GivenOptions \cap Left[line.tool] = {}
      BY <1>3, <1>4, <1>5 DEF InUsage
    <3>4. QED
      BY <3>2, <3>3 DEF AllProper, Proper, LeftOf, GivenOptions
  <2>2. counted' = n
    BY <1>1, <2>1 DEF CommandInv
  <2>3. PICK f \in Usage.forms : Matches(f)'
    BY <1>4, <1>5 DEF InUsage
  <2>4. Shown(f, GivenOptions, n)
    <3>1. f.needs # {} => Cardinality({i \in DOMAIN line.given : line.given[i].option \in f.needs}) = 1
      BY <1>3, <2>3 DEF Matches
    <3>2. Cardinality({}) = 0
      BY FS_EmptySet
    <3>3. f.needs # {} => {i \in DOMAIN line.given : line.given[i].option \in f.needs} # {}
      BY <3>1, <3>2
    <3>4. GivenOptions \cap f.bars = {} /\ n \in f.names
      BY <1>3, <1>4, <2>3 DEF Matches
    <3>5. QED
      BY <3>3, <3>4 DEF Shown, GivenOptions
  <2> DEFINE m == IF "mode" \in DOMAIN Fields.first THEN parsed.mode ELSE "none"
  <2>5. FormsAgree(Usage, Fields, Ended) /\ DefaultsAgree(Usage, Fields)
    BY <1>2, ToolsAgree DEF ToolAgrees, Usage, Fields, Ended
  <2>6. ModeOf(Fields, GivenOptions, m)
    <3>1. ModeAgrees(Fields, Ended)
      BY <1>2, ToolsMode DEF Fields, Ended
    <3>2. "mode" \in DOMAIN Fields.first => m = parsed.mode /\ parsed.mode = parsed["mode"] /\ Fields.writes.mode = Fields.writes["mode"]
      OBVIOUS
    <3>3. QED
      BY <1>2, <3>1, <3>2 DEF ModeOf, WrittenLast, ModeAgrees
  <2>7. ASSUME GivenOptions \cap Ended.quits = {}
        PROVE  st' = (IF GivenOptions \cap (Ended.quits \cup Ended.late) # {} THEN "help" ELSE "run")
    <3>1. CompleteFor(Fields, Ended, GivenOptions, m, n)
      BY <2>4, <2>5, <2>6, <2>7 DEF FormsAgree
    <3>2. Complete(n)
      <4>1. ModeAgrees(Fields, Ended)
        BY <1>2, ToolsMode DEF Fields, Ended
      <4>2. DOMAIN parsed = DOMAIN Fields.first
        BY <1>2
      <4>3. QED
        BY <3>1, <4>1, <4>2 DEF Complete, NeedsNames, CompleteFor, ModeAgrees
    <3>3. QED
      BY <1>1, <2>2, <2>7, <3>2
  <2>8. ASSUME GivenOptions \cap Ended.quits # {}
        PROVE  st' = (IF GivenOptions \cap (Ended.quits \cup Ended.late) # {} THEN "help" ELSE "run")
    BY <1>1, <2>8
  <2>9. ASSUME GivenOptions \subseteq Usage.default PROVE parsed = Fields.first
    <3>1. \A x \in DOMAIN Fields.first : parsed[x] = Fields.first[x]
      BY <1>2, <2>5, <2>9 DEF DefaultsAgree, WrittenLast
    <3>2. Fields.first = [x \in DOMAIN Fields.first |-> Fields.first[x]]
      BY <1>2, FirstIsFunction DEF Fields
    <3>3. QED
      BY <1>2, <3>1, <3>2
  <2>10. QED
    BY <2>7, <2>8, <2>9
<1>6. UsageHolds'
  BY <1>1, <1>4, <1>5 DEF UsageHolds
<1>7. counted' \in 0 .. MaxNames + MaxOptions * 8
  BY <1>1, <1>2, NamesAssumption, OptionsAssumption
<1>8. st' \in {"run", "help", "error"}
  BY <1>1
<1>9. QED
  BY <1>1, <1>2, <1>3, <1>4, <1>6, <1>7, <1>8 DEF CommandInv

LEMMA CommandSame ==
  ASSUME CommandInv, UNCHANGED commandVars PROVE CommandInv'
<1>1. line' = line /\ parsed' = parsed /\ counted' = counted /\ st' = st
  BY DEF commandVars
<1>2. /\ Usage' = Usage /\ Fields' = Fields /\ Givens' = Givens /\ GivenOptions' = GivenOptions /\ Ended' = Ended
  BY <1>1 DEF Usage, Fields, Givens, Accepted, Documented, Options, Optional, Ended, GivenOptions
<1>3. WrittenLast' = WrittenLast /\ AllProper' = AllProper
  BY <1>1, <1>2 DEF WrittenLast, AllProper, Proper, AsDocumented
<1>4. UsageHolds' = UsageHolds
  BY <1>1, <1>2 DEF UsageHolds, InUsage, AsDocumented, Matches
<1>5. QED
  BY <1>1, <1>2, <1>3, <1>4 DEF CommandInv

LEMMA CommandStart == CommandInit => CommandInv
<1> SUFFICES ASSUME CommandInit PROVE CommandInv
  OBVIOUS
<1>1. PICK t \in DOMAIN Tools : line = [tool |-> t, given |-> <<>>, names |-> 0]
  BY DEF CommandInit
<1>2. parsed = Fields.first /\ counted = 0 /\ st = "reading"
  BY DEF CommandInit
<1>3. line.tool \in DOMAIN Tools /\ line.given = <<>> /\ line.names = 0 /\ Len(line.given) = 0
      /\ line = [tool |-> line.tool, given |-> line.given, names |-> line.names] /\ line.given \in Seq(Givens)
  BY <1>1
<1>4. GivenOptions = {}
  BY <1>3 DEF GivenOptions
<1>5. WrittenLast
  BY <1>2, <1>4 DEF WrittenLast
<1>6. Fields.first = [f \in DOMAIN Fields.first |-> Fields.first[f]]
  BY FirstIsFunction, <1>3 DEF Fields
<1>7. UsageHolds
  BY <1>2 DEF UsageHolds
<1>8. QED
  BY <1>2, <1>3, <1>5, <1>6, <1>7, NamesAssumption, OptionsAssumption DEF CommandInv

LEMMA CommandKept == CommandInv /\ (CommandNext \/ UNCHANGED commandVars) => CommandInv'
<1> SUFFICES ASSUME CommandInv, CommandNext \/ UNCHANGED commandVars PROVE CommandInv'
  OBVIOUS
<1>1. ASSUME NEW o \in Accepted \cup Documented, NEW v \in Values(o), ReadOption(o, v) PROVE CommandInv'
  BY <1>1, CommandRefused, CommandTaken
<1>2. ASSUME NEW n \in 0 .. MaxNames, Finish(n) PROVE CommandInv'
  BY <1>2, CommandFinish
<1>3. CASE Exit
  BY <1>3, CommandSame DEF Exit
<1>4. CASE UNCHANGED commandVars
  BY <1>4, CommandSame
<1>5. QED
  BY <1>1, <1>2, <1>3, <1>4 DEF CommandNext

\* A program accepts every command line that its usage() shows, but for the options
\* of usage() that its switch does not have (Left).
THEOREM CommandsHoldHolds == Spec => []CommandsHold
<1> DEFINE Inv == part = "command" => CommandInv
<1>1. Init => Inv
  BY CommandStart DEF Init
<1>2. Inv /\ [Next]_vars => Inv'
  BY Parts, CommandKept
<1>3. Inv => CommandsHold
  BY DEF CommandsHold, CommandInv
<1> HIDE DEF Inv
<1>4. QED
  BY <1>1, <1>2, <1>3, PTL DEF Spec

-----------------------------------------------------------------------------
(* GlobalObjects, whose theorems are about variables of its own *)

GlobalProofs == INSTANCE GlobalObjects_proofs WITH MaxCalls <- MaxRequests, thread <- s1, object <- s2, rng <- s3

LEMMA GlobalSame ==
  /\ Global!Init = GlobalProofs!Init
  /\ Global!Next = GlobalProofs!Next
  /\ Global!MadeOnce = GlobalProofs!MadeOnce
  /\ Global!WholeBlocksDiffer = GlobalProofs!WholeBlocksDiffer
  /\ Global!GlobalsTypeOK = GlobalProofs!GlobalsTypeOK
  /\ Global!ObjectsAssumption = GlobalProofs!ObjectsAssumption
<1>1. /\ Global!Nobody = GlobalProofs!Nobody /\ Global!FodderBlocks = GlobalProofs!FodderBlocks
      /\ Global!AllObjects = GlobalProofs!AllObjects
      /\ Global!ObjectPlaces = GlobalProofs!ObjectPlaces /\ Global!RandomPlaces = GlobalProofs!RandomPlaces
  BY DEF Global!Nobody, GlobalProofs!Nobody, Global!FodderBlocks, GlobalProofs!FodderBlocks, Global!AllObjects, GlobalProofs!AllObjects, Global!ObjectPlaces, GlobalProofs!ObjectPlaces, Global!RandomPlaces, GlobalProofs!RandomPlaces
<1>2. /\ \A o, at : Global!Frame(o, at) = GlobalProofs!Frame(o, at)
      /\ \A o : Global!Needs(o) = GlobalProofs!Needs(o)
      /\ \A ctr, len : Global!CounterAfter(ctr, len) = GlobalProofs!CounterAfter(ctr, len)
  BY DEF Global!Frame, GlobalProofs!Frame, Global!Needs, GlobalProofs!Needs, Global!CounterAfter, GlobalProofs!CounterAfter
<1>3. ASSUME NEW t PROVE Global!CallObject(t) = GlobalProofs!CallObject(t)
  BY DEF Global!CallObject, GlobalProofs!CallObject, Global!At, GlobalProofs!At, Global!Here, GlobalProofs!Here, Global!Goto, GlobalProofs!Goto, Global!Frame, GlobalProofs!Frame, Global!Nobody, GlobalProofs!Nobody, Global!AfterRetest, GlobalProofs!AfterRetest, Global!Needs, GlobalProofs!Needs, Global!FodderBlocks, GlobalProofs!FodderBlocks, Global!CounterAfter, GlobalProofs!CounterAfter, Global!AllObjects, GlobalProofs!AllObjects
<1>4. ASSUME NEW t PROVE Global!Test(t) = GlobalProofs!Test(t)
  BY DEF Global!Test, GlobalProofs!Test, Global!At, GlobalProofs!At, Global!Here, GlobalProofs!Here, Global!Goto, GlobalProofs!Goto, Global!Frame, GlobalProofs!Frame, Global!Nobody, GlobalProofs!Nobody, Global!AfterRetest, GlobalProofs!AfterRetest, Global!Needs, GlobalProofs!Needs, Global!FodderBlocks, GlobalProofs!FodderBlocks, Global!CounterAfter, GlobalProofs!CounterAfter, Global!AllObjects, GlobalProofs!AllObjects
<1>5. ASSUME NEW t PROVE Global!Lock(t) = GlobalProofs!Lock(t)
  BY DEF Global!Lock, GlobalProofs!Lock, Global!At, GlobalProofs!At, Global!Here, GlobalProofs!Here, Global!Goto, GlobalProofs!Goto, Global!Frame, GlobalProofs!Frame, Global!Nobody, GlobalProofs!Nobody, Global!AfterRetest, GlobalProofs!AfterRetest, Global!Needs, GlobalProofs!Needs, Global!FodderBlocks, GlobalProofs!FodderBlocks, Global!CounterAfter, GlobalProofs!CounterAfter, Global!AllObjects, GlobalProofs!AllObjects
<1>6. ASSUME NEW t PROVE Global!Retest(t) = GlobalProofs!Retest(t)
  BY DEF Global!Retest, GlobalProofs!Retest, Global!At, GlobalProofs!At, Global!Here, GlobalProofs!Here, Global!Goto, GlobalProofs!Goto, Global!Frame, GlobalProofs!Frame, Global!Nobody, GlobalProofs!Nobody, Global!AfterRetest, GlobalProofs!AfterRetest, Global!Needs, GlobalProofs!Needs, Global!FodderBlocks, GlobalProofs!FodderBlocks, Global!CounterAfter, GlobalProofs!CounterAfter, Global!AllObjects, GlobalProofs!AllObjects
<1>7. ASSUME NEW t PROVE Global!Build(t) = GlobalProofs!Build(t)
  BY DEF Global!Build, GlobalProofs!Build, Global!At, GlobalProofs!At, Global!Here, GlobalProofs!Here, Global!Goto, GlobalProofs!Goto, Global!Frame, GlobalProofs!Frame, Global!Nobody, GlobalProofs!Nobody, Global!AfterRetest, GlobalProofs!AfterRetest, Global!Needs, GlobalProofs!Needs, Global!FodderBlocks, GlobalProofs!FodderBlocks, Global!CounterAfter, GlobalProofs!CounterAfter, Global!AllObjects, GlobalProofs!AllObjects
<1>8. ASSUME NEW t PROVE Global!Publish(t) = GlobalProofs!Publish(t)
  BY DEF Global!Publish, GlobalProofs!Publish, Global!At, GlobalProofs!At, Global!Here, GlobalProofs!Here, Global!Goto, GlobalProofs!Goto, Global!Frame, GlobalProofs!Frame, Global!Nobody, GlobalProofs!Nobody, Global!AfterRetest, GlobalProofs!AfterRetest, Global!Needs, GlobalProofs!Needs, Global!FodderBlocks, GlobalProofs!FodderBlocks, Global!CounterAfter, GlobalProofs!CounterAfter, Global!AllObjects, GlobalProofs!AllObjects
<1>9. ASSUME NEW t PROVE Global!Unlock(t) = GlobalProofs!Unlock(t)
  BY DEF Global!Unlock, GlobalProofs!Unlock, Global!At, GlobalProofs!At, Global!Here, GlobalProofs!Here, Global!Goto, GlobalProofs!Goto, Global!Frame, GlobalProofs!Frame, Global!Nobody, GlobalProofs!Nobody, Global!AfterRetest, GlobalProofs!AfterRetest, Global!Needs, GlobalProofs!Needs, Global!FodderBlocks, GlobalProofs!FodderBlocks, Global!CounterAfter, GlobalProofs!CounterAfter, Global!AllObjects, GlobalProofs!AllObjects
<1>10. ASSUME NEW t PROVE Global!Return(t) = GlobalProofs!Return(t)
  BY DEF Global!Return, GlobalProofs!Return, Global!At, GlobalProofs!At, Global!Here, GlobalProofs!Here, Global!Goto, GlobalProofs!Goto, Global!Frame, GlobalProofs!Frame, Global!Nobody, GlobalProofs!Nobody, Global!AfterRetest, GlobalProofs!AfterRetest, Global!Needs, GlobalProofs!Needs, Global!FodderBlocks, GlobalProofs!FodderBlocks, Global!CounterAfter, GlobalProofs!CounterAfter, Global!AllObjects, GlobalProofs!AllObjects
<1>11. ASSUME NEW t PROVE Global!CallRandom(t) = GlobalProofs!CallRandom(t)
  BY DEF Global!CallRandom, GlobalProofs!CallRandom, Global!At, GlobalProofs!At, Global!Here, GlobalProofs!Here, Global!Goto, GlobalProofs!Goto, Global!Frame, GlobalProofs!Frame, Global!Nobody, GlobalProofs!Nobody, Global!AfterRetest, GlobalProofs!AfterRetest, Global!Needs, GlobalProofs!Needs, Global!FodderBlocks, GlobalProofs!FodderBlocks, Global!CounterAfter, GlobalProofs!CounterAfter, Global!AllObjects, GlobalProofs!AllObjects
<1>12. ASSUME NEW t PROVE Global!NewGenerator(t) = GlobalProofs!NewGenerator(t)
  BY DEF Global!NewGenerator, GlobalProofs!NewGenerator, Global!At, GlobalProofs!At, Global!Here, GlobalProofs!Here, Global!Goto, GlobalProofs!Goto, Global!Frame, GlobalProofs!Frame, Global!Nobody, GlobalProofs!Nobody, Global!AfterRetest, GlobalProofs!AfterRetest, Global!Needs, GlobalProofs!Needs, Global!FodderBlocks, GlobalProofs!FodderBlocks, Global!CounterAfter, GlobalProofs!CounterAfter, Global!AllObjects, GlobalProofs!AllObjects
<1>13. ASSUME NEW t PROVE Global!Fill(t) = GlobalProofs!Fill(t)
  BY DEF Global!Fill, GlobalProofs!Fill, Global!At, GlobalProofs!At, Global!Here, GlobalProofs!Here, Global!Goto, GlobalProofs!Goto, Global!Frame, GlobalProofs!Frame, Global!Nobody, GlobalProofs!Nobody, Global!AfterRetest, GlobalProofs!AfterRetest, Global!Needs, GlobalProofs!Needs, Global!FodderBlocks, GlobalProofs!FodderBlocks, Global!CounterAfter, GlobalProofs!CounterAfter, Global!AllObjects, GlobalProofs!AllObjects
<1>14. ASSUME NEW t PROVE Global!Fodder(t) = GlobalProofs!Fodder(t)
  BY DEF Global!Fodder, GlobalProofs!Fodder, Global!At, GlobalProofs!At, Global!Here, GlobalProofs!Here, Global!Goto, GlobalProofs!Goto, Global!Frame, GlobalProofs!Frame, Global!Nobody, GlobalProofs!Nobody, Global!AfterRetest, GlobalProofs!AfterRetest, Global!Needs, GlobalProofs!Needs, Global!FodderBlocks, GlobalProofs!FodderBlocks, Global!CounterAfter, GlobalProofs!CounterAfter, Global!AllObjects, GlobalProofs!AllObjects
<1>15. ASSUME NEW t PROVE Global!SetKey(t) = GlobalProofs!SetKey(t)
  BY DEF Global!SetKey, GlobalProofs!SetKey, Global!At, GlobalProofs!At, Global!Here, GlobalProofs!Here, Global!Goto, GlobalProofs!Goto, Global!Frame, GlobalProofs!Frame, Global!Nobody, GlobalProofs!Nobody, Global!AfterRetest, GlobalProofs!AfterRetest, Global!Needs, GlobalProofs!Needs, Global!FodderBlocks, GlobalProofs!FodderBlocks, Global!CounterAfter, GlobalProofs!CounterAfter, Global!AllObjects, GlobalProofs!AllObjects
<1>16. Global!Next = GlobalProofs!Next
  BY <1>3, <1>4, <1>5, <1>6, <1>7, <1>8, <1>9, <1>10, <1>11, <1>12, <1>13, <1>14, <1>15 DEF Global!Next, GlobalProofs!Next, Global!Call, GlobalProofs!Call, Global!Proceed, GlobalProofs!Proceed,
     Global!Finished, GlobalProofs!Finished, Global!vars, GlobalProofs!vars
<1>17. QED
  BY <1>1, <1>16 DEF Global!Init, GlobalProofs!Init, Global!MadeOnce, GlobalProofs!MadeOnce,
     Global!WholeBlocksDiffer, GlobalProofs!WholeBlocksDiffer, Global!GlobalsTypeOK, GlobalProofs!GlobalsTypeOK,
     Global!ObjectsAssumption, GlobalProofs!ObjectsAssumption

GlobalInv == GlobalProofs!Locked /\ GlobalProofs!Behind /\ GlobalProofs!AreFunctions

LEMMA GlobalInvariant == Spec => [](part = "global" => GlobalInv)
<1> DEFINE Inv == part = "global" => GlobalInv
<1>1. GlobalProofs!ObjectsAssumption
  BY ComponentsAssumption, GlobalSame
<1>2. Init => Inv
  <2>1. GlobalProofs!Init => GlobalInv
    BY <1>1, GlobalProofs!InitLocked, GlobalProofs!InitBehind DEF GlobalInv, GlobalProofs!Init, GlobalProofs!AreFunctions
  <2>2. QED
    BY <2>1, GlobalSame DEF Init
<1>3. Inv /\ [Next]_vars => Inv'
  <2>1. GlobalInv /\ (GlobalProofs!Next \/ UNCHANGED <<s1, s2, s3>>) => GlobalInv'
    BY <1>1, GlobalProofs!NextBehind, GlobalProofs!NextFunctions DEF GlobalInv, GlobalProofs!vars
  <2>2. QED
    BY <2>1, Parts, GlobalSame
<1> HIDE DEF Inv
<1>4. Spec => []Inv
  BY <1>2, <1>3, PTL DEF Spec
<1>5. QED
  BY <1>4 DEF Inv

LEMMA GlobalConsequences == GlobalInv => Global!MadeOnce /\ Global!WholeBlocksDiffer /\ Global!GlobalsTypeOK
<1>1. GlobalProofs!ObjectsAssumption
  BY ComponentsAssumption, GlobalSame
<1>2. GlobalInv => GlobalProofs!MadeOnce /\ GlobalProofs!WholeBlocksDiffer /\ GlobalProofs!GlobalsTypeOK
  BY <1>1, GlobalProofs!Consequences DEF GlobalInv
<1>3. QED
  BY <1>2, GlobalSame

\* Double-checked locking does its work also beside the other components: a
\* dictionary, a header part or the object factory is made once, and who came through
\* its lock uses it whole.
THEOREM MadeOnceHolds == Spec => []MadeOnce
<1> DEFINE Inv == part = "global" => GlobalInv
<1>1. Inv => MadeOnce
  BY GlobalConsequences DEF MadeOnce
<1>2. Spec => []Inv
  BY GlobalInvariant
<1> HIDE DEF Inv
<1>3. QED
  BY <1>1, <1>2, PTL

\* FortunaRNG never gives a whole block twice, beside the other components too.
THEOREM WholeBlocksDifferHolds == Spec => []WholeBlocksDiffer
<1> DEFINE Inv == part = "global" => GlobalInv
<1>1. Inv => WholeBlocksDiffer
  BY GlobalConsequences DEF WholeBlocksDiffer
<1>2. Spec => []Inv
  BY GlobalInvariant
<1> HIDE DEF Inv
<1>3. QED
  BY <1>1, <1>2, PTL

-----------------------------------------------------------------------------
(* ClipFile, whose invariant is proved about variables of its own *)

ClipProofs == INSTANCE ClipFile_proofs WITH writer <- s1, mxf <- s2, past <- s3

LEMMA ClipSame ==
  /\ Clip!Init = ClipProofs!Init
  /\ Clip!Next = ClipProofs!Next
  /\ Clip!ClipReadsBack = ClipProofs!ClipReadsBack
  /\ Clip!ClipTypeOK = ClipProofs!ClipTypeOK
  /\ Clip!ClipAssumption = ClipProofs!ClipAssumption
<1>1. Clip!Empty = ClipProofs!Empty
  BY DEF Clip!Empty, ClipProofs!Empty
<1>2. \A kind : Clip!NoWriter(kind) = ClipProofs!NoWriter(kind)
  BY DEF Clip!NoWriter, ClipProofs!NoWriter
<1>3. Clip!Init = ClipProofs!Init
  BY <1>1, <1>2 DEF Clip!Init, ClipProofs!Init
<1>4. Clip!Torn = ClipProofs!Torn
  BY DEF Clip!Torn, ClipProofs!Torn
<1>5. \A write : Clip!PackFaults(write) = ClipProofs!PackFaults(write)
  BY <1>4 DEF Clip!PackFaults, ClipProofs!PackFaults
<1>6. \A m : Clip!HasEntries(m) = ClipProofs!HasEntries(m)
  BY DEF Clip!HasEntries, ClipProofs!HasEntries
<1>7. \A f : Clip!LostLens(f) = ClipProofs!LostLens(f)
  BY <1>4 DEF Clip!LostLens, ClipProofs!LostLens
<1>8. \A at, type, sid : Clip!NewPack(at, type, sid) = ClipProofs!NewPack(at, type, sid)
  BY DEF Clip!NewPack, ClipProofs!NewPack
<1>9. \A m, pack, f : Clip!PutPack(m, pack, f) = ClipProofs!PutPack(m, pack, f)
  BY DEF Clip!PutPack, ClipProofs!PutPack
<1>10. \A m, sid, at : Clip!PushRip(m, sid, at) = ClipProofs!PushRip(m, sid, at)
  BY DEF Clip!PushRip, ClipProofs!PushRip
<1>11. \A m, f, lost : Clip!TextPartition(m, f, lost) = ClipProofs!TextPartition(m, f, lost)
  BY <1>5, <1>8, <1>9, <1>10 DEF Clip!TextPartition, ClipProofs!TextPartition
<1>12. \A m, cells : Clip!PutCells(m, cells) = ClipProofs!PutCells(m, cells)
  BY DEF Clip!PutCells, ClipProofs!PutCells
<1>13. \A m, f, lost : Clip!PutText(m, f, lost) = ClipProofs!PutText(m, f, lost)
  BY <1>11, <1>12 DEF Clip!PutText, ClipProofs!PutText
<1>14. \A s : Clip!SegmentEnd(s) = ClipProofs!SegmentEnd(s)
  BY DEF Clip!SegmentEnd, ClipProofs!SegmentEnd
<1>15. \A m : Clip!NextSegment(m) = ClipProofs!NextSegment(m)
  BY <1>14 DEF Clip!NextSegment, ClipProofs!NextSegment
<1>16. \A m, f, lost : Clip!LoseIndex(m, f, lost) = ClipProofs!LoseIndex(m, f, lost)
  BY <1>10, <1>15 DEF Clip!LoseIndex, ClipProofs!LoseIndex
<1>17. \A m, segs : Clip!FlushIndex(m, segs) = ClipProofs!FlushIndex(m, segs)
  BY <1>8, <1>9, <1>10, <1>15 DEF Clip!FlushIndex, ClipProofs!FlushIndex
<1>18. \A m : Clip!FlushVBR(m) = ClipProofs!FlushVBR(m)
  BY <1>6, <1>17 DEF Clip!FlushVBR, ClipProofs!FlushVBR
<1>19. \A result, fault, sound : Clip!CallLeaves(result, fault, sound) = ClipProofs!CallLeaves(result, fault, sound)
  BY DEF Clip!CallLeaves, ClipProofs!CallLeaves
<1>20. \A m : Clip!Indexed(m) = ClipProofs!Indexed(m)
  BY DEF Clip!Indexed, ClipProofs!Indexed
<1>21. \A S : Clip!Min(S) = ClipProofs!Min(S)
  BY DEF Clip!Min, ClipProofs!Min
<1>22. \A f : Clip!AddDms(f) = ClipProofs!AddDms(f)
  BY <1>5, <1>6, <1>7, <1>13, <1>16, <1>18, <1>19, <1>20, <1>21 DEF Clip!AddDms, ClipProofs!AddDms
<1>23. \A result, fault : Clip!Call(result, fault) = ClipProofs!Call(result, fault)
  BY <1>19, <1>21 DEF Clip!Call, ClipProofs!Call
<1>24. Clip!CallWithoutObject = ClipProofs!CallWithoutObject
  BY <1>23 DEF Clip!CallWithoutObject, ClipProofs!CallWithoutObject
<1>25. Clip!Done = ClipProofs!Done
  BY DEF Clip!Done, ClipProofs!Done, Clip!vars, ClipProofs!vars
<1>26. Clip!KLLen = ClipProofs!KLLen
  BY DEF Clip!KLLen, ClipProofs!KLLen
<1>27. Clip!ClipLength = ClipProofs!ClipLength
  BY <1>26 DEF Clip!ClipLength, ClipProofs!ClipLength
<1>28. \A m : Clip!BackPatch(m) = ClipProofs!BackPatch(m)
  BY <1>12, <1>27 DEF Clip!BackPatch, ClipProofs!BackPatch
<1>29. \A m : Clip!Footer(m) = ClipProofs!Footer(m)
  BY <1>8, <1>9, <1>10 DEF Clip!Footer, ClipProofs!Footer
<1>30. \A m, at : Clip!Resolves(m, at) = ClipProofs!Resolves(m, at)
  BY DEF Clip!Resolves, ClipProofs!Resolves
<1>31. \A m : Clip!RipResolves(m) = ClipProofs!RipResolves(m)
  BY <1>30 DEF Clip!RipResolves, ClipProofs!RipResolves
<1>32. \A m : Clip!FooterFails(m) = ClipProofs!FooterFails(m)
  BY <1>29 DEF Clip!FooterFails, ClipProofs!FooterFails
<1>33. Clip!FinalizeIAB = ClipProofs!FinalizeIAB
  BY <1>2, <1>12, <1>18, <1>23, <1>27, <1>28, <1>29, <1>31, <1>32 DEF Clip!FinalizeIAB, ClipProofs!FinalizeIAB
<1>34. Clip!FinalizePCM = ClipProofs!FinalizePCM
  BY <1>17, <1>23, <1>28, <1>29, <1>32 DEF Clip!FinalizePCM, ClipProofs!FinalizePCM
<1>35. \A kind : Clip!CanOpen(kind) = ClipProofs!CanOpen(kind)
  BY DEF Clip!CanOpen, ClipProofs!CanOpen
<1>36. \A m : Clip!Header(m) = ClipProofs!Header(m)
  BY <1>8, <1>9, <1>10 DEF Clip!Header, ClipProofs!Header
<1>37. Clip!KeyAndLength = ClipProofs!KeyAndLength
  BY DEF Clip!KeyAndLength, ClipProofs!KeyAndLength
<1>38. Clip!OpenFails = ClipProofs!OpenFails
  BY <1>1, <1>23 DEF Clip!OpenFails, ClipProofs!OpenFails
<1>39. \A m, clipStart, streamOffset : Clip!Opened(m, clipStart, streamOffset) = ClipProofs!Opened(m, clipStart, streamOffset)
  BY <1>2 DEF Clip!Opened, ClipProofs!Opened
<1>40. Clip!OpenWriteIAB = ClipProofs!OpenWriteIAB
  BY <1>1, <1>12, <1>26, <1>35, <1>36, <1>37, <1>38, <1>39 DEF Clip!OpenWriteIAB, ClipProofs!OpenWriteIAB
<1>41. Clip!OpenWritePCM = ClipProofs!OpenWritePCM
  BY <1>1, <1>35, <1>36, <1>38, <1>39 DEF Clip!OpenWritePCM, ClipProofs!OpenWritePCM
<1>42. Clip!RefusedCall = ClipProofs!RefusedCall
  BY <1>23 DEF Clip!RefusedCall, ClipProofs!RefusedCall
<1>43. \A cells : Clip!Accepted(cells) = ClipProofs!Accepted(cells)
  BY DEF Clip!Accepted, ClipProofs!Accepted
<1>44. \A len : Clip!Block(len) = ClipProofs!Block(len)
  BY DEF Clip!Block, ClipProofs!Block
<1>45. \A m, entry : Clip!PushIndexEntry(m, entry) = ClipProofs!PushIndexEntry(m, entry)
  BY <1>14 DEF Clip!PushIndexEntry, ClipProofs!PushIndexEntry
<1>46. \A fault : Clip!Refused(fault) = ClipProofs!Refused(fault)
  BY <1>21 DEF Clip!Refused, ClipProofs!Refused
<1>47. \A len : Clip!WriteFrameIAB(len) = ClipProofs!WriteFrameIAB(len)
  BY <1>2, <1>12, <1>43, <1>44, <1>45, <1>46 DEF Clip!WriteFrameIAB, ClipProofs!WriteFrameIAB
<1>48. Clip!ClipStart = ClipProofs!ClipStart
  BY DEF Clip!ClipStart, ClipProofs!ClipStart
<1>49. \A m : Clip!StartClip(m) = ClipProofs!StartClip(m)
  BY <1>12, <1>37 DEF Clip!StartClip, ClipProofs!StartClip
<1>50. \A len : Clip!WriteFramePCM(len) = ClipProofs!WriteFramePCM(len)
  BY <1>12, <1>37, <1>43, <1>44, <1>46, <1>48, <1>49 DEF Clip!WriteFramePCM, ClipProofs!WriteFramePCM
<1>51. Clip!TextFaults = ClipProofs!TextFaults
  BY <1>5 DEF Clip!TextFaults, ClipProofs!TextFaults
<1>52. Clip!AbortedWrite = ClipProofs!AbortedWrite
  BY <1>23 DEF Clip!AbortedWrite, ClipProofs!AbortedWrite
<1>53. Clip!Next = ClipProofs!Next
  BY <1>22, <1>24, <1>25, <1>33, <1>34, <1>40, <1>41, <1>42, <1>47, <1>50, <1>51, <1>52 DEF Clip!Next, ClipProofs!Next
<1>54. \A o : Clip!CellAt(o) = ClipProofs!CellAt(o)
  BY DEF Clip!CellAt, ClipProofs!CellAt
<1>55. \A file : Clip!FirstBody(file) = ClipProofs!FirstBody(file)
  BY DEF Clip!FirstBody, ClipProofs!FirstBody
<1>56. \A m, at : Clip!PackAt(m, at) = ClipProofs!PackAt(m, at)
  BY DEF Clip!PackAt, ClipProofs!PackAt
<1>57. \A file, i : Clip!Part(file, i) = ClipProofs!Part(file, i)
  BY <1>56 DEF Clip!Part, ClipProofs!Part
<1>58. Clip!ClipBegin = ClipProofs!ClipBegin
  BY <1>26, <1>55, <1>57 DEF Clip!ClipBegin, ClipProofs!ClipBegin
<1>59. Clip!ClipSize = ClipProofs!ClipSize
  BY <1>54, <1>58 DEF Clip!ClipSize, ClipProofs!ClipSize
<1>60. Clip!ClipDuration = ClipProofs!ClipDuration
  BY <1>59 DEF Clip!ClipDuration, ClipProofs!ClipDuration
<1>61. \A n : Clip!FrameCells(n) = ClipProofs!FrameCells(n)
  BY <1>21, <1>54, <1>58, <1>59 DEF Clip!FrameCells, ClipProofs!FrameCells
<1>62. \A i, byte : Clip!ByteRead(i, byte) = ClipProofs!ByteRead(i, byte)
  BY <1>60, <1>61 DEF Clip!ByteRead, ClipProofs!ByteRead
<1>63. \A table : Clip!Duration(table) = ClipProofs!Duration(table)
  BY DEF Clip!Duration, ClipProofs!Duration, Clip!Cardinality, ClipProofs!Cardinality
<1>64. Clip!Finalized = ClipProofs!Finalized
  BY DEF Clip!Finalized, ClipProofs!Finalized
<1>65. \A file : Clip!Bodies(file) = ClipProofs!Bodies(file)
  BY <1>55 DEF Clip!Bodies, ClipProofs!Bodies
<1>66. \A entries, i : Clip!Count(entries, i) = ClipProofs!Count(entries, i)
  BY DEF Clip!Count, ClipProofs!Count, Clip!Cardinality, ClipProofs!Cardinality
<1>67. \A file : Clip!Indexes(file) = ClipProofs!Indexes(file)
  BY <1>57 DEF Clip!Indexes, ClipProofs!Indexes
<1>68. \A file : Clip!Table(file) = ClipProofs!Table(file)
  BY <1>57, <1>65, <1>66, <1>67 DEF Clip!Table, ClipProofs!Table
<1>69. \A table, k : Clip!LookupIn(table, k) = ClipProofs!LookupIn(table, k)
  BY DEF Clip!LookupIn, ClipProofs!LookupIn
<1>70. \A file, k : Clip!Lookup(file, k) = ClipProofs!Lookup(file, k)
  BY <1>68, <1>69 DEF Clip!Lookup, ClipProofs!Lookup
<1>71. \A n : Clip!FrameIAB(n) = ClipProofs!FrameIAB(n)
  BY <1>54, <1>70 DEF Clip!FrameIAB, ClipProofs!FrameIAB
<1>72. \A file : Clip!HasBody(file) = ClipProofs!HasBody(file)
  BY DEF Clip!HasBody, ClipProofs!HasBody
<1>73. \A file : Clip!Openable(file) = ClipProofs!Openable(file)
  BY <1>30, <1>72 DEF Clip!Openable, ClipProofs!Openable
<1>74. Clip!OpensIAB = ClipProofs!OpensIAB
  BY <1>73 DEF Clip!OpensIAB, ClipProofs!OpensIAB
<1>75. Clip!OpensPCM = ClipProofs!OpensPCM
  BY <1>54, <1>58, <1>59, <1>67, <1>73 DEF Clip!OpensPCM, ClipProofs!OpensPCM
<1>76. Clip!Regular = ClipProofs!Regular
  BY DEF Clip!Regular, ClipProofs!Regular
<1>77. Clip!ClipReadsBack = ClipProofs!ClipReadsBack
  BY <1>21, <1>60, <1>61, <1>62, <1>63, <1>64, <1>68, <1>71, <1>74, <1>75, <1>76
  DEF Clip!ClipReadsBack, ClipProofs!ClipReadsBack
<1>78. Clip!ClipTypeOK = ClipProofs!ClipTypeOK
  BY DEF Clip!ClipTypeOK, ClipProofs!ClipTypeOK
<1>79. Clip!ClipAssumption = ClipProofs!ClipAssumption
  BY DEF Clip!ClipAssumption, ClipProofs!ClipAssumption, Clip!vars, ClipProofs!vars
<1>80. QED
  BY <1>3, <1>53, <1>77, <1>78, <1>79

LEMMA ClipInvariant == Spec => [](part = "clip" => ClipProofs!ClipInv)
<1> DEFINE Inv == part = "clip" => ClipProofs!ClipInv
<1>1. ClipProofs!ClipAssumption
  BY ComponentsAssumption, ClipSame
<1>2. Init => Inv
  <2>1. ClipProofs!Init => ClipProofs!ClipInv
    BY <1>1, ClipProofs!InitClip
  <2>2. QED
    BY <2>1, ClipSame DEF Init
<1>3. Inv /\ [Next]_vars => Inv'
  <2>1. ClipProofs!ClipInv /\ (ClipProofs!Next \/ UNCHANGED <<s1, s2, s3>>) => ClipProofs!ClipInv'
    BY <1>1, ClipProofs!NextClip DEF ClipProofs!vars
  <2>2. QED
    BY <2>1, Parts, ClipSame
<1> HIDE DEF Inv
<1>4. Spec => []Inv
  BY <1>2, <1>3, PTL DEF Spec
<1>5. QED
  BY <1>4 DEF Inv

\* A finalized clip gives back the bytes of the buffers that were accepted, whatever
\* the lengths of samples, of buffers and of the reader's frames; after a fault or a
\* text, those accepted before it, but none of an IAB clip whose first index partition
\* was lost with a text. Nothing is said of a clip whose footer met a fault.
THEOREM ClipReadsBackHolds == Spec => []ClipReadsBack
<1> DEFINE Inv == part = "clip" => ClipProofs!ClipInv
<1>1. Inv => ClipReadsBack
  <2>1. ClipProofs!ClipInv => ClipProofs!ClipReadsBack
    BY ComponentsAssumption, ClipSame, ClipProofs!ClipReads
  <2>2. QED
    BY <2>1, ClipSame DEF ClipReadsBack
<1>2. Spec => []Inv
  BY ClipInvariant
<1> HIDE DEF Inv
<1>3. QED
  BY <1>1, <1>2, PTL

-----------------------------------------------------------------------------
(* DirectoryTree, whose invariant is proved about variables of its own *)

TreeProofs == INSTANCE DirectoryTree_proofs WITH tree <- s1, job <- s2, stack <- s3, first <- s4, events <- s5

LEMMA TreeSame ==
  /\ Tree!Init = TreeProofs!Init
  /\ Tree!Next = TreeProofs!Next
  /\ Tree!DeleteStaysInside = TreeProofs!DeleteStaysInside
  /\ Tree!OnlyEmptyDeleted = TreeProofs!OnlyEmptyDeleted
  /\ Tree!ResolvedPathLeadsThere = TreeProofs!ResolvedPathLeadsThere
  /\ Tree!TreeTypeOK = TreeProofs!TreeTypeOK
  /\ Tree!TreeAssumption = TreeProofs!TreeAssumption
<1>1. \A path : Tree!Frame(path) = TreeProofs!Frame(path)
  BY DEF Tree!Frame, TreeProofs!Frame
<1>2. Tree!Dir = TreeProofs!Dir
  BY DEF Tree!Dir, TreeProofs!Dir
<1>3. Tree!File = TreeProofs!File
  BY DEF Tree!File, TreeProofs!File
<1>4. \A to : Tree!Link(to) = TreeProofs!Link(to)
  BY DEF Tree!Link, TreeProofs!Link
<1>5. Tree!Leaves = TreeProofs!Leaves
  BY <1>3, <1>4 DEF Tree!Leaves, TreeProofs!Leaves
<1>6. Tree!Subtrees = TreeProofs!Subtrees
  BY <1>5 DEF Tree!Subtrees, TreeProofs!Subtrees
<1>7. Tree!RootEntries = TreeProofs!RootEntries
  BY <1>2, <1>3, <1>5, <1>6 DEF Tree!RootEntries, TreeProofs!RootEntries
<1>8. \A root : Tree!TreeOf(root) = TreeProofs!TreeOf(root)
  BY DEF Tree!TreeOf, TreeProofs!TreeOf
<1>9. Tree!Trees = TreeProofs!Trees
  BY <1>7, <1>8 DEF Tree!Trees, TreeProofs!Trees
<1>10. Tree!Init = TreeProofs!Init
  BY <1>1, <1>9 DEF Tree!Init, TreeProofs!Init
<1>11. \A links, at, rest : Tree!On(links, at, rest) = TreeProofs!On(links, at, rest)
  BY DEF Tree!On, TreeProofs!On
<1>12. \A t, at : Tree!IsDir(t, at) = TreeProofs!IsDir(t, at)
  BY DEF Tree!IsDir, TreeProofs!IsDir
<1>13. Tree!Nowhere = TreeProofs!Nowhere
  BY DEF Tree!Nowhere, TreeProofs!Nowhere
<1>14. Tree!Walking = TreeProofs!Walking
  BY DEF Tree!Walking, TreeProofs!Walking
<1>15. \A t, follow : Tree!Walks(t, follow) = TreeProofs!Walks(t, follow)
  BY <1>11, <1>12, <1>13, <1>14 DEF Tree!Walks, TreeProofs!Walks
<1>16. \A t, path, follow : Tree!Walk(t, path, follow) = TreeProofs!Walk(t, path, follow)
  BY <1>11, <1>15 DEF Tree!Walk, TreeProofs!Walk
<1>17. \A t, path : Tree!Target(t, path) = TreeProofs!Target(t, path)
  BY <1>16 DEF Tree!Target, TreeProofs!Target
<1>18. \A t, path : Tree!Listing(t, path) = TreeProofs!Listing(t, path)
  BY <1>17 DEF Tree!Listing, TreeProofs!Listing
<1>19. \A t, path : Tree!PathIsDirectory(t, path) = TreeProofs!PathIsDirectory(t, path)
  BY <1>12, <1>13, <1>17 DEF Tree!PathIsDirectory, TreeProofs!PathIsDirectory
<1>20. \A s : Tree!Cardinality(s) = TreeProofs!Cardinality(s)
  BY DEF Tree!Cardinality, TreeProofs!Cardinality
<1>21. Tree!Refuse = TreeProofs!Refuse
  BY <1>20 DEF Tree!Refuse, TreeProofs!Refuse
<1>22. \A result : Tree!Returns(result) = TreeProofs!Returns(result)
  BY DEF Tree!Returns, TreeProofs!Returns
<1>23. Tree!CheckEmpty = TreeProofs!CheckEmpty
  BY <1>1, <1>18, <1>19, <1>21, <1>22 DEF Tree!CheckEmpty, TreeProofs!CheckEmpty
<1>24. Tree!Done = TreeProofs!Done
  BY DEF Tree!Done, TreeProofs!Done, Tree!vars, TreeProofs!vars
<1>25. Tree!Deleting = TreeProofs!Deleting
  BY DEF Tree!Deleting, TreeProofs!Deleting
<1>26. Tree!Top = TreeProofs!Top
  BY DEF Tree!Top, TreeProofs!Top
<1>27. Tree!EnterDirectory = TreeProofs!EnterDirectory
  BY <1>18, <1>19, <1>21, <1>25, <1>26 DEF Tree!EnterDirectory, TreeProofs!EnterDirectory
<1>28. Tree!LastEntry = TreeProofs!LastEntry
  BY <1>25, <1>26 DEF Tree!LastEntry, TreeProofs!LastEntry
<1>29. Tree!Creating = TreeProofs!Creating
  BY DEF Tree!Creating, TreeProofs!Creating
<1>30. \A n : Tree!Prefix(n) = TreeProofs!Prefix(n)
  BY DEF Tree!Prefix, TreeProofs!Prefix
<1>31. Tree!Look = TreeProofs!Look
  BY <1>19, <1>22, <1>29, <1>30 DEF Tree!Look, TreeProofs!Look
<1>32. \A s : Tree!Front(s) = TreeProofs!Front(s)
  BY DEF Tree!Front, TreeProofs!Front
<1>33. \A s : Tree!Last(s) = TreeProofs!Last(s)
  BY DEF Tree!Last, TreeProofs!Last
<1>34. \A t, at, node : Tree!With(t, at, node) = TreeProofs!With(t, at, node)
  BY DEF Tree!With, TreeProofs!With
<1>35. Tree!MakeDirectory = TreeProofs!MakeDirectory
  BY <1>2, <1>12, <1>13, <1>17, <1>21, <1>22, <1>29, <1>30, <1>32, <1>33, <1>34 DEF Tree!MakeDirectory, TreeProofs!MakeDirectory
<1>36. \A path, n : Tree!Child(path, n) = TreeProofs!Child(path, n)
  BY DEF Tree!Child, TreeProofs!Child
<1>37. Tree!NextEntry = TreeProofs!NextEntry
  BY <1>1, <1>18, <1>25, <1>26, <1>36 DEF Tree!NextEntry, TreeProofs!NextEntry
<1>38. Tree!Paths = TreeProofs!Paths
  BY DEF Tree!Paths, TreeProofs!Paths
<1>39. Tree!Other = TreeProofs!Other
  BY <1>2, <1>3, <1>12, <1>20, <1>32, <1>34, <1>38 DEF Tree!Other, TreeProofs!Other
<1>40. Tree!AfterLink = TreeProofs!AfterLink
  BY DEF Tree!AfterLink, TreeProofs!AfterLink
<1>41. \A t, path : Tree!Entry(t, path) = TreeProofs!Entry(t, path)
  BY <1>16 DEF Tree!Entry, TreeProofs!Entry
<1>42. Tree!Resolving = TreeProofs!Resolving
  BY DEF Tree!Resolving, TreeProofs!Resolving
<1>43. Tree!ReadLink = TreeProofs!ReadLink
  BY <1>12, <1>13, <1>22, <1>40, <1>41, <1>42 DEF Tree!ReadLink, TreeProofs!ReadLink
<1>44. \A result : Tree!Pop(result) = TreeProofs!Pop(result)
  BY <1>22 DEF Tree!Pop, TreeProofs!Pop
<1>45. \A t, at : Tree!Without(t, at) = TreeProofs!Without(t, at)
  BY DEF Tree!Without, TreeProofs!Without
<1>46. Tree!RemoveDirectory = TreeProofs!RemoveDirectory
  BY <1>12, <1>13, <1>18, <1>21, <1>25, <1>26, <1>41, <1>44, <1>45 DEF Tree!RemoveDirectory, TreeProofs!RemoveDirectory
<1>47. Tree!TakeName = TreeProofs!TakeName
  BY <1>22, <1>42 DEF Tree!TakeName, TreeProofs!TakeName
<1>48. Tree!Unlink = TreeProofs!Unlink
  BY <1>12, <1>13, <1>19, <1>21, <1>25, <1>26, <1>41, <1>44, <1>45 DEF Tree!Unlink, TreeProofs!Unlink
<1>49. Tree!Next = TreeProofs!Next
  BY <1>23, <1>24, <1>27, <1>28, <1>31, <1>35, <1>37, <1>39, <1>43, <1>46, <1>47, <1>48 DEF Tree!Next, TreeProofs!Next
<1>50. Tree!Base = TreeProofs!Base
  BY <1>41 DEF Tree!Base, TreeProofs!Base
<1>51. Tree!Gone = TreeProofs!Gone
  BY DEF Tree!Gone, TreeProofs!Gone
<1>52. Tree!Quiet = TreeProofs!Quiet
  BY DEF Tree!Quiet, TreeProofs!Quiet
<1>53. \A path, at : Tree!Under(path, at) = TreeProofs!Under(path, at)
  BY DEF Tree!Under, TreeProofs!Under
<1>54. Tree!Ways = TreeProofs!Ways
  BY <1>19, <1>50, <1>53 DEF Tree!Ways, TreeProofs!Ways
<1>55. Tree!DeleteStaysInside = TreeProofs!DeleteStaysInside
  BY <1>13, <1>41, <1>50, <1>51, <1>52, <1>53, <1>54 DEF Tree!DeleteStaysInside, TreeProofs!DeleteStaysInside
<1>56. Tree!OnlyEmptyDeleted = TreeProofs!OnlyEmptyDeleted
  BY <1>19, <1>50, <1>51, <1>52 DEF Tree!OnlyEmptyDeleted, TreeProofs!OnlyEmptyDeleted
<1>57. Tree!ResolvedPathLeadsThere = TreeProofs!ResolvedPathLeadsThere
  BY <1>13, <1>17, <1>41 DEF Tree!ResolvedPathLeadsThere, TreeProofs!ResolvedPathLeadsThere
<1>58. Tree!TreeTypeOK = TreeProofs!TreeTypeOK
  BY <1>12, <1>32 DEF Tree!TreeTypeOK, TreeProofs!TreeTypeOK
<1>59. Tree!TreeAssumption = TreeProofs!TreeAssumption
  BY DEF Tree!TreeAssumption, TreeProofs!TreeAssumption, Tree!vars, TreeProofs!vars
<1>60. QED
  BY <1>10, <1>49, <1>55, <1>56, <1>57, <1>58, <1>59


LEMMA TreeInvariant == Spec => [](part = "tree" => TreeProofs!TreeInv)
<1> DEFINE Inv == part = "tree" => TreeProofs!TreeInv
<1>1. TreeProofs!TreeAssumption
  BY ComponentsAssumption, TreeSame
<1>2. Init => Inv
  <2>1. TreeProofs!Init => TreeProofs!TreeInv
    BY <1>1, TreeProofs!TreeInvAtFirst
  <2>2. QED
    BY <2>1, TreeSame DEF Init
<1>3. Inv /\ [Next]_vars => Inv'
  <2>1. TreeProofs!TreeInv /\ (TreeProofs!Next \/ UNCHANGED <<s1, s2, s3, s4, s5>>) => TreeProofs!TreeInv'
    BY <1>1, TreeProofs!TreeInvSteps DEF TreeProofs!vars
  <2>2. QED
    BY <2>1, Parts, TreeSame
<1> HIDE DEF Inv
<1>4. Spec => []Inv
  BY <1>2, <1>3, PTL DEF Spec
<1>5. QED
  BY <1>4 DEF Inv

\* Deleting takes nothing beside the path but through links to directories, succeeds
\* when nobody else writes there, and takes a directory only when it is empty; a
\* resolved path leads where the path did: for any names, links, paths and limits.
THEOREM TreesHoldHolds == Spec => []TreesHold
<1> DEFINE Inv == part = "tree" => TreeProofs!TreeInv
<1>1. Inv => TreesHold
  <2>1. TreeProofs!TreeInv => TreeProofs!DeleteStaysInside /\ TreeProofs!OnlyEmptyDeleted /\ TreeProofs!ResolvedPathLeadsThere
    BY ComponentsAssumption, TreeSame, TreeProofs!TreeConsequences
  <2>2. QED
    BY <2>1, TreeSame DEF TreesHold
<1>2. Spec => []Inv
  BY TreeInvariant
<1> HIDE DEF Inv
<1>3. QED
  BY <1>1, <1>2, PTL

-----------------------------------------------------------------------------
(* The values of all the variables *)

RestInv ==
  /\ part = "wrap" => WrapInv
  /\ part = "unwrap" => UnwrapInv /\ UnwrapRanges
  /\ part = "file" => FileInv
  /\ part = "pair" => PairInv
  /\ part = "command" => CommandInv

LEMMA RestInvariant == Spec => []RestInv
<1>1. Init => RestInv
  <2>1. Unwrap!Init => UnwrapRanges
    <3>1. ASSUME Unwrap!Init PROVE s2.next = s1.opt.start /\ s3.declared = 0
      BY <3>1 DEF Unwrap!Init
    <3>2. Unwrap!Init => UnwrapTyped
      BY UnwrapInit DEF UnwrapInv
    <3>3. QED
      BY <3>1, <3>2, UnwrapFacts DEF UnwrapRanges
  <2>2. QED
    BY <2>1, WrapInit, UnwrapInit, FileInit, PairInit, CommandStart DEF Init, RestInv
<1>2. RestInv /\ [Next]_vars => RestInv'
  <2> SUFFICES ASSUME RestInv, [Next]_vars PROVE RestInv'
    OBVIOUS
  <2>1. part' = part
    BY Parts
  <2>2. part = "wrap" => WrapInv'
    BY Parts, WrapNext DEF RestInv
  <2>3. part = "unwrap" => UnwrapInv' /\ UnwrapRanges'
    BY Parts, UnwrapNext, UnwrapRangesNext DEF RestInv
  <2>4. part = "file" => FileInv'
    BY Parts, FileNext DEF RestInv
  <2>5. part = "pair" => PairInv'
    BY Parts, PairNext DEF RestInv
  <2>6. part = "command" => CommandInv'
    BY Parts, CommandKept DEF RestInv
  <2>7. QED
    BY <2>1, <2>2, <2>3, <2>4, <2>5, <2>6 DEF RestInv
<1>3. QED
  BY <1>1, <1>2, PTL DEF Spec

\* The variables of the component that runs keep to their types, whichever it is: in
\* particular the queue of buffers stays within IOVecMaxEntries, a declared length of a
\* wave file does not wrap around, and paths in the tree are entries of directories.
THEOREM TypeCorrect == Spec => []TypeOK
<1> DEFINE ClipPart == part = "clip" => ClipProofs!ClipInv
           GlobalPart == part = "global" => GlobalInv
           TreePart == part = "tree" => TreeProofs!TreeInv
<1>1. Spec => []ClipPart /\ []GlobalPart /\ []TreePart /\ []RestInv
  BY ClipInvariant, GlobalInvariant, TreeInvariant, RestInvariant
<1>2. ClipPart /\ GlobalPart /\ TreePart /\ RestInv => TypeOK
  <2> SUFFICES ASSUME ClipPart, GlobalPart, TreePart, RestInv PROVE TypeOK
    OBVIOUS
  <2>1. part = "wrap" => Wrap!WrapTypeOK
    BY DEF RestInv, WrapInv, WrapTyped, WrapRuns, WrapFiles, Wrap!WrapTypeOK
  <2>2. part = "unwrap" => Unwrap!UnwrapTypeOK
    BY DEF RestInv, UnwrapInv, UnwrapTyped, UnwrapRuns, UnwrapOuts, UnwrapRanges, Unwrap!UnwrapTypeOK
  <2>3. part = "command" => CommandTypeOK
    <3>1. CommandInv => DOMAIN parsed = DOMAIN Fields.first
      BY DEF CommandInv
    <3>2. QED
      BY <3>1 DEF RestInv, CommandInv, CommandTypeOK
  <2>4. part = "clip" => Clip!ClipTypeOK
    BY ComponentsAssumption, ClipSame, ClipProofs!ClipTyped
  <2>5. part = "global" => Global!GlobalsTypeOK
    BY GlobalConsequences
  <2>6. part = "file" => File!FileTypeOK
    <3>1. s3 \in Seq(FileEntries) => \A i \in DOMAIN s3 : s3[i].result \in {"OK", "FAIL", "FULL"}
      <4>1. \A e \in FileEntries : e.result \in {"OK", "FAIL", "FULL"}
        BY DEF FileEntries
      <4>2. s3 \in Seq(FileEntries) => \A i \in DOMAIN s3 : s3[i] \in FileEntries
        OBVIOUS
      <4>3. QED
        BY <4>1, <4>2
    <3>2. s6 \in FileReadings /\ s6.got <= s6.size /\ MaxSize \in Nat => s6.size \in 0 .. MaxSize /\ s6.got \in 0 .. s6.size
      BY DEF FileReadings
    <3>3. QED
      BY <3>1, <3>2, ComponentsAssumption DEF RestInv, FileInv, FileWritten, FileTaken, File!FileTypeOK, File!FileAssumption
  <2>7. part = "tree" => Tree!TreeTypeOK
    BY ComponentsAssumption, TreeSame, TreeProofs!TreeConsequences
  <2>8. part = "pair" => Pair!PairTypeOK
    BY DEF RestInv, PairInv
  <2>9. QED
    BY <2>1, <2>2, <2>3, <2>4, <2>5, <2>6, <2>7, <2>8 DEF TypeOK
<1> HIDE DEF ClipPart, GlobalPart, TreePart
<1>3. QED
  BY <1>1, <1>2, PTL

=============================================================================
