------------------------- MODULE FrameReader_proofs -------------------------
(***************************************************************************)
(* FrameFound and NeverWrongFrame, for every layout of frames and          *)
(* generic-stream partitions, and the type invariant.  The invariant of    *)
(* FrameFound says what a wrong m_LastPosition can be as long as nothing   *)
(* has gone wrong: the 0 of OpenMXFRead, or an offset inside an ancillary  *)
(* resource, where neither a frame nor a partition starts.  That of        *)
(* NeverWrongFrame says where the file can be when m_LastPosition is wrong *)
(* in other ways: at no frame.                                             *)
(***************************************************************************)
EXTENDS FrameReader, TLAPS

-----------------------------------------------------------------------------
(* Facts of the layout *)

LEMMA Element ==
  ASSUME NEW T, NEW seq \in Seq(T), NEW i \in DOMAIN seq
  PROVE  i \in Nat \ {0} /\ seq[i] \in T
  OBVIOUS

LEMMA FrameType ==
  ASSUME NEW n \in DOMAIN Frames
  PROVE  /\ n \in Nat \ {0}
         /\ Frames[n].at \in Nat \ {0} /\ Frames[n].len \in Nat /\ Frames[n].len > KL
         /\ FrameEnd(n) = Frames[n].at + Frames[n].len
<1>1. Frames \in Seq([at : Nat \ {0}, len : Nat])
  BY SizeAssumption
<1>2. n \in Nat \ {0} /\ Frames[n] \in [at : Nat \ {0}, len : Nat]
  BY <1>1, Element
<1>3. QED
  BY <1>2, SizeAssumption DEF FrameEnd

LEMMA StreamType ==
  ASSUME NEW s \in DOMAIN Streams
  PROVE  /\ s \in Nat \ {0}
         /\ Streams[s].at \in Nat \ {0} /\ Streams[s].len \in Nat /\ Streams[s].len > KL
         /\ StreamEnd(s) = Streams[s].at + PackLen + Streams[s].len
         /\ StreamEnd(s) \in Nat
<1>1. Streams \in Seq([at : Nat \ {0}, len : Nat])
  BY SizeAssumption
<1>2. s \in Nat \ {0} /\ Streams[s] \in [at : Nat \ {0}, len : Nat]
  BY <1>1, Element
<1>3. QED
  BY <1>2, SizeAssumption DEF StreamEnd

LEMMA FirstFrame == 1 \in DOMAIN Frames
<1>1. Frames \in Seq([at : Nat \ {0}, len : Nat]) /\ Frames # <<>>
  BY SizeAssumption
<1>2. QED
  BY <1>1

LEMMA FoundType ==
  ASSUME NEW pos
  PROVE  /\ Found(pos) \in {0} \cup DOMAIN Frames
         /\ Found(pos) # 0 => Frames[Found(pos)].at = pos
<1>1. CASE \E n \in DOMAIN Frames : Frames[n].at = pos
  <2>1. PICK n \in DOMAIN Frames : Frames[n].at = pos
    BY <1>1
  <2>2. Found(pos) = CHOOSE k \in DOMAIN Frames : Frames[k].at = pos
    BY <1>1 DEF Found
  <2>3. QED
    BY <2>1, <2>2
<1>2. CASE ~\E n \in DOMAIN Frames : Frames[n].at = pos
  BY <1>2 DEF Found
<1>3. QED
  BY <1>1, <1>2

\* No two frames start at the same place
LEMMA FoundFrame ==
  ASSUME NEW n \in DOMAIN Frames
  PROVE  Found(Frames[n].at) = n
<1> DEFINE m == Found(Frames[n].at)
<1>1. m \in DOMAIN Frames /\ Frames[m].at = Frames[n].at
  <2>1. Found(Frames[n].at) = CHOOSE k \in DOMAIN Frames : Frames[k].at = Frames[n].at
    BY DEF Found
  <2>2. QED
    BY <2>1
<1> HIDE DEF m
<1>2. m \in Nat /\ n \in Nat
  BY <1>1, FrameType
<1>3. ASSUME NEW i \in DOMAIN Frames, NEW j \in DOMAIN Frames, Frames[i].at = Frames[j].at
      PROVE  ~(i < j)
  <2>1. SUFFICES ASSUME i < j PROVE FALSE
    OBVIOUS
  <2>2. FrameEnd(i) <= Frames[j].at
    BY <2>1, LayoutAssumption
  <2>3. Frames[i].at + Frames[i].len <= Frames[i].at
    BY <1>3, <2>2, FrameType
  <2>4. /\ Frames[i].at \in Nat /\ Frames[i].len \in Nat
        /\ Frames[i].len > KL
    BY FrameType
  <2>5. KL \in Nat
    BY SizeAssumption
  <2>6. QED
    BY <2>3, <2>4, <2>5
<1>4. ~(m < n) /\ ~(n < m)
  BY <1>1, <1>3
<1>5. QED
  BY <1>2, <1>4 DEF m

-----------------------------------------------------------------------------
(* Type correctness *)

Results == [op : {"None", "OpenRead", "Close", "ReadFrame", "ReadStream", "Measure"},
            frame : Nat, fault : Faults, result : {"OK", "FAIL", "INIT", "RANGE"},
            found : {0} \cup DOMAIN Frames]

Troubles == {"partial", "stray", "seek", "stream", "measure"}

LEMMA CallType ==
  ASSUME TypeOK,
         NEW op \in {"OpenRead", "Close", "ReadFrame", "ReadStream", "Measure"},
         NEW n \in Nat, NEW f \in Faults, NEW r \in {"OK", "FAIL", "INIT", "RANGE"},
         NEW found \in {0} \cup DOMAIN Frames, Call(op, n, f, r, found)
  PROVE  last' \in Results /\ calls' \in 0 .. MaxCalls
<1>1. last' \in Results
  BY DEF Call, Results
<1>2. calls' \in 0 .. MaxCalls
  BY SizeAssumption DEF Call, TypeOK
<1>3. QED
  BY <1>1, <1>2

LEMMA MoveType ==
  ASSUME TypeOK, NEW pos \in Nat, NEW believed \in Nat, NEW trouble \in SUBSET Troubles,
         Move(pos, believed, trouble), last' \in Results, calls' \in 0 .. MaxCalls
  PROVE  TypeOK'
  BY DEF TypeOK, Move, Results, Troubles

LEMMA Positions ==
  ASSUME TypeOK, NEW at \in Nat
  PROVE  Arrives(at) \in Nat /\ Believes(at) \in Nat
  BY DEF TypeOK, Arrives, Believes

LEMMA ReadType ==
  ASSUME TypeOK, NEW n \in DOMAIN Frames, NEW f \in Faults, NEW read \in Nat,
         \/ ReadPacket(n, f, read) \/ ReadStray(n) \/ ReadHeaderFails(n, read)
         \/ ReadSeekFails(n)
  PROVE  TypeOK'
<1> DEFINE at == Frames[n].at
           m  == Found(Arrives(at))
<1>1. at \in Nat /\ Arrives(at) \in Nat /\ Believes(at) \in Nat /\ n \in Nat /\ KL \in Nat
        /\ filePos \in Nat
  BY FrameType, Positions, SizeAssumption DEF TypeOK
<1>2. m \in {0} \cup DOMAIN Frames
  BY FoundType
<1>3. "none" \in Faults /\ "header" \in Faults /\ "seek" \in Faults
  BY DEF Faults
<1> HIDE DEF at
<1>4. CASE ReadPacket(n, f, read)
  <2> DEFINE len  == Frames[m].len
             seen == CASE f = "refused" -> KL [] f = "short" -> KL + read [] OTHER -> len
             trouble == IF f \in {"refused", "short"} THEN {"partial"} ELSE {}
  <2>1. m \in DOMAIN Frames
    BY <1>2, <1>4 DEF ReadPacket, at
  <2>2. len \in Nat
    BY <2>1, FrameType
  <2>3. seen \in Nat
    BY <1>1, <2>2
  <2>4. /\ Call("ReadFrame", n, f, IF f = "none" THEN "OK" ELSE "FAIL", m)
        /\ Move(Arrives(at) + seen, Believes(at) + len, trouble)
    BY <1>4 DEF ReadPacket, at
  <2>5. trouble \in SUBSET Troubles
    BY DEF Troubles
  <2> HIDE DEF len, seen, trouble, m
  <2>6. last' \in Results /\ calls' \in 0 .. MaxCalls
    BY <1>1, <1>2, <2>4, CallType
  <2>7. Arrives(at) + seen \in Nat /\ Believes(at) + len \in Nat
    BY <1>1, <2>2, <2>3
  <2>8. QED
    BY <2>4, <2>5, <2>6, <2>7, MoveType
<1>5. CASE ReadStray(n)
  <2>1. PICK len \in StrayLens \cup {0} : Move(Arrives(at) + KL, Believes(at) + len, {"stray"})
    BY <1>5 DEF ReadStray, at
  <2>2. Arrives(at) + KL \in Nat /\ Believes(at) + len \in Nat
    <3>1. len \in Nat
      BY SizeAssumption
    <3>2. QED
      BY <1>1, <3>1
  <2>3. last' \in Results /\ calls' \in 0 .. MaxCalls
    BY <1>1, <1>3, <1>5, CallType DEF ReadStray
  <2>4. {"stray"} \in SUBSET Troubles
    BY DEF Troubles
  <2>5. QED
    BY <2>1, <2>2, <2>3, <2>4, MoveType
<1>6. CASE ReadHeaderFails(n, read)
  <2> DEFINE trouble == {IF m = 0 THEN "stray" ELSE "partial"}
  <2>1. Move(Arrives(at) + read, Believes(at), trouble)
    BY <1>6 DEF ReadHeaderFails, at
  <2>2. Arrives(at) + read \in Nat
    BY <1>1
  <2>3. last' \in Results /\ calls' \in 0 .. MaxCalls
    BY <1>1, <1>3, <1>6, CallType DEF ReadHeaderFails
  <2>4. trouble \in SUBSET Troubles
    BY DEF Troubles
  <2> HIDE DEF trouble, m
  <2>5. QED
    BY <1>1, <2>1, <2>2, <2>3, <2>4, MoveType
<1>7. CASE ReadSeekFails(n)
  <2>1. Move(filePos, at, {"seek"})
    BY <1>7 DEF ReadSeekFails, at
  <2>2. last' \in Results /\ calls' \in 0 .. MaxCalls
    BY <1>1, <1>3, <1>7, CallType DEF ReadSeekFails
  <2>3. {"seek"} \in SUBSET Troubles
    BY DEF Troubles
  <2>4. QED
    BY <1>1, <2>1, <2>2, <2>3, MoveType
<1>8. QED
  BY <1>4, <1>5, <1>6, <1>7

LEMMA ReadStreamType ==
  ASSUME TypeOK, NEW s \in DOMAIN Streams, NEW f \in Faults, NEW read \in Nat,
         ReadGenericStream(s, f, read) \/ ReadAncillaryResource(s, f, read)
  PROVE  TypeOK'
<1> DEFINE at  == Streams[s].at
           len == Streams[s].len
           end == StreamEnd(s)
<1>1. /\ at \in Nat /\ len \in Nat /\ end \in Nat /\ s \in Nat /\ KL \in Nat /\ PackLen \in Nat
      /\ filePos \in Nat /\ lastPosition \in Nat
      /\ Arrives(at) \in Nat /\ Believes(at) \in Nat
  BY StreamType, Positions, SizeAssumption DEF TypeOK
<1>2. {} \in SUBSET Troubles /\ {"stream"} \in SUBSET Troubles /\ {"seek"} \in SUBSET Troubles
        /\ {"stray"} \in SUBSET Troubles /\ {"partial"} \in SUBSET Troubles
  BY DEF Troubles
<1>3. last' \in Results /\ calls' \in 0 .. MaxCalls
  <2>1. PICK r \in {"OK", "FAIL"} : Call("ReadStream", s, f, r, 0)
    BY DEF ReadGenericStream, ReadAncillaryResource
  <2>2. QED
    BY <1>1, <2>1, CallType
<1>4. PICK pos \in Nat, believed \in Nat, trouble \in SUBSET Troubles :
        Move(pos, believed, trouble)
  <2> HIDE DEF at, len, end
  <2>1. /\ at + PackLen + read \in Nat /\ at + read \in Nat /\ at + PackLen + KL \in Nat
        /\ lastPosition + len \in Nat /\ at + len \in Nat /\ filePos + KL \in Nat
        /\ Arrives(at) + KL \in Nat
    BY <1>1
  <2>2. CASE ReadGenericStream(s, f, read)
    <3>1. \/ Move(filePos, lastPosition, {})
          \/ Move(at + read, lastPosition, {"stream"})
          \/ Move(at + PackLen + read, lastPosition, {"stream"})
          \/ Move(at + PackLen + KL, lastPosition + len, {"stream"})
          \/ Move(end, lastPosition + len, {"stream"})
      BY <2>2 DEF ReadGenericStream, at, len, end
    <3>2. QED
      BY <1>1, <1>2, <2>1, <3>1
  <2>3. CASE ReadAncillaryResource(s, f, read)
    <3>1. \/ Move(filePos + KL, Believes(at), {"seek"})
          \/ Move(Arrives(at) + KL, Believes(at), {"stray"})
          \/ Move(at + read, at, {"partial"})
          \/ Move(at + PackLen + KL, at + len, {"partial"})
          \/ Move(end, at + len, {})
      BY <2>3 DEF ReadAncillaryResource, at, len, end
    <3>2. QED
      BY <1>1, <1>2, <2>1, <3>1
  <2>4. QED
    BY <2>2, <2>3
<1>5. QED
  BY <1>3, <1>4, MoveType

LEMMA MeasureType ==
  ASSUME TypeOK, (\E f \in Faults : MeasureFirst(f)) \/ MeasureNext
  PROVE  TypeOK'
<1>1. /\ filePos \in Nat /\ lastPosition \in Nat /\ KL \in Nat
      /\ Arrives(Frames[1].at) + KL \in Nat
      /\ filePos + KL \in Nat
  <2>1. Frames[1].at \in Nat
    BY FirstFrame, FrameType
  <2>2. Arrives(Frames[1].at) \in Nat
    BY <2>1, Positions
  <2>3. filePos \in Nat /\ lastPosition \in Nat /\ KL \in Nat
    BY SizeAssumption DEF TypeOK
  <2>4. QED
    BY <2>2, <2>3
<1>2. CASE \E f \in Faults : MeasureFirst(f)
  <2>1. PICK f \in Faults : MeasureFirst(f)
    BY <1>2
  <2>2. PICK r \in {"OK", "FAIL"}, m \in {0} \cup DOMAIN Frames : Call("Measure", 1, f, r, m)
    BY <2>1, FoundType DEF MeasureFirst
  <2>3. last' \in Results /\ calls' \in 0 .. MaxCalls
    BY <2>2, CallType
  <2>4. \/ Move(Arrives(Frames[1].at) + KL, lastPosition, {"seek"})
        \/ Move(lastPosition, lastPosition, {})
    BY <2>1 DEF MeasureFirst
  <2>5. {"seek"} \in SUBSET Troubles /\ {} \in SUBSET Troubles
    BY DEF Troubles
  <2>6. QED
    BY <1>1, <2>3, <2>4, <2>5, MoveType
<1>3. CASE MeasureNext
  <2> DEFINE trouble == {"measure"} \cup IF Found(filePos) = 0 THEN {"stray"} ELSE {}
  <2>1. PICK r \in {"OK", "FAIL"} : Call("Measure", 0, "none", r, Found(filePos))
    BY <1>3 DEF MeasureNext
  <2>2. last' \in Results /\ calls' \in 0 .. MaxCalls
    <3>1. Found(filePos) \in {0} \cup DOMAIN Frames /\ "none" \in Faults /\ 0 \in Nat
      BY FoundType DEF Faults
    <3>2. QED
      BY <2>1, <3>1, CallType
  <2>3. Move(filePos + KL, lastPosition, trouble)
    BY <1>3 DEF MeasureNext
  <2>4. trouble \in SUBSET Troubles
    BY DEF Troubles
  <2> HIDE DEF trouble
  <2>5. QED
    BY <1>1, <2>2, <2>3, <2>4, MoveType
<1>4. QED
  BY <1>2, <1>3

LEMMA NextType == TypeOK /\ [Next]_vars => TypeOK'
<1> SUFFICES ASSUME TypeOK, [Next]_vars PROVE TypeOK'
  OBVIOUS
<1>1. "none" \in Faults /\ IndexEnd \in Nat /\ Frames[1].at \in Nat
  BY FirstFrame, FrameType, SizeAssumption DEF Faults
<1>2. CASE OpenRead
  <2>1. last' \in Results /\ calls' \in 0 .. MaxCalls
    BY <1>1, <1>2, CallType DEF OpenRead
  <2>2. QED
    BY <1>1, <1>2, <2>1 DEF OpenRead, TypeOK, Results
<1>3. CASE Close
  <2>1. last' \in Results /\ calls' \in 0 .. MaxCalls
    BY <1>1, <1>3, CallType DEF Close
  <2>2. QED
    BY <1>3, <2>1 DEF Close, TypeOK, Results
<1>4. CASE RefusedCall
  <2>1. last' \in Results /\ calls' \in 0 .. MaxCalls
    BY <1>1, <1>4, CallType DEF RefusedCall
  <2>2. QED
    BY <1>4, <2>1 DEF RefusedCall, TypeOK, Results
<1>5. CASE Read
  <2>1. PICK n \in DOMAIN Frames :
          \/ \E f \in Faults : \E read \in 0 .. Frames[n].len : ReadPacket(n, f, read)
          \/ ReadStray(n)
          \/ \E read \in 0 .. KL : ReadHeaderFails(n, read)
          \/ ReadSeekFails(n)
    BY <1>5 DEF Read
  <2>2. Frames[n].len \in Nat /\ KL \in Nat
    BY FrameType, SizeAssumption
  <2>3. QED
    BY <1>1, <2>1, <2>2, ReadType
<1>6. CASE ReadStream
  BY <1>6, ReadStreamType, SizeAssumption DEF ReadStream
<1>7. CASE (\E f \in Faults : MeasureFirst(f)) \/ MeasureNext
  BY <1>7, MeasureType
<1>8. CASE UNCHANGED vars
  BY <1>8 DEF vars, TypeOK
<1>9. QED
  BY <1>2, <1>3, <1>4, <1>5, <1>6, <1>7, <1>8 DEF Next

LEMMA InitType == Init => TypeOK
<1> SUFFICES ASSUME Init PROVE TypeOK
  OBVIOUS
<1>1. class \in AllClasses
  BY ClassesAssumption DEF Init
<1>2. calls \in 0 .. MaxCalls
  BY SizeAssumption DEF Init
<1>3. last \in Results
  BY DEF Init, Results, Faults
<1>4. QED
  BY <1>1, <1>2, <1>3 DEF Init, TypeOK, Results

\* In every behaviour of a reader its variables keep their types, whatever the
\* file, the faults and the order of the calls.
THEOREM TypeCorrect == Spec => []TypeOK
  BY InitType, NextType, PTL DEF Spec

-----------------------------------------------------------------------------
(* FrameFound *)

\* Where the file is, when nothing has gone wrong
Kept ==
  \/ lastPosition = 0
  \/ filePos = lastPosition
  \/ \E s \in DOMAIN Streams : Streams[s].at < lastPosition /\ lastPosition < StreamEnd(s)

Sound == troubles = {} => Kept /\ FrameFound

\* A frame is found where it lies
LEMMA ArrivesAtFrame ==
  ASSUME TypeOK, Kept, NEW n \in DOMAIN Frames
  PROVE  /\ Arrives(Frames[n].at) = Frames[n].at
         /\ Believes(Frames[n].at) = Frames[n].at
<1> DEFINE at == Frames[n].at
<1>1. at \in Nat \ {0} /\ Frames[n].len \in Nat /\ FrameEnd(n) = at + Frames[n].len
  BY FrameType
<1>2. ASSUME at = lastPosition
      PROVE  filePos = at
  <2>1. SUFFICES ASSUME NEW s \in DOMAIN Streams,
                        Streams[s].at < at, at < StreamEnd(s)
                 PROVE  FALSE
    BY <1>1, <1>2 DEF Kept
  <2>2. Streams[s].at \in Nat /\ StreamEnd(s) \in Nat
    BY StreamType
  <2>3. FrameEnd(n) <= Streams[s].at \/ StreamEnd(s) < at
    BY LayoutAssumption
  <2>4. CASE FrameEnd(n) <= Streams[s].at
    BY <1>1, <2>1, <2>2, <2>4
  <2>5. CASE StreamEnd(s) < at
    BY <1>1, <2>1, <2>2, <2>5
  <2>6. QED
    BY <2>3, <2>4, <2>5
<1>3. QED
  BY <1>2 DEF Arrives, Believes

\* So is a generic-stream partition
LEMMA ArrivesAtStream ==
  ASSUME TypeOK, Kept, NEW s \in DOMAIN Streams
  PROVE  Arrives(Streams[s].at) = Streams[s].at
<1> DEFINE at == Streams[s].at
<1>1. /\ at \in Nat \ {0} /\ s \in Nat /\ PackLen \in Nat \ {0} /\ Streams[s].len \in Nat
      /\ StreamEnd(s) = at + PackLen + Streams[s].len
  BY StreamType, SizeAssumption
<1>2. ASSUME at = lastPosition
      PROVE  filePos = at
  <2>1. SUFFICES ASSUME NEW t \in DOMAIN Streams,
                        Streams[t].at < at, at < StreamEnd(t)
                 PROVE  FALSE
    BY <1>1, <1>2 DEF Kept
  <2>2. Streams[t].at \in Nat /\ StreamEnd(t) \in Nat /\ t \in Nat
    BY StreamType
  <2>3. CASE s = t
    BY <1>1, <2>1, <2>3
  <2>4. CASE s < t
    <3>1. StreamEnd(s) <= Streams[t].at
      BY <2>4, LayoutAssumption
    <3>2. QED
      BY <1>1, <2>1, <2>2, <3>1
  <2>5. CASE t < s
    <3>1. StreamEnd(t) <= at
      BY <2>5, LayoutAssumption
    <3>2. QED
      BY <1>1, <2>1, <2>2, <3>1
  <2>6. QED
    BY <1>1, <2>2, <2>3, <2>4, <2>5
<1>3. QED
  BY <1>2 DEF Arrives

LEMMA ReadSound ==
  ASSUME TypeOK, Sound, NEW n \in DOMAIN Frames, NEW f \in Faults, NEW read \in Nat,
         \/ ReadPacket(n, f, read) \/ ReadStray(n) \/ ReadHeaderFails(n, read)
         \/ ReadSeekFails(n)
  PROVE  Sound'
<1> SUFFICES ASSUME troubles' = {} PROVE Kept' /\ FrameFound'
  BY DEF Sound
<1> DEFINE at == Frames[n].at
           len == Frames[n].len
<1>1. ReadPacket(n, f, read)
  BY DEF ReadStray, ReadHeaderFails, ReadSeekFails, Move
<1>2. f \notin {"refused", "short"} /\ f \in {"none", "rejected"}
  BY <1>1 DEF ReadPacket, Move
<1>3. troubles = {}
  BY <1>1 DEF ReadPacket, Move
<1>4. Arrives(at) = at /\ Believes(at) = at /\ Found(at) = n
  BY <1>3, ArrivesAtFrame, FoundFrame DEF Sound
<1>5. Call("ReadFrame", n, f, IF f = "none" THEN "OK" ELSE "FAIL", n)
  BY <1>1, <1>4 DEF ReadPacket
<1>6. filePos' = at + len /\ lastPosition' = at + len
  BY <1>1, <1>2, <1>4 DEF ReadPacket, Move
<1>7. FrameFound'
  BY <1>5 DEF FrameFound, Wanted, Call
<1>8. QED
  BY <1>6, <1>7 DEF Kept

LEMMA ReadStreamSound ==
  ASSUME TypeOK, Sound, NEW s \in DOMAIN Streams, NEW f \in Faults, NEW read \in Nat,
         ReadGenericStream(s, f, read) \/ ReadAncillaryResource(s, f, read)
  PROVE  Sound'
<1> SUFFICES ASSUME troubles' = {} PROVE Kept' /\ FrameFound'
  BY DEF Sound
<1> DEFINE at == Streams[s].at
           len == Streams[s].len
<1>1. FrameFound'
  <2>1. PICK r \in {"OK", "FAIL"} : Call("ReadStream", s, f, r, 0)
    BY DEF ReadGenericStream, ReadAncillaryResource
  <2>2. QED
    BY <2>1 DEF FrameFound, Wanted, Call
<1>2. CASE ReadGenericStream(s, f, read)
  <2>1. Move(filePos, lastPosition, {})
    BY <1>2 DEF ReadGenericStream, Move
  <2>2. Kept
    BY <2>1 DEF Sound, Move
  <2>3. Kept'
    BY <2>1, <2>2 DEF Kept, Move
  <2>4. QED
    BY <1>1, <2>3
<1>3. CASE ReadAncillaryResource(s, f, read)
  <2>1. Move(StreamEnd(s), at + len, {})
    BY <1>3 DEF ReadAncillaryResource, Move
  <2>2. /\ at \in Nat /\ len \in Nat \ {0} /\ PackLen \in Nat \ {0}
        /\ StreamEnd(s) = at + PackLen + len
    <3>1. /\ Streams[s].at \in Nat /\ Streams[s].len \in Nat /\ Streams[s].len > KL
          /\ StreamEnd(s) = Streams[s].at + PackLen + Streams[s].len
      BY StreamType
    <3>2. PackLen \in Nat \ {0} /\ KL \in Nat
      BY SizeAssumption
    <3>3. QED
      BY <3>1, <3>2
  <2>3. at < at + len /\ at + len < StreamEnd(s)
    BY <2>2
  <2>4. lastPosition' = at + len
    BY <2>1 DEF Move
  <2>5. Kept'
    BY <2>3, <2>4 DEF Kept
  <2>6. QED
    BY <1>1, <2>5
<1>4. QED
  BY <1>2, <1>3

LEMMA MeasureSound ==
  ASSUME TypeOK, Sound, (\E f \in Faults : MeasureFirst(f)) \/ MeasureNext
  PROVE  Sound'
<1> SUFFICES ASSUME troubles' = {} PROVE Kept' /\ FrameFound'
  BY DEF Sound
<1>1. PICK f \in Faults : MeasureFirst(f)
  BY DEF MeasureNext, Move
<1>2. f # "back"
  BY <1>1 DEF MeasureFirst, Move
<1>3. Move(lastPosition, lastPosition, {})
  BY <1>1, <1>2 DEF MeasureFirst
<1>4. troubles = {}
  BY <1>3 DEF Move
<1>5. Found(Arrives(Frames[1].at)) = 1
  BY <1>4, FirstFrame, FoundFrame, ArrivesAtFrame DEF Sound
<1>6. FrameFound'
  BY <1>1, <1>2, <1>5 DEF MeasureFirst, FrameFound, Wanted, Call
<1>7. Kept'
  BY <1>3 DEF Kept, Move
<1>8. QED
  BY <1>6, <1>7

LEMMA NextSound == TypeOK /\ Sound /\ [Next]_vars => Sound'
<1> SUFFICES ASSUME TypeOK, Sound, [Next]_vars PROVE Sound'
  OBVIOUS
<1>1. CASE OpenRead
  BY <1>1 DEF OpenRead, Sound, Kept, FrameFound, Wanted, Call
<1>2. CASE Close
  BY <1>2 DEF Close, Sound, Kept, FrameFound, Wanted, Call
<1>3. CASE RefusedCall
  BY <1>3 DEF RefusedCall, Sound, Kept, FrameFound, Wanted, Call
<1>4. CASE Read
  <2>1. PICK n \in DOMAIN Frames :
          \/ \E f \in Faults : \E read \in 0 .. Frames[n].len : ReadPacket(n, f, read)
          \/ ReadStray(n)
          \/ \E read \in 0 .. KL : ReadHeaderFails(n, read)
          \/ ReadSeekFails(n)
    BY <1>4 DEF Read
  <2>2. Frames[n].len \in Nat /\ KL \in Nat /\ "none" \in Faults
    BY FrameType, SizeAssumption DEF Faults
  <2>3. QED
    BY <2>1, <2>2, ReadSound
<1>5. CASE ReadStream
  BY <1>5, ReadStreamSound, SizeAssumption DEF ReadStream
<1>6. CASE (\E f \in Faults : MeasureFirst(f)) \/ MeasureNext
  BY <1>6, MeasureSound
<1>7. CASE UNCHANGED vars
  BY <1>7 DEF vars, Sound, Kept, FrameFound, Wanted
<1>8. QED
  BY <1>1, <1>2, <1>3, <1>4, <1>5, <1>6, <1>7 DEF Next

\* Whatever the layout of the file: until something goes wrong that m_LastPosition
\* does not account for, ReadFrame delivers the frame it is asked for.
THEOREM FrameFoundHolds == Spec => []FrameFound
<1>1. Init => Sound
  BY DEF Init, Sound, Kept, FrameFound, Wanted
<1>2. Sound => FrameFound
  BY DEF Sound, FrameFound
<1>3. QED
  BY <1>1, <1>2, InitType, NextType, NextSound, PTL DEF Spec

-----------------------------------------------------------------------------
(* NeverWrongFrame *)

Steady == troubles \cap {"seek", "stray"} = {}

\* The file is at the start of a frame only where m_LastPosition says so, or
\* before anything has been read
NotLost == Found(filePos) = 0 \/ lastPosition = 0 \/ filePos = lastPosition

Faithful == Steady => NotLost /\ NeverWrongFrame

\* No frame starts inside another one
LEMMA InsideFrame ==
  ASSUME NEW n \in DOMAIN Frames, NEW pos \in Nat, Frames[n].at < pos, pos < FrameEnd(n)
  PROVE  Found(pos) = 0
<1> DEFINE m == Found(pos)
<1>1. SUFFICES ASSUME m # 0 PROVE FALSE
  OBVIOUS
<1>2. m \in DOMAIN Frames /\ Frames[m].at = pos
  BY <1>1, FoundType
<1> HIDE DEF m
<1>3. /\ m \in Nat /\ n \in Nat
      /\ Frames[n].at \in Nat /\ FrameEnd(n) \in Nat
      /\ FrameEnd(m) \in Nat /\ FrameEnd(m) > pos
  <2>1. /\ m \in Nat /\ Frames[m].len \in Nat /\ Frames[m].len > KL
        /\ FrameEnd(m) = pos + Frames[m].len
    BY <1>2, FrameType
  <2>2. n \in Nat /\ Frames[n].at \in Nat /\ FrameEnd(n) \in Nat
    BY FrameType
  <2>3. KL \in Nat
    BY SizeAssumption
  <2>4. QED
    BY <2>1, <2>2, <2>3
<1>4. CASE m < n
  <2>1. FrameEnd(m) <= Frames[n].at
    BY <1>2, <1>4, LayoutAssumption
  <2>2. QED
    BY <1>3, <2>1
<1>5. CASE n < m
  <2>1. FrameEnd(n) <= pos
    BY <1>2, <1>5, LayoutAssumption
  <2>2. QED
    BY <1>3, <2>1
<1>6. CASE m = n
  BY <1>2, <1>6
<1>7. QED
  BY <1>3, <1>4, <1>5, <1>6

\* Nor inside a generic-stream partition, nor where its payload ends: the pack of
\* the next partition lies there
LEMMA InsideStream ==
  ASSUME NEW s \in DOMAIN Streams, NEW pos \in Nat, Streams[s].at <= pos, pos <= StreamEnd(s)
  PROVE  Found(pos) = 0
<1> DEFINE m == Found(pos)
<1>1. SUFFICES ASSUME m # 0 PROVE FALSE
  OBVIOUS
<1>2. m \in DOMAIN Frames /\ Frames[m].at = pos
  BY <1>1, FoundType
<1> HIDE DEF m
<1>3. FrameEnd(m) \in Nat /\ FrameEnd(m) > pos
  <2>1. Frames[m].len \in Nat /\ Frames[m].len > KL /\ FrameEnd(m) = pos + Frames[m].len
    BY <1>2, FrameType
  <2>2. KL \in Nat
    BY SizeAssumption
  <2>3. QED
    BY <2>1, <2>2
<1>4. Streams[s].at \in Nat /\ StreamEnd(s) \in Nat
  BY StreamType
<1>5. FrameEnd(m) <= Streams[s].at \/ StreamEnd(s) < pos
  BY <1>2, LayoutAssumption
<1>6. QED
  BY <1>3, <1>4, <1>5

\* A call that wants a frame, and finds one, finds that frame
LEMMA ArrivesOnlyThere ==
  ASSUME TypeOK, NotLost, NEW n \in DOMAIN Frames, Found(Arrives(Frames[n].at)) # 0
  PROVE  /\ Arrives(Frames[n].at) = Frames[n].at
         /\ Found(Arrives(Frames[n].at)) = n
<1>1. Frames[n].at # 0
  BY FrameType
<1>2. Arrives(Frames[n].at) = Frames[n].at
  BY <1>1 DEF NotLost, Arrives
<1>3. QED
  BY <1>2, FoundFrame

\* m_LastPosition is at the place that was wanted, whether or not the file is
LEMMA BelievesThere ==
  ASSUME NEW at PROVE Believes(at) = at
  BY DEF Believes

LEMMA ReadFaithful ==
  ASSUME TypeOK, Faithful, NEW n \in DOMAIN Frames, NEW f \in Faults, NEW read \in Nat,
         \/ ReadPacket(n, f, read) \/ ReadStray(n) \/ ReadHeaderFails(n, read)
         \/ ReadSeekFails(n)
  PROVE  Faithful'
<1> SUFFICES ASSUME Steady' PROVE NotLost' /\ NeverWrongFrame'
  BY DEF Faithful
<1> DEFINE at  == Frames[n].at
           len == Frames[n].len
<1>1. /\ at \in Nat \ {0} /\ len \in Nat /\ FrameEnd(n) = at + len /\ KL \in Nat \ {0}
      /\ KL < len
  BY FrameType, SizeAssumption
<1>2. CASE ReadPacket(n, f, read)
  <2>1. NotLost
    BY <1>2 DEF ReadPacket, Move, Steady, Faithful
  <2>2. Arrives(at) = at /\ Found(Arrives(at)) = n /\ Believes(at) = at
    BY <1>2, <2>1, ArrivesOnlyThere, BelievesThere DEF ReadPacket
  <2> DEFINE seen == CASE f = "refused" -> KL [] f = "short" -> KL + read [] OTHER -> len
  <2>3. /\ Call("ReadFrame", n, f, IF f = "none" THEN "OK" ELSE "FAIL", n)
        /\ filePos' = at + seen /\ lastPosition' = at + len
        /\ KL + read < len
    BY <1>2, <2>2 DEF ReadPacket, Move
  <2>4. NeverWrongFrame'
    BY <2>3 DEF NeverWrongFrame, Call
  <2>5. NotLost'
    <3>1. CASE f \in {"refused", "short"}
      <4>1. at < filePos' /\ filePos' < at + len /\ filePos' \in Nat
        BY <1>1, <2>3, <3>1
      <4>2. Found(filePos') = 0
        BY <1>1, <4>1, InsideFrame
      <4>3. QED
        BY <4>2 DEF NotLost, Found
    <3>2. CASE f \notin {"refused", "short"}
      BY <2>3, <3>2 DEF NotLost
    <3>3. QED
      BY <3>1, <3>2
  <2>6. QED
    BY <2>4, <2>5
<1>3. CASE ReadHeaderFails(n, read)
  <2>1. NotLost /\ Found(Arrives(at)) # 0
    BY <1>3 DEF ReadHeaderFails, Move, Steady, Faithful
  <2>2. Arrives(at) = at /\ Believes(at) = at
    BY <2>1, ArrivesOnlyThere, BelievesThere
  <2>3. /\ filePos' = at + read /\ lastPosition' = at /\ read < KL
        /\ Call("ReadFrame", n, "header", "FAIL", 0)
    BY <1>3, <2>2 DEF ReadHeaderFails, Move
  <2>4. NeverWrongFrame'
    BY <2>3 DEF NeverWrongFrame, Call
  <2>5. CASE read = 0
    BY <1>1, <2>3, <2>4, <2>5 DEF NotLost
  <2>6. CASE read # 0
    <3>1. at < filePos' /\ filePos' < at + len /\ filePos' \in Nat
      BY <1>1, <2>3, <2>6
    <3>2. Found(filePos') = 0
      BY <1>1, <3>1, InsideFrame
    <3>3. QED
      BY <2>4, <3>2 DEF NotLost, Found
  <2>7. QED
    BY <2>5, <2>6
<1>4. CASE ReadStray(n) \/ ReadSeekFails(n)
  BY <1>4 DEF ReadStray, ReadSeekFails, Move, Steady
<1>5. QED
  BY <1>2, <1>3, <1>4

LEMMA ReadStreamFaithful ==
  ASSUME TypeOK, Faithful, NEW s \in DOMAIN Streams, NEW f \in Faults, NEW read \in Nat,
         ReadGenericStream(s, f, read) \/ ReadAncillaryResource(s, f, read)
  PROVE  Faithful'
<1> SUFFICES ASSUME Steady' PROVE NotLost' /\ NeverWrongFrame'
  BY DEF Faithful
<1> DEFINE at  == Streams[s].at
           len == Streams[s].len
           end == StreamEnd(s)
<1>1. /\ at \in Nat /\ len \in Nat /\ end = at + PackLen + len
      /\ KL \in Nat /\ PackLen \in Nat /\ KL < len
  BY StreamType, SizeAssumption
<1>2. NeverWrongFrame'
  <2>1. PICK r \in {"OK", "FAIL"} : Call("ReadStream", s, f, r, 0)
    BY DEF ReadGenericStream, ReadAncillaryResource
  <2>2. QED
    BY <2>1 DEF NeverWrongFrame, Call
<1>3. ASSUME NEW pos \in Nat, at <= pos, pos <= end, filePos' = pos
      PROVE  NotLost'
  <2>1. Found(pos) = 0
    BY <1>3, InsideStream
  <2>2. QED
    BY <1>3, <2>1 DEF NotLost, Found
<1>4. CASE ReadGenericStream(s, f, read)
  <2>1. CASE f = "seek"
    <3>1. Move(filePos, lastPosition, {})
      BY <1>4, <2>1 DEF ReadGenericStream
    <3>2. NotLost
      BY <3>1 DEF Move, Steady, Faithful
    <3>3. QED
      BY <1>2, <3>1, <3>2 DEF NotLost, Move, Found
  <2>2. CASE f # "seek"
    <3>1. \/ filePos' = at + read /\ read <= PackLen
          \/ filePos' = at + PackLen + read /\ read < KL
          \/ filePos' = at + PackLen + KL
          \/ filePos' = end
      BY <1>4, <2>2 DEF ReadGenericStream, Move
    <3> HIDE DEF at, len, end
    <3>2. filePos' \in Nat /\ at <= filePos' /\ filePos' <= end
      BY <1>1, <3>1
    <3>3. QED
      BY <1>2, <1>3, <3>2
  <2>3. QED
    BY <2>1, <2>2
<1>5. CASE ReadAncillaryResource(s, f, read)
  <2>1. ~(f = "seek" \/ Arrives(at) # at)
    BY <1>5 DEF ReadAncillaryResource, Move, Steady
  <2>2. \/ Move(at + read, at, {"partial"}) /\ read <= PackLen
        \/ Move(at + PackLen + KL, at + len, {"partial"})
        \/ Move(end, at + len, {})
    <3> HIDE DEF end
    <3>1. /\ read = 0 \/ (f = "pack" /\ read <= PackLen)
          /\ CASE f = "pack"    -> Move(at + read, at, {"partial"})
               [] f = "refused" -> Move(at + PackLen + KL, at + len, {"partial"})
               [] OTHER         -> Move(end, at + len, {})
      BY <1>5, <2>1 DEF ReadAncillaryResource, end
    <3>2. 0 <= PackLen
      BY <1>1
    <3>3. QED
      BY <3>1, <3>2
  <2> HIDE DEF at, len, end
  <2>3. filePos' \in Nat /\ at <= filePos' /\ filePos' <= end
    BY <1>1, <2>2 DEF Move
  <2>4. QED
    BY <1>2, <1>3, <2>3
<1>6. QED
  BY <1>4, <1>5

LEMMA MeasureFaithful ==
  ASSUME TypeOK, Faithful, (\E f \in Faults : MeasureFirst(f)) \/ MeasureNext
  PROVE  Faithful'
<1> SUFFICES ASSUME Steady' PROVE NotLost' /\ NeverWrongFrame'
  BY DEF Faithful
<1>1. NeverWrongFrame'
  BY DEF MeasureFirst, MeasureNext, Call, NeverWrongFrame
<1>2. CASE \E f \in Faults : MeasureFirst(f)
  <2>1. PICK f \in Faults : MeasureFirst(f)
    BY <1>2
  <2>2. Move(lastPosition, lastPosition, {})
    BY <2>1 DEF MeasureFirst, Move, Steady
  <2>3. QED
    BY <1>1, <2>2 DEF Move, NotLost
<1>3. CASE MeasureNext
  <2> DEFINE n == Found(filePos)
  <2>1. filePos' = filePos + KL /\ n # 0
    BY <1>3 DEF MeasureNext, Move, Steady
  <2>2. n \in DOMAIN Frames /\ Frames[n].at = filePos
    BY <2>1, FoundType
  <2> HIDE DEF n
  <2>3. filePos \in Nat /\ KL \in Nat \ {0} /\ FrameEnd(n) \in Nat /\ filePos + KL < FrameEnd(n)
    <3>1. Frames[n].len \in Nat /\ Frames[n].len > KL /\ FrameEnd(n) = filePos + Frames[n].len
      BY <2>2, FrameType
    <3>2. filePos \in Nat /\ KL \in Nat \ {0}
      BY SizeAssumption DEF TypeOK
    <3>3. QED
      BY <3>1, <3>2
  <2>4. Found(filePos + KL) = 0
    BY <2>2, <2>3, InsideFrame
  <2>5. QED
    BY <1>1, <2>1, <2>4 DEF NotLost, Found
<1>4. QED
  BY <1>2, <1>3

LEMMA NextFaithful == TypeOK /\ Faithful /\ [Next]_vars => Faithful'
<1> SUFFICES ASSUME TypeOK, Faithful, [Next]_vars PROVE Faithful'
  OBVIOUS
<1>1. CASE OpenRead
  BY <1>1 DEF OpenRead, Faithful, NotLost, NeverWrongFrame, Call
<1>2. CASE Close
  BY <1>2 DEF Close, Faithful, Steady, NotLost, NeverWrongFrame, Call, Found
<1>3. CASE RefusedCall
  BY <1>3 DEF RefusedCall, Faithful, Steady, NotLost, NeverWrongFrame, Call, Found
<1>4. CASE Read
  <2>1. PICK n \in DOMAIN Frames :
          \/ \E f \in Faults : \E read \in 0 .. Frames[n].len : ReadPacket(n, f, read)
          \/ ReadStray(n)
          \/ \E read \in 0 .. KL : ReadHeaderFails(n, read)
          \/ ReadSeekFails(n)
    BY <1>4 DEF Read
  <2>2. Frames[n].len \in Nat /\ KL \in Nat /\ "none" \in Faults
    BY FrameType, SizeAssumption DEF Faults
  <2>3. QED
    BY <2>1, <2>2, ReadFaithful
<1>5. CASE ReadStream
  BY <1>5, ReadStreamFaithful, SizeAssumption DEF ReadStream
<1>6. CASE (\E f \in Faults : MeasureFirst(f)) \/ MeasureNext
  BY <1>6, MeasureFaithful
<1>7. CASE UNCHANGED vars
  BY <1>7 DEF vars, Faithful, Steady, NotLost, NeverWrongFrame, Found
<1>8. QED
  BY <1>1, <1>2, <1>3, <1>4, <1>5, <1>6, <1>7 DEF Next

\* Whatever the layout of the file, and after reads that ended early, refused
\* buffers, stream payloads and measured frames: as long as no seek has failed and
\* nothing was read where no packet starts, a ReadFrame that returns RESULT_OK has
\* delivered the frame it was asked for.
THEOREM NeverWrongFrameHolds == Spec => []NeverWrongFrame
<1>1. Init => Faithful
  BY DEF Init, Faithful, NotLost, NeverWrongFrame
<1>2. Faithful => NeverWrongFrame
  BY DEF Faithful, Steady, NeverWrongFrame
<1>3. QED
  BY <1>1, <1>2, InitType, NextType, NextFaithful, PTL DEF Spec

=============================================================================
