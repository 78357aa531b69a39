------------------------ MODULE GlobalObjects_proofs ------------------------
(***************************************************************************)
(* Mutual exclusion at work: the double-checked locking of the shared      *)
(* objects makes each of them once, and the random number generator never  *)
(* gives a whole block twice, for any number of threads and of calls.      *)
(*                                                                         *)
(* The invariant of the objects says what each call knows of its object    *)
(* while it has the lock, and that a half-made object is in the hands of   *)
(* its lock's owner.  That of the generators says that a block which was   *)
(* given whole lies behind its generator's key and counter.                *)
(***************************************************************************)
EXTENDS GlobalObjects, TLAPS

-----------------------------------------------------------------------------
(* The inductive invariant of the shared objects *)

CallRecord == [o : AllObjects \cup {"rng"}, at : ObjectPlaces \cup RandomPlaces, how : {"test", "lock"},
          len : {"none", "block", "part"}, gen : Nat]

Fresh(o) == object[o].made = 0 /\ ~object[o].flag /\ ~object[o].whole
Done(o) == object[o].made = 1 /\ object[o].flag /\ object[o].whole

\* What a thread knows of an object, by where its call is
Knows(t, f) ==
  /\ f.at \in {"test", "lock"} => f.how = "test"
  /\ f.at \in {"retest", "build", "publish", "unlock"} => object[f.o].lock = t
  /\ f.at = "build" => Fresh(f.o)
  /\ f.at = "publish" => object[f.o].made = 1
  /\ f.at = "unlock" => Done(f.o)
  /\ f.at = "return" /\ f.how = "lock" => Done(f.o)

CallOK(t, f) ==
  /\ f \in CallRecord
  /\ IF f.o = "rng" THEN f.at \in RandomPlaces ELSE f.at \in ObjectPlaces /\ Knows(t, f)

\* A call is inside another one only for the dictionary that the making of a
\* header part needs.
Nested(stack) ==
  \/ Len(stack) <= 1
  \/ /\ Len(stack) = 2
     /\ stack[1].o = "smpte" /\ stack[2].o \in {"md", "md02"} /\ stack[2].at = "build"

ThreadOK(t) ==
  /\ thread[t] \in [stack : Seq(CallRecord), calls : 0 .. MaxCalls, misled : {FALSE}]
  /\ Nested(thread[t].stack)
  /\ \A k \in DOMAIN thread[t].stack : CallOK(t, thread[t].stack[k])

\* Half made, an object is in the hands of the thread that has its lock.
Publishing(o) ==
  /\ object[o].made = 1
  /\ object[o].lock \in Threads
  /\ thread[object[o].lock].stack # <<>>
  /\ thread[object[o].lock].stack[1].o = o
  /\ thread[object[o].lock].stack[1].at = "publish"

ObjectOK(o) ==
  /\ object[o] \in [flag : BOOLEAN, whole : BOOLEAN, made : Nat, lock : Threads \cup {Nobody}]
  /\ Fresh(o) \/ Done(o) \/ Publishing(o)

Locked ==
  /\ DOMAIN thread = Threads /\ DOMAIN object = AllObjects
  /\ \A t \in Threads : ThreadOK(t)
  /\ \A o \in AllObjects : ObjectOK(o)

-----------------------------------------------------------------------------
(* The inductive invariant of the random number generators *)

Block == [g : Nat, key : Nat, ctr : Nat, len : {"none", "block", "part"}]

RandomType ==
  /\ rng \in [gens : Seq([key : Nat, ctr : Nat]), current : Nat, keys : Nat,
              given : Seq(Block), asked : BOOLEAN]
  /\ rng.current <= Len(rng.gens)
  /\ \A t \in Threads :
       /\ thread[t].stack # <<>>
       /\ thread[t].stack[1].at \in {"fill", "reseed", "setkey"}
       => rng.current # 0

\* A block given whole lies behind its generator: it has an older key, or a lower
\* counter. A block given in part may be where the counter still is.
Spent ==
  /\ \A g \in DOMAIN rng.gens : rng.gens[g].key <= rng.keys
  /\ \A i \in DOMAIN rng.given :
       LET b == rng.given[i]
       IN  /\ b.g \in DOMAIN rng.gens
           /\ b.key <= rng.gens[b.g].key
           /\ b.key = rng.gens[b.g].key =>
                b.ctr <= rng.gens[b.g].ctr /\ (b.len = "block" => b.ctr < rng.gens[b.g].ctr)

Behind == RandomType /\ Spent /\ WholeBlocksDiffer

-----------------------------------------------------------------------------
(* Double-checked locking *)

ObjectRecord == [flag : BOOLEAN, whole : BOOLEAN, made : Nat, lock : Threads \cup {Nobody}]

LEMMA TopCall ==
  ASSUME Locked, NEW t \in Threads, thread[t].stack # <<>>
  PROVE  /\ thread[t].stack \in Seq(CallRecord)
         /\ 1 \in DOMAIN thread[t].stack
         /\ thread[t].calls \in 0 .. MaxCalls /\ thread[t].misled = FALSE
         /\ Here(t) \in CallRecord /\ Here(t) = thread[t].stack[1]
         /\ CallOK(t, Here(t))
         /\ Nested(thread[t].stack)
<1>1. /\ thread[t] \in [stack : Seq(CallRecord), calls : 0 .. MaxCalls, misled : {FALSE}]
      /\ Nested(thread[t].stack)
      /\ \A k \in DOMAIN thread[t].stack : CallOK(t, thread[t].stack[k])
  BY DEF Locked, ThreadOK
<1>2. thread[t].stack \in Seq(CallRecord) /\ thread[t].calls \in 0 .. MaxCalls /\ thread[t].misled = FALSE
  BY <1>1
<1>3. 1 \in DOMAIN thread[t].stack
  BY <1>2
<1>4. QED
  BY <1>1, <1>2, <1>3 DEF Here, CallOK

\* A thread whose objects do not change under it knows what it knew.
LEMMA KnowsKept ==
  ASSUME NEW t, NEW f, NEW g, g = f, CallOK(t, f), f.o \in AllObjects => object'[f.o] = object[f.o]
  PROVE  CallOK(t, g)'
<1>1. CASE f.o = "rng"
  BY <1>1 DEF CallOK
<1>2. CASE f.o # "rng"
  <2>1. f.o \in AllObjects
    BY <1>2 DEF CallOK, CallRecord
  <2>2. object'[f.o] = object[f.o]
    BY <2>1
  <2>3. Knows(t, f)'
    BY <1>2, <2>2 DEF CallOK, Knows, Fresh, Done
  <2>4. QED
    BY <1>2, <2>3 DEF CallOK
<1>3. QED
  BY <1>1, <1>2

LEMMA ThreadKept ==
  ASSUME Locked, NEW u \in Threads, thread'[u] = thread[u],
         \A k \in DOMAIN thread[u].stack :
           LET p == thread[u].stack[k].o IN p \in AllObjects => object'[p] = object[p]
  PROVE  ThreadOK(u)'
<1>1. PICK th : th = thread[u]
  OBVIOUS
<1>2. /\ th \in [stack : Seq(CallRecord), calls : 0 .. MaxCalls, misled : {FALSE}]
      /\ Nested(th.stack)
      /\ \A k \in DOMAIN th.stack : CallOK(u, th.stack[k])
  BY <1>1 DEF Locked, ThreadOK
<1>3. ASSUME NEW k \in DOMAIN th.stack
      PROVE  CallOK(u, th.stack[k])'
  <2>1. PICK f : f = th.stack[k]
    OBVIOUS
  <2>2. CallOK(u, f) /\ (f.o \in AllObjects => object'[f.o] = object[f.o])
    BY <1>1, <1>2, <2>1
  <2>3. CallOK(u, f)'
    BY <2>2, KnowsKept
  <2>4. QED
    BY <2>1, <2>3 DEF CallOK
<1>4. th = thread'[u]
  BY <1>1
<1>5. QED
  BY <1>2, <1>3, <1>4 DEF ThreadOK

\* A step that leaves the objects alone, and takes nobody away from publishing one
LEMMA KeepObjects ==
  ASSUME Locked, NEW t \in Threads, object' = object, DOMAIN thread' = Threads,
         \A u \in Threads \ {t} : thread'[u] = thread[u],
         ThreadOK(t)',
         thread[t].stack # <<>> => Here(t).at # "publish"
  PROVE  Locked'
<1>1. ASSUME NEW u \in Threads PROVE ThreadOK(u)'
  <2>1. CASE u = t
    BY <2>1
  <2>2. CASE u # t
    BY <2>2, ThreadKept
  <2>3. QED
    BY <2>1, <2>2
<1>2. ASSUME NEW o \in AllObjects PROVE ObjectOK(o)'
  <2>1. ObjectOK(o)
    BY DEF Locked
  <2>2. CASE Fresh(o) \/ Done(o)
    BY <2>1, <2>2 DEF ObjectOK, Fresh, Done
  <2>3. CASE Publishing(o)
    <3>1. object[o].lock # t
      BY <2>3 DEF Publishing, Here
    <3>2. Publishing(o)'
      BY <2>3, <3>1 DEF Publishing
    <3>3. QED
      BY <2>1, <3>2 DEF ObjectOK
  <2>4. QED
    BY <2>1, <2>2, <2>3 DEF ObjectOK
<1>3. DOMAIN object' = AllObjects
  BY DEF Locked
<1>4. QED
  BY <1>1, <1>2, <1>3 DEF Locked

\* The thread at work, when its innermost call moves on: the call around it, if
\* there is one, is about another object.
LEMMA MovesOn ==
  ASSUME Locked, NEW t \in Threads, thread[t].stack # <<>>, NEW f \in CallRecord, f.o = Here(t).o,
         thread' = [thread EXCEPT ![t].stack[1] = f],
         \A p \in AllObjects \ {f.o} : object'[p] = object[p],
         CallOK(t, f)'
  PROVE  /\ ThreadOK(t)'
         /\ DOMAIN thread' = Threads
         /\ \A u \in Threads \ {t} : thread'[u] = thread[u]
         /\ thread'[t].stack # <<>> /\ thread'[t].stack[1] = f
<1>1. PICK s : s = thread[t].stack
  OBVIOUS
<1>2. PICK s2 : s2 = [s EXCEPT ![1] = f]
  OBVIOUS
<1>3. s \in Seq(CallRecord) /\ 1 \in DOMAIN s /\ Here(t) = s[1] /\ Nested(s)
  BY <1>1, TopCall
<1>4. s2 \in Seq(CallRecord) /\ DOMAIN s2 = DOMAIN s /\ Len(s2) = Len(s) /\ s2[1] = f
        /\ \A k \in DOMAIN s \ {1} : s2[k] = s[k]
  BY <1>2, <1>3
<1>5. thread[t] \in [stack : Seq(CallRecord), calls : 0 .. MaxCalls, misled : {FALSE}]
  BY DEF Locked, ThreadOK
<1>6. /\ DOMAIN thread' = Threads
      /\ \A u \in Threads \ {t} : thread'[u] = thread[u]
      /\ thread'[t] = [thread[t] EXCEPT !.stack = s2]
  BY <1>1, <1>2 DEF Locked
<1>7. thread'[t].stack = s2
        /\ thread'[t] \in [stack : Seq(CallRecord), calls : 0 .. MaxCalls, misled : {FALSE}]
  BY <1>4, <1>5, <1>6
<1>8. Nested(s2)
  BY <1>3, <1>4 DEF Nested
<1>9. ASSUME NEW k \in DOMAIN s2 PROVE CallOK(t, s2[k])'
  <2>1. CASE k = 1
    BY <1>4, <2>1 DEF CallOK
  <2>2. CASE k # 1
    <3>1. k = 2 /\ Len(s) = 2
      BY <1>3, <1>4, <2>2 DEF Nested
    <3>2. s[1].o = "smpte" /\ s[2].o \in {"md", "md02"}
      BY <1>3, <3>1 DEF Nested
    <3>3. PICK g : g = s[2]
      OBVIOUS
    <3>4. CallOK(t, g)
      BY <1>1, <1>4, <3>1, <3>3 DEF Locked, ThreadOK
    <3>5. object'[g.o] = object[g.o]
      BY <1>3, <3>2, <3>3 DEF AllObjects
    <3>6. CallOK(t, g)'
      BY <3>4, <3>5, KnowsKept
    <3>7. g = s2[k]
      BY <1>4, <3>1, <3>3
    <3>8. QED
      BY <3>6, <3>7 DEF CallOK
  <2>3. QED
    BY <2>1, <2>2
<1>10. s2 # <<>>
  BY <1>3, <1>4
<1>11. ThreadOK(t)'
  BY <1>7, <1>8, <1>9 DEF ThreadOK
<1>12. QED
  BY <1>4, <1>6, <1>7, <1>10, <1>11

\* A step of the thread that has the lock of an object, or takes it
LEMMA OwnersStep ==
  ASSUME Locked, "nobody" \notin Threads,
         NEW t \in Threads, thread[t].stack # <<>>, NEW f \in CallRecord, f.o = Here(t).o,
         f.o \in AllObjects,
         thread' = [thread EXCEPT ![t].stack[1] = f],
         NEW ob \in ObjectRecord, object' = [object EXCEPT ![f.o] = ob],
         object[f.o].lock \in {Nobody, t},
         Done(f.o) => Done(f.o)',
         CallOK(t, f)',
         Fresh(f.o)' \/ Done(f.o)' \/ (ob.made = 1 /\ ob.lock = t /\ f.at = "publish")
  PROVE  Locked'
<1>1. /\ DOMAIN object' = AllObjects /\ object'[f.o] = ob
      /\ \A p \in AllObjects \ {f.o} : object'[p] = object[p]
  BY DEF Locked
<1>2. /\ ThreadOK(t)'
      /\ DOMAIN thread' = Threads
      /\ \A u \in Threads \ {t} : thread'[u] = thread[u]
      /\ thread'[t].stack # <<>> /\ thread'[t].stack[1] = f
  BY <1>1, MovesOn
<1>3. ASSUME NEW u \in Threads \ {t} PROVE ThreadOK(u)'
  <2>1. PICK th : th = thread[u]
    OBVIOUS
  <2>2. /\ th \in [stack : Seq(CallRecord), calls : 0 .. MaxCalls, misled : {FALSE}]
        /\ Nested(th.stack)
        /\ \A k \in DOMAIN th.stack : CallOK(u, th.stack[k])
    BY <2>1 DEF Locked, ThreadOK
  <2>3. ASSUME NEW k \in DOMAIN th.stack PROVE CallOK(u, th.stack[k])'
    <3>1. PICK g : g = th.stack[k]
      OBVIOUS
    <3>2. CallOK(u, g)
      BY <2>2, <3>1
    <3>3. CASE g.o # f.o
      <4>1. g.o \in AllObjects => object'[g.o] = object[g.o]
        BY <1>1, <3>3
      <4>2. CallOK(u, g)'
        BY <3>2, <4>1, KnowsKept
      <4>3. QED
        BY <3>1, <4>2 DEF CallOK
    <3>4. CASE g.o = f.o
      <4>1. g.o # "rng"
        BY <3>4 DEF AllObjects
      <4>2. object[g.o].lock # u
        BY <1>3, <3>4 DEF Nobody
      <4>3. g.at \in {"test", "lock", "return"}
        BY <3>2, <4>1, <4>2 DEF CallOK, Knows, ObjectPlaces
      <4>4. Knows(u, g)'
        BY <3>2, <3>4, <4>1, <4>3 DEF CallOK, Knows
      <4>5. QED
        BY <3>1, <3>2, <4>1, <4>4 DEF CallOK
    <3>5. QED
      BY <3>3, <3>4
  <2>4. thread'[u] = th
    BY <1>2, <2>1
  <2>5. QED
    BY <2>2, <2>3, <2>4 DEF ThreadOK
<1>4. ASSUME NEW o \in AllObjects PROVE ObjectOK(o)'
  <2>1. CASE o = f.o
    <3>1. (ob.made = 1 /\ ob.lock = t /\ f.at = "publish") => Publishing(f.o)'
      BY <1>1, <1>2 DEF Publishing
    <3>2. object'[o] \in ObjectRecord
      BY <1>1, <2>1
    <3>3. Fresh(o)' \/ Done(o)' \/ Publishing(o)'
      BY <2>1, <3>1
    <3>4. QED
      BY <3>2, <3>3 DEF ObjectOK, ObjectRecord
  <2>2. CASE o # f.o
    <3>1. object'[o] = object[o] /\ ObjectOK(o)
      BY <1>1, <2>2 DEF Locked
    <3>2. CASE Fresh(o) \/ Done(o)
      BY <3>1, <3>2 DEF ObjectOK, Fresh, Done
    <3>3. CASE Publishing(o)
      <4>1. object[o].lock # t
        BY <2>2, <3>3 DEF Publishing, Here
      <4>2. Publishing(o)'
        BY <1>2, <3>1, <3>3, <4>1 DEF Publishing
      <4>3. QED
        BY <3>1, <4>2 DEF ObjectOK
    <3>4. QED
      BY <3>1, <3>2, <3>3 DEF ObjectOK
  <2>3. QED
    BY <2>1, <2>2
<1>5. QED
  BY <1>1, <1>2, <1>3, <1>4 DEF Locked

-----------------------------------------------------------------------------
(* The actions, one by one *)

LEMMA CallLocked ==
  ASSUME ObjectsAssumption, Locked, NEW t \in Threads, Call(t)
  PROVE  Locked'
<1>1. PICK f \in CallRecord :
        /\ thread' = [thread EXCEPT ![t].stack = <<f>>, ![t].calls = @ + 1]
        /\ CallOK(t, f)
  <2>1. CASE CallObject(t)
    <3>1. PICK o \in Objects :
            thread' = [thread EXCEPT ![t].stack = <<Frame(o, "test")>>, ![t].calls = @ + 1]
      BY <2>1 DEF CallObject
    <3>2. o \in AllObjects /\ o # "rng"
      BY DEF ObjectsAssumption, AllObjects
    <3>3. Frame(o, "test") \in CallRecord
      BY <3>2 DEF Frame, CallRecord, ObjectPlaces, RandomPlaces
    <3>4. CallOK(t, Frame(o, "test"))
      BY <3>2, <3>3 DEF CallOK, Frame, Knows, ObjectPlaces
    <3>5. QED
      BY <3>1, <3>3, <3>4
  <2>2. CASE CallRandom(t)
    <3>1. PICK len \in {"block", "part"}, at \in {"new", "fill"} :
            thread' = [thread EXCEPT ![t].stack = <<[Frame("rng", at) EXCEPT !.len = len]>>,
                                     ![t].calls = @ + 1]
      BY <2>2 DEF CallRandom
    <3>2. PICK f : f = [Frame("rng", at) EXCEPT !.len = len]
      OBVIOUS
    <3>3. f \in CallRecord /\ f.o = "rng" /\ f.at = at
      BY <3>2 DEF Frame, CallRecord, ObjectPlaces, RandomPlaces
    <3>4. CallOK(t, f)
      BY <3>3 DEF CallOK, RandomPlaces
    <3>5. QED
      BY <3>1, <3>2, <3>3, <3>4
  <2>3. QED
    BY <2>1, <2>2 DEF Call
<1>2. thread[t].stack = <<>> /\ thread[t].calls < MaxCalls /\ object' = object
  BY DEF Call, CallObject, CallRandom
<1>3. thread[t] \in [stack : Seq(CallRecord), calls : 0 .. MaxCalls, misled : {FALSE}]
  BY DEF Locked, ThreadOK
<1>4. /\ DOMAIN thread' = Threads /\ \A u \in Threads \ {t} : thread'[u] = thread[u]
      /\ thread'[t] = [thread[t] EXCEPT !.stack = <<f>>, !.calls = @ + 1]
  BY <1>1 DEF Locked
<1>5. thread'[t] \in [stack : Seq(CallRecord), calls : 0 .. MaxCalls, misled : {FALSE}]
        /\ thread'[t].stack = <<f>>
  <2>1. PICK th : th = thread[t]
    OBVIOUS
  <2>2. th.calls \in Nat /\ th.calls < MaxCalls
    <3>1. th.calls \in 0 .. MaxCalls
      BY <1>3, <2>1
    <3>2. QED
      BY <1>2, <2>1, <3>1 DEF ObjectsAssumption
  <2>3. th.calls + 1 \in 0 .. MaxCalls
    BY <2>2 DEF ObjectsAssumption
  <2>4. <<f>> \in Seq(CallRecord)
    OBVIOUS
  <2>5. thread'[t] = [th EXCEPT !.stack = <<f>>, !.calls = th.calls + 1]
    BY <1>4, <2>1
  <2>6. QED
    BY <1>3, <2>1, <2>3, <2>4, <2>5
<1>6. CallOK(t, f)'
  BY <1>1, <1>2, KnowsKept
<1>7. \A k \in DOMAIN <<f>> : k = 1 /\ <<f>>[k] = f
  OBVIOUS
<1>8. Nested(<<f>>)
  BY DEF Nested
<1>9. \A k \in DOMAIN <<f>> : CallOK(t, <<f>>[k])'
  BY <1>6, <1>7 DEF CallOK
<1>10. ThreadOK(t)'
  BY <1>5, <1>8, <1>9 DEF ThreadOK
<1>11. QED
  BY <1>2, <1>4, <1>10, KeepObjects

\* The call that an action finds at its place
LEMMA AtPlace ==
  ASSUME Locked, NEW t \in Threads, NEW p, At(t, p)
  PROVE  /\ thread[t].stack # <<>> /\ Here(t).at = p
         /\ Here(t) \in CallRecord /\ CallOK(t, Here(t))
         /\ p \in ObjectPlaces => /\ Here(t).o \in AllObjects /\ Knows(t, Here(t))
                                  /\ object[Here(t).o] \in ObjectRecord /\ ObjectOK(Here(t).o)
         /\ p \in RandomPlaces => Here(t).o = "rng"
<1>1. thread[t].stack # <<>> /\ Here(t).at = p
  BY DEF At, Here
<1>2. Here(t) \in CallRecord /\ CallOK(t, Here(t))
  BY <1>1, TopCall
<1>3. ASSUME p \in ObjectPlaces
      PROVE  /\ Here(t).o \in AllObjects /\ Knows(t, Here(t))
             /\ object[Here(t).o] \in ObjectRecord /\ ObjectOK(Here(t).o)
  <2>1. Here(t).o # "rng" /\ Here(t).o \in AllObjects
    BY <1>1, <1>2, <1>3 DEF CallOK, CallRecord, ObjectPlaces, RandomPlaces
  <2>2. ObjectOK(Here(t).o)
    BY <2>1 DEF Locked
  <2>3. QED
    BY <1>2, <2>1, <2>2 DEF CallOK, ObjectOK, ObjectRecord
<1>4. p \in RandomPlaces => Here(t).o = "rng"
  BY <1>1, <1>2 DEF CallOK, ObjectPlaces, RandomPlaces
<1>5. QED
  BY <1>1, <1>2, <1>3, <1>4

LEMMA TestLocked ==
  ASSUME Locked, NEW t \in Threads, Test(t)
  PROVE  Locked'
<1>1. PICK f0 : f0 = Here(t)
  OBVIOUS
<1>2. /\ thread[t].stack # <<>> /\ f0.at = "test" /\ f0 \in CallRecord /\ CallOK(t, f0)
      /\ f0.o \in AllObjects /\ f0.how = "test"
  BY <1>1, AtPlace DEF Test, ObjectPlaces, Knows
<1>3. PICK at \in {"return", "lock"} : thread' = Goto(t, at)
  BY DEF Test
<1>4. PICK f : f = [f0 EXCEPT !.at = at]
  OBVIOUS
<1>5. f \in CallRecord /\ f.o = f0.o /\ f.at = at /\ f.how = "test"
  BY <1>2, <1>4 DEF CallRecord, ObjectPlaces
<1>6. thread' = [thread EXCEPT ![t].stack[1] = f]
  BY <1>1, <1>3, <1>4 DEF Goto, Here
<1>7. object' = object
  BY DEF Test
<1>8. CallOK(t, f)'
  BY <1>2, <1>5 DEF CallOK, Knows, ObjectPlaces, AllObjects
<1>9. ThreadOK(t)' /\ DOMAIN thread' = Threads /\ \A u \in Threads \ {t} : thread'[u] = thread[u]
  BY <1>1, <1>2, <1>5, <1>6, <1>7, <1>8, MovesOn
<1>10. Here(t).at # "publish"
  BY <1>1, <1>2
<1>11. QED
  BY <1>7, <1>9, <1>10, KeepObjects

LEMMA LockLocked ==
  ASSUME ObjectsAssumption, Locked, NEW t \in Threads, Lock(t)
  PROVE  Locked'
<1>1. PICK f0 : f0 = Here(t)
  OBVIOUS
<1>2. /\ thread[t].stack # <<>> /\ f0.at = "lock" /\ f0 \in CallRecord
      /\ f0.o \in AllObjects /\ object[f0.o] \in ObjectRecord /\ ObjectOK(f0.o)
  BY <1>1, AtPlace DEF Lock, ObjectPlaces
<1>3. PICK f : f = [f0 EXCEPT !.at = "retest", !.how = "lock"]
  OBVIOUS
<1>4. f \in CallRecord /\ f.o = f0.o /\ f.at = "retest" /\ f.how = "lock"
  BY <1>2, <1>3 DEF CallRecord, ObjectPlaces
<1>5. thread' = [thread EXCEPT ![t].stack[1] = f]
  BY <1>1, <1>3 DEF Lock, Here
<1>6. PICK ob : ob = [object[f0.o] EXCEPT !.lock = t]
  OBVIOUS
<1>7. /\ ob \in ObjectRecord /\ ob.lock = t
      /\ ob.made = object[f0.o].made /\ ob.flag = object[f0.o].flag
      /\ ob.whole = object[f0.o].whole
  BY <1>2, <1>6 DEF ObjectRecord
<1>8. object' = [object EXCEPT ![f.o] = ob] /\ object[f.o].lock = Nobody
  BY <1>1, <1>4, <1>6 DEF Lock
<1>9. object'[f.o] = ob
  BY <1>2, <1>4, <1>8 DEF Locked
<1>10. CallOK(t, f)'
  BY <1>2, <1>4, <1>7, <1>9 DEF CallOK, Knows, ObjectPlaces, AllObjects
<1>11. Nobody \notin Threads
  BY DEF Nobody, ObjectsAssumption
<1>12. ~Publishing(f.o)
  BY <1>8, <1>11 DEF Publishing
<1>13. Fresh(f.o)' \/ Done(f.o)'
  BY <1>2, <1>4, <1>7, <1>9, <1>12 DEF ObjectOK, Fresh, Done
<1>14. Done(f.o) => Done(f.o)'
  BY <1>4, <1>7, <1>9 DEF Done
<1>15. QED
  BY <1>1, <1>2, <1>4, <1>5, <1>7, <1>8, <1>10, <1>13, <1>14, OwnersStep DEF ObjectsAssumption

LEMMA RetestLocked ==
  ASSUME ObjectsAssumption, Locked, NEW t \in Threads, Retest(t)
  PROVE  Locked'
<1>1. PICK f0 : f0 = Here(t)
  OBVIOUS
<1>2. PICK s : s = thread[t].stack
  OBVIOUS
<1>3. /\ s # <<>> /\ f0.at = "retest" /\ f0 \in CallRecord
      /\ f0.o \in AllObjects /\ ObjectOK(f0.o) /\ object[f0.o].lock = t
  BY <1>1, <1>2, AtPlace DEF Retest, ObjectPlaces, Knows
<1>4. s \in Seq(CallRecord) /\ 1 \in DOMAIN s /\ s[1] = f0 /\ Nested(s) /\ t \in DOMAIN thread
  BY <1>1, <1>2, <1>3, TopCall DEF Locked
<1>5. object' = object
  BY DEF Retest
<1>6. ~Publishing(f0.o)
  BY <1>1, <1>3 DEF Publishing, Here
<1>7. Fresh(f0.o) \/ Done(f0.o)
  BY <1>3, <1>6 DEF ObjectOK
<1>8. PICK f : f = [f0 EXCEPT !.at = AfterRetest(f0.o)]
  OBVIOUS
<1>9. /\ f \in CallRecord /\ f.o = f0.o
      /\ f.at = IF object[f0.o].flag THEN "unlock" ELSE "build"
  BY <1>3, <1>8 DEF CallRecord, ObjectPlaces, AfterRetest
<1>10. CallOK(t, f)
  BY <1>3, <1>7, <1>9 DEF CallOK, Knows, ObjectPlaces, AllObjects, Fresh, Done
<1>11. CallOK(t, f)'
  BY <1>5, <1>10, KnowsKept
<1>12. CASE f.at = "build" /\ Needs(f0.o) # {}
  <2>1. f0.o \in {"md", "md02"} /\ Needs(f0.o) = {"smpte"}
    BY <1>12 DEF Needs
  <2>2. s = <<f0>>
    <3>1. Len(s) = 1
      <4>1. Len(s) \in Nat /\ DOMAIN s = 1 .. Len(s)
        BY <1>4
      <4>2. Len(s) >= 1
        BY <1>4, <4>1
      <4>3. s[1].o # "smpte"
        BY <1>4, <2>1
      <4>4. Len(s) <= 1
        BY <1>4, <4>3 DEF Nested
      <4>5. QED
        BY <4>1, <4>2, <4>4
    <3>2. QED
      BY <1>4, <3>1
  <2>3. PICK g : g = Frame("smpte", "test")
    OBVIOUS
  <2>4. g \in CallRecord /\ g.o = "smpte" /\ g.at = "test" /\ g.how = "test"
    BY <2>3 DEF Frame, CallRecord, ObjectPlaces, AllObjects
  <2>5. thread' = [thread EXCEPT ![t].stack = <<g, f>>]
    <3>1. (CHOOSE n \in Needs(f0.o) : TRUE) = "smpte"
      BY <2>1
    <3>2. <<g, f>> \o Tail(s) = <<g, f>>
      BY <2>2
    <3>3. QED
      BY <1>1, <1>2, <1>8, <1>12, <2>3, <3>1, <3>2 DEF Retest
  <2>6. /\ DOMAIN thread' = Threads /\ \A u \in Threads \ {t} : thread'[u] = thread[u]
        /\ thread'[t] = [thread[t] EXCEPT !.stack = <<g, f>>]
    BY <2>5 DEF Locked
  <2>7. PICK s2 : s2 = <<g, f>>
    OBVIOUS
  <2>8. s2 \in Seq(CallRecord) /\ Len(s2) = 2 /\ s2[1] = g /\ s2[2] = f /\ DOMAIN s2 = {1, 2}
    BY <1>9, <2>4, <2>7
  <2>9. Nested(s2)
    BY <1>9, <1>12, <2>1, <2>4, <2>8 DEF Nested
  <2>10. CallOK(t, g)'
    BY <2>4 DEF CallOK, Knows, ObjectPlaces
  <2>11. \A k \in DOMAIN s2 : CallOK(t, s2[k])'
    BY <1>11, <2>8, <2>10 DEF CallOK
  <2>12. thread'[t] \in [stack : Seq(CallRecord), calls : 0 .. MaxCalls, misled : {FALSE}]
           /\ thread'[t].stack = s2
    BY <2>6, <2>7, <2>8 DEF Locked, ThreadOK
  <2>13. ThreadOK(t)'
    BY <2>9, <2>11, <2>12 DEF ThreadOK
  <2>14. QED
    BY <1>1, <1>3, <1>5, <2>6, <2>13, KeepObjects
<1>13. CASE ~(f.at = "build" /\ Needs(f0.o) # {})
  <2>1. thread' = [thread EXCEPT ![t].stack = <<f>> \o Tail(s)]
    BY <1>1, <1>2, <1>8, <1>13 DEF Retest
  <2>2. <<f>> \o Tail(s) = [s EXCEPT ![1] = f]
    BY <1>4, <1>9
  <2>3. thread' = [thread EXCEPT ![t].stack[1] = f]
    BY <1>2, <2>1, <2>2
  <2>4. ThreadOK(t)' /\ DOMAIN thread' = Threads /\ \A u \in Threads \ {t} : thread'[u] = thread[u]
    BY <1>1, <1>2, <1>3, <1>5, <1>9, <1>11, <2>3, MovesOn
  <2>5. QED
    BY <1>1, <1>3, <1>5, <2>4, KeepObjects
<1>14. QED
  BY <1>12, <1>13

LEMMA BuildLocked ==
  ASSUME ObjectsAssumption, Locked, NEW t \in Threads, Build(t)
  PROVE  Locked'
<1>1. PICK f0 : f0 = Here(t)
  OBVIOUS
<1>2. /\ thread[t].stack # <<>> /\ f0.at = "build" /\ f0 \in CallRecord
      /\ f0.o \in AllObjects /\ object[f0.o] \in ObjectRecord
      /\ object[f0.o].lock = t /\ Fresh(f0.o)
  BY <1>1, AtPlace DEF Build, ObjectPlaces, Knows
<1>3. PICK f : f = [f0 EXCEPT !.at = "publish"]
  OBVIOUS
<1>4. f \in CallRecord /\ f.o = f0.o /\ f.at = "publish"
  BY <1>2, <1>3 DEF CallRecord, ObjectPlaces
<1>5. thread' = [thread EXCEPT ![t].stack[1] = f]
  BY <1>1, <1>3 DEF Build, Goto, Here
<1>6. PICK ob \in ObjectRecord :
        ob.lock = t /\ ob.made = 1 /\ object' = [object EXCEPT ![f0.o] = ob]
  <2>1. PICK whole \in BOOLEAN, flag \in BOOLEAN :
          object' = [object EXCEPT ![f0.o] =
                       [made |-> @.made + 1, whole |-> whole, flag |-> flag, lock |-> @.lock]]
    BY <1>1 DEF Build
  <2> DEFINE ob == [made |-> object[f0.o].made + 1, whole |-> whole, flag |-> flag,
                    lock |-> object[f0.o].lock]
  <2>2. object' = [object EXCEPT ![f0.o] = ob]
    BY <2>1
  <2>3. object[f0.o] \in ObjectRecord /\ object[f0.o].made = 0 /\ object[f0.o].lock = t
    BY <1>2 DEF Fresh
  <2>4. ob \in ObjectRecord /\ ob.made = 1 /\ ob.lock = t
    BY <2>3 DEF ObjectRecord
  <2> HIDE DEF ob
  <2>5. QED
    BY <2>2, <2>4
<1>7. object' = [object EXCEPT ![f.o] = ob]
  BY <1>4, <1>6
<1>8. object'[f.o] = ob
  BY <1>2, <1>4, <1>7 DEF Locked
<1>9. CallOK(t, f)'
  BY <1>2, <1>4, <1>6, <1>8 DEF CallOK, Knows, ObjectPlaces, AllObjects
<1>10. Done(f.o) => Done(f.o)'
  BY <1>2, <1>4 DEF Done, Fresh
<1>11. QED
  BY <1>1, <1>2, <1>4, <1>5, <1>6, <1>7, <1>9, <1>10, OwnersStep DEF ObjectsAssumption

LEMMA PublishLocked ==
  ASSUME ObjectsAssumption, Locked, NEW t \in Threads, Publish(t)
  PROVE  Locked'
<1>1. PICK f0 : f0 = Here(t)
  OBVIOUS
<1>2. /\ thread[t].stack # <<>> /\ f0.at = "publish" /\ f0 \in CallRecord
      /\ f0.o \in AllObjects /\ object[f0.o] \in ObjectRecord
      /\ object[f0.o].lock = t /\ object[f0.o].made = 1
  BY <1>1, AtPlace DEF Publish, ObjectPlaces, Knows
<1>3. PICK f : f = [f0 EXCEPT !.at = "unlock"]
  OBVIOUS
<1>4. f \in CallRecord /\ f.o = f0.o /\ f.at = "unlock"
  BY <1>2, <1>3 DEF CallRecord, ObjectPlaces
<1>5. thread' = [thread EXCEPT ![t].stack[1] = f]
  BY <1>1, <1>3 DEF Publish, Goto, Here
<1>6. PICK ob : ob = [object[f0.o] EXCEPT !.whole = TRUE, !.flag = TRUE]
  OBVIOUS
<1>7. ob \in ObjectRecord /\ ob.lock = t /\ ob.made = 1 /\ ob.whole /\ ob.flag
  BY <1>2, <1>6 DEF ObjectRecord
<1>8. object' = [object EXCEPT ![f.o] = ob]
  BY <1>1, <1>4, <1>6 DEF Publish
<1>9. object'[f.o] = ob
  BY <1>2, <1>4, <1>8 DEF Locked
<1>10. Done(f.o)'
  BY <1>7, <1>9 DEF Done
<1>11. CallOK(t, f)'
  BY <1>2, <1>4, <1>7, <1>9, <1>10 DEF CallOK, Knows, ObjectPlaces, AllObjects
<1>12. QED
  BY <1>1, <1>2, <1>4, <1>5, <1>7, <1>8, <1>10, <1>11, OwnersStep DEF ObjectsAssumption

LEMMA UnlockLocked ==
  ASSUME ObjectsAssumption, Locked, NEW t \in Threads, Unlock(t)
  PROVE  Locked'
<1>1. PICK f0 : f0 = Here(t)
  OBVIOUS
<1>2. /\ thread[t].stack # <<>> /\ f0.at = "unlock" /\ f0 \in CallRecord
      /\ f0.o \in AllObjects /\ object[f0.o] \in ObjectRecord
      /\ object[f0.o].lock = t /\ Done(f0.o)
  BY <1>1, AtPlace DEF Unlock, ObjectPlaces, Knows
<1>3. PICK f : f = [f0 EXCEPT !.at = "return"]
  OBVIOUS
<1>4. f \in CallRecord /\ f.o = f0.o /\ f.at = "return"
  BY <1>2, <1>3 DEF CallRecord, ObjectPlaces
<1>5. thread' = [thread EXCEPT ![t].stack[1] = f]
  BY <1>1, <1>3 DEF Unlock, Goto, Here
<1>6. PICK ob : ob = [object[f0.o] EXCEPT !.lock = Nobody]
  OBVIOUS
<1>7. ob \in ObjectRecord /\ ob.made = 1 /\ ob.whole /\ ob.flag
  BY <1>2, <1>6 DEF ObjectRecord, Done
<1>8. object' = [object EXCEPT ![f.o] = ob]
  BY <1>1, <1>4, <1>6 DEF Unlock
<1>9. object'[f.o] = ob
  BY <1>2, <1>4, <1>8 DEF Locked
<1>10. Done(f.o)'
  BY <1>7, <1>9 DEF Done
<1>11. CallOK(t, f)'
  BY <1>2, <1>4, <1>9, <1>10 DEF CallOK, Knows, ObjectPlaces, AllObjects
<1>12. QED
  BY <1>1, <1>2, <1>4, <1>5, <1>7, <1>8, <1>10, <1>11, OwnersStep DEF ObjectsAssumption

\* What is around a call
LEMMA TailOf ==
  ASSUME NEW s \in Seq(CallRecord), s # <<>>, Nested(s)
  PROVE  \/ Tail(s) = <<>>
         \/ /\ Len(s) = 2 /\ Tail(s) \in Seq(CallRecord) /\ DOMAIN Tail(s) = {1} /\ Len(Tail(s)) = 1
            /\ Tail(s)[1] = s[2]
<1>1. PICK n : n = Len(s)
  OBVIOUS
<1>2. n \in Nat \ {0}
  BY <1>1
<1>3. n <= 1 \/ n = 2
  BY <1>1 DEF Nested
<1>4. n = 1 \/ n = 2
  BY <1>2, <1>3
<1>5. PICK s2 : s2 = Tail(s)
  OBVIOUS
<1>6. CASE Len(s) = 1
  <2>1. s2 = <<>>
    BY <1>5, <1>6
  <2>2. QED
    BY <1>5, <2>1
<1>7. CASE Len(s) = 2
  <2>1. s2 \in Seq(CallRecord) /\ DOMAIN s2 = {1} /\ Len(s2) = 1 /\ s2[1] = s[2]
    <3>1. s2 \in Seq(CallRecord) /\ Len(s2) = 1
      BY <1>5, <1>7
    <3>2. s2[1] = s[2]
      <4>1. s \in Seq(CallRecord)
        OBVIOUS
      <4>2. \A k \in 1 .. Len(s) - 1 : Tail(s)[k] = s[k + 1]
        BY <4>1
      <4>3. 1 \in 1 .. Len(s) - 1
        BY <1>7
      <4>4. QED
        BY <1>5, <4>2, <4>3
    <3>3. DOMAIN s2 = 1 .. 1
      BY <3>1
    <3>4. QED
      BY <3>1, <3>2, <3>3
  <2>2. QED
    BY <1>5, <1>7, <2>1
<1>8. QED
  BY <1>1, <1>4, <1>6, <1>7

\* A call that is over leaves the call around it, if there is one.
LEMMA TailLocked ==
  ASSUME Locked, NEW t \in Threads, thread[t].stack # <<>>, object' = object,
         Here(t).at # "publish", NEW misled \in {FALSE},
         thread' = [thread EXCEPT ![t].stack = Tail(@), ![t].misled = misled]
  PROVE  Locked'
<1>1. PICK s : s = thread[t].stack
  OBVIOUS
<1>2. PICK s2 : s2 = Tail(s)
  OBVIOUS
<1>3. s \in Seq(CallRecord) /\ s # <<>> /\ Nested(s)
  BY <1>1, TopCall
<1>4. \/ s2 = <<>>
      \/ Len(s) = 2 /\ s2 \in Seq(CallRecord) /\ DOMAIN s2 = {1} /\ Len(s2) = 1 /\ s2[1] = s[2]
  BY <1>2, <1>3, TailOf
<1>5. s2 \in Seq(CallRecord) /\ Nested(s2)
  <2>1. s2 \in Seq(CallRecord) /\ Len(s2) <= 1
    <3>1. CASE s2 = <<>>
      BY <3>1
    <3>2. CASE s2 # <<>>
      <4>1. Len(s2) = 1 /\ s2 \in Seq(CallRecord)
        BY <1>4, <3>2, Zenon
      <4>2. QED
        BY <4>1
    <3>3. QED
      BY <3>1, <3>2
  <2>2. QED
    BY <2>1 DEF Nested
<1>6. /\ DOMAIN thread' = Threads /\ \A u \in Threads \ {t} : thread'[u] = thread[u]
      /\ thread'[t] = [thread[t] EXCEPT !.stack = s2, !.misled = misled]
  BY <1>1, <1>2 DEF Locked
<1>7. thread[t] \in [stack : Seq(CallRecord), calls : 0 .. MaxCalls, misled : {FALSE}]
  BY DEF Locked, ThreadOK
<1>8. thread'[t] \in [stack : Seq(CallRecord), calls : 0 .. MaxCalls, misled : {FALSE}]
        /\ thread'[t].stack = s2
  BY <1>5, <1>6, <1>7
<1>9. ASSUME NEW k \in DOMAIN s2 PROVE CallOK(t, s2[k])'
  <2>1. k = 1 /\ Len(s) = 2 /\ s2[k] = s[2]
    BY <1>4
  <2>2. PICK g : g = s[2]
    OBVIOUS
  <2>3. CallOK(t, g)
    <3>1. \A i \in DOMAIN s : CallOK(t, s[i])
      BY <1>1 DEF Locked, ThreadOK
    <3>2. 2 \in DOMAIN s
      BY <1>3, <2>1
    <3>3. QED
      BY <2>2, <3>1, <3>2
  <2>4. CallOK(t, g)'
    BY <2>3, KnowsKept
  <2>5. QED
    BY <2>1, <2>2, <2>4 DEF CallOK
<1>10. ThreadOK(t)'
  BY <1>5, <1>8, <1>9 DEF ThreadOK
<1>11. QED
  BY <1>6, <1>10, KeepObjects

LEMMA ReturnLocked ==
  ASSUME Locked, NEW t \in Threads, Return(t)
  PROVE  Locked'
<1>1. PICK f0 : f0 = Here(t)
  OBVIOUS
<1>2. /\ thread[t].stack # <<>> /\ f0.at = "return" /\ f0.o \in AllObjects
      /\ f0.how = "lock" => Done(f0.o)
  BY <1>1, AtPlace DEF Return, ObjectPlaces, Knows
<1>3. thread[t].misled = FALSE
  BY <1>2, TopCall
<1>4. (thread[t].misled \/ (Here(t).how = "lock" /\ ~object[Here(t).o].whole)) = FALSE
  BY <1>1, <1>2, <1>3 DEF Done
<1>5. thread' = [thread EXCEPT ![t].stack = Tail(@), ![t].misled = FALSE]
  BY <1>4 DEF Return
<1>6. QED
  BY <1>1, <1>2, <1>5, TailLocked DEF Return

\* The generators' actions leave the objects alone.
LEMMA RandomLocked ==
  ASSUME Locked, NEW t \in Threads, RandomType,
         NewGenerator(t) \/ Fill(t) \/ Fodder(t) \/ SetKey(t)
  PROVE  Locked'
<1>1. PICK f0 : f0 = Here(t)
  OBVIOUS
<1>2. /\ thread[t].stack # <<>> /\ f0.at \in RandomPlaces /\ f0 \in CallRecord /\ f0.o = "rng"
      /\ f0.at # "publish"
  <2>1. PICK p \in RandomPlaces : At(t, p)
    BY DEF NewGenerator, Fill, Fodder, SetKey, RandomPlaces
  <2>2. QED
    BY <1>1, <2>1, AtPlace DEF RandomPlaces
<1>3. object' = object
  BY DEF NewGenerator, Fill, Fodder, SetKey
<1>4. CASE SetKey(t)
  <2>1. thread[t].misled = FALSE
    BY <1>2, TopCall
  <2>2. PICK s : s = Tail(thread[t].stack)
    OBVIOUS
  <2>3. thread' = [thread EXCEPT ![t].stack = s]
    BY <1>4, <2>2 DEF SetKey
  <2>4. thread' = [thread EXCEPT ![t].stack = Tail(@), ![t].misled = FALSE]
    <3>1. t \in DOMAIN thread
            /\ thread[t] \in [stack : Seq(CallRecord), calls : 0 .. MaxCalls, misled : {FALSE}]
      BY DEF Locked, ThreadOK
    <3>2. [thread[t] EXCEPT !.stack = s] = [thread[t] EXCEPT !.stack = s, !.misled = FALSE]
      BY <2>1, <3>1
    <3>3. QED
      BY <2>2, <2>3, <3>1, <3>2
  <2>5. QED
    BY <1>1, <1>2, <1>3, <2>4, TailLocked
<1>5. CASE NewGenerator(t) \/ Fodder(t) \/ Fill(t)
  <2>1. PICK f \in CallRecord :
          f.o = "rng" /\ f.at \in RandomPlaces /\ thread' = [thread EXCEPT ![t].stack[1] = f]
    <3>1. CASE NewGenerator(t) \/ Fodder(t)
      <4>1. PICK at \in RandomPlaces : thread' = [thread EXCEPT ![t].stack[1].at = at]
        BY <3>1 DEF NewGenerator, Fodder, Goto, RandomPlaces
      <4>2. PICK f : f = [f0 EXCEPT !.at = at]
        OBVIOUS
      <4>3. f \in CallRecord /\ f.o = "rng" /\ f.at = at
        BY <1>2, <4>2 DEF CallRecord
      <4>4. thread' = [thread EXCEPT ![t].stack[1] = f]
        BY <1>1, <4>1, <4>2 DEF Here
      <4>5. QED
        BY <4>3, <4>4
    <3>2. CASE Fill(t)
      <4>1. PICK f : f = [f0 EXCEPT !.at = "reseed", !.gen = rng.current]
        OBVIOUS
      <4>2. f \in CallRecord /\ f.o = "rng" /\ f.at = "reseed"
        BY <1>2, <4>1 DEF CallRecord, RandomType, RandomPlaces
      <4>3. thread' = [thread EXCEPT ![t].stack[1] = f]
        BY <1>1, <3>2, <4>1 DEF Here, Fill
      <4>4. QED
        BY <4>2, <4>3 DEF RandomPlaces
    <3>3. QED
      BY <1>5, <3>1, <3>2
  <2>2. CallOK(t, f)'
    BY <2>1 DEF CallOK
  <2>3. ThreadOK(t)' /\ DOMAIN thread' = Threads /\ \A u \in Threads \ {t} : thread'[u] = thread[u]
    BY <1>1, <1>2, <1>3, <2>1, <2>2, MovesOn
  <2>4. QED
    BY <1>1, <1>2, <1>3, <2>3, KeepObjects
<1>6. QED
  BY <1>4, <1>5

LEMMA NextLocked ==
  ASSUME ObjectsAssumption, Locked, RandomType, [Next]_vars
  PROVE  Locked'
<1>1. CASE \E t \in Threads : Call(t) \/ Proceed(t)
  <2>1. PICK t \in Threads : Call(t) \/ Proceed(t)
    BY <1>1
  <2>2. CASE Call(t)
    BY <2>2, CallLocked
  <2>3. CASE Proceed(t)
    BY <2>3, TestLocked, LockLocked, RetestLocked, BuildLocked, PublishLocked, UnlockLocked,
       ReturnLocked, RandomLocked DEF Proceed
  <2>4. QED
    BY <2>1, <2>2, <2>3
<1>2. CASE UNCHANGED vars
  <2>1. thread' = thread /\ object' = object
    BY <1>2 DEF vars
  <2>2. ASSUME NEW t \in Threads PROVE ThreadOK(t)'
    BY <2>1, ThreadKept
  <2>3. ASSUME NEW o \in AllObjects PROVE ObjectOK(o)'
    <3>1. ObjectOK(o)
      BY DEF Locked
    <3>2. QED
      BY <2>1, <3>1 DEF ObjectOK, Publishing, Fresh, Done
  <2>4. QED
    BY <2>1, <2>2, <2>3 DEF Locked
<1>3. QED
  BY <1>1, <1>2 DEF Next, Finished

LEMMA InitLocked ==
  ASSUME ObjectsAssumption, Init
  PROVE  Locked
<1>1. /\ DOMAIN thread = Threads
      /\ \A t \in Threads : thread[t] = [stack |-> <<>>, calls |-> 0, misled |-> FALSE]
  BY DEF Init
<1>2. /\ DOMAIN object = AllObjects
      /\ \A o \in AllObjects :
           object[o] = [flag |-> FALSE, whole |-> FALSE, made |-> 0, lock |-> Nobody]
  BY DEF Init
<1>3. ASSUME NEW t \in Threads PROVE ThreadOK(t)
  <2>1. thread[t].stack = <<>>
    BY <1>1
  <2>2. thread[t] \in [stack : Seq(CallRecord), calls : 0 .. MaxCalls, misled : {FALSE}]
    <3>1. <<>> \in Seq(CallRecord) /\ 0 \in 0 .. MaxCalls
      BY DEF ObjectsAssumption
    <3>2. thread[t] = [stack |-> <<>>, calls |-> 0, misled |-> FALSE]
      BY <1>1
    <3>3. [stack |-> <<>>, calls |-> 0, misled |-> FALSE]
            \in [stack : Seq(CallRecord), calls : 0 .. MaxCalls, misled : {FALSE}]
      BY <3>1
    <3>4. QED
      BY <3>2, <3>3
  <2>3. DOMAIN thread[t].stack = {} /\ Len(thread[t].stack) <= 1
    BY <2>1
  <2>4. QED
    BY <2>2, <2>3 DEF ThreadOK, Nested
<1>4. ASSUME NEW o \in AllObjects PROVE ObjectOK(o)
  <2>1. object[o] = [flag |-> FALSE, whole |-> FALSE, made |-> 0, lock |-> Nobody]
    BY <1>2
  <2>2. Fresh(o)
    BY <2>1 DEF Fresh
  <2>3. object[o] \in ObjectRecord
    BY <2>1 DEF ObjectRecord
  <2>4. QED
    BY <2>2, <2>3 DEF ObjectOK, ObjectRecord
<1>5. QED
  BY <1>1, <1>2, <1>3, <1>4 DEF Locked

-----------------------------------------------------------------------------
(* The random number generator *)

LEMMA OthersRandom ==
  ASSUME Locked, RandomType, NEW t \in Threads,
         \A u \in Threads \ {t} : thread'[u] = thread[u],
         rng' \in [gens : Seq([key : Nat, ctr : Nat]), current : Nat, keys : Nat,
                   given : Seq(Block), asked : BOOLEAN],
         rng'.current <= Len(rng'.gens),
         rng.current # 0 => rng'.current # 0,
         \/ thread'[t].stack = <<>>
         \/ thread'[t].stack[1].at \notin {"fill", "reseed", "setkey"}
         \/ rng'.current # 0
  PROVE  RandomType'
<1>1. ASSUME NEW u \in Threads, thread'[u].stack # <<>>,
             thread'[u].stack[1].at \in {"fill", "reseed", "setkey"}
      PROVE  rng'.current # 0
  <2>1. CASE u = t
    BY <1>1, <2>1
  <2>2. CASE u # t
    BY <1>1, <2>2 DEF RandomType
  <2>3. QED
    BY <2>1, <2>2
<1>2. QED
  BY <1>1 DEF RandomType

RngRecord == [gens : Seq([key : Nat, ctr : Nat]), current : Nat, keys : Nat,
         given : Seq(Block), asked : BOOLEAN]

LEMMA FromFields ==
  ASSUME NEW r, NEW gens \in Seq([key : Nat, ctr : Nat]), NEW current \in Nat, NEW keys \in Nat,
         NEW given \in Seq(Block), NEW asked \in BOOLEAN,
         r = [gens |-> gens, current |-> current, keys |-> keys, given |-> given, asked |-> asked]
  PROVE  r \in RngRecord
  BY DEF RngRecord

LEMMA Fields ==
  ASSUME RandomType
  PROVE  /\ rng = [gens |-> rng.gens, current |-> rng.current, keys |-> rng.keys,
                   given |-> rng.given, asked |-> rng.asked]
         /\ rng.gens \in Seq([key : Nat, ctr : Nat]) /\ rng.current \in Nat /\ rng.keys \in Nat
         /\ rng.given \in Seq(Block) /\ rng.asked \in BOOLEAN
  BY DEF RandomType

\* What the generators' actions do to the generators
LEMMA NewGeneratorFields ==
  ASSUME RandomType, NEW t \in Threads, NewGenerator(t)
  PROVE  /\ rng'.gens = Append(rng.gens, [key |-> rng.keys + 1, ctr |-> 1])
         /\ rng'.current = Len(rng.gens) + 1
         /\ rng'.keys = rng.keys + 1 /\ rng'.given = rng.given /\ rng'.asked = rng.asked
         /\ rng' = [gens |-> rng'.gens, current |-> rng'.current, keys |-> rng'.keys,
                    given |-> rng'.given, asked |-> rng'.asked]
<1>1. DOMAIN rng = {"gens", "current", "keys", "given", "asked"}
  BY DEF RandomType
<1>2. rng' = [rng EXCEPT !.gens = Append(@, [key |-> rng.keys + 1, ctr |-> 1]),
                         !.current = Len(rng.gens) + 1, !.keys = @ + 1]
  BY DEF NewGenerator
<1>3. QED
  BY <1>1, <1>2

LEMMA SetKeyFields ==
  ASSUME RandomType, NEW t \in Threads, SetKey(t)
  PROVE  /\ rng'.gens = [rng.gens EXCEPT ![rng.current] = [key |-> rng.keys + 1, ctr |-> 1]]
         /\ rng'.current = rng.current
         /\ rng'.keys = rng.keys + 1 /\ rng'.given = rng.given /\ rng'.asked = rng.asked
         /\ rng' = [gens |-> rng'.gens, current |-> rng'.current, keys |-> rng'.keys,
                    given |-> rng'.given, asked |-> rng'.asked]
<1>1. DOMAIN rng = {"gens", "current", "keys", "given", "asked"}
  BY DEF RandomType
<1>2. rng' = [rng EXCEPT !.gens[rng.current] = [key |-> rng.keys + 1, ctr |-> 1], !.keys = @ + 1]
  BY DEF SetKey
<1>3. QED
  BY <1>1, <1>2

LEMMA FodderFields ==
  ASSUME RandomType, NEW t \in Threads, Fodder(t)
  PROVE  /\ rng'.gens = [rng.gens EXCEPT ![rng.current].ctr = @ + FodderBlocks]
         /\ rng'.current = rng.current
         /\ rng'.keys = rng.keys /\ rng'.given = rng.given /\ rng'.asked = rng.asked
         /\ rng' = [gens |-> rng'.gens, current |-> rng'.current, keys |-> rng'.keys,
                    given |-> rng'.given, asked |-> rng'.asked]
<1>1. DOMAIN rng = {"gens", "current", "keys", "given", "asked"}
  BY DEF RandomType
<1>2. rng' = [rng EXCEPT !.gens[rng.current].ctr = @ + FodderBlocks]
  BY DEF Fodder
<1>3. QED
  BY <1>1, <1>2

LEMMA FillFields ==
  ASSUME RandomType, NEW t \in Threads, Fill(t)
  PROVE  LET g == rng.current
             gen == rng.gens[g]
             len == Here(t).len
         IN  /\ rng'.gens = [rng.gens EXCEPT ![g].ctr = CounterAfter(@, len)]
             /\ rng'.given = Append(rng.given, [g |-> g, key |-> gen.key, ctr |-> gen.ctr, len |-> len])
             /\ rng'.current = rng.current /\ rng'.keys = rng.keys /\ rng'.asked = rng.asked
             /\ rng' = [gens |-> rng'.gens, current |-> rng'.current, keys |-> rng'.keys,
                        given |-> rng'.given, asked |-> rng'.asked]
<1>1. DOMAIN rng = {"gens", "current", "keys", "given", "asked"}
  BY DEF RandomType
<1>2. rng' = [rng EXCEPT !.gens[rng.current].ctr = CounterAfter(@, Here(t).len),
                         !.given = Append(@, [g |-> rng.current, key |-> rng.gens[rng.current].key,
                                              ctr |-> rng.gens[rng.current].ctr, len |-> Here(t).len])]
  BY DEF Fill
<1>3. QED
  BY <1>1, <1>2

LEMMA Element ==
  ASSUME NEW T, NEW seq \in Seq(T), NEW i \in DOMAIN seq
  PROVE  seq[i] \in T
  OBVIOUS

\* Every generator's key and counter only move on.
MovingOn ==
  /\ rng' \in RngRecord
  /\ \A g \in DOMAIN rng.gens :
       /\ g \in DOMAIN rng'.gens
       /\ \/ rng'.gens[g].key > rng.keys
          \/ rng'.gens[g].key = rng.gens[g].key /\ rng'.gens[g].ctr >= rng.gens[g].ctr
  /\ \A g \in DOMAIN rng'.gens : rng'.gens[g].key <= rng'.keys

\* So what was given lies behind them as before.
LEMMA StillBehind ==
  ASSUME Behind, MovingOn, NEW i \in DOMAIN rng.given
  PROVE  LET b == rng.given[i]
         IN  /\ b.g \in DOMAIN rng'.gens
             /\ b.key <= rng'.gens[b.g].key
             /\ b.key = rng'.gens[b.g].key =>
                  b.ctr <= rng'.gens[b.g].ctr /\ (b.len = "block" => b.ctr < rng'.gens[b.g].ctr)
<1>1. PICK b : b = rng.given[i]
  OBVIOUS
<1>2. /\ b.g \in DOMAIN rng.gens
      /\ b.key <= rng.gens[b.g].key
      /\ b.key = rng.gens[b.g].key =>
           b.ctr <= rng.gens[b.g].ctr /\ (b.len = "block" => b.ctr < rng.gens[b.g].ctr)
      /\ rng.gens[b.g].key <= rng.keys
  BY <1>1 DEF Behind, Spent
<1>3. b \in Block /\ rng.keys \in Nat /\ rng.gens[b.g] \in [key : Nat, ctr : Nat]
  <2>1. rng.given \in Seq(Block) /\ rng.keys \in Nat /\ rng.gens \in Seq([key : Nat, ctr : Nat])
    BY Fields DEF Behind
  <2>2. b \in Block
    BY <1>1, <2>1, Element
  <2>3. rng.gens[b.g] \in [key : Nat, ctr : Nat]
    BY <1>2, <2>1, Element
  <2>4. QED
    BY <2>1, <2>2, <2>3
<1>4. b.key \in Nat /\ b.ctr \in Nat /\ rng.gens[b.g].key \in Nat /\ rng.gens[b.g].ctr \in Nat
  BY <1>3 DEF Block
<1>5. b.g \in DOMAIN rng'.gens
  BY <1>2 DEF MovingOn
<1>6. PICK gen : gen = rng'.gens[b.g]
  OBVIOUS
<1>7. gen \in [key : Nat, ctr : Nat]
  <2>1. rng'.gens \in Seq([key : Nat, ctr : Nat])
    BY DEF MovingOn, RngRecord
  <2>2. b.g \in DOMAIN rng'.gens
    BY <1>5
  <2>3. QED
    BY <1>6, <2>1, <2>2, Element
<1>8. \/ gen.key > rng.keys
      \/ gen.key = rng.gens[b.g].key /\ gen.ctr >= rng.gens[b.g].ctr
  BY <1>2, <1>6 DEF MovingOn
<1>9. CASE gen.key > rng.keys
  <2>1. b.key < gen.key
    BY <1>2, <1>3, <1>4, <1>7, <1>9
  <2>2. QED
    BY <1>1, <1>2, <1>4, <1>6, <1>7, <1>5, <2>1
<1>10. CASE gen.key = rng.gens[b.g].key /\ gen.ctr >= rng.gens[b.g].ctr
  <2>1. /\ b.key <= gen.key
        /\ b.key = gen.key => b.ctr <= gen.ctr /\ (b.len = "block" => b.ctr < gen.ctr)
    BY <1>2, <1>4, <1>7, <1>10
  <2>2. QED
    BY <1>1, <1>2, <1>6, <1>5, <2>1
<1>11. QED
  BY <1>8, <1>9, <1>10

LEMMA Advances ==
  ASSUME Behind, MovingOn, rng'.given = rng.given
  PROVE  Spent' /\ WholeBlocksDiffer'
<1>1. WholeBlocksDiffer'
  BY DEF Behind, WholeBlocksDiffer
<1>2. \A g \in DOMAIN rng'.gens : rng'.gens[g].key <= rng'.keys
  BY DEF MovingOn
<1>3. QED
  BY <1>1, <1>2, StillBehind DEF Spent

LEMMA KeysBelow ==
  ASSUME Behind, NEW g \in DOMAIN rng.gens
  PROVE  /\ rng.gens[g] \in [key : Nat, ctr : Nat]
         /\ rng.gens[g].key \in Nat /\ rng.gens[g].ctr \in Nat /\ rng.gens[g].key <= rng.keys
<1>1. rng.gens \in Seq([key : Nat, ctr : Nat])
  BY Fields DEF Behind
<1>2. rng.gens[g] \in [key : Nat, ctr : Nat]
  BY <1>1, Element
<1>3. QED
  BY <1>2 DEF Behind, Spent

LEMMA StackOf ==
  ASSUME Locked, NEW t \in Threads, NEW p, At(t, p)
  PROVE  1 \in DOMAIN thread[t].stack /\ thread[t].stack[1].at = p /\ t \in DOMAIN thread
  BY TopCall DEF At, Locked

\* What the other threads' calls are doing, and this one's: RandomType, where the
\* step leaves the current generator, or makes one.
LEMMA ThreadsElsewhere ==
  ASSUME Locked, NEW t \in Threads, Call(t) \/ Proceed(t)
  PROVE  \A u \in Threads \ {t} : thread'[u] = thread[u]
<1>1. DOMAIN thread = Threads
  BY DEF Locked
<1>2. PICK th : thread' = [thread EXCEPT ![t] = th]
  BY DEF Call, CallObject, CallRandom, Proceed, Test, Lock, Retest, Build, Publish, Unlock,
     Return, NewGenerator, Fill, Fodder, SetKey, Goto
<1>3. QED
  BY <1>1, <1>2

LEMMA NewGeneratorBehind ==
  ASSUME ObjectsAssumption, Locked, Behind, NEW t \in Threads, NewGenerator(t)
  PROVE  Behind'
<1>1. PICK gens : gens = rng.gens
  OBVIOUS
<1>2. PICK keys : keys = rng.keys
  OBVIOUS
<1>3. PICK new : new = [key |-> keys + 1, ctr |-> 1]
  OBVIOUS
<1>4. gens \in Seq([key : Nat, ctr : Nat]) /\ keys \in Nat
  BY <1>1, <1>2, Fields DEF Behind
<1>5. new \in [key : Nat, ctr : Nat] /\ new.key = keys + 1
  BY <1>3, <1>4
<1>6. /\ rng'.gens = Append(gens, new) /\ rng'.current = Len(gens) + 1
      /\ rng'.keys = keys + 1 /\ rng'.given = rng.given /\ rng'.asked = rng.asked
      /\ rng' = [gens |-> rng'.gens, current |-> rng'.current, keys |-> rng'.keys,
                 given |-> rng'.given, asked |-> rng'.asked]
  BY <1>1, <1>2, <1>3, NewGeneratorFields DEF Behind
<1>7. /\ rng'.gens \in Seq([key : Nat, ctr : Nat])
      /\ Len(rng'.gens) = Len(gens) + 1 /\ DOMAIN rng'.gens = 1 .. (Len(gens) + 1)
      /\ \A g \in DOMAIN gens : g \in DOMAIN rng'.gens /\ rng'.gens[g] = gens[g]
      /\ rng'.gens[Len(gens) + 1] = new
      /\ Len(gens) + 1 \in Nat \ {0} /\ keys + 1 \in Nat
  BY <1>4, <1>5, <1>6
<1>8. rng' \in RngRecord
  BY <1>6, <1>7, Fields, FromFields DEF Behind
<1>9. \A g \in DOMAIN gens : gens[g].key \in Nat /\ gens[g].ctr \in Nat /\ gens[g].key <= keys
  BY <1>1, <1>2, KeysBelow
<1>10. ASSUME NEW g \in DOMAIN rng'.gens PROVE rng'.gens[g].key <= rng'.keys
  <2>1. CASE g \in DOMAIN gens
    BY <1>4, <1>6, <1>7, <1>9, <2>1
  <2>2. CASE g \notin DOMAIN gens
    <3>1. g = Len(gens) + 1
      BY <1>4, <1>7, <2>2
    <3>2. QED
      BY <1>4, <1>5, <1>6, <1>7, <3>1
  <2>3. QED
    BY <2>1, <2>2
<1>11. ASSUME NEW g \in DOMAIN rng.gens
       PROVE  /\ g \in DOMAIN rng'.gens
              /\ rng'.gens[g].key = rng.gens[g].key /\ rng'.gens[g].ctr >= rng.gens[g].ctr
  BY <1>1, <1>7, <1>9
<1>12. Spent' /\ WholeBlocksDiffer'
  BY <1>6, <1>8, <1>10, <1>11, Advances DEF MovingOn
<1>13. \A u \in Threads \ {t} : thread'[u] = thread[u]
  BY ThreadsElsewhere DEF Proceed
<1>14. RandomType'
  BY <1>6, <1>7, <1>8, <1>13, OthersRandom DEF Behind, RngRecord
<1>15. QED
  BY <1>12, <1>14 DEF Behind

\* The generator that is in use
LEMMA CurrentOne ==
  ASSUME Behind, Locked, NEW t \in Threads, NEW p \in {"fill", "reseed", "setkey"}, At(t, p)
  PROVE  /\ rng.current \in DOMAIN rng.gens
         /\ rng.gens[rng.current] \in [key : Nat, ctr : Nat]
<1>1. rng.current # 0
  BY DEF Behind, RandomType, At
<1>2. rng.current \in Nat /\ rng.current <= Len(rng.gens) /\ rng.gens \in Seq([key : Nat, ctr : Nat])
  BY Fields DEF Behind, RandomType
<1>3. rng.current \in DOMAIN rng.gens
  BY <1>1, <1>2
<1>4. QED
  BY <1>2, <1>3, Element

LEMMA SetKeyBehind ==
  ASSUME ObjectsAssumption, Locked, Behind, NEW t \in Threads, SetKey(t)
  PROVE  Behind'
<1>1. PICK gens : gens = rng.gens
  OBVIOUS
<1>2. PICK keys : keys = rng.keys
  OBVIOUS
<1>3. PICK new : new = [key |-> keys + 1, ctr |-> 1]
  OBVIOUS
<1>4. PICK c : c = rng.current
  OBVIOUS
<1>5. gens \in Seq([key : Nat, ctr : Nat]) /\ keys \in Nat /\ c \in DOMAIN gens
  BY <1>1, <1>2, <1>4, Fields, CurrentOne DEF Behind, SetKey
<1>6. new \in [key : Nat, ctr : Nat] /\ new.key = keys + 1
  BY <1>3, <1>5
<1>7. /\ rng'.gens = [gens EXCEPT ![c] = new] /\ rng'.current = c
      /\ rng'.keys = keys + 1 /\ rng'.given = rng.given /\ rng'.asked = rng.asked
      /\ rng' = [gens |-> rng'.gens, current |-> rng'.current, keys |-> rng'.keys,
                 given |-> rng'.given, asked |-> rng'.asked]
  BY <1>1, <1>2, <1>3, <1>4, SetKeyFields DEF Behind
<1>8. /\ rng'.gens \in Seq([key : Nat, ctr : Nat])
      /\ Len(rng'.gens) = Len(gens) /\ DOMAIN rng'.gens = DOMAIN gens
      /\ \A g \in DOMAIN gens : g # c => rng'.gens[g] = gens[g]
      /\ rng'.gens[c] = new /\ keys + 1 \in Nat
  BY <1>5, <1>6, <1>7
<1>9. rng' \in RngRecord
  BY <1>4, <1>7, <1>8, Fields, FromFields DEF Behind
<1>10. \A g \in DOMAIN gens : gens[g].key \in Nat /\ gens[g].ctr \in Nat /\ gens[g].key <= keys
  BY <1>1, <1>2, KeysBelow
<1>11. ASSUME NEW g \in DOMAIN gens
       PROVE  /\ rng'.gens[g].key <= rng'.keys
              /\ \/ rng'.gens[g].key > keys
                 \/ rng'.gens[g].key = gens[g].key /\ rng'.gens[g].ctr >= gens[g].ctr
  <2>1. CASE g = c
    BY <1>5, <1>6, <1>7, <1>8, <2>1
  <2>2. CASE g # c
    BY <1>5, <1>7, <1>8, <1>10, <2>2
  <2>3. QED
    BY <2>1, <2>2
<1>12. Spent' /\ WholeBlocksDiffer'
  BY <1>1, <1>2, <1>7, <1>8, <1>9, <1>11, Advances DEF MovingOn
<1>13. \A u \in Threads \ {t} : thread'[u] = thread[u]
  BY ThreadsElsewhere DEF Proceed
<1>14. c # 0 /\ c <= Len(rng'.gens)
  BY <1>5, <1>8
<1>15. RandomType'
  BY <1>4, <1>7, <1>9, <1>13, <1>14, OthersRandom DEF Behind, RngRecord
<1>16. QED
  BY <1>12, <1>15 DEF Behind

LEMMA FodderBehind ==
  ASSUME ObjectsAssumption, Locked, Behind, NEW t \in Threads, Fodder(t)
  PROVE  Behind'
<1>1. PICK gens : gens = rng.gens
  OBVIOUS
<1>2. PICK keys : keys = rng.keys
  OBVIOUS
<1>3. PICK c : c = rng.current
  OBVIOUS
<1>4. gens \in Seq([key : Nat, ctr : Nat]) /\ keys \in Nat /\ c \in DOMAIN gens
        /\ gens[c] \in [key : Nat, ctr : Nat]
  BY <1>1, <1>2, <1>3, Fields, CurrentOne DEF Behind, Fodder
<1>5. PICK ctr : ctr = gens[c].ctr + FodderBlocks
  OBVIOUS
<1>6. PICK new : new = [gens[c] EXCEPT !.ctr = ctr]
  OBVIOUS
<1>7. /\ new \in [key : Nat, ctr : Nat]
      /\ new.key = gens[c].key /\ new.ctr = ctr /\ ctr \in Nat /\ ctr >= gens[c].ctr
  <2>1. ctr \in Nat /\ ctr >= gens[c].ctr
    BY <1>4, <1>5 DEF FodderBlocks
  <2>2. QED
    BY <1>4, <1>6, <2>1
<1>8. /\ rng'.gens = [gens EXCEPT ![c] = new] /\ rng'.current = c
      /\ rng'.keys = keys /\ rng'.given = rng.given /\ rng'.asked = rng.asked
      /\ rng' = [gens |-> rng'.gens, current |-> rng'.current, keys |-> rng'.keys,
                 given |-> rng'.given, asked |-> rng'.asked]
  BY <1>1, <1>2, <1>3, <1>5, <1>6, FodderFields DEF Behind
<1>9. /\ rng'.gens \in Seq([key : Nat, ctr : Nat])
      /\ Len(rng'.gens) = Len(gens) /\ DOMAIN rng'.gens = DOMAIN gens
      /\ \A g \in DOMAIN gens : g # c => rng'.gens[g] = gens[g]
      /\ rng'.gens[c] = new
  BY <1>4, <1>7, <1>8
<1>10. rng' \in RngRecord
  BY <1>2, <1>3, <1>8, <1>9, Fields, FromFields DEF Behind
<1>11. \A g \in DOMAIN gens : gens[g].key \in Nat /\ gens[g].ctr \in Nat /\ gens[g].key <= keys
  BY <1>1, <1>2, KeysBelow
<1>12. ASSUME NEW g \in DOMAIN gens
       PROVE  /\ rng'.gens[g].key <= rng'.keys
              /\ rng'.gens[g].key = gens[g].key /\ rng'.gens[g].ctr >= gens[g].ctr
  <2>1. CASE g = c
    BY <1>4, <1>7, <1>8, <1>9, <1>11, <2>1
  <2>2. CASE g # c
    BY <1>4, <1>8, <1>9, <1>11, <2>2
  <2>3. QED
    BY <2>1, <2>2
<1>13. Spent' /\ WholeBlocksDiffer'
  BY <1>1, <1>2, <1>8, <1>9, <1>10, <1>12, Advances DEF MovingOn
<1>14. \A u \in Threads \ {t} : thread'[u] = thread[u]
  BY ThreadsElsewhere DEF Proceed
<1>15. c # 0 /\ c <= Len(rng'.gens)
  BY <1>4, <1>9
<1>16. RandomType'
  BY <1>3, <1>8, <1>10, <1>14, <1>15, OthersRandom DEF Behind, RngRecord
<1>17. QED
  BY <1>13, <1>16 DEF Behind

LEMMA FillBehind ==
  ASSUME ObjectsAssumption, Locked, Behind, NEW t \in Threads, Fill(t)
  PROVE  Behind'
<1>1. PICK gens : gens = rng.gens
  OBVIOUS
<1>2. PICK keys : keys = rng.keys
  OBVIOUS
<1>3. PICK c : c = rng.current
  OBVIOUS
<1>4. PICK len : len = Here(t).len
  OBVIOUS
<1>5. /\ gens \in Seq([key : Nat, ctr : Nat]) /\ keys \in Nat /\ c \in DOMAIN gens
      /\ gens[c] \in [key : Nat, ctr : Nat] /\ len \in {"none", "block", "part"}
  <2>1. Here(t) \in CallRecord
    BY AtPlace DEF Fill
  <2>2. QED
    BY <1>1, <1>2, <1>3, <1>4, <2>1, Fields, CurrentOne DEF Behind, Fill, CallRecord
<1>6. PICK ctr : ctr = CounterAfter(gens[c].ctr, len)
  OBVIOUS
<1>7. PICK new : new = [gens[c] EXCEPT !.ctr = ctr]
  OBVIOUS
<1>8. /\ new \in [key : Nat, ctr : Nat]
      /\ new.key = gens[c].key /\ new.ctr = ctr /\ ctr \in Nat /\ ctr >= gens[c].ctr
      /\ len = "block" => gens[c].ctr < ctr
  <2>1. ctr \in Nat /\ ctr >= gens[c].ctr /\ (len = "block" => gens[c].ctr < ctr)
    BY <1>5, <1>6 DEF CounterAfter
  <2>2. QED
    BY <1>5, <1>7, <2>1
<1>9. PICK b : b = [g |-> c, key |-> gens[c].key, ctr |-> gens[c].ctr, len |-> len]
  OBVIOUS
<1>10. b \in Block /\ b.g = c /\ b.key = gens[c].key /\ b.ctr = gens[c].ctr /\ b.len = len
  BY <1>5, <1>9 DEF Block
<1>11. /\ rng'.gens = [gens EXCEPT ![c] = new] /\ rng'.current = c
       /\ rng'.keys = keys /\ rng'.given = Append(rng.given, b) /\ rng'.asked = rng.asked
       /\ rng' = [gens |-> rng'.gens, current |-> rng'.current, keys |-> rng'.keys,
                  given |-> rng'.given, asked |-> rng'.asked]
  BY <1>1, <1>2, <1>3, <1>4, <1>6, <1>7, <1>9, FillFields DEF Behind
<1>12. /\ rng'.gens \in Seq([key : Nat, ctr : Nat])
       /\ Len(rng'.gens) = Len(gens) /\ DOMAIN rng'.gens = DOMAIN gens
       /\ \A g \in DOMAIN gens : g # c => rng'.gens[g] = gens[g]
       /\ rng'.gens[c] = new
  BY <1>5, <1>8, <1>11
<1>13. PICK given : given = rng.given
  OBVIOUS
<1>14. given \in Seq(Block)
  BY <1>13, Fields DEF Behind
<1>15. /\ rng'.given \in Seq(Block) /\ DOMAIN rng'.given = 1 .. (Len(given) + 1)
       /\ rng'.given[Len(given) + 1] = b
       /\ \A i \in DOMAIN given : rng'.given[i] = given[i]
       /\ DOMAIN given = 1 .. Len(given) /\ Len(given) \in Nat
  BY <1>10, <1>11, <1>13, <1>14
<1>16. rng' \in RngRecord
  BY <1>2, <1>3, <1>11, <1>12, <1>15, Fields, FromFields DEF Behind
<1>17. \A g \in DOMAIN gens : gens[g].key \in Nat /\ gens[g].ctr \in Nat /\ gens[g].key <= keys
  BY <1>1, <1>2, KeysBelow
<1>18. MovingOn
  <2>1. ASSUME NEW g \in DOMAIN gens
        PROVE  /\ rng'.gens[g].key <= rng'.keys
               /\ rng'.gens[g].key = gens[g].key /\ rng'.gens[g].ctr >= gens[g].ctr
    <3>1. CASE g = c
      BY <1>5, <1>8, <1>11, <1>12, <1>17, <3>1
    <3>2. CASE g # c
      BY <1>5, <1>11, <1>12, <1>17, <3>2
    <3>3. QED
      BY <3>1, <3>2
  <2>2. QED
    BY <1>1, <1>12, <1>16, <2>1 DEF MovingOn
<1>19. Spent'
  <2>1. ASSUME NEW i \in DOMAIN rng'.given
        PROVE  LET a == rng'.given[i]
               IN  /\ a.g \in DOMAIN rng'.gens
                   /\ a.key <= rng'.gens[a.g].key
                   /\ a.key = rng'.gens[a.g].key =>
                        a.ctr <= rng'.gens[a.g].ctr /\ (a.len = "block" => a.ctr < rng'.gens[a.g].ctr)
    <3>1. CASE i = Len(given) + 1
      <4>1. rng'.given[i] = b
        BY <1>15, <3>1
      <4>2. b.g \in DOMAIN rng'.gens /\ rng'.gens[b.g] = new
        BY <1>5, <1>10, <1>12
      <4>3. b.key <= new.key /\ b.ctr <= new.ctr /\ (b.len = "block" => b.ctr < new.ctr)
        BY <1>5, <1>8, <1>10
      <4>4. QED
        BY <4>1, <4>2, <4>3
    <3>2. CASE i # Len(given) + 1
      <4>1. i \in DOMAIN given /\ rng'.given[i] = given[i]
        BY <1>15, <3>2
      <4>2. QED
        BY <1>13, <1>18, <4>1, StillBehind
    <3>3. QED
      BY <3>1, <3>2
  <2>2. QED
    BY <1>18, <2>1 DEF Spent, MovingOn
<1>20. WholeBlocksDiffer'
  <2>1. SUFFICES ASSUME NEW i \in DOMAIN rng'.given, NEW j \in DOMAIN rng'.given,
                        i < j, rng'.given[i].len = "block"
                 PROVE  <<rng'.given[i].g, rng'.given[i].key, rng'.given[i].ctr>>
                          # <<rng'.given[j].g, rng'.given[j].key, rng'.given[j].ctr>>
    BY DEF WholeBlocksDiffer
  <2>2. i \in DOMAIN given /\ rng'.given[i] = given[i]
    BY <1>15, <2>1
  <2>3. CASE j = Len(given) + 1
    <3>1. PICK a : a = given[i]
      OBVIOUS
    <3>2. /\ a.g \in DOMAIN gens /\ a.len = "block" /\ a \in Block
          /\ a.key = gens[a.g].key => a.ctr < gens[a.g].ctr
      <4>1. a \in Block
        BY <1>14, <2>2, <3>1, Element
      <4>2. QED
        BY <1>1, <1>13, <2>1, <2>2, <3>1, <4>1 DEF Behind, Spent
    <3>3. a.ctr \in Nat /\ b.ctr \in Nat
      BY <1>10, <3>2 DEF Block
    <3>4. <<a.g, a.key, a.ctr>> # <<b.g, b.key, b.ctr>>
      BY <1>10, <3>2, <3>3
    <3>5. QED
      BY <1>15, <2>2, <2>3, <3>1, <3>4
  <2>4. CASE j # Len(given) + 1
    <3>1. j \in DOMAIN given /\ rng'.given[j] = given[j]
      BY <1>15, <2>4
    <3>2. QED
      BY <1>13, <2>1, <2>2, <3>1 DEF Behind, WholeBlocksDiffer
  <2>5. QED
    BY <2>3, <2>4
<1>21. \A u \in Threads \ {t} : thread'[u] = thread[u]
  BY ThreadsElsewhere DEF Proceed
<1>22. c # 0 /\ c <= Len(rng'.gens)
  BY <1>5, <1>12
<1>23. RandomType'
  BY <1>3, <1>11, <1>16, <1>21, <1>22, OthersRandom DEF Behind, RngRecord
<1>24. QED
  BY <1>19, <1>20, <1>23 DEF Behind

\* A step that leaves the generators alone, and takes no thread to one before it
\* is made
LEMMA KeepsBehind ==
  ASSUME Locked, Behind, NEW t \in Threads, Call(t) \/ Proceed(t), rng' = rng,
         \/ thread'[t].stack = <<>>
         \/ thread'[t].stack[1].at \notin {"fill", "reseed", "setkey"}
         \/ rng.current # 0
  PROVE  Behind'
<1>1. \A u \in Threads \ {t} : thread'[u] = thread[u]
  BY ThreadsElsewhere
<1>2. rng' \in RngRecord /\ rng'.current <= Len(rng'.gens)
  BY DEF Behind, RandomType, RngRecord
<1>3. RandomType'
  BY <1>1, <1>2, OthersRandom DEF Behind, RngRecord
<1>4. Spent' /\ WholeBlocksDiffer'
  BY DEF Behind, Spent, WholeBlocksDiffer
<1>5. QED
  BY <1>3, <1>4 DEF Behind

LEMMA StepBehind ==
  ASSUME ObjectsAssumption, Locked, Locked', Behind, NEW t \in Threads, Call(t) \/ Proceed(t)
  PROVE  Behind'
<1>1. CASE NewGenerator(t) \/ Fill(t) \/ Fodder(t) \/ SetKey(t)
  BY <1>1, NewGeneratorBehind, FillBehind, FodderBehind, SetKeyBehind
<1>2. CASE CallRandom(t)
  <2>1. rng' = rng
    BY <1>2 DEF CallRandom
  <2>2. CASE rng.current # 0
    BY <2>1, <2>2, KeepsBehind
  <2>3. CASE rng.current = 0
    <3>1. PICK f : thread' = [thread EXCEPT ![t].stack = <<[Frame("rng", "new") EXCEPT !.len = f]>>,
                                            ![t].calls = @ + 1]
      BY <1>2, <2>3 DEF CallRandom
    <3>2. PICK g : g = [Frame("rng", "new") EXCEPT !.len = f]
      OBVIOUS
    <3>3. g.at = "new"
      BY <3>2 DEF Frame
    <3>4. t \in DOMAIN thread
            /\ thread[t] \in [stack : Seq(CallRecord), calls : 0 .. MaxCalls, misled : {FALSE}]
      BY DEF Locked, ThreadOK
    <3>5. thread'[t].stack = <<g>>
      BY <3>1, <3>2, <3>4
    <3>6. thread'[t].stack[1].at \notin {"fill", "reseed", "setkey"}
      BY <3>3, <3>5
    <3>7. QED
      BY <2>1, <3>6, KeepsBehind
  <2>4. QED
    BY <2>2, <2>3
<1>3. CASE CallObject(t) \/ Test(t) \/ Lock(t) \/ Retest(t) \/ Build(t) \/ Publish(t)
           \/ Unlock(t) \/ Return(t)
  <2>1. rng' = rng
    BY <1>3 DEF CallObject, Test, Lock, Retest, Build, Publish, Unlock, Return
  <2>2. thread'[t].stack = <<>> \/ thread'[t].stack[1].at \in ObjectPlaces
    <3>1. t \in DOMAIN thread
            /\ thread[t] \in [stack : Seq(CallRecord), calls : 0 .. MaxCalls, misled : {FALSE}]
      BY DEF Locked, ThreadOK
    <3>2. CASE CallObject(t)
      <4>1. PICK o : thread' = [thread EXCEPT ![t].stack = <<Frame(o, "test")>>, ![t].calls = @ + 1]
        BY <3>2 DEF CallObject
      <4>2. thread'[t].stack = <<Frame(o, "test")>>
        BY <3>1, <4>1
      <4>3. QED
        BY <4>2 DEF Frame, ObjectPlaces
    <3>3. CASE Test(t) \/ Lock(t) \/ Build(t) \/ Publish(t) \/ Unlock(t)
      <4>1. PICK s : s = thread[t].stack
        OBVIOUS
      <4>2. s \in Seq(CallRecord) /\ 1 \in DOMAIN s /\ s[1] \in CallRecord
        BY <3>3, <4>1, TopCall DEF Test, Lock, Build, Publish, Unlock, At
      <4>3. CASE Lock(t)
        <5>1. thread' = [thread EXCEPT ![t].stack[1] = [@ EXCEPT !.at = "retest", !.how = "lock"]]
          BY <4>3 DEF Lock
        <5>2. thread'[t].stack[1] = [s[1] EXCEPT !.at = "retest", !.how = "lock"]
          BY <3>1, <4>1, <4>2, <5>1
        <5>3. QED
          BY <4>2, <5>2 DEF CallRecord, ObjectPlaces
      <4>4. CASE ~Lock(t)
        <5>1. PICK at \in ObjectPlaces : thread' = [thread EXCEPT ![t].stack[1].at = at]
          BY <3>3, <4>4 DEF Test, Build, Publish, Unlock, Goto, ObjectPlaces
        <5>2. thread'[t].stack[1] = [s[1] EXCEPT !.at = at]
          BY <3>1, <4>1, <4>2, <5>1
        <5>3. QED
          BY <4>2, <5>2 DEF CallRecord
      <4>5. QED
        BY <4>3, <4>4
    <3>4. CASE Retest(t)
      <4>1. PICK s : s = thread[t].stack
        OBVIOUS
      <4>2. s \in Seq(CallRecord) /\ s # <<>> /\ Here(t) = s[1] /\ Here(t) \in CallRecord
        BY <3>4, <4>1, TopCall DEF Retest, At
      <4>3. PICK rest : rest = Tail(s)
        OBVIOUS
      <4>4. rest \in Seq(CallRecord)
        BY <4>2, <4>3
      <4>5. PICK own : own = [Here(t) EXCEPT !.at = AfterRetest(Here(t).o)]
        OBVIOUS
      <4>6. own \in CallRecord /\ own.at \in ObjectPlaces
        BY <4>2, <4>5 DEF CallRecord, AfterRetest, ObjectPlaces
      <4>7. PICK new : new = Frame(CHOOSE n \in Needs(Here(t).o) : TRUE, "test")
        OBVIOUS
      <4>8. new.at = "test"
        BY <4>7 DEF Frame
      <4>9. \/ thread' = [thread EXCEPT ![t].stack = <<new, own>> \o rest]
            \/ thread' = [thread EXCEPT ![t].stack = <<own>> \o rest]
        BY <3>4, <4>1, <4>3, <4>5, <4>7 DEF Retest
      <4>10. thread'[t].stack = <<new, own>> \o rest \/ thread'[t].stack = <<own>> \o rest
        BY <3>1, <4>9
      <4>11. (<<new, own>> \o rest)[1] = new /\ (<<own>> \o rest)[1] = own
        BY <4>4
      <4>12. QED
        BY <4>6, <4>8, <4>10, <4>11 DEF ObjectPlaces
    <3>5. CASE Return(t)
      <4>1. PICK s : s = thread[t].stack
        OBVIOUS
      <4>2. s \in Seq(CallRecord) /\ s # <<>> /\ Nested(s)
        BY <3>5, <4>1, TopCall DEF Return, At
      <4>3. thread'[t].stack = Tail(s)
        BY <3>1, <3>5, <4>1 DEF Return
      <4>4. Tail(s) = <<>> \/ Tail(s)[1].at = "build"
        BY <4>2, TailOf DEF Nested
      <4>5. QED
        BY <4>3, <4>4 DEF ObjectPlaces
    <3>6. QED
      BY <1>3, <3>2, <3>3, <3>4, <3>5
  <2>3. QED
    BY <1>3, <2>1, <2>2, KeepsBehind DEF Proceed, Call, ObjectPlaces
<1>4. QED
  BY <1>1, <1>2, <1>3 DEF Call, Proceed

LEMMA InitBehind ==
  ASSUME Init
  PROVE  Behind
<1>1. rng \in [gens : {<<>>}, current : {0}, keys : {0}, given : {<<>>}, asked : BOOLEAN]
  BY DEF Init
<1>2. /\ rng = [gens |-> rng.gens, current |-> rng.current, keys |-> rng.keys,
                given |-> rng.given, asked |-> rng.asked]
      /\ rng.gens = <<>> /\ rng.current = 0 /\ rng.keys = 0 /\ rng.given = <<>>
      /\ rng.asked \in BOOLEAN
  BY <1>1
<1>3. rng \in RngRecord
  <2>1. <<>> \in Seq([key : Nat, ctr : Nat]) /\ <<>> \in Seq(Block)
    OBVIOUS
  <2>2. QED
    BY <1>2, <2>1, FromFields
<1>4. \A t \in Threads : thread[t].stack = <<>>
  BY DEF Init
<1>5. RandomType
  BY <1>2, <1>3, <1>4 DEF RandomType, RngRecord
<1>6. DOMAIN rng.gens = {} /\ DOMAIN rng.given = {}
  BY <1>2
<1>7. QED
  BY <1>5, <1>6 DEF Behind, Spent, WholeBlocksDiffer

LEMMA NextBehind ==
  ASSUME ObjectsAssumption, Locked, Behind, [Next]_vars
  PROVE  Locked' /\ Behind'
<1>1. Locked'
  BY NextLocked DEF Behind
<1>2. CASE \E t \in Threads : Call(t) \/ Proceed(t)
  BY <1>1, <1>2, StepBehind
<1>3. CASE UNCHANGED vars
  <2>1. Behind'
    BY <1>3 DEF vars, Behind, RandomType, Spent, WholeBlocksDiffer
  <2>2. QED
    BY <1>1, <2>1
<1>4. QED
  BY <1>1, <1>2, <1>3 DEF Next, Finished

AreFunctions ==
  /\ thread = [t \in DOMAIN thread |-> thread[t]]
  /\ object = [o \in DOMAIN object |-> object[o]]

LEMMA NextFunctions ==
  ASSUME AreFunctions, [Next]_vars
  PROVE  AreFunctions'
<1>1. CASE UNCHANGED vars \/ Finished
  BY <1>1 DEF vars, Finished, AreFunctions
<1>2. CASE \E t \in Threads : Call(t) \/ Proceed(t)
  <2>1. PICK t \in Threads : Call(t) \/ Proceed(t)
    BY <1>2
  <2>2. PICK th : thread' = [thread EXCEPT ![t] = th]
    BY <2>1 DEF Call, CallObject, CallRandom, Proceed, Test, Lock, Retest, Build, Publish, Unlock,
       Return, NewGenerator, Fill, Fodder, SetKey, Goto
  <2>3. PICK o, ob : object' = object \/ object' = [object EXCEPT ![o] = ob]
    BY <2>1 DEF Call, CallObject, CallRandom, Proceed, Test, Lock, Retest, Build, Publish, Unlock,
       Return, NewGenerator, Fill, Fodder, SetKey
  <2>4. thread' = [u \in DOMAIN thread' |-> thread'[u]]
    BY <2>2
  <2>5. object' = [p \in DOMAIN object' |-> object'[p]]
    BY <2>3 DEF AreFunctions
  <2>6. QED
    BY <2>4, <2>5 DEF AreFunctions
<1>3. QED
  BY <1>1, <1>2 DEF Next

\* What the invariants say of a state
LEMMA Consequences ==
  ASSUME ObjectsAssumption, Locked, Behind, AreFunctions
  PROVE  GlobalsTypeOK /\ MadeOnce /\ WholeBlocksDiffer
<1>1. GlobalsTypeOK
  <2>1. \A t \in Threads : thread[t] \in [stack : Seq(CallRecord), calls : 0 .. MaxCalls, misled : BOOLEAN]
    BY DEF Locked, ThreadOK
  <2>2. \A o \in AllObjects :
          object[o] \in [flag : BOOLEAN, whole : BOOLEAN, made : Nat, lock : Threads \cup {Nobody}]
    BY DEF Locked, ObjectOK
  <2>3. rng.current \in 0 .. Len(rng.gens)
    <3>1. rng.gens \in Seq([key : Nat, ctr : Nat]) /\ rng.current \in Nat
            /\ rng.current <= Len(rng.gens)
      BY Fields DEF Behind, RandomType
    <3>2. QED
      BY <3>1
  <2>4. thread = [t \in Threads |-> thread[t]] /\ object = [o \in AllObjects |-> object[o]]
    BY DEF AreFunctions, Locked
  <2>5. QED
    BY <2>1, <2>2, <2>3, <2>4 DEF GlobalsTypeOK, CallRecord
<1>2. MadeOnce
  <2>1. ASSUME NEW o \in AllObjects
        PROVE  /\ object[o].made <= 1
               /\ object[o].flag /\ object[o].lock = Nobody => object[o].whole
    <3>1. Fresh(o) \/ Done(o) \/ Publishing(o)
      BY DEF Locked, ObjectOK
    <3>2. QED
      BY <3>1 DEF Fresh, Done, Publishing, ObjectsAssumption, Nobody
  <2>2. ASSUME NEW t \in Threads PROVE ~thread[t].misled
    <3>1. thread[t].misled = FALSE
      BY DEF Locked, ThreadOK
    <3>2. QED
      BY <3>1
  <2>3. QED
    BY <2>1, <2>2 DEF MadeOnce
<1>3. QED
  BY <1>1, <1>2 DEF Behind

LEMMA InvariantsHold ==
  ASSUME ObjectsAssumption
  PROVE  Spec => [](Locked /\ Behind /\ AreFunctions)
<1>1. Init => Locked /\ Behind /\ AreFunctions
  <2>1. Init => AreFunctions
    BY DEF Init, AreFunctions
  <2>2. QED
    BY <2>1, InitLocked, InitBehind
<1>2. Locked /\ Behind /\ AreFunctions /\ [Next]_vars => (Locked /\ Behind /\ AreFunctions)'
  BY NextBehind, NextFunctions
<1>3. QED
  BY <1>1, <1>2, PTL DEF Spec

\* The threads, the shared objects and the generators keep their types, whatever
\* the number of threads and of their calls.
THEOREM GlobalsTypeCorrect ==
  ASSUME ObjectsAssumption
  PROVE  Spec => []GlobalsTypeOK
<1>1. Locked /\ Behind /\ AreFunctions => GlobalsTypeOK
  BY Consequences
<1>2. QED
  BY <1>1, InvariantsHold, PTL

\* Double-checked locking does its work for any number of threads: a dictionary, a
\* header part or the object factory is made once, and who came through its lock
\* uses it whole, even when the compiler stores the flag before the object.
THEOREM MadeOnceHolds ==
  ASSUME ObjectsAssumption
  PROVE  Spec => []MadeOnce
<1>1. Locked /\ Behind /\ AreFunctions => MadeOnce
  BY Consequences
<1>2. QED
  BY <1>1, InvariantsHold, PTL

\* FortunaRNG never gives a whole block twice, however many threads ask, however
\* many generators their race makes, and wherever reseeding is interrupted.
THEOREM WholeBlocksDifferHolds ==
  ASSUME ObjectsAssumption
  PROVE  Spec => []WholeBlocksDiffer
<1>1. Locked /\ Behind /\ AreFunctions => WholeBlocksDiffer
  BY Consequences
<1>2. QED
  BY <1>1, InvariantsHold, PTL

=============================================================================
