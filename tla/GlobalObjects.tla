---------------------------- MODULE GlobalObjects ---------------------------
(***************************************************************************)
(* What the threads of a program share when each reads or writes files     *)
(* with objects of its own: the dictionaries, the header parts copied by   *)
(* every reader, the object factory (all made on first use, under          *)
(* double-checked locking) and the random number generator, whose first    *)
(* use is not locked.                                                      *)
(***************************************************************************)
EXTENDS Naturals, Sequences, FiniteSets

CONSTANTS
  Threads,    \* the threads
  Objects,    \* the shared objects they ask for
  MaxCalls    \* bound: calls of a thread

\* Each has a flag (an ordinary bool) and a mutex. "md" and "md02" are the
\* header parts of AS-DCP and AS-02, "types" the object factory.
AllObjects == {"composite", "interop", "smpte", "atmos", "md", "md02", "types"}

ObjectsAssumption == Objects \subseteq AllObjects /\ MaxCalls \in Nat /\ "nobody" \notin Threads

\* The objects an initialisation asks for while it holds its own lock
Needs(o) == IF o \in {"md", "md02"} THEN {"smpte"} ELSE {}

VARIABLES
  thread,  \* what each thread is doing: the calls it is in, innermost first, and
           \* whether it came through a lock to an object that was not whole
  object,  \* the shared objects: flag, contents, lock
  rng      \* the generators, and the one s_RNG points to (0: none). asked: the
           \* behaviour is about random numbers, which share nothing with the rest

vars == <<thread, object, rng>>

Nobody == "nobody"
Frame(o, at) == [o |-> o, at |-> at, how |-> "test", len |-> "none", gen |-> 0]
At(t, at) == thread[t].stack # <<>> /\ thread[t].stack[1].at = at
Here(t) == thread[t].stack[1]
Goto(t, at) == [thread EXCEPT ![t].stack[1].at = at]

CallObject(t) ==
  /\ rng.asked = FALSE
  /\ thread[t].stack = <<>> /\ thread[t].calls < MaxCalls
  /\ \E o \in Objects :
       thread' = [thread EXCEPT ![t].stack = <<Frame(o, "test")>>, ![t].calls = @ + 1]
  /\ UNCHANGED <<object, rng>>

\* if ( ! flag ), outside the lock
Test(t) ==
  /\ At(t, "test")
  /\ thread' = Goto(t, IF object[Here(t).o].flag THEN "return" ELSE "lock")
  /\ UNCHANGED <<object, rng>>

Lock(t) ==
  /\ At(t, "lock") /\ object[Here(t).o].lock = Nobody
  /\ object' = [object EXCEPT ![Here(t).o].lock = t]
  /\ thread' = [thread EXCEPT ![t].stack[1] = [@ EXCEPT !.at = "retest", !.how = "lock"]]
  /\ UNCHANGED rng

\* Mutant: the flag is not tested again under the lock.
AfterLock(o) == "build"

\* if ( ! flag ), under the lock
AfterRetest(o) == IF object[o].flag THEN "unlock" ELSE "build"

Retest(t) ==
  /\ At(t, "retest")
  /\ LET o == Here(t).o
         own == [Here(t) EXCEPT !.at = AfterRetest(o)]
         rest == Tail(thread[t].stack)
     IN  thread' = [thread EXCEPT ![t].stack =
           IF own.at = "build" /\ Needs(o) # {}
           THEN <<Frame(CHOOSE n \in Needs(o) : TRUE, "test"), own>> \o rest
           ELSE <<own>> \o rest]
  /\ UNCHANGED <<object, rng>>

\* The last store to the object and the store to the flag. Another thread reads
\* the flag without the lock, so the compiler may issue them in either order.
Build(t) ==
  /\ At(t, "build")
  /\ \E whole, flag \in BOOLEAN :
       /\ whole # flag
       /\ object' = [object EXCEPT ![Here(t).o] =
                       [made |-> @.made + 1, whole |-> whole, flag |-> flag, lock |-> @.lock]]
  /\ thread' = Goto(t, "publish")
  /\ UNCHANGED rng

Publish(t) ==
  /\ At(t, "publish")
  /\ object' = [object EXCEPT ![Here(t).o] = [@ EXCEPT !.whole = TRUE, !.flag = TRUE]]
  /\ thread' = Goto(t, "unlock")
  /\ UNCHANGED rng

Unlock(t) ==
  /\ At(t, "unlock")
  /\ object' = [object EXCEPT ![Here(t).o].lock = Nobody]
  /\ thread' = Goto(t, "return")
  /\ UNCHANGED rng

\* The caller uses the object it asked for.
Return(t) ==
  /\ At(t, "return")
  /\ thread' = [thread EXCEPT ![t].stack = Tail(@),
                              ![t].misled = @ \/ (Here(t).how = "lock" /\ ~object[Here(t).o].whole)]
  /\ UNCHANGED <<object, rng>>

-----------------------------------------------------------------------------
(* FortunaRNG. A block is named by its generator, its key and its counter. *)
(* A new key is the hash of the old one and of blocks never used before,   *)
(* here the next natural number.                                           *)

FodderBlocks == 32              \* RNG_KEY_SIZE / RNG_BLOCK_SIZE

\* FortunaRNG(): the test and the store are not locked. FillRandom of one block
\* or of a part of one.
CallRandom(t) ==
  /\ rng.asked
  /\ thread[t].stack = <<>> /\ thread[t].calls < MaxCalls
  /\ \E len \in {"block", "part"} :
       thread' = [thread EXCEPT ![t].stack = <<[Frame("rng", IF rng.current = 0 THEN "new" ELSE "fill") EXCEPT !.len = len]>>,
                                ![t].calls = @ + 1]
  /\ UNCHANGED <<object, rng>>

NewGenerator(t) ==
  /\ At(t, "new")
  /\ rng' = [rng EXCEPT !.gens = Append(@, [key |-> rng.keys + 1, ctr |-> 1]),
                        !.current = Len(rng.gens) + 1, !.keys = @ + 1]
  /\ thread' = Goto(t, "fill")
  /\ UNCHANGED object

\* Mutant: the counter is not advanced past a block that was given.
CounterKept(ctr, len) == ctr

\* A partial block leaves the counter where it is.
CounterAfter(ctr, len) == IF len = "block" THEN ctr + 1 ELSE ctr

\* fill_rand, which holds the generator's lock from its first block to its last
Fill(t) ==
  /\ At(t, "fill")
  /\ LET g == rng.current
         gen == rng.gens[g]
     IN  /\ rng' = [rng EXCEPT !.gens[g].ctr = CounterAfter(@, Here(t).len),
                               !.given = Append(@, [g |-> g, key |-> gen.key, ctr |-> gen.ctr, len |-> Here(t).len])]
         /\ thread' = [thread EXCEPT ![t].stack[1] = [@ EXCEPT !.at = "reseed", !.gen = g]]
  /\ UNCHANGED object

\* fill_rand(rng_key), and then set_key: another thread's fill_rand or set_key
\* may come in between.
Fodder(t) ==
  /\ At(t, "reseed")
  /\ rng' = [rng EXCEPT !.gens[rng.current].ctr = @ + FodderBlocks]
  /\ thread' = Goto(t, "setkey")
  /\ UNCHANGED object

SetKey(t) ==
  /\ At(t, "setkey")
  /\ rng' = [rng EXCEPT !.gens[rng.current] = [key |-> rng.keys + 1, ctr |-> 1], !.keys = @ + 1]
  /\ thread' = [thread EXCEPT ![t].stack = Tail(@)]
  /\ UNCHANGED object

-----------------------------------------------------------------------------
Init ==
  /\ thread = [t \in Threads |-> [stack |-> <<>>, calls |-> 0, misled |-> FALSE]]
  /\ object = [o \in AllObjects |-> [flag |-> FALSE, whole |-> FALSE, made |-> 0, lock |-> Nobody]]
  /\ rng \in [gens : {<<>>}, current : {0}, keys : {0}, given : {<<>>}, asked : BOOLEAN]

Call(t) == CallObject(t) \/ CallRandom(t)

Proceed(t) ==
  \/ Test(t) \/ Lock(t) \/ Retest(t) \/ Build(t) \/ Publish(t) \/ Unlock(t) \/ Return(t)
  \/ NewGenerator(t) \/ Fill(t) \/ Fodder(t) \/ SetKey(t)

Finished == (\A t \in Threads : thread[t].stack = <<>> /\ thread[t].calls = MaxCalls) /\ UNCHANGED vars

Next == (\E t \in Threads : Call(t) \/ Proceed(t)) \/ Finished

\* A thread that is not blocked runs on. A mutex need not be fair: the calls of
\* the others are finite, and a lock is not taken again once its flag is set.
Fairness == \A t \in Threads : WF_vars(Proceed(t))

Spec == Init /\ [][Next]_vars /\ Fairness

-----------------------------------------------------------------------------
ObjectPlaces == {"test", "lock", "retest", "build", "publish", "unlock", "return"}
RandomPlaces == {"new", "fill", "reseed", "setkey"}

GlobalsTypeOK ==
  /\ thread \in [Threads -> [stack : Seq([o : AllObjects \cup {"rng"}, at : ObjectPlaces \cup RandomPlaces,
                                          how : {"test", "lock"}, len : {"none", "block", "part"}, gen : Nat]),
                             calls : 0 .. MaxCalls,
                             misled : BOOLEAN]]
  /\ object \in [AllObjects -> [flag : BOOLEAN, whole : BOOLEAN, made : Nat, lock : Threads \cup {Nobody}]]
  /\ rng.current \in 0 .. Len(rng.gens)

\* Double-checked locking does its work (Dict.cpp, h__Reader.cpp,
\* h__02_Reader.cpp, CreateObject): an object is made once, whoever asks; who
\* came through the lock uses it whole, also the initialisation that needs
\* another object; and once its lock is free again it is whole for everyone.
\* Not promised, as the flag is an ordinary bool: that who finds the flag set
\* without the lock finds the object whole.
MadeOnce ==
  /\ \A o \in AllObjects :
       /\ object[o].made <= 1
       /\ object[o].flag /\ object[o].lock = Nobody => object[o].whole
  /\ \A t \in Threads : ~thread[t].misled

\* FortunaRNG under interleaving: blocks given whole, as those of identifiers
\* are, are never given twice, though two threads may make two generators, a
\* thread may fill from one that another made since it tested, and reseeding is
\* not one step. (A partial block is the start of the block given next.)
WholeBlocksDiffer ==
  \A i, j \in DOMAIN rng.given :
    i < j /\ rng.given[i].len = "block"
      => <<rng.given[i].g, rng.given[i].key, rng.given[i].ctr>> # <<rng.given[j].g, rng.given[j].key, rng.given[j].ctr>>

\* Every call comes back to this: no thread waits for a lock for ever, although
\* default_md_object_init holds one while it takes the dictionary's.
Outside(t) == thread[t].stack = <<>>

=============================================================================
