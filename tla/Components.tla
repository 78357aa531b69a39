----------------------------- MODULE Components -----------------------------
(***************************************************************************)
(* The components that share no state with each other, composed: a         *)
(* behaviour is one of one of them. s1, s2, ... are its variables, in the  *)
(* order its module declares them, but for CommandLines, which has its     *)
(* own; what a behaviour does not use is Unused.                           *)
(***************************************************************************)
EXTENDS CommandLines

CONSTANTS
  MaxFrames, MaxExtras,                     \* WrapTools
  MaxLength, MaxItems, Words,               \* UnwrapTools
  PackLen, PackLost, EntriesPerSegment,     \* ClipFile, with those of MXFFile
  SampleLen, FrameLen, BlockLens, MaxBlocks, MaxTexts, MaxFaults,
  Threads, Objects, MaxRequests,            \* GlobalObjects
  IOVecMaxEntries, MaxPackets, MaxOpens, MaxSize,      \* FileAccess
  Names, Links, Asked, MaxLinks, MaxEvents,            \* DirectoryTree
  Units, KL, StrayLens, MaxCalls            \* PairReader

VARIABLES part, s1, s2, s3, s4, s5, s6

vars == <<part, s1, s2, s3, s4, s5, s6, line, parsed, counted, st>>

Unused == "unused"

-----------------------------------------------------------------------------
(* The instances *)

Wrap == INSTANCE WrapTools WITH tool <- s1, input <- s2, run <- s3, file <- s4

Unwrap == INSTANCE UnwrapTools WITH job <- s1, at <- s2, out <- s3

Clip == INSTANCE ClipFile WITH writer <- s1, mxf <- s2, past <- s3

Global == INSTANCE GlobalObjects WITH MaxCalls <- MaxRequests, thread <- s1, object <- s2, rng <- s3

File == INSTANCE FileAccess WITH
  disk <- s1, queue <- s2, written <- s3, opens <- s4, source <- s5, reading <- s6

Tree == INSTANCE DirectoryTree WITH tree <- s1, job <- s2, stack <- s3, first <- s4, events <- s5

Pair == INSTANCE PairReader WITH kind <- s1, reader <- s2, last <- s3, troubles <- s4, calls <- s5

ASSUME ComponentsAssumption ==
  /\ Wrap!WrapAssumption /\ Unwrap!UnwrapAssumption
  /\ Clip!ClipAssumption /\ Global!ObjectsAssumption /\ File!FileAssumption /\ Tree!TreeAssumption
  /\ Pair!PairAssumption

-----------------------------------------------------------------------------
Init ==
  \/ /\ part = "command" /\ CommandInit
     /\ s1 = Unused /\ s2 = Unused /\ s3 = Unused /\ s4 = Unused /\ s5 = Unused /\ s6 = Unused
  \/ /\ line = Unused /\ parsed = Unused /\ counted = Unused /\ st = Unused
     /\ \/ part = "wrap"   /\ Wrap!Init   /\ s5 = Unused /\ s6 = Unused
        \/ part = "unwrap" /\ Unwrap!Init /\ s4 = Unused /\ s5 = Unused /\ s6 = Unused
        \/ part = "clip"   /\ Clip!Init   /\ s4 = Unused /\ s5 = Unused /\ s6 = Unused
        \/ part = "global" /\ Global!Init /\ s4 = Unused /\ s5 = Unused /\ s6 = Unused
        \/ part = "file"   /\ File!Init
        \/ part = "tree"   /\ Tree!Init   /\ s6 = Unused
        \/ part = "pair"   /\ Pair!Init   /\ s6 = Unused

KeepCommand == UNCHANGED <<part, line, parsed, counted, st>>
Keep6 == KeepCommand /\ UNCHANGED s6
Keep5 == Keep6 /\ UNCHANGED s5
Keep4 == Keep5 /\ UNCHANGED s4

WrapStep == part = "wrap" /\ Wrap!Proceed /\ Keep5
UnwrapStep == part = "unwrap" /\ Unwrap!Proceed /\ Keep4
ThreadStep(t) == part = "global" /\ Global!Proceed(t) /\ Keep4

Next ==
  \/ WrapStep \/ UnwrapStep
  \/ part = "wrap"    /\ Wrap!Exit    /\ Keep5
  \/ part = "unwrap"  /\ Unwrap!Exit  /\ Keep4
  \/ part = "clip"    /\ Clip!Next    /\ Keep4
  \/ part = "global"  /\ Global!Next  /\ Keep4
  \/ part = "file"    /\ File!Next    /\ KeepCommand
  \/ part = "tree"    /\ Tree!Next    /\ Keep6
  \/ part = "pair"    /\ Pair!Next    /\ Keep6
  \/ part = "command" /\ CommandNext  /\ UNCHANGED <<part, s1, s2, s3, s4, s5, s6>>

\* The fairness of the components: a program, and a thread that is not blocked,
\* run on.
Spec ==
  /\ Init /\ [][Next]_vars
  /\ WF_vars(WrapStep \/ UnwrapStep)
  /\ \A t \in Threads : WF_vars(ThreadStep(t))

-----------------------------------------------------------------------------
\* The values the variables of each component can take
TypeOK ==
  /\ part = "wrap" => Wrap!WrapTypeOK
  /\ part = "unwrap" => Unwrap!UnwrapTypeOK
  /\ part = "command" => CommandTypeOK
  /\ part = "clip" => Clip!ClipTypeOK
  /\ part = "global" => Global!GlobalsTypeOK
  /\ part = "file" => File!FileTypeOK
  /\ part = "tree" => Tree!TreeTypeOK
  /\ part = "pair" => Pair!PairTypeOK

\* A writing program that exits with 0 leaves a finalized file with everything it
\* was to hold (but for what -f and -x say, which it does not do); one that does
\* not leaves no finalized file.
WrapComplete == part = "wrap" => Wrap!WrapComplete

\* A reading program that exits with 0 has extracted what was asked for.
UnwrapComplete == part = "unwrap" => Unwrap!UnwrapComplete

\* A program accepts every command line that its usage() shows, but for the options
\* of usage() that its switch does not have at all (Left).
CommandsHold == part = "command" => UsageHolds

\* A finalized clip gives back the bytes of the buffers that were accepted.
ClipReadsBack == part = "clip" => Clip!ClipReadsBack

\* A global object is made once, and used whole by who came through its lock.
MadeOnce == part = "global" => Global!MadeOnce

\* Blocks of random numbers that are given whole are never given twice.
WholeBlocksDiffer == part = "global" => Global!WholeBlocksDiffer

\* A packet that is accepted is in the file, a full queue comes of failed writes
\* alone, and what is read into memory with RESULT_OK is as much as was to be read.
FilesHold == part = "file" => File!FlushesHold /\ File!ReadWhole

\* Deleting takes nothing beside the path but through links to directories, and
\* a directory only when it is empty; a resolved path leads where the path did.
TreesHold == part = "tree" => Tree!DeleteStaysInside /\ Tree!OnlyEmptyDeleted /\ Tree!ResolvedPathLeadsThere

\* The eye of the frame that is asked for, and the metadata of the picture, are
\* what a reader of packet pairs delivers.
PairsMatch == part = "pair" => Pair!PairsMatch

\* Every program run ends, and every call for a global object or a random number
\* comes back: no loop goes on without the source or -d ending it, and no two
\* threads wait for each other's lock.
RunsEnd ==
  /\ <>(part = "wrap" => Wrap!Ended)
  /\ <>(part = "unwrap" => Unwrap!Ended)
  /\ \A t \in Threads : []<>(part = "global" => Global!Outside(t))

=============================================================================
