----------------------------- MODULE UnwrapTools ----------------------------
(***************************************************************************)
(* The programs that extract essence: asdcp-unwrap, asdcp-test -x,         *)
(* as-02-unwrap and phdr-unwrap.  Each has a function per kind of essence: *)
(* open the reader, find the length, open the output, set up decryption,   *)
(* copy the frames that -f and -d select, then the resources.  A row says  *)
(* in what a function departs from that course.                            *)
(*                                                                         *)
(* Readers and output files are seen from the calls: every call may fail.  *)
(***************************************************************************)
EXTENDS Naturals, Sequences

CONSTANTS
  MaxLength,  \* bound: frames of a track file
  MaxItems,   \* bound: resources of a track file
  Words       \* 2^32 in the code: frame numbers are added modulo it

UnwrapAssumption ==
  MaxLength \in Nat \ {0} /\ MaxItems \in Nat /\ Words \in Nat /\ Words > 2 * MaxLength + 2

VARIABLES
  job,  \* the function that runs, its options, and what the track file holds
  at,   \* where it is: step, result, next frame and eye, resources done, a call has failed
  out   \* what was extracted: frames, resources; and of wave files, the length
        \* their headers declare and whether all of them have one

vars == <<job, at, out>>

\* range: how -f and -d select. count: where the length is taken from. to: a file
\* per frame, one stream, wave files, a document or a report. checked: the result
\* of opening wave files is looked at. items: what follows. dry: -W is an option.
Pictures ==
  [range |-> "clamp", count |-> "descriptor", eyes |-> 1, to |-> "frames", checked |-> TRUE,
   items |-> "none", dry |-> TRUE]

read_MPEG2_file == [Pictures EXCEPT !.to = "stream"]
gop_start_test == [Pictures EXCEPT !.to = "report", !.dry = FALSE]
read_JP2K_S_file == [Pictures EXCEPT !.eyes = 2]
read_JP2K_file == Pictures
read_PCM_file == [Pictures EXCEPT !.range = "checked", !.to = "wave", !.checked = FALSE]
read_timed_text_file == [Pictures EXCEPT !.range = "document", !.to = "document", !.items = "resources"]
read_DCData_file == Pictures

test_read_MPEG2_file == [read_MPEG2_file EXCEPT !.dry = FALSE]
test_gop_start_test == gop_start_test
test_read_JP2K_S_file == [read_JP2K_S_file EXCEPT !.dry = FALSE]
test_read_JP2K_file == [read_JP2K_file EXCEPT !.dry = FALSE]
test_read_PCM_file == [read_PCM_file EXCEPT !.dry = FALSE]
test_read_timed_text_file == [read_timed_text_file EXCEPT !.dry = FALSE]

as02_read_JP2K_file == [Pictures EXCEPT !.count = "descriptor or index"]
as02_read_ACES_file == [as02_read_JP2K_file EXCEPT !.items = "targets"]
as02_read_PCM_file ==
  [Pictures EXCEPT !.range = "reduced", !.count = "descriptor, index or clip", !.to = "wave", !.dry = FALSE]
as02_read_timed_text_file == read_timed_text_file
read_isxd_file == [Pictures EXCEPT !.count = "index"]
extract_generic_stream_partition_payload == [read_timed_text_file EXCEPT !.items = "none", !.dry = FALSE]
read_iab_file == [Pictures EXCEPT !.range = "reduced", !.count = "descriptor, once any is", !.to = "report", !.dry = FALSE]
phdr_read_JP2K_file == as02_read_JP2K_file

\* Which function main calls for the kind of essence of the file, or for an option.
\* Another kind ends main with 5.
asdcp_unwrap_main ==
  [MPEG2_VES |-> read_MPEG2_file, with_G |-> gop_start_test, JPEG_2000 |-> read_JP2K_file, JPEG_2000_S |-> read_JP2K_S_file,
   PCM |-> read_PCM_file, TIMED_TEXT |-> read_timed_text_file, DCDATA |-> read_DCData_file]

asdcp_test_main ==
  [MPEG2_VES |-> test_read_MPEG2_file, with_G |-> test_gop_start_test, JPEG_2000 |-> test_read_JP2K_file,
   JPEG_2000_S |-> test_read_JP2K_S_file, PCM |-> test_read_PCM_file, TIMED_TEXT |-> test_read_timed_text_file]

as_02_unwrap_main ==
  [AS02_JPEG_2000 |-> as02_read_JP2K_file, AS02_ACES |-> as02_read_ACES_file, AS02_PCM |-> as02_read_PCM_file,
   AS02_TIMED_TEXT |-> as02_read_timed_text_file, AS02_IAB |-> read_iab_file, AS02_ISXD |-> read_isxd_file,
   AS02_ISXD_with_g |-> extract_generic_stream_partition_payload]

phdr_unwrap_main == [AS02_JPEG_2000 |-> phdr_read_JP2K_file]

Unwrappers ==
  UNION {{main[kind] : kind \in DOMAIN main} :
           main \in {asdcp_unwrap_main, asdcp_test_main, as_02_unwrap_main, phdr_unwrap_main}}

All == Words - 1    \* Options.duration when -d is not given: 0xffffffff

\* Bound: -W is tried without -f and -d.
Options(row) ==
  {o \in [start : 0 .. MaxLength + 1, duration : 0 .. MaxLength \cup {All}, dry : BOOLEAN] :
     /\ o.dry => row.dry
     /\ o.dry \/ row.range = "document" => o.start = 0 /\ o.duration = All}

\* The frames of the file; which of its descriptor, index and source clip give
\* their number (the others hold 0, or are missing); its resources
Files(row) ==
  {f \in [length : 1 .. MaxLength, given : SUBSET {"descriptor", "index", "clip"}, items : 0 .. MaxItems] :
     /\ row.items = "none" => f.items = 0
     /\ row.range = "document" => f.length = 1 /\ f.given = {}
     /\ row.count = "descriptor" => f.given \subseteq {"descriptor"}
     /\ row.count = "index" => f.given \subseteq {"index"}
     /\ row.count = "descriptor or index" => "clip" \notin f.given}

Init ==
  /\ \E row \in Unwrappers : \E o \in Options(row), f \in Files(row) : job = [row |-> row, opt |-> o, file |-> f]
  /\ at = [pc |-> "open", result |-> "OK", next |-> job.opt.start, eye |-> 1, item |-> 0, failed |-> FALSE]
  /\ out = [frames |-> <<>>, items |-> {}, declared |-> 0, headers |-> TRUE]

Row == job.row
Opt == job.opt

-----------------------------------------------------------------------------
Least(a, b) == IF a < b THEN a ELSE b
FirstOf(a, b) == IF a # 0 THEN a ELSE b
Given(where) == IF where \in job.file.given THEN job.file.length ELSE 0

\* The length found in one of the places a function looks at: 0 when none has it
LengthKnown ==
  CASE Row.count \in {"descriptor", "index"} -> Given(Row.count)
    [] Row.count = "descriptor or index" -> FirstOf(Given("descriptor"), Given("index"))
    [] OTHER -> FirstOf(Given("descriptor"), FirstOf(Given("index"), Given("clip")))

\* "Unable to determine file duration."
LengthRequired == Row.count \notin {"descriptor", "index"} /\ Row.range # "document"

\* frame_count. read_iab_file goes back to the descriptor after the check.
FrameCount == IF Row.count = "descriptor, once any is" THEN Given("descriptor") ELSE LengthKnown

\* PCM and IAB: last_frame after -d
Reduced == IF Opt.duration > 0 THEN Least(Opt.duration, FrameCount) ELSE FrameCount

\* "Start value greater than file duration."
StartRefused ==
  \/ Row.range = "checked" /\ Opt.start > FrameCount
  \/ Row.range = "reduced" /\ Opt.start > 0 /\ Opt.start > Reduced

\* Mutant: the duration is counted from frame 0 and not from the start.
LastFrameOfDuration == Least(FirstOf(Opt.duration, FrameCount), FrameCount)

\* The frame the loop stops at. Without -d the sum of the pictures is start - 1
\* modulo Words; the AS-02 sound takes the start away and still starts there.
LastFrame ==
  CASE Row.range = "clamp" -> Least((Opt.start + FirstOf(Opt.duration, FrameCount)) % Words, FrameCount)
    [] Row.range = "checked" -> Least((Opt.start + Reduced) % Words, FrameCount)
    [] OTHER -> Reduced - Opt.start

-----------------------------------------------------------------------------
Step(pc) == at' = [at EXCEPT !.pc = pc]
Stop(result) == at' = [at EXCEPT !.pc = "exit", !.result = result]
Fail == at' = [at EXCEPT !.pc = "exit", !.result = "FAIL", !.failed = TRUE]

\* OpenRead, and the length
OpenRead ==
  /\ at.pc = "open"
  /\ \/ LengthRequired /\ LengthKnown = 0 /\ Stop("FAIL")
     \/ ~(LengthRequired /\ LengthKnown = 0) /\ StartRefused /\ Stop("FAIL")
     \/ ~(LengthRequired /\ LengthKnown = 0) /\ ~StartRefused /\ Step("prepare")
     \/ Fail
  /\ UNCHANGED <<job, out>>

\* Opening the stream or the wave files, and the keys. A wave file that could not
\* be opened or given a header is noticed by as-02-unwrap only.
Prepare ==
  /\ at.pc = "prepare"
  /\ \/ /\ Step(IF Row.range = "document" THEN "document" ELSE "copy")
        /\ out' = IF Row.to = "wave" /\ ~Opt.dry
                  THEN [out EXCEPT !.declared = IF Row.range = "checked" THEN (LastFrame - Opt.start) % Words
                                               ELSE LastFrame]
                  ELSE out
     \/ /\ Row.to = "wave" /\ ~Row.checked /\ ~Opt.dry
        /\ at' = [at EXCEPT !.pc = "copy", !.failed = TRUE] /\ out' = [out EXCEPT !.headers = FALSE]
     \/ Row.to # "report" /\ Fail /\ UNCHANGED out
  /\ UNCHANGED job

\* A frame, or the eye of one, is read and written. The ACES function goes on to
\* the target frames when this fails, and its result is overwritten there.
CopyFrame ==
  /\ at.pc = "copy" /\ at.next < LastFrame
  /\ \/ /\ at.next < job.file.length
        /\ at' = IF at.eye < Row.eyes THEN [at EXCEPT !.eye = @ + 1] ELSE [at EXCEPT !.next = @ + 1, !.eye = 1]
        /\ out' = IF Opt.dry THEN out ELSE [out EXCEPT !.frames = Append(@, <<at.next, at.eye>>)]
     \/ /\ IF Row.items = "targets" THEN at' = [at EXCEPT !.pc = "list", !.failed = TRUE] ELSE Fail
        /\ UNCHANGED out
  /\ UNCHANGED job

CopyEnd ==
  /\ at.pc = "copy" /\ ~(at.next < LastFrame)
  /\ IF Row.items = "targets" THEN Step("list") ELSE Stop("OK")
  /\ UNCHANGED <<job, out>>

\* ReadTimedTextResource, ReadGenericStreamPartitionPayload
ReadDocument ==
  /\ at.pc = "document"
  /\ \/ Step("resources") /\ out' = IF Opt.dry THEN out ELSE [out EXCEPT !.frames = <<<<0, 1>>>>]
     \/ Fail /\ UNCHANGED out
  /\ UNCHANGED job

\* ReadAncillaryResource and a file for each, until one fails
ReadResource ==
  /\ at.pc = "resources"
  /\ \/ /\ at.item < job.file.items
        /\ at' = [at EXCEPT !.item = @ + 1]
        /\ out' = IF Opt.dry THEN out ELSE [out EXCEPT !.items = @ \cup {at.item + 1}]
     \/ at.item < job.file.items /\ Fail /\ UNCHANGED out
     \/ at.item = job.file.items /\ Stop("OK") /\ UNCHANGED out
  /\ UNCHANGED job

\* FillAncillaryResourceList, whose result replaces that of the frames
ListTargets ==
  /\ at.pc = "list"
  /\ at' = [at EXCEPT !.pc = "targets", !.result = "OK"] \/ Fail
  /\ UNCHANGED <<job, out>>

\* All target frames are tried; the result is that of the last one.
ReadTarget ==
  /\ at.pc = "targets"
  /\ \/ /\ at.item < job.file.items
        /\ at' = [at EXCEPT !.item = @ + 1, !.result = "OK"]
        /\ out' = IF Opt.dry THEN out ELSE [out EXCEPT !.items = @ \cup {at.item + 1}]
     \/ /\ at.item < job.file.items
        /\ at' = [at EXCEPT !.item = @ + 1, !.result = "FAIL", !.failed = TRUE] /\ UNCHANGED out
     \/ at.item = job.file.items /\ Stop(at.result) /\ UNCHANGED out
  /\ UNCHANGED job

Exit == at.pc = "exit" /\ UNCHANGED vars

Proceed ==
  OpenRead \/ Prepare \/ CopyFrame \/ CopyEnd \/ ReadDocument \/ ReadResource \/ ListTargets \/ ReadTarget

Next == Proceed \/ Exit

\* A program that is not waiting for anything runs on.
Spec == Init /\ [][Next]_vars /\ WF_vars(Proceed)

-----------------------------------------------------------------------------
UnwrapTypeOK ==
  /\ job.row \in Unwrappers /\ job.opt \in Options(job.row) /\ job.file \in Files(job.row)
  /\ at.next \in 0 .. Words /\ at.result \in {"OK", "FAIL"} /\ at.item \in 0 .. MaxItems
  /\ out.items \subseteq 1 .. MaxItems /\ out.declared \in 0 .. Words - 1

\* What -f and -d ask for: frames from the start, as many as -d says or all, both
\* eyes of each
Selected ==
  LET total == IF Row.range = "document" THEN 1 ELSE FrameCount
      end == Least(Opt.start + (IF Opt.duration \in {0, All} THEN total ELSE Opt.duration), total)
      count == IF end > Opt.start THEN end - Opt.start ELSE 0
  IN  [i \in 1 .. count * Row.eyes |->
         <<Opt.start + (i - 1) \div Row.eyes, 1 + ((i - 1) % Row.eyes)>>]

Extracted ==
  /\ out.frames = Selected
  /\ out.items = 1 .. job.file.items
  /\ Row.to = "wave" => out.declared * Row.eyes = Len(out.frames)

Succeeded == at.pc = "exit" /\ at.result = "OK" /\ ~Opt.dry

\* A program that exits with 0 has extracted what was asked for: every frame that
\* -f and -d select, in order, both eyes of each, every resource, and wave files
\* that declare as many frames as they hold. It promises this where the start is
\* 0 or -d goes with it (AS-02 sound: where the start is 0); asdcp-unwrap when the
\* wave files could be opened, the ACES function when no call failed.
UnwrapComplete ==
  /\ Succeeded
  /\ \/ Opt.start = 0
     \/ Row.range = "checked"
     \/ Row.range = "clamp" /\ Opt.duration # All
  /\ out.headers
  /\ Row.items = "targets" => ~at.failed
  => Extracted

\* A program in which no call failed and that exits with 0 has extracted what -f
\* and -d ask for, whatever the two are.
UnwrapStart == Succeeded /\ ~at.failed => Extracted

\* Every run gets here: the loop is bounded by the frames of the file or by -d.
Ended == at.pc = "exit"

=============================================================================
