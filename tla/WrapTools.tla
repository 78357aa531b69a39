------------------------------ MODULE WrapTools -----------------------------
(***************************************************************************)
(* The programs that write track files: asdcp-wrap, asdcp-test -c,         *)
(* as-02-wrap, as-02-wrap-jxs, as-02-wrap-iab and phdr-wrap.  Each has a   *)
(* function per kind of essence; they share one course: open the parser,   *)
(* fill the descriptor, set up encryption, open the writer, copy frames    *)
(* until the parser or the -d option ends it, finalize.  A row of Wrappers *)
(* says in what a function departs from it.                                *)
(*                                                                         *)
(* Parsers and writers are seen from the calls: every call may fail.       *)
(***************************************************************************)
EXTENDS Naturals, Sequences

CONSTANTS
  MaxFrames,  \* bound: frames of a source
  MaxExtras   \* bound: resources of a text or picture, texts of an ISXD file

WrapAssumption == MaxFrames \in Nat \ {0} /\ MaxExtras \in Nat

VARIABLES
  tool,  \* the function that runs, and the options it is given
  input, \* what the parser finds: frames of each eye, a short last frame, extras
  run,   \* where it is: step, result, frames read, loop counter, extras done
  file   \* the track file: not opened, open or finalized, and its contents

vars == <<tool, input, run, file>>

\* eyes: parsers read in turn. body: frames, or a document with resources.
\* check: a test that ends the function at once when it fails, before or after
\* the writer is opened. short: what becomes of an incomplete last frame. limit:
\* -d is an option. repeat: -R is. dry: -n is. extras: written after the frames.
Plain(name) ==
  [name |-> name, eyes |-> 1, body |-> "frames", check |-> "none", short |-> "none", limit |-> TRUE,
   repeat |-> FALSE, dry |-> TRUE, extras |-> "none"]

write_MPEG2_file == Plain("MPEG2")
write_JP2K_S_file == [Plain("JP2K stereo") EXCEPT !.eyes = 2, !.check = "before"]
write_JP2K_file == [Plain("JP2K") EXCEPT !.check = "before"]
write_PCM_file == [Plain("PCM") EXCEPT !.check = "after", !.short = "option"]
write_PCM_with_ATMOS_sync_file == [Plain("PCM and sync") EXCEPT !.short = "option"]
write_timed_text_file == [Plain("text") EXCEPT !.body = "text", !.extras = "resources"]
write_dolby_atmos_file == Plain("Atmos")
write_aux_data_file == Plain("aux data")

test_write_MPEG2_file == [Plain("test MPEG2") EXCEPT !.repeat = TRUE]
test_write_JP2K_S_file == [Plain("test JP2K stereo") EXCEPT !.eyes = 2]
test_write_JP2K_file == [Plain("test JP2K") EXCEPT !.repeat = TRUE]
test_write_PCM_file == [Plain("test PCM") EXCEPT !.short = "drop"]
test_write_timed_text_file == [write_timed_text_file EXCEPT !.name = "test text"]

as02_write_JP2K_file == Plain("AS-02 JP2K")
as02_write_ACES_file == [Plain("AS-02 ACES") EXCEPT !.extras = "resources"]
as02_write_PCM_file == [Plain("AS-02 PCM") EXCEPT !.check = "before"]
as02_write_timed_text_file == [write_timed_text_file EXCEPT !.name = "AS-02 text"]
as02_write_isxd_file == [Plain("AS-02 ISXD") EXCEPT !.check = "namespace", !.extras = "texts"]
write_JXS_file == Plain("AS-02 JXS")
write_IAB_file == [Plain("AS-02 IAB") EXCEPT !.limit = FALSE, !.dry = FALSE]
phdr_write_JP2K_file == Plain("P-HDR")

\* Which function main calls: for what kind of essence, and with what options.
\* Another kind ends main with 5.
asdcp_wrap_main ==
  [MPEG2_VES |-> write_MPEG2_file, JPEG_2000 |-> write_JP2K_file, JPEG_2000_with_3 |-> write_JP2K_S_file,
   PCM |-> write_PCM_file, PCM_with_s |-> write_PCM_with_ATMOS_sync_file, TIMED_TEXT |-> write_timed_text_file,
   DCDATA_DOLBY_ATMOS |-> write_dolby_atmos_file, DCDATA_UNKNOWN_with_A |-> write_aux_data_file]

asdcp_test_main ==
  [MPEG2_VES |-> test_write_MPEG2_file, JPEG_2000 |-> test_write_JP2K_file, JPEG_2000_with_3 |-> test_write_JP2K_S_file,
   PCM |-> test_write_PCM_file, TIMED_TEXT |-> test_write_timed_text_file]

as_02_wrap_main ==
  [JPEG_2000 |-> as02_write_JP2K_file, AS02_ACES |-> as02_write_ACES_file, PCM |-> as02_write_PCM_file,
   TIMED_TEXT |-> as02_write_timed_text_file, DCDATA_UNKNOWN_with_U |-> as02_write_isxd_file]

as_02_wrap_jxs_main == [JPEG_XS |-> write_JXS_file]
as_02_wrap_iab_main == [any |-> write_IAB_file]
phdr_wrap_main == [JPEG_2000 |-> phdr_write_JP2K_file]

Wrappers ==
  UNION {{main[kind] : kind \in DOMAIN main} :
           main \in {asdcp_wrap_main, asdcp_test_main, as_02_wrap_main, as_02_wrap_jxs_main, as_02_wrap_iab_main,
                     phdr_wrap_main}}

NoLimit == MaxFrames + 1      \* 0xffffffff

\* The programs that take -f <start-frame>: it is stored, and no function reads it.
TakesStart ==
  UNION {{main[kind] : kind \in DOMAIN main} : main \in {asdcp_wrap_main, asdcp_test_main}}

Least(a, b) == IF a < b THEN a ELSE b

\* What main lets through: -R requires -d. (start: 0, or another frame, as none is
\* looked at.)
Options(row) ==
  {o \in [duration : 0 .. NoLimit, start : 0 .. 1, repeat : BOOLEAN, dry : BOOLEAN, partial : BOOLEAN] :
     /\ ~row.limit => o.duration = NoLimit
     /\ o.start > 0 => row \in TakesStart
     /\ o.repeat => row.repeat /\ o.duration < NoLimit
     /\ o.dry => row.dry
     /\ o.partial => row.short = "option"}

Inputs(row) ==
  {i \in [left : 1 .. MaxFrames, right : 1 .. MaxFrames, short : BOOLEAN, extras : 0 .. MaxExtras] :
     /\ row.eyes = 1 => i.right = i.left
     /\ row.body = "text" => i.left = 1
     /\ i.short => row.short # "none"
     /\ row.extras = "none" => i.extras = 0}

Init ==
  /\ \E row \in Wrappers : \E o \in Options(row) : tool = [row |-> row, opt |-> o] /\ input \in Inputs(row)
  /\ run = [pc |-> "open", result |-> "OK", read |-> <<0, 0>>, count |-> 0, extras |-> 0]
  /\ file = [st |-> "none", frames |-> <<>>, extras |-> {}, error |-> FALSE]

Row == tool.row
Opt == tool.opt
Step(pc) == run' = [run EXCEPT !.pc = pc]

\* Program stopped on error: the exit code is 1.
Stop(result) == run' = [run EXCEPT !.pc = "exit", !.result = result]

OpenRead ==
  /\ run.pc = "open"
  /\ (Step("describe") \/ Stop("FAIL"))
  /\ UNCHANGED <<tool, input, file>>

\* FillDescriptor; check_phfr_params; the count of the MCA labels (AS-02)
Describe ==
  /\ run.pc = "describe"
  /\ \/ Step(IF Opt.dry THEN "reset" ELSE "openwrite")
     \/ Row.check = "before" /\ Stop("FAIL")
  /\ UNCHANGED <<tool, input, file>>

\* The keys, the namespace taken from the first document, OpenWrite; and the
\* count of the MCA labels (AS-DCP), which leaves the file open.
OpenWrite ==
  /\ run.pc = "openwrite"
  /\ \/ Step("reset") /\ file' = [file EXCEPT !.st = "open"]
     \/ Stop("FAIL") /\ UNCHANGED file
     \/ Row.check = "after" /\ Stop("FAIL") /\ file' = [file EXCEPT !.st = "open"]
  /\ UNCHANGED <<tool, input>>

Reset ==
  /\ run.pc = "reset"
  /\ \/ Step(IF Row.body = "text" THEN "document" ELSE "loop")
     \/ Row.body # "text" /\ Stop("FAIL")
  /\ UNCHANGED <<tool, input, file>>

\* Mutant: ++duration < Options.duration
LoopEarly ==
  /\ run.pc = "loop"
  /\ IF ~Row.limit \/ Opt.duration = NoLimit \/ run.count + 1 < Opt.duration
     THEN run' = [run EXCEPT !.count = Least(@ + 1, NoLimit),
                             !.pc = IF Opt.repeat /\ run.count > 0 THEN "write" ELSE "read"]
     ELSE Step("extras")
  /\ UNCHANGED <<tool, input, file>>

\* duration++ < Options.duration. as-02-wrap-iab has no such test. (The counter
\* is compared with nothing above NoLimit, where it is kept.)
Loop ==
  /\ run.pc = "loop"
  /\ IF ~Row.limit \/ Opt.duration = NoLimit \/ run.count < Opt.duration
     THEN run' = [run EXCEPT !.count = Least(@ + 1, NoLimit),
                             !.pc = IF Opt.repeat /\ run.count > 0 THEN "write" ELSE "read"]
     ELSE Step("extras")
  /\ UNCHANGED <<tool, input, file>>

\* The eye whose turn it is, and the frames it has
Eye == IF Row.eyes = 2 /\ run.read[1] > run.read[2] THEN 2 ELSE 1
Length(eye) == IF eye = 1 THEN input.left ELSE input.right
IsShort == input.short /\ run.read[1] = input.left - 1

\* asdcp-test drops it; asdcp-wrap does when -x is given.
DropsShort == IsShort /\ (Row.short = "drop" \/ Opt.partial)

\* Mutant: the loop does not notice the end of the source.
AfterLastUnnoticed == "loop"

AfterLast == "extras"

\* ReadFrame: the end of the source ends the loop, and is no error.
ReadFrame ==
  /\ run.pc = "read"
  /\ \/ /\ run.read[Eye] < Length(Eye) /\ ~DropsShort
        /\ IF Opt.dry
           THEN run' = [run EXCEPT !.read[Eye] = @ + 1, !.pc = IF Eye < Row.eyes THEN "read" ELSE "loop"]
           ELSE Step("write")
     \/ (run.read[Eye] = Length(Eye) \/ DropsShort) /\ Step(AfterLast)
     \/ Stop("FAIL")
  /\ UNCHANGED <<tool, input, file>>

\* A frame is named by its eye and its number; -R writes the first again.
WriteFrame ==
  /\ run.pc = "write"
  /\ \/ LET again == Opt.repeat /\ run.count > 1
            eye == Eye
            n == IF again THEN run.read[1] ELSE run.read[eye] + 1
        IN  /\ file' = IF Opt.dry THEN file ELSE [file EXCEPT !.frames = Append(@, <<eye, n>>)]
            /\ run' = [run EXCEPT !.read[eye] = n, !.pc = IF eye < Row.eyes THEN "read" ELSE "loop"]
     \/ ~Opt.dry /\ Stop("FAIL") /\ UNCHANGED file
  /\ UNCHANGED <<tool, input>>

\* WriteTimedTextResource is called with -n too, where the writer is not open.
WriteDocument ==
  /\ run.pc = "document"
  /\ \/ file.st = "open" /\ Step("extras") /\ file' = [file EXCEPT !.frames = <<<<1, 1>>>>]
     \/ Stop("FAIL") /\ UNCHANGED file
  /\ UNCHANGED <<tool, input>>

Next1 == run.extras + 1

\* ReadAncillaryResource and WriteAncillaryResource, until one fails
WriteResource ==
  /\ run.pc = "extras" /\ Row.extras = "resources" /\ run.extras < input.extras
  /\ \/ /\ file' = IF Opt.dry THEN file ELSE [file EXCEPT !.extras = @ \cup {Next1}]
        /\ run' = [run EXCEPT !.extras = Next1]
     \/ Stop("FAIL") /\ UNCHANGED file
  /\ UNCHANGED <<tool, input>>

\* The texts of an ISXD file: the loop goes on after an error, and the next text
\* sets the result anew. (A file that could be read in part ends it at once.)
WriteText ==
  /\ run.pc = "extras" /\ Row.extras = "texts" /\ ~Opt.dry /\ run.extras < input.extras
  /\ \/ /\ file' = [file EXCEPT !.extras = @ \cup {Next1}]
        /\ run' = [run EXCEPT !.extras = Next1, !.result = "OK"]
     \/ /\ run' = [run EXCEPT !.extras = Next1, !.result = "FAIL"]
        /\ UNCHANGED file
     \/ Stop("FAIL") /\ UNCHANGED file
  /\ UNCHANGED <<tool, input>>

ExtrasDone == run.extras = input.extras \/ (Row.extras = "texts" /\ Opt.dry)

\* Finalize fails when nothing was written, or only the left eye of a pair.
Finalize ==
  /\ run.pc = "extras" /\ ExtrasDone
  /\ \/ Opt.dry /\ Stop(run.result) /\ UNCHANGED file
     \/ /\ ~Opt.dry /\ run.result = "OK"
        /\ file.frames # <<>> /\ Len(file.frames) % Row.eyes = 0
        /\ Stop("OK") /\ file' = [file EXCEPT !.st = "final"]
     \/ ~Opt.dry /\ Stop("FAIL") /\ UNCHANGED file
  /\ UNCHANGED <<tool, input>>

Exit == run.pc = "exit" /\ UNCHANGED vars

Proceed ==
  \/ OpenRead \/ Describe \/ OpenWrite \/ Reset \/ Loop \/ ReadFrame \/ WriteFrame
  \/ WriteDocument \/ WriteResource \/ WriteText \/ Finalize

Next == Proceed \/ Exit

\* A program that is not waiting for anything runs on.
Spec == Init /\ [][Next]_vars /\ WF_vars(Proceed)

-----------------------------------------------------------------------------
WrapTypeOK ==
  /\ tool.row \in Wrappers /\ input \in Inputs(tool.row)
  /\ run.result \in {"OK", "FAIL"} /\ run.count \in 0 .. NoLimit
  /\ file.st \in {"none", "open", "final"} /\ file.extras \subseteq 1 .. MaxExtras

\* The frames a file should hold: those of the source from -f up to -d, of two
\* eyes in pairs; an incomplete last one where it is to be kept.
Promised(kept) ==
  LET whole == input.left - (IF input.short /\ ~kept THEN 1 ELSE 0)
      limit == IF Opt.duration = NoLimit \/ Row.body = "text" THEN MaxFrames ELSE Opt.duration
  IN  IF Opt.repeat THEN [i \in 1 .. limit |-> <<1, Opt.start + 1>>]
      ELSE IF Row.eyes = 2 THEN [i \in 1 .. 2 * Least(limit, Least(input.left, input.right) - Opt.start) |->
                                   <<IF i % 2 = 1 THEN 1 ELSE 2, Opt.start + (i + 1) \div 2>>]
      ELSE [i \in 1 .. Least(limit, whole - Opt.start) |-> <<1, Opt.start + i>>]

\* When a writing program exits with 0 the file is finalized and complete: every
\* frame the source and -d promise, in order, both eyes of each, and every
\* resource; when it does not, there is no finalized file. What is not promised:
\*  - the frames of a run with -f, which usage() of asdcp-wrap and asdcp-test
\*    documents ("Starting frame number, default 0", asdcp-wrap.cpp:165) and
\*    which changes nothing: such a file begins with the first frame;
\*  - an incomplete last frame: "if true, write the last frame of PCM input even
\*    when it is incomplete" says asdcp-wrap.cpp:247 of the flag -x sets, and the
\*    code does the opposite, with it and without it; either is accepted here;
\*  - of several texts given for an ISXD file all but the last: the error of an
\*    earlier one is overwritten.
WrapComplete ==
  run.pc = "exit" /\ ~Opt.dry =>
    IF run.result = "OK"
    THEN /\ file.st = "final"
         /\ Opt.start = 0 => \E kept \in BOOLEAN : file.frames = Promised(kept)
         /\ Row.extras = "resources" => file.extras = 1 .. input.extras
         /\ Row.extras = "texts" /\ input.extras > 0 => input.extras \in file.extras
    ELSE file.st # "final"

\* Every run gets here: the loop is bounded by the source or, with -R, by -d.
Ended == run.pc = "exit"

=============================================================================
