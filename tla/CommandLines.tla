---------------------------- MODULE CommandLines ----------------------------
(***************************************************************************)
(* How the programs read their command lines: the constructor of           *)
(* CommandOptions, an argument at a time, and what main makes of it.  The  *)
(* constructor returns at the first argument it refuses; what was read     *)
(* before stays, so that -h still shows the help.                          *)
(***************************************************************************)
EXTENDS CommandTables, Sequences, FiniteSets, SequencesExt

CONSTANT MaxOptions    \* bound: options of a command line

ASSUME OptionsAssumption == MaxOptions \in Nat

VARIABLES
  line,     \* the program, the options given with their values, the names given
  parsed,   \* members that several options write -> the option written last
  counted,  \* arguments taken for file names
  st        \* reading, or how the program goes on: run, help, error

commandVars == <<line, parsed, counted, st>>

Tool(usage, options, fields, ends) == [usage |-> usage, options |-> options, fields |-> fields, ends |-> ends]

as_02_wrap_all ==
  LET one == as_02_wrap_options.lists
      words == as_02_wrap_words.lists
  IN  [as_02_wrap_options EXCEPT
         !.valued = @ \cup as_02_wrap_words.valued \cup as_02_wrap_mca,
         !.lists = [o \in DOMAIN one \cup DOMAIN words |-> IF o \in DOMAIN words THEN words[o] ELSE one[o]]]

Tools ==
  [asdcp_wrap |-> Tool(asdcp_wrap_usage, asdcp_wrap_options, asdcp_wrap_fields, asdcp_wrap_ends),
   asdcp_unwrap |-> Tool(asdcp_unwrap_usage, asdcp_unwrap_options, asdcp_unwrap_fields, asdcp_unwrap_ends),
   asdcp_test |-> Tool(asdcp_test_usage, asdcp_test_options, asdcp_test_fields, asdcp_test_ends),
   as_02_wrap |-> Tool(as_02_wrap_usage, as_02_wrap_all, as_02_wrap_fields, as_02_wrap_ends),
   as_02_unwrap |-> Tool(as_02_unwrap_usage, as_02_unwrap_options, as_02_unwrap_fields, as_02_unwrap_ends),
   as_02_wrap_jxs |-> Tool(as_02_wrap_jxs_usage, as_02_wrap_jxs_options, as_02_wrap_jxs_fields, as_02_wrap_jxs_ends),
   as_02_wrap_iab |-> Tool(as_02_wrap_iab_usage, as_02_wrap_iab_options, as_02_wrap_iab_fields, as_02_wrap_iab_ends),
   phdr_wrap |-> Tool(phdr_wrap_usage, phdr_wrap_options, phdr_wrap_fields, phdr_wrap_ends),
   phdr_unwrap |-> Tool(phdr_unwrap_usage, phdr_unwrap_options, phdr_unwrap_fields, phdr_unwrap_ends),
   asdcp_info |-> Tool(asdcp_info_usage, asdcp_info_options, asdcp_info_fields, asdcp_info_ends),
   as_02_info |-> Tool(as_02_info_usage, as_02_info_options, as_02_info_fields, as_02_info_ends),
   asdcp_util |-> Tool(asdcp_util_usage, asdcp_util_options, asdcp_util_fields, asdcp_util_ends),
   j2c_test |-> Tool(j2c_test_usage, j2c_test_options, j2c_test_fields, j2c_test_ends),
   kmrandgen |-> Tool(kmrandgen_usage, kmrandgen_options, kmrandgen_fields, kmrandgen_ends),
   kmfilegen |-> Tool(kmfilegen_usage, kmfilegen_options, kmfilegen_fields, kmfilegen_ends),
   klvwalk |-> Tool(klvwalk_usage, klvwalk_options, klvwalk_fields, klvwalk_ends),
   klvsplit |-> Tool(klvsplit_usage, klvsplit_options, klvsplit_fields, klvsplit_ends),
   wavesplit |-> Tool(wavesplit_usage, wavesplit_options, wavesplit_fields, wavesplit_ends),
   pinkwave |-> Tool(pinkwave_usage, pinkwave_options, pinkwave_fields, pinkwave_ends),
   blackwave |-> Tool(blackwave_usage, blackwave_options, blackwave_fields, blackwave_ends),
   kmuuidgen |-> Tool(kmuuidgen_usage, kmuuidgen_options, kmuuidgen_fields, kmuuidgen_ends)]

Usage == Tools[line.tool].usage
Options == Tools[line.tool].options
Fields == Tools[line.tool].fields
Ended == Tools[line.tool].ends

GivenOptions == {line.given[i].option : i \in DOMAIN line.given}

CommandInit ==
  /\ \E t \in DOMAIN Tools : line = [tool |-> t, given |-> <<>>, names |-> 0]
  /\ parsed = Fields.first /\ counted = 0 /\ st = "reading"

-----------------------------------------------------------------------------
\* The options that may do without their value
Optional == IF line.tool = "as_02_wrap" THEN as_02_wrap_words.optional ELSE {}

Accepted == Options.flags \cup Options.valued \cup Options.checked \cup DOMAIN Options.lists \cup Optional
Documented == Usage.flags \cup Usage.valued \cup DOMAIN Usage.lists

\* What follows an option: so many values separated by commas (0: nothing, or
\* another option), that can be decoded and are in range, or not. Bound: nothing
\* follows what both tables call a flag, and an option is one of the two tables.
NoValue == [count |-> 0, fine |-> TRUE]
Values(o) ==
  IF o \in DOMAIN Options.lists \cup DOMAIN Usage.lists THEN [count : {0, 1, 2, 3, 8}, fine : BOOLEAN]
  ELSE IF o \in Options.checked THEN {NoValue} \cup [count : {1}, fine : BOOLEAN]
  ELSE {NoValue} \cup {v \in [count : {1}, fine : {TRUE}] : o \notin Options.flags \/ o \in Usage.valued}

\* Mutant: the cases of some options do not step over their value.
TakesMost(o) == o \notin Options.flags /\ o \notin {"a", "c", "g"}

\* TEST_EXTRA_ARG stands in the case of the option.
Takes(o) == o \notin Options.flags

Refused(o, v) ==
  \/ o \notin Accepted
  \/ Takes(o) /\ v.count = 0 /\ o \notin Optional
  \/ o \in Options.checked /\ ~v.fine
  \/ o \in DOMAIN Options.lists /\ v.count \notin Options.lists[o]
  \/ o \in {"o", "O", "y"} /\ o \in DOMAIN Options.lists /\ ~v.fine
  \/ o \in Ended.once /\ GivenOptions \cap Ended.once # {}

\* What main does when the constructor has returned early, leaving error_flag set
OnError == IF GivenOptions \cap Ended.quits # {} THEN "help" ELSE "error"

\* An option, and its value where the program takes one; a value it does not take
\* is a file name to it.
ReadOption(o, v) ==
  /\ st = "reading" /\ Len(line.given) < MaxOptions
  /\ line' = [line EXCEPT !.given = Append(@, [option |-> o, value |-> v])]
  /\ IF Refused(o, v)
     THEN st' = OnError /\ UNCHANGED <<parsed, counted>>
     ELSE /\ parsed' = [f \in DOMAIN parsed |-> IF o \in Fields.writes[f] THEN o ELSE parsed[f]]
          /\ counted' = IF Takes(o) THEN counted ELSE counted + v.count
          /\ UNCHANGED st

\* The names are counted only where the program does something to files.
NeedsNames ==
  IF "mode" \in DOMAIN parsed THEN parsed.mode \notin Ended.nameless
  ELSE GivenOptions \cap Ended.nameless = {} \/ GivenOptions \cap Ended.once # {}

Complete(names) ==
  /\ NeedsNames => names >= Ended.least
  /\ names <= Ended.most
  /\ Ended.modes # {} => GivenOptions \cap Ended.modes # {}
  /\ GivenOptions \cap Ended.apart # {} => parsed.mode = "none"

\* The names, which come last here, the checks at the end of the constructor, and
\* the tests at the start of main
Finish(n) ==
  /\ st = "reading"
  /\ line' = [line EXCEPT !.names = n]
  /\ counted' = counted + n
  /\ st' = IF GivenOptions \cap Ended.quits # {} THEN "help"
           ELSE IF ~Complete(counted') THEN "error"
           ELSE IF GivenOptions \cap Ended.late # {} THEN "help"
           ELSE "run"
  /\ UNCHANGED parsed

Exit == st # "reading" /\ UNCHANGED commandVars

CommandNext ==
  \/ \E o \in Accepted \cup Documented : \E v \in Values(o) : ReadOption(o, v)
  \/ \E n \in 0 .. MaxNames : Finish(n)
  \/ Exit

CommandSpec == CommandInit /\ [][CommandNext]_commandVars

-----------------------------------------------------------------------------
CommandTypeOK ==
  /\ line.tool \in DOMAIN Tools /\ line.names \in 0 .. MaxNames /\ Len(line.given) <= MaxOptions
  /\ counted \in 0 .. MaxNames + MaxOptions * 8
  /\ st \in {"reading", "run", "help", "error"}
  /\ DOMAIN parsed = DOMAIN Fields.first

AsDocumented(g) ==
  \/ g.option \in Usage.flags /\ g.value.count = 0
  \/ g.option \in Usage.valued /\ g.value.count = 1 /\ g.value.fine
  \/ g.option \in DOMAIN Usage.lists /\ g.value.count \in Usage.lists[g.option] /\ g.value.fine

Matches(f) ==
  /\ f.needs # {} => Cardinality({i \in DOMAIN line.given : line.given[i].option \in f.needs}) = 1
  /\ GivenOptions \cap f.bars = {}
  /\ line.names \in f.names

\* Options that usage() has, in its synopsis or its list, and the switch has not
Left ==
  [asdcp_unwrap |-> {"R"}, as_02_unwrap |-> {"k", "R"}, phdr_unwrap |-> {"e", "k", "R"}, phdr_wrap |-> {"C"},
   wavesplit |-> {"v"}]

InUsage ==
  /\ \A i \in DOMAIN line.given : AsDocumented(line.given[i])
  /\ \E f \in Usage.forms : Matches(f)
  /\ line.tool \in DOMAIN Left => GivenOptions \cap Left[line.tool] = {}

\* A program accepts every command line its usage() shows: documented options with
\* the values documented for them, and as many names as are asked for (but for the
\* options in Left); it runs unless -h or its like is given. And an option that is
\* documented as the default changes nothing.
UsageHolds ==
  st # "reading" /\ InUsage =>
    /\ st = (IF GivenOptions \cap (Ended.quits \cup Ended.late) # {} THEN "help" ELSE "run")
    /\ GivenOptions \subseteq Usage.default => parsed = Fields.first

=============================================================================
