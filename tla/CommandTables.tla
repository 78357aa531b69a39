---------------------------- MODULE CommandTables ---------------------------
(***************************************************************************)
(* The command lines of the programs, twice: what usage() of each program  *)
(* says of its options (the _usage definitions), and what its class        *)
(* CommandOptions accepts (_options: the cases of the switch), starts from *)
(* (_fields: the members that several options write, and the option whose  *)
(* value they have at first) and requires at the end (_ends).              *)
(* An option is named by its letter, or by its word where it has no letter.*)
(***************************************************************************)
EXTENDS Naturals

CONSTANT MaxNames    \* bound: file names of a command line; stands for "any number"

ASSUME NamesAssumption == MaxNames \in Nat /\ MaxNames >= 3

AtLeast(n) == n .. MaxNames

\* A command line that usage() shows: with exactly one of the options "needs" (if
\* there are any), none of "bars", and so many names.
Form(needs, bars, names) == [needs |-> needs, bars |-> bars, names |-> names]

Help == Form({"h", "V"}, {}, {0})
Files(names) == {Help, Form({}, {}, names)}

\* flags: options without a value. valued: a value is taken as it is. checked: it
\* may be refused. lists: one to eight values separated by commas, as many as said.
Nothing == [x \in {} |-> {}]

\* least, most: file names. modes: one of these is required, and of "once" at most
\* one may be given. nameless: options that need no name. apart: options that do
\* not go with a mode. quits, late: options that end the program in success, quits
\* before the errors are looked at, late after.
Ends(least, most) ==
  [least |-> least, most |-> most, modes |-> {}, once |-> {}, nameless |-> {}, apart |-> {},
   quits |-> {"h", "V"}, late |-> {}]

-----------------------------------------------------------------------------
asdcp_wrap_usage ==
  [flags |-> {"h", "V", "3", "e", "E", "L", "M", "Q", "s", "v", "w", "W", "z", "Z"},
   valued |-> {"a", "A", "b", "C", "d", "f", "g", "j", "k", "l", "m", "p", "P", "T"},
   lists |-> Nothing, default |-> {"e", "z"}, forms |-> Files(AtLeast(2))]

asdcp_wrap_options ==
  [flags |-> {"h", "V", "3", "e", "E", "L", "M", "Q", "s", "u", "v", "w", "W", "x", "z", "Z"},
   valued |-> {"b", "d", "f", "g", "l", "p"}, checked |-> {"a", "A", "C", "j", "k", "m", "P", "T"}, lists |-> Nothing]

\* picture_rate, which PictureRate() reads, has no first value.
asdcp_wrap_fields ==
  [writes |-> [encrypt_header_flag |-> {"e", "E"}, j2c_pedantic |-> {"z", "Z"}, transfer_characteristic |-> {"Q", "T"}],
   first |-> [encrypt_header_flag |-> "e", j2c_pedantic |-> "z", transfer_characteristic |-> "none"]]

asdcp_wrap_ends == [Ends(2, MaxNames) EXCEPT !.quits = {"h", "V", "u"}]

asdcp_unwrap_usage ==
  [flags |-> {"1", "2", "3", "G", "h", "m", "R", "V", "v", "W", "z", "Z"},
   valued |-> {"b", "d", "e", "f", "k", "p", "s", "w"},
   lists |-> Nothing, default |-> {"z"}, forms |-> {Help, Form({"G"}, {}, {1}), Form({}, {"G"}, 1 .. 2)}]

\* -R, which the synopsis shows, is not an option.
asdcp_unwrap_options ==
  [flags |-> {"1", "2", "3", "G", "h", "m", "V", "v", "W", "z", "Z"},
   valued |-> {"b", "d", "e", "f", "p", "s", "w"}, checked |-> {"k"}, lists |-> Nothing]

asdcp_unwrap_fields ==
  [writes |-> [j2c_pedantic |-> {"z", "Z"}, mode |-> {"G"}],
   first |-> [j2c_pedantic |-> "z", mode |-> "none"]]

\* A third name is ignored.
asdcp_unwrap_ends == Ends(1, MaxNames)

asdcp_test_usage ==
  [flags |-> {"1", "3", "e", "E", "g", "G", "h", "H", "i", "L", "m", "M", "n", "R", "S", "t", "u", "U", "v", "V",
              "W", "z", "Z"},
   valued |-> {"a", "b", "c", "d", "f", "j", "k", "l", "p", "s", "w", "x"},
   lists |-> Nothing, default |-> {"e", "z"},
   forms |-> {Help, Form({"c"}, {"G", "g", "i", "t", "u", "U", "x"}, AtLeast(1)),
              Form({"i", "G", "t", "x"}, {"c", "g", "u", "U"}, {1}), Form({"g", "u", "U"}, {"c", "G", "i", "t", "x"}, {0})}]

asdcp_test_options ==
  [flags |-> {"1", "2", "3", "e", "E", "g", "G", "h", "H", "i", "L", "m", "M", "n", "R", "S", "t", "u", "U", "v", "V",
              "W", "z", "Z"},
   valued |-> {"b", "c", "d", "f", "l", "p", "s", "w", "x"}, checked |-> {"a", "j", "k"}, lists |-> Nothing]

asdcp_test_fields ==
  [writes |-> [encrypt_header_flag |-> {"e", "E"}, j2c_pedantic |-> {"z", "Z"}, split_wav |-> {"2", "S"},
               mode |-> {"c", "g", "G", "i", "t", "u", "U", "x"}],
   first |-> [encrypt_header_flag |-> "e", j2c_pedantic |-> "z", split_wav |-> "none", mode |-> "none"]]

asdcp_test_ends ==
  [Ends(1, MaxNames) EXCEPT !.modes = {"c", "g", "G", "i", "t", "u", "U", "x"}, !.nameless = {"g", "u", "U"}]

-----------------------------------------------------------------------------
Pairs(least) == least .. 8

as_02_wrap_usage ==
  [flags |-> {"e", "E", "h", "i", "J", "M", "R", "u", "v", "V", "W", "Y", "z", "Z"},
   valued |-> {"a", "A", "b", "c", "C", "d", "D", "F", "g", "G", "j", "k", "m", "n", "p", "P", "q", "r", "s", "t", "T",
               "U", "x", "X", "mca-audio-content-kind", "mca-audio-element-kind", "mca-title", "mca-title-version",
               "suba", "subt", "tfc", "tft", "tfv"},
   lists |-> [l |-> {2}, o |-> {2}, O |-> {8}, y |-> 1 .. 3, tfi |-> Pairs(1), tfr |-> {2}],
   default |-> {"e", "R", "z"}, forms |-> Files(AtLeast(2))]

\* set_video_line_map, set_display_luminance, set_display_primaries, set_video_ref
as_02_wrap_lists == [l |-> Pairs(2), o |-> {2}, O |-> {8}, y |-> 1 .. 3]

as_02_wrap_options ==
  [flags |-> {"e", "E", "h", "i", "J", "M", "R", "u", "v", "V", "W", "Y", "z", "Z"},
   valued |-> {"b", "d", "D", "g", "G", "P", "s", "t", "T", "U", "x", "X"},
   checked |-> {"a", "A", "c", "C", "F", "j", "k", "m", "n", "p", "q", "r"},
   lists |-> as_02_wrap_lists]

\* The options of several letters. -suba does without a value; -tfi, -tfc, -tft and
\* -tfv never refuse one, what they do not know is left out of the descriptor.
as_02_wrap_words ==
  [optional |-> {"suba"}, valued |-> {"subt", "tfc", "tft", "tfv"}, lists |-> [tfi |-> Pairs(1), tfr |-> {2}]]

as_02_wrap_mca ==
  {"mca-audio-content-kind", "mca-audio-element-kind", "mca-title", "mca-title-version"}

as_02_wrap_fields ==
  [writes |-> [encrypt_header_flag |-> {"e", "E"}, j2c_pedantic |-> {"z", "Z"},
               use_cdci_descriptor |-> {"c", "i", "R", "y", "Y"}, coding_equations |-> {"c", "q"},
               transfer_characteristic |-> {"c", "n"}],
   first |-> [encrypt_header_flag |-> "e", j2c_pedantic |-> "z", use_cdci_descriptor |-> "R",
              coding_equations |-> "none", transfer_characteristic |-> "none"]]

as_02_wrap_ends == [Ends(2, MaxNames) EXCEPT !.quits = {"h", "V", "u"}]

\* -p and -R are shown by the synopsis alone.
as_02_unwrap_usage ==
  [flags |-> {"1", "2", "h", "m", "R", "v", "V", "W", "z", "Z"},
   valued |-> {"b", "d", "f", "g", "k", "p", "s", "w"},
   lists |-> Nothing, default |-> {"z"}, forms |-> Files(1 .. 2)]

\* -k and -R, which usage() has, are not options.
as_02_unwrap_options ==
  [flags |-> {"1", "2", "h", "m", "v", "V", "W", "z", "Z"},
   valued |-> {"b", "d", "e", "f", "g", "p", "s", "w"}, checked |-> {}, lists |-> Nothing]

as_02_unwrap_fields ==
  [writes |-> [j2c_pedantic |-> {"z", "Z"}], first |-> [j2c_pedantic |-> "z"]]

as_02_unwrap_ends == Ends(1, MaxNames)

as_02_wrap_jxs_usage ==
  [flags |-> {"e", "E", "h", "i", "M", "R", "u", "v", "V", "W", "Y", "z", "Z"},
   valued |-> {"a", "A", "b", "c", "d", "D", "F", "j", "k", "n", "p", "q", "r", "s", "t", "T", "x", "X"},
   lists |-> [l |-> {2}, o |-> {2}, O |-> {8}, y |-> 1 .. 3],
   default |-> {"e", "R", "z"}, forms |-> Files(AtLeast(2))]

as_02_wrap_jxs_lists == [l |-> Pairs(2), o |-> {2}, O |-> {8}, y |-> 1 .. 3]

as_02_wrap_jxs_options ==
  [flags |-> {"e", "E", "h", "i", "M", "R", "u", "v", "V", "W", "Y", "z", "Z"},
   valued |-> {"b", "d", "D", "m", "P", "s", "t", "T", "x", "X"},
   checked |-> {"a", "A", "c", "F", "j", "k", "n", "p", "q", "r"}, lists |-> as_02_wrap_jxs_lists]

as_02_wrap_jxs_fields == as_02_wrap_fields
as_02_wrap_jxs_ends == as_02_wrap_ends

as_02_wrap_iab_usage ==
  [flags |-> {"h", "v", "V"}, valued |-> {"a", "g", "r"}, lists |-> Nothing, default |-> {}, forms |-> Files({2})]

as_02_wrap_iab_options ==
  [flags |-> {"h", "v", "V"}, valued |-> {"g"}, checked |-> {"a", "r"}, lists |-> Nothing]

OwnFields == [writes |-> Nothing, first |-> Nothing]
as_02_wrap_iab_fields == OwnFields
as_02_wrap_iab_ends == Ends(2, 2)

phdr_wrap_usage ==
  [flags |-> {"e", "E", "h", "i", "M", "R", "u", "v", "V", "W", "Y", "z", "Z"},
   valued |-> {"a", "A", "b", "C", "d", "D", "F", "j", "k", "m", "p", "r", "s", "t", "T", "x", "X"},
   lists |-> Nothing, default |-> {"e", "R", "z"}, forms |-> Files(AtLeast(2))]

\* -C, which usage() has, is not an option.
phdr_wrap_options ==
  [flags |-> {"e", "E", "h", "i", "M", "R", "u", "v", "V", "W", "Y", "z", "Z"},
   valued |-> {"b", "d", "D", "g", "s", "t", "T", "x", "X"},
   checked |-> {"a", "A", "F", "j", "k", "m", "p", "r"}, lists |-> Nothing]

phdr_wrap_fields ==
  [writes |-> [encrypt_header_flag |-> {"e", "E"}, j2c_pedantic |-> {"z", "Z"}, use_cdci_descriptor |-> {"i", "R", "Y"}],
   first |-> [encrypt_header_flag |-> "e", j2c_pedantic |-> "z", use_cdci_descriptor |-> "R"]]

phdr_wrap_ends == [Ends(2, MaxNames) EXCEPT !.quits = {"h", "V", "u"}]

phdr_unwrap_usage ==
  [flags |-> {"h", "m", "R", "v", "V", "W"}, valued |-> {"b", "d", "e", "f", "g", "k", "s", "w"},
   lists |-> Nothing, default |-> {}, forms |-> Files(1 .. 2)]

\* -e, -k and -R, which usage() has, are not options.
phdr_unwrap_options ==
  [flags |-> {"h", "m", "v", "V", "W"}, valued |-> {"b", "d", "f", "g", "s", "w"}, checked |-> {}, lists |-> Nothing]

phdr_unwrap_fields == OwnFields
phdr_unwrap_ends == Ends(1, MaxNames)

-----------------------------------------------------------------------------
asdcp_info_usage ==
  [flags |-> {"3", "c", "d", "h", "H", "i", "n", "r", "V"}, valued |-> {"t"},
   lists |-> Nothing, default |-> {}, forms |-> Files(AtLeast(1))]

asdcp_info_options ==
  [flags |-> {"3", "c", "d", "h", "H", "i", "n", "r", "v", "V"}, valued |-> {"t"}, checked |-> {}, lists |-> Nothing]

asdcp_info_fields == OwnFields
asdcp_info_ends == Ends(1, MaxNames)

as_02_info_usage ==
  [flags |-> {"c", "d", "h", "H", "i", "n", "r", "V"}, valued |-> {"t"},
   lists |-> Nothing, default |-> {}, forms |-> Files(AtLeast(1))]

as_02_info_options ==
  [flags |-> {"c", "d", "h", "H", "i", "n", "r", "v", "V"}, valued |-> {"t"}, checked |-> {}, lists |-> Nothing]

as_02_info_fields == OwnFields
as_02_info_ends == Ends(1, MaxNames)

asdcp_util_usage ==
  [flags |-> {"d", "g", "h", "u", "V"}, valued |-> {},
   lists |-> Nothing, default |-> {}, forms |-> {Help, Form({"d"}, {"g", "u"}, {1}), Form({"g", "u"}, {"d"}, {0})}]

asdcp_util_options ==
  [flags |-> {"d", "g", "h", "u", "V"}, valued |-> {}, checked |-> {}, lists |-> Nothing]

asdcp_util_fields == [writes |-> [mode |-> {"d", "g", "u"}], first |-> [mode |-> "none"]]
asdcp_util_ends == [Ends(1, MaxNames) EXCEPT !.modes = {"d", "g", "u"}, !.nameless = {"g", "u"}]

j2c_test_usage ==
  [flags |-> {"h", "r", "v", "V"}, valued |-> {}, lists |-> Nothing, default |-> {}, forms |-> Files(AtLeast(1))]

j2c_test_options == [flags |-> {"h", "r", "v", "V"}, valued |-> {}, checked |-> {}, lists |-> Nothing]
j2c_test_fields == OwnFields
j2c_test_ends == Ends(1, MaxNames)

kmrandgen_usage ==
  [flags |-> {"b", "B", "c", "C", "h", "n", "v", "V", "w", "x"}, valued |-> {"s", "W"},
   lists |-> Nothing, default |-> {"x"}, forms |-> Files({0})]

\* -s 0 is refused.
kmrandgen_options ==
  [flags |-> {"b", "B", "c", "C", "h", "n", "v", "V", "w", "x"}, valued |-> {"W"}, checked |-> {"s"}, lists |-> Nothing]

kmrandgen_fields ==
  [writes |-> [format |-> {"b", "B", "c", "C", "w", "x"}], first |-> [format |-> "x"]]

kmrandgen_ends == Ends(0, 0)

kmfilegen_usage ==
  [flags |-> {"h", "v", "V"}, valued |-> {"c", "o", "w"}, lists |-> Nothing, default |-> {},
   forms |-> {Help, Form({}, {"c", "w"}, {1}), Form({"c", "w"}, {"o"}, {1})}]

kmfilegen_options ==
  [flags |-> {"h", "v", "V"}, valued |-> {"c", "w"}, checked |-> {"o"}, lists |-> Nothing]

kmfilegen_fields == [writes |-> [mode |-> {"c", "w"}], first |-> [mode |-> "none"]]
kmfilegen_ends == [Ends(1, 1) EXCEPT !.apart = {"o"}]

klvwalk_usage ==
  [flags |-> {"h", "p", "r", "s", "v", "V"}, valued |-> {}, lists |-> Nothing, default |-> {}, forms |-> Files(AtLeast(1))]

klvwalk_options == [flags |-> {"h", "p", "r", "s", "v", "V"}, valued |-> {}, checked |-> {}, lists |-> Nothing]
klvwalk_fields == OwnFields
klvwalk_ends == Ends(1, MaxNames)

\* The first name is the label, or the dictionary's name, of the packets.
klvsplit_usage ==
  [flags |-> {"d", "h", "u", "U", "v", "V"}, valued |-> {"l", "p", "s"}, lists |-> Nothing, default |-> {"U"},
   forms |-> {Help, Form({"d"}, {}, {0}), Form({}, {"d"}, AtLeast(2))}]

klvsplit_options ==
  [flags |-> {"d", "h", "u", "U", "v", "V"}, valued |-> {"l", "p", "s"}, checked |-> {}, lists |-> Nothing]

klvsplit_fields ==
  [writes |-> [unwrap_mode |-> {"u", "U"}], first |-> [unwrap_mode |-> "U"]]

klvsplit_ends == [Ends(2, MaxNames) EXCEPT !.nameless = {"d"}]

wavesplit_usage ==
  [flags |-> {"h", "i", "v", "V"}, valued |-> {"c", "d", "f"}, lists |-> Nothing, default |-> {},
   forms |-> {Form({"V"}, {"c", "d", "f", "i"}, {0}), Form({"c"}, {"i"}, {1}), Form({"i"}, {"c"}, {1})}]

\* -v, which usage() has, is not an option.
wavesplit_options ==
  [flags |-> {"h", "i", "V"}, valued |-> {"c", "d", "f"}, checked |-> {}, lists |-> Nothing]

\* verbose_flag, which is read, has no first value.
wavesplit_fields == OwnFields
wavesplit_ends ==
  [Ends(1, 1) EXCEPT !.modes = {"c", "i", "V"}, !.once = {"c", "i"}, !.nameless = {"V"}, !.quits = {"h"}, !.late = {"V"}]

pinkwave_usage ==
  [flags |-> {"9", "h", "v", "V"}, valued |-> {"d", "g"}, lists |-> Nothing, default |-> {},
   forms |-> {Form({"h"}, {}, 0 .. 1), Form({}, {}, {1})}]

pinkwave_options ==
  [flags |-> {"9", "h", "v", "V"}, valued |-> {"d"}, checked |-> {"g"}, lists |-> Nothing]

pinkwave_fields == OwnFields
pinkwave_ends == [Ends(1, 1) EXCEPT !.quits = {"h"}, !.late = {"V"}]

blackwave_usage == [pinkwave_usage EXCEPT !.valued = {"d"}]
blackwave_options == [flags |-> {"9", "h", "v", "V"}, valued |-> {"d"}, checked |-> {}, lists |-> Nothing]
blackwave_fields == OwnFields
blackwave_ends == pinkwave_ends

kmuuidgen_usage ==
  [flags |-> {"c", "h", "n", "v", "V"}, valued |-> {}, lists |-> Nothing, default |-> {}, forms |-> Files({0})]

kmuuidgen_options == [flags |-> {"c", "h", "n", "v", "V"}, valued |-> {}, checked |-> {}, lists |-> Nothing]
kmuuidgen_fields == OwnFields
kmuuidgen_ends == Ends(0, 0)

=============================================================================
