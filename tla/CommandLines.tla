---------------------------- MODULE CommandLines ----------------------------
(***************************************************************************)
(* The inputs of CommandLine: for morbo and bender, all short sequences of *)
(* options, other words and separators (several in a row, at the beginning *)
(* and the end); for zapp, options with arguments, all or only some of     *)
(* them, and numbers in all the forms strtoull knows, around its limit.    *)
(***************************************************************************)
EXTENDS Naturals, Sequences, SequencesExt

Name == <<"x">>
Space == <<" ">>
MorboChars == {" ", "quiet", "s100", "s400", "wait", "x"}
MorboTexts == UNION {[1..n -> MorboChars] : n \in 0..5}
           \cup {Name \o Space \o <<o>> : o \in {"noapic", "keepgoing", "postedwrites", "s200"}}
BenderTexts == UNION {[1..n -> {" ", "promisc", "phys_max=256M", "x"}] : n \in 0..4}
NumberTexts == {<<"0">>, <<"7">>, <<"0", "x">>, <<"0", "x", "f", "f">>, <<"0", "x", "1", "0", "0">>,
  <<"2", "5", "5">>, <<"2", "5", "6">>, <<"9", "9", "9">>, <<"0", "3", "7", "7">>, <<"0", "4", "0", "0">>,
  <<"-", "1">>, <<"+", "9">>, <<"0", "8">>, <<"2", "x">>, <<"x">>}
Region3(p, a, b, c) == <<p>> \o a \o <<",">> \o b \o <<",">> \o c
ZappOptions == {Region3("fixrmrr=", a, b, <<"1">>) : a \in NumberTexts, b \in NumberTexts}
  \cup {<<"disabledmar=">> \o a : a \in NumberTexts}
Disable == <<"disabledmar=", ",", "2", ",", "3">>
Short == {<<"fixrmrr=">>, <<"addrmrr=", ",", "1">>, <<"fixrmrr=", "1", ",", "2", ",", ",">>,
          <<"disabledmar=">>, <<"disabledmar=", ",">>}
FewOptions == {<<"x">>, Region3("addrmrr=", <<"1">>, <<",", "3">>, <<"0", "x", "a", ",">>),
               Region3("fixrmrr=", <<"2">>, <<"0">>, <<"9">>), Disable}
Separated == {Space \o o : o \in FewOptions}
Times(n, o) == FoldLeft(LAMBDA text, k : text \o Space \o o, <<>>, [k \in 1..n |-> k])
ZappTexts == {Name \o Space \o o : o \in ZappOptions}
  \cup {Name \o Space \o a \o s \o b \o s \o c : a \in FewOptions, b \in FewOptions, c \in FewOptions,
                                    s \in {Space, Space \o Space}}
  \cup {o \o Space \o o : o \in FewOptions}
  \cup {Name \o Space \o a \o Space \o b : a \in Short, b \in Short \cup FewOptions}
  \cup {Name \o Times(3, a) \o b \o b : a \in FewOptions \ {Disable}, b \in Separated}
Lines == [prog : {"morbo"}, text : MorboTexts] \cup [prog : {"bender"}, text : BenderTexts]
          \cup [prog : {"zapp"}, text : ZappTexts]
=============================================================================
