---------------------------- MODULE MCSatWrapper ----------------------------
(***************************************************************************)
(* SatWrapper for TLC: command lines of both formats, with parameters that *)
(* repeat, end early, are quoted or have the name of an option, options    *)
(* joined to their value, "--" and --help; cutoffs that are none, rounded  *)
(* up, too large, or negative.  The cutoffs are in tenths of a second,     *)
(* MaxInt is 9 s and a double is exact up to 6 s.                          *)
(***************************************************************************)
EXTENDS SatWrapper

Plain(text, number, dash) ==
    [text |-> text, bare |-> text, dash |-> dash, number |-> number,
     before |-> "", after |-> None]
Option(text) == Plain(text, NoNumber, TRUE)
Word(text) == Plain(text, NoNumber, FALSE)
Num(n) == Plain("number", n, FALSE)
Quoted(text) == [Word("'" \o text \o "'") EXCEPT !.bare = text]
Joined(option, value) ==
    [Option(option \o "=" \o value.text) EXCEPT !.before = option, !.after = value]

SolFile == <<Option("--sol-file"), Word("file")>>
Checker == <<Option("--sat-checker"), Word("binary")>>
OptionParts == {<<>>, SolFile, Checker, SolFile \o Checker}

OldLine(specifics, cutoff, parameters) ==
    <<Word("inst"), Word(specifics), Num(cutoff), Num(0), Num(1)>> \o parameters
Dashed == <<Option("-a"), Num(1), Option("-b"), Num(2), Option("-a"), Num(3)>>

NewConfig == <<Option("--config")>>
Swallowed == NewConfig \o <<Option("-a"), Num(1), Option("--seed"), Num(7),
                            Option("-b"), Num(2), Option("-a"), Quoted("x"), Option("-c")>>
OptionAsValue == NewConfig \o <<Option("-a"), Option("--seed"), Num(7), Option("-b"), Num(2)>>
ConfigAsValue == NewConfig \o <<Option("-a"), Option("--config"), Option("--config"), Num(2)>>

OptionsEnd == NewConfig \o <<Option("-a"), Option("--"), Option("--seed"), Num(7)>>
JoinedInside == NewConfig \o <<Option("-a"), Num(1), Joined("--seed", Num(7)), Option("-b"), Num(2)>>

MCCommandLines ==
    {o \o OldLine(s, 13, <<>>) : o \in OptionParts, s \in {"SAT", "20", "0"}}
    \cup {OldLine("0", c, Dashed) : c \in {0, 10, 60, 61, 95, -5}}
    \cup {SolFile \o <<Option("--instance"), Word("inst")>> \o NewConfig,
          SolFile \o NewConfig, Swallowed, OptionAsValue, ConfigAsValue,
          <<Option("--cutoff"), Num(11), Option(Flag)>> \o Swallowed,
          <<Joined("--cutoff", Num(11))>> \o OptionsEnd, JoinedInside,
          <<Joined("--cutoff", Word("x"))>> \o NewConfig, Swallowed \o <<Option(Help)>>,
          <<Option("--cutoff"), Option("--seed"), Num(1)>> \o NewConfig,
          OldLine("0", 5, <<Option("--mem-limit"), Word("none")>>),
          <<Word("inst")>>}

MCSolubilityFiles ==
    {<<>>} \cup {<<[about |-> "it", says |-> s]>> : s \in {"SAT", "UNSAT", "UNKNOWN", "none"}}
    \cup {<<[about |-> "longer", says |-> "UNSAT"], [about |-> "it", says |-> "SAT"]>>,
          <<[about |-> "it", says |-> "UNSAT"], [about |-> "longer", says |-> "SAT"]>>}

MCReports ==
    {[readable |-> TRUE, stopped |-> s, cpu |-> 3, child |-> 0] : s \in {"none", "cpu", "vsize"}}
    \cup {[readable |-> FALSE, stopped |-> s, cpu |-> NoValue, child |-> NoValue] :
            s \in {"none", "cpu"}}
MCResults == {[NoResult EXCEPT !.status = s, !.misc = TRUE] :
                s \in {"none", "SUCCESS", "TIMEOUT", "CRASHED"}}
MCTimes == {4}
MCCutoffs == {NoValue, 0, 1, 2, 6, 7, 9}
=============================================================================
