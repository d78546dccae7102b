---------------------------- MODULE MCRunSolver ----------------------------
(***************************************************************************)
(* RunSolver for TLC: every command line of at most two options, and those *)
(* of three options that use a pseudo terminal.  Machines are one          *)
(* processor of two cores, or two of two cores each with their numbers     *)
(* interleaved; their masks have one word.                                 *)
(***************************************************************************)
EXTENDS RunSolver

Opt(name, arg) == [name |-> name, arg |-> arg]

Options ==
    {Opt("-C", 0), Opt("-C", 10), Opt("-C", 40), Opt("-W", 5), Opt("-S", 1),
     Opt("-M", 1), Opt("-M", 0), Opt("--rss-swap-limit", 2),
     Opt("--timestamp", 0), Opt("--use-pty", 0), Opt("-O", <<1, 2>>),
     Opt("-O", <<2, 2>>), Opt("--input", "missing"), Opt("-o", "unwritable"),
     Opt("--cores", <<<<0, 1>>>>), Opt("--cores", <<<<3>>, <<0>>>>),
     Opt("--cores", <<<<2, 3>>>>), Opt("--cores", <<<<1, 3>>>>), Opt("--cores", <<>>),
     Opt("--phys-cores", <<<<1, 0>>>>),
     Opt("--watchdog", 9), Opt("--version", 0), Opt("--add-eof", 0)}

Stamped == {Opt("--timestamp", 0)} \X {Opt("--use-pty", 0)}

Lines ==
    {<<>>} \cup {<<a>> : a \in Options} \cup (Options \X Options)
    \cup {l \o <<o>> : l \in Stamped, o \in {Opt("-C", 10), Opt("-o", "unwritable"),
                                             Opt("--watchdog", 9),
                                             Opt("--input", "missing")}}

Machines ==
    {[c \in 0..1 |-> {0, 1}],
     [c \in 0..3 |-> {d \in 0..3 : d % 2 = c % 2}]}

Users == {[cpu |-> 1000000, as |-> 1000000, stack |-> 1000000],
          [cpu |-> 60, as |-> 40000, stack |-> 500]}
=============================================================================
