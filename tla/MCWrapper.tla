------------------------------ MODULE MCWrapper ------------------------------
(***************************************************************************)
(* Wrapper for TLC.  Times are in units of half a millisecond: 1 is the    *)
(* least that is printed, and 0 is what runsolver reports of a very short  *)
(* run.                                                                    *)
(***************************************************************************)
EXTENDS Wrapper

OneTime == {4}
WithCutoff == {5}
AnyCutoff == {NoValue, 0, 5}

\* A complete report, one of a run stopped by either limit and killed by a
\* signal, one of a very short run with an exit code, an empty one and a corrupted
\* one.
SomeReports ==
    {[readable |-> TRUE, stopped |-> "none", cpu |-> 3, child |-> 0],
     [readable |-> TRUE, stopped |-> "none", cpu |-> 0, child |-> 1], NoReport}
    \cup {[readable |-> TRUE, stopped |-> s, cpu |-> 3, child |-> NoValue] :
            s \in {"cpu", "vsize"}}
    \cup {[readable |-> FALSE, stopped |-> s, cpu |-> NoValue, child |-> NoValue] :
            s \in {"none", "cpu"}}

\* Nothing; a status and a runtime; a quality with a note; a failure, whose cost
\* overrides a quality, with a note.
SomeResults ==
    {NoResult,
     [NoResult EXCEPT !.status = "SUCCESS", !.runtime = 2],
     [NoResult EXCEPT !.status = "SUCCESS", !.quality = 7, !.misc = TRUE],
     [NoResult EXCEPT !.status = "CRASHED", !.cost = 8, !.quality = 7, !.misc = TRUE]}

\* Whether a target dies does not depend on what is reported.
OneReport == {r \in SomeReports : r.cpu = 3}
OneResult == {[NoResult EXCEPT !.status = "SUCCESS", !.runtime = 2]}
=============================================================================
