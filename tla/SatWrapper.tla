----------------------------- MODULE SatWrapper -----------------------------
(***************************************************************************)
(* SatWrapper (satwrapper.py) and parse() put into AbstractWrapper: the    *)
(* call starts from a command line, and process_results() judges what a    *)
(* SAT solver has written, with what is known of the instance.             *)
(*                                                                         *)
(* The text of the output is reduced to the words that are searched in it  *)
(* and to whether it has a line with a model; the solubility file to its   *)
(* lines that start with the name of the instance, in order.  Those may be *)
(* about the instance ("it"), or about another one whose name is longer.   *)
(***************************************************************************)
EXTENDS Wrapper, Parse

CONSTANTS
    CommandLines,   \* sequences of words
    SolubilityFiles \* sequences of [about, says]

\* parse() takes the cutoff time for a float; "--config" starts with a dash and
\* has no "=" in it.
GivenWords == UNION {{l[k] : k \in DOMAIN l} : l \in CommandLines}
ASSUME SatAssumption ==
    /\ CommandLines \subseteq Seq(GivenWords)
    /\ \A word \in GivenWords : word.text = "--config" => word.dash /\ word.before = ""
    /\ \A l \in CommandLines : Accepted(l) => ParsedLine(l).asked \in Int
    /\ SolubilityFiles \subseteq Seq([about : STRING, says : STRING])

VARIABLES
    line,           \* the command line
    parsed,         \* what parse() made of it
    evidence        \* what process_results() finds, once it looks

satVars == <<line, parsed, evidence>>

Words == {"UNSATISFIABLE", "SATISFIABLE", "s UNKNOWN", "INDETERMINATE"}
WordSets ==
    {words \in SUBSET Words : \E word \in Words : words \subseteq {word, "s UNKNOWN"}}
Truths == {"SAT", "UNSAT"}
NoEvidence == [truth |-> "SAT", files |-> {}, solubility |-> <<>>,
               words |-> {}, model |-> FALSE, verdict |-> "silent"]

SatInit ==
    /\ Init
    /\ line \in {l \in CommandLines : Accepted(l)}
    /\ parsed = ParsedLine(line)
    /\ call.newFormat = NewFormat(line)
    /\ call.cutoff = parsed.cutoff
    /\ call.overwriteCost = Known(line).flag
    /\ evidence = NoEvidence

(***************************************************************************)
(* Of the evidence: the instance is SAT or UNSAT; the files named by the   *)
(* options exist or not; the output has a line of a model or not, which    *)
(* the checker accepts or rejects, or says nothing about.                  *)
(***************************************************************************)
Evidence ==
    LET there == {option \in {"--sol-file", "--sat-checker"} : Given(line, option)}
        possible == [truth : Truths, files : SUBSET there,
                     solubility : SolubilityFiles \cup {<<>>}, words : WordSets,
                     model : BOOLEAN, verdict : {"verified", "wrong", "silent"}]
    IN  {e \in possible :
            /\ "--sol-file" \notin e.files => e.solubility = <<>>
            /\ e.model => "SATISFIABLE" \in e.words
            /\ e.verdict # "silent" => e.model /\ "--sat-checker" \in e.files}
-----------------------------------------------------------------------------
Opposite(claim) == IF claim = "SAT" THEN "UNSAT" ELSE "SAT"
Synonyms == [SAT |-> {"SAT", "10", "SATISFIABLE"},
             UNSAT |-> {"UNSAT", "20", "UNSATISFIABLE"}]

\* _verify_via_solubility_file(): the first line that starts with the name
\* counts, and need not be about the instance.
VerifyViaSolubilityFile(e, claim) ==
    e.solubility = <<>> \/ e.solubility[1].says # Opposite(claim)

SpecificsDeny(claim) == parsed.specifics \in Synonyms[Opposite(claim)]

\* What the claim of the solver is worth according to what is known.
MutFileNotAsked(e, claim) == IF SpecificsDeny(claim) THEN "CRASHED" ELSE "SUCCESS"

Verified(e, claim) ==
    IF \/ SpecificsDeny(claim)
       \/ "--sol-file" \in e.files /\ ~VerifyViaSolubilityFile(e, claim)
    THEN "CRASHED" ELSE "SUCCESS"

\* A model is also given to the checker, whose verdict overrides that; it gets
\* the name in _instance, which nothing sets, instead of the instance.
MutAlwaysBug(e) ==
    IF "--sat-checker" \notin e.files THEN Verified(e, "SAT")
    ELSE IF ~e.model THEN "TIMEOUT"
    ELSE IF e.verdict = "wrong" THEN "CRASHED" ELSE Verified(e, "SAT")

Checked(e) ==
    IF "--sat-checker" \notin e.files THEN Verified(e, "SAT")
    ELSE IF ~e.model THEN "TIMEOUT"
    ELSE IF e.verdict # "wrong" THEN Verified(e, "SAT")
    ELSE IF data.status = "TIMEOUT" THEN "TIMEOUT" ELSE "CRASHED"

\* re.search(): "UNSATISFIABLE" also contains "SATISFIABLE".
Found(e, word) ==
    word \in e.words \/ (word = "SATISFIABLE" /\ "UNSATISFIABLE" \in e.words)

Judged(e) ==
    IF Found(e, "UNSATISFIABLE") THEN Verified(e, "UNSAT")
    ELSE IF Found(e, "SATISFIABLE") THEN Checked(e)
    ELSE IF Found(e, "s UNKNOWN") \/ Found(e, "INDETERMINATE") THEN "TIMEOUT"
    ELSE "none"

\* A line without a status is an IndexError, no name of the instance a TypeError.
Claims(e) == IF Found(e, "UNSATISFIABLE") THEN {"UNSAT"}
             ELSE IF Found(e, "SATISFIABLE") THEN {"SAT"} ELSE {}
Raises(e) ==
    \E claim \in Claims(e) :
        /\ ~SpecificsDeny(claim) /\ "--sol-file" \in e.files
        /\ e.solubility # <<>>
        /\ parsed.instance = None \/ e.solubility[1].says = "none"

SatProcessResults ==
    /\ pc = "process"
    /\ \E e \in Evidence :
          /\ ~Raises(e)
          /\ ProcessResults
          /\ result' = [NoResult EXCEPT !.status = Judged(e), !.misc = TRUE]
          /\ evidence' = e
    /\ UNCHANGED <<line, parsed>>

\* It also fails if the checker cannot be started, which is an OSError, and if the
\* output is no text: then it has not looked at anything.
AsksChecker(e) == Claims(e) = {"SAT"} /\ "--sat-checker" \in e.files /\ e.model

SatFails ==
    /\ Traceback("process")
    /\ \/ \E e \in Evidence : (Raises(e) \/ AsksChecker(e)) /\ evidence' = e
       \/ evidence' = evidence
    /\ UNCHANGED <<line, parsed>>

SatNext ==
    \/ SatProcessResults
    \/ SatFails
    \/ (pc # "process" /\ Next /\ UNCHANGED satVars)
    \/ (pc = "process" /\ (Signal \/ TargetRuns) /\ UNCHANGED satVars)

SatSpec == SatInit /\ [][SatNext]_<<vars, satVars>>
-----------------------------------------------------------------------------
\* The answer of a solver is never a success if the specifics deny it, if the
\* checker rejects its model, or if the line of the instance in the solubility file
\* denies it - unless a line about a longer name stands before that one: the code
\* then goes by that line, and may let a lie pass that the file would refute.
LongerNameFirst ==
    evidence.solubility # <<>> /\ evidence.solubility[1].about # "it"
FileDenies(claim) ==
    \E k \in DOMAIN evidence.solubility :
        /\ evidence.solubility[k].about = "it"
        /\ evidence.solubility[k].says = Opposite(claim)
        /\ \A n \in 1..k - 1 : evidence.solubility[n].about # "it"
Denied(claim) ==
    \/ SpecificsDeny(claim)
    \/ evidence.verdict = "wrong"
    \/ FileDenies(claim) /\ ~LongerNameFirst
LieNeverPasses ==
    pc = "ended" /\ printed =>
        \A claim \in Claims(evidence) : Denied(claim) => data.status # "SUCCESS"

\* A solver that is right is not punished by what it is checked with, in a run
\* without signals whose report can be read: it counts as crashed in no case, and
\* as a timeout only if it does not know the answer or its model is incomplete.
\* What is known must be right and, in the file, the line of the instance must
\* come before those of longer names; the checker may reject the model only if a
\* limit cut it off.
KnowledgeIsRight ==
    /\ ~SpecificsDeny(evidence.truth)
    /\ evidence.solubility # <<>> => evidence.solubility[1].says # Opposite(evidence.truth)
    /\ evidence.verdict = "wrong" => report.stopped # "none"
HonestAnswer ==
    evidence.words \in
        {{IF evidence.truth = "SAT" THEN "SATISFIABLE" ELSE "UNSATISFIABLE"}, {"s UNKNOWN"}}
Incomplete == "--sat-checker" \in evidence.files
              /\ (~evidence.model \/ evidence.verdict = "wrong")
HonestSolverSucceeds ==
    /\ pc = "ended" /\ printed /\ signalAt = <<>>
    /\ report.readable /\ HonestAnswer /\ KnowledgeIsRight
    => \/ data.status = "SUCCESS"
       \/ /\ data.status = "TIMEOUT"
          /\ evidence.words = {"s UNKNOWN"} \/ (evidence.truth = "SAT" /\ Incomplete)

\* What runsolver makes of -C: the watcher stops a target that has used that many
\* seconds, unless they are none (Watcher.hh:716), and the kernel a process that
\* has used KernelMargin more.
KernelMargin == 30
StopsAfter(cutoff) == IF cutoff # 0 THEN cutoff ELSE cutoff + KernelMargin

\* runsolver, whose limit is an integer, does not stop the target before it has had
\* the time that was asked for, and stops it less than a second later, two where a
\* double is too coarse.  A target that is to have no time at all gets 30 s.
TargetGetsItsTime ==
    LET asked == parsed.asked
        slack == IF asked < Exact * Unit THEN 1 ELSE 2
        given == StopsAfter(call.cutoff)
    IN  asked # NoNumber =>
          /\ asked > 0 =>
                \/ call.cutoff = MaxInt /\ MaxInt * Unit <= asked + Unit
                \/ /\ given * Unit >= asked
                   /\ given * Unit < asked + slack * Unit
          /\ asked = 0 => given = KernelMargin

\* The parameters of the target reach it with the values they were given last,
\* without the quotes around them, although options of the wrapper with their
\* values may stand between them.  A parameter that has the name of an option does
\* not; and three things take the pairs after them apart: a value that is the name
\* of an option, the flag, and an option joined to its value by "=".
ConfigAt ==
    CHOOSE k \in DOMAIN line : /\ line[k].text = "--config"
                               /\ \A n \in 1..k - 1 : line[n].text # "--config"
Parameters ==
    {k \in ConfigAt + 1..Len(line) - 1 : (k - ConfigAt) % 2 = 1}
Alone(word) == word.text = Flag \/ word.before \in OptionsOf(line)
ParametersArrive ==
    /\ pc = "start" /\ NewFormat(line)
    /\ \A k \in ConfigAt + 1..Len(line) : ~Alone(line[k])
    /\ \A k \in Parameters : line[k + 1].text \notin OptionsOf(line)
    => \A k \in Parameters :
        LET name == line[k].text
        IN  /\ name \notin OptionsOf(line)
            /\ \A n \in Parameters : line[n].text = name => n <= k
            => name \in DOMAIN parsed.config /\ parsed.config[name] = line[k + 1].bare
=============================================================================
