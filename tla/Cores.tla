------------------------------- MODULE Cores -------------------------------
(***************************************************************************)
(* Cores.hh and RunSolver::selectCores(): the lists of cores runsolver     *)
(* works with.  The kernel gives the siblings of a core as a mask of hex   *)
(* digits with a comma after every MaskWord bits; the files of the cores   *)
(* 0..n-1 exist.  A topology is the function from a core to its siblings,  *)
(* itself included.                                                        *)
(***************************************************************************)
EXTENDS Integers, Sequences, SequencesExt, FiniteSets

CONSTANT MaskWord       \* bits between two commas of a mask (32)

Online(topology) == DOMAIN topology

\* The cores in the order in which those of below[c] come before c.
Sorted(cores, below) ==
    [n \in 1..Cardinality(cores) |-> CHOOSE c \in cores : Cardinality(below[c]) = n - 1]
Ascending(cores) == Sorted(cores, [c \in cores |-> {d \in cores : d < c}])

\* A comma counts as a digit of four bits: beyond MaskWord the ids are shifted.
MaskRead(siblings) == {c + 4 * (c \div MaskWord) : c \in siblings}

\* Both lists of Cores.hh grow by the siblings of one core after the other.
Visit(topology, Listed(_, _)) ==
    LET lists[n \in 0..Cardinality(Online(topology))] ==
            IF n = 0 THEN {<<>>}
            ELSE {list \o Ascending(Listed(list, n - 1)) : list \in lists[n - 1]}
    IN  CHOOSE list \in lists[Cardinality(Online(topology))] : TRUE

\* getExistingCores(): cores in the order of their processors, or of the system
ExistingCores(topology, physicalView) ==
    LET Listed(list, cpu) ==
            IF physicalView THEN {cpu}
            ELSE IF cpu \in ToSet(list) THEN {}
            ELSE MaskRead(topology[cpu]) \ ToSet(list)
    IN  Visit(topology, Listed)

\* getAllocatedCoresByProcessorOrder(): those of the affinity of the process
AllocatedCores(topology, affinity) ==
    LET Listed(list, cpu) ==
            IF cpu \in affinity \ ToSet(list)
            THEN (MaskRead(topology[cpu]) \cap affinity) \ ToSet(list) ELSE {}
    IN  Visit(topology, Listed)

\* selectCores(): the argument lists numbers <<a>> and ranges <<a, b>>.  A range
\* is clipped to the cores there are; a number is not, and reads past the end
\* of the vector: any core, or none.
MutNoSwap(range) == range[1]..range[2]

Interval(range) ==
    IF range[1] <= range[2] THEN range[1]..range[2] ELSE range[2]..range[1]

Chosen(available, cores, item) ==
    LET Indices(from) == {k + 1 : k \in from} \cap DOMAIN available
    IN  IF Len(item) = 2 THEN {{available[k] : k \in Indices(Interval(item))}}
        ELSE IF item[1] + 1 \in DOMAIN available THEN {{available[item[1] + 1]}}
        ELSE {{}} \cup {{c} : c \in cores}

Selections(available, cores, list) ==
    LET Sets(n) == Chosen(available, cores, list[n])
        all     == UNION {Sets(n) : n \in DOMAIN list}
    IN  {UNION {pick[n] : n \in DOMAIN list} :
            pick \in {p \in [DOMAIN list -> all] : \A n \in DOMAIN list : p[n] \in Sets(n)}}

\* sched_setaffinity() fails (EINVAL, reported and ignored) if no core of the
\* mask exists.
SetAffinity(topology, old, mask) ==
    IF mask \cap Online(topology) = {} THEN old ELSE mask \cap Online(topology)
=============================================================================
