---------------------------- MODULE OutputLimit ----------------------------
(***************************************************************************)
(* What runsolver promises about the output of the solver under option     *)
(* --output-limit start,max: the file holds the first start bytes while    *)
(* the solver runs, and once it is closed all of the output if that fits   *)
(* in max bytes, otherwise the first start bytes, a message, and the last  *)
(* max-start bytes.  Bytes that the system refuses to write are missing.   *)
(*                                                                         *)
(* A byte is named by its rank in the output; 0 stands for the message.    *)
(***************************************************************************)
EXTENDS Integers, Sequences, SequencesExt

VARIABLES
    start, max,     \* the limits
    received,       \* how many bytes of the output were dealt with
    refused,        \* what write() failed to write
    output,         \* the file
    closed          \* is it complete?

vars == <<start, max, received, refused, output, closed>>

Message == 0
Bytes(first, last) == [i \in 1..last - first + 1 |-> first + i - 1]

\* What should be in the file after n bytes, while the solver runs and after.
Direct(n) == Bytes(1, IF n < start THEN n ELSE start)
Complete(n) ==
    IF n <= max THEN Bytes(1, n)
    ELSE Direct(n) \o <<Message>> \o Bytes(n - (max - start) + 1, n)

Init ==
    /\ start \in Nat /\ max \in Nat /\ start < max
    /\ received = 0 /\ refused = {} /\ output = <<>> /\ closed = FALSE

\* SelectSeq, in a form that can be unfolded
Kept(bytes, lost) ==
    FlattenSeq([i \in DOMAIN bytes |->
        IF bytes[i] \in lost THEN <<>> ELSE <<bytes[i]>>])

Receive ==
    /\ ~closed
    /\ received' > received
    /\ refused \subseteq refused'
    /\ output' = Kept(Direct(received'), refused')
    /\ UNCHANGED <<start, max, closed>>

Close ==
    /\ ~closed
    /\ closed' = TRUE
    /\ refused \subseteq refused'
    /\ output' = Kept(Complete(received), refused')
    /\ UNCHANGED <<start, max, received>>

Next == Receive \/ Close

Spec == Init /\ [][Next]_vars
=============================================================================
