----------------------------- MODULE MCWatcher -----------------------------
(***************************************************************************)
(* Watcher for TLC.  The code samples 5 times a second at the beginning    *)
(* and then looks for new processes every 10 ticks; it kills after 20      *)
(* ticks.  Here the periods are 1, 2 or 3 ticks, which keeps each of them  *)
(* longer than one tick somewhere and makes partial and full samples       *)
(* alternate.                                                              *)
(***************************************************************************)
EXTENDS Watcher

\* A sample finds nothing, the limit, or more than the limit.
NoSizes == {0}
SomeSizes == 0..2
=============================================================================
