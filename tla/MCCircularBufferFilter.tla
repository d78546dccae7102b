----------------------- MODULE MCCircularBufferFilter -----------------------
(***************************************************************************)
(* CircularBufferFilter for TLC: units of 2 bytes instead of 1 MiB, an int *)
(* of 5 bits and an unsigned long long of 8 bits, so that --output-limit   *)
(* overflows with max = 9 (18 bytes) instead of 2048 (2^31 bytes).         *)
(***************************************************************************)
EXTENDS CircularBufferFilter

\* No start, a start longer than the rest, a start shorter than the rest, and
\* a maximum that wraps to a size that cannot be allocated.
Limits == {<<0, 1>>, <<1, 2>>, <<2, 3>>, <<1, 3>>, <<1, 9>>}
=============================================================================
