-------------------------- MODULE MCProcessHistory --------------------------
(***************************************************************************)
(* ProcessHistory for TLC: 3 cells instead of 10, and enough pushes for    *)
(* the last cell to overflow many times (it does at every 8th push).       *)
(***************************************************************************)
EXTENDS ProcessHistory
=============================================================================
