------------------------------ MODULE MCUpdate ------------------------------
(* A small instance of Update for TLC.                                     *)
EXTENDS Update

(* The third update has the process id that the first had.                 *)
ReusedPid == <<1, 2, 1>>
=============================================================================
