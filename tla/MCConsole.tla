----------------------------- MODULE MCConsole ------------------------------
(* Model values for Console.                                               *)
EXTENDS Console, TLC
=============================================================================
