----------------------------- MODULE MCSession ------------------------------
(* Model values for Session.                                               *)
EXTENDS Session, TLC
=============================================================================
