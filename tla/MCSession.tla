------------------------------ MODULE MCSession ------------------------------
(* Model-checking instance of RcopySession; the .cfg files give the constants. *)
EXTENDS RcopySession
=============================================================================
