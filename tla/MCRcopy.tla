------------------------------- MODULE MCRcopy -------------------------------
(* Model-checking instance of Rcopy; the .cfg files give the constants. *)
EXTENDS RcopyInv
=============================================================================
