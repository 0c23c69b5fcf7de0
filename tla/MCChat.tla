------------------------------- MODULE MCChat -------------------------------
(* Model-checking instance of Chat: the constants the .cfg files cannot write. *)
EXTENDS ChatInv

CONSTANTS c1, c2, c3, h1, h2

ToOne == {<< h1 >>}
ToOneOrBoth == {<< h1 >>, << h2, h1 >>}
ToBoth == {<< h2, h1 >>}

Symmetry == Permutations(Clients)
=============================================================================
