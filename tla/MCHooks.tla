------------------------------ MODULE MCHooks ------------------------------
(* Model-checking instance of NetworkHooks. *)
EXTENDS NetworkHooks

Env(seed, rate, drop, flip) ==
  [seed |-> seed, rate |-> rate, drop |-> drop, flip |-> flip]

\* Nothing set; two messages to drop and random flips; numbers that cannot be
\* read; a list with a negative number and one too wide for uint32_t; a list
\* that ends at its first bad token; empty lists and -1; both kinds of flip.
EnvironmentsInstance ==
  { Env(Unset, Unset, Unset, Unset),
    Env(Unset, Unset, << 3, 1 >>, << -1 >>),
    Env(NotANumber, NotANumber, << -1, UINT32 + 2 >>, Unset),
    Env(Unset, Unset, << 1, NotANumber, 2 >>, << >>),
    Env(7, 30, << >>, << 1 >>),
    Env(Unset, 30, << -1 >>, << NotANumber, 1 >>) }

\* An acknowledgement and a line of the lab: an even and an odd number of bytes
DatagramsInstance ==
  { [seq |-> 258, flag |-> 5, payload |-> << 1, 255 >>, ok |-> TRUE],
    [seq |-> 65536, flag |-> 0, payload |-> << 46 >>, ok |-> TRUE] }
=============================================================================
