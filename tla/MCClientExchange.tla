-------------------------- MODULE MCClientExchange --------------------------
(* ClientExchange on small instances. *)
EXTENDS ClientExchange, TLC

\* The calls are interchangeable.
CallSymmetry == Permutations(Calls)
=============================================================================
