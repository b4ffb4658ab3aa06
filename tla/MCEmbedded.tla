----------------------------- MODULE MCEmbedded -----------------------------
(* EmbeddedDB on small instances. *)
EXTENDS EmbeddedInvariants, TLC

\* DBs, calls and threads are interchangeable; in runs without liveness only.
Symmetry == Permutations(DBs) \cup Permutations(Calls) \cup Permutations(Threads)
=============================================================================
