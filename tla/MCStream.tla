------------------------------ MODULE MCStream ------------------------------
(* Instances of SecureStream for TLC: replies at and just past each bound.  *)
EXTENDS StreamInvariants

Boundary == [length : 0..(MaxHeader + 1), cr : BOOLEAN, legible : BOOLEAN,
             body : 0..(MaxFrame + 1)]
MCReplies == {r \in Boundary : r.legible \/ r.length = 1}
=============================================================================
