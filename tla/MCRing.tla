------------------------------- MODULE MCRing -------------------------------
(* Small instances of Ring: one producer per CPU, and two on one CPU. *)
EXTENDS Ring

CONSTANTS pA, pB

MCProducers == {pA, pB}
MCOwnCpu == [p \in {pA, pB} |-> IF p = pA THEN 0 ELSE 1]
MCSameCpu == [p \in {pA, pB} |-> 0]
MCHandlers == {pB}
=============================================================================
