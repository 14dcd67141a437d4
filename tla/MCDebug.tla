------------------------------ MODULE MCDebug ------------------------------
(* Small instance of DebugController: two breakpoint comparators and one      *)
(* watchpoint comparator.                                                     *)
EXTENDS DebugController

CONSTANTS v0, vT, attr, t1

MCValues == {v0, vT}
MCAttrs == {attr}
MCRequests == {[kind |-> k, value |-> vT, attr |-> attr, mode |-> m] :
                   k \in Kinds, m \in Modes}
MCTargets == {t1}
=============================================================================
