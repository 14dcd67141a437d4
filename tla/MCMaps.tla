------------------------------- MODULE MCMaps ------------------------------
(* A small instance of Maps: one client, two pages, two generations. *)
EXTENDS Maps

CONSTANT r1

MCReaders == {r1}
MCPages == 0 .. 1
=============================================================================
