----------------------------- MODULE MCSession -----------------------------
(* Any number of processes after each other, and an operator who audits;   *)
(* the widths of the commands they send are those of small words.          *)
EXTENDS Session, Command
=============================================================================
