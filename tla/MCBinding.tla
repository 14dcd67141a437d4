----------------------------- MODULE MCBinding -----------------------------
(* A small instance of Binding: a process with two threads, and a process     *)
(* that gets the pid of the first thread after its death.                     *)
EXTENDS Binding

CONSTANTS c1, leader, thread, reused

MCCPUs == {c1}
MCTasks == {leader, thread, reused}
MCBorn == {leader, thread}
MCIdentity ==
    [t \in MCTasks |->
        [pid |-> IF t = thread THEN 2 ELSE 1, tgid |-> 1, uid |-> 0, comm |-> "app",
         start |-> CASE t = leader -> 1 [] t = thread -> 2 [] t = reused -> 3]]
MCRequests == {[pid |-> 1, mode |-> "EITHER", uid |-> None, comm |-> None, start |-> None]}

(* Only the parity of the sequence and whether it has changed are looked at. *)
View == <<Even(sequence), word, life, committed,
          [p \in Procs |-> [proc[p] EXCEPT !.before = (@ = sequence)]]>>
=============================================================================
