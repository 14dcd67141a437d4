--------------------------- MODULE AtomicBinding ---------------------------
(* What kpm/core/task.c promises: a binding is one value.  It is replaced as  *)
(* a whole by set and clear; a pending one is bound once, to a task that its  *)
(* own request selects; a bound one may become STALE or EXITED, for good.     *)
EXTENDS Naturals

CONSTANTS
    Tasks,    \* tasks
    Identity, \* [Tasks -> [pid, tgid, uid, comm, start]]: spz_extract_identity
    Requests, \* bind requests: pid, mode, and uid, comm, start or None
    None

VARIABLE value

NoBinding == [generation |-> 0, state |-> "EMPTY", request |-> None, identity |-> None]

(* spz_selector_matches *)
SelectorMatches(request, task) ==
    LET current == Identity[task]
    IN  /\ \/ request.mode \in {"PID", "EITHER"} /\ current.pid = request.pid
           \/ request.mode \in {"TGID", "EITHER"} /\ current.tgid = request.pid
        /\ request.uid \in {None, current.uid}
        /\ request.comm \in {None, current.comm}
        /\ request.start \in {None, current.start}

Init == value = NoBinding

Set(request) ==
    value' = [generation |-> value.generation + 1, state |-> "PENDING",
              request |-> request, identity |-> None]

Clear == value' = [NoBinding EXCEPT !.generation = value.generation + 1]

BindTo(task) ==
    /\ value.state = "PENDING" /\ SelectorMatches(value.request, task)
    /\ value' = [value EXCEPT !.state = "BOUND", !.identity = task]

End(state) ==
    /\ value.state = "BOUND"
    /\ value' = [value EXCEPT !.state = state]

Next == \/ \E request \in Requests : Set(request)
        \/ Clear
        \/ \E task \in Tasks : BindTo(task)
        \/ \E state \in {"STALE", "EXITED"} : End(state)

Spec == Init /\ [][Next]_value
=============================================================================
