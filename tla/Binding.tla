------------------------------ MODULE Binding ------------------------------
(* The scheduler-visible task binding of kpm/core/task.c: four words behind a *)
(* sequence counter that is odd while a writer is inside.  Writers are the    *)
(* control side (set, clear), the callbacks that find the target on a CPU     *)
(* (observe, and marking it stale or dead) and the target's own do_exit,      *)
(* which can be preempted half way.  Words that are loaded or stored next to  *)
(* each other are one step: generation and state, request and identity.       *)
EXTENDS Naturals

CONSTANTS
    CPUs,         \* CPUs whose scheduler callback looks at the binding
    Tasks,        \* tasks
    Identity,     \* [Tasks -> [pid, tgid, uid, comm, start]]: spz_extract_identity
    Born,         \* those that live when the module is loaded
    Requests,     \* bind requests: pid, mode, and uid, comm, start or None
    None,
    Control,      \* the process that sets and clears the binding
    MaxGeneration \* bound: bindings set and cleared

(* A process is one of the three kinds; pids are unique among the living, and *)
(* pid, tgid and start time together are never used twice, which is what      *)
(* spz_same_strong_identity relies on.                                        *)
ASSUME BindingAssumption ==
    /\ CPUs \cap Tasks = {} /\ Control \notin CPUs \cup Tasks
    /\ None \notin Tasks \cup {"set", "clear", "bind", "match", "observe", "exit", "STALE", "EXITED"}
    /\ Born \subseteq Tasks
    /\ \A t, u \in Born : Identity[t].pid = Identity[u].pid => t = u
    /\ \A t, u \in Tasks :
        (\A field \in {"pid", "tgid", "start"} : Identity[t][field] = Identity[u][field]) => t = u

VARIABLES
    sequence, \* struct spz_binding
    word,     \* its other words: generation, state, request, identity
    life,     \* [Tasks -> ...]: the life of every task
    proc,     \* [Procs -> ...]: how far every process is in an operation
    committed \* history: the words when sequence was last even

vars == <<sequence, word, life, proc, committed>>

Atomic == INSTANCE AtomicBinding WITH value <- committed

(* A callback on a CPU, a task in its own do_exit, or the control side *)
Procs == CPUs \cup Tasks \cup {Control}

Idle == [pc |-> "idle", op |-> None, arg |-> None, expected |-> 0, before |-> 0,
         snap |-> Atomic!NoBinding]

Even(n) == n % 2 = 0

Update(p, rec) == proc' = [proc EXCEPT ![p] = rec]

(* The callback on CPU c is about task t, its current task. *)
IsAbout(c, t) == proc[c].pc # "idle" /\ proc[c].arg = t

(* Task t executes its own code: no callback of a context switch to it runs. *)
Executes(t) == \A c \in CPUs : ~IsAbout(c, t)

CanStep(p) == p \in Tasks => Executes(p)

-----------------------------------------------------------------------------
(* Operations begin.  spz_module_finish_after calls observe_current for the   *)
(* task now running on the CPU.  (spz_module_current_target, for arming and   *)
(* for exceptions, does what observe_current does with a BOUND binding.)      *)
Begin(p, op, arg) ==
    /\ proc[p].pc = "idle"
    /\ Update(p, [Idle EXCEPT !.pc = "before", !.op = op, !.arg = arg])
    /\ UNCHANGED <<sequence, word, committed>>

Observe(c, t) ==
    /\ life[t] \in {"alive", "exit", "zombie"} /\ Executes(t)
    /\ Begin(c, "observe", t) /\ UNCHANGED life

(* do_exit: spz_module_exit_before, later exit_notify and the end of the task *)
DoExit(t) ==
    /\ life[t] = "alive" /\ Executes(t)
    /\ Begin(t, "exit", t)
    /\ life' = [life EXCEPT ![t] = "exit"]

ExitNotify(t) ==
    /\ Executes(t) /\ proc[t].pc = "idle"
    /\ \/ life[t] = "exit" /\ life' = [life EXCEPT ![t] = "zombie"]
       \/ life[t] = "zombie" /\ life' = [life EXCEPT ![t] = "gone"]
    /\ UNCHANGED <<sequence, word, proc, committed>>

(* A task starts; its pid may have belonged to another one before. *)
Fork(t) ==
    /\ life[t] = "unborn"
    /\ \A u \in Tasks \ {t} : Identity[u].pid = Identity[t].pid => life[u] \in {"unborn", "gone"}
    /\ life' = [life EXCEPT ![t] = "alive"]
    /\ UNCHANGED <<sequence, word, proc, committed>>

(* spz_control_bind and the CLEAR request: never both at once *)
Write(op, arg) ==
    /\ proc[Control].pc = "idle" /\ word.generation < MaxGeneration
    /\ Update(Control, [Idle EXCEPT !.pc = "write", !.op = op, !.arg = arg])
    /\ UNCHANGED <<sequence, word, life, committed>>

-----------------------------------------------------------------------------
(* spz_binding_snapshot.  An odd or changed sequence is tried again, a        *)
(* bounded number of times (-EAGAIN).                                         *)
Leave(p) == Update(p, Idle)

ReadBefore(p) ==
    /\ proc[p].pc = "before" /\ CanStep(p)
    /\ \/ /\ Even(sequence)
          /\ Update(p, [proc[p] EXCEPT !.pc = "head", !.before = sequence])
       \/ ~Even(sequence) /\ Leave(p)
    /\ UNCHANGED <<sequence, word, life, committed>>

ReadHead(p) ==
    /\ proc[p].pc = "head" /\ CanStep(p)
    /\ Update(p, [proc[p] EXCEPT !.pc = "body", !.snap.generation = word.generation,
                                 !.snap.state = word.state])
    /\ UNCHANGED <<sequence, word, life, committed>>

ReadBody(p) ==
    /\ proc[p].pc = "body" /\ CanStep(p)
    /\ Update(p, [proc[p] EXCEPT !.pc = "after", !.snap.request = word.request,
                                 !.snap.identity = word.identity])
    /\ UNCHANGED <<sequence, word, life, committed>>

Retry(p) == Update(p, [proc[p] EXCEPT !.pc = "before", !.before = 0, !.snap = Idle.snap])

ReadAfter(p) ==
    /\ proc[p].pc = "after" /\ CanStep(p)
    /\ \/ sequence = proc[p].before /\ Update(p, [proc[p] EXCEPT !.pc = "decide"])
       \/ sequence # proc[p].before /\ Retry(p)
       \/ sequence # proc[p].before /\ Leave(p)
    /\ UNCHANGED <<sequence, word, life, committed>>

-----------------------------------------------------------------------------
(* Mutant: only the numbers are compared. *)
SameStrongIdentityByPid(left, right) ==
    \A field \in {"pid", "tgid"} : Identity[left][field] = Identity[right][field]

(* spz_same_strong_identity *)
SameStrongIdentity(left, right) ==
    \A field \in {"pid", "tgid", "start"} : Identity[left][field] = Identity[right][field]

(* What a snapshot leads to; of the snapshot, its generation is remembered.   *)
Goto(p, pc, op) ==
    Update(p, [Idle EXCEPT !.pc = pc, !.op = op, !.arg = proc[p].arg,
                           !.expected = proc[p].snap.generation])

(* spz_binding_observe_current: a BOUND binding is read once more, by         *)
(* spz_binding_matches_current.                                               *)
DecideObserve(p) ==
    LET snap == proc[p].snap
        binds == /\ snap.state = "PENDING" /\ life[proc[p].arg] # "zombie"
                 /\ Atomic!SelectorMatches(snap.request, proc[p].arg)
    IN  /\ proc[p].pc = "decide" /\ proc[p].op = "observe"
        /\ \/ snap.state = "BOUND" /\ Goto(p, "before", "match")
           \/ binds /\ Goto(p, "write", "bind")
           \/ snap.state # "BOUND" /\ ~binds /\ Leave(p)
        /\ UNCHANGED <<sequence, word, life, committed>>

(* spz_binding_matches_current *)
DecideMatch(p) ==
    LET snap == proc[p].snap
        t == proc[p].arg
        bound == snap.generation = proc[p].expected /\ snap.state = "BOUND"
                     /\ Identity[t].pid = Identity[snap.identity].pid
        same == SameStrongIdentity(snap.identity, t)
    IN  /\ proc[p].pc = "decide" /\ proc[p].op = "match"
        /\ \/ ~bound /\ Leave(p)
           \/ bound /\ ~same /\ Goto(p, "write", "STALE")
           \/ bound /\ same /\ life[t] = "zombie" /\ Goto(p, "write", "EXITED")
           \/ bound /\ same /\ life[t] # "zombie" /\ Goto(p, "matched", "match")
        /\ UNCHANGED <<sequence, word, life, committed>>

(* spz_binding_mark_exit *)
DecideExit(p) ==
    LET snap == proc[p].snap
        mine == snap.state = "BOUND" /\ SameStrongIdentity(snap.identity, proc[p].arg)
    IN  /\ proc[p].pc = "decide" /\ proc[p].op = "exit" /\ CanStep(p)
        /\ IF mine THEN Goto(p, "write", "EXITED") ELSE Leave(p)
        /\ UNCHANGED <<sequence, word, life, committed>>

(* The caller has its answer: 1. *)
Answered(p) ==
    /\ proc[p].pc = "matched" /\ Leave(p)
    /\ UNCHANGED <<sequence, word, life, committed>>

-----------------------------------------------------------------------------
(* spz_write_begin: compare-and-swap from even to odd, or -EAGAIN.            *)
WriteBegin(p) ==
    /\ proc[p].pc = "write" /\ CanStep(p)
    /\ \/ /\ Even(sequence) /\ sequence' = sequence + 1
          /\ Update(p, [proc[p] EXCEPT !.pc = "check"])
       \/ ~Even(sequence) /\ Leave(p) /\ UNCHANGED sequence
    /\ UNCHANGED <<word, life, committed>>

(* Mutant: clearing does not begin a new generation. *)
WrittenSameGeneration(p) ==
    LET op == proc[p].op
    IN  CASE op = "set"   -> [generation |-> word.generation + 1, state |-> "PENDING",
                              request |-> proc[p].arg, identity |-> None]
          [] op = "clear" -> [Atomic!NoBinding EXCEPT !.generation = word.generation]
          [] op = "bind"  -> [word EXCEPT !.state = "BOUND", !.identity = proc[p].arg]
          [] OTHER        -> [word EXCEPT !.state = op]

(* The binding as an operation leaves it *)
Written(p) ==
    LET op == proc[p].op
    IN  CASE op = "set"   -> [generation |-> word.generation + 1, state |-> "PENDING",
                              request |-> proc[p].arg, identity |-> None]
          [] op = "clear" -> [Atomic!NoBinding EXCEPT !.generation = word.generation + 1]
          [] op = "bind"  -> [word EXCEPT !.state = "BOUND", !.identity = proc[p].arg]
          [] OTHER        -> [word EXCEPT !.state = op]

(* Mutant: only the state is looked at again. *)
WriteCheckNoGeneration(p) ==
    LET required == IF proc[p].op = "bind" THEN "PENDING" ELSE "BOUND"
        valid == proc[p].op \in {"set", "clear"} \/ word.state = required
    IN  /\ proc[p].pc = "check" /\ CanStep(p)
        /\ Update(p, IF valid THEN [proc[p] EXCEPT !.pc = "store body", !.snap = Written(p)]
                              ELSE [proc[p] EXCEPT !.pc = "end", !.op = None])
        /\ UNCHANGED <<sequence, word, life, committed>>

(* Inside: binding and marking need the generation of their snapshot and the  *)
(* state they start from, else -ESTALE.                                       *)
WriteCheck(p) ==
    LET required == IF proc[p].op = "bind" THEN "PENDING" ELSE "BOUND"
        valid == \/ proc[p].op \in {"set", "clear"}
                 \/ word.generation = proc[p].expected /\ word.state = required
    IN  /\ proc[p].pc = "check" /\ CanStep(p)
        /\ Update(p, IF valid THEN [proc[p] EXCEPT !.pc = "store body", !.snap = Written(p)]
                          ELSE [proc[p] EXCEPT !.pc = "end", !.op = None])
        /\ UNCHANGED <<sequence, word, life, committed>>

(* The stores: request and identity, then generation and state.               *)
WriteBody(p) ==
    /\ proc[p].pc = "store body" /\ CanStep(p)
    /\ word' = [word EXCEPT !.request = proc[p].snap.request,
                            !.identity = proc[p].snap.identity]
    /\ Update(p, [proc[p] EXCEPT !.pc = "store head"])
    /\ UNCHANGED <<sequence, life, committed>>

WriteHead(p) ==
    /\ proc[p].pc = "store head" /\ CanStep(p)
    /\ word' = proc[p].snap
    /\ Update(p, [proc[p] EXCEPT !.pc = "end", !.snap = Idle.snap])
    /\ UNCHANGED <<sequence, life, committed>>

(* Mutant: the sequence goes back to its old value. *)
WriteEndBack(p) ==
    /\ proc[p].pc = "end" /\ CanStep(p)
    /\ sequence' = sequence - 1 /\ committed' = word
    /\ IF proc[p].op = "bind"
       THEN Update(p, [proc[p] EXCEPT !.pc = "matched"]) ELSE Leave(p)
    /\ UNCHANGED <<word, life>>

(* spz_write_end; observe_current then returns 1.                             *)
WriteEnd(p) ==
    /\ proc[p].pc = "end" /\ CanStep(p)
    /\ sequence' = sequence + 1 /\ committed' = word
    /\ IF proc[p].op = "bind"
       THEN Update(p, [proc[p] EXCEPT !.pc = "matched"]) ELSE Leave(p)
    /\ UNCHANGED <<word, life>>

-----------------------------------------------------------------------------
Init ==
    /\ sequence = 0 /\ word = Atomic!NoBinding /\ committed = Atomic!NoBinding
    /\ life = [t \in Tasks |-> IF t \in Born THEN "alive" ELSE "unborn"]
    /\ proc = [p \in Procs |-> Idle]

Read(p) == ReadBefore(p) \/ ReadHead(p) \/ ReadBody(p) \/ ReadAfter(p)

Decide(p) == DecideObserve(p) \/ DecideMatch(p) \/ DecideExit(p) \/ Answered(p)

WriteStep(p) == WriteBegin(p) \/ WriteCheck(p) \/ WriteBody(p) \/ WriteHead(p) \/ WriteEnd(p)

Step(p) == Read(p) \/ Decide(p) \/ WriteStep(p)

Next == \/ \E p \in Procs : Step(p)
        \/ \E c \in CPUs, t \in Tasks : Observe(c, t)
        \/ \E t \in Tasks : DoExit(t) \/ ExitNotify(t) \/ Fork(t)
        \/ Write("clear", None)
        \/ \E r \in Requests : Write("set", r)

Spec == Init /\ [][Next]_vars

-----------------------------------------------------------------------------
(* A snapshot that spz_binding_snapshot is about to return is the binding as  *)
(* a whole: if the sequence is what it was, the words that were read one by   *)
(* one are those of one and the same binding.                                 *)
SnapshotAtomic ==
    \A p \in Procs : proc[p].pc = "after" /\ proc[p].before = sequence =>
        proc[p].snap = committed

(* "PID reuse never silently inherits a breakpoint": a callback is told that  *)
(* its task is the target of a generation only if that very task was bound.   *)
NeverInherited ==
    \A c \in CPUs : proc[c].pc = "matched" /\ committed.generation = proc[c].expected =>
        committed.identity = proc[c].arg

(* A binding is given up as STALE or EXITED only when the task it was bound   *)
(* to has entered do_exit, however late the process is that marks it.         *)
GivenUpOnlyDead ==
    committed.state \in {"STALE", "EXITED"} =>
        life[committed.identity] \in {"exit", "zombie", "gone"}

(* Seen from the even values of the sequence, the binding is one atomic value. *)
ImplementsAtomic == Atomic!Spec

-----------------------------------------------------------------------------
(* The inductive invariant.  Types, ...                                       *)
States == {"EMPTY", "PENDING", "BOUND", "STALE", "EXITED"}

WordType == [generation : Nat, state : States, request : Requests \cup {None},
             identity : Tasks \cup {None}]

InWrite == {"check", "store body", "store head", "end"}

Pcs == InWrite \cup {"idle", "before", "head", "body", "after", "decide", "write", "matched"}

Operations == {"observe", "match", "exit", "bind", "STALE", "EXITED", "set", "clear", None}

OpType == [pc : Pcs, op : Operations, arg : Tasks \cup Requests \cup {None},
           expected : Nat, before : Nat, snap : WordType]

Typed ==
    /\ sequence \in Nat /\ word \in WordType /\ committed \in WordType
    /\ life \in [Tasks -> {"unborn", "alive", "exit", "zombie", "gone"}]
    /\ proc \in [Procs -> OpType]

(* ... the writers' lock, which is the parity of the sequence, ...            *)
Exclusion ==
    /\ \A p, q \in Procs : proc[p].pc \in InWrite /\ proc[q].pc \in InWrite => p = q
    /\ \A p \in Procs : proc[p].pc \in InWrite => ~Even(sequence)
    /\ Even(sequence) => word = committed

(* ... the lives of the tasks: one pid, one living task; a task that was      *)
(* bound has been born; a callback runs on behalf of a living one, ...        *)
Living == {"alive", "exit", "zombie"}

Dead == {"exit", "zombie", "gone"}

WasBound(binding) == binding.state \in {"BOUND", "STALE", "EXITED"}

Lives ==
    /\ \A t, u \in Tasks :
        Identity[t].pid = Identity[u].pid /\ life[t] \in Living /\ life[u] \in Living => t = u
    /\ WasBound(committed) => committed.identity \in Tasks /\ life[committed.identity] # "unborn"

(* ... how a binding may have changed since it was seen: a later generation,  *)
(* or the same one, where the request stays and so does, once bound, the task *)
Advanced(old, new) ==
    \/ old.generation < new.generation
    \/ /\ old.generation = new.generation /\ old.request = new.request
       /\ WasBound(old) => WasBound(new) /\ new.identity = old.identity

(* ... what each process is at: who does what, ...                            *)
Role(p) ==
    proc[p].pc # "idle" =>
        /\ p \in CPUs => /\ proc[p].op \in {"observe", "match", "bind", "STALE", "EXITED", None}
                         /\ proc[p].arg \in Tasks /\ life[proc[p].arg] \in Living
        /\ p \in Tasks => /\ proc[p].op \in {"exit", "EXITED", None}
                          /\ proc[p].arg = p /\ life[p] = "exit"
        /\ p = Control => /\ proc[p].op \in {"set", "clear"}
                          /\ proc[p].op = "set" => proc[p].arg \in Requests
                          /\ proc[p].pc \in InWrite \cup {"write"}

(* ... what a reader has read, when no writer has been inside since, ...      *)
Reading(p) ==
    LET op == proc[p]
    IN  /\ op.pc \in {"head", "body", "after"} => Even(op.before) /\ op.before <= sequence
        /\ op.pc \in {"body", "after"} /\ op.before = sequence =>
              op.snap.generation = committed.generation /\ op.snap.state = committed.state
        /\ op.pc = "after" /\ op.before = sequence =>
              op.snap.request = committed.request /\ op.snap.identity = committed.identity
        /\ op.pc = "decide" => /\ Advanced(op.snap, committed)
                               /\ WasBound(op.snap) => op.snap.identity \in Tasks

(* ... what a decision is still good for, if the generation is the same, ...  *)
Decided(p) ==
    LET op == proc[p]
        now == committed.generation = op.expected
    IN  op.pc \in {"write", "check", "matched"} =>
            /\ op.expected <= committed.generation \/ op.op \in {"set", "clear"}
            /\ op.op \in {"bind", "STALE", "EXITED", "match", "set", "clear"}
            /\ op.pc # "matched" => op.op # "match"
            /\ op.pc # "matched" /\ op.op = "bind" /\ now =>
                  Atomic!SelectorMatches(committed.request, op.arg)
            /\ op.op \in {"STALE", "EXITED"} /\ now =>
                  WasBound(committed) /\ life[committed.identity] \in Dead
            /\ op.pc = "matched" => /\ op.op \in {"bind", "match"}
                                    /\ now => WasBound(committed) /\ committed.identity = op.arg

(* ... and what a writer that passed the check is about to publish.           *)
Legal(p, new) ==
    LET op == proc[p]
    IN  \/ /\ op.op = "set"
           /\ new = [generation |-> committed.generation + 1, state |-> "PENDING",
                     request |-> op.arg, identity |-> None]
        \/ /\ op.op = "clear"
           /\ new = [Atomic!NoBinding EXCEPT !.generation = committed.generation + 1]
        \/ /\ op.op = "bind" /\ committed.generation = op.expected
           /\ committed.state = "PENDING" /\ Atomic!SelectorMatches(committed.request, op.arg)
           /\ new = [committed EXCEPT !.state = "BOUND", !.identity = op.arg]
        \/ /\ op.op \in {"STALE", "EXITED"} /\ committed.state = "BOUND"
           /\ life[committed.identity] \in Dead
           /\ new = [committed EXCEPT !.state = op.op]

Writing(p) ==
    /\ proc[p].pc = "check" => word = committed
    /\ proc[p].pc \in {"store body", "store head"} => Legal(p, proc[p].snap)
    /\ proc[p].pc = "end" => IF proc[p].op = None THEN word = committed ELSE Legal(p, word)

IInv ==
    /\ Typed /\ Exclusion /\ Lives /\ GivenUpOnlyDead
    /\ \A p \in Procs : Role(p) /\ Reading(p) /\ Decided(p) /\ Writing(p)
=============================================================================
