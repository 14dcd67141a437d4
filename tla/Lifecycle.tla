----------------------------- MODULE Lifecycle -----------------------------
(* Loading and unloading the kernel module (main.c, hooks.c) around the       *)
(* one-slot request mailbox (async.c) and the serialised control entry        *)
(* (control.c).  What a request or a callback does to the session is taken    *)
(* from Kpm: here it only leaves something live, or clears it.                *)
EXTENDS Naturals, Sequences, FiniteSets

CONSTANTS
    CPUs,        \* online CPUs; each stands for its idle task as well
    Tasks,       \* tasks that run hooked functions; preemptible anywhere
    Callers,     \* processes that call the control entry
    Commands,    \* [Callers -> sets of "bind", "request", "status"]: what each sends
    Hooks,       \* the hooked functions, in the order they are installed
    GateClosed,  \* SPZ_GATE_CLOSED
    MaxRequests  \* bound: requests accepted between load and unload

ASSUME LifecycleAssumption ==
    /\ IsFiniteSet(CPUs) /\ IsFiniteSet(Tasks) /\ CPUs \cap Tasks = {}
    /\ GateClosed \in Nat /\ GateClosed > Cardinality(CPUs) + Cardinality(Tasks) + 1
    /\ MaxRequests \in Nat /\ Len(Hooks) \in Nat \ {0}
    /\ Commands \in [Callers -> SUBSET {"bind", "request", "status"}]

VARIABLES
    loader,      \* [pc, path]: spz_kpm_init and spz_kpm_exit, called one at a time
    flags,       \* those set of "ready", "accepting", "initialized", "exit_started"
    transport,   \* spz_transport_context set and transport_ready
    installed,   \* how many of Hooks are installed, the first ones first
    active_handlers, control_busy,
    thread,      \* [Threads -> pc]: how far a hooked function is in a callback
    live,        \* what the session holds: "bound", "held" (a task or a comparator)
    each_cpu,    \* [by, todo]: each_cpu_active and the CPUs still to run
    request,     \* struct spz_async_request
    pending,     \* the work item is queued
    work,        \* its function: "idle", "execute", "store", "return"
    ctl,         \* [Callers -> [pc, seen, overlapped]]: control calls
    scratch,     \* control_scratch: the caller whose answer it holds
    outcome,     \* history: what executing each request returned
    reset        \* history: a refused unload zeroed a count of running callbacks

gates == <<active_handlers, control_busy, reset>>
mailbox == <<request, pending, work, outcome>>
control == <<ctl, scratch>>
vars == <<loader, flags, transport, installed, gates, thread, live, each_cpu, mailbox, control>>

-----------------------------------------------------------------------------
Threads == CPUs \cup Tasks

Word == 2 * GateClosed

Busy == request.state \in {"PENDING", "RUNNING"}

FreeRequest == [state |-> "FREE", id |-> 0, status |-> "none"]

NoCall == [pc |-> "out", seen |-> FreeRequest, overlapped |-> FALSE]

Nobody == "nobody"

NoCpus == [by |-> "free", todo |-> {}]

At(pc) == loader.pc = pc

Goto(pc) == loader' = [loader EXCEPT !.pc = pc]

(* The image is in memory and the loader's list leads control calls to it. *)
Listed == At("listed")

-----------------------------------------------------------------------------
(* The hooked functions.  A hook's callback pointer is fetched from the       *)
(* chain, the callback looks at ready and passes the gate (spz_handler_enter),*)
(* and what it does it does on what it saw.                                   *)
Fetch(t) ==
    /\ thread[t] = "out" /\ installed > 0
    /\ thread' = [thread EXCEPT ![t] = "fetched"]
    /\ UNCHANGED <<loader, flags, transport, installed, gates, live, each_cpu, mailbox, control>>

(* Mutant: a callback waits for the closed gate to open. *)
HandlerEnterWaits(t) ==
    /\ thread[t] = "fetched"
    /\ \/ /\ "ready" \notin flags
          /\ thread' = [thread EXCEPT ![t] = "out"] /\ UNCHANGED active_handlers
       \/ /\ "ready" \in flags /\ active_handlers < GateClosed - 1
          /\ active_handlers' = active_handlers + 1
          /\ thread' = [thread EXCEPT ![t] = "inside"]
       \/ "ready" \in flags /\ active_handlers >= GateClosed - 1 /\ UNCHANGED <<thread, active_handlers>>
    /\ UNCHANGED <<loader, flags, transport, installed, control_busy, reset, live, each_cpu,
                   mailbox, control>>

HandlerEnter(t) ==
    /\ thread[t] = "fetched"
    /\ IF "ready" \in flags /\ active_handlers < GateClosed - 1
       THEN /\ active_handlers' = active_handlers + 1
            /\ thread' = [thread EXCEPT ![t] = "inside"]
       ELSE thread' = [thread EXCEPT ![t] = "out"] /\ UNCHANGED active_handlers
    /\ UNCHANGED <<loader, flags, transport, installed, control_busy, reset, live, each_cpu,
                   mailbox, control>>

HandlerLeave(t) ==
    /\ active_handlers' = (active_handlers + Word - 1) % Word
    /\ thread' = [thread EXCEPT ![t] = "out"]

(* finish_after finds the binding's target, or not and leaves; it then        *)
(* retains the task or arms a comparator.                                     *)
Observe(t) ==
    /\ thread[t] = "inside"
    /\ \/ HandlerLeave(t)
       \/ /\ t \in Tasks /\ "bound" \in live
          /\ thread' = [thread EXCEPT ![t] = "act"] /\ UNCHANGED active_handlers
    /\ UNCHANGED <<loader, flags, transport, installed, control_busy, reset, live, each_cpu,
                   mailbox, control>>

Act(t) ==
    /\ thread[t] = "act"
    /\ live' = live \cup {"held"}
    /\ HandlerLeave(t)
    /\ UNCHANGED <<loader, flags, transport, installed, control_busy, reset, each_cpu, mailbox,
                   control>>

CallbackStep(t) == HandlerEnter(t) \/ Observe(t) \/ Act(t)

Callback(t) == Fetch(t) \/ CallbackStep(t)

-----------------------------------------------------------------------------
(* spz_kpatch_run_each_cpu, for a request or as a barrier: schedule_on_each_cpu *)
(* may fail before anything ran, else a kworker gets every CPU in turn, which *)
(* it can only after the callback of the CPU's idle task.                     *)
StartEachCpu(by) == each_cpu.by = "free" /\ each_cpu' = [by |-> by, todo |-> CPUs]

EachCpu(c) ==
    /\ c \in each_cpu.todo /\ thread[c] = "out"
    /\ each_cpu' = [each_cpu EXCEPT !.todo = @ \ {c}]
    /\ UNCHANGED <<loader, flags, transport, installed, gates, thread, live, mailbox, control>>

EachCpuDone(by) == each_cpu.by = by /\ each_cpu.todo = {} /\ each_cpu' = NoCpus

-----------------------------------------------------------------------------
(* A control call: found through the list, admitted by control_busy.          *)
At_(a, pc) == ctl[a].pc = pc

Answer(a) == ctl' = [ctl EXCEPT ![a].pc = "answer"] /\ scratch' = a

Refuse(a) == ctl' = [ctl EXCEPT ![a].pc = "refuse"] /\ UNCHANGED scratch

Step(a, pc) == ctl' = [ctl EXCEPT ![a].pc = pc] /\ UNCHANGED scratch

FirstStep(op) == CASE op = "bind" -> "bind" [] op = "status" -> "before" [] OTHER -> "submit"

(* Mutant: two calls are admitted at a time. *)
CallAdmitted(a, op) ==
    /\ Listed /\ At_(a, "out") /\ "initialized" \in flags
    /\ op = "request" => request.id < MaxRequests
    /\ control_busy' = 1
    /\ ctl' = [b \in Callers |->
                IF b = a THEN [NoCall EXCEPT !.pc = FirstStep(op)]
                         ELSE [ctl[b] EXCEPT !.overlapped = @ \/ At_(b, "copy")]]
    /\ UNCHANGED <<loader, flags, transport, installed, active_handlers, reset, thread, live,
                   each_cpu, mailbox, scratch>>

Call(a, op) ==
    /\ Listed /\ At_(a, "out") /\ "initialized" \in flags /\ control_busy = 0
    /\ op = "request" => request.id < MaxRequests
    /\ control_busy' = 1
    /\ ctl' = [b \in Callers |->
                IF b = a THEN [NoCall EXCEPT !.pc = FirstStep(op)]
                         ELSE [ctl[b] EXCEPT !.overlapped = @ \/ At_(b, "copy")]]
    /\ UNCHANGED <<loader, flags, transport, installed, active_handlers, reset, thread, live,
                   each_cpu, mailbox, scratch>>

(* spz_control_bind *)
Bind(a) ==
    /\ At_(a, "bind")
    /\ IF "accepting" \in flags /\ ~Busy /\ live = {}
       THEN live' = {"bound"} /\ Answer(a)
       ELSE Refuse(a) /\ UNCHANGED live
    /\ UNCHANGED <<loader, flags, transport, installed, gates, thread, each_cpu, mailbox>>

Published == [state |-> "PENDING", id |-> request.id + 1, status |-> "inprogress"]

(* Mutant: accepting_commands is not looked at. *)
SubmitAlways(a) ==
    /\ At_(a, "submit")
    /\ IF ~Busy THEN request' = Published /\ Step(a, "queue") ELSE Refuse(a) /\ UNCHANGED request
    /\ UNCHANGED <<loader, flags, transport, installed, gates, thread, live, each_cpu, pending,
                   work, outcome>>

(* spz_control_async and spz_async_submit: the slot is claimed (RUNNING, which *)
(* only a holder of the control gate could see), filled and published, ...    *)
Submit(a) ==
    /\ At_(a, "submit")
    /\ IF "accepting" \in flags /\ ~Busy
       THEN request' = Published /\ Step(a, "queue")
       ELSE Refuse(a) /\ UNCHANGED request
    /\ UNCHANGED <<loader, flags, transport, installed, gates, thread, live, each_cpu, pending,
                   work, outcome>>

(* ... the work item queued (refused if it is still pending), ...             *)
Queue(a) ==
    /\ At_(a, "queue")
    /\ IF transport /\ ~pending
       THEN pending' = TRUE /\ Step(a, "id") /\ UNCHANGED request
       ELSE /\ request' = [request EXCEPT !.state = "DONE", !.status = "error"]
            /\ Refuse(a) /\ UNCHANGED pending
    /\ UNCHANGED <<loader, flags, transport, installed, gates, thread, live, each_cpu, work,
                   outcome>>

(* ... and the id read back for the answer, when the worker may be done.      *)
ReadId(a) ==
    /\ At_(a, "id")
    /\ Answer(a)
    /\ UNCHANGED <<loader, flags, transport, installed, gates, thread, live, each_cpu, mailbox>>

(* spz_async_snapshot for a status command: state, fields, state again.  The  *)
(* caller's gate keeps other submissions out, so that the state changes twice *)
(* at most and the sixteen attempts suffice.                                  *)
SnapshotBefore(a) ==
    /\ At_(a, "before")
    /\ ctl' = [ctl EXCEPT ![a].pc = "fields",
                          ![a].seen = [FreeRequest EXCEPT !.state = request.state]]
    /\ UNCHANGED <<loader, flags, transport, installed, gates, thread, live, each_cpu, mailbox,
                   scratch>>

SnapshotFields(a) ==
    /\ At_(a, "fields")
    /\ ctl' = [ctl EXCEPT ![a].pc = "after",
                          ![a].seen = [request EXCEPT !.state = ctl[a].seen.state]]
    /\ UNCHANGED <<loader, flags, transport, installed, gates, thread, live, each_cpu, mailbox,
                   scratch>>

SnapshotAfter(a) ==
    /\ At_(a, "after")
    /\ IF request.state = ctl[a].seen.state THEN Answer(a) ELSE Step(a, "before")
    /\ UNCHANGED <<loader, flags, transport, installed, gates, thread, live, each_cpu, mailbox>>

(* The gate is released, then the answer is put together from control_scratch *)
(* (an error from a constant) and copied to the caller.                       *)
Release(a) ==
    /\ ctl[a].pc \in {"answer", "refuse"}
    /\ control_busy' = 0
    /\ ctl' = [ctl EXCEPT ![a] =
                  IF At_(a, "answer") THEN [NoCall EXCEPT !.pc = "copy"] ELSE NoCall]
    /\ UNCHANGED <<loader, flags, transport, installed, active_handlers, reset, thread, live,
                   each_cpu, mailbox, scratch>>

Copy(a) ==
    /\ At_(a, "copy")
    /\ ctl' = [ctl EXCEPT ![a] = NoCall]
    /\ UNCHANGED <<loader, flags, transport, installed, gates, thread, live, each_cpu, mailbox,
                   scratch>>

ControlStep(a) ==
    \/ Bind(a) \/ Submit(a) \/ Queue(a) \/ ReadId(a)
    \/ SnapshotBefore(a) \/ SnapshotFields(a) \/ SnapshotAfter(a) \/ Release(a) \/ Copy(a)

-----------------------------------------------------------------------------
(* spz_kpatch_async_worker and spz_async_run.  A queued item starts when its  *)
(* function is not running; only a PENDING request is executed.               *)
(* Mutant: the status of the execution is not stored. *)
ExecutedUnstored(status) ==
    /\ outcome' = [outcome EXCEPT ![request.id] = status]
    /\ work' = "store"
    /\ request' = [request EXCEPT !.state = "RUNNING"]

Executed(status) ==
    /\ outcome' = [outcome EXCEPT ![request.id] = status]
    /\ work' = "store"
    /\ request' = [request EXCEPT !.state = "RUNNING", !.status = status]

(* Mutant: per-CPU work that cannot be scheduled ends the function at once. *)
WorkStartReturns ==
    /\ pending /\ work = "idle" /\ pending' = FALSE
    /\ \/ /\ request.state = "PENDING" /\ StartEachCpu("worker")
          /\ work' = "execute"
       \/ work' = "return" /\ UNCHANGED each_cpu
    /\ request' = [request EXCEPT !.state = "RUNNING"]
    /\ UNCHANGED <<loader, flags, transport, installed, gates, thread, live, outcome, control>>

(* spz_module_async_execute: work on every CPU, if it can be scheduled, ...   *)
WorkStart ==
    /\ pending /\ work = "idle" /\ pending' = FALSE
    /\ IF request.state # "PENDING"
       THEN work' = "return" /\ UNCHANGED <<request, each_cpu, outcome>>
       ELSE \/ /\ StartEachCpu("worker") /\ UNCHANGED outcome
               /\ request' = [request EXCEPT !.state = "RUNNING"]
               /\ work' = "execute"
            \/ Executed("error") /\ UNCHANGED each_cpu
    /\ UNCHANGED <<loader, flags, transport, installed, gates, thread, live, control>>

(* ... and, for CLEAR, nothing of the session left if no callback is inside;  *)
(* what the other requests leave is still live for this module.               *)
WorkExecute ==
    /\ work = "execute" /\ EachCpuDone("worker")
    /\ \/ active_handlers = 0 /\ live' = {} /\ Executed("ok")
       \/ \E status \in {"ok", "error"} : UNCHANGED live /\ Executed(status)
    /\ UNCHANGED <<loader, flags, transport, installed, gates, thread, pending, control>>

(* The status has been stored; now the state. *)
WorkStore ==
    /\ work = "store"
    /\ request' = [request EXCEPT !.state = "DONE"]
    /\ work' = "return"
    /\ UNCHANGED <<loader, flags, transport, installed, gates, thread, live, each_cpu, pending,
                   outcome, control>>

WorkReturn ==
    /\ work = "return" /\ work' = "idle"
    /\ UNCHANGED <<loader, flags, transport, installed, gates, thread, live, each_cpu, request,
                   pending, outcome, control>>

WorkStep == WorkStart \/ WorkExecute \/ WorkStore \/ WorkReturn

-----------------------------------------------------------------------------
(* spz_kpm_init: arguments, versions and spz_kpatch_runtime_prepare; a failure *)
(* leaves nothing (spz_kpatch_runtime_zero).                                  *)
Load ==
    /\ At("absent")
    /\ transport' = TRUE /\ live' = {} /\ reset' = FALSE
    /\ loader' = [pc |-> "install", path |-> "init"]
    /\ UNCHANGED <<flags, installed, active_handlers, control_busy, thread, each_cpu, mailbox,
                   control>>

(* spz_hooks_install: the next hook, or a missing symbol or failing wrap ...  *)
InstallHook ==
    /\ At("install")
    /\ \/ installed < Len(Hooks) /\ installed' = installed + 1 /\ UNCHANGED <<loader, flags>>
       \/ installed < Len(Hooks) /\ Goto("remove") /\ UNCHANGED <<installed, flags>>
       \/ /\ installed = Len(Hooks) /\ Goto("listed") /\ UNCHANGED installed
          /\ flags' = {"ready", "accepting", "initialized"}
    /\ UNCHANGED <<transport, gates, thread, live, each_cpu, mailbox, control>>

(* ... spz_hooks_remove: the installed hooks in reverse order ...             *)
RemoveHook ==
    /\ At("remove")
    /\ IF installed > 0
       THEN installed' = installed - 1
            /\ Goto(IF installed = 1 THEN "quiesce" ELSE "remove")
       ELSE Goto("barrier") /\ UNCHANGED installed
    /\ UNCHANGED <<flags, transport, gates, thread, live, each_cpu, mailbox, control>>

(* Mutant: no grace period after the hooks are removed. *)
QuiesceNoWait ==
    /\ At("quiesce")
    /\ Goto("barrier")
    /\ flags' = flags \cup (IF loader.path = "exit" THEN {"exit_started"} ELSE {})
    /\ UNCHANGED <<transport, installed, gates, thread, live, each_cpu, mailbox, control>>

(* ... and synchronize_rcu_tasks, which waits for every task but the idle ones. *)
Quiesce ==
    /\ At("quiesce") /\ \A t \in Tasks : thread[t] = "out"
    /\ Goto("barrier")
    /\ flags' = flags \cup (IF loader.path = "exit" THEN {"exit_started"} ELSE {})
    /\ UNCHANGED <<transport, installed, gates, thread, live, each_cpu, mailbox, control>>

(* spz_cpu_barrier on every CPU.  If it cannot be run, a failed init keeps an *)
(* inert image and an exit is refused, to be called again.                    *)
Barrier ==
    /\ At("barrier")
    /\ \/ StartEachCpu("loader") /\ Goto("wait") /\ UNCHANGED <<flags, active_handlers>>
       \/ /\ Goto("listed") /\ UNCHANGED each_cpu
          /\ IF loader.path = "init"
             THEN /\ active_handlers' = GateClosed
                  /\ flags' = {"initialized", "exit_started"}
             ELSE UNCHANGED <<flags, active_handlers>>
    /\ UNCHANGED <<transport, installed, control_busy, reset, thread, live, mailbox, control>>

(* spz_kpatch_runtime_zero and the end of init or exit: the image is freed.   *)
Zero ==
    /\ At("wait") /\ EachCpuDone("loader")
    /\ Goto("absent")
    /\ transport' = FALSE /\ flags' = {}
    /\ active_handlers' = 0 /\ control_busy' = 0
    /\ request' = FreeRequest /\ outcome' = [i \in 1 .. MaxRequests |-> "none"]
    /\ scratch' = Nobody
    /\ UNCHANGED <<installed, thread, live, pending, work, ctl, reset>>

-----------------------------------------------------------------------------
(* The loader takes the module off its list and waits for the control calls   *)
(* that found it (synchronize_rcu), then calls spz_kpm_exit; a refusal puts   *)
(* the module back.                                                           *)
Unload ==
    /\ Listed /\ loader' = [pc |-> "drain", path |-> "exit"]
    /\ UNCHANGED <<flags, transport, installed, gates, thread, live, each_cpu, mailbox, control>>

(* spz_kpm_exit; spz_module_begin_exit closes the control gate, ...           *)
ExitStart ==
    /\ At("drain") /\ \A a \in Callers : At_(a, "out")
    /\ IF "exit_started" \in flags
       THEN Goto("barrier") /\ UNCHANGED <<flags, control_busy>>
       ELSE IF control_busy = 0
       THEN /\ flags' = flags \ {"accepting"}
            /\ control_busy' = GateClosed /\ Goto("handlers")
       ELSE Goto("listed") /\ UNCHANGED <<flags, control_busy>>
    /\ UNCHANGED <<transport, installed, active_handlers, reset, thread, live, each_cpu, mailbox,
                   control>>

(* spz_module_abort_exit stores zero in both words. *)
AbortExit ==
    /\ active_handlers' = 0 /\ control_busy' = 0 /\ Goto("listed")
    /\ flags' = flags \cup (IF "ready" \in flags THEN {"accepting"} ELSE {})
    /\ reset' = (reset \/ active_handlers % GateClosed # 0)

(* ... the gate of the callbacks, ...                                         *)
ExitHandlers ==
    /\ At("handlers")
    /\ IF active_handlers = 0
       THEN active_handlers' = GateClosed /\ Goto("check")
            /\ UNCHANGED <<flags, control_busy, reset>>
       ELSE AbortExit
    /\ UNCHANGED <<transport, installed, thread, live, each_cpu, mailbox, control>>

(* Mutant: a binding does not stop the unload. *)
CanExitBound == ~Busy /\ active_handlers % GateClosed = 0

(* ... looks whether anything is live (spz_module_can_exit), ...              *)
CanExit == ~Busy /\ active_handlers % GateClosed = 0 /\ live = {}

ExitCheck ==
    /\ At("check")
    /\ IF CanExit THEN Goto("flush") /\ UNCHANGED <<flags, gates>> ELSE AbortExit
    /\ UNCHANGED <<transport, installed, thread, live, each_cpu, mailbox, control>>

(* ... and waits for the work function to return (spz_kpatch_async_quiesce).  *)
ExitFlush ==
    /\ At("flush") /\ ~pending /\ work = "idle"
    /\ IF ~Busy THEN Goto("remove") /\ UNCHANGED <<flags, gates>> ELSE AbortExit
    /\ UNCHANGED <<transport, installed, thread, live, each_cpu, mailbox, control>>

LoaderStep == \/ InstallHook \/ RemoveHook \/ Quiesce \/ Barrier \/ Zero
              \/ ExitStart \/ ExitHandlers \/ ExitCheck \/ ExitFlush

-----------------------------------------------------------------------------
Init ==
    /\ loader = [pc |-> "absent", path |-> "init"] /\ flags = {} /\ transport = FALSE
    /\ installed = 0 /\ active_handlers = 0 /\ control_busy = 0
    /\ thread = [t \in Threads |-> "out"] /\ live = {} /\ each_cpu = NoCpus
    /\ request = FreeRequest /\ pending = FALSE /\ work = "idle"
    /\ ctl = [a \in Callers |-> NoCall] /\ scratch = Nobody
    /\ outcome = [i \in 1 .. MaxRequests |-> "none"] /\ reset = FALSE

Next == \/ Load \/ Unload \/ LoaderStep \/ WorkStep
        \/ \E t \in Threads : Callback(t)
        \/ \E c \in CPUs : EachCpu(c)
        \/ \E a \in Callers : ControlStep(a) \/ \E op \in Commands[a] : Call(a, op)

(* What has been called goes on: callbacks, control calls, init and exit, the *)
(* work item; and the kworker a per-CPU callback waits for gets its CPU,      *)
(* though the idle task enters callbacks again and again.                     *)
Fairness ==
    /\ WF_vars(LoaderStep) /\ WF_vars(WorkStep)
    /\ \A t \in Threads : WF_vars(CallbackStep(t))
    /\ \A c \in CPUs : SF_vars(EachCpu(c))
    /\ \A a \in Callers : WF_vars(ControlStep(a))

Spec == Init /\ [][Next]_vars /\ Fairness

-----------------------------------------------------------------------------
(* When the image is freed nobody is left in it: no callback of a task or of  *)
(* an idle task, no control call, no queued work item, no running function.   *)
NobodyInFreedImage ==
    At("absent") => /\ \A t \in Threads : thread[t] = "out"
                    /\ \A a \in Callers : At_(a, "out")
                    /\ ~pending /\ work = "idle"

(* ... and the session holds no task and no comparator any more (refuted: a   *)
(* refused unload forgets the callbacks that run).                            *)
UnloadedIsQuiet == At("absent") => live = {}

(* It does unless a refused unload forgot a running callback.                 *)
QuietUnlessReset == At("absent") => reset \/ live = {}

(* From the removal of the hooks on, and in the inert image a failed init     *)
(* leaves on the list, no request is accepted: the barrier that frees the     *)
(* image later, perhaps in another unload, looks at no request any more.      *)
InertStaysInert == "exit_started" \in flags => ~Busy

(* A status answer that calls a request done carries what executing that very *)
(* request returned, however the worker runs beside the snapshot.             *)
StatusTruthful ==
    \A a \in Callers :
        At_(a, "answer") /\ ctl[a].seen.state = "DONE" =>
            ctl[a].seen.status = outcome[ctl[a].seen.id]

(* The text a call copies to its caller is the text it wrote, unless another  *)
(* call was admitted between its release of the gate and the copy.            *)
ReplyOwn ==
    [][\A a \in Callers : Copy(a) => scratch = a \/ ctl[a].overlapped]_vars

(* A published request is executed and answered, also when the per-CPU work   *)
(* fails and while callbacks keep arriving.                                   *)
RequestCompletes == (request.state = "PENDING") ~> (request.state = "DONE")

(* spz_kpm_exit returns, with the image freed or back on the list: no exit    *)
(* waits for a callback, a call or a work function for ever.                  *)
ExitReturns == At("drain") ~> (At("listed") \/ At("absent"))

-----------------------------------------------------------------------------
(* What makes the unload safe, phase by phase.  The loader is past the grace  *)
(* period when no hook is installed and none of Tasks is in a callback.       *)
Pcs == {"absent", "install", "listed", "drain", "handlers", "check", "flush", "remove",
        "quiesce", "barrier", "wait"}

Quiet == ~pending /\ work = "idle" /\ ~Busy

RequestType == [state : {"FREE", "PENDING", "RUNNING", "DONE"}, id : Nat,
                status : {"none", "inprogress", "ok", "error"}]

CallPcs == {"out", "bind", "submit", "queue", "id", "before", "fields", "after", "answer",
            "refuse", "copy"}

CallType == [pc : CallPcs, seen : RequestType, overlapped : BOOLEAN]

Typed ==
    /\ loader \in [pc : Pcs, path : {"init", "exit"}]
    /\ flags \subseteq {"ready", "accepting", "initialized", "exit_started"}
    /\ installed \in 0 .. Len(Hooks)
    /\ thread \in [Threads -> {"out", "fetched", "inside", "act"}]
    /\ each_cpu \in [by : {"free", "worker", "loader"}, todo : SUBSET CPUs]
    /\ request \in RequestType
    /\ pending \in BOOLEAN /\ work \in {"idle", "execute", "store", "return"}
    /\ ctl \in [Callers -> CallType]

(* The hooks are installed from the end of init to their removal; before the  *)
(* first and after the last one nobody fetches a callback.                    *)
HooksByPhase ==
    /\ loader.pc \in {"quiesce", "barrier", "wait", "absent"} => installed = 0
    /\ loader.pc \in {"handlers", "check", "flush"} => installed > 0
    /\ loader.pc \in {"listed", "drain"} => ("exit_started" \in flags <=> installed = 0)
    /\ loader.pc \notin {"listed", "drain", "barrier", "wait"} => "exit_started" \notin flags
    /\ loader.pc \in {"barrier", "wait"} => ("exit_started" \in flags <=> loader.path = "exit")
    /\ "exit_started" \in flags => "accepting" \notin flags
    /\ loader.pc = "install" \/ (loader.pc = "remove" /\ installed = 0) => loader.path = "init"
    /\ loader.pc = "drain" => loader.path = "exit"
    /\ loader.path = "exit" /\ loader.pc \in {"handlers", "check", "flush", "remove", "quiesce"} =>
          "accepting" \notin flags

(* Tasks leave before the grace period ends, idle tasks before the barrier    *)
(* has run on their CPU, and nobody comes back.                               *)
ThreadsByPhase ==
    /\ loader.pc \in {"barrier", "wait", "absent"} \/ "exit_started" \in flags =>
          \A t \in Tasks : thread[t] = "out"
    /\ loader.pc \in {"install", "remove"} /\ installed = 0 => \A t \in Threads : thread[t] = "out"
    /\ loader.pc = "wait" =>
          each_cpu.by = "loader" /\ \A c \in CPUs \ each_cpu.todo : thread[c] = "out"
    /\ loader.pc = "absent" => \A c \in CPUs : thread[c] = "out"

(* Control calls end before exit starts; the work function ends before the    *)
(* hooks are removed and is not queued again.                                 *)
WorkByPhase ==
    /\ loader.pc \notin {"listed", "drain"} => \A a \in Callers : ctl[a].pc = "out"
    /\ \A a \in Callers : ctl[a].pc = "queue" => "exit_started" \notin flags
    /\ loader.pc \in {"install", "remove", "quiesce", "barrier", "wait", "absent"}
          \/ "exit_started" \in flags => Quiet

(* The inductive invariant: it implies NobodyInFreedImage and InertStaysInert. *)
IInv == Typed /\ HooksByPhase /\ ThreadsByPhase /\ WorkByPhase

-----------------------------------------------------------------------------
(* What makes the answers of the control entry right.  One call at a time is  *)
(* past the gate, ...                                                         *)
Admitted(a) == ctl[a].pc \notin {"out", "copy"}

GateHeld ==
    /\ \A a \in Callers : Admitted(a) => control_busy = 1
    /\ \A a, b \in Callers : Admitted(a) /\ Admitted(b) => a = b
    /\ transport <=> loader.pc # "absent"

(* ... the slot is worked on only while it is RUNNING and keeps the outcome   *)
(* when it is DONE, ...                                                       *)
Slot ==
    /\ outcome \in [1 .. MaxRequests -> {"none", "ok", "error"}]
    /\ request.id \in 0 .. MaxRequests /\ (request.state # "FREE" => request.id > 0)
    /\ pending => request.state = "PENDING"
    /\ work \in {"execute", "store"} => request.state = "RUNNING"
    /\ work = "store" \/ request.state = "DONE" => request.status = outcome[request.id]

(* ... a snapshot that saw DONE saw the slot as it is, and control_scratch is *)
(* the caller's until the next call is admitted.                              *)
CallKept(a) ==
    /\ ctl[a].pc = "submit" => request.id < MaxRequests
    /\ ctl[a].pc = "queue" => request.state = "PENDING" /\ ~pending
    /\ ctl[a].pc \in {"bind", "submit", "queue", "id"} => ctl[a].seen.state # "DONE"
    /\ ctl[a].pc \in {"fields", "after", "answer"} /\ ctl[a].seen.state = "DONE" =>
          request.state = "DONE"
    /\ ctl[a].pc \in {"after", "answer"} /\ ctl[a].seen.state = "DONE" => ctl[a].seen = request
    /\ ctl[a].pc = "answer" => scratch = a
    /\ ctl[a].pc = "copy" /\ ~ctl[a].overlapped =>
          scratch = a /\ \A b \in Callers : ~Admitted(b)

Answers == GateHeld /\ Slot /\ \A a \in Callers : CallKept(a)

-----------------------------------------------------------------------------
(* What makes the unload leave nothing of the session.  The gate of the       *)
(* callbacks is closed from ExitHandlers on, ...                              *)
Inside == {t \in Threads : thread[t] \in {"inside", "act"}}

Closed ==
    \/ loader.pc \in {"check", "flush"} \/ "exit_started" \in flags
    \/ loader.path = "exit" /\ loader.pc \in {"remove", "quiesce", "barrier", "wait"}

(* ... the session is empty from the look of ExitCheck on, and before init is *)
(* done, ...                                                                  *)
Emptied ==
    \/ loader.pc = "flush" \/ "exit_started" \in flags
    \/ loader.pc \in {"absent", "install", "remove", "quiesce", "barrier", "wait"}

(* ... and the count is of the callbacks inside unless a refused unload       *)
(* zeroed it while one was.                                                   *)
Emptying ==
    /\ active_handlers \in Nat
    /\ loader.pc \in {"handlers", "check", "flush"} => loader.path = "exit"
    /\ loader.pc = "absent" => active_handlers = 0 /\ flags = {}
    /\ loader.path = "init" /\ loader.pc \in {"install", "remove", "quiesce", "barrier", "wait"} =>
          flags = {} /\ Inside = {}
    /\ ~reset => /\ active_handlers = IF Closed THEN GateClosed ELSE Cardinality(Inside)
                 /\ Closed => Inside = {}
                 /\ Emptied => live = {}
=============================================================================
