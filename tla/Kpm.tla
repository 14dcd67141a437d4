-------------------------------- MODULE Kpm --------------------------------
(* The kernel module as a whole, between the text protocol and the registers: *)
(* control commands (control.c), the one worker that executes requests        *)
(* (async.c, spz_module_async_execute) and the scheduler, exit and exception  *)
(* callbacks on every CPU (runtime.c).  One task, the target, matches the     *)
(* bind requests.  The parts with modules of their own are taken at what they *)
(* promise: the binding is read and written atomically (Binding), a CPU's     *)
(* comparators are armed, hit and restored in one step (DebugController), the *)
(* maps snapshot is exclusive (Maps), of the ring only a push in progress is  *)
(* kept (Ring), and the module stays loaded, its gates open (Lifecycle).      *)
EXTENDS Naturals, FiniteSets

CONSTANTS
    CPUs,         \* online CPUs
    Target,       \* the task that matches the selector
    Other,        \* any other task: idle, kworker, ...
    MayFail,      \* BOOLEAN: work may not be scheduled, a task not retained, the
                  \* binding or the maps be busy with another access (-EAGAIN, -EBUSY)
    MaxGeneration \* bound: bindings set and cleared

ASSUME KpmAssumption ==
    /\ Target # Other /\ IsFiniteSet(CPUs)
    /\ MayFail \in BOOLEAN /\ MaxGeneration \in Nat

VARIABLES
    active_handlers, control_busy, \* gate words of struct spz_module_state
    binding,    \* [state, generation]
    maps,       \* generation of the retained task, 0 for none
    configured, \* breakpoint.mode, or "none": breakpoint_configured = 0
    enabled,    \* breakpoint_enabled
    debug,      \* [CPUs -> [state, mode, gen]]: the controllers
    running,    \* [CPUs -> {Target, Other}]
    cpu,        \* [CPUs -> [pc, gen]]: how far the CPU is in a callback
    exiting,    \* the target in do_exit: "no", "mark", "dead"
    ctl,        \* the control command in progress
    async,      \* [state, op, status]: struct spz_async_request
    worker,     \* [pc, todo]: spz_module_async_execute in progress
    hits        \* history: hits since the breakpoint was last enabled

gates == <<active_handlers, control_busy>>
session == <<binding, maps, configured, enabled>>
target == <<running, exiting>>
vars == <<gates, session, debug, target, cpu, ctl, async, worker, hits>>

-----------------------------------------------------------------------------
Busy == async.state \in {"PENDING", "RUNNING"}

Idle == [pc |-> "run", gen |-> 0]

EmptyCpu == [state |-> "EMPTY", mode |-> "none", gen |-> 0]

IdleWorker == [pc |-> "idle", todo |-> {}]

(* spz_handler_enter / spz_handler_leave *)
Entered == active_handlers' = active_handlers + 1

Left == active_handlers' = active_handlers - 1

Goto(c, pc) == cpu' = [cpu EXCEPT ![c].pc = pc]

Return(c) == cpu' = [cpu EXCEPT ![c] = Idle] /\ Left

-----------------------------------------------------------------------------
(* The context switch on CPU c: finish_task_switch runs for the next task. *)
Switch(c, next) ==
    /\ cpu[c].pc = "run"
    /\ next = Target => exiting # "dead" /\ \A d \in CPUs : running[d] # Target
    /\ running' = [running EXCEPT ![c] = next]
    /\ Goto(c, "before")
    /\ UNCHANGED <<gates, session, debug, exiting, ctl, async, worker, hits>>

(* spz_module_finish_before *)
FinishBeforeEnter(c) ==
    /\ cpu[c].pc = "before"
    /\ Entered /\ Goto(c, "restore")
    /\ UNCHANGED <<control_busy, session, debug, target,
                   ctl, async, worker, hits>>

(* Mutant: the restore is left out. *)
FinishBeforeNoRestore(c) ==
    /\ cpu[c].pc = "restore"
    /\ Goto(c, "after") /\ Left
    /\ UNCHANGED <<control_busy, session, debug, target,
                   ctl, async, worker, hits>>

FinishBefore(c) ==
    /\ cpu[c].pc = "restore"
    /\ debug' = [debug EXCEPT ![c] = EmptyCpu]
    /\ Goto(c, "after") /\ Left
    /\ UNCHANGED <<control_busy, session, target,
                   ctl, async, worker, hits>>

(* spz_module_finish_after: enter ... *)
FinishAfterEnter(c) ==
    /\ cpu[c].pc = "after"
    /\ Entered /\ Goto(c, "observe")
    /\ UNCHANGED <<control_busy, session, debug, target,
                   ctl, async, worker, hits>>

(* ... spz_binding_observe_current: a pending binding is bound to the target, *)
(* a dead or stale one publishes an integrity record ...                      *)
Observe(c) ==
    LET matched == running[c] = Target /\ binding.state \in {"PENDING", "BOUND"}
        at(pc) == cpu' = [cpu EXCEPT ![c] = [pc |-> pc, gen |-> binding.generation]]
    IN  /\ cpu[c].pc = "observe"
        /\ \/ matched /\ at("capture") /\ binding' = [binding EXCEPT !.state = "BOUND"]
           \/ ~matched /\ binding.state # "EXITED" /\ at("arm") /\ UNCHANGED binding
           \/ (binding.state = "EXITED" \/ MayFail) /\ at("push") /\ UNCHANGED binding
        /\ UNCHANGED <<gates, maps, configured, enabled, debug, target, ctl, async,
                       worker, hits>>

(* ... spz_maps_capture_task, unless a task is retained already ...           *)
Capture(c) ==
    /\ cpu[c].pc = "capture"
    /\ \/ maps' = (IF maps = 0 THEN cpu[c].gen ELSE maps) /\ Goto(c, "arm")
       \/ MayFail /\ maps = 0 /\ UNCHANGED maps /\ Goto(c, "failed")
    /\ UNCHANGED <<gates, binding, configured, enabled, debug, target, ctl, async,
                   worker, hits>>

(* (the record of a failed capture is pushed and the callback goes on) *)
CaptureFailed(c) ==
    /\ cpu[c].pc = "failed" /\ Goto(c, "arm")
    /\ UNCHANGED <<gates, session, debug, target, ctl, async, worker, hits>>

(* ... spz_module_arm_live_current: the flags and the identity, ...           *)
ArmLiveCurrent(c) ==
    /\ cpu[c].pc = "arm"
    /\ \/ /\ enabled /\ configured # "none"
          /\ binding.state = "BOUND" /\ running[c] = Target
          /\ cpu' = [cpu EXCEPT ![c] = [pc |-> "program", gen |-> binding.generation]]
          /\ UNCHANGED active_handlers
       \/ /\ ~(enabled /\ configured # "none" /\ binding.state = "BOUND" /\ running[c] = Target)
          /\ Return(c)
       \/ MayFail /\ Goto(c, "push") /\ UNCHANGED active_handlers
    /\ UNCHANGED <<control_busy, session, debug, target,
                   ctl, async, worker, hits>>

(* ... and spz_debug_arm_current; -EBUSY unless EMPTY. *)
Program(c) ==
    /\ cpu[c].pc = "program"
    /\ debug' = IF debug[c].state = "EMPTY"
                THEN [debug EXCEPT ![c] = [state |-> "ARMED", mode |-> configured,
                                           gen |-> cpu[c].gen]]
                ELSE debug
    /\ Return(c)
    /\ UNCHANGED <<control_busy, session, target, ctl,
                   async, worker, hits>>

(* spz_module_publish_integrity and the way out *)
PushIntegrity(c) ==
    /\ cpu[c].pc = "push" /\ Return(c)
    /\ UNCHANGED <<control_busy, session, debug, target,
                   ctl, async, worker, hits>>

-----------------------------------------------------------------------------
(* An exception of the comparator, or the single step it asked for, while the *)
(* target runs.  If the breakpoint is not enabled, Linux's handler runs       *)
(* (spz_module_exception_before).                                             *)
Exception(c) ==
    /\ cpu[c].pc = "run" /\ running[c] = Target /\ exiting = "no"
    /\ debug[c].state \in {"ARMED", "STEP_PENDING"}
    /\ enabled
    /\ Entered /\ Goto(c, "handle")
    /\ UNCHANGED <<control_busy, session, debug,
                   target, ctl, async, worker, hits>>

(* The identity is checked and the controller handles the hit or the step.    *)
Handle(c) ==
    LET state == debug[c].state
        mine == binding.state = "BOUND" /\ binding.generation = debug[c].gen
    IN  /\ cpu[c].pc = "handle"
        /\ \/ /\ mine /\ state = "ARMED"
              /\ debug' = [debug EXCEPT ![c].state =
                            IF debug[c].mode = "ONCE" THEN "ONE_SHOT_DONE" ELSE "STEP_PENDING"]
              /\ hits' = IF hits < 2 THEN hits + 1 ELSE hits
              /\ Goto(c, "hit") /\ UNCHANGED active_handlers
           \/ /\ mine /\ state = "STEP_PENDING"
              /\ debug' = [debug EXCEPT ![c].state = "ARMED"]
              /\ Return(c) /\ UNCHANGED hits
           \/ /\ ~mine \/ MayFail
              /\ Return(c) /\ UNCHANGED <<debug, hits>>
        /\ UNCHANGED <<control_busy, session, target, ctl,
                       async, worker>>

(* Mutant: a one-shot breakpoint stays enabled. *)
PushHitStaysEnabled(c) ==
    /\ cpu[c].pc = "hit"
    /\ Return(c)
    /\ UNCHANGED <<control_busy, session, debug, target,
                   ctl, async, worker, hits>>

(* The record is pushed and a one-shot breakpoint disables itself. *)
PushHit(c) ==
    /\ cpu[c].pc = "hit"
    /\ enabled' = (enabled /\ configured # "ONCE")
    /\ Return(c)
    /\ UNCHANGED <<control_busy, binding, maps, configured,
                   debug, target, ctl, async, worker, hits>>

-----------------------------------------------------------------------------
(* do_exit of the target: the callback can be preempted, the task never comes *)
(* back to user mode.                                                         *)
InExit == \E c \in CPUs : running[c] = Target /\ cpu[c].pc = "run"

DoExit ==
    /\ exiting = "no" /\ InExit
    /\ Entered /\ exiting' = "mark"
    /\ UNCHANGED <<control_busy, session, debug, running,
                   cpu, ctl, async, worker, hits>>

(* spz_binding_mark_exit *)
MarkExit ==
    /\ exiting = "mark" /\ InExit
    /\ \/ binding.state = "BOUND" /\ binding' = [binding EXCEPT !.state = "EXITED"]
       \/ (binding.state # "BOUND" \/ MayFail) /\ UNCHANGED binding
    /\ exiting' = "dead" /\ Left
    /\ UNCHANGED <<control_busy, maps, configured, enabled,
                   debug, running, cpu, ctl, async, worker, hits>>

Callback == \/ \E c \in CPUs : \/ FinishBeforeEnter(c) \/ FinishBefore(c)
                               \/ FinishAfterEnter(c) \/ Observe(c) \/ Capture(c)
                               \/ CaptureFailed(c) \/ ArmLiveCurrent(c) \/ Program(c)
                               \/ PushIntegrity(c) \/ Handle(c) \/ PushHit(c)
            \/ MarkExit

-----------------------------------------------------------------------------
(* Control commands; control_busy admits one at a time (spz_control_execute). *)
Command == control_busy = 0

(* Mutant: a configured breakpoint does not stop a new binding. *)
BindWhileConfigured ==
    /\ Command /\ ~Busy /\ maps = 0
    /\ binding.generation < MaxGeneration
    /\ control_busy' = 1 /\ ctl' = "bind"
    /\ UNCHANGED <<active_handlers, session, debug, target,
                   cpu, async, worker, hits>>

(* spz_control_bind: the checks, then spz_binding_set. *)
Bind ==
    /\ Command /\ ~Busy /\ maps = 0 /\ configured = "none"
    /\ binding.generation < MaxGeneration
    /\ control_busy' = 1 /\ ctl' = "bind"
    /\ UNCHANGED <<active_handlers, session, debug, target,
                   cpu, async, worker, hits>>

BindSet ==
    /\ ctl = "bind"
    /\ \/ binding' = [state |-> "PENDING", generation |-> binding.generation + 1]
       \/ MayFail /\ UNCHANGED binding
    /\ control_busy' = 0 /\ ctl' = "idle"
    /\ UNCHANGED <<active_handlers, maps, configured, enabled,
                   debug, target, cpu, async, worker, hits>>

(* spz_control_break *)
Break(mode) ==
    /\ Command /\ ~Busy /\ ~enabled /\ binding.state # "EMPTY"
    /\ configured' = mode
    /\ UNCHANGED <<gates, binding, maps, enabled, debug, target, cpu, ctl, async, worker,
                   hits>>

(* spz_control_async: spz_async_submit refuses a second request; DISABLE of a *)
(* breakpoint that is not enabled is answered without a request.              *)
Submit(op) ==
    /\ Command /\ ~Busy
    /\ op = "DISABLE" => enabled
    /\ op = "CLEAR" => binding.generation < MaxGeneration
    /\ async' = [state |-> "PENDING", op |-> op, status |-> "none"]
    /\ UNCHANGED <<gates, session, debug, target, cpu, ctl, worker, hits>>

(* spz_control_poll: the ring is read between the two. *)
Poll ==
    /\ Command
    /\ control_busy' = 1 /\ ctl' = "poll"
    /\ UNCHANGED <<active_handlers, session, debug, target,
                   cpu, async, worker, hits>>

PollReturn ==
    /\ ctl = "poll"
    /\ control_busy' = 0 /\ ctl' = "idle"
    /\ UNCHANGED <<active_handlers, session, debug, target,
                   cpu, async, worker, hits>>

Modes == {"ONCE", "REPEAT"}

Operations == {"ENABLE", "DISABLE", "CLEAR", "OTHER"}

Control == \/ Bind \/ BindSet \/ Poll \/ PollReturn
           \/ \E mode \in Modes : Break(mode)
           \/ \E op \in Operations : Submit(op)

-----------------------------------------------------------------------------
(* The worker.  Its per-CPU callbacks run in a kworker on that CPU: another   *)
(* task is running there and no callback of ours is in progress.              *)
OnCpu(c) == worker.todo # {} /\ c \in worker.todo /\ running[c] = Other /\ cpu[c].pc = "run"

Step(pc, todo) == worker' = [worker EXCEPT !.pc = pc, !.todo = todo]

Finish(status) ==
    /\ worker' = IdleWorker
    /\ async' = [async EXCEPT !.state = "DONE", !.status = status]

(* spz_async_run.  MAPS, AUDIT and requests refused for their id ("OTHER")    *)
(* change nothing kept here.                                                  *)
WorkerStart ==
    /\ async.state = "PENDING"
    /\ async' = [async EXCEPT !.state = "RUNNING"]
    /\ Step(CASE async.op = "ENABLE" -> "enable"
               [] async.op = "OTHER"  -> "other"
               [] OTHER               -> "disable", {})
    /\ UNCHANGED <<gates, session, debug, target, cpu, ctl, hits>>

WorkerOther ==
    /\ worker.pc = "other"
    /\ \E status \in {"ok", "error"} : Finish(status)
    /\ UNCHANGED <<gates, session, debug, target, cpu, ctl, hits>>

(* SPZ_ASYNC_ENABLE: refused unless configured and bound, or when the set of  *)
(* online CPUs has changed.                                                   *)
WorkerEnable ==
    /\ worker.pc = "enable"
    /\ \/ /\ configured # "none" /\ binding.state = "BOUND"
          /\ enabled' = TRUE /\ hits' = 0
          /\ Step("arm", CPUs) /\ UNCHANGED async
       \/ /\ configured = "none" \/ binding.state # "BOUND" \/ MayFail
          /\ Finish("error") /\ UNCHANGED <<enabled, hits>>
    /\ UNCHANGED <<gates, binding, maps, configured, debug, target, cpu, ctl>>

(* spz_enable_cpu_callback: a kworker is never the target, so nothing is armed. *)
EnableCpu(c) ==
    /\ worker.pc = "arm" /\ OnCpu(c)
    /\ Step("arm", worker.todo \ {c})
    /\ UNCHANGED <<gates, session, debug, target, cpu, ctl, async, hits>>

(* After every CPU, or when none could be scheduled, the result: a failure is *)
(* undone.                                                                    *)
EnableDone ==
    /\ worker.pc = "arm"
    /\ \/ worker.todo = {} /\ Finish("ok") /\ UNCHANGED enabled
       \/ /\ MayFail /\ worker.todo \in {CPUs, {}}
          /\ enabled' = FALSE /\ Step("undo", CPUs) /\ UNCHANGED async
    /\ UNCHANGED <<gates, binding, maps, configured, debug, target, cpu, ctl, hits>>

(* Mutant: the comparators are restored while arming is still on. *)
WorkerDisableKeepsEnabled ==
    /\ worker.pc = "disable"
    /\ Step("restore", CPUs)
    /\ UNCHANGED <<gates, session, debug, target, cpu, ctl, async, hits>>

(* SPZ_ASYNC_DISABLE and SPZ_ASYNC_CLEAR: no new arming, ...                  *)
WorkerDisable ==
    /\ worker.pc = "disable"
    /\ enabled' = FALSE /\ Step("restore", CPUs)
    /\ UNCHANGED <<gates, binding, maps, configured, debug, target, cpu, ctl, async, hits>>

(* ... spz_restore_cpu_callback on every CPU, ...                             *)
RestoreCpu(c) ==
    /\ worker.pc \in {"restore", "undo"} /\ OnCpu(c)
    /\ debug' = [debug EXCEPT ![c] = EmptyCpu]
    /\ Step(worker.pc, worker.todo \ {c})
    /\ UNCHANGED <<gates, session, target, cpu, ctl, async, hits>>

RestoreDone ==
    /\ worker.pc \in {"restore", "undo"}
    /\ \/ worker.todo = {} /\ worker.pc = "undo" /\ Finish("error")
       \/ worker.todo = {} /\ worker.pc = "restore" /\ async.op = "DISABLE" /\ Finish("ok")
       \/ worker.todo = {} /\ worker.pc = "restore" /\ async.op = "CLEAR"
             /\ Step("wait", {}) /\ UNCHANGED async
       \/ MayFail /\ worker.todo \in {CPUs, {}} /\ Finish("error")
    /\ UNCHANGED <<gates, session, debug, target, cpu, ctl, hits>>

(* ... then CLEAR waits a bounded time for the handlers (-EBUSY) and checks   *)
(* the controllers (-EUCLEAN), ...                                            *)
ClearWait ==
    /\ worker.pc = "wait"
    /\ \/ active_handlers # 0 /\ Finish("error")
       \/ /\ active_handlers = 0
          /\ IF \A c \in CPUs : debug[c].state = "EMPTY"
             THEN Step("maps", {}) /\ UNCHANGED async
             ELSE Finish("error")
    /\ UNCHANGED <<gates, session, debug, target, cpu, ctl, hits>>

(* ... and releases the maps, the binding, the breakpoint and the ring.       *)
ClearMaps ==
    /\ worker.pc = "maps"
    /\ \/ maps' = 0 /\ Step("binding", {}) /\ UNCHANGED async
       \/ MayFail /\ Finish("error") /\ UNCHANGED maps
    /\ UNCHANGED <<gates, binding, configured, enabled, debug, target, cpu, ctl, hits>>

ClearBinding ==
    /\ worker.pc = "binding"
    /\ \/ /\ binding' = [state |-> "EMPTY", generation |-> binding.generation + 1]
          /\ Step("breakpoint", {}) /\ UNCHANGED async
       \/ MayFail /\ Finish("error") /\ UNCHANGED binding
    /\ UNCHANGED <<gates, maps, configured, enabled, debug, target, cpu, ctl, hits>>

ClearBreakpoint ==
    /\ worker.pc = "breakpoint" /\ configured' = "none" /\ Step("ring", {})
    /\ UNCHANGED <<gates, binding, maps, enabled, debug, target, cpu, ctl, async, hits>>

ClearRing ==
    /\ worker.pc = "ring" /\ Finish("ok")
    /\ UNCHANGED <<gates, session, debug, target, cpu, ctl, hits>>

WorkerStep == \/ WorkerStart \/ WorkerOther \/ WorkerEnable \/ EnableDone
              \/ WorkerDisable \/ RestoreDone \/ ClearWait \/ ClearMaps
              \/ ClearBinding \/ ClearBreakpoint \/ ClearRing

EachCpu(c) == EnableCpu(c) \/ RestoreCpu(c)

-----------------------------------------------------------------------------
Init ==
    /\ active_handlers = 0 /\ control_busy = 0
    /\ binding = [state |-> "EMPTY", generation |-> 0] /\ maps = 0
    /\ configured = "none" /\ enabled = FALSE
    /\ debug = [c \in CPUs |-> EmptyCpu]
    /\ running = [c \in CPUs |-> Other] /\ cpu = [c \in CPUs |-> Idle]
    /\ exiting = "no" /\ ctl = "idle"
    /\ async = [state |-> "FREE", op |-> "NONE", status |-> "none"]
    /\ worker = IdleWorker /\ hits = 0

Scheduler == \/ \E c \in CPUs, next \in {Target, Other} : Switch(c, next)
             \/ \E c \in CPUs : Exception(c)
             \/ DoExit

Next == \/ Scheduler \/ Callback \/ Control \/ WorkerStep
        \/ \E c \in CPUs : EachCpu(c)

Spec == Init /\ [][Next]_vars

-----------------------------------------------------------------------------
(* A comparator is removed before another task returns to user mode           *)
(* (finish_before), on every CPU and whatever the worker does meanwhile.      *)
ComparatorOnlyForTarget ==
    \A c \in CPUs : cpu[c].pc = "run" /\ running[c] # Target =>
        debug[c].state = "EMPTY"

(* After a DISABLE or CLEAR that reported success, no comparator is armed and *)
(* none will be until the next request, though a finish_after may have read   *)
(* breakpoint_enabled before it was cleared.                                  *)
DisabledMeansDisarmed ==
    async.state = "DONE" /\ async.op \in {"DISABLE", "CLEAR"} /\ async.status = "ok" =>
        \A c \in CPUs : debug[c].state \notin {"ARMED", "STEP_PENDING"} /\ cpu[c].pc # "program"

(* A one-shot breakpoint hits at most once for each time it is enabled, also  *)
(* when the target migrates between the hit and the next context switch.      *)
OneShotOnce ==
    configured = "ONCE" /\ enabled =>
        hits = 0 \/ (hits = 1 /\ \E c \in CPUs : cpu[c].pc = "hit")

(* A comparator is never inherited by a later binding: what a controller      *)
(* holds was armed for the current generation (spz_control_bind refuses while *)
(* a breakpoint is configured, CLEAR keeps it configured until all is EMPTY). *)
NoInheritedComparator ==
    \A c \in CPUs : debug[c].state # "EMPTY" =>
        debug[c].gen = binding.generation /\ binding.state \in {"BOUND", "EXITED"}

(* A CLEAR that reports success ends with binding=none configured=0 enabled=0 *)
(* maps_state=empty.                                                          *)
ClearLeavesNothing ==
    [][ClearRing => /\ binding.state = "EMPTY" /\ maps = 0
                    /\ configured = "none" /\ ~enabled]_vars

-----------------------------------------------------------------------------
(* The inductive invariant.  Types, ...                                       *)
HandlerPcs == {"restore", "observe", "capture", "failed", "arm", "program", "push",
               "handle", "hit"}

CpuPcs == HandlerPcs \cup {"run", "before", "after"}

ClearPcs == {"wait", "maps", "binding", "breakpoint", "ring"}

WorkerPcs == ClearPcs \cup {"idle", "other", "enable", "arm", "undo", "disable", "restore"}

ControllerType == [state : {"EMPTY", "ARMED", "STEP_PENDING", "ONE_SHOT_DONE"},
                   mode : Modes \cup {"none"}, gen : Nat]

Typed ==
    /\ active_handlers \in Nat /\ control_busy \in {0, 1}
    /\ binding \in [state : {"EMPTY", "PENDING", "BOUND", "EXITED"}, generation : Nat]
    /\ maps \in Nat /\ configured \in Modes \cup {"none"} /\ enabled \in BOOLEAN
    /\ debug \in [CPUs -> ControllerType]
    /\ running \in [CPUs -> {Target, Other}]
    /\ cpu \in [CPUs -> [pc : CpuPcs, gen : Nat]]
    /\ exiting \in {"no", "mark", "dead"} /\ ctl \in {"idle", "bind", "poll"}
    /\ async \in [state : {"FREE", "PENDING", "RUNNING", "DONE"},
                  op : Operations \cup {"NONE"}, status : {"none", "ok", "error"}]
    /\ worker \in [pc : WorkerPcs, todo : SUBSET CPUs]
    /\ hits \in Nat

(* ... active_handlers is the number of callbacks between spz_handler_enter   *)
(* and spz_handler_leave, ...                                                 *)
HandlersCounted ==
    active_handlers = Cardinality({c \in CPUs : cpu[c].pc \in HandlerPcs})
                      + (IF exiting = "mark" THEN 1 ELSE 0)

(* ... the target is on one CPU, and is there while armed or handled; between *)
(* finish_before and the arming nothing is armed, ...                         *)
CpuByPc ==
    /\ \A c, d \in CPUs : running[c] = Target /\ running[d] = Target => c = d
    /\ \A c \in CPUs :
        /\ cpu[c].pc \in {"capture", "program", "handle", "hit"} => running[c] = Target
        /\ cpu[c].pc \in {"after", "observe", "capture", "failed", "arm", "push", "program"}
              => debug[c].state = "EMPTY"
        /\ cpu[c].pc = "program" => /\ cpu[c].gen = binding.generation
                                    /\ binding.state \in {"BOUND", "EXITED"}

(* ... a CPU the worker has been on since arming was switched off is disarmed *)
(* and stays so, ...                                                          *)
Disarmed(c) == debug[c].state = "EMPTY" /\ cpu[c].pc # "program"

AllDisarmed == ~enabled /\ \A c \in CPUs : Disarmed(c)

WorkerByPhase ==
    /\ worker.pc # "idle" <=> async.state = "RUNNING"
    /\ worker.pc \in {"enable", "arm", "undo"} => async.op = "ENABLE"
    /\ worker.pc = "other" => async.op = "OTHER"
    /\ worker.pc \in {"restore", "undo"} =>
          ~enabled /\ \A c \in CPUs \ worker.todo : Disarmed(c)
    /\ worker.pc \in ClearPcs => AllDisarmed

(* ... and so is every CPU once a request said so, and while no breakpoint is *)
(* configured, in particular while a binding is being set.                    *)
QuietSession ==
    /\ configured = "none" => AllDisarmed
    /\ ctl = "bind" => control_busy = 1 /\ configured = "none"
    /\ async.state = "DONE" /\ async.op \in {"DISABLE", "CLEAR"} /\ async.status = "ok" =>
          AllDisarmed

IInv ==
    /\ Typed /\ HandlersCounted /\ CpuByPc /\ WorkerByPhase /\ QuietSession
    /\ ComparatorOnlyForTarget /\ OneShotOnce /\ NoInheritedComparator
=============================================================================
