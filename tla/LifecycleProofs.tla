-------------------------- MODULE LifecycleProofs --------------------------
(* No unload frees an image somebody is in, for any number of CPUs, tasks,    *)
(* callers and hooks: the inductive invariant of Lifecycle and what follows.  *)
EXTENDS Lifecycle, FiniteSetTheorems, TLAPS

USE LifecycleAssumption DEF Threads

-----------------------------------------------------------------------------
(* The constants of the mailbox and of a call have their types.               *)
LEMMA NoCallType == FreeRequest \in RequestType /\ NoCall \in CallType /\ NoCall.pc = "out"
  BY Zenon DEF FreeRequest, NoCall, CallType, CallPcs, RequestType

-----------------------------------------------------------------------------
(* The image is absent at first, and nobody is in it. *)
LEMMA InitInvariant == Init => IInv
  <1> SUFFICES ASSUME Init PROVE IInv
    OBVIOUS
  <1>1. Typed
    <2>1. request \in RequestType /\ ctl \in [Callers -> CallType]
      BY NoCallType, Zenon DEF Init
    <2>2. loader \in [pc : Pcs, path : {"init", "exit"}]
      BY Zenon DEF Init, Pcs
    <2>3. each_cpu \in [by : {"free", "worker", "loader"}, todo : SUBSET CPUs]
      BY Zenon DEF Init, NoCpus
    <2>4. thread \in [Threads -> {"out", "fetched", "inside", "act"}]
      BY Zenon DEF Init
    <2>5. installed \in 0 .. Len(Hooks) /\ flags = {}
      BY DEF Init
    <2>6. pending \in BOOLEAN /\ work = "idle"
      BY Zenon DEF Init
    <2> QED
      BY <2>1, <2>2, <2>3, <2>4, <2>5, <2>6, Zenon DEF Typed
  <1>2. HooksByPhase /\ ThreadsByPhase
    BY Zenon DEF Init, HooksByPhase, ThreadsByPhase
  <1>3. WorkByPhase
    BY NoCallType, Zenon DEF Init, WorkByPhase, Quiet, Busy, FreeRequest
  <1> QED
    BY <1>1, <1>2, <1>3, Zenon DEF IInv

-----------------------------------------------------------------------------
(* Callbacks: one is fetched only while a hook is installed, and leaves.      *)
LEMMA CallbackKeeps ==
  ASSUME IInv, NEW t \in Threads, Callback(t) PROVE IInv'
  <1>1. /\ UNCHANGED <<loader, flags, installed, each_cpu, request, pending, work, ctl>>
        /\ \E pc \in {"out", "fetched", "inside", "act"} : thread' = [thread EXCEPT ![t] = pc]
        /\ thread[t] = "out" => installed > 0
    BY Zenon
       DEF Callback, CallbackStep, Fetch, HandlerEnter, Observe, Act, HandlerLeave, mailbox,
           control
  <1>2. Typed'
    BY <1>1 DEF IInv, Typed
  <1>3. HooksByPhase' /\ WorkByPhase'
    BY <1>1, Zenon DEF IInv, HooksByPhase, WorkByPhase, Quiet, Busy
  <1>4. ThreadsByPhase'
    BY <1>1 DEF IInv, Typed, Pcs, HooksByPhase, ThreadsByPhase
  <1> QED
    BY <1>2, <1>3, <1>4, Zenon DEF IInv

(* The kworker on a CPU: its idle task is in no callback. *)
LEMMA EachCpuKeeps ==
  ASSUME IInv, NEW c \in CPUs, EachCpu(c) PROVE IInv'
  <1>1. /\ UNCHANGED <<loader, flags, installed, thread, request, pending, work, ctl>>
        /\ thread[c] = "out" /\ each_cpu' = [each_cpu EXCEPT !.todo = @ \ {c}]
    BY Zenon DEF EachCpu, mailbox, control
  <1>2. each_cpu'.by = each_cpu.by /\ each_cpu'.todo = each_cpu.todo \ {c} /\ Typed'
    BY <1>1, Zenon DEF IInv, Typed
  <1>3. HooksByPhase' /\ WorkByPhase'
    BY <1>1, Zenon DEF IInv, HooksByPhase, WorkByPhase, Quiet, Busy
  <1>4. ThreadsByPhase'
    BY <1>1, <1>2, Zenon DEF IInv, ThreadsByPhase
  <1> QED
    BY <1>2, <1>3, <1>4, Zenon DEF IInv

-----------------------------------------------------------------------------
(* The work function runs only when something is not Quiet. *)
LEMMA WorkKeeps ==
  ASSUME IInv, WorkStep PROVE IInv'
  <1>1. /\ UNCHANGED <<loader, flags, installed, thread, ctl>>
        /\ pending \/ work # "idle"
    BY Zenon DEF WorkStep, WorkStart, WorkExecute, WorkStore, WorkReturn, control
  <1>2. request' \in RequestType
    <2>1. CASE WorkStart
      <3>1. request \in RequestType
        BY DEF IInv, Typed
      <3>2. \/ request' = request
            \/ request' = [request EXCEPT !.state = "RUNNING"]
            \/ request' = [request EXCEPT !.state = "RUNNING", !.status = "error"]
        BY <2>1, Zenon DEF WorkStart, Executed
      <3> QED
        BY <3>1, <3>2, Zenon DEF RequestType
    <2>2. CASE WorkExecute
      BY <2>2 DEF WorkExecute, Executed, IInv, Typed, RequestType
    <2>3. CASE WorkStore \/ WorkReturn
      BY <2>3, Zenon DEF WorkStore, WorkReturn, IInv, Typed, RequestType
    <2> QED
      BY <2>1, <2>2, <2>3, Zenon DEF WorkStep
  <1>3. /\ pending' \in BOOLEAN /\ work' \in {"idle", "execute", "store", "return"}
    BY Zenon DEF WorkStep, WorkStart, WorkExecute, WorkStore, WorkReturn, Executed, IInv, Typed
  <1>7. each_cpu' \in [by : {"free", "worker", "loader"}, todo : SUBSET CPUs]
    BY DEF WorkStep, WorkStart, WorkExecute, WorkStore, WorkReturn, StartEachCpu,
           EachCpuDone, NoCpus, IInv, Typed
  <1>4. Typed'
    BY <1>1, <1>2, <1>3, <1>7, Zenon DEF IInv, Typed
  <1>5. HooksByPhase' /\ WorkByPhase'
    BY <1>1, Zenon DEF IInv, HooksByPhase, WorkByPhase, Quiet
  <1>6. ThreadsByPhase'
    BY <1>1, Zenon DEF IInv, ThreadsByPhase, WorkByPhase, Quiet
  <1> QED
    BY <1>4, <1>5, <1>6, Zenon DEF IInv

-----------------------------------------------------------------------------
(* A control call runs only while the loader waits for it, and changes the    *)
(* mailbox only while commands are accepted.                                  *)
LEMMA CallGoesOn ==
  ASSUME IInv, NEW a \in Callers, ctl[a].pc # "out",
         ctl' \in [Callers -> CallType],
         \A b \in Callers \ {a} : ctl'[b].pc = ctl[b].pc,
         ctl'[a].pc = "queue" => "exit_started" \notin flags,
         UNCHANGED <<loader, flags, installed, thread, each_cpu, work>>,
         request' \in RequestType, pending' \in BOOLEAN,
         "exit_started" \in flags => UNCHANGED <<request, pending>>
  PROVE  IInv'
  <1>1. Typed'
    BY Zenon DEF IInv, Typed
  <1>2. HooksByPhase' /\ ThreadsByPhase'
    BY Zenon DEF IInv, HooksByPhase, ThreadsByPhase
  <1>3. loader.pc \in {"listed", "drain"}
    BY Zenon DEF IInv, WorkByPhase
  <1>4. WorkByPhase'
    BY <1>3, Zenon DEF IInv, WorkByPhase, Quiet, Busy
  <1> QED
    BY <1>1, <1>2, <1>4, Zenon DEF IInv

(* A control call changes the mailbox only while commands are accepted and    *)
(* ends without touching the phases.                                          *)
LEMMA ControlKeeps ==
  ASSUME IInv, NEW a \in Callers, ControlStep(a) PROVE IInv'
  <1> USE DEF At_
  <1>t. ctl \in [Callers -> CallType] /\ request \in RequestType /\ pending \in BOOLEAN
    BY Zenon DEF IInv, Typed
  <1>1. CASE Bind(a)
    <2>1. \E pc \in {"answer", "refuse"} : ctl' = [ctl EXCEPT ![a].pc = pc]
      BY <1>1, Zenon DEF Bind, Answer, Refuse
    <2>2. ctl[a].pc # "out" /\ UNCHANGED <<loader, flags, installed, thread, each_cpu, mailbox>>
      BY <1>1, Zenon DEF Bind
    <2>3. ctl' \in [Callers -> CallType] /\ ctl'[a].pc # "queue"
          /\ \A b \in Callers \ {a} : ctl'[b].pc = ctl[b].pc
      <3>1. PICK pc \in CallPcs : ctl' = [ctl EXCEPT ![a].pc = pc] /\ pc # "queue"
        BY <2>1, Zenon DEF CallPcs
      <3> QED
        BY <3>1, <1>t, Zenon DEF CallType
    <2> QED
      BY <2>2, <2>3, <1>t, CallGoesOn, Zenon DEF mailbox
  <1>2. CASE Submit(a)
    <2>1. /\ \E pc \in {"queue", "refuse"} : ctl' = [ctl EXCEPT ![a].pc = pc]
          /\ UNCHANGED request \/ request' = Published
          /\ \/ ctl' = [ctl EXCEPT ![a].pc = "refuse"] /\ UNCHANGED request
             \/ "accepting" \in flags
      BY <1>2, Zenon DEF Submit, Step, Refuse
    <2>2. /\ ctl[a].pc # "out"
          /\ UNCHANGED <<loader, flags, installed, thread, each_cpu, pending, work>>
      BY <1>2, Zenon DEF Submit
    <2>3. /\ ctl' \in [Callers -> CallType]
          /\ \A b \in Callers \ {a} : ctl'[b].pc = ctl[b].pc
          /\ ctl'[a].pc = "queue" => "accepting" \in flags
      <3>1. PICK pc \in CallPcs : ctl' = [ctl EXCEPT ![a].pc = pc]
        BY <2>1, Zenon DEF CallPcs
      <3>2. ctl'[a].pc = pc /\ (pc = "queue" => "accepting" \in flags)
        BY <2>1, <3>1, <1>t DEF CallType
      <3> QED
        BY <3>1, <3>2, <1>t, Zenon DEF CallType
    <2>4. request' \in RequestType
      BY <2>1, <1>t DEF Published, RequestType
    <2>5. "exit_started" \in flags => "accepting" \notin flags
      BY Zenon DEF IInv, HooksByPhase
    <2> QED
      BY <2>1, <2>2, <2>3, <2>4, <2>5, <1>t, CallGoesOn, Zenon
  <1>3. CASE Queue(a)
    <2>1. \E pc \in {"id", "refuse"} : ctl' = [ctl EXCEPT ![a].pc = pc]
      BY <1>3, Zenon DEF Queue, Step, Refuse
    <2>2. /\ ctl[a].pc = "queue"
          /\ UNCHANGED <<loader, flags, installed, thread, each_cpu, work>>
      BY <1>3, Zenon DEF Queue
    <2>3. ctl' \in [Callers -> CallType] /\ ctl'[a].pc # "queue"
          /\ \A b \in Callers \ {a} : ctl'[b].pc = ctl[b].pc
      <3>1. PICK pc \in CallPcs : ctl' = [ctl EXCEPT ![a].pc = pc] /\ pc # "queue"
        BY <2>1, Zenon DEF CallPcs
      <3> QED
        BY <3>1, <1>t, Zenon DEF CallType
    <2>4. request' \in RequestType /\ pending' \in BOOLEAN
      BY <1>3, <1>t, Zenon DEF Queue, RequestType
    <2>5. "exit_started" \notin flags
      BY <2>2, Zenon DEF IInv, WorkByPhase
    <2> QED
      BY <2>2, <2>3, <2>4, <2>5, CallGoesOn, Zenon
  <1>4. CASE ReadId(a) \/ SnapshotAfter(a)
    <2>1. \E pc \in {"answer", "before"} : ctl' = [ctl EXCEPT ![a].pc = pc]
      BY <1>4, Zenon DEF ReadId, SnapshotAfter, Answer, Step
    <2>2. ctl[a].pc # "out" /\ UNCHANGED <<loader, flags, installed, thread, each_cpu, mailbox>>
      BY <1>4, Zenon DEF ReadId, SnapshotAfter
    <2>3. ctl' \in [Callers -> CallType] /\ ctl'[a].pc # "queue"
          /\ \A b \in Callers \ {a} : ctl'[b].pc = ctl[b].pc
      <3>1. PICK pc \in CallPcs : ctl' = [ctl EXCEPT ![a].pc = pc] /\ pc # "queue"
        BY <2>1, Zenon DEF CallPcs
      <3> QED
        BY <3>1, <1>t, Zenon DEF CallType
    <2> QED
      BY <2>2, <2>3, <1>t, CallGoesOn, Zenon DEF mailbox
  <1>5. CASE SnapshotBefore(a) \/ SnapshotFields(a)
    <2>1. \E pc \in {"fields", "after"}, r \in RequestType :
             ctl' = [ctl EXCEPT ![a].pc = pc, ![a].seen = r]
      <3>1. ctl[a].seen.state \in {"FREE", "PENDING", "RUNNING", "DONE"}
            /\ request.state \in {"FREE", "PENDING", "RUNNING", "DONE"}
        BY <1>t, Zenon DEF CallType, RequestType
      <3>2. /\ [FreeRequest EXCEPT !.state = request.state] \in RequestType
            /\ [request EXCEPT !.state = ctl[a].seen.state] \in RequestType
        BY <1>t, <3>1, NoCallType, Zenon DEF RequestType
      <3> QED
        BY <1>5, <3>2, Zenon DEF SnapshotBefore, SnapshotFields
    <2>2. ctl[a].pc # "out" /\ UNCHANGED <<loader, flags, installed, thread, each_cpu, mailbox>>
      BY <1>5, Zenon DEF SnapshotBefore, SnapshotFields
    <2>3. ctl' \in [Callers -> CallType] /\ ctl'[a].pc # "queue"
          /\ \A b \in Callers \ {a} : ctl'[b].pc = ctl[b].pc
      <3>1. PICK pc \in CallPcs, r \in RequestType :
               ctl' = [ctl EXCEPT ![a].pc = pc, ![a].seen = r] /\ pc # "queue"
        BY <2>1, Zenon DEF CallPcs
      <3> QED
        BY <3>1, <1>t, Zenon DEF CallType
    <2> QED
      BY <2>2, <2>3, <1>t, CallGoesOn, Zenon DEF mailbox
  <1>6. CASE Release(a) \/ Copy(a)
    <2>1. \E r \in {NoCall, [NoCall EXCEPT !.pc = "copy"]} : ctl' = [ctl EXCEPT ![a] = r]
      BY <1>6, Zenon DEF Release, Copy
    <2>2. ctl[a].pc # "out" /\ UNCHANGED <<loader, flags, installed, thread, each_cpu, mailbox>>
      BY <1>6, Zenon DEF Release, Copy
    <2>3. \A r \in {NoCall, [NoCall EXCEPT !.pc = "copy"]} : r \in CallType /\ r.pc # "queue"
      BY NoCallType, Zenon DEF CallType, CallPcs
    <2>4. ctl' \in [Callers -> CallType] /\ ctl'[a].pc # "queue"
          /\ \A b \in Callers \ {a} : ctl'[b].pc = ctl[b].pc
      BY <2>1, <2>3, <1>t, Zenon
    <2> QED
      BY <2>2, <2>4, <1>t, CallGoesOn, Zenon DEF mailbox
  <1> QED
    BY <1>1, <1>2, <1>3, <1>4, <1>5, <1>6, Zenon DEF ControlStep

(* A new call is found only through the list.                                 *)
LEMMA CallKeeps ==
  ASSUME IInv, NEW a \in Callers, NEW op, Call(a, op) PROVE IInv'
  <1>1. /\ loader.pc = "listed"
        /\ UNCHANGED <<loader, flags, installed, thread, each_cpu, request, pending, work>>
    BY Zenon DEF Call, Listed, At, mailbox
  <1>2. FirstStep(op) \in {"bind", "before", "submit"}
    BY Zenon DEF FirstStep
  <1>3. /\ ctl' \in [Callers -> CallType]
        /\ \A b \in Callers : ctl'[b].pc = "queue" => ctl[b].pc = "queue"
    <2>1. /\ [NoCall EXCEPT !.pc = FirstStep(op)] \in CallType
          /\ [NoCall EXCEPT !.pc = FirstStep(op)].pc = FirstStep(op)
      BY <1>2, NoCallType, Zenon DEF CallType, CallPcs
    <2>2. ASSUME NEW b \in Callers
          PROVE  /\ [ctl[b] EXCEPT !.overlapped = @ \/ At_(b, "copy")] \in CallType
                 /\ [ctl[b] EXCEPT !.overlapped = @ \/ At_(b, "copy")].pc = ctl[b].pc
      <3>1. ctl[b] \in CallType
        BY Zenon DEF IInv, Typed
      <3>2. (ctl[b].overlapped \/ At_(b, "copy")) \in BOOLEAN
        OBVIOUS
      <3> QED
        BY <3>1, <3>2, Zenon DEF CallType
    <2>3. ctl' = [b \in Callers |->
                    IF b = a THEN [NoCall EXCEPT !.pc = FirstStep(op)]
                             ELSE [ctl[b] EXCEPT !.overlapped = @ \/ At_(b, "copy")]]
      BY Zenon DEF Call
    <2> QED
      BY <1>2, <2>1, <2>2, <2>3, Zenon
  <1>4. Typed'
    BY <1>1, <1>3, Zenon DEF IInv, Typed
  <1>5. HooksByPhase' /\ ThreadsByPhase' /\ WorkByPhase'
    BY <1>1, <1>3, Zenon DEF IInv, HooksByPhase, ThreadsByPhase, WorkByPhase, Quiet, Busy
  <1> QED
    BY <1>4, <1>5, Zenon DEF IInv

-----------------------------------------------------------------------------
(* The loader: loading, ...                                                   *)
LEMMA LoadKeeps ==
  ASSUME IInv, Load PROVE IInv'
  <1>1. Typed'
    BY Zenon DEF IInv, Typed, Pcs, Load, At, mailbox, control
  <1>2. HooksByPhase'
    BY Zenon DEF IInv, Typed, HooksByPhase, Load, At, mailbox, control
  <1>3. ThreadsByPhase'
    BY Zenon DEF IInv, Typed, HooksByPhase, ThreadsByPhase, Load, At, mailbox, control
  <1>4. WorkByPhase'
    BY Zenon DEF IInv, Typed, HooksByPhase, WorkByPhase, Quiet, Busy, Load, At, mailbox, control
  <1> QED
    BY <1>1, <1>2, <1>3, <1>4, Zenon DEF IInv

(* Installing the hooks, and the failure that takes them back.                *)
LEMMA InstallHookKeeps ==
  ASSUME IInv, InstallHook PROVE IInv'
  <1> USE DEF At, Goto
  <1>0. /\ loader.pc = "install" /\ "exit_started" \notin flags
        /\ UNCHANGED <<thread, each_cpu, request, pending, work, ctl>>
    BY Zenon DEF InstallHook, mailbox, control, IInv, HooksByPhase
  <1>1. CASE installed < Len(Hooks) /\ installed' = installed + 1 /\ UNCHANGED <<loader, flags>>
    BY <1>0, <1>1 DEF IInv, Typed, HooksByPhase, ThreadsByPhase, WorkByPhase, Quiet, Busy
  <1>2. CASE Goto("remove") /\ UNCHANGED <<installed, flags>>
    <2>1. loader' \in [pc : Pcs, path : {"init", "exit"}] /\ loader'.pc = "remove"
          /\ loader'.path = loader.path
      BY <1>2, Zenon DEF IInv, Typed, Pcs
    <2>2. loader.path = "init"
      BY <1>0, Zenon DEF IInv, HooksByPhase
    <2> QED
      BY <1>0, <1>2, <2>1, <2>2, Zenon
         DEF IInv, Typed, HooksByPhase, ThreadsByPhase, WorkByPhase, Quiet,
                               Busy
  <1>3. CASE installed = Len(Hooks) /\ Goto("listed") /\ UNCHANGED installed
             /\ flags' = {"ready", "accepting", "initialized"}
    <2>1. loader' \in [pc : Pcs, path : {"init", "exit"}] /\ loader'.pc = "listed"
      BY <1>3, Zenon DEF IInv, Typed, Pcs
    <2> QED
      BY <1>0, <1>3, <2>1, Zenon
         DEF IInv, Typed, HooksByPhase, ThreadsByPhase, WorkByPhase, Quiet, Busy
  <1> QED
    BY <1>1, <1>2, <1>3, Zenon DEF InstallHook

(* ... removing the hooks, the last of which sends it to the grace period ... *)
LEMMA RemoveHookKeeps ==
  ASSUME IInv, RemoveHook PROVE IInv'
  <1>0. /\ loader.pc = "remove" /\ "exit_started" \notin flags
        /\ UNCHANGED <<flags, thread, each_cpu, request, pending, work, ctl>>
    BY Zenon DEF RemoveHook, At, mailbox, control, IInv, HooksByPhase
  <1>1. /\ loader' \in [pc : Pcs, path : {"init", "exit"}] /\ loader'.path = loader.path
        /\ installed' \in 0 .. Len(Hooks)
        /\ \/ installed = 0 /\ installed' = 0 /\ loader'.pc = "barrier"
           \/ installed = 1 /\ installed' = 0 /\ loader'.pc = "quiesce"
           \/ installed > 1 /\ installed' > 0 /\ loader'.pc = "remove"
    BY DEF RemoveHook, Goto, IInv, Typed, Pcs
  <1>2. Typed'
    BY <1>0, <1>1, Zenon DEF IInv, Typed
  <1>3. HooksByPhase'
    BY <1>0, <1>1 DEF IInv, HooksByPhase
  <1>4. ThreadsByPhase' /\ WorkByPhase'
    BY <1>0, <1>1 DEF IInv, HooksByPhase, ThreadsByPhase, WorkByPhase, Quiet, Busy
  <1> QED
    BY <1>2, <1>3, <1>4, Zenon DEF IInv

(* The grace period ends when no task is in a callback.                       *)
LEMMA QuiesceKeeps ==
  ASSUME IInv, Quiesce PROVE IInv'
  <1>1. Typed'
    BY Zenon DEF IInv, Typed, Pcs, Quiesce, At, Goto, mailbox, control
  <1>2. HooksByPhase'
    BY Zenon DEF IInv, Typed, HooksByPhase, Quiesce, At, Goto, mailbox, control
  <1>3. ThreadsByPhase'
    BY Zenon DEF IInv, Typed, HooksByPhase, ThreadsByPhase, Quiesce, At, Goto, mailbox, control
  <1>4. WorkByPhase'
    BY Zenon
       DEF IInv, Typed, HooksByPhase, WorkByPhase, Quiet, Busy, Quiesce, At, Goto, mailbox,
           control
  <1> QED
    BY <1>1, <1>2, <1>3, <1>4, Zenon DEF IInv

(* The barrier starts with the hooks gone and the mailbox quiet.              *)
LEMMA BarrierKeeps ==
  ASSUME IInv, Barrier PROVE IInv'
  <1>1. Typed'
    BY DEF IInv, Typed, Pcs, Barrier, At, Goto, StartEachCpu, mailbox, control
  <1>2. HooksByPhase'
    BY DEF IInv, Typed, HooksByPhase, Barrier, At, Goto, StartEachCpu, mailbox, control
  <1>3. ThreadsByPhase'
    BY
       DEF IInv, Typed, HooksByPhase, ThreadsByPhase, Barrier, At, Goto, StartEachCpu,
           mailbox, control
  <1>4. WorkByPhase'
    BY Zenon
       DEF IInv, Typed, HooksByPhase, WorkByPhase, Quiet, Busy, Barrier, At, Goto,
           StartEachCpu, mailbox, control
  <1> QED
    BY <1>1, <1>2, <1>3, <1>4, Zenon DEF IInv

(* It has run on every CPU: the image is freed.                               *)
LEMMA ZeroKeeps ==
  ASSUME IInv, Zero PROVE IInv'
  <1>1. Typed'
    BY NoCallType, Zenon DEF IInv, Typed, Pcs, Zero, At, Goto, EachCpuDone, NoCpus, mailbox, control
  <1>2. HooksByPhase'
    BY Zenon
       DEF IInv, Typed, HooksByPhase, Zero, At, Goto, EachCpuDone, NoCpus, FreeRequest,
           mailbox, control
  <1>3. ThreadsByPhase'
    BY Zenon
       DEF IInv, Typed, HooksByPhase, ThreadsByPhase, Zero, At, Goto, EachCpuDone, NoCpus,
           FreeRequest, mailbox, control
  <1>4. WorkByPhase'
    BY Zenon
       DEF IInv, Typed, HooksByPhase, WorkByPhase, Quiet, Busy, Zero, At, Goto, EachCpuDone,
           NoCpus, FreeRequest, mailbox, control
  <1> QED
    BY <1>1, <1>2, <1>3, <1>4, Zenon DEF IInv

(* ... and unloading. *)
LEMMA UnloadKeeps ==
  ASSUME IInv, Unload PROVE IInv'
  <1>1. Typed'
    BY Zenon DEF IInv, Typed, Pcs, Unload, Listed, At, mailbox, control
  <1>2. HooksByPhase'
    BY Zenon DEF IInv, Typed, HooksByPhase, Unload, Listed, At, mailbox, control
  <1>3. ThreadsByPhase'
    BY Zenon DEF IInv, Typed, HooksByPhase, ThreadsByPhase, Unload, Listed, At, mailbox, control
  <1>4. WorkByPhase'
    BY Zenon
       DEF IInv, Typed, HooksByPhase, WorkByPhase, Quiet, Busy, Unload, Listed, At, mailbox,
           control
  <1> QED
    BY <1>1, <1>2, <1>3, <1>4, Zenon DEF IInv

(* An exit begins when no control call is left.                               *)
LEMMA ExitStartKeeps ==
  ASSUME IInv, ExitStart PROVE IInv'
  <1>0. /\ loader.pc = "drain" /\ \A a \in Callers : ctl[a].pc = "out"
        /\ UNCHANGED <<installed, thread, each_cpu, request, pending, work, ctl>>
    BY Zenon DEF ExitStart, At, At_, mailbox, control
  <1>1. /\ loader' \in [pc : Pcs, path : {"init", "exit"}] /\ loader'.path = loader.path
        /\ \/ "exit_started" \in flags /\ loader'.pc = "barrier" /\ flags' = flags
           \/ "exit_started" \notin flags /\ loader'.pc = "handlers"
              /\ flags' = flags \ {"accepting"}
           \/ "exit_started" \notin flags /\ loader'.pc = "listed" /\ flags' = flags
    BY Zenon DEF ExitStart, Goto, IInv, Typed, Pcs
  <1>2. Typed'
    BY <1>0, <1>1, Zenon DEF IInv, Typed
  <1>3. HooksByPhase'
    BY <1>0, <1>1 DEF IInv, Typed, HooksByPhase
  <1>4. ThreadsByPhase' /\ WorkByPhase'
    BY <1>0, <1>1, Zenon DEF IInv, HooksByPhase, ThreadsByPhase, WorkByPhase, Quiet, Busy
  <1> QED
    BY <1>2, <1>3, <1>4, Zenon DEF IInv

(* Closing the gate of the callbacks, or giving up.                           *)
LEMMA ExitHandlersKeeps ==
  ASSUME IInv, ExitHandlers PROVE IInv'
  <1>1. Typed'
    BY Zenon DEF IInv, Typed, Pcs, ExitHandlers, At, Goto, AbortExit, mailbox, control
  <1>2. HooksByPhase'
    BY DEF IInv, Typed, HooksByPhase, ExitHandlers, At, Goto, AbortExit, mailbox, control
  <1>3. ThreadsByPhase'
    BY
       DEF IInv, Typed, HooksByPhase, ThreadsByPhase, ExitHandlers, At, Goto, AbortExit,
           mailbox, control
  <1>4. WorkByPhase'
    BY
       DEF IInv, Typed, HooksByPhase, WorkByPhase, Quiet, Busy, ExitHandlers, At, Goto,
           AbortExit, mailbox, control
  <1> QED
    BY <1>1, <1>2, <1>3, <1>4, Zenon DEF IInv

(* Looking whether anything is live, or giving up.                            *)
LEMMA ExitCheckKeeps ==
  ASSUME IInv, ExitCheck PROVE IInv'
  <1>1. Typed'
    BY Zenon DEF IInv, Typed, Pcs, ExitCheck, At, Goto, AbortExit, CanExit, mailbox, control
  <1>2. HooksByPhase'
    BY DEF IInv, Typed, HooksByPhase, ExitCheck, At, Goto, AbortExit, CanExit, mailbox, control
  <1>3. ThreadsByPhase'
    BY
       DEF IInv, Typed, HooksByPhase, ThreadsByPhase, ExitCheck, At, Goto, AbortExit,
           CanExit, mailbox, control
  <1>4. WorkByPhase'
    BY
       DEF IInv, Typed, HooksByPhase, WorkByPhase, Quiet, Busy, ExitCheck, At, Goto,
           AbortExit, CanExit, mailbox, control
  <1> QED
    BY <1>1, <1>2, <1>3, <1>4, Zenon DEF IInv

(* The work function has returned.                                            *)
LEMMA ExitFlushKeeps ==
  ASSUME IInv, ExitFlush PROVE IInv'
  <1>1. Typed'
    BY Zenon DEF IInv, Typed, Pcs, ExitFlush, At, Goto, AbortExit, mailbox, control
  <1>2. HooksByPhase'
    BY DEF IInv, Typed, HooksByPhase, ExitFlush, At, Goto, AbortExit, mailbox, control
  <1>3. ThreadsByPhase'
    BY
       DEF IInv, Typed, HooksByPhase, ThreadsByPhase, ExitFlush, At, Goto, AbortExit,
           mailbox, control
  <1>4. WorkByPhase'
    BY
       DEF IInv, Typed, HooksByPhase, WorkByPhase, Quiet, Busy, ExitFlush, At, Goto,
           AbortExit, mailbox, control
  <1> QED
    BY <1>1, <1>2, <1>3, <1>4, Zenon DEF IInv

-----------------------------------------------------------------------------
(* Every step keeps the inductive invariant.                                  *)
LEMMA NextInvariant == IInv /\ [Next]_vars => IInv'
  <1> SUFFICES ASSUME IInv, [Next]_vars PROVE IInv'
    OBVIOUS
  <1>1. CASE Load \/ Unload
    BY <1>1, LoadKeeps, UnloadKeeps, Zenon
  <1>2. CASE LoaderStep
    BY <1>2, InstallHookKeeps, RemoveHookKeeps, QuiesceKeeps, BarrierKeeps, ZeroKeeps,
       ExitStartKeeps, ExitHandlersKeeps, ExitCheckKeeps, ExitFlushKeeps, Zenon DEF LoaderStep
  <1>3. CASE WorkStep
    BY <1>3, WorkKeeps, Zenon
  <1>4. CASE \E t \in Threads : Callback(t)
    BY <1>4, CallbackKeeps, Zenon
  <1>5. CASE \E c \in CPUs : EachCpu(c)
    BY <1>5, EachCpuKeeps, Zenon
  <1>6. CASE \E a \in Callers : ControlStep(a) \/ \E op \in Commands[a] : Call(a, op)
    BY <1>6, ControlKeeps, CallKeeps, Zenon
  <1>7. CASE UNCHANGED vars
    BY <1>7 DEF vars, mailbox, control, IInv, Typed, HooksByPhase, ThreadsByPhase, WorkByPhase,
              Quiet, Busy
  <1> QED
    BY <1>1, <1>2, <1>3, <1>4, <1>5, <1>6, <1>7, Zenon DEF Next

(* The phases of loading and unloading keep their promises, whoever runs: see *)
(* IInv.                                                                      *)
THEOREM Phases == Spec => []IInv
  BY InitInvariant, NextInvariant, PTL DEF Spec

(* spz_kpm_exit, and a failed spz_kpm_init, free the image only when no       *)
(* callback, no control call and no work function is left in it.              *)
THEOREM FreedUnused == Spec => []NobodyInFreedImage
  <1>1. IInv => NobodyInFreedImage
    BY Zenon DEF IInv, ThreadsByPhase, WorkByPhase, Quiet, NobodyInFreedImage, At, At_
  <1> QED
    BY <1>1, Phases, PTL

(* An image whose hooks are gone accepts no request, until it is freed.       *)
THEOREM Inert == Spec => []InertStaysInert
  <1>1. IInv => InertStaysInert
    BY Zenon DEF IInv, WorkByPhase, Quiet, InertStaysInert
  <1> QED
    BY <1>1, Phases, PTL

-----------------------------------------------------------------------------
(* Steps that leave mailbox and calls alone: callbacks, kworkers, loader.     *)
LEMMA AsideAnswers ==
  ASSUME Answers, UNCHANGED <<mailbox, control>>, transport' <=> loader'.pc # "absent",
         UNCHANGED control_busy \/ \A a \in Callers : ctl[a].pc = "out"
  PROVE  Answers'
  <1>1. UNCHANGED <<request, pending, work, outcome, ctl, scratch>>
    BY Zenon DEF mailbox, control
  <1>2. GateHeld'
    BY <1>1, Zenon DEF Answers, GateHeld, Admitted
  <1>3. Slot'
    BY <1>1, Zenon DEF Answers, Slot
  <1>4. ASSUME NEW a \in Callers PROVE CallKept(a)'
    BY <1>1, Zenon DEF Answers, CallKept, Admitted
  <1> QED
    BY <1>2, <1>3, <1>4, Zenon DEF Answers

(* The loader: no call is past the gate when an exit opens or closes it.      *)
LEMMA LoaderAnswers ==
  ASSUME IInv, Answers, Load \/ Unload \/ (LoaderStep /\ ~Zero) PROVE Answers'
  <1> USE DEF At, Goto
  <1>1. loader.pc \notin {"listed", "drain"} => \A a \in Callers : ctl[a].pc = "out"
    BY Zenon DEF IInv, WorkByPhase
  <1>2. loader \in [pc : Pcs, path : {"init", "exit"}] /\ (transport <=> loader.pc # "absent")
    BY Zenon DEF IInv, Typed, Answers, GateHeld
  <1>3. CASE Load \/ Unload
    BY <1>2, <1>3, AsideAnswers DEF Load, Unload, Listed, gates
  <1>4. CASE InstallHook \/ RemoveHook \/ Quiesce \/ Barrier
    BY <1>2, <1>4, AsideAnswers, Zenon DEF InstallHook, RemoveHook, Quiesce, Barrier, gates
  <1>5. CASE ExitStart
    BY <1>2, <1>5, AsideAnswers, Zenon DEF ExitStart, At_
  <1>6. CASE ExitHandlers \/ ExitCheck \/ ExitFlush
    BY <1>1, <1>2, <1>6, AsideAnswers, Zenon DEF ExitHandlers, ExitCheck, ExitFlush, AbortExit
  <1> QED
    BY <1>3, <1>4, <1>5, <1>6, Zenon DEF LoaderStep

(* The freed image answers nobody. *)
LEMMA ZeroAnswers == ASSUME IInv, Answers, Zero PROVE Answers'
  <1>1. /\ loader.pc = "wait" /\ loader'.pc = "absent" /\ transport' = FALSE
        /\ request' = FreeRequest /\ outcome' = [i \in 1 .. MaxRequests |-> "none"]
        /\ UNCHANGED <<pending, work, ctl>>
    BY Zenon DEF Zero, At, Goto, IInv, Typed
  <1>2. /\ \A a \in Callers : ctl[a].pc = "out"
        /\ ~pending /\ work = "idle"
    BY <1>1, Zenon DEF IInv, WorkByPhase, Quiet
  <1>3. GateHeld'
    BY <1>1, <1>2, Zenon DEF GateHeld, Admitted
  <1>4. Slot'
    BY <1>1, <1>2 DEF Slot, FreeRequest
  <1>5. ASSUME NEW a \in Callers PROVE CallKept(a)'
    BY <1>1, <1>2, Zenon DEF CallKept
  <1> QED
    BY <1>3, <1>4, <1>5, Zenon DEF Answers

(* The work function: it changes the slot only before DONE, so that a call    *)
(* that saw DONE is not disturbed, and stores the outcome before the state.   *)
LEMMA WorkAnswers == ASSUME IInv, Answers, WorkStep PROVE Answers'
  <1>1. /\ UNCHANGED <<loader, transport, control_busy, ctl, scratch>>
        /\ request \in RequestType /\ Slot
        /\ request.state \in {"PENDING", "RUNNING"} => request.id \in 1 .. MaxRequests
    BY DEF WorkStep, WorkStart, WorkExecute, WorkStore, WorkReturn, gates, control,
           IInv, Typed, Answers, Slot
  <1>2. GateHeld'
    BY <1>1, Zenon DEF Answers, GateHeld, Admitted
  <1>3. ASSUME request.state \in {"PENDING", "RUNNING"}, request'.id = request.id,
               request.state = "PENDING" => pending
        PROVE  \A a \in Callers : CallKept(a)'
    BY <1>1, <1>3, Zenon DEF Answers, CallKept, Admitted
  <1>4. ASSUME NEW status \in {"ok", "error"}, Executed(status), ~pending',
               request.state \in {"PENDING", "RUNNING"}
        PROVE  Slot' /\ request'.id = request.id
    BY <1>1, <1>4, Zenon DEF Executed, Slot, RequestType
  <1>5. CASE WorkStart
    <2>1. pending /\ request.state = "PENDING" /\ ~pending'
      BY <1>1, <1>5, Zenon DEF WorkStart, Slot
    <2>2. CASE Executed("error")
      BY <1>2, <1>3, <1>4, <2>1, <2>2, Zenon DEF Answers
    <2>3. CASE request' = [request EXCEPT !.state = "RUNNING"] /\ work' = "execute"
               /\ UNCHANGED outcome
      <3>1. Slot' /\ request'.id = request.id
        BY <1>1, <2>1, <2>3, Zenon DEF Slot, RequestType
      <3> QED
        BY <1>2, <1>3, <2>1, <3>1, Zenon DEF Answers
    <2> QED
      BY <1>5, <2>1, <2>2, <2>3, Zenon DEF WorkStart
  <1>6. CASE WorkExecute
    <2>1. request.state = "RUNNING" /\ ~pending /\ UNCHANGED pending
      BY <1>1, <1>6, Zenon DEF WorkExecute, Slot
    <2>2. PICK status \in {"ok", "error"} : Executed(status)
      BY <1>6, Zenon DEF WorkExecute
    <2> QED
      BY <1>2, <1>3, <1>4, <2>1, <2>2, Zenon DEF Answers
  <1>7. CASE WorkStore
    <2>1. request.state = "RUNNING" /\ ~pending /\ request' = [request EXCEPT !.state = "DONE"]
      BY <1>1, <1>7, Zenon DEF WorkStore, Slot
    <2>2. Slot' /\ request'.id = request.id
      BY <1>1, <1>7, <2>1, Zenon DEF WorkStore, Slot, RequestType
    <2> QED
      BY <1>2, <1>3, <2>1, <2>2, Zenon DEF Answers
  <1>8. CASE WorkReturn
    <2>1. UNCHANGED <<request, pending, outcome>> /\ work = "return" /\ work' = "idle"
      BY <1>8, Zenon DEF WorkReturn
    <2>2. Slot'
      BY <1>1, <2>1, Zenon DEF Slot
    <2>3. ASSUME NEW a \in Callers PROVE CallKept(a)'
      BY <1>1, <2>1, Zenon DEF Answers, CallKept, Admitted
    <2> QED
      BY <1>2, <2>2, <2>3, Zenon DEF Answers
  <1> QED
    BY <1>5, <1>6, <1>7, <1>8, Zenon DEF WorkStep

(* What a step of a call does to its record. *)
LEMMA CallRecord ==
  ASSUME IInv, NEW a \in Callers, NEW pc, ctl' = [ctl EXCEPT ![a].pc = pc]
  PROVE  /\ ctl'[a].pc = pc /\ ctl'[a].seen = ctl[a].seen
         /\ \A b \in Callers \ {a} : ctl'[b] = ctl[b]
  BY DEF IInv, Typed, CallType

(* A call that goes on past the gate is the only one there. *)
LEMMA AdmittedAnswers ==
  ASSUME Answers, NEW a \in Callers, Admitted(a), Admitted(a)',
         \A b \in Callers \ {a} : ctl'[b] = ctl[b],
         UNCHANGED <<loader, transport, control_busy>>, Slot', CallKept(a)'
  PROVE  Answers'
  <1>1. \A b \in Callers \ {a} : ~Admitted(b) /\ ~Admitted(b)'
    BY Zenon DEF Answers, GateHeld, Admitted
  <1>2. GateHeld'
    BY <1>1, Zenon DEF Answers, GateHeld, Admitted
  <1>3. ASSUME NEW b \in Callers \ {a} PROVE CallKept(b)'
    BY <1>1, Zenon DEF Answers, CallKept, Admitted
  <1> QED
    BY <1>2, <1>3, Zenon DEF Answers

(* A call is answered from what it has seen and written itself.               *)
LEMMA ControlAnswers ==
  ASSUME IInv, Answers, NEW a \in Callers, ControlStep(a) PROVE Answers'
  <1> USE DEF At_
  <1>1. /\ ctl[a] \in CallType /\ request \in RequestType /\ Slot /\ CallKept(a) /\ GateHeld
        /\ ctl \in [Callers -> CallType]
    BY Zenon DEF IInv, Typed, Answers
  <1>2. UNCHANGED <<loader, transport>>
    BY Zenon DEF ControlStep, Bind, Submit, Queue, ReadId, SnapshotBefore, SnapshotFields,
           SnapshotAfter, Release, Copy
  <1>3. CASE Bind(a) \/ ReadId(a)
    <2>1. /\ UNCHANGED <<control_busy, request, pending, work, outcome>>
          /\ ctl[a].pc \in {"bind", "id"}
          /\ Answer(a) \/ Refuse(a)
      BY <1>3, Zenon DEF Bind, ReadId, gates, mailbox
    <2>2. PICK pc \in {"answer", "refuse"} :
            ctl' = [ctl EXCEPT ![a].pc = pc] /\ (pc = "answer" => scratch' = a)
      BY <2>1, Zenon DEF Answer, Refuse
    <2>3. /\ ctl'[a].pc = pc /\ ctl'[a].seen = ctl[a].seen
          /\ \A b \in Callers \ {a} : ctl'[b] = ctl[b]
      BY <2>2, CallRecord, Zenon
    <2>4. CallKept(a)' /\ Slot' /\ Admitted(a) /\ Admitted(a)'
      BY <1>1, <2>1, <2>2, <2>3, Zenon DEF CallKept, Slot, Admitted
    <2> QED
      BY <1>2, <2>1, <2>3, <2>4, AdmittedAnswers, Zenon
  <1>4. CASE Submit(a)
    <2>1. /\ UNCHANGED <<control_busy, pending, work, outcome, scratch>> /\ ctl[a].pc = "submit"
          /\ \/ ~Busy /\ request' = Published /\ ctl' = [ctl EXCEPT ![a].pc = "queue"]
             \/ UNCHANGED request /\ ctl' = [ctl EXCEPT ![a].pc = "refuse"]
      BY <1>4, Zenon DEF Submit, Step, Refuse, gates
    <2>2. PICK pc \in {"queue", "refuse"} : ctl' = [ctl EXCEPT ![a].pc = pc]
      BY <2>1, Zenon
    <2>3. /\ ctl'[a].pc = pc /\ ctl'[a].seen = ctl[a].seen
          /\ \A b \in Callers \ {a} : ctl'[b] = ctl[b]
      BY <2>2, CallRecord, Zenon
    <2>4. CASE ~Busy /\ request' = Published /\ ctl' = [ctl EXCEPT ![a].pc = "queue"]
      <3>1. /\ request'.state = "PENDING" /\ request'.id = request.id + 1
            /\ request.id < MaxRequests /\ ~pending /\ work \notin {"execute", "store"}
            /\ ctl'[a].pc = "queue"
        BY <1>1, <2>1, <2>4, CallRecord, Zenon DEF Published, Busy, Slot, CallKept
      <3>2. Slot'
        BY <1>1, <2>1, <3>1 DEF Slot
      <3>3. CallKept(a)' /\ Admitted(a) /\ Admitted(a)'
        BY <1>1, <2>1, <2>3, <3>1, Zenon DEF CallKept, Admitted
      <3> QED
        BY <1>2, <2>1, <2>3, <3>2, <3>3, AdmittedAnswers, Zenon
    <2>5. CASE UNCHANGED request /\ ctl' = [ctl EXCEPT ![a].pc = "refuse"]
      <3>1. ctl'[a].pc = "refuse"
        BY <2>5, CallRecord, Zenon
      <3>2. Slot' /\ CallKept(a)' /\ Admitted(a) /\ Admitted(a)'
        BY <1>1, <2>1, <2>5, <3>1, Zenon DEF Slot, CallKept, Admitted
      <3> QED
        BY <1>2, <2>1, <2>3, <3>2, AdmittedAnswers, Zenon
    <2> QED
      BY <2>1, <2>4, <2>5, Zenon
  <1>5. CASE Queue(a)
    <2>1. transport /\ ~pending /\ request.state = "PENDING" /\ ctl[a].pc = "queue"
      BY <1>1, <1>5, Zenon DEF Queue, CallKept, GateHeld, IInv, WorkByPhase
    <2>2. /\ UNCHANGED <<control_busy, request, work, outcome, scratch>>
          /\ pending' = TRUE /\ ctl' = [ctl EXCEPT ![a].pc = "id"]
      BY <1>5, <2>1, Zenon DEF Queue, Step, gates
    <2>3. /\ ctl'[a].pc = "id" /\ ctl'[a].seen = ctl[a].seen
          /\ \A b \in Callers \ {a} : ctl'[b] = ctl[b]
      BY <2>2, CallRecord, Zenon
    <2>4. CallKept(a)' /\ Slot' /\ Admitted(a) /\ Admitted(a)'
      BY <1>1, <2>1, <2>2, <2>3, Zenon DEF CallKept, Slot, Admitted
    <2> QED
      BY <1>2, <2>2, <2>3, <2>4, AdmittedAnswers, Zenon
  <1>6. CASE SnapshotBefore(a)
    <2>1. /\ UNCHANGED <<control_busy, request, pending, work, outcome, scratch>>
          /\ ctl[a].pc = "before"
          /\ ctl' = [ctl EXCEPT ![a].pc = "fields",
                                ![a].seen = [FreeRequest EXCEPT !.state = request.state]]
      BY <1>6, Zenon DEF SnapshotBefore, gates, mailbox
    <2>2. /\ ctl'[a].pc = "fields" /\ ctl'[a].seen.state = request.state
          /\ \A b \in Callers \ {a} : ctl'[b] = ctl[b]
      BY <1>1, <2>1, Zenon DEF CallType, FreeRequest
    <2>3. CallKept(a)' /\ Slot' /\ Admitted(a) /\ Admitted(a)'
      BY <1>1, <2>1, <2>2, Zenon DEF CallKept, Slot, Admitted
    <2> QED
      BY <1>2, <2>1, <2>2, <2>3, AdmittedAnswers, Zenon
  <1>7. CASE SnapshotFields(a)
    <2>1. /\ UNCHANGED <<control_busy, request, pending, work, outcome, scratch>>
          /\ ctl[a].pc = "fields"
          /\ ctl' = [ctl EXCEPT ![a].pc = "after",
                                ![a].seen = [request EXCEPT !.state = ctl[a].seen.state]]
      BY <1>7, Zenon DEF SnapshotFields, gates, mailbox
    <2>2. /\ ctl'[a].pc = "after"
          /\ ctl'[a].seen = [request EXCEPT !.state = ctl[a].seen.state]
          /\ \A b \in Callers \ {a} : ctl'[b] = ctl[b]
      BY <1>1, <2>1, Zenon DEF CallType
    <2>3. ctl'[a].seen.state = ctl[a].seen.state
      BY <1>1, <2>2, Zenon DEF RequestType
    <2>4. ctl[a].seen.state = "DONE" => request.state = "DONE" /\ ctl'[a].seen = request
      BY <1>1, <2>1, <2>2 DEF CallKept, RequestType
    <2>5. CallKept(a)' /\ Slot' /\ Admitted(a) /\ Admitted(a)'
      BY <1>1, <2>1, <2>2, <2>3, <2>4, Zenon DEF CallKept, Slot, Admitted
    <2> QED
      BY <1>2, <2>1, <2>2, <2>5, AdmittedAnswers, Zenon
  <1>8. CASE SnapshotAfter(a)
    <2>1. /\ UNCHANGED <<control_busy, request, pending, work, outcome>> /\ ctl[a].pc = "after"
          /\ Answer(a) \/ Step(a, "before")
      BY <1>8, Zenon DEF SnapshotAfter, gates, mailbox
    <2>2. PICK pc \in {"answer", "before"} :
            ctl' = [ctl EXCEPT ![a].pc = pc] /\ (pc = "answer" => scratch' = a)
      BY <2>1, Zenon DEF Answer, Step
    <2>3. /\ ctl'[a].pc = pc /\ ctl'[a].seen = ctl[a].seen
          /\ \A b \in Callers \ {a} : ctl'[b] = ctl[b]
      BY <2>2, CallRecord, Zenon
    <2>4. CallKept(a)' /\ Slot' /\ Admitted(a) /\ Admitted(a)'
      BY <1>1, <2>1, <2>2, <2>3, Zenon DEF CallKept, Slot, Admitted
    <2> QED
      BY <1>2, <2>1, <2>3, <2>4, AdmittedAnswers, Zenon
  <1>9. CASE Release(a)
    <2>1. /\ UNCHANGED <<request, pending, work, outcome, scratch>>
          /\ ctl[a].pc \in {"answer", "refuse"}
          /\ ctl' = [ctl EXCEPT ![a] = IF ctl[a].pc = "answer"
                                       THEN [NoCall EXCEPT !.pc = "copy"] ELSE NoCall]
      BY <1>9, Zenon DEF Release, mailbox
    <2>2. /\ ctl'[a].pc \in {"copy", "out"} /\ (ctl'[a].pc = "copy" => ctl[a].pc = "answer")
          /\ \A b \in Callers \ {a} : ctl'[b] = ctl[b]
      BY <1>1, <2>1, Zenon DEF NoCall
    <2>3. Admitted(a) /\ \A b \in Callers : ~Admitted(b)'
      BY <1>1, <2>1, <2>2, Zenon DEF GateHeld, Admitted
    <2>4. GateHeld'
      BY <1>1, <1>2, <2>3, Zenon DEF GateHeld
    <2>5. Slot'
      BY <1>1, <2>1, Zenon DEF Slot
    <2>6. ASSUME NEW b \in Callers PROVE CallKept(b)'
      <3>1. CASE b = a
        BY <1>1, <2>1, <2>2, <2>3, <3>1, Zenon DEF CallKept
      <3>2. CASE b # a
        BY <2>1, <2>2, <2>3, <3>2, Zenon DEF Answers, CallKept, Admitted
      <3> QED
        BY <3>1, <3>2, Zenon
    <2> QED
      BY <2>4, <2>5, <2>6, Zenon DEF Answers
  <1>10. CASE Copy(a)
    <2>1. /\ UNCHANGED <<control_busy, request, pending, work, outcome, scratch>>
          /\ ctl[a].pc = "copy" /\ ctl' = [ctl EXCEPT ![a] = NoCall]
      BY <1>10, Zenon DEF Copy, gates, mailbox
    <2>2. ctl'[a].pc = "out" /\ \A b \in Callers \ {a} : ctl'[b] = ctl[b]
      BY <1>1, <2>1, NoCallType, Zenon
    <2>3. \A b \in Callers : Admitted(b)' <=> Admitted(b)
      BY <2>1, <2>2, Zenon DEF Admitted
    <2>4. GateHeld'
      BY <1>1, <1>2, <2>1, <2>3, Zenon DEF GateHeld
    <2>5. Slot'
      BY <1>1, <2>1, Zenon DEF Slot
    <2>6. ASSUME NEW b \in Callers PROVE CallKept(b)'
      BY <2>1, <2>2, <2>3, Zenon DEF Answers, CallKept
    <2> QED
      BY <2>4, <2>5, <2>6, Zenon DEF Answers
  <1> QED
    BY <1>3, <1>4, <1>5, <1>6, <1>7, <1>8, <1>9, <1>10, Zenon DEF ControlStep

(* A call is admitted when no other is past the gate; one that has not copied *)
(* its answer yet is marked.                                                  *)
LEMMA CallAnswers ==
  ASSUME IInv, Answers, NEW a \in Callers, NEW op \in Commands[a], Call(a, op) PROVE Answers'
  <1> DEFINE new == [NoCall EXCEPT !.pc = FirstStep(op)]
  <1> DEFINE marked(b) == [ctl[b] EXCEPT !.overlapped = @ \/ At_(b, "copy")]
  <1>1. /\ UNCHANGED <<loader, transport, request, pending, work, outcome, scratch>>
        /\ control_busy = 0 /\ control_busy' = 1 /\ (op = "request" => request.id < MaxRequests)
        /\ ctl' = [b \in Callers |-> IF b = a THEN new ELSE marked(b)]
        /\ ctl \in [Callers -> CallType]
    BY Zenon DEF Call, mailbox, IInv, Typed
  <1>2. \A b \in Callers : ~Admitted(b)
    BY <1>1 DEF Answers, GateHeld
  <1>3. /\ new.pc = FirstStep(op) /\ new.seen.state = "FREE"
        /\ FirstStep(op) \in {"bind", "before", "submit"}
        /\ FirstStep(op) = "submit" => op = "request"
    <2>1. op \in {"bind", "request", "status"}
      OBVIOUS
    <2> QED
      BY <2>1, Zenon DEF NoCall, FreeRequest, FirstStep
  <1>4. ASSUME NEW b \in Callers \ {a}
        PROVE  /\ ctl'[b].pc = ctl[b].pc /\ ctl[b].pc \in {"out", "copy"}
               /\ ctl[b].pc = "copy" => ctl'[b].overlapped
    <2>1. ctl'[b] = marked(b) /\ ctl[b] \in CallType
      BY <1>1, Zenon
    <2>2. ctl'[b].pc = ctl[b].pc /\ (ctl'[b].overlapped <=> ctl[b].overlapped \/ ctl[b].pc = "copy")
      BY <2>1, Zenon DEF CallType, At_
    <2> QED
      BY <1>2, <2>2, Zenon DEF Admitted
  <1>5. ctl'[a] = new
    BY <1>1, Zenon
  <1> HIDE DEF new, marked
  <1>6. GateHeld'
    BY <1>1, <1>4, Zenon DEF Answers, GateHeld, Admitted
  <1>7. Slot'
    BY <1>1, Zenon DEF Answers, Slot
  <1>8. ASSUME NEW b \in Callers PROVE CallKept(b)'
    <2>1. CASE b = a
      BY <1>1, <1>3, <1>5, <2>1, Zenon DEF CallKept
    <2>2. CASE b # a
      BY <1>4, <2>2, Zenon DEF CallKept
    <2> QED
      BY <2>1, <2>2, Zenon
  <1> QED
    BY <1>6, <1>7, <1>8, Zenon DEF Answers

(* Nothing is asked for at first. *)
LEMMA InitAnswers == Init => Answers
  <1> SUFFICES ASSUME Init PROVE Answers
    OBVIOUS
  <1>1. \A a \in Callers : ctl[a].pc = "out"
    BY NoCallType, Zenon DEF Init
  <1>2. GateHeld
    BY <1>1, Zenon DEF Init, GateHeld, Admitted
  <1>3. Slot
    BY DEF Init, Slot, FreeRequest
  <1>4. ASSUME NEW a \in Callers PROVE CallKept(a)
    BY <1>1, Zenon DEF CallKept
  <1> QED
    BY <1>2, <1>3, <1>4, Zenon DEF Answers

(* Every step keeps the answers right. *)
LEMMA NextAnswers == IInv /\ Answers /\ [Next]_vars => Answers'
  <1> SUFFICES ASSUME IInv, Answers, [Next]_vars PROVE Answers'
    OBVIOUS
  <1>1. CASE Load \/ Unload \/ LoaderStep
    BY <1>1, LoaderAnswers, ZeroAnswers, Zenon
  <1>2. CASE WorkStep
    BY <1>2, WorkAnswers, Zenon
  <1>3. transport <=> loader.pc # "absent"
    BY Zenon DEF Answers, GateHeld
  <1>4. CASE \E t \in Threads : Callback(t)
    <2>1. UNCHANGED <<loader, transport, control_busy, mailbox, control>>
      BY <1>4, Zenon DEF Callback, CallbackStep, Fetch, HandlerEnter, Observe, Act, gates
    <2> QED
      BY <1>3, <2>1, AsideAnswers, Zenon
  <1>5. CASE \E c \in CPUs : EachCpu(c)
    <2>1. UNCHANGED <<loader, transport, control_busy, mailbox, control>>
      BY <1>5, Zenon DEF EachCpu, gates
    <2> QED
      BY <1>3, <2>1, AsideAnswers, Zenon
  <1>6. CASE \E a \in Callers : ControlStep(a) \/ \E op \in Commands[a] : Call(a, op)
    BY <1>6, ControlAnswers, CallAnswers, Zenon
  <1>7. CASE UNCHANGED vars
    <2>1. UNCHANGED <<loader, transport, control_busy, mailbox, control>>
      BY <1>7, Zenon DEF vars, gates
    <2> QED
      BY <1>3, <2>1, AsideAnswers, Zenon
  <1> QED
    BY <1>1, <1>2, <1>4, <1>5, <1>6, <1>7, Zenon DEF Next

(* The gate of the control entry admits one call at a time and the mailbox    *)
(* keeps the outcome of what it calls done: see Answers.                      *)
THEOREM AnswersKept == Spec => []Answers
  <1>1. Init => Answers
    BY InitAnswers, Zenon
  <1>2. IInv /\ Answers /\ [Next]_vars => Answers'
    BY NextAnswers, Zenon
  <1> QED
    BY <1>1, <1>2, Phases, PTL DEF Spec

(* spz_async_snapshot: an answer that calls a request done carries what       *)
(* executing that request returned, whatever the work function does between   *)
(* the two looks at the state.                                                *)
THEOREM Truthful == Spec => []StatusTruthful
  <1>1. Answers => StatusTruthful
    BY Zenon DEF Answers, CallKept, Slot, StatusTruthful, At_
  <1> QED
    BY <1>1, AnswersKept, PTL

(* control_scratch: what a call copies is what it wrote, unless another call  *)
(* was admitted after it had released the gate.                               *)
THEOREM OwnReply == Spec => ReplyOwn
  <1>1. Answers => [\A a \in Callers : Copy(a) => scratch = a \/ ctl[a].overlapped]_vars
    <2> SUFFICES ASSUME Answers, NEW a \in Callers, Copy(a)
                 PROVE  scratch = a \/ ctl[a].overlapped
      OBVIOUS
    <2>1. ctl[a].pc = "copy"
      BY Zenon DEF Copy, At_
    <2> QED
      BY <2>1, Zenon DEF Answers, CallKept
  <1> QED
    BY <1>1, AnswersKept, PTL DEF ReplyOwn

-----------------------------------------------------------------------------
(* The words of the gates: a count that fits below SPZ_GATE_CLOSED. *)
LEMMA GateWords ==
  /\ GateClosed \in Nat /\ GateClosed > 1 /\ Word \in Nat /\ Word > GateClosed
  /\ GateClosed % GateClosed = 0
  /\ \A c \in Nat : (c + Word - 1) % Word \in Nat
  /\ \A c \in Nat : c < GateClosed => c % GateClosed = c
  /\ \A c \in Nat : 0 < c /\ c < GateClosed => (c + Word - 1) % Word = c - 1
  <1>1. Cardinality(CPUs) \in Nat /\ Cardinality(Tasks) \in Nat
    BY FS_CardinalityType, Zenon
  <1>2. GateClosed \in Nat /\ GateClosed > 1 /\ Word \in Nat /\ Word > GateClosed
    BY <1>1 DEF Word
  <1>3. \A w \in Nat : w > 1 => w % w = 0 /\ \A c \in Nat : (c + w - 1) % w \in Nat
    OBVIOUS
  <1>4. \A w \in Nat : \A c \in Nat : c < w => c % w = c
    OBVIOUS
  <1>5. \A w \in Nat : \A c \in Nat : 0 < c /\ c < w => (c + w - 1) % w = c - 1
    OBVIOUS
  <1> QED
    BY <1>2, <1>3, <1>4, <1>5

(* The callbacks inside are finitely many, and fewer than the gate can count. *)
LEMMA InsideFinite ==
  IsFiniteSet(Inside) /\ Cardinality(Inside) \in Nat /\ Cardinality(Inside) < GateClosed
  <1>1. /\ IsFiniteSet(Threads)
        /\ Cardinality(Threads) = Cardinality(CPUs) + Cardinality(Tasks) - Cardinality({})
    BY FS_Union, Zenon
  <1>2. Cardinality({}) = 0 /\ Cardinality(CPUs) \in Nat /\ Cardinality(Tasks) \in Nat
    BY FS_EmptySet, FS_CardinalityType, Zenon
  <1>3. Inside \subseteq Threads
    BY Zenon DEF Inside
  <1>4. IsFiniteSet(Inside) /\ Cardinality(Inside) <= Cardinality(Threads)
    BY <1>1, <1>3, FS_Subset, Zenon
  <1>5. Cardinality(Inside) \in Nat
    BY <1>4, FS_CardinalityType, Zenon
  <1> QED
    BY <1>1, <1>2, <1>4, <1>5

(* One more is inside, ... *)
LEMMA EnterInside ==
  ASSUME NEW t \in Threads, thread \in [Threads -> {"out", "fetched", "inside", "act"}],
         t \notin Inside, thread' = [thread EXCEPT ![t] = "inside"]
  PROVE  Cardinality(Inside') = Cardinality(Inside) + 1
  <1>1. Inside' = Inside \cup {t}
    BY Zenon DEF Inside
  <1> QED
    BY <1>1, InsideFinite, FS_AddElement, Zenon

(* ... one less, ... *)
LEMMA LeaveInside ==
  ASSUME NEW t \in Threads, thread \in [Threads -> {"out", "fetched", "inside", "act"}],
         t \in Inside, thread' = [thread EXCEPT ![t] = "out"]
  PROVE  Cardinality(Inside') = Cardinality(Inside) - 1 /\ Cardinality(Inside) > 0
  <1>1. Inside' = Inside \ {t} /\ Inside # {}
    BY Zenon DEF Inside
  <1>2. Cardinality(Inside') = Cardinality(Inside) - 1
    BY <1>1, InsideFinite, FS_RemoveElement, Zenon
  <1>3. Cardinality(Inside) > 0
    BY <1>1, InsideFinite, FS_EmptySet
  <1> QED
    BY <1>2, <1>3, Zenon

(* ... or none at all. *)
LEMMA NobodyInside == Cardinality(Inside) = 0 <=> Inside = {}
  BY InsideFinite, FS_EmptySet, Zenon

(* While the session is kept empty nobody is inside who could fill it. *)
LEMMA EmptiedInside ==
  ASSUME IInv, Emptying, ~reset, Emptied PROVE Inside = {}
  <1>1. CASE loader.pc = "absent"
    BY <1>1, Zenon DEF IInv, ThreadsByPhase, Inside
  <1>2. CASE loader.pc # "absent"
    BY <1>2, Zenon DEF IInv, Typed, HooksByPhase, Emptying, Emptied, Closed
  <1> QED
    BY <1>1, <1>2, Zenon

(* A step beside the callbacks and the loader: only a bind fills the session. *)
LEMMA AsideEmptying ==
  ASSUME Emptying, UNCHANGED <<loader, flags, active_handlers, reset, thread>>,
         ~reset /\ Emptied => live' \subseteq live
  PROVE  Emptying'
  BY Zenon DEF Emptying, Closed, Emptied, Inside

(* A callback leaves. *)
LEMMA LeaveEmptying ==
  ASSUME IInv, Emptying, NEW t \in Inside, HandlerLeave(t), UNCHANGED <<loader, flags, reset>>
  PROVE  Emptying'
  <1>1. /\ t \in Threads /\ thread \in [Threads -> {"out", "fetched", "inside", "act"}]
        /\ thread' = [thread EXCEPT ![t] = "out"] /\ active_handlers \in Nat
        /\ active_handlers' = (active_handlers + Word - 1) % Word
    BY Zenon DEF Inside, HandlerLeave, IInv, Typed, Emptying
  <1>2. active_handlers' \in Nat
    BY <1>1, GateWords, Zenon
  <1>3. loader.pc # "absent" /\ (~reset => ~Closed /\ ~Emptied)
    BY EmptiedInside, Zenon DEF IInv, ThreadsByPhase, Inside, Emptying
  <1>4. ~reset => active_handlers' = Cardinality(Inside')
    BY <1>1, <1>3, LeaveInside, InsideFinite, GateWords, Zenon DEF Emptying
  <1>5. (Closed' <=> Closed) /\ (Emptied' <=> Emptied)
    BY Zenon DEF Closed, Emptied
  <1> QED
    BY <1>2, <1>3, <1>4, <1>5, Zenon DEF Emptying

(* Callbacks: one enters only through the open gate, and counted. *)
LEMMA CallbackEmptying ==
  ASSUME IInv, Emptying, NEW t \in Threads, Callback(t) PROVE Emptying'
  <1>1. /\ UNCHANGED <<loader, flags, reset>>
        /\ thread \in [Threads -> {"out", "fetched", "inside", "act"}]
    BY Zenon DEF Callback, CallbackStep, Fetch, HandlerEnter, Observe, Act, gates, IInv, Typed
  <1>2. ASSUME UNCHANGED <<active_handlers, live>>, NEW pc, thread' = [thread EXCEPT ![t] = pc],
               pc \in {"inside", "act"} <=> t \in Inside
        PROVE  Emptying'
    <2>1. Inside' = Inside
      BY <1>1, <1>2, Zenon DEF Inside
    <2> QED
      BY <1>1, <1>2, <2>1, Zenon DEF Emptying, Closed, Emptied
  <1>3. CASE Fetch(t)
    <2>1. UNCHANGED <<active_handlers, live>> /\ thread' = [thread EXCEPT ![t] = "fetched"]
          /\ t \notin Inside
      BY <1>3, Zenon DEF Fetch, gates, Inside
    <2> QED
      BY <1>2, <2>1, Zenon
  <1>4. CASE HandlerEnter(t)
    <2>1. thread[t] = "fetched" /\ UNCHANGED live /\ t \notin Inside
      BY <1>4, Zenon DEF HandlerEnter, Inside
    <2>2. CASE UNCHANGED active_handlers /\ thread' = [thread EXCEPT ![t] = "out"]
      BY <1>2, <2>1, <2>2, Zenon
    <2>3. CASE /\ "ready" \in flags /\ active_handlers < GateClosed - 1
               /\ active_handlers' = active_handlers + 1
               /\ thread' = [thread EXCEPT ![t] = "inside"]
      <3>1. Cardinality(Inside') = Cardinality(Inside) + 1
        BY <1>1, <2>1, <2>3, EnterInside, Zenon
      <3>2. flags # {} /\ active_handlers \in Nat /\ (~reset => ~Closed)
        BY <2>3, GateWords DEF Emptying
      <3>3. (Closed' <=> Closed) /\ (Emptied' <=> Emptied)
        BY <1>1, Zenon DEF Closed, Emptied
      <3> QED
        BY <1>1, <2>1, <2>3, <3>1, <3>2, <3>3 DEF Emptying
    <2> QED
      BY <1>4, <2>2, <2>3, Zenon DEF HandlerEnter
  <1>5. CASE Observe(t)
    <2>1. t \in Inside /\ UNCHANGED live
      BY <1>5, Zenon DEF Observe, Inside
    <2>2. CASE HandlerLeave(t)
      BY <1>1, <2>1, <2>2, LeaveEmptying, Zenon
    <2>3. CASE thread' = [thread EXCEPT ![t] = "act"] /\ UNCHANGED active_handlers
      BY <1>2, <2>1, <2>3, Zenon
    <2> QED
      BY <1>5, <2>2, <2>3, Zenon DEF Observe
  <1>6. CASE Act(t)
    <2>1. t \in Inside /\ HandlerLeave(t)
      BY <1>6, Zenon DEF Act, Inside
    <2> QED
      BY <1>1, <2>1, LeaveEmptying, Zenon
  <1> QED
    BY <1>3, <1>4, <1>5, <1>6, Zenon DEF Callback, CallbackStep

(* A control call binds only while commands are accepted. *)
LEMMA ControlEmptying ==
  ASSUME IInv, Emptying, NEW a \in Callers, ControlStep(a) PROVE Emptying'
  <1>1. UNCHANGED <<loader, flags, active_handlers, reset, thread>>
    BY Zenon DEF ControlStep, Bind, Submit, Queue, ReadId, SnapshotBefore, SnapshotFields,
           SnapshotAfter, Release, Copy, gates
  <1>2. CASE UNCHANGED live
    BY <1>1, <1>2, AsideEmptying, Zenon
  <1>3. CASE ~UNCHANGED live
    <2>1. "accepting" \in flags /\ ctl[a].pc = "bind"
      BY <1>3, Zenon DEF ControlStep, Bind, Submit, Queue, ReadId, SnapshotBefore, SnapshotFields,
                  SnapshotAfter, Release, Copy, At_
    <2>2. ~Emptied
      BY <2>1, Zenon DEF IInv, HooksByPhase, WorkByPhase, Emptied
    <2> QED
      BY <1>1, <2>2, AsideEmptying, Zenon
  <1> QED
    BY <1>2, <1>3, Zenon

(* The work function at most clears the session. *)
LEMMA WorkEmptying == ASSUME Emptying, WorkStep PROVE Emptying'
  <1>1. UNCHANGED <<loader, flags, active_handlers, reset, thread>> /\ live' \subseteq live
    BY Zenon DEF WorkStep, WorkStart, WorkExecute, WorkStore, WorkReturn, gates
  <1> QED
    BY <1>1, AsideEmptying, Zenon

(* The loader on its way: the gate stays as it is and the session empty.      *)
LEMMA OnwardEmptying ==
  ASSUME IInv, Emptying, UNCHANGED <<thread, live, reset>>, active_handlers' \in Nat,
         loader'.pc \in {"handlers", "check", "flush"} => loader'.path = "exit",
         loader'.pc = "absent" => active_handlers' = 0 /\ flags' = {},
         loader'.path = "init" /\ loader'.pc \in {"install", "remove", "quiesce", "barrier", "wait"}
           => flags' = {} /\ Inside = {},
         ~reset => (Closed' => Inside = {}),
         ~reset => active_handlers' = IF Closed' THEN GateClosed ELSE Cardinality(Inside),
         Emptied' => Emptied \/ live = {}
  PROVE  Emptying'
  <1>1. Inside' = Inside
    BY Zenon DEF Inside
  <1> QED
    BY <1>1, Zenon DEF Emptying

(* Init: nobody is inside before the module is ready.                         *)
LEMMA InitEmptying ==
  ASSUME IInv, Emptying, Load \/ InstallHook PROVE Emptying'
  <1> USE DEF At, Goto
  <1>1. CASE Load
    <2>1. Inside = {} /\ Inside' = Inside /\ Cardinality({}) = 0
      BY <1>1, FS_EmptySet, Zenon DEF Load, IInv, ThreadsByPhase, Inside
    <2>2. /\ loader' = [pc |-> "install", path |-> "init"] /\ active_handlers' = 0 /\ flags' = {}
          /\ live' = {}
      BY <1>1, Zenon DEF Load, Emptying
    <2> QED
      BY <2>1, <2>2, Zenon DEF Emptying, Closed, Emptied
  <1>2. CASE InstallHook
    <2>1. /\ loader.pc = "install" /\ loader.path = "init" /\ flags = {} /\ Inside = {}
          /\ loader \in [pc : Pcs, path : {"init", "exit"}]
          /\ UNCHANGED <<thread, live, reset, active_handlers>> /\ active_handlers \in Nat
      BY <1>2, Zenon DEF InstallHook, gates, IInv, Typed, HooksByPhase, Emptying
    <2>2. ~Closed /\ Emptied
      BY <2>1, Zenon DEF Closed, Emptied
    <2>3. /\ loader'.path = "init"
          /\ \/ loader'.pc \in {"install", "remove"} /\ flags' = {}
             \/ loader'.pc = "listed" /\ "exit_started" \notin flags'
      BY <1>2, <2>1, Zenon DEF InstallHook
    <2>4. ~Closed'
      BY <2>3, Zenon DEF Closed
    <2> QED
      BY <2>1, <2>2, <2>3, <2>4, OnwardEmptying, Zenon DEF Emptying
  <1> QED
    BY <1>1, <1>2, Zenon

(* The hooks are removed, by a failed init or by an exit that closed the gate *)
(* and found the session empty.                                               *)
LEMMA RemoveEmptying ==
  ASSUME IInv, Emptying, RemoveHook \/ Quiesce \/ Barrier PROVE Emptying'
  <1> USE DEF At, Goto
  <1>1. /\ loader.pc \in {"remove", "quiesce", "barrier"} /\ UNCHANGED <<thread, live, reset>>
        /\ loader \in [pc : Pcs, path : {"init", "exit"}] /\ loader'.path = loader.path
        /\ loader'.pc \in {"remove", "quiesce", "barrier", "wait", "listed"}
    BY Zenon DEF RemoveHook, Quiesce, Barrier, gates, IInv, Typed
  <1>2. Emptied /\ (Closed <=> loader.path = "exit" \/ "exit_started" \in flags)
    BY <1>1, Zenon DEF Emptied, Closed
  <1>3. loader.path = "init" => flags = {} /\ Inside = {}
    BY <1>1, Zenon DEF Emptying
  <1>4. CASE loader'.pc # "listed"
    <2>1. /\ UNCHANGED active_handlers
          /\ loader.path = "init" => flags' = flags
      <3>1. CASE RemoveHook \/ Quiesce
        BY <3>1, <1>1, ZenonT(20), Zenon DEF RemoveHook, Quiesce, gates
      <3>2. CASE Barrier
        BY <3>2, <1>1, <1>4, Zenon DEF Barrier
      <3> QED
        BY <3>1, <3>2, Zenon
    <2>2. Closed' <=> Closed
      BY <1>1, <1>2, <1>3, <1>4, <2>1, Zenon DEF Closed
    <2> QED
      BY <1>1, <1>2, <1>3, <2>1, <2>2, OnwardEmptying, Zenon DEF Emptying
  <1>5. CASE loader'.pc = "listed"
    <2>1. /\ loader.pc = "barrier"
          /\ \/ loader.path = "init" /\ active_handlers' = GateClosed
                /\ flags' = {"initialized", "exit_started"}
             \/ loader.path = "exit" /\ UNCHANGED <<active_handlers, flags>>
      BY <1>1, <1>5, Zenon DEF RemoveHook, Quiesce, Barrier
    <2>2. "exit_started" \in flags'
      BY <2>1, Zenon DEF IInv, HooksByPhase
    <2>3. Closed'
      BY <2>2, Zenon DEF Closed
    <2>4. active_handlers' \in Nat /\ (~reset => Inside = {} /\ active_handlers' = GateClosed)
      BY <1>2, <1>3, <2>1, Zenon DEF Emptying
    <2> QED
      BY <1>1, <1>2, <1>5, <2>3, <2>4, OnwardEmptying, Zenon
  <1> QED
    BY <1>4, <1>5, Zenon

(* The image is freed. *)
LEMMA ZeroEmptying == ASSUME IInv, Emptying, Zero PROVE Emptying'
  <1>1. /\ loader.pc = "wait" /\ loader'.pc = "absent" /\ flags' = {} /\ active_handlers' = 0
        /\ UNCHANGED <<thread, live, reset>>
    BY Zenon DEF Zero, At, Goto, IInv, Typed
  <1>2. Emptied /\ ~Closed'
    BY <1>1, Zenon DEF Emptied, Closed
  <1>3. ~reset => Cardinality(Inside) = 0
    BY <1>2, EmptiedInside, NobodyInside, Zenon
  <1> QED
    BY <1>1, <1>2, <1>3, OnwardEmptying, Zenon

(* An exit begins, ... *)
LEMMA StartEmptying == ASSUME IInv, Emptying, Unload \/ ExitStart PROVE Emptying'
  <1> USE DEF At, Goto, Listed
  <1>1. /\ loader.pc \in {"listed", "drain"} /\ UNCHANGED <<thread, live, reset, active_handlers>>
        /\ loader \in [pc : Pcs, path : {"init", "exit"}] /\ loader'.path = "exit"
        /\ loader'.pc \in {"drain", "barrier", "handlers", "listed"}
        /\ loader'.pc = "barrier" => "exit_started" \in flags
        /\ "exit_started" \in flags' <=> "exit_started" \in flags
        /\ active_handlers \in Nat
    BY DEF Unload, ExitStart, gates, IInv, Typed, HooksByPhase, Emptying
  <1>2. (Closed' <=> Closed) /\ (Emptied' <=> Emptied)
    BY <1>1, Zenon DEF Closed, Emptied
  <1> QED
    BY <1>1, <1>2, OnwardEmptying, Zenon DEF Emptying

(* ... is refused, and opens the gates again, ... *)
LEMMA AbortEmptying ==
  ASSUME IInv, Emptying, AbortExit, UNCHANGED <<thread, live>>,
         loader.pc \in {"handlers", "check", "flush"},
         loader.pc = "handlers" => active_handlers # 0
  PROVE  Emptying'
  <1>1. /\ loader'.pc = "listed" /\ active_handlers' = 0
        /\ "exit_started" \notin flags /\ "exit_started" \notin flags'
    BY Zenon DEF AbortExit, Goto, IInv, Typed, HooksByPhase
  <1>2. ~Closed' /\ ~Emptied' /\ (Closed <=> loader.pc # "handlers")
    BY <1>1, Zenon DEF Closed, Emptied
  <1>3. ASSUME ~reset' PROVE Cardinality(Inside) = 0 /\ ~reset
    <2>1. ~reset /\ active_handlers % GateClosed = 0
      BY <1>3, Zenon DEF AbortExit
    <2>2. CASE Closed
      BY <2>1, <2>2, NobodyInside, Zenon DEF Emptying
    <2>3. CASE ~Closed
      BY <1>2, <2>1, <2>3, InsideFinite, GateWords, Zenon DEF Emptying
    <2> QED
      BY <2>1, <2>2, <2>3, Zenon
  <1>4. Inside' = Inside
    BY Zenon DEF Inside
  <1> QED
    BY <1>1, <1>2, <1>3, <1>4, Zenon DEF Emptying

(* ... or closes the gate of the callbacks, finds nothing live and goes on.   *)
LEMMA ExitEmptying ==
  ASSUME IInv, Emptying, ExitHandlers \/ ExitCheck \/ ExitFlush PROVE Emptying'
  <1> USE DEF At, Goto
  <1>1. /\ loader.pc \in {"handlers", "check", "flush"} /\ loader.path = "exit"
        /\ UNCHANGED <<thread, live>> /\ loader \in [pc : Pcs, path : {"init", "exit"}]
        /\ "exit_started" \notin flags
    BY Zenon DEF ExitHandlers, ExitCheck, ExitFlush, IInv, Typed, HooksByPhase, Emptying
  <1>2. CASE AbortExit /\ (loader.pc = "handlers" => active_handlers # 0)
    BY <1>1, <1>2, AbortEmptying, Zenon
  <1>3. CASE ExitHandlers /\ active_handlers = 0
    <2>1. /\ loader'.pc = "check" /\ loader'.path = "exit" /\ active_handlers' = GateClosed
          /\ UNCHANGED <<flags, reset>>
      BY <1>1, <1>3, Zenon DEF ExitHandlers
    <2>2. ~Closed /\ Closed' /\ ~Emptied'
      BY <1>1, <1>3, <2>1, Zenon DEF ExitHandlers, Closed, Emptied
    <2>3. ~reset => Inside = {}
      BY <1>3, <2>2, NobodyInside, Zenon DEF Emptying
    <2> QED
      BY <1>1, <2>1, <2>2, <2>3, GateWords, OnwardEmptying, Zenon
  <1>4. CASE (ExitCheck /\ CanExit) \/ (ExitFlush /\ ~Busy)
    <2>1. /\ loader'.pc \in {"flush", "remove"} /\ loader'.path = "exit"
          /\ loader.pc = "check" => live = {}
          /\ loader.pc # "handlers"
          /\ UNCHANGED <<flags, reset, active_handlers>> /\ active_handlers \in Nat
      BY <1>1, <1>4, Zenon DEF ExitCheck, ExitFlush, CanExit, gates, Emptying
    <2>2. Closed /\ Closed' /\ (Emptied \/ live = {})
      BY <1>1, <2>1, Zenon DEF Closed, Emptied
    <2> QED
      BY <1>1, <2>1, <2>2, OnwardEmptying, Zenon DEF Emptying
  <1> QED
    BY <1>1, <1>2, <1>3, <1>4, Zenon DEF ExitHandlers, ExitCheck, ExitFlush

(* Nothing is loaded at first. *)
LEMMA InitiallyEmptying == Init => Emptying
  <1> SUFFICES ASSUME Init PROVE Emptying
    OBVIOUS
  <1>1. Inside = {} /\ Cardinality({}) = 0
    BY FS_EmptySet, Zenon DEF Init, Inside
  <1> QED
    BY <1>1, Zenon DEF Init, Emptying, Closed, Emptied

(* Every step keeps the count right and the session empty where it must be.   *)
LEMMA NextEmptying == IInv /\ Emptying /\ [Next]_vars => Emptying'
  <1> SUFFICES ASSUME IInv, Emptying, [Next]_vars PROVE Emptying'
    OBVIOUS
  <1>1. CASE Load \/ Unload \/ LoaderStep
    BY <1>1, InitEmptying, RemoveEmptying, ZeroEmptying, StartEmptying, ExitEmptying, Zenon
       DEF LoaderStep
  <1>2. CASE WorkStep
    BY <1>2, WorkEmptying, Zenon
  <1>3. CASE \E t \in Threads : Callback(t)
    BY <1>3, CallbackEmptying, Zenon
  <1>4. CASE \E a \in Callers : ControlStep(a)
    BY <1>4, ControlEmptying, Zenon
  <1>5. CASE \E c \in CPUs : EachCpu(c)
    <2>1. UNCHANGED <<loader, flags, active_handlers, reset, thread, live>>
      BY <1>5, Zenon DEF EachCpu, gates
    <2> QED
      BY <2>1, AsideEmptying, Zenon
  <1>6. CASE \E a \in Callers : \E op \in Commands[a] : Call(a, op)
    <2>1. UNCHANGED <<loader, flags, active_handlers, reset, thread, live>>
      BY <1>6, Zenon DEF Call
    <2> QED
      BY <2>1, AsideEmptying, Zenon
  <1>7. CASE UNCHANGED vars
    <2>1. UNCHANGED <<loader, flags, active_handlers, reset, thread, live>>
      BY <1>7, Zenon DEF vars, gates
    <2> QED
      BY <2>1, AsideEmptying, Zenon
  <1> QED
    BY <1>1, <1>2, <1>3, <1>4, <1>5, <1>6, <1>7, Zenon DEF Next

(* spz_module_begin_exit and spz_module_can_exit: an image that is freed      *)
(* leaves no task and no comparator behind, unless a refused unload had       *)
(* zeroed the count of the callbacks while one was running.                   *)
THEOREM LeftQuiet == Spec => []QuietUnlessReset
  <1>1. Init => Emptying
    BY InitiallyEmptying, Zenon
  <1>2. IInv /\ Emptying /\ [Next]_vars => Emptying'
    BY NextEmptying, Zenon
  <1>3. Emptying => QuietUnlessReset
    BY Zenon DEF Emptying, Emptied, QuietUnlessReset, At
  <1> QED
    BY <1>1, <1>2, <1>3, Phases, PTL DEF Spec
=============================================================================
