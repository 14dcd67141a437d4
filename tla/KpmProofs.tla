------------------------------ MODULE KpmProofs ------------------------------
(* Whatever the scheduler, the exceptions, the commands and the worker do, on *)
(* any number of CPUs: a comparator is armed only under the target and only   *)
(* for the current binding, a DISABLE that reported success left none, and a  *)
(* one-shot breakpoint hits once.                                             *)
EXTENDS Kpm, FiniteSetTheorems, TLAPS

USE KpmAssumption

InHandler == {c \in CPUs : cpu[c].pc \in HandlerPcs}

-----------------------------------------------------------------------------
(* The count of handlers, when CPU c enters, stays in or leaves a callback.   *)
LEMMA CountFinite == IsFiniteSet(InHandler) /\ Cardinality(InHandler) \in Nat
  BY FS_Subset, FS_CardinalityType, Zenon DEF InHandler

(* The count of the handlers inside goes up with one that enters, ... *)
LEMMA EnterCounted ==
  ASSUME HandlersCounted, NEW c \in CPUs, cpu[c].pc \notin HandlerPcs, cpu'[c].pc \in HandlerPcs,
         \A d \in CPUs \ {c} : cpu'[d].pc = cpu[d].pc,
         active_handlers' = active_handlers + 1, UNCHANGED exiting
  PROVE  HandlersCounted' /\ active_handlers' \in Nat
  <1>1. InHandler' = InHandler \cup {c} /\ c \notin InHandler
    BY DEF InHandler
  <1>2. Cardinality(InHandler') = Cardinality(InHandler) + 1
    BY <1>1, CountFinite, FS_AddElement, Zenon
  <1> QED
    BY <1>2, CountFinite DEF HandlersCounted, InHandler

(* ... down with one that leaves, ... *)
LEMMA LeaveCounted ==
  ASSUME HandlersCounted, NEW c \in CPUs, cpu[c].pc \in HandlerPcs, cpu'[c].pc \notin HandlerPcs,
         \A d \in CPUs \ {c} : cpu'[d].pc = cpu[d].pc,
         active_handlers' = active_handlers - 1, UNCHANGED exiting
  PROVE  HandlersCounted' /\ active_handlers' \in Nat
  <1>1. InHandler' = InHandler \ {c} /\ c \in InHandler
    BY DEF InHandler
  <1>2. Cardinality(InHandler') = Cardinality(InHandler) - 1 /\ Cardinality(InHandler') \in Nat
    BY <1>1, CountFinite, FS_RemoveElement, FS_CardinalityType, Zenon
  <1> QED
    BY <1>2, CountFinite DEF HandlersCounted, InHandler

(* ... and stays with any other step. *)
LEMMA StayCounted ==
  ASSUME HandlersCounted, UNCHANGED <<active_handlers, exiting>>, 
         \A d \in CPUs : cpu'[d].pc \in HandlerPcs <=> cpu[d].pc \in HandlerPcs
  PROVE  HandlersCounted'
  <1>1. InHandler' = InHandler
    BY Zenon DEF InHandler
  <1> QED
    BY <1>1, Zenon DEF HandlersCounted, InHandler

-----------------------------------------------------------------------------
(* Nothing is armed, counted or in progress at first. *)
LEMMA InitInvariant == Init => IInv
  <1> SUFFICES ASSUME Init PROVE IInv
    OBVIOUS
  <1>1. Typed
    <2>1. debug \in [CPUs -> ControllerType] /\ running \in [CPUs -> {Target, Other}]
      BY Zenon DEF Init, ControllerType, EmptyCpu
    <2>2. cpu \in [CPUs -> [pc : CpuPcs, gen : Nat]]
      BY Zenon DEF Init, CpuPcs, Idle
    <2>3. /\ async \in [state : {"FREE", "PENDING", "RUNNING", "DONE"},
                        op : Operations \cup {"NONE"}, status : {"none", "ok", "error"}]
          /\ worker \in [pc : WorkerPcs, todo : SUBSET CPUs]
      BY Zenon DEF Init, WorkerPcs, IdleWorker
    <2>4. enabled \in BOOLEAN
      BY Zenon DEF Init
    <2> QED
      BY <2>1, <2>2, <2>3, <2>4, Zenon DEF Init, Typed
  <1>2. HandlersCounted
    <2>1. InHandler = {}
      BY Zenon DEF Init, InHandler, Idle, HandlerPcs
    <2> QED
      BY <2>1, FS_EmptySet, SMTT(60) DEF Init, HandlersCounted, InHandler
  <1>3. CpuByPc /\ ComparatorOnlyForTarget /\ OneShotOnce /\ NoInheritedComparator
    BY Zenon DEF Init, CpuByPc, ComparatorOnlyForTarget, OneShotOnce, NoInheritedComparator,
           Idle, EmptyCpu
  <1>4. WorkerByPhase /\ QuietSession
    BY Zenon DEF Init, WorkerByPhase, QuietSession, AllDisarmed, Disarmed, Idle, EmptyCpu, IdleWorker,
           ClearPcs
  <1> QED
    BY <1>1, <1>2, <1>3, <1>4, Zenon DEF IInv

-----------------------------------------------------------------------------
(* What an action on CPU c has to keep when it leaves the session, the worker *)
(* and the requests alone: the types, and what the invariant says of c.       *)
LEMMA CpuKeeps ==
  ASSUME IInv, NEW c \in CPUs,
         UNCHANGED <<control_busy, binding, configured, enabled, running, exiting, ctl,
                     async, worker>>, maps' \in Nat,
         cpu' \in [CPUs -> [pc : CpuPcs, gen : Nat]], debug' \in [CPUs -> ControllerType],
         \A d \in CPUs \ {c} : cpu'[d] = cpu[d] /\ debug'[d] = debug[d],
         active_handlers' \in Nat, HandlersCounted', 
         cpu'[c].pc \in {"capture", "program", "handle", "hit"} => running[c] = Target,
         cpu'[c].pc \in {"after", "observe", "capture", "failed", "arm", "push", "program"}
           => debug'[c].state = "EMPTY",
         cpu'[c].pc = "program" =>
           /\ cpu'[c].gen = binding.generation /\ binding.state \in {"BOUND", "EXITED"}
           /\ cpu[c].pc # "program" => enabled,
         debug'[c].state # "EMPTY" =>
           /\ debug[c].state # "EMPTY" \/ cpu[c].pc = "program" 
           /\ cpu'[c].pc = "run" => running[c] = Target
           /\ debug'[c].gen = binding.generation /\ binding.state \in {"BOUND", "EXITED"},
         hits' \in Nat, OneShotOnce'
  PROVE  IInv'
  <1>1. Typed'
    BY DEF IInv, Typed
  <1>2. CpuByPc'
    BY DEF IInv, CpuByPc
  <1>3. \A d \in CPUs : ~enabled /\ Disarmed(d) => Disarmed(d)'
    BY Zenon DEF Disarmed
  <1>4. WorkerByPhase' /\ QuietSession'
    BY <1>3, Zenon DEF IInv, WorkerByPhase, QuietSession, AllDisarmed
  <1>5. ComparatorOnlyForTarget' /\ NoInheritedComparator'
    BY DEF IInv, ComparatorOnlyForTarget, NoInheritedComparator
  <1> QED
    BY <1>1, <1>2, <1>4, <1>5, Zenon DEF IInv

(* The way into and out of a callback, seen from CPU c. *)
LEMMA CpuSteps ==
  ASSUME Typed, NEW c \in CPUs, NEW pc \in CpuPcs
  PROVE  /\ Goto(c, pc) => /\ cpu' \in [CPUs -> [pc : CpuPcs, gen : Nat]]
                           /\ cpu'[c].pc = pc /\ cpu'[c].gen = cpu[c].gen
                           /\ \A d \in CPUs \ {c} : cpu'[d] = cpu[d]
         /\ Return(c) => /\ cpu' \in [CPUs -> [pc : CpuPcs, gen : Nat]]
                         /\ cpu'[c].pc = "run" /\ active_handlers' = active_handlers - 1
                         /\ \A d \in CPUs \ {c} : cpu'[d] = cpu[d]
  <1>1. ASSUME Goto(c, pc)
        PROVE  /\ cpu' \in [CPUs -> [pc : CpuPcs, gen : Nat]]
               /\ cpu'[c].pc = pc /\ cpu'[c].gen = cpu[c].gen
               /\ \A d \in CPUs \ {c} : cpu'[d] = cpu[d]
    BY <1>1 DEF Typed, Goto
  <1>2. ASSUME Return(c)
        PROVE  /\ cpu' \in [CPUs -> [pc : CpuPcs, gen : Nat]]
               /\ cpu'[c].pc = "run" /\ active_handlers' = active_handlers - 1
               /\ \A d \in CPUs \ {c} : cpu'[d] = cpu[d]
    BY <1>2, Zenon DEF Typed, Return, Idle, Left, CpuPcs
  <1> QED
    BY <1>1, <1>2, Zenon

(* The hits are as they were when the hit handlers and the flags are. *)
LEMMA HitsKept ==
  ASSUME OneShotOnce, UNCHANGED <<configured, enabled, hits>>,
         \A d \in CPUs : cpu[d].pc = "hit" => cpu'[d].pc = "hit"
  PROVE  OneShotOnce'
  BY Zenon DEF OneShotOnce

-----------------------------------------------------------------------------
(* The context switch: the target is on one CPU.  What it armed on the CPU it *)
(* leaves is still there until finish_before.                                 *)
LEMMA SwitchKeeps ==
  ASSUME IInv, NEW c \in CPUs, NEW next \in {Target, Other}, Switch(c, next) PROVE IInv'
  <1> "before" \in CpuPcs /\ "before" \notin HandlerPcs /\ "run" \notin HandlerPcs
    BY Zenon DEF CpuPcs, HandlerPcs
  <1>1. /\ UNCHANGED <<gates, session, debug, exiting, ctl, async, worker, hits>>
        /\ cpu[c].pc = "run" /\ running' = [running EXCEPT ![c] = next]
        /\ next = Target => \A d \in CPUs : running[d] # Target
        /\ cpu' \in [CPUs -> [pc : CpuPcs, gen : Nat]] /\ cpu'[c].pc = "before"
        /\ \A d \in CPUs \ {c} : cpu'[d] = cpu[d]
    BY CpuSteps, Zenon DEF IInv, Switch
  <1>2. Typed'
    BY <1>1 DEF IInv, Typed, gates, session
  <1>3. HandlersCounted'
    BY <1>1, StayCounted, Zenon DEF IInv, gates
  <1>4. CpuByPc' /\ ComparatorOnlyForTarget' /\ NoInheritedComparator'
    BY <1>1 DEF IInv, Typed, CpuByPc, ComparatorOnlyForTarget, NoInheritedComparator, session
  <1>5. \A d \in CPUs : Disarmed(d) => Disarmed(d)'
    BY <1>1, Zenon DEF Disarmed
  <1>6. WorkerByPhase' /\ QuietSession'
    BY <1>1, <1>5, Zenon DEF IInv, WorkerByPhase, QuietSession, AllDisarmed, session, gates
  <1>7. OneShotOnce'
    BY <1>1, HitsKept, Zenon DEF IInv, session
  <1> QED
    BY <1>2, <1>3, <1>4, <1>6, <1>7, Zenon DEF IInv

(* Entering a callback, between two tasks or from an exception of the target. *)
LEMMA EnterKeeps ==
  ASSUME IInv, NEW c \in CPUs, FinishBeforeEnter(c) \/ FinishAfterEnter(c) \/ Exception(c)
  PROVE  IInv'
  <1>1. /\ UNCHANGED <<control_busy, session, debug, target, ctl, async, worker, hits>>
        /\ active_handlers' = active_handlers + 1
        /\ \/ cpu[c].pc = "before" /\ Goto(c, "restore")
           \/ cpu[c].pc = "after" /\ Goto(c, "observe")
           \/ cpu[c].pc = "run" /\ running[c] = Target /\ Goto(c, "handle")
    BY Zenon DEF FinishBeforeEnter, FinishAfterEnter, Exception, Entered
  <1>2. /\ cpu' \in [CPUs -> [pc : CpuPcs, gen : Nat]]
        /\ \A d \in CPUs \ {c} : cpu'[d] = cpu[d]
        /\ \/ cpu[c].pc = "before" /\ cpu'[c].pc = "restore"
           \/ cpu[c].pc = "after" /\ cpu'[c].pc = "observe"
           \/ cpu[c].pc = "run" /\ running[c] = Target /\ cpu'[c].pc = "handle"
    BY <1>1, CpuSteps, Zenon DEF IInv, CpuPcs, HandlerPcs
  <1>3. HandlersCounted' /\ active_handlers' \in Nat
    BY <1>1, <1>2, EnterCounted, Zenon DEF IInv, HandlerPcs, target
  <1>4. OneShotOnce' /\ hits' \in Nat
    BY <1>1, <1>2, HitsKept, Zenon DEF IInv, Typed, session
  <1> QED
    BY <1>1, <1>2, <1>3, <1>4, CpuKeeps, ZenonT(60)
       DEF IInv, Typed, CpuByPc, NoInheritedComparator, session, target

-----------------------------------------------------------------------------
(* finish_before: what the last task armed is removed. *)
LEMMA FinishBeforeKeeps ==
  ASSUME IInv, NEW c \in CPUs, FinishBefore(c) PROVE IInv'
  <1> DEFINE Changed == <<control_busy, session, target, ctl, async, worker, hits>>
  <1>1. UNCHANGED Changed /\ cpu[c].pc = "restore" /\ Goto(c, "after")
    BY Zenon DEF FinishBefore
  <1>2. active_handlers' = active_handlers - 1
    BY Zenon DEF FinishBefore, Left
  <1>3. /\ debug' \in [CPUs -> ControllerType] /\ debug'[c].state = "EMPTY"
        /\ \A d \in CPUs \ {c} : debug'[d] = debug[d]
    BY Zenon DEF FinishBefore, IInv, Typed, EmptyCpu, ControllerType
  <1>4. /\ cpu' \in [CPUs -> [pc : CpuPcs, gen : Nat]] /\ cpu'[c].pc = "after"
        /\ \A d \in CPUs \ {c} : cpu'[d] = cpu[d]
    BY <1>1, CpuSteps, Zenon DEF IInv, CpuPcs
  <1>5. HandlersCounted' /\ active_handlers' \in Nat
    BY <1>1, <1>2, <1>4, LeaveCounted, Zenon DEF IInv, HandlerPcs, target
  <1>6. OneShotOnce' /\ hits' \in Nat
    BY <1>1, <1>4, HitsKept, Zenon DEF IInv, Typed, session
  <1> QED
    BY <1>1, <1>3, <1>4, <1>5, <1>6, CpuKeeps, SMTT(60) DEF IInv, Typed, session, target

(* Observing binds a pending selector to the target: nothing is armed yet.    *)
LEMMA ObserveKeeps ==
  ASSUME IInv, NEW c \in CPUs, Observe(c) PROVE IInv'
  <1>1. PICK pc \in {"capture", "arm", "push"} :
          /\ cpu' = [cpu EXCEPT ![c] = [pc |-> pc, gen |-> binding.generation]]
          /\ pc = "capture" => running[c] = Target
          /\ \/ UNCHANGED binding
             \/ /\ binding.state \in {"PENDING", "BOUND"}
                /\ binding' = [binding EXCEPT !.state = "BOUND"]
    BY Zenon DEF Observe
  <1>2. cpu[c].pc = "observe"
        /\ UNCHANGED <<gates, maps, configured, enabled, debug, target, ctl, async, worker, hits>>
    BY Zenon DEF Observe
  <1>3. /\ cpu' \in [CPUs -> [pc : CpuPcs, gen : Nat]] /\ cpu'[c].pc = pc
        /\ \A d \in CPUs \ {c} : cpu'[d] = cpu[d]
    BY <1>1, Zenon DEF IInv, Typed, CpuPcs, HandlerPcs
  <1>4. /\ binding' \in [state : {"EMPTY", "PENDING", "BOUND", "EXITED"}, generation : Nat]
        /\ binding'.generation = binding.generation
        /\ binding.state \in {"BOUND", "EXITED"} => binding'.state \in {"BOUND", "EXITED"}
    BY <1>1, Zenon DEF IInv, Typed
  <1>5. Typed'
    BY <1>2, <1>3, <1>4 DEF IInv, Typed, gates, target
  <1>6. HandlersCounted'
    BY <1>2, <1>3, StayCounted, Zenon DEF IInv, HandlerPcs, gates, target
  <1>7. CpuByPc' /\ ComparatorOnlyForTarget' /\ NoInheritedComparator'
    BY <1>1, <1>2, <1>3, <1>4
       DEF IInv, CpuByPc, ComparatorOnlyForTarget, NoInheritedComparator, target
  <1>8. \A d \in CPUs : Disarmed(d) => Disarmed(d)'
    BY <1>2, <1>3, Zenon DEF Disarmed
  <1>9. WorkerByPhase' /\ QuietSession'
    BY <1>2, <1>8, Zenon DEF IInv, WorkerByPhase, QuietSession, AllDisarmed, gates
  <1>10. OneShotOnce'
    BY <1>2, <1>3, HitsKept, Zenon DEF IInv
  <1> QED
    BY <1>5, <1>6, <1>7, <1>9, <1>10, Zenon DEF IInv

(* The steps of finish_after that stay inside it and touch no comparator.     *)
LEMMA CaptureKeeps ==
  ASSUME IInv, NEW c \in CPUs, Capture(c) \/ CaptureFailed(c) PROVE IInv'
  <1>1. /\ UNCHANGED <<gates, binding, configured, enabled, debug, target, ctl, async, worker,
                       hits>>
        /\ cpu[c].pc \in {"capture", "failed"}
        /\ \E pc \in {"failed", "arm"} : Goto(c, pc)
    BY Zenon DEF Capture, CaptureFailed, session
  <1>2. maps' \in Nat
    BY DEF Capture, CaptureFailed, session, IInv, Typed
  <1>3. /\ cpu' \in [CPUs -> [pc : CpuPcs, gen : Nat]] /\ cpu'[c].pc \in {"failed", "arm"}
        /\ \A d \in CPUs \ {c} : cpu'[d] = cpu[d]
    BY <1>1, CpuSteps, Zenon DEF IInv, CpuPcs, HandlerPcs
  <1>4. HandlersCounted' /\ active_handlers' \in Nat
    BY <1>1, <1>3, StayCounted DEF IInv, Typed, HandlerPcs, gates, target
  <1>5. OneShotOnce' /\ hits' \in Nat
    BY <1>1, <1>3, HitsKept, Zenon DEF IInv, Typed
  <1> QED
    BY <1>1, <1>2, <1>3, <1>4, <1>5, CpuKeeps DEF IInv, Typed, CpuByPc, gates, target

(* The decision to arm is taken only while the breakpoint is enabled.         *)
LEMMA ArmKeeps ==
  ASSUME IInv, NEW c \in CPUs, ArmLiveCurrent(c) PROVE IInv'
  <1>1. /\ UNCHANGED <<control_busy, session, debug, target, ctl, async, worker, hits>>
        /\ cpu[c].pc = "arm"
    BY Zenon DEF ArmLiveCurrent
  <1>3. CASE /\ enabled /\ binding.state = "BOUND" /\ running[c] = Target
             /\ cpu' = [cpu EXCEPT ![c] = [pc |-> "program", gen |-> binding.generation]]
             /\ UNCHANGED active_handlers
    <2>1. /\ cpu' \in [CPUs -> [pc : CpuPcs, gen : Nat]] /\ cpu'[c].pc = "program"
          /\ cpu'[c].gen = binding.generation
          /\ \A d \in CPUs \ {c} : cpu'[d] = cpu[d]
      BY <1>3, Zenon DEF IInv, Typed, CpuPcs, HandlerPcs
    <2>2. HandlersCounted' /\ active_handlers' \in Nat
      BY <1>1, <1>3, <2>1, StayCounted DEF IInv, Typed, HandlerPcs, target
    <2>3. OneShotOnce' /\ hits' \in Nat
      BY <1>1, <2>1, HitsKept DEF IInv, Typed, session
    <2> QED
      BY <1>1, <1>3, <2>1, <2>2, <2>3, CpuKeeps DEF IInv, Typed, CpuByPc, session, target
  <1>4. CASE Return(c)
    <2>1. /\ cpu' \in [CPUs -> [pc : CpuPcs, gen : Nat]] /\ cpu'[c].pc = "run"
          /\ active_handlers' = active_handlers - 1
          /\ \A d \in CPUs \ {c} : cpu'[d] = cpu[d]
      BY <1>4, CpuSteps, Zenon DEF IInv, CpuPcs
    <2>2. HandlersCounted' /\ active_handlers' \in Nat
      BY <1>1, <2>1, LeaveCounted, Zenon DEF IInv, HandlerPcs, target
    <2>3. OneShotOnce' /\ hits' \in Nat
      BY <1>1, <2>1, HitsKept, Zenon DEF IInv, Typed, session
    <2> QED
      BY <1>1, <2>1, <2>2, <2>3, CpuKeeps, ZenonT(60) DEF IInv, Typed, CpuByPc, session, target
  <1>5. CASE Goto(c, "push") /\ UNCHANGED active_handlers
    <2>1. /\ cpu' \in [CPUs -> [pc : CpuPcs, gen : Nat]] /\ cpu'[c].pc = "push"
          /\ \A d \in CPUs \ {c} : cpu'[d] = cpu[d]
      BY <1>5, CpuSteps, Zenon DEF IInv, CpuPcs, HandlerPcs
    <2>2. HandlersCounted' /\ active_handlers' \in Nat
      BY <1>1, <1>5, <2>1, StayCounted DEF IInv, Typed, HandlerPcs, target
    <2>3. OneShotOnce' /\ hits' \in Nat
      BY <1>1, <2>1, HitsKept, ZenonT(60) DEF IInv, Typed, session
    <2> QED
      BY <1>1, <2>1, <2>2, <2>3, CpuKeeps, SMTT(60) DEF IInv, Typed, CpuByPc, session, target
  <1> QED
    BY <1>3, <1>4, <1>5, Zenon DEF ArmLiveCurrent

(* The comparator is programmed for the binding the decision was taken for.   *)
LEMMA ProgramKeeps ==
  ASSUME IInv, NEW c \in CPUs, Program(c) \/ PushIntegrity(c) PROVE IInv'
  <1>1. /\ UNCHANGED <<control_busy, session, target, ctl, async, worker, hits>>
        /\ Return(c)
        /\ \/ cpu[c].pc = "push" /\ debug' = debug
           \/ /\ cpu[c].pc = "program"
              /\ debug' = [debug EXCEPT ![c] = [state |-> "ARMED", mode |-> configured,
                                                gen |-> cpu[c].gen]]
    BY Zenon DEF Program, PushIntegrity, IInv, CpuByPc
  <1>2. /\ debug' \in [CPUs -> ControllerType]
        /\ \A d \in CPUs \ {c} : debug'[d] = debug[d]
        /\ \/ cpu[c].pc = "push" /\ debug'[c] = debug[c]
           \/ cpu[c].pc = "program" /\ debug'[c].gen = cpu[c].gen
    BY <1>1 DEF IInv, Typed, ControllerType
  <1>3. /\ cpu' \in [CPUs -> [pc : CpuPcs, gen : Nat]] /\ cpu'[c].pc = "run"
        /\ active_handlers' = active_handlers - 1
        /\ \A d \in CPUs \ {c} : cpu'[d] = cpu[d]
    BY <1>1, CpuSteps, Zenon DEF IInv, CpuPcs
  <1>4. HandlersCounted' /\ active_handlers' \in Nat
    BY <1>1, <1>3, LeaveCounted, Zenon DEF IInv, HandlerPcs, target
  <1>5. OneShotOnce' /\ hits' \in Nat
    BY <1>1, <1>3, HitsKept, Zenon DEF IInv, Typed, session
  <1>6. debug'[c].state # "EMPTY" =>
          /\ cpu[c].pc = "program" /\ running[c] = Target
          /\ debug'[c].gen = binding.generation /\ binding.state \in {"BOUND", "EXITED"}
    BY <1>2, Zenon DEF IInv, CpuByPc
  <1> QED
    BY <1>1, <1>2, <1>3, <1>4, <1>5, <1>6, CpuKeeps, SMTT(60) DEF IInv, Typed, session, target

-----------------------------------------------------------------------------
(* A hit is counted while no other hit is being handled, since the target is  *)
(* on this CPU.                                                               *)
LEMMA HandleKeeps ==
  ASSUME IInv, NEW c \in CPUs, Handle(c) PROVE IInv'
  <1>1. /\ UNCHANGED <<control_busy, session, target, ctl, async, worker>>
        /\ cpu[c].pc = "handle" /\ running[c] = Target
    BY ZenonT(60) DEF Handle, IInv, CpuByPc
  <1>2. CASE /\ debug[c].state = "ARMED"
             /\ debug' = [debug EXCEPT ![c].state =
                            IF debug[c].mode = "ONCE" THEN "ONE_SHOT_DONE" ELSE "STEP_PENDING"]
             /\ hits' = IF hits < 2 THEN hits + 1 ELSE hits
             /\ Goto(c, "hit") /\ UNCHANGED active_handlers
    <2>1. /\ debug' \in [CPUs -> ControllerType] /\ debug'[c].gen = debug[c].gen
          /\ \A d \in CPUs \ {c} : debug'[d] = debug[d]
      BY <1>2 DEF IInv, Typed, ControllerType
    <2>2. /\ cpu' \in [CPUs -> [pc : CpuPcs, gen : Nat]] /\ cpu'[c].pc = "hit"
          /\ \A d \in CPUs \ {c} : cpu'[d] = cpu[d]
      BY <1>2, CpuSteps, Zenon DEF IInv, CpuPcs, HandlerPcs
    <2>3. HandlersCounted' /\ active_handlers' \in Nat
      BY <1>1, <1>2, <2>2, StayCounted DEF IInv, Typed, HandlerPcs, target
    <2>4. \A d \in CPUs : cpu[d].pc # "hit"
      BY <1>1, Zenon DEF IInv, CpuByPc
    <2>5. hits' \in Nat /\ (hits = 0 => hits' = 1)
      BY <1>2 DEF IInv, Typed
    <2>6. OneShotOnce'
      BY <1>1, <2>2, <2>4, <2>5, Zenon DEF IInv, OneShotOnce, session
    <2>7. debug[c].state # "EMPTY" /\ maps \in Nat
          /\ debug'[c].gen = binding.generation /\ binding.state \in {"BOUND", "EXITED"}
      BY <1>2, <2>1, ZenonT(60) DEF IInv, Typed, NoInheritedComparator
    <2> QED
      BY <1>1, <2>1, <2>2, <2>3, <2>5, <2>6, <2>7, CpuKeeps DEF session, target
  <1>3. CASE /\ Return(c) /\ UNCHANGED hits
             /\ \/ UNCHANGED debug
                \/ /\ debug[c].state = "STEP_PENDING"
                   /\ debug' = [debug EXCEPT ![c].state = "ARMED"]
    <2>1. /\ debug' \in [CPUs -> ControllerType] /\ debug'[c].gen = debug[c].gen
          /\ debug'[c].state # "EMPTY" => debug[c].state # "EMPTY"
          /\ \A d \in CPUs \ {c} : debug'[d] = debug[d]
      BY <1>3, SMTT(60) DEF IInv, Typed, ControllerType
    <2>2. /\ cpu' \in [CPUs -> [pc : CpuPcs, gen : Nat]] /\ cpu'[c].pc = "run"
          /\ active_handlers' = active_handlers - 1
          /\ \A d \in CPUs \ {c} : cpu'[d] = cpu[d]
      BY <1>3, CpuSteps, Zenon DEF IInv, CpuPcs
    <2>3. HandlersCounted' /\ active_handlers' \in Nat
      BY <1>1, <2>2, LeaveCounted, Zenon DEF IInv, HandlerPcs, target
    <2>4. OneShotOnce' /\ hits' \in Nat
      BY <1>1, <1>3, <2>2, HitsKept, Zenon DEF IInv, Typed, session
    <2> QED
      BY <1>1, <2>1, <2>2, <2>3, <2>4, CpuKeeps
         DEF IInv, Typed, NoInheritedComparator, session, target
  <1> QED
    BY <1>2, <1>3, Zenon DEF Handle

(* After the hit a one-shot breakpoint is no longer enabled. *)
LEMMA PushHitKeeps ==
  ASSUME IInv, NEW c \in CPUs, PushHit(c) PROVE IInv'
  <1>1. /\ UNCHANGED <<control_busy, binding, maps, configured, debug, target, ctl, async,
                       worker, hits>>
        /\ cpu[c].pc = "hit" /\ Return(c)
    BY Zenon DEF PushHit
  <1>2. enabled' \in BOOLEAN /\ (enabled' => enabled /\ configured # "ONCE")
    BY Zenon DEF PushHit
  <1>3. /\ cpu' \in [CPUs -> [pc : CpuPcs, gen : Nat]] /\ cpu'[c].pc = "run"
        /\ active_handlers' = active_handlers - 1
        /\ \A d \in CPUs \ {c} : cpu'[d] = cpu[d]
    BY <1>1, CpuSteps, Zenon DEF IInv, CpuPcs
  <1>4. HandlersCounted' /\ active_handlers' \in Nat
    BY <1>1, <1>3, LeaveCounted, Zenon DEF IInv, HandlerPcs, target
  <1>5. Typed'
    BY <1>1, <1>2, <1>3, <1>4 DEF IInv, Typed, target
  <1>6. CpuByPc' /\ ComparatorOnlyForTarget' /\ NoInheritedComparator'
    BY <1>1, <1>3 DEF IInv, CpuByPc, ComparatorOnlyForTarget, NoInheritedComparator, target
  <1>7. \A d \in CPUs : Disarmed(d) => Disarmed(d)'
    BY <1>1, <1>3, Zenon DEF Disarmed
  <1>8. WorkerByPhase' /\ QuietSession'
    BY <1>1, <1>2, <1>7, Zenon DEF IInv, WorkerByPhase, QuietSession, AllDisarmed
  <1>9. OneShotOnce'
    BY <1>1, <1>2, Zenon DEF OneShotOnce
  <1> QED
    BY <1>4, <1>5, <1>6, <1>8, <1>9, Zenon DEF IInv

(* The exit callback: the binding of the target is marked, not replaced.      *)
LEMMA ExitKeeps ==
  ASSUME IInv, DoExit \/ MarkExit PROVE IInv'
  <1>1. /\ UNCHANGED <<control_busy, maps, configured, enabled, debug, running, cpu, ctl, async,
                       worker, hits>>
        /\ exiting' \in {"mark", "dead"}
    BY Zenon DEF DoExit, MarkExit, session
  <1>2. /\ binding' \in [state : {"EMPTY", "PENDING", "BOUND", "EXITED"}, generation : Nat]
        /\ binding'.generation = binding.generation
        /\ binding.state \in {"BOUND", "EXITED"} => binding'.state \in {"BOUND", "EXITED"}
    BY Zenon DEF DoExit, MarkExit, session, IInv, Typed
  <1>3. HandlersCounted' /\ active_handlers' \in Nat
    <2>1. InHandler' = InHandler
      BY <1>1, Zenon DEF InHandler
    <2>2. CASE DoExit
      BY <2>1, <2>2, CountFinite DEF DoExit, Entered, IInv, HandlersCounted, InHandler
    <2>3. CASE MarkExit
      BY <2>1, <2>3, CountFinite DEF MarkExit, Left, IInv, HandlersCounted, InHandler
    <2> QED
      BY <2>2, <2>3, Zenon
  <1>4. Typed'
    BY <1>1, <1>2, <1>3 DEF IInv, Typed
  <1>5. CpuByPc' /\ ComparatorOnlyForTarget' /\ NoInheritedComparator'
    BY <1>1, <1>2, Zenon DEF IInv, CpuByPc, ComparatorOnlyForTarget, NoInheritedComparator
  <1>6. WorkerByPhase' /\ QuietSession' /\ OneShotOnce'
    BY <1>1, Zenon DEF IInv, WorkerByPhase, QuietSession, AllDisarmed, Disarmed, OneShotOnce
  <1> QED
    BY <1>3, <1>4, <1>5, <1>6, Zenon DEF IInv

-----------------------------------------------------------------------------
(* A step of a command or of the worker leaves the CPUs alone, and changes    *)
(* the binding only while nothing is armed.                                   *)
LEMMA OffCpuKeeps ==
  ASSUME IInv, UNCHANGED <<active_handlers, debug, running, exiting, cpu>>,
         UNCHANGED binding \/ AllDisarmed,
         Typed', WorkerByPhase', QuietSession', OneShotOnce'
  PROVE  IInv'
  <1>1. HandlersCounted' /\ ComparatorOnlyForTarget'
    BY StayCounted, Zenon DEF IInv, ComparatorOnlyForTarget
  <1>2. CpuByPc' /\ NoInheritedComparator'
    BY Zenon DEF IInv, CpuByPc, NoInheritedComparator, AllDisarmed, Disarmed
  <1> QED
    BY <1>1, <1>2, Zenon DEF IInv

(* Commands: a new binding is set only while none is configured, a breakpoint *)
(* is replaced only while none is enabled.                                    *)
LEMMA ControlKeeps ==
  ASSUME IInv, Control PROVE IInv'
  <1> USE DEF gates, session, target
  <1>1. CASE Bind \/ Poll \/ PollReturn
    <2>1. /\ UNCHANGED <<active_handlers, session, debug, target, cpu, async, worker, hits>>
          /\ control_busy' \in {0, 1} /\ ctl' \in {"idle", "bind", "poll"}
          /\ ctl' = "bind" => control_busy' = 1 /\ configured = "none"
      BY <1>1, Zenon DEF Bind, Poll, PollReturn
    <2>2. Typed' /\ OneShotOnce'
      BY <2>1 DEF IInv, Typed, OneShotOnce
    <2>3. WorkerByPhase' /\ QuietSession'
      BY <2>1, Zenon DEF IInv, WorkerByPhase, QuietSession, AllDisarmed, Disarmed
    <2> QED
      BY <2>1, <2>2, <2>3, OffCpuKeeps, Zenon
  <1>2. CASE BindSet
    <2>1. /\ UNCHANGED <<active_handlers, maps, configured, enabled, debug, target, cpu, async,
                         worker, hits>>
          /\ control_busy' = 0 /\ ctl' = "idle" /\ ctl = "bind"
      BY <1>2, Zenon DEF BindSet
    <2>2. binding' \in [state : {"EMPTY", "PENDING", "BOUND", "EXITED"}, generation : Nat]
      BY <1>2 DEF BindSet, IInv, Typed
    <2>3. Typed' /\ OneShotOnce'
      BY <2>1, <2>2 DEF IInv, Typed, OneShotOnce
    <2>4. AllDisarmed /\ WorkerByPhase' /\ QuietSession'
      BY <2>1, Zenon DEF IInv, WorkerByPhase, QuietSession, AllDisarmed, Disarmed
    <2> QED
      BY <2>1, <2>3, <2>4, OffCpuKeeps, Zenon
  <1>3. ASSUME NEW mode \in Modes, Break(mode) PROVE IInv'
    <2>1. /\ UNCHANGED <<gates, binding, maps, enabled, debug, target, cpu, ctl, async, worker,
                         hits>>
          /\ configured' = mode /\ control_busy = 0 /\ ~enabled
      BY <1>3, Zenon DEF Break, Command
    <2>2. Typed' /\ OneShotOnce'
      BY <2>1 DEF IInv, Typed, OneShotOnce
    <2>3. configured' # "none"
      BY <2>1, Zenon DEF Modes
    <2>4. WorkerByPhase' /\ QuietSession'
      BY <2>1, <2>3 DEF IInv, WorkerByPhase, QuietSession, AllDisarmed, Disarmed
    <2> QED
      BY <2>1, <2>2, <2>4, OffCpuKeeps, Zenon
  <1>4. ASSUME NEW op \in Operations, Submit(op) PROVE IInv'
    <2>1. /\ UNCHANGED <<gates, session, debug, target, cpu, ctl, worker, hits>>
          /\ async' = [state |-> "PENDING", op |-> op, status |-> "none"]
          /\ async.state # "RUNNING"
      BY <1>4, Zenon DEF Submit, Busy
    <2>2. Typed' /\ OneShotOnce'
      BY <2>1 DEF IInv, Typed, OneShotOnce
    <2>3. WorkerByPhase' /\ QuietSession'
      BY <2>1, Zenon DEF IInv, WorkerByPhase, QuietSession, AllDisarmed, Disarmed, ClearPcs
    <2> QED
      BY <2>1, <2>2, <2>3, OffCpuKeeps, Zenon
  <1> QED
    BY <1>1, <1>2, <1>3, <1>4, Zenon DEF Control

-----------------------------------------------------------------------------
(* The worker: a request is finished, ... *)
LEMMA FinishType ==
  ASSUME Typed, NEW status \in {"ok", "error"}, Finish(status)
  PROVE  /\ async' \in [state : {"FREE", "PENDING", "RUNNING", "DONE"},
                        op : Operations \cup {"NONE"}, status : {"none", "ok", "error"}]
         /\ async'.state = "DONE" /\ async'.op = async.op /\ async'.status = status
         /\ worker' \in [pc : WorkerPcs, todo : SUBSET CPUs] /\ worker'.pc = "idle"
  BY Zenon DEF Finish, Typed, IdleWorker, WorkerPcs

(* ... which keeps the invariant when a successful DISABLE or CLEAR left all  *)
(* disarmed; ...                                                              *)
LEMMA FinishKeeps ==
  ASSUME IInv, NEW status \in {"ok", "error"}, Finish(status),
         UNCHANGED <<gates, session, debug, target, cpu, ctl, hits>>,
         status = "ok" /\ async.op \in {"DISABLE", "CLEAR"} => AllDisarmed
  PROVE  IInv'
  <1> USE DEF gates, session, target
  <1>1. Typed' /\ OneShotOnce'
    BY FinishType DEF IInv, Typed, OneShotOnce
  <1>2. WorkerByPhase' /\ QuietSession'
    BY FinishType, Zenon DEF IInv, WorkerByPhase, QuietSession, AllDisarmed, Disarmed, ClearPcs
  <1> QED
    BY <1>1, <1>2, OffCpuKeeps, Zenon

(* ... or goes on to its next phase.                                          *)
LEMMA StepType ==
  ASSUME Typed, NEW pc \in WorkerPcs, NEW todo \in SUBSET CPUs, Step(pc, todo)
  PROVE  /\ worker' \in [pc : WorkerPcs, todo : SUBSET CPUs]
         /\ worker'.pc = pc /\ worker'.todo = todo
  BY Zenon DEF Typed, Step

(* The worker takes a request up, ... *)
LEMMA WorkerStartKeeps ==
  ASSUME IInv, WorkerStart PROVE IInv'
  <1> USE DEF gates, session, target
  <1>1. /\ UNCHANGED <<gates, session, debug, target, cpu, ctl, hits>>
        /\ async' = [async EXCEPT !.state = "RUNNING"]
    BY Zenon DEF WorkerStart
  <1>2. PICK pc \in {"enable", "other", "disable"} :
          /\ Step(pc, {})
          /\ pc = "enable" => async.op = "ENABLE"
          /\ pc = "other" => async.op = "OTHER"
    BY Zenon DEF WorkerStart
  <1>3. worker' \in [pc : WorkerPcs, todo : SUBSET CPUs] /\ worker'.pc = pc
    BY <1>2, StepType, Zenon DEF IInv, WorkerPcs
  <1>6. /\ async' \in [state : {"FREE", "PENDING", "RUNNING", "DONE"},
                        op : Operations \cup {"NONE"}, status : {"none", "ok", "error"}]
        /\ async'.state = "RUNNING" /\ async'.op = async.op
    BY <1>1, Zenon DEF IInv, Typed
  <1>4. Typed' /\ OneShotOnce'
    BY <1>1, <1>3, <1>6 DEF IInv, Typed, OneShotOnce
  <1>5. WorkerByPhase' /\ QuietSession'
    <2>1. worker'.pc \in {"enable", "other", "disable"}
      BY <1>3, Zenon
    <2>2. WorkerByPhase'
      BY <1>2, <1>3, <1>6, <2>1, Zenon DEF WorkerByPhase, ClearPcs
    <2>3. QuietSession'
      BY <1>1, <1>6, Zenon DEF IInv, QuietSession, AllDisarmed, Disarmed
    <2> QED
      BY <2>2, <2>3, Zenon
  <1> QED
    BY <1>1, <1>4, <1>5, OffCpuKeeps, Zenon

(* ENABLE: the flag, a CPU after the other, and the undoing of a failure.     *)
LEMMA WorkerEnableKeeps ==
  ASSUME IInv, WorkerEnable PROVE IInv'
  <1> USE DEF gates, session, target
  <1>1. /\ UNCHANGED <<gates, binding, maps, configured, debug, target, cpu, ctl>>
        /\ worker.pc = "enable" /\ async.state = "RUNNING" /\ async.op = "ENABLE"
    BY Zenon DEF WorkerEnable, IInv, WorkerByPhase
  <1>2. CASE /\ configured # "none" /\ enabled' = TRUE /\ hits' = 0
             /\ Step("arm", CPUs) /\ UNCHANGED async
    <2>1. worker' \in [pc : WorkerPcs, todo : SUBSET CPUs] /\ worker'.pc = "arm"
      BY <1>2, StepType, Zenon DEF IInv, WorkerPcs
    <2>2. enabled' \in BOOLEAN
      BY <1>2, Zenon
    <2>3. Typed' /\ OneShotOnce'
      BY <1>1, <1>2, <2>1, <2>2, Zenon DEF IInv, Typed, OneShotOnce
    <2>4. WorkerByPhase' /\ QuietSession'
      BY <1>1, <1>2, <2>1, Zenon DEF IInv, WorkerByPhase, QuietSession, ClearPcs
    <2> QED
      BY <1>1, <2>3, <2>4, OffCpuKeeps, Zenon
  <1>3. CASE Finish("error") /\ UNCHANGED <<enabled, hits>>
    BY <1>1, <1>3, FinishKeeps, Zenon
  <1> QED
    BY <1>2, <1>3, Zenon DEF WorkerEnable

(* ... arms one cpu after the other, ... *)
LEMMA EnableCpuKeeps ==
  ASSUME IInv, NEW c \in CPUs, EnableCpu(c) PROVE IInv'
  <1> USE DEF gates, session, target
  <1>1. /\ UNCHANGED <<gates, session, debug, target, cpu, ctl, async, hits>>
        /\ worker.pc = "arm" /\ Step("arm", worker.todo \ {c})
    BY Zenon DEF EnableCpu
  <1>2. worker' \in [pc : WorkerPcs, todo : SUBSET CPUs] /\ worker'.pc = "arm"
    BY <1>1, StepType, Zenon DEF IInv, Typed, WorkerPcs
  <1>3. Typed' /\ OneShotOnce'
    BY <1>1, <1>2 DEF IInv, Typed, OneShotOnce
  <1>4. WorkerByPhase' /\ QuietSession'
    BY <1>1, <1>2, Zenon DEF IInv, WorkerByPhase, QuietSession, AllDisarmed, Disarmed, ClearPcs
  <1> QED
    BY <1>1, <1>3, <1>4, OffCpuKeeps, Zenon

(* Arming is switched off and every CPU is to be restored: the start of the   *)
(* restoring, by DISABLE and CLEAR or to undo an ENABLE.                      *)
LEMMA SwitchOffKeeps ==
  ASSUME IInv, NEW pc \in {"restore", "undo"}, Step(pc, CPUs), enabled' = FALSE,
         UNCHANGED <<gates, binding, maps, configured, debug, target, cpu, ctl, async, hits>>,
         async.state = "RUNNING", pc = "undo" => async.op = "ENABLE"
  PROVE  IInv'
  <1> USE DEF gates, session, target
  <1>1. worker' \in [pc : WorkerPcs, todo : SUBSET CPUs] /\ worker'.pc = pc /\ worker'.todo = CPUs
    BY StepType, Zenon DEF IInv, WorkerPcs
  <1>2. enabled' \in BOOLEAN /\ ~enabled'
    BY Zenon
  <1>3. Typed' /\ OneShotOnce'
    BY <1>1, <1>2 DEF IInv, Typed, OneShotOnce
  <1>4. WorkerByPhase' /\ QuietSession'
    BY <1>1, <1>2, Zenon DEF IInv, WorkerByPhase, QuietSession, AllDisarmed, Disarmed, ClearPcs
  <1> QED
    BY <1>3, <1>4, OffCpuKeeps, Zenon

(* ... reports the outcome or starts to undo it, ... *)
LEMMA EnableDoneKeeps ==
  ASSUME IInv, EnableDone PROVE IInv'
  <1> USE DEF gates, session, target
  <1>1. /\ UNCHANGED <<gates, binding, maps, configured, debug, target, cpu, ctl, hits>>
        /\ async.state = "RUNNING" /\ async.op = "ENABLE"
    BY Zenon DEF EnableDone, IInv, WorkerByPhase
  <1>2. CASE Finish("ok") /\ UNCHANGED enabled
    BY <1>1, <1>2, FinishKeeps, Zenon
  <1>3. CASE enabled' = FALSE /\ Step("undo", CPUs) /\ UNCHANGED async
    BY <1>1, <1>3, SwitchOffKeeps, Zenon
  <1> QED
    BY <1>2, <1>3, Zenon DEF EnableDone

(* ... or switches the session off. *)
LEMMA WorkerDisableKeeps ==
  ASSUME IInv, WorkerDisable PROVE IInv'
  <1>1. async.state = "RUNNING"
    BY Zenon DEF WorkerDisable, IInv, WorkerByPhase
  <1> QED
    BY <1>1, SwitchOffKeeps, Zenon DEF WorkerDisable

(* A kworker on CPU c: no callback is in progress there, so the CPU is        *)
(* disarmed and nothing on it has still to be armed.                          *)
LEMMA RestoreCpuKeeps ==
  ASSUME IInv, NEW c \in CPUs, RestoreCpu(c) PROVE IInv'
  <1> USE DEF gates, session, target
  <1>1. /\ UNCHANGED <<gates, session, target, cpu, ctl, async, hits>>
        /\ worker.pc \in {"restore", "undo"} /\ Step(worker.pc, worker.todo \ {c})
        /\ cpu[c].pc = "run"
    BY Zenon DEF RestoreCpu, OnCpu
  <1>2. /\ debug' \in [CPUs -> ControllerType] /\ debug'[c].state = "EMPTY"
        /\ \A d \in CPUs \ {c} : debug'[d] = debug[d]
    BY Zenon DEF RestoreCpu, IInv, Typed, EmptyCpu, ControllerType
  <1>3. /\ worker' \in [pc : WorkerPcs, todo : SUBSET CPUs]
        /\ worker'.pc = worker.pc /\ worker'.todo = worker.todo \ {c}
    BY <1>1, StepType, ZenonT(60) DEF IInv, Typed
  <1>4. Typed' /\ OneShotOnce' /\ HandlersCounted'
    BY <1>1, <1>2, <1>3, StayCounted, SMTT(60) DEF IInv, Typed, OneShotOnce
  <1>5. CpuByPc' /\ ComparatorOnlyForTarget' /\ NoInheritedComparator'
    BY <1>1, <1>2 DEF IInv, CpuByPc, ComparatorOnlyForTarget, NoInheritedComparator
  <1>6. Disarmed(c)' /\ \A d \in CPUs : Disarmed(d) => Disarmed(d)'
    BY <1>1, <1>2, Zenon DEF Disarmed
  <1>7. \A d \in CPUs \ worker'.todo : Disarmed(d)'
    BY <1>1, <1>3, <1>6, Zenon DEF IInv, WorkerByPhase
  <1>8. WorkerByPhase'
    BY <1>1, <1>3, <1>6, <1>7, Zenon DEF IInv, WorkerByPhase, AllDisarmed, ClearPcs
  <1>9. QuietSession'
    BY <1>1, <1>6, Zenon DEF IInv, QuietSession, AllDisarmed
  <1> QED
    BY <1>4, <1>5, <1>8, <1>9, Zenon DEF IInv

(* Restoring is over when the worker has been on every CPU. *)
LEMMA RestoreDoneKeeps ==
  ASSUME IInv, RestoreDone PROVE IInv'
  <1> USE DEF gates, session, target
  <1>1. /\ UNCHANGED <<gates, session, debug, target, cpu, ctl, hits>>
        /\ worker.pc \in {"restore", "undo"} /\ async.state = "RUNNING"
    BY Zenon DEF RestoreDone, IInv, WorkerByPhase
  <1>2. CASE Finish("error")
    BY <1>1, <1>2, FinishKeeps, Zenon
  <1>3. CASE worker.todo = {} /\ Finish("ok")
    <2>1. AllDisarmed
      BY <1>1, <1>3, Zenon DEF IInv, WorkerByPhase, AllDisarmed
    <2> QED
      BY <1>1, <1>3, <2>1, FinishKeeps, Zenon
  <1>4. CASE worker.todo = {} /\ Step("wait", {}) /\ UNCHANGED async
    <2>1. AllDisarmed
      BY <1>1, <1>4, Zenon DEF IInv, WorkerByPhase, AllDisarmed
    <2>2. worker' \in [pc : WorkerPcs, todo : SUBSET CPUs] /\ worker'.pc = "wait"
      BY <1>4, StepType, Zenon DEF IInv, WorkerPcs, ClearPcs
    <2>3. Typed' /\ OneShotOnce'
      BY <1>1, <1>4, <2>2 DEF IInv, Typed, OneShotOnce
    <2>4. WorkerByPhase' /\ QuietSession'
      BY <1>1, <1>4, <2>1, <2>2, ZenonT(60) DEF IInv, WorkerByPhase, QuietSession, AllDisarmed, Disarmed
    <2> QED
      BY <1>1, <2>3, <2>4, OffCpuKeeps, Zenon
  <1> QED
    BY <1>2, <1>3, <1>4, Zenon DEF RestoreDone

(* CLEAR goes on with all disarmed, and nothing arms while it does. *)
LEMMA ClearKeeps ==
  ASSUME IInv, ClearWait \/ ClearMaps \/ ClearBinding \/ ClearBreakpoint \/ ClearRing
  PROVE  IInv'
  <1> USE DEF gates, session, target
  <1>1. /\ UNCHANGED <<gates, enabled, debug, target, cpu, ctl, hits>>
        /\ worker.pc \in ClearPcs /\ AllDisarmed /\ async.state = "RUNNING"
    BY Zenon DEF ClearWait, ClearMaps, ClearBinding, ClearBreakpoint, ClearRing, ClearPcs, IInv,
           WorkerByPhase
  <1>2. CASE UNCHANGED session /\ \E status \in {"ok", "error"} : Finish(status)
    BY <1>1, <1>2, FinishKeeps, Zenon
  <1>3. CASE UNCHANGED async /\ \E pc \in ClearPcs : Step(pc, {})
    <2>1. worker' \in [pc : WorkerPcs, todo : SUBSET CPUs] /\ worker'.pc \in ClearPcs
      BY <1>3, StepType, Zenon DEF IInv, WorkerPcs
    <2>2. /\ binding' \in [state : {"EMPTY", "PENDING", "BOUND", "EXITED"}, generation : Nat]
          /\ maps' \in Nat /\ configured' \in {configured, "none"}
      BY DEF ClearWait, ClearMaps, ClearBinding, ClearBreakpoint, ClearRing, IInv, Typed
    <2>3. Typed'
      BY <1>1, <1>3, <2>1, <2>2 DEF IInv, Typed
    <2>4. OneShotOnce' /\ AllDisarmed'
      BY <1>1, Zenon DEF AllDisarmed, Disarmed, OneShotOnce
    <2>5. WorkerByPhase' /\ QuietSession'
      BY <1>1, <1>3, <2>1, <2>2, <2>4, ZenonT(60) DEF IInv, WorkerByPhase, QuietSession, ClearPcs
    <2> QED
      BY <1>1, <2>3, <2>4, <2>5, OffCpuKeeps, Zenon
  <1> QED
    BY <1>2, <1>3, Zenon DEF ClearWait, ClearMaps, ClearBinding, ClearBreakpoint, ClearRing, ClearPcs

(* Every step of the worker keeps the invariant, ... *)
LEMMA WorkerKeeps ==
  ASSUME IInv, WorkerStep PROVE IInv'
  <1>1. CASE WorkerOther
    BY <1>1, FinishKeeps, Zenon DEF WorkerOther, IInv, WorkerByPhase
  <1> QED
    BY <1>1, WorkerStartKeeps, WorkerEnableKeeps, EnableDoneKeeps, WorkerDisableKeeps,
       RestoreDoneKeeps, ClearKeeps, Zenon DEF WorkerStep

-----------------------------------------------------------------------------
(* ... a step that changes nothing does, ... *)
LEMMA StutterKeeps == ASSUME IInv, UNCHANGED vars PROVE IInv'
  <1> USE DEF vars, gates, session, target
  <1>1. Typed' /\ HandlersCounted' /\ CpuByPc'
    BY StayCounted DEF IInv, Typed, CpuByPc
  <1>2. WorkerByPhase' /\ QuietSession'
    BY Zenon DEF IInv, WorkerByPhase, QuietSession, AllDisarmed, Disarmed
  <1>3. ComparatorOnlyForTarget' /\ OneShotOnce' /\ NoInheritedComparator'
    BY Zenon DEF IInv, ComparatorOnlyForTarget, OneShotOnce, NoInheritedComparator
  <1> QED
    BY <1>1, <1>2, <1>3, ZenonT(60) DEF IInv

(* ... and so does every step of every actor. *)
LEMMA NextInvariant == IInv /\ [Next]_vars => IInv'
  <1> SUFFICES ASSUME IInv, [Next]_vars PROVE IInv'
    OBVIOUS
  <1>1. CASE Scheduler
    BY <1>1, SwitchKeeps, EnterKeeps, ExitKeeps, Zenon DEF Scheduler
  <1>2. CASE Callback
    BY <1>2, EnterKeeps, FinishBeforeKeeps, ObserveKeeps, CaptureKeeps, ArmKeeps, ProgramKeeps,
       HandleKeeps, PushHitKeeps, ExitKeeps, Zenon DEF Callback
  <1>3. CASE Control
    BY <1>3, ControlKeeps, Zenon
  <1>4. CASE WorkerStep \/ \E c \in CPUs : EachCpu(c)
    BY <1>4, WorkerKeeps, EnableCpuKeeps, RestoreCpuKeeps, Zenon DEF EachCpu
  <1>5. CASE UNCHANGED vars
    BY <1>5, StutterKeeps, Zenon
  <1> QED
    BY <1>1, <1>2, <1>3, <1>4, <1>5, Zenon DEF Next

(* The invariant holds in every state: CPUs, commands and worker as above.    *)
THEOREM Invariance == Spec => []IInv
  BY InitInvariant, NextInvariant, PTL DEF Spec

(* No task but the target runs with a comparator armed on its CPU: finish_    *)
(* before has removed it, and no kworker or finish_after armed it again.      *)
THEOREM TargetOnly == Spec => []ComparatorOnlyForTarget
  <1>1. IInv => ComparatorOnlyForTarget
    BY Zenon DEF IInv
  <1> QED
    BY <1>1, Invariance, PTL

(* What a controller holds was armed for the binding of now, on any number of *)
(* CPUs and through any number of bindings: BIND is refused while configured, *)
(* and CLEAR gives the binding up only after every CPU is disarmed.           *)
THEOREM NotInherited == Spec => []NoInheritedComparator
  <1>1. IInv => NoInheritedComparator
    BY Zenon DEF IInv
  <1> QED
    BY <1>1, Invariance, PTL

(* When a DISABLE or a CLEAR has reported success, every CPU is disarmed and  *)
(* no finish_after is left that decided to arm before the flag was cleared.   *)
THEOREM Disabled == Spec => []DisabledMeansDisarmed
  <1>1. IInv => DisabledMeansDisarmed
    BY Zenon DEF IInv, QuietSession, AllDisarmed, Disarmed, DisabledMeansDisarmed
  <1> QED
    BY <1>1, Invariance, PTL

(* A one-shot breakpoint that is still enabled has hit at most once, and then *)
(* the hit is in its handler, which is about to disable it.                   *)
THEOREM OneShot == Spec => []OneShotOnce
  <1>1. IInv => OneShotOnce
    BY Zenon DEF IInv
  <1> QED
    BY <1>1, Invariance, PTL

(* active_handlers is the number of callbacks in progress: it never           *)
(* underflows, and at 0, which CLEAR and the unload wait for, no CPU and no   *)
(* exiting task is between spz_handler_enter and spz_handler_leave.           *)
THEOREM HandlersDrained ==
  Spec => [](active_handlers = 0 =>
               exiting # "mark" /\ \A c \in CPUs : cpu[c].pc \notin HandlerPcs)
  <1>1. IInv /\ active_handlers = 0 => exiting # "mark" /\ InHandler = {}
    BY CountFinite, FS_EmptySet DEF IInv, HandlersCounted, InHandler
  <1>2. IInv => (active_handlers = 0 =>
                   exiting # "mark" /\ \A c \in CPUs : cpu[c].pc \notin HandlerPcs)
    BY <1>1, Zenon DEF InHandler
  <1> QED
    BY <1>2, Invariance, PTL
=============================================================================
