---------------------------- MODULE DebugProofs ----------------------------
(* Invariance of the debug-register controller for any number of comparators, *)
(* any values and any mix of failing accesses, provided Linux does not run in *)
(* the middle of an arming (Interrupts = FALSE).                              *)
EXTENDS DebugController, TLAPS

(* Disabling a control word keeps its type and clears the enable bit. *)
LEMMA DisabledType ==
    ASSUME NEW c \in Controls
    PROVE  Disabled(c) \in Controls /\ ~Disabled(c).enable
BY Zenon DEF Disabled, Controls

(* The freshly initialised controller satisfies the inductive invariant. *)
LEMMA InitIInv == Init => IInv
<1> SUFFICES ASSUME Init PROVE IInv
    OBVIOUS
<1> USE DEF Init, EmptyState
<1>1. TypeOK
    BY Zenon DEF TypeOK
<1>2. LinuxSlotsUntouched /\ MonitorKeptForLinux /\ StepStateReturned
    BY Zenon DEF LinuxSlotsUntouched, MonitorKeptForLinux, StepStateReturned
<1>3. SlotAgreesWithState /\ Remembered /\ ArmingSlot /\ AddedBits
    BY Zenon DEF SlotAgreesWithState, Remembered, ArmingSlot, AddedBits
<1>4. OtherSlots
    BY Zenon DEF OtherSlots, Images
<1> QED
    BY <1>1, <1>2, <1>3, <1>4, Zenon DEF IInv

(* Arming, up to the snapshot: only a free slot is chosen. *)
LEMMA ArmSnapshotIInv ==
    ASSUME IInv, NEW req \in Requests, NEW tgt \in Targets, ArmSnapshot(req, tgt)
    PROVE  IInv'
<1> USE DEF IInv, ArmSnapshot, hardware, history
<1>1. PICK i \in 0 .. SlotCount(req.kind) - 1 :
        /\ FindSlot(req.kind, i)
        /\ cpu' = [state |-> "SNAPSHOTTED", slot |-> <<req.kind, i>>,
                   saved |-> regs[<<req.kind, i>>], prog |-> Programmed(req),
                   mode |-> req.mode, target |-> tgt, added_mde |-> ~mdscr.mde,
                   added_mdscr_ss |-> FALSE, added_pstate_ss |-> FALSE,
                   forward_single_step |-> FALSE]
    BY ZenonT(60)
<1> DEFINE s0 == <<req.kind, i>>
<1>2. s0 \in Slots /\ ~owner[s0] /\ ~regs[s0].control.enable
    BY <1>1, Zenon DEF FindSlot
<1>3. /\ Programmed(req) \in Images /\ Programmed(req).control.enable
      /\ req.mode \in Modes
    BY DebugAssumption, Zenon DEF Programmed, Images, Controls
<1> HIDE DEF s0
<1>4. cpu'.slot = s0 /\ cpu'.saved = regs[s0] /\ cpu'.prog = Programmed(req)
      /\ cpu'.state = "SNAPSHOTTED"
    BY <1>1, Zenon DEF s0
<1>5. TypeOK'
  <2>1. cpu' \in ActiveStates
    BY <1>1, <1>2, <1>3, Zenon DEF ActiveStates, States, TypeOK, s0
  <2> QED
    BY <2>1, <1>4, Zenon DEF TypeOK
<1>6. LinuxSlotsUntouched' /\ MonitorKeptForLinux'
    BY Zenon DEF LinuxSlotsUntouched, MonitorKeptForLinux
<1>7. StepStateReturned' /\ SlotAgreesWithState'
    BY <1>4, Zenon DEF StepStateReturned, SlotAgreesWithState
<1>8. OtherSlots' /\ Remembered'
  <2>1. Own = None
    BY DEF TypeOK, Own, EmptyState, ActiveStates
  <2>2. \A s \in Slots : s # None
    BY DebugAssumption, Zenon
  <2> QED
    BY <1>2, <1>3, <1>4, <2>1, <2>2, Zenon DEF OtherSlots, Remembered, Own
<1>9. ArmingSlot' /\ AddedBits'
    BY <1>1, <1>2 DEF ArmingSlot, AddedBits, TypeOK, EmptyState, ActiveStates, Own, s0
<1> QED
    BY <1>5, <1>6, <1>7, <1>8, <1>9, Zenon

(* Every way back to EMPTY: the saved image is written to a slot that is      *)
(* still unowned, and MDSCR_EL1 is left to Linux.                             *)
LEMMA BackToEmpty ==
    ASSUME IInv, cpu.state \notin {"EMPTY", "QUARANTINED"}, ~owner[Own],
           ResetState, step' = "idle", regs' = [regs EXCEPT ![Own] = cpu.saved],
           UNCHANGED <<owner, pstate_ss, linux, stepper, contested>>, kept' \in BOOLEAN,
           mdscr' \in [ss : BOOLEAN, mde : BOOLEAN], mdscr'.ss = stepper,
           (\E s \in Slots : owner[s]) => mdscr'.mde,
           ~kept' /\ mdscr'.mde => \E s \in Slots : owner[s]
    PROVE  IInv'
<1> USE DEF IInv, ResetState
<1>1. cpu \in ActiveStates /\ Own \in Slots /\ cpu.saved \in Images
    BY DEF TypeOK, EmptyState, ActiveStates, Own
<1>2. regs'[Own] = cpu.saved /\ \A s \in Slots : s # Own => regs'[s] = regs[s]
    BY <1>1, Zenon DEF TypeOK
<1>3. TypeOK'
    BY <1>1, Zenon DEF TypeOK, EmptyState
<1>4. LinuxSlotsUntouched' /\ MonitorKeptForLinux' /\ StepStateReturned'
    BY <1>2, Zenon DEF LinuxSlotsUntouched, MonitorKeptForLinux, StepStateReturned, EmptyState
<1>5. SlotAgreesWithState' /\ Remembered' /\ ArmingSlot' /\ AddedBits'
    BY Zenon DEF SlotAgreesWithState, Remembered, ArmingSlot, AddedBits, EmptyState
<1>6. OtherSlots'
    BY <1>1, <1>2 DEF OtherSlots, Remembered
<1> QED
    BY <1>3, <1>4, <1>5, <1>6, Zenon

(* Every way into QUARANTINED: a slot Linux owns is not written, the slot's   *)
(* identity is kept, and MDE is not changed.                                  *)
LEMMA IntoQuarantine ==
    ASSUME IInv, cpu.state # "EMPTY",
           cpu' \in ActiveStates, cpu'.state = "QUARANTINED", cpu'.slot = cpu.slot,
           cpu'.saved = cpu.saved, cpu'.prog = cpu.prog,
           cpu'.added_mde = cpu.added_mde, step' = "idle",
           NEW im \in Images, owner[Own] => im = regs[Own],
           regs' = [regs EXCEPT ![Own] = im],
           UNCHANGED <<owner, linux, stepper, contested, kept>>, pstate_ss' \in BOOLEAN,
           mdscr' \in [ss : BOOLEAN, mde : BOOLEAN], mdscr'.mde = mdscr.mde
    PROVE  IInv'
<1> USE DEF IInv
<1>1. cpu \in ActiveStates /\ Own \in Slots /\ Own' = Own
    BY DEF TypeOK, EmptyState, ActiveStates, Own
<1>2. regs'[Own] = im /\ \A s \in Slots : s # Own => regs'[s] = regs[s]
    BY <1>1, Zenon DEF TypeOK
<1>3. TypeOK'
    BY <1>1, Zenon DEF TypeOK
<1>4. LinuxSlotsUntouched' /\ MonitorKeptForLinux' /\ StepStateReturned'
    BY <1>1, <1>2 DEF LinuxSlotsUntouched, MonitorKeptForLinux, StepStateReturned
<1>5. SlotAgreesWithState' /\ Remembered' /\ ArmingSlot'
    BY Zenon DEF SlotAgreesWithState, Remembered, ArmingSlot
<1>6. OtherSlots'
    BY <1>1, <1>2 DEF OtherSlots
<1>7. AddedBits'
    BY Zenon DEF AddedBits
<1> QED
    BY <1>3, <1>4, <1>5, <1>6, <1>7, Zenon

(* The write of the value register leaves a slot that is still disabled. *)
LEMMA ArmWriteValueIInv ==
    ASSUME IInv, ArmWriteValue
    PROVE  IInv'
<1> USE DEF IInv, ArmWriteValue, history
<1>0. cpu \in ActiveStates /\ cpu.state = "SNAPSHOTTED" /\ Own \in Slots
    BY DEF TypeOK, EmptyState, ActiveStates, Own
<1>1. CASE ResetState /\ step' = "idle" /\ regs' = regs
  <2>1. regs[Own] = cpu.saved
    BY <1>0 DEF ArmingSlot, TypeOK, ActiveStates, Images
  <2>2. regs' = [regs EXCEPT ![Own] = cpu.saved]
    BY <1>0, <1>1, <2>1, Zenon DEF TypeOK
  <2>3. /\ mdscr' \in [ss : BOOLEAN, mde : BOOLEAN] /\ mdscr'.ss = stepper
        /\ kept' \in BOOLEAN
        /\ ~kept' /\ mdscr'.mde => \E s \in Slots : owner[s]
    BY <1>0, Zenon DEF TypeOK, StepStateReturned, AddedBits
  <2> QED
    BY <1>0, <1>1, <2>2, <2>3, BackToEmpty, Zenon DEF ArmingSlot, MonitorKeptForLinux
<1>2. CASE regs' = [regs EXCEPT ![Own].value = cpu.prog.value] /\ step' = "control" /\ cpu' = cpu
  <2> USE <1>2
  <2>1. cpu.prog.value \in Values /\ regs[Own] \in Images
    BY <1>0, Zenon DEF ActiveStates, Images, TypeOK
  <2>2. regs'[Own] = [value |-> cpu.prog.value, control |-> regs[Own].control]
    BY <1>0, <2>1, Zenon DEF TypeOK, Images
  <2>3. \A s \in Slots : s # Own => regs'[s] = regs[s]
    BY <1>0, Zenon DEF TypeOK
  <2>4. TypeOK'
    BY <1>0, <2>1, <2>2, Zenon DEF TypeOK, Images
  <2>5. ~owner[Own]
    BY Zenon DEF ArmingSlot
  <2>6. LinuxSlotsUntouched' /\ MonitorKeptForLinux' /\ StepStateReturned'
    BY <1>0, <2>3, <2>5, Zenon DEF LinuxSlotsUntouched, MonitorKeptForLinux, StepStateReturned
  <2>7. SlotAgreesWithState' /\ Remembered' /\ AddedBits'
    BY <1>0, Zenon DEF SlotAgreesWithState, Remembered, AddedBits, Own
  <2>8. OtherSlots'
    BY <2>3, Zenon DEF OtherSlots, Own
  <2>9. ArmingSlot'
    BY <2>2 DEF ArmingSlot, Own
  <2> QED
    BY <2>4, <2>6, <2>7, <2>8, <2>9, Zenon
<1> QED
    BY <1>1, <1>2, Zenon

(* Rolling an arming back restores the slot or quarantines it. *)
LEMMA RollbackArmIInv ==
    ASSUME IInv, step \in {"control", "mdscr"}, RollbackArm, step' = "idle",
           UNCHANGED <<owner, mdscr, pstate_ss, history>>
    PROVE  IInv'
<1> USE DEF IInv, history
<1>0. cpu \in ActiveStates /\ cpu.state = "SNAPSHOTTED" /\ Own \in Slots /\ ~owner[Own]
    BY DEF TypeOK, EmptyState, ActiveStates, Own, ArmingSlot
<1>1. /\ mdscr \in [ss : BOOLEAN, mde : BOOLEAN] /\ mdscr.ss = stepper
      /\ kept \in BOOLEAN /\ (~kept /\ mdscr.mde => \E s \in Slots : owner[s])
    BY <1>0, Zenon DEF TypeOK, StepStateReturned, AddedBits
<1>2. regs[Own] \in Images /\ cpu.saved \in Images
    BY <1>0, Zenon DEF TypeOK, ActiveStates
<1>3. CASE ResetState /\ regs' = [regs EXCEPT ![Own] = cpu.saved]
    BY <1>0, <1>1, <1>3, BackToEmpty, Zenon DEF MonitorKeptForLinux
<1>4. ASSUME NEW im \in Images, Quarantine, regs' = [regs EXCEPT ![Own] = im]
      PROVE  IInv'
  <2>1. /\ cpu' \in ActiveStates /\ cpu'.state = "QUARANTINED" /\ cpu'.slot = cpu.slot
        /\ cpu'.saved = cpu.saved /\ cpu'.prog = cpu.prog /\ cpu'.added_mde = cpu.added_mde
    BY <1>0, <1>4, Zenon DEF Quarantine, ActiveStates, States
  <2> QED
    BY <1>0, <1>1, <1>4, <2>1, IntoQuarantine, Zenon DEF TypeOK
<1>5. CASE Quarantine /\ regs' = regs
  <2>1. regs' = [regs EXCEPT ![Own] = regs[Own]]
    BY <1>0, <1>5, Zenon DEF TypeOK
  <2> QED
    BY <1>2, <1>4, <1>5, <2>1, Zenon
<1>6. CASE Quarantine /\ regs' = [regs EXCEPT ![Own].control = cpu.saved.control]
  <2>1. /\ [regs[Own] EXCEPT !.control = cpu.saved.control] \in Images
        /\ regs' = [regs EXCEPT ![Own] = [regs[Own] EXCEPT !.control = cpu.saved.control]]
    BY <1>0, <1>2, <1>6, Zenon DEF Images
  <2> QED
    BY <1>4, <1>6, <2>1, Zenon
<1> QED
    BY <1>3, <1>5, <1>6, Zenon DEF RollbackArm

(* The write of the control register, or its rollback. *)
LEMMA ArmWriteControlIInv ==
    ASSUME IInv, ArmWriteControl
    PROVE  IInv'
<1> USE DEF IInv, ArmWriteControl, history
<1>0. cpu \in ActiveStates /\ cpu.state = "SNAPSHOTTED" /\ Own \in Slots /\ ~owner[Own]
    BY DEF TypeOK, EmptyState, ActiveStates, Own, ArmingSlot
<1>1. CASE RollbackArm /\ step' = "idle"
    BY <1>1, RollbackArmIInv, Zenon
<1>2. CASE regs' = [regs EXCEPT ![Own].control = cpu.prog.control] /\ step' = "mdscr" /\ cpu' = cpu
  <2> USE <1>2
  <2>1. cpu.prog \in Images /\ regs[Own] \in Images
    BY <1>0, Zenon DEF ActiveStates, TypeOK
  <2>2. regs'[Own] = cpu.prog
    BY <1>0, <2>1 DEF TypeOK, Images, ArmingSlot
  <2>3. \A s \in Slots : s # Own => regs'[s] = regs[s]
    BY <1>0, Zenon DEF TypeOK
  <2>4. TypeOK'
    BY <1>0, <2>1, <2>2, Zenon DEF TypeOK, Images
  <2>6. LinuxSlotsUntouched' /\ MonitorKeptForLinux' /\ StepStateReturned'
    BY <1>0, <2>3, Zenon DEF LinuxSlotsUntouched, MonitorKeptForLinux, StepStateReturned
  <2>7. SlotAgreesWithState' /\ Remembered' /\ AddedBits'
    BY <1>0, Zenon DEF SlotAgreesWithState, Remembered, AddedBits, Own
  <2>8. OtherSlots'
    BY <2>3, Zenon DEF OtherSlots, Own
  <2>9. ArmingSlot'
    BY <2>2 DEF ArmingSlot, Own
  <2> QED
    BY <2>4, <2>6, <2>7, <2>8, <2>9, Zenon
<1> QED
    BY <1>1, <1>2, Zenon

(* The last write of an arming and the transition to ARMED, or its rollback. *)
LEMMA ArmFinishIInv ==
    ASSUME IInv, ArmFinish
    PROVE  IInv'
<1> USE DEF IInv, ArmFinish, history
<1>0. cpu \in ActiveStates /\ cpu.state = "SNAPSHOTTED" /\ Own \in Slots /\ ~owner[Own]
    BY DEF TypeOK, EmptyState, ActiveStates, Own, ArmingSlot
<1>1. CASE RollbackArm /\ UNCHANGED mdscr
    BY <1>1, RollbackArmIInv, Zenon
<1>2. CASE /\ mdscr' = [mdscr EXCEPT !.mde = @ \/ cpu.added_mde]
           /\ cpu' = [cpu EXCEPT !.state = "ARMED"] /\ UNCHANGED regs
  <2>1. /\ cpu' \in ActiveStates /\ cpu'.state = "ARMED" /\ cpu'.slot = cpu.slot
        /\ cpu'.saved = cpu.saved /\ cpu'.prog = cpu.prog
        /\ cpu'.added_mde = cpu.added_mde /\ cpu'.added_mdscr_ss = cpu.added_mdscr_ss
    BY <1>0, <1>2, Zenon DEF ActiveStates, States
  <2>2. /\ mdscr' \in [ss : BOOLEAN, mde : BOOLEAN] /\ mdscr'.ss = mdscr.ss
        /\ mdscr'.mde
    BY <1>0, <1>2, Zenon DEF TypeOK, ArmingSlot, ActiveStates
  <2>3. TypeOK'
    BY <1>2, <2>1, <2>2, Zenon DEF TypeOK
  <2>4. LinuxSlotsUntouched' /\ MonitorKeptForLinux' /\ StepStateReturned'
    BY <1>0, <1>2, <2>1, <2>2, Zenon DEF LinuxSlotsUntouched, MonitorKeptForLinux, StepStateReturned
  <2>5. regs[Own] = cpu.prog
    BY <1>0 DEF ArmingSlot, TypeOK, ActiveStates, Images
  <2>6. SlotAgreesWithState' /\ Remembered' /\ ArmingSlot' /\ OtherSlots'
    BY <1>0, <1>2, <2>1, <2>5
       DEF SlotAgreesWithState, Remembered, ArmingSlot, OtherSlots, Own
  <2>7. AddedBits'
    BY <1>0, <1>2, <2>1, <2>2, Zenon DEF AddedBits, ArmingSlot, TypeOK
  <2> QED
    BY <2>3, <2>4, <2>6, <2>7, Zenon
<1> QED
    BY <1>1, <1>2, Zenon

(* Restoring: the saved image comes back, or the slot is quarantined with     *)
(* whatever part of the restore was done.                                     *)
LEMMA RestoreCpuIInv ==
    ASSUME IInv, RestoreCpu
    PROVE  IInv'
<1> USE DEF IInv, RestoreCpu, Restorable, history
<1>0. cpu \in ActiveStates /\ Own \in Slots /\ regs[Own] \in Images
    BY DEF TypeOK, EmptyState, ActiveStates, Own
<1>1. ASSUME NEW im \in Images, Quarantine, owner[Own] => im = regs[Own],
             regs' = [regs EXCEPT ![Own] = im], UNCHANGED <<mdscr, kept>>
      PROVE  IInv'
  <2>1. /\ cpu' \in ActiveStates /\ cpu'.state = "QUARANTINED" /\ cpu'.slot = cpu.slot
        /\ cpu'.saved = cpu.saved /\ cpu'.prog = cpu.prog /\ cpu'.added_mde = cpu.added_mde
    BY <1>0, <1>1, Zenon DEF Quarantine, ActiveStates, States
  <2> QED
    BY <1>0, <1>1, <2>1, IntoQuarantine, Zenon DEF TypeOK
<1>2. CASE Quarantine /\ UNCHANGED <<regs, mdscr, kept>>
  <2>1. regs' = [regs EXCEPT ![Own] = regs[Own]]
    BY <1>0, <1>2, Zenon DEF TypeOK
  <2> QED
    BY <1>0, <1>1, <1>2, <2>1, Zenon
<1>3. CASE /\ LiveIs(cpu.prog.value, ExpectedControl) /\ ResetState
           /\ regs' = [regs EXCEPT ![Own] = cpu.saved]
           /\ \E unread \in {FALSE, AccessMayFail} :
                 /\ mdscr' = RestoredMdscr(OtherStateRequiresMde \/ unread)
                 /\ kept' = (kept \/ mdscr' # RestoredMdscr(OtherStateRequiresMde))
  <2>1. PICK required \in BOOLEAN :
           /\ mdscr' = RestoredMdscr(required)
           /\ OtherStateRequiresMde => required
           /\ kept' = (kept \/ mdscr' # RestoredMdscr(OtherStateRequiresMde))
    BY <1>3, DebugAssumption, Zenon DEF OtherStateRequiresMde
  <2>2. ~owner[Own]
    BY <1>3, Zenon DEF LiveIs
  <2>3. OtherStateRequiresMde <=> \E s \in Slots : owner[s]
    BY <2>2, Zenon DEF OtherStateRequiresMde, OtherSlots
  <2>4. mdscr' \in [ss : BOOLEAN, mde : BOOLEAN]
    BY <2>1, Zenon DEF RestoredMdscr
  <2>5. mdscr'.ss = stepper
    BY <1>0, <2>1, Zenon DEF RestoredMdscr, AddedBits, StepStateReturned, TypeOK, ActiveStates
  <2>6. (\E s \in Slots : owner[s]) => mdscr'.mde
    BY <2>1, <2>3, Zenon DEF RestoredMdscr, MonitorKeptForLinux
  <2>7. ~kept' /\ mdscr'.mde => \E s \in Slots : owner[s]
    BY <2>1, <2>3, Zenon DEF RestoredMdscr, AddedBits
  <2>8. kept' \in BOOLEAN
    BY <2>1, Zenon DEF TypeOK
  <2> QED
    BY <1>3, <2>2, <2>4, <2>5, <2>6, <2>7, <2>8, BackToEmpty, Zenon
<1>4. CASE /\ LiveIs(cpu.prog.value, ExpectedControl) /\ Quarantine /\ UNCHANGED <<mdscr, kept>>
           /\ \E n \in 1 .. 4 : regs' = [regs EXCEPT ![Own] = PartlyRestored(n)]
  <2>1. PICK n \in 1 .. 4 : regs' = [regs EXCEPT ![Own] = PartlyRestored(n)]
    BY <1>4, Zenon
  <2>2. ExpectedControl \in Controls
    BY <1>0, DisabledType, Zenon DEF ExpectedControl, ActiveStates, Images
  <2>3. PartlyRestored(n) \in Images
    BY <1>0, <2>2, DisabledType, Zenon DEF PartlyRestored, ActiveStates, Images
  <2> QED
    BY <1>1, <1>4, <2>1, <2>3, Zenon DEF LiveIs
<1> QED
    BY <1>2, <1>3, <1>4, Zenon

(* A hit disables the comparator and asks for a step or finishes a one-shot. *)
LEMMA HandleHitIInv ==
    ASSUME IInv, NEW tgt \in Targets, NEW kernel_mode \in BOOLEAN,
           HandleHit(tgt, kernel_mode)
    PROVE  IInv'
<1> USE DEF IInv, HandleHit, history
<1> DEFINE im == [value |-> cpu.prog.value, control |-> Disabled(cpu.prog.control)]
<1>0. cpu \in ActiveStates /\ Own \in Slots /\ regs[Own] \in Images /\ cpu.state = "ARMED"
    BY DEF TypeOK, EmptyState, ActiveStates, Own
<1>1. CASE Quarantine /\ UNCHANGED <<regs, mdscr, pstate_ss>>
  <2>1. /\ cpu' \in ActiveStates /\ cpu'.state = "QUARANTINED" /\ cpu'.slot = cpu.slot
        /\ cpu'.saved = cpu.saved /\ cpu'.prog = cpu.prog /\ cpu'.added_mde = cpu.added_mde
    BY <1>0, <1>1, Zenon DEF Quarantine, ActiveStates, States
  <2>2. regs' = [regs EXCEPT ![Own] = regs[Own]]
    BY <1>0, <1>1, Zenon DEF TypeOK
  <2> QED
    BY <1>0, <1>1, <2>1, <2>2, IntoQuarantine, Zenon DEF TypeOK
<1>2. CASE /\ LiveIs(cpu.prog.value, cpu.prog.control)
           /\ regs' = [regs EXCEPT ![Own].control = Disabled(@)]
           /\ AfterHit(kernel_mode)
  <2>1. im \in Images /\ regs' = [regs EXCEPT ![Own] = im] /\ ~owner[Own]
    <3>1. [regs[Own] EXCEPT !.control = Disabled(regs[Own].control)] = im
      BY <1>2 DEF LiveIs
    <3>2. im \in Images
      BY <1>0, DisabledType, Zenon DEF ActiveStates, Images
    <3> QED
      BY <1>2, <3>1, <3>2, Zenon DEF LiveIs
  <2>2. regs'[Own] = im /\ \A s \in Slots : s # Own => regs'[s] = regs[s]
    BY <1>0, <2>1, Zenon DEF TypeOK
  <2>3. regs' \in [Slots -> Images]
    BY <2>1, Zenon DEF TypeOK
  <2> HIDE DEF im
  <2>4. ASSUME cpu' \in ActiveStates, cpu'.state \in {"ONE_SHOT_DONE", "STEP_PENDING"},
               cpu'.slot = cpu.slot, cpu'.saved = cpu.saved, cpu'.prog = cpu.prog,
               cpu'.added_mde = cpu.added_mde,
               cpu'.state = "ONE_SHOT_DONE" => ~cpu'.added_mdscr_ss /\ mdscr'.ss = mdscr.ss,
               cpu'.state = "STEP_PENDING" =>
                  /\ cpu'.added_mdscr_ss = ~mdscr.ss /\ mdscr'.ss
                  /\ cpu'.forward_single_step = mdscr.ss,
               mdscr' \in [ss : BOOLEAN, mde : BOOLEAN], mdscr'.mde = mdscr.mde,
               pstate_ss' \in BOOLEAN
        PROVE  IInv'
    <3> USE <2>4
    <3>1. TypeOK'
      BY <2>3, Zenon DEF TypeOK
    <3>2. LinuxSlotsUntouched' /\ MonitorKeptForLinux'
      BY <2>1, <2>2 DEF LinuxSlotsUntouched, MonitorKeptForLinux
    <3>3. StepStateReturned'
      BY <1>0, Zenon DEF StepStateReturned, TypeOK
    <3>4. SlotAgreesWithState'
      BY <2>2, Zenon DEF SlotAgreesWithState, Own, im
    <3>5. OtherSlots' /\ Remembered' /\ ArmingSlot'
      BY <1>0, <2>2 DEF OtherSlots, Remembered, ArmingSlot, Own
    <3>6. AddedBits'
      BY <1>0, Zenon DEF AddedBits, StepStateReturned, TypeOK
    <3> QED
      BY <3>1, <3>2, <3>3, <3>4, <3>5, <3>6, Zenon
  <2>5. CASE cpu' = [cpu EXCEPT !.state = "ONE_SHOT_DONE"] /\ UNCHANGED <<mdscr, pstate_ss>>
    <3>1. ~cpu.added_mdscr_ss
      BY <1>0, Zenon DEF AddedBits
    <3>2. /\ cpu' \in ActiveStates /\ cpu'.state = "ONE_SHOT_DONE" /\ cpu'.slot = cpu.slot
          /\ cpu'.saved = cpu.saved /\ cpu'.prog = cpu.prog
          /\ cpu'.added_mde = cpu.added_mde /\ ~cpu'.added_mdscr_ss
      BY <1>0, <2>5, <3>1, Zenon DEF ActiveStates, States
    <3> QED
      BY <2>4, <2>5, <3>2, Zenon DEF TypeOK
  <2>6. CASE /\ cpu' = [cpu EXCEPT !.added_mdscr_ss = ~mdscr.ss, !.added_pstate_ss = ~FrameSS,
                          !.forward_single_step = mdscr.ss \/ FrameSS, !.state = "STEP_PENDING"]
             /\ mdscr' = [mdscr EXCEPT !.ss = TRUE] /\ pstate_ss' = TRUE
    <3>1. /\ cpu' \in ActiveStates /\ cpu'.state = "STEP_PENDING" /\ cpu'.slot = cpu.slot
          /\ cpu'.saved = cpu.saved /\ cpu'.prog = cpu.prog
          /\ cpu'.added_mde = cpu.added_mde /\ cpu'.added_mdscr_ss = ~mdscr.ss
          /\ cpu'.forward_single_step = mdscr.ss
      BY <1>0, <2>6, ZenonT(60) DEF ActiveStates, States, FrameSS, TypeOK
    <3>2. mdscr' \in [ss : BOOLEAN, mde : BOOLEAN] /\ mdscr'.ss /\ mdscr'.mde = mdscr.mde
      BY <2>6, Zenon DEF TypeOK
    <3> QED
      BY <2>4, <2>6, <3>1, <3>2, Zenon
  <2>7. CASE /\ cpu' = [cpu EXCEPT !.added_mdscr_ss = ~mdscr.ss, !.added_pstate_ss = ~FrameSS,
                          !.forward_single_step = mdscr.ss \/ FrameSS, !.state = "QUARANTINED"]
             /\ UNCHANGED <<mdscr, pstate_ss>>
    <3>1. /\ cpu' \in ActiveStates /\ cpu'.state = "QUARANTINED" /\ cpu'.slot = cpu.slot
          /\ cpu'.saved = cpu.saved /\ cpu'.prog = cpu.prog /\ cpu'.added_mde = cpu.added_mde
      BY <1>0, <2>7, ZenonT(60) DEF ActiveStates, States, FrameSS, TypeOK
    <3> QED
      BY <1>0, <2>1, <2>7, <3>1, IntoQuarantine, Zenon DEF TypeOK
  <2> QED
    BY <1>2, <2>5, <2>6, <2>7, Zenon DEF AfterHit
<1> QED
    BY <1>1, <1>2, Zenon

(* A step re-arms the comparator and takes out the step bits it had added. *)
LEMMA HandleStepIInv ==
    ASSUME IInv, NEW tgt \in Targets, HandleStep(tgt)
    PROVE  IInv'
<1> USE DEF IInv, HandleStep, history
<1> DEFINE cleared == [mdscr EXCEPT !.ss = @ /\ ~cpu.added_mdscr_ss]
<1>0. cpu \in ActiveStates /\ Own \in Slots /\ regs[Own] \in Images /\ cpu.state = "STEP_PENDING"
    BY DEF TypeOK, EmptyState, ActiveStates, Own
<1>1. cleared \in [ss : BOOLEAN, mde : BOOLEAN] /\ cleared.mde = mdscr.mde /\ cleared.ss = stepper
    BY <1>0, Zenon DEF TypeOK, AddedBits, ActiveStates
<1> HIDE DEF cleared
<1>2. CASE Quarantine /\ mdscr' \in {mdscr, cleared} /\ UNCHANGED <<regs, pstate_ss>>
  <2>1. /\ cpu' \in ActiveStates /\ cpu'.state = "QUARANTINED" /\ cpu'.slot = cpu.slot
        /\ cpu'.saved = cpu.saved /\ cpu'.prog = cpu.prog /\ cpu'.added_mde = cpu.added_mde
    BY <1>0, <1>2, Zenon DEF Quarantine, ActiveStates, States
  <2>2. regs' = [regs EXCEPT ![Own] = regs[Own]]
    BY <1>0, <1>2, Zenon DEF TypeOK
  <2>3. mdscr' \in [ss : BOOLEAN, mde : BOOLEAN] /\ mdscr'.mde = mdscr.mde
    BY <1>1, <1>2, Zenon DEF TypeOK
  <2> QED
    BY <1>0, <1>2, <2>1, <2>2, <2>3, IntoQuarantine, Zenon DEF TypeOK
<1>3. CASE /\ LiveIs(cpu.prog.value, Disabled(cpu.prog.control)) /\ mdscr' = cleared
           /\ pstate_ss' = (pstate_ss /\ ~cpu.added_pstate_ss)
           /\ regs' = [regs EXCEPT ![Own].control = cpu.prog.control]
           /\ cpu' = [cpu EXCEPT !.state = "ARMED", !.added_mdscr_ss = FALSE,
                                 !.added_pstate_ss = FALSE, !.forward_single_step = FALSE]
  <2>1. cpu.prog \in Images /\ ~owner[Own]
    BY <1>0, <1>3, Zenon DEF ActiveStates, LiveIs
  <2>2. regs' = [regs EXCEPT ![Own] = cpu.prog]
    <3>1. [regs[Own] EXCEPT !.control = cpu.prog.control] = cpu.prog
      BY <1>3, <2>1 DEF LiveIs, Images
    <3> QED
      BY <1>3, <3>1, Zenon
  <2>3. regs'[Own] = cpu.prog /\ \A s \in Slots : s # Own => regs'[s] = regs[s]
    BY <1>0, <2>2, Zenon DEF TypeOK
  <2>4. /\ cpu' \in ActiveStates /\ cpu'.state = "ARMED" /\ cpu'.slot = cpu.slot
        /\ cpu'.saved = cpu.saved /\ cpu'.prog = cpu.prog
        /\ cpu'.added_mde = cpu.added_mde /\ ~cpu'.added_mdscr_ss
    BY <1>0, <1>3, Zenon DEF ActiveStates, States
  <2>5. TypeOK'
    BY <1>1, <1>3, <2>1, <2>2, <2>4, Zenon DEF TypeOK
  <2>6. LinuxSlotsUntouched' /\ MonitorKeptForLinux' /\ StepStateReturned'
    BY <1>1, <1>3, <2>1, <2>3, <2>4 DEF LinuxSlotsUntouched, MonitorKeptForLinux, StepStateReturned
  <2>7. SlotAgreesWithState' /\ OtherSlots' /\ Remembered' /\ ArmingSlot'
    BY <1>0, <2>3, <2>4 DEF SlotAgreesWithState, OtherSlots, Remembered, ArmingSlot, Own
  <2>8. AddedBits'
    BY <1>0, <1>1, <1>3, <2>4, Zenon DEF AddedBits
  <2> QED
    BY <2>5, <2>6, <2>7, <2>8, Zenon
<1> QED
    BY <1>2, <1>3, Zenon DEF cleared

(* Linux writing a slot, its own or the controller's, keeps the invariant:    *)
(* the controller's memory of a contested slot is no longer relied on.        *)
LEMMA LinuxWritesIInv ==
    ASSUME IInv, step = "idle", NEW s \in Slots, NEW im \in Images,
           LinuxLeaves(s, im), im.control.enable <=> owner'[s],
           owner' = [owner EXCEPT ![s] = ~owner[s]],
           mdscr' \in [ss : BOOLEAN, mde : BOOLEAN], mdscr'.ss = mdscr.ss,
           mdscr'.mde <=> \E o \in Slots : owner'[o],
           UNCHANGED <<pstate_ss, cpu, step, stepper, kept>>
    PROVE  IInv'
<1> USE DEF IInv, LinuxLeaves
<1>1. Own' = Own /\ regs'[s] = im /\ linux'[s] = im
    BY Zenon DEF Own, TypeOK
<1>2. \A o \in Slots : o # s => /\ regs'[o] = regs[o] /\ linux'[o] = linux[o]
                               /\ owner'[o] = owner[o]
    BY Zenon DEF TypeOK
<1>3. TypeOK'
    BY Zenon DEF TypeOK
<1>4. LinuxSlotsUntouched' /\ MonitorKeptForLinux' /\ StepStateReturned'
    BY <1>1, <1>2 DEF LinuxSlotsUntouched, MonitorKeptForLinux, StepStateReturned
<1>5. cpu.state # "EMPTY" => Own \in Slots
    BY DEF TypeOK, ActiveStates, EmptyState, Own
<1>6. SlotAgreesWithState' /\ Remembered' /\ ArmingSlot' /\ AddedBits'
  <2>1. CASE s = Own
    BY <1>1, <1>5, <2>1, Zenon DEF SlotAgreesWithState, Remembered, ArmingSlot, AddedBits
  <2>2. CASE s # Own
    <3>1. Own \in contested' <=> Own \in contested
      BY <2>2, Zenon
    <3>2. SlotAgreesWithState' /\ Remembered'
      BY <1>1, <1>2, <1>5, <2>2, <3>1 DEF SlotAgreesWithState, Remembered
    <3>3. ArmingSlot' /\ AddedBits'
      BY Zenon DEF ArmingSlot, AddedBits
    <3> QED
      BY <3>2, <3>3, Zenon
  <2> QED
    BY <2>1, <2>2, Zenon
<1>7. OtherSlots'
    BY <1>1, <1>2 DEF OtherSlots
<1> QED
    BY <1>3, <1>4, <1>6, <1>7, Zenon

(* Linux's steps keep the invariant when they do not land inside an arming. *)
LEMMA LinuxIInv ==
    ASSUME IInv, ~Interrupts, Linux
    PROVE  IInv'
<1>1. ASSUME NEW s \in Slots, NEW im \in Images, LinuxInstall(s, im)
      PROVE  IInv'
  <2>1. step = "idle" /\ owner' = [owner EXCEPT ![s] = ~owner[s]]
    BY <1>1, Zenon DEF LinuxInstall, LinuxMayRun
  <2>2. owner'[s] /\ im.control.enable
    BY <1>1, Zenon DEF LinuxInstall, IInv, TypeOK
  <2>3. /\ mdscr' \in [ss : BOOLEAN, mde : BOOLEAN] /\ mdscr'.ss = mdscr.ss
        /\ mdscr'.mde <=> \E o \in Slots : owner'[o]
    BY <1>1, <2>2, Zenon DEF LinuxInstall, IInv, TypeOK
  <2> QED
    BY <1>1, <2>1, <2>2, <2>3, LinuxWritesIInv, Zenon DEF LinuxInstall
<1>2. ASSUME NEW s \in Slots, LinuxUninstall(s)
      PROVE  IInv'
  <2> DEFINE im == [regs[s] EXCEPT !.control = Disabled(@)]
  <2>1. step = "idle" /\ owner' = [owner EXCEPT ![s] = ~owner[s]]
    BY <1>2, Zenon DEF LinuxUninstall, LinuxMayRun
  <2>2. regs[s] \in Images /\ ~owner'[s]
    BY <1>2, Zenon DEF LinuxUninstall, IInv, TypeOK
  <2>3. im \in Images /\ ~im.control.enable
    BY <2>2, DisabledType, Zenon DEF Images
  <2>4. \A o \in Slots : owner'[o] <=> (o # s /\ owner[o])
    BY <1>2, Zenon DEF LinuxUninstall, IInv, TypeOK
  <2>5. /\ mdscr' \in [ss : BOOLEAN, mde : BOOLEAN] /\ mdscr'.ss = mdscr.ss
        /\ mdscr'.mde <=> \E o \in Slots : owner'[o]
    BY <1>2, <2>4, Zenon DEF LinuxUninstall, IInv, TypeOK
  <2>6. LinuxLeaves(s, im)
    BY <1>2, Zenon DEF LinuxUninstall
  <2> HIDE DEF im
  <2> QED
    BY <1>2, <2>1, <2>2, <2>3, <2>5, <2>6, LinuxWritesIInv, Zenon DEF LinuxUninstall
<1>3. ASSUME NEW on \in BOOLEAN, LinuxStep(on)
      PROVE  IInv'
  <2> USE <1>3 DEF IInv, LinuxStep
  <2>1. /\ mdscr' \in [ss : BOOLEAN, mde : BOOLEAN] /\ mdscr'.ss = on
        /\ mdscr'.mde = mdscr.mde
    BY Zenon DEF TypeOK
  <2>2. TypeOK'
    BY <2>1, Zenon DEF TypeOK
  <2>3. LinuxSlotsUntouched' /\ MonitorKeptForLinux' /\ StepStateReturned'
    BY <2>1, Zenon DEF LinuxSlotsUntouched, MonitorKeptForLinux, StepStateReturned
  <2>4. SlotAgreesWithState' /\ Remembered' /\ OtherSlots'
    BY Zenon DEF SlotAgreesWithState, Remembered, OtherSlots, Own
  <2>5. ArmingSlot' /\ AddedBits'
    BY <2>1, Zenon DEF ArmingSlot, AddedBits
  <2> QED
    BY <2>2, <2>3, <2>4, <2>5, Zenon
<1> QED
    BY <1>1, <1>2, <1>3, Zenon DEF Linux

(* Every step of the controller and of Linux keeps the invariant. *)
LEMMA NextIInv == ASSUME ~Interrupts, IInv, [Next]_vars PROVE IInv'
<1>1. CASE UNCHANGED vars
    BY <1>1 DEF vars, IInv, TypeOK, LinuxSlotsUntouched, MonitorKeptForLinux,
                StepStateReturned, SlotAgreesWithState, OtherSlots, Remembered,
                ArmingSlot, AddedBits, Own
<1>2. CASE Arming
    BY <1>2, ArmSnapshotIInv, ArmWriteValueIInv, ArmWriteControlIInv, ArmFinishIInv, Zenon
       DEF Arming
<1>3. CASE RestoreCpu
    BY <1>3, RestoreCpuIInv, Zenon
<1>4. CASE Handling
    BY <1>4, HandleHitIInv, HandleStepIInv, Zenon DEF Handling
<1>5. CASE Linux
    BY <1>5, LinuxIInv, Zenon
<1> QED
    BY <1>1, <1>2, <1>3, <1>4, <1>5, Zenon DEF Next

(* The inductive invariant holds of every behaviour. *)
THEOREM Invariance == ASSUME ~Interrupts PROVE Spec => []IInv
<1>1. Init => IInv
    BY InitIInv, Zenon
<1>2. IInv /\ [Next]_vars => IInv'
    BY NextIInv, Zenon
<1> QED
    BY <1>1, <1>2, PTL DEF Spec

(* Coexistence with Linux (debug.c, restore_cpu, rollback_arm, handle_hit,    *)
(* handle_step): whatever Linux installs and removes and whichever accesses   *)
(* fail, a slot Linux owns holds what Linux put there.                        *)
THEOREM Coexistence == ASSUME ~Interrupts PROVE Spec => []LinuxSlotsUntouched
<1>1. IInv => LinuxSlotsUntouched
    BY Zenon DEF IInv
<1> QED
    BY <1>1, Invariance, PTL

(* The monitor enable of MDSCR_EL1 (debug.c, other_state_requires_mde): it is *)
(* not cleared under a slot of Linux, not even under one that was installed   *)
(* after the controller set it.                                               *)
THEOREM MonitorKept == ASSUME ~Interrupts PROVE Spec => []MonitorKeptForLinux
<1>1. IInv => MonitorKeptForLinux
    BY Zenon DEF IInv
<1> QED
    BY <1>1, Invariance, PTL

(* A controller that is EMPTY owns no slot and owes no bit of MDSCR_EL1. *)
LEMMA EmptyOwnsNothing ==
    ASSUME IInv, cpu.state = "EMPTY"
    PROVE  ~cpu.added_mde /\ \A s \in Slots : s # Own
<1>1. cpu \in ActiveStates \/ cpu = EmptyState
    BY Zenon DEF IInv, TypeOK
<1>2. cpu \in ActiveStates => cpu.state # "EMPTY"
    BY Zenon DEF ActiveStates
<1>3. Own = None /\ ~cpu.added_mde
    BY <1>1, <1>2 DEF EmptyState, Own
<1> QED
    BY <1>3, DebugAssumption, Zenon

(* Restoration (debug.c, restore_cpu and rollback_arm): EMPTY again, no       *)
(* comparator is left enabled and every uncontested slot is as Linux left it. *)
THEOREM Restoration ==
    ASSUME ~Interrupts
    PROVE  Spec => [](RestoredExactly /\ NoLeakedComparator)
<1>1. IInv => RestoredExactly /\ NoLeakedComparator
    BY EmptyOwnsNothing, Zenon DEF IInv, OtherSlots, RestoredExactly, NoLeakedComparator
<1> QED
    BY <1>1, Invariance, PTL

(* ... and the step and monitor bits of MDSCR_EL1 are Linux's again.          *)
THEOREM BitsReturned ==
    ASSUME ~Interrupts
    PROVE  Spec => [](StepStateReturned /\ MonitorReturned)
<1>1. IInv => StepStateReturned /\ MonitorReturned
    BY EmptyOwnsNothing, Zenon DEF IInv, AddedBits, MonitorReturned
<1> QED
    BY <1>1, Invariance, PTL

-----------------------------------------------------------------------------
(* What Linux last left in a slot is enabled only while Linux owns the slot. *)
LinuxEnabled == \A s \in Slots : linux[s].control.enable => owner[s]

(* One step of the specification that overwrites nothing. *)
OverwritesNothing ==
    \A s \in Slots : (regs'[s] # regs[s] /\ linux'[s] = linux[s]) =>
        /\ ~owner[s] /\ s = Own /\ cpu.state # "QUARANTINED"

(* Linux disables what it gives back, and nobody else writes the history. *)
LEMMA LinuxEnabledStep ==
    ASSUME IInv, LinuxEnabled, [Next]_vars
    PROVE  LinuxEnabled'
<1> USE DEF LinuxEnabled
<1>1. CASE UNCHANGED <<owner, linux>>
    BY <1>1, Zenon
<1>2. ASSUME NEW s \in Slots, NEW im \in Images, LinuxInstall(s, im)
      PROVE  LinuxEnabled'
    BY <1>2, Zenon DEF LinuxInstall, LinuxLeaves, IInv, TypeOK
<1>3. ASSUME NEW s \in Slots, LinuxUninstall(s)
      PROVE  LinuxEnabled'
  <2>1. ~[regs[s] EXCEPT !.control = Disabled(@)].control.enable
    BY DEF IInv, TypeOK, Images, Controls, Disabled
  <2> DEFINE im == [regs[s] EXCEPT !.control = Disabled(@)]
  <2>2. linux' = [linux EXCEPT ![s] = im] /\ owner' = [owner EXCEPT ![s] = FALSE]
    BY <1>3, Zenon DEF LinuxUninstall, LinuxLeaves
  <2> HIDE DEF im
  <2> QED
    BY <2>1, <2>2, Zenon DEF IInv, TypeOK, im
<1>4. ASSUME NEW on \in BOOLEAN, LinuxStep(on)
      PROVE  UNCHANGED <<owner, linux>>
    BY <1>4, Zenon DEF LinuxStep
<1>5. CASE Arming \/ RestoreCpu \/ Handling
    BY <1>1, <1>5, Zenon DEF Arming, ArmSnapshot, ArmWriteValue, ArmWriteControl, ArmFinish,
                      RestoreCpu, Handling, HandleHit, HandleStep, history, hardware
<1>6. CASE UNCHANGED vars
    BY <1>1, <1>6, Zenon DEF vars
<1> QED
    BY <1>1, <1>2, <1>3, <1>4, <1>5, <1>6, Zenon DEF Next, Linux

(* The controller writes its own unowned slot, Linux records what it writes. *)
LEMMA StepOverwritesNothing ==
    ASSUME IInv, LinuxEnabled, [Next]_vars
    PROVE  OverwritesNothing \/ UNCHANGED vars
<1> USE DEF OverwritesNothing
<1>1. ASSUME NEW im, regs' = [regs EXCEPT ![Own] = im], ~owner[Own],
             cpu.state # "QUARANTINED"
      PROVE  OverwritesNothing
    BY <1>1, Zenon DEF IInv, TypeOK
<1>2. CASE UNCHANGED regs
    BY <1>2, Zenon
<1>3. CASE ArmWriteValue \/ ArmWriteControl \/ ArmFinish
  <2>1. ~owner[Own] /\ cpu.state = "SNAPSHOTTED"
    BY <1>3, Zenon DEF ArmWriteValue, ArmWriteControl, ArmFinish, IInv, ArmingSlot, TypeOK
  <2>2. \A s \in Slots : s # Own => regs'[s] = regs[s]
    BY <1>3, Zenon DEF ArmWriteValue, ArmWriteControl, ArmFinish, RollbackArm, IInv, TypeOK
  <2> QED
    BY <2>1, <2>2, Zenon
<1>4. CASE RestoreCpu
    BY <1>1, <1>2, <1>4, Zenon DEF RestoreCpu, Restorable, LiveIs
<1>5. CASE Handling
  <2>1. CASE UNCHANGED regs
    BY <2>1, Zenon
  <2>2. CASE ~UNCHANGED regs
    <3>1. ~owner[Own] /\ cpu.state # "QUARANTINED"
      BY <1>5, <2>2, Zenon DEF Handling, HandleHit, HandleStep, LiveIs
    <3>2. \A s \in Slots : s # Own => regs'[s] = regs[s]
      BY <1>5, <2>2, Zenon DEF Handling, HandleHit, HandleStep, IInv, TypeOK
    <3> QED
      BY <3>1, <3>2, Zenon
  <2> QED
    BY <2>1, <2>2, Zenon
<1>6. ASSUME NEW s \in Slots, NEW im \in Images, LinuxInstall(s, im)
      PROVE  OverwritesNothing
    BY <1>6, Zenon DEF LinuxInstall, LinuxLeaves, LinuxEnabled, IInv, TypeOK
<1>7. ASSUME NEW s \in Slots, LinuxUninstall(s)
      PROVE  OverwritesNothing
  <2> DEFINE im == [regs[s] EXCEPT !.control = Disabled(@)]
  <2>1. /\ linux' = [linux EXCEPT ![s] = im] /\ regs' = [regs EXCEPT ![s] = im]
        /\ regs[s] = linux[s]
    BY <1>7, Zenon DEF LinuxUninstall, LinuxLeaves, IInv, LinuxSlotsUntouched
  <2> HIDE DEF im
  <2> QED
    BY <2>1, Zenon DEF IInv, TypeOK
<1>8. CASE \/ \E req \in Requests, tgt \in Targets : ArmSnapshot(req, tgt)
           \/ \E on \in BOOLEAN : LinuxStep(on)
    BY <1>2, <1>8, Zenon DEF ArmSnapshot, LinuxStep, hardware
<1> QED
    BY <1>2, <1>3, <1>4, <1>5, <1>6, <1>7, <1>8, Zenon DEF Next, Arming, Linux

(* No blind overwrite (debug.c: every write follows a check of the live       *)
(* image): a step of the controller changes only its own unowned slot, and    *)
(* none in QUARANTINED.                                                       *)
THEOREM NoOverwrite == ASSUME ~Interrupts PROVE Spec => NoBlindOverwrite
<1>1. Init => LinuxEnabled
    BY Zenon DEF Init, LinuxEnabled
<1>2. IInv /\ LinuxEnabled /\ [Next]_vars => LinuxEnabled'
    BY LinuxEnabledStep, Zenon
<1>3. IInv /\ LinuxEnabled /\ [Next]_vars => [OverwritesNothing]_vars
    BY StepOverwritesNothing, Zenon
<1>4. [OverwritesNothing]_vars <=>
        [\A s \in Slots : (regs'[s] # regs[s] /\ linux'[s] = linux[s]) =>
            /\ ~owner[s] /\ s = Own /\ cpu.state # "QUARANTINED"]_vars
    BY Zenon DEF OverwritesNothing
<1> QED
    BY <1>1, <1>2, <1>3, <1>4, Invariance, PTL DEF Spec, NoBlindOverwrite
=============================================================================
