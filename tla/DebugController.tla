-------------------------- MODULE DebugController --------------------------
(* The direct debug-register controller of kpm/core/debug.c on one CPU (the   *)
(* controllers of two CPUs share no state).  Registers are the live           *)
(* comparators of the CPU: Linux's owner pointer (bp_on_reg / wp_on_reg),     *)
(* value register and control register, the enable bit apart from the other   *)
(* control bits.  Arming is split at its register writes, because the         *)
(* post-callback of finish_task_switch runs with interrupts on; every other   *)
(* operation runs with debug exceptions or interrupts masked and is one step. *)
(* An access may fail (ops adapters of kpm/platform/arm64/debug_regs.c return *)
(* an error without touching the register).  Linux is the environment.        *)
EXTENDS Naturals

CONSTANTS
    BrpCount, WrpCount, \* number of breakpoint and of watchpoint comparators
    Values,             \* what a value register can hold
    Attrs,              \* control bits other than the enable bit
    Requests,           \* validated requests [kind, value, attr, mode]
    Targets,            \* task identities a handler may be called for
    None,               \* a field the memset of spz_debug_reset_state zeroed
    AccessMayFail,      \* BOOLEAN: register accessors may return an error
    Interrupts          \* BOOLEAN: Linux may run between two steps of arming

Kinds == {"bp", "wp"}

Modes == {"ONCE", "REPEAT"}

SlotCount(kind) == IF kind = "bp" THEN BrpCount ELSE WrpCount

Slots == {s \in Kinds \X (0 .. BrpCount + WrpCount) : s[2] < SlotCount(s[1])}

Controls == [enable : BOOLEAN, attr : Attrs]

Images == [value : Values, control : Controls]

States == {"EMPTY", "SNAPSHOTTED", "ARMED", "STEP_PENDING", "ONE_SHOT_DONE",
           "QUARANTINED"}

ASSUME DebugAssumption ==
    /\ BrpCount \in Nat /\ WrpCount \in Nat
    /\ Requests \subseteq [kind : Kinds, value : Values, attr : Attrs, mode : Modes]
    /\ None \notin Slots
    /\ AccessMayFail \in BOOLEAN /\ Interrupts \in BOOLEAN

VARIABLES
    owner,     \* [Slots -> BOOLEAN]: Linux's software owner pointer is set
    regs,      \* [Slots -> Images]: live value and control registers
    mdscr,     \* MDSCR_EL1: [ss, mde]
    pstate_ss, \* PSTATE.SS in the saved frame of the interrupted task
    cpu,       \* struct spz_debug_cpu_state
    step,      \* how far arm_current has come: "idle", "value", "control", "mdscr"
    linux,     \* history: the image Linux last left in each slot
    stepper,   \* history: Linux itself single-steps the running task
    contested, \* history: slots Linux wrote while the controller used them
    kept       \* history: MDE was left set because a slot could not be read

hardware == <<owner, regs, mdscr, pstate_ss>>
history == <<linux, stepper, contested, kept>>
vars == <<owner, regs, mdscr, pstate_ss, cpu, step, linux, stepper, contested,
          kept>>

-----------------------------------------------------------------------------
Disabled(c) == [enable |-> FALSE, attr |-> c.attr]

Programmed(req) == [value |-> req.value,
                    control |-> [enable |-> TRUE, attr |-> req.attr]]

(* The controller's slot; None when the state is EMPTY. *)
Own == cpu.slot

(* Mutant: the ownership check is forgotten. *)
LiveIsAnyOwner(value, control) == regs[Own] = [value |-> value, control |-> control]

(* spz_debug_live_image against the image the controller expects there. *)
LiveIs(value, control) == /\ ~owner[Own]
                          /\ regs[Own] = [value |-> value, control |-> control]

(* spz_debug_find_slot: from the highest index down, slots Linux owns and has *)
(* enabled are passed over; the first other slot is taken if it is free in    *)
(* both the software and the hardware view.                                   *)
FindSlot(kind, i) ==
    LET passed(j) == owner[<<kind, j>>] /\ regs[<<kind, j>>].control.enable
    IN  /\ <<kind, i>> \in Slots
        /\ ~owner[<<kind, i>>] /\ ~regs[<<kind, i>>].control.enable
        /\ \A j \in 0 .. SlotCount(kind) - 1 : j > i => passed(j)

(* spz_debug_other_state_requires_mde, when every read succeeds. *)
OtherStateRequiresMde == \E s \in Slots \ {Own} : owner[s] \/ regs[s].control.enable

(* spz_debug_reset_state: the memset leaves no slot, image or target. *)
EmptyState == [state |-> "EMPTY", slot |-> None, saved |-> None, prog |-> None,
               mode |-> None, target |-> None, added_mde |-> FALSE,
               added_mdscr_ss |-> FALSE, added_pstate_ss |-> FALSE,
               forward_single_step |-> FALSE]

ResetState == cpu' = EmptyState

Quarantine == cpu' = [cpu EXCEPT !.state = "QUARANTINED"]

-----------------------------------------------------------------------------
(* Mutant: it is not remembered that MDE was clear. *)
ArmSnapshotNoMde(req, tgt) ==
    /\ cpu.state = "EMPTY" /\ step = "idle"
    /\ \E i \in 0 .. SlotCount(req.kind) - 1 :
        /\ FindSlot(req.kind, i)
        /\ cpu' = [EmptyState EXCEPT !.state = "SNAPSHOTTED", !.slot = <<req.kind, i>>,
                   !.saved = regs[<<req.kind, i>>], !.prog = Programmed(req),
                   !.mode = req.mode, !.target = tgt]
    /\ step' = "value"
    /\ UNCHANGED <<hardware, history>>

(* spz_debug_arm_current, up to the SNAPSHOTTED transition.  A busy state, no *)
(* free slot and a failed read return an error and change nothing.            *)
ArmSnapshot(req, tgt) ==
    /\ cpu.state = "EMPTY" /\ step = "idle"
    /\ \E i \in 0 .. SlotCount(req.kind) - 1 :
        /\ FindSlot(req.kind, i)
        /\ cpu' = [state |-> "SNAPSHOTTED", slot |-> <<req.kind, i>>,
                   saved |-> regs[<<req.kind, i>>], prog |-> Programmed(req),
                   mode |-> req.mode, target |-> tgt, added_mde |-> ~mdscr.mde,
                   added_mdscr_ss |-> FALSE, added_pstate_ss |-> FALSE,
                   forward_single_step |-> FALSE]
    /\ step' = "value"
    /\ UNCHANGED <<hardware, history>>

(* The write of the value register; if it fails the state is reset. *)
ArmWriteValue ==
    /\ step = "value"
    /\ \/ /\ regs' = [regs EXCEPT ![Own].value = cpu.prog.value]
          /\ step' = "control" /\ UNCHANGED cpu
       \/ /\ AccessMayFail
          /\ ResetState /\ step' = "idle" /\ UNCHANGED regs
    /\ UNCHANGED <<owner, mdscr, pstate_ss, history>>

(* Mutants: only one of the two registers is rolled back. *)
RollbackArmControlOnly ==
    ResetState /\ regs' = [regs EXCEPT ![Own].control = cpu.saved.control]

(* spz_debug_rollback_arm: quarantine unless the slot still holds what arming *)
(* wrote; otherwise write the saved control (if the programmed one is live)   *)
(* and the saved value, each of which may fail.                               *)
RollbackArm ==
    LET ours == /\ ~owner[Own] /\ regs[Own].value = cpu.prog.value
                /\ regs[Own].control \in {cpu.prog.control, cpu.saved.control}
    IN  \/ Quarantine /\ UNCHANGED regs /\ (ours => AccessMayFail)
        \/ /\ ours /\ AccessMayFail
           /\ Quarantine
           /\ regs' = [regs EXCEPT ![Own].control = cpu.saved.control]
        \/ ours /\ ResetState /\ regs' = [regs EXCEPT ![Own] = cpu.saved]

(* The write of the control register; if it fails the arming is rolled back. *)
ArmWriteControl ==
    /\ step = "control"
    /\ \/ /\ regs' = [regs EXCEPT ![Own].control = cpu.prog.control]
          /\ step' = "mdscr" /\ UNCHANGED cpu
       \/ AccessMayFail /\ RollbackArm /\ step' = "idle"
    /\ UNCHANGED <<owner, mdscr, pstate_ss, history>>

(* The MDSCR_EL1.MDE write, made only if the snapshot had MDE clear; it       *)
(* writes the snapshot's other bits back.  Then the state is ARMED.           *)
ArmFinish ==
    /\ step = "mdscr" /\ step' = "idle"
    /\ \/ /\ mdscr' = [mdscr EXCEPT !.mde = @ \/ cpu.added_mde]
          /\ cpu' = [cpu EXCEPT !.state = "ARMED"]
          /\ UNCHANGED regs
       \/ /\ AccessMayFail /\ cpu.added_mde
          /\ RollbackArm /\ UNCHANGED mdscr
    /\ UNCHANGED <<owner, pstate_ss, history>>

(* The control word restore_cpu expects to find live in the slot. *)
ExpectedControl ==
    CASE cpu.state = "SNAPSHOTTED" -> cpu.saved.control
      [] cpu.state = "ARMED"       -> cpu.prog.control
      [] OTHER                     -> Disabled(cpu.prog.control)

(* Mutants: MDE is dropped whoever needs it, or never given back. *)
RestoredMdscrDropsMde(required) ==
    [ss |-> mdscr.ss /\ ~cpu.added_mdscr_ss, mde |-> mdscr.mde /\ ~cpu.added_mde]

RestoredMdscrKeepsMde(required) ==
    [ss |-> mdscr.ss /\ ~cpu.added_mdscr_ss, mde |-> mdscr.mde]

(* MDSCR_EL1 as restore_cpu leaves it: the controller's own SS is taken out,  *)
(* its own MDE only when no other comparator needs it.                        *)
RestoredMdscr(required) ==
    [ss  |-> mdscr.ss /\ ~cpu.added_mdscr_ss,
     mde |-> mdscr.mde /\ (cpu.added_mde => required)]

(* What the slot holds when the n-th of the four restoring writes fails. *)
PartlyRestored(n) ==
    [value   |-> IF n > 2 THEN cpu.saved.value ELSE cpu.prog.value,
     control |-> CASE n = 1 -> ExpectedControl
                   [] n = 4 -> cpu.saved.control
                   [] OTHER -> Disabled(cpu.prog.control)]

(* Mutant: a quarantined slot is restored as well. *)
RestorableQuarantined == cpu.state # "EMPTY" /\ step = "idle"

(* EMPTY and QUARANTINED are left alone by restore_cpu. *)
Restorable == cpu.state \notin {"EMPTY", "QUARANTINED"} /\ step = "idle"

(* spz_debug_restore_cpu: quarantine on a foreign image, else undo.  A failed *)
(* read changes nothing; a failed read of another slot counts as a slot that  *)
(* needs MDE.                                                                 *)
RestoreCpu ==
    /\ Restorable
    /\ \/ /\ ~LiveIs(cpu.prog.value, ExpectedControl)
          /\ Quarantine /\ UNCHANGED <<regs, mdscr, kept>>
       \/ /\ LiveIs(cpu.prog.value, ExpectedControl)
          /\ ResetState
          /\ regs' = [regs EXCEPT ![Own] = cpu.saved]
          /\ \E unread \in {FALSE, AccessMayFail} :
                /\ mdscr' = RestoredMdscr(OtherStateRequiresMde \/ unread)
                /\ kept' = (kept \/ mdscr' # RestoredMdscr(OtherStateRequiresMde))
       \/ /\ LiveIs(cpu.prog.value, ExpectedControl) /\ AccessMayFail
          /\ Quarantine
          /\ \E n \in 1 .. 4 :
                /\ n = 1 => ExpectedControl.enable
                /\ n = 4 => RestoredMdscr(OtherStateRequiresMde) # mdscr
                /\ regs' = [regs EXCEPT ![Own] = PartlyRestored(n)]
          /\ UNCHANGED <<mdscr, kept>>
    /\ UNCHANGED <<owner, pstate_ss, step, linux, stepper, contested>>

-----------------------------------------------------------------------------
(* PSTATE.SS of the frame a new exception saves: returning to EL0 with        *)
(* MDSCR_EL1.SS clear drops the bit.                                          *)
FrameSS == pstate_ss /\ mdscr.ss

(* The part of handle_hit after the comparator was disabled: ONCE, and a      *)
(* watchpoint taken in kernel mode, end in ONE_SHOT_DONE; REPEAT asks for one *)
(* single step, remembering which step bits it added and whether one was set. *)
AfterHit(kernel_mode) ==
    \/ /\ cpu.mode = "ONCE" \/ (Own[1] = "wp" /\ kernel_mode)
       /\ cpu' = [cpu EXCEPT !.state = "ONE_SHOT_DONE"]
       /\ UNCHANGED <<mdscr, pstate_ss>>
    \/ /\ cpu.mode = "REPEAT" /\ ~(Own[1] = "wp" /\ kernel_mode)
       /\ LET asked == [cpu EXCEPT !.added_mdscr_ss = ~mdscr.ss,
                                   !.added_pstate_ss = ~FrameSS,
                                   !.forward_single_step = mdscr.ss \/ FrameSS]
          IN  \/ /\ cpu' = [asked EXCEPT !.state = "STEP_PENDING"]
                 /\ mdscr' = [mdscr EXCEPT !.ss = TRUE]
                 /\ pstate_ss' = TRUE
              \/ /\ AccessMayFail /\ ~mdscr.ss
                 /\ cpu' = [asked EXCEPT !.state = "QUARANTINED"]
                 /\ UNCHANGED <<mdscr, pstate_ss>>

(* spz_debug_handle_break / handle_watch / handle_hit for an exception of the *)
(* armed comparator.  kernel_mode is only possible for watchpoints.           *)
HandleHit(tgt, kernel_mode) ==
    /\ cpu.state = "ARMED" /\ step = "idle" /\ cpu.target = tgt
    /\ kernel_mode => Own[1] = "wp"
    /\ \/ /\ ~LiveIs(cpu.prog.value, cpu.prog.control) \/ AccessMayFail
          /\ Quarantine /\ UNCHANGED <<regs, mdscr, pstate_ss>>
       \/ /\ LiveIs(cpu.prog.value, cpu.prog.control)
          /\ regs' = [regs EXCEPT ![Own].control = Disabled(@)]
          /\ AfterHit(kernel_mode)
    /\ UNCHANGED <<owner, step, history>>

(* spz_debug_handle_step: re-arm and take out the step bits that were added.  *)
(* The caller writes the frame back only when this succeeds.                  *)
HandleStep(tgt) ==
    /\ cpu.state = "STEP_PENDING" /\ step = "idle" /\ cpu.target = tgt
    /\ LET live == LiveIs(cpu.prog.value, Disabled(cpu.prog.control))
           cleared == [mdscr EXCEPT !.ss = @ /\ ~cpu.added_mdscr_ss]
           frame == pstate_ss /\ ~cpu.added_pstate_ss
       IN  \/ /\ ~live \/ (AccessMayFail /\ cpu.added_mdscr_ss)
              /\ Quarantine /\ UNCHANGED <<regs, mdscr, pstate_ss>>
           \/ /\ live /\ AccessMayFail
              /\ Quarantine /\ mdscr' = cleared
              /\ UNCHANGED <<regs, pstate_ss>>
           \/ /\ live
              /\ mdscr' = cleared /\ pstate_ss' = frame
              /\ regs' = [regs EXCEPT ![Own].control = cpu.prog.control]
              /\ cpu' = [cpu EXCEPT !.state = "ARMED", !.added_mdscr_ss = FALSE,
                                    !.added_pstate_ss = FALSE,
                                    !.forward_single_step = FALSE]
    /\ UNCHANGED <<owner, step, history>>

-----------------------------------------------------------------------------
(* Linux on this CPU.  It knows nothing of the controller: perf and ptrace    *)
(* take any slot whose owner pointer is clear, keep MDE while they own one    *)
(* and drop it with the last.  The single-step state of a task is changed     *)
(* only while the task is stopped, that is after a context switch, whose      *)
(* pre-callback has taken the controller out of STEP_PENDING.                 *)
LinuxMayRun == step = "idle" \/ Interrupts

LinuxLeaves(s, image) ==
    /\ regs' = [regs EXCEPT ![s] = image]
    /\ linux' = [linux EXCEPT ![s] = image]
    /\ contested' = IF s = Own THEN contested \cup {s} ELSE contested \ {s}

LinuxInstall(s, image) ==
    /\ LinuxMayRun /\ ~owner[s] /\ image.control.enable
    /\ owner' = [owner EXCEPT ![s] = TRUE]
    /\ LinuxLeaves(s, image)
    /\ mdscr' = [mdscr EXCEPT !.mde = TRUE]
    /\ UNCHANGED <<pstate_ss, cpu, step, stepper, kept>>

LinuxUninstall(s) ==
    /\ LinuxMayRun /\ owner[s]
    /\ owner' = [owner EXCEPT ![s] = FALSE]
    /\ LinuxLeaves(s, [regs[s] EXCEPT !.control = Disabled(@)])
    /\ mdscr' = [mdscr EXCEPT !.mde = \E o \in Slots \ {s} : owner[o]]
    /\ UNCHANGED <<pstate_ss, cpu, step, stepper, kept>>

LinuxStep(on) ==
    /\ step = "idle" /\ cpu.state # "STEP_PENDING" /\ stepper # on
    /\ stepper' = on /\ pstate_ss' = on
    /\ mdscr' = [mdscr EXCEPT !.ss = on]
    /\ UNCHANGED <<owner, regs, cpu, step, linux, contested, kept>>

-----------------------------------------------------------------------------
(* spz_debug_controller_init over registers Linux left disabled and unowned. *)
Init ==
    /\ owner = [s \in Slots |-> FALSE]
    /\ regs \in [Slots -> {im \in Images : ~im.control.enable}]
    /\ mdscr = [ss |-> FALSE, mde |-> FALSE]
    /\ pstate_ss = FALSE
    /\ cpu = EmptyState
    /\ step = "idle"
    /\ linux = regs /\ stepper = FALSE /\ contested = {} /\ kept = FALSE

Arming == \/ \E req \in Requests, tgt \in Targets : ArmSnapshot(req, tgt)
          \/ ArmWriteValue \/ ArmWriteControl \/ ArmFinish

Handling == \E tgt \in Targets :
                \/ \E kernel_mode \in BOOLEAN : HandleHit(tgt, kernel_mode)
                \/ HandleStep(tgt)

Linux == \/ \E s \in Slots, im \in Images : LinuxInstall(s, im)
         \/ \E s \in Slots : LinuxUninstall(s)
         \/ \E on \in BOOLEAN : LinuxStep(on)

Next == Arming \/ RestoreCpu \/ Handling \/ Linux

Spec == Init /\ [][Next]_vars

-----------------------------------------------------------------------------
ActiveStates == [state : States \ {"EMPTY"}, slot : Slots, saved : Images,
                 prog : Images, mode : Modes, target : Targets,
                 added_mde : BOOLEAN, added_mdscr_ss : BOOLEAN,
                 added_pstate_ss : BOOLEAN, forward_single_step : BOOLEAN]

(* Every variable has its type, and arming is under way exactly in the state  *)
(* SNAPSHOTTED.                                                               *)
TypeOK ==
    /\ owner \in [Slots -> BOOLEAN]
    /\ regs \in [Slots -> Images]
    /\ mdscr \in [ss : BOOLEAN, mde : BOOLEAN]
    /\ pstate_ss \in BOOLEAN
    /\ cpu \in ActiveStates \cup {EmptyState}
    /\ step \in {"idle", "value", "control", "mdscr"}
    /\ linux \in [Slots -> Images]
    /\ stepper \in BOOLEAN
    /\ contested \subseteq Slots /\ kept \in BOOLEAN
    /\ (step = "idle") <=> (cpu.state # "SNAPSHOTTED")

(* A slot Linux owns holds what Linux put there: the controller never steals, *)
(* disables or reuses it, whatever fails in the middle of its operations.     *)
LinuxSlotsUntouched == \A s \in Slots : owner[s] => regs[s] = linux[s]

(* Once the controller is EMPTY again (restored, or an arming rolled back),   *)
(* every slot Linux did not contend for is exactly as Linux left it.          *)
RestoredExactly ==
    cpu.state = "EMPTY" => \A s \in Slots \ contested : regs[s] = linux[s]

(* No comparator stays enabled without an owner once the controller is EMPTY: *)
(* an EL0 comparator never leaks to the next task.                            *)
NoLeakedComparator ==
    cpu.state = "EMPTY" => \A s \in Slots : regs[s].control.enable <=> owner[s]

(* Restoring MDSCR_EL1 never takes the monitor enable away from a slot Linux  *)
(* still owns, also when that slot was installed after arming.                *)
MonitorKeptForLinux == (\E s \in Slots : owner[s]) => mdscr.mde

(* The controller gives MDE back: EMPTY, it is set only for Linux, unless a   *)
(* slot that could not be read was taken for one that needs it.               *)
MonitorReturned ==
    cpu.state = "EMPTY" /\ ~kept => (mdscr.mde => \E s \in Slots : owner[s])

(* MDSCR_EL1.SS is what Linux wants except while a step is pending or the     *)
(* slot is quarantined, and the pending step is forwarded to Linux's handler  *)
(* exactly when Linux was stepping the task itself.                           *)
StepStateReturned ==
    /\ cpu.state \notin {"STEP_PENDING", "QUARANTINED"} => mdscr.ss = stepper
    /\ cpu.state = "STEP_PENDING" => cpu.forward_single_step = stepper

(* The slot agrees with the state (assert_model_invariants of test_debug.c):  *)
(* enabled when ARMED, disabled while a step is pending or a one-shot is done, *)
(* unless Linux contended for it.                                             *)
SlotAgreesWithState ==
    Own \notin contested =>
        /\ cpu.state = "ARMED" => regs[Own] = cpu.prog
        /\ cpu.state \in {"STEP_PENDING", "ONE_SHOT_DONE"} =>
              regs[Own] = [value |-> cpu.prog.value,
                           control |-> Disabled(cpu.prog.control)]

(* No blind overwrite: a step of the controller changes a slot only if the    *)
(* slot is unowned and is its own, and never changes one in QUARANTINED.      *)
NoBlindOverwrite ==
    [][\A s \in Slots : (regs'[s] # regs[s] /\ linux'[s] = linux[s]) =>
          /\ ~owner[s] /\ s = Own /\ cpu.state # "QUARANTINED"]_vars

-----------------------------------------------------------------------------
(* The inductive strengthening, when Linux cannot run in the middle of an     *)
(* arming: what the controller remembers of its slot, what the slot holds at  *)
(* each stage, and which step and monitor bits are the controller's.          *)
OtherSlots ==
    \A s \in Slots : s # Own =>
        /\ regs[s].control.enable <=> owner[s]
        /\ s \notin contested => regs[s] = linux[s]

Remembered ==
    cpu.state # "EMPTY" =>
        /\ ~cpu.saved.control.enable /\ cpu.prog.control.enable
        /\ cpu.state # "QUARANTINED" /\ Own \notin contested =>
              ~owner[Own] /\ cpu.saved = linux[Own]

ArmingSlot ==
    step # "idle" =>
        /\ ~owner[Own]
        /\ cpu.added_mde = ~mdscr.mde
        /\ regs[Own].value = IF step = "value" THEN cpu.saved.value ELSE cpu.prog.value
        /\ regs[Own].control = IF step = "mdscr" THEN cpu.prog.control
                                                 ELSE cpu.saved.control

AddedBits ==
    /\ cpu.added_mdscr_ss => cpu.state \in {"STEP_PENDING", "QUARANTINED"}
    /\ cpu.state = "STEP_PENDING" => cpu.added_mdscr_ss = ~stepper /\ mdscr.ss
    /\ ~kept /\ mdscr.mde =>
          \/ \E s \in Slots : owner[s]
          \/ cpu.added_mde /\ cpu.state # "SNAPSHOTTED"

IInv == /\ TypeOK /\ LinuxSlotsUntouched /\ MonitorKeptForLinux
        /\ StepStateReturned /\ SlotAgreesWithState
        /\ OtherSlots /\ Remembered /\ ArmingSlot /\ AddedBits
=============================================================================
