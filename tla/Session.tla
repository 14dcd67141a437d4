------------------------------ MODULE Session ------------------------------
(* Command line processes that use the kernel module one after the other     *)
(* (never two at a time): target preparation (kpm_integration.go), the breakpoint  *)
(* module KPMBRK (kpm_brk.go) and the client they call (client.go), against   *)
(* the requests of control.c and async.c.  Every control command is a process *)
(* of its own (ExecRunner): it may fail before the command was executed, or   *)
(* after it, when the answer is lost.  A command line process may be killed.  *)
(* Of the kernel module, each command is one step (Kpm has the details).      *)
EXTENDS Naturals, Sequences

CONSTANT MaxHits \* bound: records between two resets of the ring

ASSUME SessionAssumption == MaxHits \in Nat

VARIABLES
    client, \* the process: Client, KPMBRK and how far it is
    kpm     \* the kernel module: binding, breakpoint, request slot, ring

vars == <<client, kpm>>

-----------------------------------------------------------------------------
(* Enough numbers for one that neither the slot nor the client remembers. *)
MaxId == 3

(* The process.  pc names the call in progress; request # 0: its request was  *)
(* accepted and waitRequestLocked waits for it.  phase: "prepare" is          *)
(* IdentityFromKPM and the maps, "finish" clearKPMPreparationBinding,         *)
(* "abandon" clearFailedBinding, "start" Start, "cleanup" cleanup.            *)
NewClient(phase) ==
    [pc |-> "status", phase |-> phase, ready |-> FALSE, profileValidated |-> FALSE,
     expired |-> FALSE, request |-> 0, after |-> 0, polling |-> FALSE, err |-> FALSE]

Ended == {"end", "killed"}

(* by is history: "self" for this process, "past" for an earlier one. *)
NoRequest == [id |-> 0, op |-> "none", state |-> "FREE", ok |-> TRUE, by |-> "none"]

(* "dead" stands for exited and stale.  owner, armed and the elements of hits *)
(* are history: who set the binding, enabled the breakpoint, caused the hit.  *)
EmptyModule ==
    [binding |-> "none", task |-> FALSE, configured |-> FALSE, enabled |-> FALSE,
     async |-> NoRequest, hits |-> <<>>, consumer |-> 0, owner |-> "none", armed |-> "none"]

Init ==
    /\ client = [NewClient("start") EXCEPT !.pc = "end"]
    /\ kpm = EmptyModule

-----------------------------------------------------------------------------
(* What a command does: the set of [kpm, ok, request, hit] it may result in.  *)
Answer(k, request, hit) == [kpm |-> k, ok |-> TRUE, request |-> request, hit |-> hit]

Refused(k) == [kpm |-> k, ok |-> FALSE, request |-> 0, hit |-> 0]

Busy == kpm.async.state \in {"PENDING", "RUNNING"}

(* spz_async_next_id: a number nobody remembers. *)
NextId ==
    CHOOSE i \in 1 .. MaxId : i # kpm.async.id /\ i # client.request

(* spz_async_submit: refused while busy; otherwise the slot is taken, and     *)
(* freed again when the work cannot be queued.                                *)
Submit(by, op) ==
    IF Busy THEN {Refused(kpm)}
    ELSE LET slot(state) == [kpm EXCEPT !.async =
                 [id |-> NextId, op |-> op, state |-> state, ok |-> FALSE, by |-> by]]
         IN {Answer(slot("PENDING"), NextId, 0), Refused(slot("DONE"))}

(* spz_control_bind; spz_binding_set may be refused as well. *)
SetBinding ==
    IF Busy \/ kpm.task \/ kpm.configured THEN {Refused(kpm)}
    ELSE {Refused(kpm), Answer([kpm EXCEPT !.binding = "pending", !.owner = "self"], 0, 0)}

(* spz_control_break *)
SetBreakpoint ==
    IF Busy \/ kpm.enabled \/ kpm.binding = "none" THEN {Refused(kpm)}
    ELSE {Answer([kpm EXCEPT !.configured = TRUE], 0, 0)}

(* SPZ_COMMAND_DISABLE: answered at once when nothing is enabled. *)
SubmitDisable ==
    IF ~kpm.enabled THEN {Answer(kpm, 0, 0)} ELSE Submit("self", "disable")

(* spz_ring_pop_after *)
PopAfter(after) ==
    IF after < kpm.consumer \/ after > Len(kpm.hits) THEN {Refused(kpm)}
    ELSE IF after = Len(kpm.hits) THEN {Answer([kpm EXCEPT !.consumer = after], 0, 0)}
    ELSE {Answer([kpm EXCEPT !.consumer = after + 1], 0, after + 1)}

(* ExecRunner.Control: the answer, or when the call fails (lost) none, with    *)
(* the command executed or not.  It is not when the context has expired or the *)
(* client is not ready.                                                        *)
Control(lost, allowed, results) ==
    IF ~allowed \/ client.expired THEN {Refused(kpm)}
    ELSE IF lost THEN {Refused(r.kpm) : r \in results} \cup {Refused(kpm)}
    ELSE results

-----------------------------------------------------------------------------
(* Where a process goes when the call it is in has returned. *)
Goto(s, pc, phase) == [s EXCEPT !.pc = pc, !.phase = phase, !.request = 0,
                                !.expired = @ /\ phase = s.phase]

(* Mutant: an error of the last command is not reported. *)
EndQuietly(s, failed) == Goto(s, "end", s.phase)

End(s, failed) == [Goto(s, "end", s.phase) EXCEPT !.err = @ \/ failed]

(* clearFailedBinding, failStart *)
Fail(s) == IF s.phase = "prepare" THEN Goto(s, "clear", "abandon")
           ELSE Goto(s, "disable", "cleanup")

(* Start, IdentityFromKPM and cleanup; a preparation that succeeded is        *)
(* followed by Init of the breakpoint module, with a client of its own.       *)
Proceed(s, ok) ==
    CASE s.pc = "status" -> IF ok THEN Goto(s, "bind", s.phase) ELSE End(s, FALSE)
      [] s.pc = "bind" -> IF ok THEN Goto(s, "bound", s.phase) ELSE Fail(s)
      [] s.pc = "bound" ->
           IF ~ok THEN Fail(s)
           ELSE Goto(s, IF s.phase = "prepare" THEN "maps" ELSE "break", s.phase)
      [] s.pc = "maps" -> Goto(s, "clear", "finish")
      [] s.pc = "break" -> IF ok THEN Goto(s, "enable", s.phase) ELSE Fail(s)
      [] s.pc = "enable" ->
           IF ok THEN [Goto(s, "run", s.phase) EXCEPT !.polling = TRUE] ELSE Fail(s)
      [] s.pc = "disable" -> [Goto(s, "clear", s.phase) EXCEPT !.err = ~ok]
      [] s.pc = "clear" ->
           IF s.phase = "finish" /\ ok THEN NewClient("start") ELSE End(s, ~ok)

(* statusLocked: what the client knows after a status command. *)
Known(s, ok) == [s EXCEPT !.ready = ok, !.profileValidated = @ \/ ok]

-----------------------------------------------------------------------------
(* A process starts: with KPM target preparation or without.  What the last   *)
(* process left behind is no longer its own.                     *)
Rename(o) == IF o = "self" THEN "past" ELSE o

Begin ==
    /\ client.pc \in Ended
    /\ \E phase \in {"prepare", "start"} : client' = NewClient(phase)
    /\ kpm' = [kpm EXCEPT !.owner = Rename(@), !.armed = Rename(@),
                          !.async.by = Rename(@),
                          !.hits = [i \in DOMAIN @ |-> Rename(@[i])]]

(* Client.Status *)
Status(lost) ==
    /\ client.pc = "status"
    /\ \E r \in Control(lost, TRUE, {Answer(kpm, 0, 0)}) :
          client' = Proceed(Known(client, r.ok), r.ok)
    /\ UNCHANGED kpm

(* Client.Bind *)
Bind(lost) ==
    /\ client.pc = "bind"
    /\ \E r \in Control(lost, client.ready, SetBinding) :
          kpm' = r.kpm /\ client' = Proceed(client, r.ok)

(* Client.WaitBound: once round the loop, and its context expiring. *)
WaitBound(lost) ==
    /\ client.pc = "bound"
    /\ \E r \in Control(lost, TRUE, {Answer(kpm, 0, 0)}) :
          LET s == Known(client, r.ok)
          IN client' = IF r.ok /\ kpm.binding \in {"none", "pending"} THEN s
                       ELSE Proceed(s, r.ok /\ kpm.binding = "bound")
    /\ UNCHANGED kpm

WaitBoundTimeout ==
    /\ client.pc = "bound"
    /\ client' = Proceed(client, FALSE)
    /\ UNCHANGED kpm

(* Client.ConfigureBreakpoint *)
ConfigureBreakpoint(lost) ==
    /\ client.pc = "break"
    /\ \E r \in Control(lost, client.ready, SetBreakpoint) :
          kpm' = r.kpm /\ client' = Proceed(client, r.ok)

(* submitAsyncLocked from SnapshotMaps, Enable, Disable and Clear: request 0  *)
(* is success, any other is waited for.                                       *)
Await(r) == IF r.ok /\ r.request # 0 THEN [client EXCEPT !.request = r.request]
            ELSE Proceed(client, r.ok)

Async(lost) ==
    LET s == client IN
    /\ s.pc \in {"maps", "enable", "disable", "clear"} /\ s.request = 0
    /\ \E r \in Control(lost, IF s.pc = "clear" THEN s.profileValidated ELSE s.ready,
                        IF s.pc = "disable" THEN SubmitDisable ELSE Submit("self", s.pc)) :
          kpm' = r.kpm /\ client' = Await(r)

(* Mutant: a request that is done and has failed is waited for again. *)
WaitRequestSuccess(lost) ==
    /\ client.request # 0
    /\ \E r \in Control(lost, TRUE, {Answer(kpm, 0, 0)}) :
          LET s == Known(client, r.ok)
              mine == kpm.async.id = s.request
          IN client' = IF r.ok /\ mine /\ ~kpm.async.ok THEN s
                       ELSE Proceed(s, r.ok /\ mine)
    /\ UNCHANGED kpm

(* Client.waitRequestLocked: once round the loop. *)
WaitRequest(lost) ==
    /\ client.request # 0
    /\ \E r \in Control(lost, TRUE, {Answer(kpm, 0, 0)}) :
          LET s == Known(client, r.ok)
              mine == kpm.async.id = s.request
          IN client' = IF r.ok /\ mine /\ Busy THEN s
                       ELSE Proceed(s, r.ok /\ mine /\ kpm.async.ok)
    /\ UNCHANGED kpm

(* The context of cleanup or clearFailedBinding expires: the wait ends and no *)
(* further command of that context is executed.                               *)
Expire ==
    /\ client.request # 0 /\ client.phase \in {"cleanup", "abandon"}
    /\ client' = Proceed([client EXCEPT !.expired = TRUE], FALSE)
    /\ UNCHANGED kpm

(* KPMBRK.poll, once round the loop: the first error ends it. *)
Poll(lost) ==
    /\ client.pc = "run" /\ client.polling
    /\ \E r \in Control(lost, client.ready, PopAfter(client.after)) :
          /\ kpm' = r.kpm
          /\ client' = IF ~r.ok THEN [client EXCEPT !.polling = FALSE]
                       ELSE IF r.hit = 0 THEN client
                       ELSE [client EXCEPT !.after = r.hit]

(* KPMBRK.Close: the poll goroutine has ended before cleanup. *)
Close ==
    /\ client.pc = "run"
    /\ client' = [Goto(client, "disable", "cleanup") EXCEPT !.polling = FALSE]
    /\ UNCHANGED kpm

(* The process is killed, or interrupted before it handles signals. *)
Kill ==
    /\ client.pc \notin Ended
    /\ client' = [client EXCEPT !.pc = "killed", !.request = 0, !.polling = FALSE]
    /\ UNCHANGED kpm

(* An operator's AUDIT from a shell beside the processes (KPM_FORENSICS.md). *)
Audit ==
    /\ \E r \in Submit("none", "audit") : kpm' = r.kpm
    /\ UNCHANGED client

-----------------------------------------------------------------------------
(* The kernel's worker: spz_async_run and spz_module_async_execute. *)
Done(k, ok) == [k EXCEPT !.async.state = "DONE", !.async.ok = ok]

(* Mutant: ENABLE returns 0 when there is nothing to enable. *)
NotEnabledButFine(k) == Done(k, TRUE)

(* -ENOENT, -EAGAIN *)
NotEnabled(k) == Done(k, FALSE)

(* The request is taken; ENABLE is refused unless configured and bound.       *)
RunBegin ==
    /\ kpm.async.state = "PENDING"
    /\ LET k == [kpm EXCEPT !.async.state = "RUNNING"] IN
       \/ /\ kpm.async.op = "enable" /\ kpm.configured /\ kpm.binding = "bound"
          /\ kpm' = [k EXCEPT !.enabled = TRUE, !.armed = kpm.async.by]
       \/ /\ kpm.async.op = "enable" /\ ~(kpm.configured /\ kpm.binding = "bound")
          /\ kpm' = NotEnabled(kpm)
       \/ kpm.async.op \in {"disable", "clear"} /\ kpm' = [k EXCEPT !.enabled = FALSE]
       \/ kpm.async.op \in {"maps", "audit"} /\ kpm' = k
    /\ UNCHANGED client

(* Mutants: CLEAR keeps the old hits, or the consumer's cursor. *)
ClearedKeepsHits(k) ==
    [k EXCEPT !.binding = "none", !.task = FALSE, !.configured = FALSE,
              !.consumer = 0, !.owner = "none", !.armed = "none"]

(* CLEAR: the maps, the binding, the breakpoint and the ring. *)
Cleared(k) ==
    [k EXCEPT !.binding = "none", !.task = FALSE, !.configured = FALSE,
              !.hits = <<>>, !.consumer = 0, !.owner = "none", !.armed = "none"]

(* The request ends: a CPU cannot be reached, a handler does not leave, the    *)
(* maps or the binding are busy (with the retained task released or not), the  *)
(* target has no memory; or it succeeds.  AUDIT may add what it found.         *)
RunEnd ==
    /\ kpm.async.state = "RUNNING"
    /\ \/ kpm.async.op = "enable"
          /\ kpm' \in {Done(kpm, TRUE), Done([kpm EXCEPT !.enabled = FALSE], FALSE)}
       \/ kpm.async.op = "clear"
          /\ kpm' \in {Done(Cleared(kpm), TRUE), Done(kpm, FALSE),
                       Done([kpm EXCEPT !.task = FALSE], FALSE)}
       \/ kpm.async.op \in {"maps", "disable", "audit"}
          /\ \E ok \in BOOLEAN : kpm' = Done(kpm, ok)
       \/ kpm.async.op = "audit" /\ Len(kpm.hits) < MaxHits
          /\ \E ok \in BOOLEAN : kpm' = Done([kpm EXCEPT !.hits = Append(@, "none")], ok)
    /\ UNCHANGED client

(* The target is scheduled: it is bound, and retained unless that fails. *)
Observe ==
    /\ kpm.binding \in {"pending", "bound"}
    /\ \E task \in {kpm.task, TRUE} : kpm' = [kpm EXCEPT !.binding = "bound", !.task = task]
    /\ UNCHANGED client

(* The target exits, or its PID is reused. *)
Exit ==
    /\ kpm.binding = "bound"
    /\ kpm' = [kpm EXCEPT !.binding = "dead"]
    /\ UNCHANGED client

(* The target hits the breakpoint: a one-shot one is then disabled. *)
Hit ==
    /\ kpm.enabled /\ kpm.binding = "bound" /\ Len(kpm.hits) < MaxHits
    /\ \E enabled \in BOOLEAN :
          kpm' = [kpm EXCEPT !.hits = Append(@, kpm.armed), !.enabled = enabled]
    /\ UNCHANGED client

(* A callback reports that the binding or the registers are not as expected. *)
PublishIntegrity ==
    /\ Len(kpm.hits) < MaxHits
    /\ kpm' = [kpm EXCEPT !.hits = Append(@, "none")]
    /\ UNCHANGED client

Step(lost) ==
    \/ Status(lost) \/ Bind(lost) \/ WaitBound(lost)
    \/ ConfigureBreakpoint(lost) \/ Async(lost) \/ WaitRequest(lost)

Worker == RunBegin \/ RunEnd

Next ==
    \/ \E lost \in BOOLEAN : Step(lost) \/ Poll(lost)
    \/ Begin \/ WaitBoundTimeout \/ Expire \/ Close \/ Kill
    \/ Audit \/ Worker \/ Observe \/ Exit \/ Hit \/ PublishIntegrity

Spec == Init /\ [][Next]_vars

(* Goroutines and work items that can go on do, and the timers go off; no      *)
(* call needs to fail, and nothing is assumed of the user or the target.       *)
Fairness ==
    /\ WF_vars(Worker) /\ WF_vars(Step(FALSE))
    /\ WF_vars(WaitBoundTimeout) /\ WF_vars(Expire)

FairSpec == Spec /\ Fairness

-----------------------------------------------------------------------------
(* A process that ended without an error of cleanup, clearFailedBinding or     *)
(* clearKPMPreparationBinding has left nothing of its own in the module: no    *)
(* binding, no breakpoint and no request that could still enable one, whatever *)
(* answers were lost.                                                          *)
CleanClose ==
    client.pc = "end" /\ ~client.err =>
        /\ kpm.owner # "self" /\ kpm.armed # "self"
        /\ ~(Busy /\ kpm.async.by = "self")

(* When Start has returned nil, the breakpoint is configured and was enabled   *)
(* by the process's own request, on the binding it set, even when a killed     *)
(* process left a request or a binding behind.                                 *)
StartedOnOwn ==
    client.pc = "run" =>
        /\ kpm.owner = "self" /\ kpm.armed = "self" /\ kpm.configured
        /\ kpm.binding \in {"bound", "dead"}

(* What the process can poll are hits of its own breakpoint and what the       *)
(* module reports itself, never a hit an earlier process left in the ring.     *)
OwnEvents ==
    client.pc = "run" => \A i \in DOMAIN kpm.hits : kpm.hits[i] # "past"

(* Start, preparation and cleanup return: a process gets to the poll loop or   *)
(* ends.                                                                       *)
SessionSettles == client.pc \notin Ended ~> client.pc \in Ended \cup {"run"}

-----------------------------------------------------------------------------
(* The inductive invariant behind the three. *)
Pcs == {"status", "bind", "bound", "maps", "break", "enable", "run", "disable", "clear"}
         \cup Ended

Who == {"none", "self", "past"}

ClientType ==
    [pc : Pcs, phase : {"prepare", "finish", "abandon", "start", "cleanup"},
     ready : BOOLEAN, profileValidated : BOOLEAN, expired : BOOLEAN, request : Nat,
     after : Nat, polling : BOOLEAN, err : BOOLEAN]

RequestType ==
    [id : Nat, op : {"none", "maps", "enable", "disable", "clear", "audit"},
     state : {"FREE", "PENDING", "RUNNING", "DONE"}, ok : BOOLEAN, by : Who]

ModuleType ==
    [binding : {"none", "pending", "bound", "dead"}, task : BOOLEAN, configured : BOOLEAN,
     enabled : BOOLEAN, async : RequestType, hits : Seq(Who), consumer : Nat, owner : Who,
     armed : Who]

Typed == client \in ClientType /\ kpm \in ModuleType

(* The request in the slot is the one the process waits for. *)
Awaited == client.request # 0 /\ kpm.async.id = client.request

(* Nothing in the module is the process's. *)
Clean == /\ kpm.owner # "self" /\ kpm.armed # "self"
         /\ ~(Busy /\ kpm.async.by = "self")

(* The slot answers for the request it was given for, ... *)
OwnRequest ==
    /\ client.request # 0 => client.pc \in {"maps", "enable", "disable", "clear"}
    /\ Awaited => kpm.async.by = "self" /\ kpm.async.op = client.pc
    /\ Awaited /\ client.pc = "clear" /\ kpm.async.state = "DONE" /\ kpm.async.ok
         => kpm.owner # "self" /\ kpm.armed # "self"
    /\ Awaited /\ client.pc = "enable"
         => \/ kpm.async.state = "PENDING" \/ kpm.armed = "self"
            \/ kpm.async.state = "DONE" /\ ~kpm.async.ok
    /\ Awaited => kpm.async.state # "FREE"

(* ... only a configured breakpoint has hits, as only CLEAR takes both away, ... *)
HitsConfigured ==
    ~kpm.configured => kpm.armed = "none" /\ \A i \in DOMAIN kpm.hits : kpm.hits[i] = "none"

(* ... before it binds, and once its CLEAR has succeeded, a process has        *)
(* nothing in the module, ...                                                  *)
NothingYet == client.pc \in {"status", "bind"} \/ (client.pc = "end" /\ ~client.err) => Clean

(* ... and from its bind on the module is its own: no request of a past        *)
(* process is left to be executed, and its own come one at a time.             *)
Holding ==
    client.pc \in {"bound", "break", "enable", "run"} =>
        /\ kpm.owner = "self" /\ kpm.armed # "past" /\ kpm.binding # "none"
        /\ \A i \in DOMAIN kpm.hits : kpm.hits[i] # "past"
        /\ Busy => \/ kpm.async.op = "audit"
                   \/ client.pc = "enable" /\ kpm.async.op = "enable" /\ kpm.async.by = "self"
        /\ client.pc # "bound" => kpm.binding \in {"bound", "dead"}
        /\ client.pc \in {"enable", "run"} => kpm.configured
        /\ client.pc = "run" => kpm.armed = "self"

IInv == Typed /\ OwnRequest /\ HitsConfigured /\ NothingYet /\ Holding
=============================================================================
