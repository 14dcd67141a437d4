---------------------------- MODULE SessionProofs ----------------------------
(* Proofs about Session: what a process has in the module, and what of an     *)
(* earlier process can reach it, whatever calls fail, answers are lost and    *)
(* processes are killed.                                                      *)
EXTENDS Session, Command, TLAPS

(* A call has returned; only phases that began with one another share what    *)
(* has expired.                                                               *)
Phases == {"prepare", "finish", "abandon", "start", "cleanup"}

LEMMA Went ==
  ASSUME NEW s \in ClientType, NEW pc \in Pcs, NEW phase \in Phases
  PROVE  LET p == Goto(s, pc, phase) IN
         p \in ClientType /\ p.pc = pc /\ p.phase = phase /\ p.request = 0 /\ p.err = s.err
  <1>1. ASSUME NEW b \in BOOLEAN
        PROVE  LET p == [s EXCEPT !.pc = pc, !.phase = phase, !.request = 0, !.expired = b] IN
               /\ p \in ClientType /\ p.pc = pc /\ p.phase = phase /\ p.request = 0
               /\ p.err = s.err
    BY <1>1, Zenon DEF ClientType, Phases
  <1>2. (s.expired /\ phase = s.phase) \in BOOLEAN
    BY Zenon
  <1>3. Goto(s, pc, phase)
          = [s EXCEPT !.pc = pc, !.phase = phase, !.request = 0,
                      !.expired = (s.expired /\ phase = s.phase)]
    BY Zenon DEF Goto
  <1> QED
    BY <1>1, <1>2, <1>3, Zenon

(* The error of the last call is remembered. *)
LEMMA Errs ==
  ASSUME NEW s \in ClientType, NEW err \in BOOLEAN
  PROVE  LET p == [s EXCEPT !.err = err] IN
         p \in ClientType /\ p.pc = s.pc /\ p.request = s.request /\ p.err = err
  BY Zenon DEF ClientType

(* A process ends. *)
LEMMA Ends ==
  ASSUME NEW s \in ClientType, NEW failed \in BOOLEAN
  PROVE  LET p == End(s, failed) IN
         p \in ClientType /\ p.pc = "end" /\ p.request = 0 /\ (failed => p.err)
  <1> DEFINE g == Goto(s, "end", s.phase)
  <1>1. s.phase \in Phases /\ "end" \in Pcs
    BY Zenon DEF ClientType, Pcs, Ended, Phases
  <1>2. g \in ClientType /\ g.pc = "end" /\ g.request = 0
    BY <1>1, Went, ZenonT(60)
  <1>3. End(s, failed) = [g EXCEPT !.err = (g.err \/ failed)]
    BY Zenon DEF End
  <1>4. (g.err \/ failed) \in BOOLEAN /\ (failed => (g.err \/ failed))
    BY Zenon
  <1> HIDE DEF g
  <1> QED
    BY <1>2, <1>3, <1>4, Errs, ZenonT(30)

(* A process gives up and cleans up. *)
LEMMA Fails ==
  ASSUME NEW s \in ClientType
  PROVE  LET p == Fail(s) IN
         p \in ClientType /\ p.pc \in {"clear", "disable"} /\ p.request = 0
  <1>1. {"clear", "disable"} \subseteq Pcs /\ {"abandon", "cleanup"} \subseteq Phases
    BY Zenon DEF Pcs, Phases
  <1>2. Fail(s) = Goto(s, "clear", "abandon") \/ Fail(s) = Goto(s, "disable", "cleanup")
    BY Zenon DEF Fail
  <1>3. /\ "clear" \in Pcs /\ "disable" \in Pcs
        /\ "abandon" \in Phases /\ "cleanup" \in Phases
    BY <1>1, Zenon
  <1> QED
    BY <1>2, <1>3, Went

(* Where a call that has returned leads, and what it needs to have returned.  *)
LEMMA Proceeds ==
  ASSUME NEW s \in ClientType, NEW ok \in BOOLEAN, s.pc \notin Ended \cup {"run"}
  PROVE  LET p == Proceed(s, ok) IN
         /\ p \in ClientType /\ p.request = 0 /\ p.pc # "killed"
         /\ p.pc = "status" => s.pc = "clear" /\ ok
         /\ p.pc = "bind" => s.pc = "status"
         /\ p.pc = "bound" => s.pc = "bind" /\ ok
         /\ p.pc = "break" => s.pc = "bound" /\ ok
         /\ p.pc = "enable" => s.pc = "break" /\ ok
         /\ p.pc = "run" => s.pc = "enable" /\ ok
         /\ p.pc = "end" /\ ~p.err => s.pc = "status" \/ (s.pc = "clear" /\ ok)
  <1> DEFINE p == Proceed(s, ok)
  <1>0. /\ s.phase \in Phases /\ "finish" \in Phases /\ FALSE \in BOOLEAN /\ (~ok) \in BOOLEAN
        /\ "bind" \in Pcs /\ "bound" \in Pcs /\ "maps" \in Pcs /\ "break" \in Pcs
        /\ "enable" \in Pcs /\ "run" \in Pcs /\ "clear" \in Pcs
    BY Zenon DEF ClientType, Pcs, Phases
  <1> DEFINE Leads(q, pc) == q \in ClientType /\ q.pc = pc /\ q.request = 0
  <1>11. ASSUME NEW pc \in Pcs, NEW phase \in Phases PROVE Leads(Goto(s, pc, phase), pc)
    BY Went
  <1> HIDE DEF Leads
  <1>9. /\ Leads(Goto(s, "bind", s.phase), "bind") /\ Leads(Goto(s, "bound", s.phase), "bound")
        /\ Leads(Goto(s, "maps", s.phase), "maps") /\ Leads(Goto(s, "break", s.phase), "break")
        /\ Leads(Goto(s, "enable", s.phase), "enable") /\ Leads(Goto(s, "run", s.phase), "run")
        /\ Leads(Goto(s, "clear", s.phase), "clear") /\ Leads(Goto(s, "clear", "finish"), "clear")
    BY <1>0, <1>11, Zenon
  <1> USE DEF Leads
  <1>10. /\ Leads(End(s, FALSE), "end") /\ Leads(End(s, ~ok), "end") /\ (~ok => End(s, ~ok).err)
         /\ Leads(Fail(s), "clear") \/ Leads(Fail(s), "disable")
    BY <1>0, Ends, Fails, Zenon
  <1>1. CASE s.pc = "status"
    <2>1. p = Goto(s, "bind", s.phase) \/ p = End(s, FALSE)
      BY <1>1, Zenon DEF Proceed
    <2> QED
      BY <1>1, <1>9, <1>10, <2>1, Zenon
  <1>2. CASE s.pc = "bind"
    <2>1. (ok /\ p = Goto(s, "bound", s.phase)) \/ p = Fail(s)
      BY <1>2, Zenon DEF Proceed
    <2> QED
      BY <1>2, <1>9, <1>10, <2>1, Zenon
  <1>3. CASE s.pc = "bound"
    <2>1. \/ p = Fail(s)
          \/ ok /\ (p = Goto(s, "maps", s.phase) \/ p = Goto(s, "break", s.phase))
      BY <1>3, Zenon DEF Proceed
    <2> QED
      BY <1>3, <1>9, <1>10, <2>1, Zenon
  <1>4. CASE s.pc = "maps"
    <2>1. p = Goto(s, "clear", "finish")
      BY <1>4, Zenon DEF Proceed
    <2> QED
      BY <1>4, <1>9, <2>1, Zenon
  <1>5. CASE s.pc = "break"
    <2>1. (ok /\ p = Goto(s, "enable", s.phase)) \/ p = Fail(s)
      BY <1>5, Zenon DEF Proceed
    <2> QED
      BY <1>5, <1>9, <1>10, <2>1, Zenon
  <1>6. CASE s.pc = "enable"
    <2>1. (ok /\ p = [Goto(s, "run", s.phase) EXCEPT !.polling = TRUE]) \/ p = Fail(s)
      BY <1>6, Zenon DEF Proceed
    <2> DEFINE g == Goto(s, "run", s.phase)
    <2>2. g \in ClientType /\ g.pc = "run" /\ g.request = 0
      BY <1>9, Zenon
    <2> HIDE DEF g
    <2>3. LET q == [g EXCEPT !.polling = TRUE]
          IN  q \in ClientType /\ q.pc = "run" /\ q.request = 0
      BY <2>2, Zenon DEF ClientType
    <2> QED
      BY <1>6, <1>10, <2>1, <2>3, Zenon DEF g
  <1>7. CASE s.pc = "disable"
    <2> DEFINE g == Goto(s, "clear", s.phase)
    <2>1. p = [g EXCEPT !.err = ~ok]
      BY <1>7, Zenon DEF Proceed
    <2>2. g \in ClientType /\ g.pc = "clear" /\ g.request = 0
      BY <1>9, Zenon
    <2> HIDE DEF g
    <2>3. p \in ClientType /\ p.pc = "clear" /\ p.request = 0
      BY <1>0, <2>1, <2>2, Errs, Zenon
    <2> QED
      BY <2>3, Zenon
  <1>8. CASE s.pc = "clear"
    <2>1. (ok /\ p = NewClient("start")) \/ p = End(s, ~ok)
      BY <1>8, Zenon DEF Proceed
    <2>2. NewClient("start") \in ClientType /\ NewClient("start").pc = "status"
            /\ NewClient("start").request = 0
      BY Zenon DEF NewClient, ClientType, Pcs
    <2> QED
      BY <1>8, <1>10, <2>1, <2>2, Zenon
  <1> QED
    BY <1>1, <1>2, <1>3, <1>4, <1>5, <1>6, <1>7, <1>8, Zenon DEF ClientType, Pcs, Ended

(* A call: what a command results in, or no answer with it executed or not.   *)
LEMMA Controlled ==
  ASSUME NEW lost \in BOOLEAN, NEW allowed, NEW results, NEW r \in Control(lost, allowed, results)
  PROVE  \/ r \in results
         \/ r = Refused(kpm)
         \/ \E q \in results : r = Refused(q.kpm)
  BY Zenon DEF Control

(* A status command changes nothing. *)
LEMMA StatusAnswer ==
  ASSUME NEW lost \in BOOLEAN, NEW r \in Control(lost, TRUE, {Answer(kpm, 0, 0)})
  PROVE  r.ok \in BOOLEAN /\ (r = Answer(kpm, 0, 0) \/ r = Refused(kpm))
  <1>1. Answer(kpm, 0, 0).kpm = kpm
    BY Zenon DEF Answer
  <1>2. r = Answer(kpm, 0, 0) \/ r = Refused(kpm)
    BY <1>1, Zenon DEF Control
  <1>3. Answer(kpm, 0, 0).ok = TRUE /\ Refused(kpm).ok = FALSE
    BY Zenon DEF Answer, Refused
  <1> QED
    BY <1>2, <1>3, Zenon

-----------------------------------------------------------------------------
(* One record more. *)
LEMMA Appended ==
  ASSUME NEW h \in Seq(Who), NEW w \in Who
  PROVE  /\ Append(h, w) \in Seq(Who)
         /\ \A i \in DOMAIN Append(h, w) :
              Append(h, w)[i] = w \/ (i \in DOMAIN h /\ Append(h, w)[i] = h[i])
  OBVIOUS

(* The fields of the module. *)
LEMMA ModuleFields ==
  ASSUME Typed
  PROVE  /\ kpm.binding \in {"none", "pending", "bound", "dead"} /\ kpm.async \in RequestType
         /\ kpm.hits \in Seq(Who) /\ kpm.owner \in Who /\ kpm.armed \in Who /\ kpm.consumer \in Nat
  BY Zenon DEF Typed, ModuleType

(* The target runs and exits, records are added: what belongs to whom, and    *)
(* the request, stay.                                                         *)
LEMMA Recorded ==
  ASSUME IInv, UNCHANGED client, kpm' \in ModuleType, kpm'.async = kpm.async,
         kpm'.owner = kpm.owner, kpm'.armed = kpm.armed, kpm'.configured = kpm.configured,
         \/ kpm'.binding = kpm.binding
         \/ kpm.binding # "none" /\ kpm'.binding \in {"bound", "dead"},
         \/ kpm'.hits = kpm.hits
         \/ kpm'.hits = Append(kpm.hits, "none")
         \/ kpm'.hits = Append(kpm.hits, kpm.armed)
  PROVE  IInv'
  <1>1. Typed'
    BY Zenon DEF IInv, Typed
  <1>2. OwnRequest'
    BY Zenon DEF IInv, OwnRequest, Awaited
  <1>3. NothingYet'
    BY Zenon DEF IInv, NothingYet, Clean, Busy
  <1>4. kpm.hits \in Seq(Who) /\ kpm.armed \in Who /\ "none" \in Who
    BY ModuleFields, Zenon DEF IInv, Who
  <1>5. \A i \in DOMAIN kpm'.hits :
           \/ kpm'.hits[i] \in {"none", kpm.armed}
           \/ i \in DOMAIN kpm.hits /\ kpm'.hits[i] = kpm.hits[i]
    <2>1. ASSUME NEW w \in Who, kpm'.hits = Append(kpm.hits, w), NEW i \in DOMAIN kpm'.hits
          PROVE  kpm'.hits[i] = w \/ (i \in DOMAIN kpm.hits /\ kpm'.hits[i] = kpm.hits[i])
      BY <1>4, <2>1
    <2> QED
      BY <1>4, <2>1, Zenon
  <1>6. HitsConfigured'
    BY <1>5, Zenon DEF IInv, HitsConfigured
  <1>7. Holding'
    BY <1>5, Zenon DEF IInv, Holding, Busy
  <1> QED
    BY <1>1, <1>2, <1>3, <1>6, <1>7, Zenon DEF IInv

(* What the target and the callbacks do. *)
LEMMA TargetKeeps == ASSUME IInv, Observe \/ Exit \/ Hit \/ PublishIntegrity PROVE IInv'
  <1> USE DEF IInv, Typed
  <1>1. CASE Observe
    <2>1. PICK task \in {kpm.task, TRUE} : kpm' = [kpm EXCEPT !.binding = "bound", !.task = task]
      BY <1>1, Zenon DEF Observe
    <2>2. task \in BOOLEAN
      BY <2>1, Zenon DEF ModuleType
    <2>3. /\ kpm' \in ModuleType /\ kpm'.async = kpm.async /\ kpm'.owner = kpm.owner
          /\ kpm'.armed = kpm.armed /\ kpm'.configured = kpm.configured
          /\ kpm'.binding = "bound" /\ kpm'.hits = kpm.hits
      BY <2>1, <2>2, Zenon DEF ModuleType
    <2>4. kpm.binding # "none" /\ UNCHANGED client
      BY <1>1, Zenon DEF Observe
    <2> QED
      BY <2>3, <2>4, Recorded, Zenon
  <1>2. CASE Exit
    <2>1. /\ kpm' \in ModuleType /\ kpm'.async = kpm.async /\ kpm'.owner = kpm.owner
          /\ kpm'.armed = kpm.armed /\ kpm'.configured = kpm.configured
          /\ kpm'.binding = "dead" /\ kpm'.hits = kpm.hits
      BY <1>2, Zenon DEF ModuleType, Exit
    <2> QED
      BY <1>2, <2>1, Recorded, Zenon DEF Exit
  <1>3. CASE Hit
    <2>1. PICK enabled \in BOOLEAN :
            kpm' = [kpm EXCEPT !.hits = Append(@, kpm.armed), !.enabled = enabled]
      BY <1>3, Zenon DEF Hit
    <2>2. Append(kpm.hits, kpm.armed) \in Seq(Who)
      BY ModuleFields, Appended, Zenon
    <2>3. /\ kpm' \in ModuleType /\ kpm'.async = kpm.async /\ kpm'.owner = kpm.owner
          /\ kpm'.armed = kpm.armed /\ kpm'.configured = kpm.configured
          /\ kpm'.binding = kpm.binding /\ kpm'.hits = Append(kpm.hits, kpm.armed)
      BY <2>1, <2>2, Zenon DEF ModuleType
    <2> QED
      BY <1>3, <2>3, Recorded, Zenon DEF Hit
  <1>4. CASE PublishIntegrity
    <2>1. Append(kpm.hits, "none") \in Seq(Who)
      BY ModuleFields, Appended, Zenon DEF Who
    <2>2. /\ kpm' \in ModuleType /\ kpm'.async = kpm.async /\ kpm'.owner = kpm.owner
          /\ kpm'.armed = kpm.armed /\ kpm'.configured = kpm.configured
          /\ kpm'.binding = kpm.binding /\ kpm'.hits = Append(kpm.hits, "none")
      BY <1>4, <2>1, Zenon DEF ModuleType, PublishIntegrity
    <2> QED
      BY <1>4, <2>2, Recorded, Zenon DEF PublishIntegrity
  <1> QED
    BY <1>1, <1>2, <1>3, <1>4, Zenon

-----------------------------------------------------------------------------
(* A request that is executed changes its own state, and no more than that in *)
(* what belongs to whom; CLEAR, if this is one, has not succeeded, and ENABLE *)
(* goes on only where the breakpoint has been armed.                          *)
LEMMA Progressed ==
  ASSUME IInv, UNCHANGED client, kpm' \in ModuleType, Busy,
         kpm'.async.id = kpm.async.id, kpm'.async.op = kpm.async.op, kpm'.async.by = kpm.async.by,
         kpm'.async.state \in {"RUNNING", "DONE"},
         kpm.async.op = "enable" =>
           kpm.async.state = "RUNNING" \/ (kpm'.async.state = "DONE" /\ ~kpm'.async.ok),
         kpm.async.op = "clear" => kpm'.async.state = "RUNNING" \/ ~kpm'.async.ok,
         kpm'.owner = kpm.owner, kpm'.armed = kpm.armed, kpm'.configured = kpm.configured,
         kpm'.binding = kpm.binding,
         kpm'.hits = kpm.hits \/ kpm'.hits = Append(kpm.hits, "none")
  PROVE  IInv'
  <1>1. Typed'
    BY Zenon DEF IInv, Typed
  <1>2. OwnRequest'
    BY Zenon DEF IInv, OwnRequest, Awaited
  <1>3. NothingYet'
    BY Zenon DEF IInv, NothingYet, Clean, Busy
  <1>4. kpm.hits \in Seq(Who) /\ "none" \in Who
    BY ModuleFields, Zenon DEF IInv, Who
  <1>5. \A i \in DOMAIN kpm'.hits :
           kpm'.hits[i] = "none" \/ (i \in DOMAIN kpm.hits /\ kpm'.hits[i] = kpm.hits[i])
    BY <1>4
  <1>6. HitsConfigured'
    BY <1>5, Zenon DEF IInv, HitsConfigured
  <1>7. Holding'
    BY <1>5, Zenon DEF IInv, Holding, Busy
  <1> QED
    BY <1>1, <1>2, <1>3, <1>6, <1>7, Zenon DEF IInv

(* What the end of a request stores. *)
LEMMA Finished ==
  ASSUME NEW k \in ModuleType, NEW ok \in BOOLEAN, NEW d, d = Done(k, ok)
  PROVE  /\ d \in ModuleType /\ d.owner = k.owner /\ d.armed = k.armed
         /\ d.configured = k.configured /\ d.binding = k.binding /\ d.hits = k.hits
         /\ d.async.state = "DONE" /\ d.async.ok = ok
         /\ d.async.id = k.async.id /\ d.async.op = k.async.op /\ d.async.by = k.async.by
  BY Zenon DEF ModuleType, RequestType, Done

(* A request is begun. *)
LEMMA RunBeginKeeps == ASSUME IInv, RunBegin PROVE IInv'
  <1> USE DEF IInv, Typed
  <1>0. /\ UNCHANGED client /\ kpm.async.state = "PENDING" /\ Busy
        /\ kpm.async \in RequestType
    BY ModuleFields, Zenon DEF RunBegin, Busy
  <1> DEFINE run == [kpm EXCEPT !.async.state = "RUNNING"]
  <1>1. CASE /\ kpm.async.op = "enable" /\ kpm.configured
             /\ kpm' = [run EXCEPT !.enabled = TRUE, !.armed = kpm.async.by]
    <2>1. /\ kpm' \in ModuleType /\ kpm'.owner = kpm.owner /\ kpm'.armed = kpm.async.by
          /\ kpm'.configured = kpm.configured /\ kpm'.binding = kpm.binding
          /\ kpm'.hits = kpm.hits /\ kpm'.async.state = "RUNNING"
          /\ kpm'.async.id = kpm.async.id /\ kpm'.async.op = "enable"
          /\ kpm'.async.by = kpm.async.by
      BY <1>0, <1>1, Zenon DEF ModuleType, RequestType
    <2>2. OwnRequest'
      BY <1>0, <1>1, <2>1, Zenon DEF OwnRequest, Awaited
    <2>3. NothingYet'
      BY <1>0, <2>1, Zenon DEF NothingYet, Clean, Busy
    <2>4. HitsConfigured'
      BY <1>1, <2>1, Zenon DEF HitsConfigured
    <2>5. Holding'
      BY <1>0, <1>1, <2>1 DEF Holding, Busy
    <2> QED
      BY <1>0, <2>1, <2>2, <2>3, <2>4, <2>5, Zenon
  <1>2. CASE kpm.async.op = "enable" /\ kpm' = NotEnabled(kpm)
    <2>1. /\ kpm' \in ModuleType /\ kpm'.owner = kpm.owner /\ kpm'.armed = kpm.armed
          /\ kpm'.configured = kpm.configured /\ kpm'.binding = kpm.binding
          /\ kpm'.hits = kpm.hits /\ kpm'.async.state = "DONE" /\ kpm'.async.ok = FALSE
          /\ kpm'.async.id = kpm.async.id /\ kpm'.async.op = kpm.async.op
          /\ kpm'.async.by = kpm.async.by
      BY <1>0, <1>2, Zenon DEF ModuleType, RequestType, NotEnabled, Done
    <2> QED
      BY <1>0, <2>1, Progressed, Zenon
  <1>3. CASE kpm.async.op # "enable" /\ (kpm' = run \/ kpm' = [run EXCEPT !.enabled = FALSE])
    <2>1. /\ kpm' \in ModuleType /\ kpm'.owner = kpm.owner /\ kpm'.armed = kpm.armed
          /\ kpm'.configured = kpm.configured /\ kpm'.binding = kpm.binding
          /\ kpm'.hits = kpm.hits /\ kpm'.async.state = "RUNNING"
          /\ kpm'.async.id = kpm.async.id /\ kpm'.async.op = kpm.async.op
          /\ kpm'.async.by = kpm.async.by
      <3>1. CASE kpm' = run
        BY <1>0, <3>1, Zenon DEF ModuleType, RequestType
      <3>2. CASE kpm' = [run EXCEPT !.enabled = FALSE]
        BY <1>0, <3>2, Zenon DEF ModuleType, RequestType
      <3> QED
        BY <1>3, <3>1, <3>2, Zenon
    <2> QED
      BY <1>0, <1>3, <2>1, Progressed, Zenon
  <1> QED
    BY <1>1, <1>2, <1>3, Zenon DEF RunBegin

(* A request ends. *)
LEMMA RunEndKeeps == ASSUME IInv, RunEnd PROVE IInv'
  <1> USE DEF IInv, Typed
  <1>0. /\ UNCHANGED client /\ kpm.async.state = "RUNNING" /\ Busy
        /\ kpm.async \in RequestType /\ kpm.hits \in Seq(Who)
    BY ModuleFields, Zenon DEF RunEnd, Busy
  <1>1. CASE kpm.async.op = "clear" /\ kpm' = Done(Cleared(kpm), TRUE)
    <2>1. /\ kpm' \in ModuleType /\ kpm'.owner = "none" /\ kpm'.armed = "none"
          /\ kpm'.hits = <<>> /\ kpm'.async.state = "DONE"
          /\ kpm'.async.id = kpm.async.id /\ kpm'.async.op = "clear"
          /\ kpm'.async.by = kpm.async.by
      <3> DEFINE c == Cleared(kpm)
      <3>1. /\ c \in ModuleType /\ c.owner = "none" /\ c.armed = "none" /\ c.hits = <<>>
            /\ c.async = kpm.async
        <4>1. /\ <<>> \in Seq(Who) /\ "none" \in Who /\ 0 \in Nat
              /\ "none" \in {"none", "pending", "bound", "dead"}
          BY DEF Who
        <4> QED
          BY <4>1, Zenon DEF ModuleType, Cleared
      <3>2. kpm' = Done(c, TRUE)
        BY <1>1, Zenon
      <3> HIDE DEF c
      <3> QED
        <4>1. ASSUME NEW ok \in BOOLEAN, kpm' = Done(c, ok)
              PROVE  /\ kpm' \in ModuleType /\ kpm'.owner = "none" /\ kpm'.armed = "none"
                     /\ kpm'.hits = <<>> /\ kpm'.async.state = "DONE"
                     /\ kpm'.async.id = kpm.async.id /\ kpm'.async.op = kpm.async.op
                     /\ kpm'.async.by = kpm.async.by
          BY <3>1, <4>1, Finished
        <4> QED
          BY <1>1, <3>2, <4>1, Zenon
    <2>2. OwnRequest'
      BY <1>0, <1>1, <2>1, Zenon DEF OwnRequest, Awaited
    <2>3. NothingYet' /\ HitsConfigured'
      BY <1>0, <2>1 DEF NothingYet, Clean, Busy, HitsConfigured
    <2>4. Holding'
      BY <1>0, <1>1, <2>1, Zenon DEF Holding, Busy
    <2> QED
      BY <1>0, <2>1, <2>2, <2>3, <2>4, Zenon
  <1>2. ASSUME NEW k, NEW ok \in BOOLEAN, kpm' = Done(k, ok), kpm.async.op = "clear" => ~ok,
               \/ k = kpm \/ k = [kpm EXCEPT !.enabled = FALSE]
               \/ k = [kpm EXCEPT !.task = FALSE]
               \/ k = [kpm EXCEPT !.hits = Append(@, "none")]
        PROVE  IInv'
    <2>1. /\ k \in ModuleType /\ k.owner = kpm.owner /\ k.armed = kpm.armed
          /\ k.configured = kpm.configured /\ k.binding = kpm.binding
          /\ k.hits = kpm.hits \/ k.hits = Append(kpm.hits, "none")
          /\ k.async = kpm.async
      <3>1. CASE k = kpm
        BY <3>1, Zenon
      <3>2. CASE k = [kpm EXCEPT !.enabled = FALSE] \/ k = [kpm EXCEPT !.task = FALSE]
        BY <3>2, Zenon DEF ModuleType
      <3>3. CASE k = [kpm EXCEPT !.hits = Append(@, "none")]
        <4>1. Append(kpm.hits, "none") \in Seq(Who)
          BY <1>0, Appended, Zenon DEF Who
        <4> QED
          BY <3>3, <4>1, Zenon DEF ModuleType
      <3> QED
        BY <1>2, <3>1, <3>2, <3>3, Zenon
    <2>2. /\ kpm' \in ModuleType /\ kpm'.owner = k.owner /\ kpm'.armed = k.armed
          /\ kpm'.configured = k.configured /\ kpm'.binding = k.binding
          /\ kpm'.hits = k.hits /\ kpm'.async.state = "DONE" /\ kpm'.async.ok = ok
          /\ kpm'.async.id = k.async.id /\ kpm'.async.op = k.async.op
          /\ kpm'.async.by = k.async.by
      BY <1>2, <2>1, Finished
    <2> QED
      BY <1>0, <1>2, <2>1, <2>2, Progressed, Zenon
  <1> QED
    BY <1>1, <1>2, Zenon DEF RunEnd

-----------------------------------------------------------------------------
(* A process that cleans up, or is gone, is promised nothing. *)
LEMMA Gone ==
  ASSUME client' \in ClientType, kpm' \in ModuleType, HitsConfigured', client'.request = 0,
         client'.pc \in {"maps", "disable", "clear", "end", "killed"},
         client'.pc = "end" => client'.err
  PROVE  IInv'
  <1>1. Typed' /\ OwnRequest' /\ NothingYet' /\ Holding'
    BY Zenon DEF Typed, OwnRequest, Awaited, NothingYet, Holding
  <1> QED
    BY <1>1, Zenon DEF IInv

(* A process that goes on waiting or polling keeps what it has. *)
LEMMA Stays ==
  ASSUME IInv, client' \in ClientType, client'.pc = client.pc, client'.request = client.request,
         client'.err = client.err, kpm' \in ModuleType, kpm'.async = kpm.async,
         kpm'.owner = kpm.owner, kpm'.armed = kpm.armed, kpm'.configured = kpm.configured,
         kpm'.binding = kpm.binding, kpm'.hits = kpm.hits
  PROVE  IInv'
  <1>1. Typed' /\ OwnRequest'
    BY Zenon DEF IInv, Typed, OwnRequest, Awaited
  <1>2. NothingYet' /\ HitsConfigured' /\ Holding'
    BY DEF IInv, NothingYet, Clean, HitsConfigured, Holding, Busy
  <1> QED
    BY <1>1, <1>2, Zenon DEF IInv

(* A call that has left the module as it is returns. *)
LEMMA Moved ==
  ASSUME IInv, UNCHANGED kpm, NEW s \in ClientType, NEW ok \in BOOLEAN, client' = Proceed(s, ok),
         s.pc = client.pc, client.pc \notin Ended \cup {"run"},
         ok /\ client.pc = "clear" => Clean,
         client.pc \in {"bind", "break"} => ~ok,
         ok /\ client.pc = "bound" => kpm.binding = "bound",
         ok /\ client.pc = "enable" => kpm.armed = "self" /\ ~Busy
  PROVE  IInv'
  <1>1. /\ client' \in ClientType /\ client'.request = 0 /\ client'.pc # "killed"
        /\ client'.pc = "status" => client.pc = "clear" /\ ok
        /\ client'.pc = "bind" => client.pc = "status"
        /\ client'.pc = "bound" => client.pc = "bind" /\ ok
        /\ client'.pc = "break" => client.pc = "bound" /\ ok
        /\ client'.pc = "enable" => client.pc = "break" /\ ok
        /\ client'.pc = "run" => client.pc = "enable" /\ ok
        /\ client'.pc = "end" /\ ~client'.err
             => client.pc = "status" \/ (client.pc = "clear" /\ ok)
    BY Proceeds, Zenon
  <1>2. Typed' /\ OwnRequest' /\ HitsConfigured'
    BY <1>1, Zenon DEF IInv, Typed, OwnRequest, Awaited, HitsConfigured
  <1>3. NothingYet'
    BY <1>1, Zenon DEF IInv, NothingYet, Clean, Busy
  <1>4. Holding'
    BY <1>1, Zenon DEF IInv, Holding, Busy
  <1> QED
    BY <1>2, <1>3, <1>4, Zenon DEF IInv

(* A call that failed ends in cleaning up, whatever it did. *)
LEMMA Failed ==
  ASSUME Typed, client.pc \in {"bind", "bound", "maps", "break", "enable", "disable", "clear"},
         client' = Proceed(client, FALSE), kpm' \in ModuleType, HitsConfigured'
  PROVE  IInv'
  <1>1. /\ client' \in ClientType /\ client'.request = 0
        /\ client'.pc \notin {"killed", "status", "bind", "bound", "break", "enable", "run"}
        /\ client'.pc = "end" => client'.err
    <2>1. ASSUME NEW ok \in BOOLEAN, ~ok, client' = Proceed(client, ok)
          PROVE  /\ client' \in ClientType /\ client'.request = 0
                 /\ client'.pc \notin {"killed", "status", "bind", "bound", "break", "enable",
                                      "run"}
                 /\ client'.pc = "end" => client'.err
      BY <2>1, Proceeds, ZenonT(60) DEF Typed, Ended
    <2> QED
      BY <2>1, Zenon
  <1>2. client'.pc \in {"maps", "disable", "clear", "end", "killed"}
    BY <1>1, Zenon DEF ClientType, Pcs, Ended
  <1> QED
    BY <1>1, <1>2, Gone, Zenon

(* A new number. *)
LEMMA NewNumber ==
  ASSUME Typed PROVE NextId \in Nat \ {0} /\ NextId # kpm.async.id /\ NextId # client.request
  <1>1. \E i \in 1 .. MaxId : i # kpm.async.id /\ i # client.request
    <2>1. 1 \in 1 .. MaxId /\ 2 \in 1 .. MaxId /\ 3 \in 1 .. MaxId
      BY DEF MaxId
    <2> QED
      BY <2>1
  <1>2. /\ NextId \in 1 .. MaxId /\ NextId # kpm.async.id /\ NextId # client.request
    BY <1>1, Zenon DEF NextId
  <1> QED
    BY <1>2 DEF MaxId

(* The slot is taken. *)
TakenBy(k, by, op, state) ==
  /\ k \in ModuleType /\ k.owner = kpm.owner /\ k.armed = kpm.armed
  /\ k.configured = kpm.configured /\ k.binding = kpm.binding /\ k.hits = kpm.hits
  /\ k.async.id = NextId /\ k.async.op = op /\ k.async.by = by /\ k.async.state = state

LEMMA Submitted ==
  ASSUME Typed, NEW by \in Who, NEW op \in {"maps", "enable", "disable", "clear", "audit"},
         NEW r \in Submit(by, op)
  PROVE  \/ r = Refused(kpm)
         \/ ~Busy /\ \E k : TakenBy(k, by, op, "PENDING") /\ r = Answer(k, NextId, 0)
         \/ ~Busy /\ \E k : TakenBy(k, by, op, "DONE") /\ r = Refused(k)
  <1> DEFINE slot(state) == [kpm EXCEPT !.async =
                 [id |-> NextId, op |-> op, state |-> state, ok |-> FALSE, by |-> by]]
  <1>1. ASSUME NEW state \in {"PENDING", "DONE"} PROVE TakenBy(slot(state), by, op, state)
    <2>1. [id |-> NextId, op |-> op, state |-> state, ok |-> FALSE, by |-> by] \in RequestType
      BY NewNumber, Zenon DEF RequestType
    <2> QED
      BY <2>1, Zenon DEF Typed, ModuleType, TakenBy
  <1>2. \/ r = Refused(kpm)
        \/ ~Busy /\ r = Answer(slot("PENDING"), NextId, 0)
        \/ ~Busy /\ r = Refused(slot("DONE"))
    BY Zenon DEF Submit
  <1> HIDE DEF slot
  <1> QED
    BY <1>1, <1>2, Zenon

(* An operator's AUDIT takes the slot from no one. *)
LEMMA AuditKeeps == ASSUME IInv, Audit PROVE IInv'
  <1>1. UNCHANGED client /\ (kpm' = kpm \/ ~Busy)
    BY DEF Audit, Submit, Refused
  <1>2. CASE kpm' = kpm
    BY <1>1, <1>2, Stays, Zenon DEF IInv, Typed
  <1>3. CASE \E state : ~Busy /\ TakenBy(kpm', "none", "audit", state)
    <2>1. Typed' /\ OwnRequest'
      BY <1>1, <1>3, NewNumber, Zenon DEF IInv, Typed, OwnRequest, Awaited, TakenBy
    <2>2. NothingYet' /\ HitsConfigured' /\ Holding'
      BY <1>1, <1>3 DEF IInv, NothingYet, Clean, HitsConfigured, Holding, Busy, TakenBy
    <2> QED
      BY <2>1, <2>2, Zenon DEF IInv
  <1>4. kpm' = kpm \/ \E state : ~Busy /\ TakenBy(kpm', "none", "audit", state)
    <2>1. PICK r \in Submit("none", "audit") : kpm' = r.kpm
      BY Zenon DEF Audit
    <2>2. "none" \in Who /\ "audit" \in {"maps", "enable", "disable", "clear", "audit"}
      BY Zenon DEF Who
    <2> QED
      BY <2>1, <2>2, Submitted DEF IInv, Refused, Answer
  <1> QED
    BY <1>2, <1>3, <1>4, Zenon

-----------------------------------------------------------------------------
(* What a status command tells. *)
LEMMA Knows ==
  ASSUME NEW s \in ClientType, NEW ok \in BOOLEAN
  PROVE  LET k == Known(s, ok) IN
         k \in ClientType /\ k.pc = s.pc /\ k.request = s.request /\ k.err = s.err
  <1>1. ASSUME NEW valid \in BOOLEAN
        PROVE  LET k == [s EXCEPT !.ready = ok, !.profileValidated = valid] IN
               k \in ClientType /\ k.pc = s.pc /\ k.request = s.request /\ k.err = s.err
    BY <1>1, Zenon DEF ClientType
  <1>2. (s.profileValidated \/ ok) \in BOOLEAN
    BY Zenon
  <1>3. Known(s, ok) = [s EXCEPT !.ready = ok, !.profileValidated = (s.profileValidated \/ ok)]
    BY Zenon DEF Known
  <1> QED
    BY <1>1, <1>2, <1>3, Zenon

(* The calls that only look: status, the wait for the target and the wait for *)
(* a request.                                                                 *)
LEMMA LookKeeps ==
  ASSUME IInv, NEW lost \in BOOLEAN, Status(lost) \/ WaitBound(lost) \/ WaitRequest(lost)
  PROVE  IInv'
  <1>0. client \in ClientType /\ kpm \in ModuleType /\ UNCHANGED kpm
    BY Zenon DEF IInv, Typed, Status, WaitBound, WaitRequest
  <1>1. CASE Status(lost)
    <2>1. PICK r \in Control(lost, TRUE, {Answer(kpm, 0, 0)}) :
            client' = Proceed(Known(client, r.ok), r.ok)
      BY <1>1, Zenon DEF Status
    <2>2. r.ok \in BOOLEAN
      BY StatusAnswer, Zenon
    <2> DEFINE s == Known(client, r.ok)
    <2>3. s \in ClientType /\ s.pc = "status" /\ client.pc = "status"
      BY <1>0, <1>1, <2>2, Knows, Zenon DEF Status
    <2> HIDE DEF s
    <2> QED
      BY <1>0, <2>1, <2>2, <2>3, Moved, Zenon DEF s, Ended
  <1>2. CASE WaitBound(lost)
    <2>1. PICK r \in Control(lost, TRUE, {Answer(kpm, 0, 0)}) :
            LET s == Known(client, r.ok)
            IN client' = IF r.ok /\ kpm.binding \in {"none", "pending"} THEN s
                         ELSE Proceed(s, r.ok /\ kpm.binding = "bound")
      BY <1>2, Zenon DEF WaitBound
    <2>2. r.ok \in BOOLEAN
      BY StatusAnswer, Zenon
    <2> DEFINE s == Known(client, r.ok)
               ok == r.ok /\ kpm.binding = "bound"
    <2>3. s \in ClientType /\ s.pc = client.pc /\ s.request = client.request /\ s.err = client.err
      BY <1>0, <2>2, Knows, Zenon
    <2>4. ok \in BOOLEAN /\ (ok => kpm.binding = "bound") /\ client.pc = "bound"
      BY <1>2, Zenon DEF WaitBound
    <2>5. client' = s \/ client' = Proceed(s, ok)
      BY <2>1, Zenon
    <2> HIDE DEF s, ok
    <2>6. CASE client' = s
      BY <1>0, <2>3, <2>6, Stays, Zenon
    <2>7. CASE client' = Proceed(s, ok)
      BY <1>0, <2>3, <2>4, <2>7, Moved, Zenon DEF Ended
    <2> QED
      BY <2>5, <2>6, <2>7, Zenon
  <1>3. CASE WaitRequest(lost)
    <2>1. PICK r \in Control(lost, TRUE, {Answer(kpm, 0, 0)}) :
            LET s == Known(client, r.ok)
                mine == kpm.async.id = s.request
            IN client' = IF r.ok /\ mine /\ Busy THEN s
                         ELSE Proceed(s, r.ok /\ mine /\ kpm.async.ok)
      BY <1>3, Zenon DEF WaitRequest
    <2>2. r.ok \in BOOLEAN
      BY StatusAnswer, Zenon
    <2> DEFINE s == Known(client, r.ok)
               ok == r.ok /\ kpm.async.id = s.request /\ kpm.async.ok
    <2>3. s \in ClientType /\ s.pc = client.pc /\ s.request = client.request /\ s.err = client.err
      BY <1>0, <2>2, Knows, Zenon
    <2>4. client' = s \/ (client' = Proceed(s, ok) /\ (ok => ~Busy))
      BY <2>1, Zenon
    <2>5. ok \in BOOLEAN
      BY Zenon
    <2>6. ok => Awaited /\ kpm.async.ok
      BY <1>3, <2>3, Zenon DEF WaitRequest, Awaited
    <2> HIDE DEF s, ok
    <2>7. CASE client' = s
      BY <1>0, <2>3, <2>7, Stays, Zenon
    <2>8. CASE client' = Proceed(s, ok) /\ (ok => ~Busy)
      <3>1. client.pc \in {"maps", "enable", "disable", "clear"}
        BY <1>3, Zenon DEF WaitRequest, IInv, OwnRequest
      <3>2. ok => kpm.async.state = "DONE"
        <4>1. kpm.async \in RequestType
          BY <1>0, Zenon DEF ModuleType
        <4> QED
          BY <2>6, <2>8, <4>1, Zenon DEF IInv, OwnRequest, Busy, RequestType
      <3>3. ok /\ client.pc = "clear" => Clean
        BY <2>6, <2>8, <3>2, Zenon DEF IInv, OwnRequest, Clean
      <3>4. ok /\ client.pc = "enable" => kpm.armed = "self"
        BY <2>6, <3>2, Zenon DEF IInv, OwnRequest
      <3> QED
        BY <1>0, <2>3, <2>5, <2>8, <3>1, <3>3, <3>4, Moved, Zenon DEF Ended
    <2> QED
      BY <2>4, <2>7, <2>8, Zenon
  <1> QED
    BY <1>1, <1>2, <1>3, Zenon

(* Timers, signals and the end of a process. *)
LEMMA EndsKeep == ASSUME IInv, WaitBoundTimeout \/ Expire \/ Close \/ Kill PROVE IInv'
  <1>0. client \in ClientType /\ kpm \in ModuleType /\ UNCHANGED kpm /\ HitsConfigured'
    BY Zenon DEF IInv, Typed, HitsConfigured, WaitBoundTimeout, Expire, Close, Kill
  <1>1. CASE WaitBoundTimeout
    BY <1>0, <1>1, Failed, Zenon DEF WaitBoundTimeout, IInv
  <1>2. CASE Expire
    <2> DEFINE s == [client EXCEPT !.expired = TRUE]
    <2>1. s \in ClientType /\ s.pc = client.pc
      BY <1>0, Zenon DEF ClientType
    <2>2. client' = Proceed(s, FALSE) /\ client.pc \in {"maps", "enable", "disable", "clear"}
      BY <1>2, Zenon DEF Expire, IInv, OwnRequest
    <2> HIDE DEF s
    <2>3. ASSUME NEW ok \in BOOLEAN, ~ok, client' = Proceed(s, ok) PROVE IInv'
      BY <1>0, <2>1, <2>2, <2>3, Moved, Zenon DEF Ended
    <2> QED
      BY <2>2, <2>3, Zenon
  <1>3. CASE Close
    <2> DEFINE g == Goto(client, "disable", "cleanup")
    <2>1. "disable" \in Pcs /\ "cleanup" \in Phases
      BY Zenon DEF Pcs, Phases
    <2>2. g \in ClientType /\ g.pc = "disable" /\ g.request = 0
      BY <1>0, <2>1, Went
    <2>3. client' = [g EXCEPT !.polling = FALSE]
      BY <1>3, Zenon DEF Close
    <2> HIDE DEF g
    <2>4. client' \in ClientType /\ client'.pc = "disable" /\ client'.request = 0
      BY <2>2, <2>3, Zenon DEF ClientType
    <2> QED
      BY <1>0, <2>4, Gone, Zenon
  <1>4. CASE Kill
    <2>1. client' \in ClientType /\ client'.pc = "killed" /\ client'.request = 0
      BY <1>0, <1>4, Zenon DEF Kill, ClientType, Pcs, Ended
    <2> QED
      BY <1>0, <2>1, Gone, Zenon
  <1> QED
    BY <1>1, <1>2, <1>3, <1>4, Zenon

-----------------------------------------------------------------------------
(* The binding is set only where nothing of a past process could act on it. *)
LEMMA BindKeeps == ASSUME IInv, NEW lost \in BOOLEAN, Bind(lost) PROVE IInv'
  <1>1. PICK r \in Control(lost, client.ready, SetBinding) :
          kpm' = r.kpm /\ client' = Proceed(client, r.ok)
    BY Zenon DEF Bind
  <1> DEFINE k == [kpm EXCEPT !.binding = "pending", !.owner = "self"]
  <1>2. /\ client \in ClientType /\ kpm \in ModuleType /\ client.pc = "bind"
        /\ k \in ModuleType /\ k.binding = "pending" /\ k.owner = "self" /\ k.async = kpm.async
        /\ k.hits = kpm.hits /\ k.armed = kpm.armed /\ k.configured = kpm.configured
    BY Zenon DEF IInv, Typed, ModuleType, Bind, Who
  <1>3. \/ r = Refused(kpm)
        \/ ~Busy /\ ~kpm.configured /\ (r = Refused(k) \/ r = Answer(k, 0, 0))
    <2>1. ASSUME NEW q \in SetBinding
          PROVE  q = Refused(kpm) \/ (~Busy /\ ~kpm.configured /\ q = Answer(k, 0, 0))
      BY Zenon DEF SetBinding
    <2>2. Refused(kpm).kpm = kpm /\ Answer(k, 0, 0).kpm = k
      BY Zenon DEF Refused, Answer
    <2> HIDE DEF k
    <2> QED
      BY <2>1, <2>2, Controlled
  <1> HIDE DEF k
  <1>4. CASE r = Refused(kpm) \/ (r = Refused(k) /\ ~kpm.configured)
    <2>3. r.ok = FALSE /\ (r.kpm = kpm \/ r.kpm = k)
      BY <1>4 DEF Refused
    <2>1. client' = Proceed(client, FALSE) /\ (kpm' = kpm \/ kpm' = k)
      BY <1>1, <2>3, Zenon
    <2>2. kpm' \in ModuleType /\ HitsConfigured'
      BY <1>2, <2>1, Zenon DEF IInv, HitsConfigured
    <2> QED
      BY <1>2, <2>1, <2>2, Failed, Zenon DEF IInv
  <1>5. CASE ~Busy /\ ~kpm.configured /\ r = Answer(k, 0, 0)
    <2>1. client' = Proceed(client, TRUE) /\ kpm' = k
      BY <1>1, <1>5, Zenon DEF Answer
    <2>2. client' \in ClientType /\ client'.request = 0 /\ client'.pc = "bound"
      <3>1. "bound" \in Pcs /\ client.phase \in Phases
        BY <1>2, Zenon DEF ClientType, Pcs, Phases
      <3>2. client' = Goto(client, "bound", client.phase)
        BY <1>2, <2>1, Zenon DEF Proceed
      <3> QED
        BY <1>2, <3>1, <3>2, Went, Zenon
    <2>3. Typed' /\ OwnRequest' /\ HitsConfigured' /\ NothingYet'
      BY <1>2, <2>1, <2>2, Zenon DEF IInv, Typed, OwnRequest, Awaited, HitsConfigured, NothingYet
    <2>4. Holding'
      BY <1>2, <1>5, <2>1, <2>2, Zenon DEF IInv, Holding, HitsConfigured, Busy
    <2> QED
      BY <2>3, <2>4, Zenon DEF IInv
  <1> QED
    BY <1>3, <1>4, <1>5, Zenon

(* The breakpoint is configured on the process's own binding. *)
LEMMA BreakKeeps == ASSUME IInv, NEW lost \in BOOLEAN, ConfigureBreakpoint(lost) PROVE IInv'
  <1>1. PICK r \in Control(lost, client.ready, SetBreakpoint) :
          kpm' = r.kpm /\ client' = Proceed(client, r.ok)
    BY Zenon DEF ConfigureBreakpoint
  <1> DEFINE k == [kpm EXCEPT !.configured = TRUE]
  <1>2. /\ client \in ClientType /\ kpm \in ModuleType /\ client.pc = "break"
        /\ k \in ModuleType /\ k.binding = kpm.binding /\ k.owner = kpm.owner
        /\ k.async = kpm.async /\ k.hits = kpm.hits /\ k.armed = kpm.armed /\ k.configured = TRUE
    BY Zenon DEF IInv, Typed, ModuleType, ConfigureBreakpoint
  <1>3. r = Refused(kpm) \/ r = Refused(k) \/ (~Busy /\ r = Answer(k, 0, 0))
    <2>1. ASSUME NEW q \in SetBreakpoint
          PROVE  q = Refused(kpm) \/ (~Busy /\ q = Answer(k, 0, 0))
      BY Zenon DEF SetBreakpoint
    <2>2. Refused(kpm).kpm = kpm /\ Answer(k, 0, 0).kpm = k
      BY Zenon DEF Refused, Answer
    <2> HIDE DEF k
    <2> QED
      BY <2>1, <2>2, Controlled
  <1> HIDE DEF k
  <1>4. CASE r = Refused(kpm) \/ r = Refused(k)
    <2>3. r.ok = FALSE /\ (r.kpm = kpm \/ r.kpm = k)
      BY <1>4 DEF Refused
    <2>1. client' = Proceed(client, FALSE) /\ (kpm' = kpm \/ kpm' = k)
      BY <1>1, <2>3, Zenon
    <2>2. kpm' \in ModuleType /\ HitsConfigured'
      BY <1>2, <2>1, Zenon DEF IInv, HitsConfigured
    <2> QED
      BY <1>2, <2>1, <2>2, Failed, Zenon DEF IInv
  <1>5. CASE ~Busy /\ r = Answer(k, 0, 0)
    <2>1. client' = Proceed(client, TRUE) /\ kpm' = k
      BY <1>1, <1>5, Zenon DEF Answer
    <2>2. client' \in ClientType /\ client'.request = 0 /\ client'.pc = "enable"
      <3>1. "enable" \in Pcs /\ client.phase \in Phases
        BY <1>2, Zenon DEF ClientType, Pcs, Phases
      <3>2. client' = Goto(client, "enable", client.phase)
        BY <1>2, <2>1, Zenon DEF Proceed
      <3> QED
        BY <1>2, <3>1, <3>2, Went, Zenon
    <2>3. Typed' /\ OwnRequest' /\ HitsConfigured' /\ NothingYet'
      BY <1>2, <2>1, <2>2, Zenon DEF IInv, Typed, OwnRequest, Awaited, HitsConfigured, NothingYet
    <2>4. Holding'
      BY <1>2, <1>5, <2>1, <2>2, ZenonT(20) DEF IInv, Holding, Busy
    <2> QED
      BY <2>3, <2>4, Zenon DEF IInv
  <1> QED
    BY <1>3, <1>4, <1>5, Zenon

(* A request is submitted: the process waits for it, or does not know of it   *)
(* and cleans up.                                                             *)
LEMMA AsyncKeeps == ASSUME IInv, NEW lost \in BOOLEAN, Async(lost) PROVE IInv'
  <1> DEFINE results == IF client.pc = "disable" THEN SubmitDisable ELSE Submit("self", client.pc)
  <1>0. /\ client \in ClientType /\ kpm \in ModuleType /\ client.request = 0
        /\ client.pc \in {"maps", "enable", "disable", "clear"}
    BY Zenon DEF IInv, Typed, Async
  <1>1. PICK r, allowed : /\ r \in Control(lost, allowed, results)
                          /\ kpm' = r.kpm /\ client' = Await(r)
    BY Zenon DEF Async
  <1>2. ASSUME NEW q \in results
        PROVE  \/ q = Refused(kpm)
               \/ client.pc = "disable" /\ q = Answer(kpm, 0, 0)
               \/ ~Busy /\ \E k : /\ TakenBy(k, "self", client.pc, "PENDING")
                                 /\ q = Answer(k, NextId, 0)
               \/ ~Busy /\ \E k : TakenBy(k, "self", client.pc, "DONE") /\ q = Refused(k)
    <2>1. \/ q \in Submit("self", client.pc)
          \/ client.pc = "disable" /\ q = Answer(kpm, 0, 0)
      BY Zenon DEF SubmitDisable
    <2>2. "self" \in Who /\ client.pc \in {"maps", "enable", "disable", "clear", "audit"}
      BY <1>0, Zenon DEF Who
    <2> QED
      BY <2>1, <2>2, Submitted, ZenonT(60) DEF IInv
  <1> HIDE DEF results
  <1>3. \/ r = Refused(kpm)
        \/ client.pc = "disable" /\ r = Answer(kpm, 0, 0)
        \/ ~Busy /\ \E k : TakenBy(k, "self", client.pc, "PENDING") /\ r = Answer(k, NextId, 0)
        \/ ~Busy /\ \E k, state : TakenBy(k, "self", client.pc, state) /\ r = Refused(k)
    <2>1. \A k, n : Refused(k).kpm = k /\ Answer(k, n, 0).kpm = k
      BY Zenon DEF Refused, Answer
    <2>2. CASE r \in results
      BY <1>2, <2>2, Zenon
    <2>3. ASSUME NEW q \in results, r = Refused(q.kpm)
          PROVE  \/ r = Refused(kpm)
                 \/ ~Busy /\ \E k, state : TakenBy(k, "self", client.pc, state) /\ r = Refused(k)
      <3>1. CASE q = Refused(kpm) \/ q = Answer(kpm, 0, 0)
        BY <2>1, <2>3, <3>1, Zenon
      <3>2. ASSUME ~Busy, NEW k, TakenBy(k, "self", client.pc, "PENDING"), q = Answer(k, NextId, 0)
            PROVE  ~Busy /\ \E k2, state : TakenBy(k2, "self", client.pc, state) /\ r = Refused(k2)
        <4>1. r = Refused(k)
          BY <2>1, <2>3, <3>2, Zenon
        <4> QED
          BY <3>2, <4>1, Zenon
      <3>3. ASSUME ~Busy, NEW k, TakenBy(k, "self", client.pc, "DONE"), q = Refused(k)
            PROVE  ~Busy /\ \E k2, state : TakenBy(k2, "self", client.pc, state) /\ r = Refused(k2)
        <4>1. r = Refused(k)
          BY <2>1, <2>3, <3>3, Zenon
        <4> QED
          BY <3>3, <4>1, Zenon
      <3> QED
        BY <1>2, <3>1, <3>2, <3>3, Zenon
    <2> QED
      BY <1>1, <2>2, <2>3, Controlled
  <1>4. CASE r = Refused(kpm)
    <2>1. client' = Proceed(client, FALSE) /\ kpm' = kpm
      BY <1>1, <1>4, Zenon DEF Refused, Await
    <2>2. HitsConfigured'
      BY <2>1, Zenon DEF IInv, HitsConfigured
    <2> QED
      BY <1>0, <2>1, <2>2, Failed, Zenon DEF IInv
  <1>5. CASE client.pc = "disable" /\ r = Answer(kpm, 0, 0)
    <2>1. client' = Proceed(client, TRUE) /\ kpm' = kpm
      BY <1>1, <1>5, Zenon DEF Answer, Await
    <2>2. ASSUME NEW ok \in BOOLEAN, client' = Proceed(client, ok) PROVE IInv'
      BY <1>0, <1>5, <2>1, <2>2, Moved, Zenon DEF Ended
    <2> QED
      BY <2>1, <2>2, Zenon
  <1>6. ASSUME NEW k, ~Busy, TakenBy(k, "self", client.pc, "PENDING"), r = Answer(k, NextId, 0)
        PROVE  IInv'
    <2>1. NextId \in Nat \ {0}
      BY NewNumber, Zenon DEF IInv
    <2>2. kpm' = k /\ client' = [client EXCEPT !.request = NextId]
      BY <1>1, <1>6, <2>1, Zenon DEF Answer, Await
    <2>3. client' \in ClientType /\ client'.pc = client.pc /\ client'.request = NextId
      BY <1>0, <2>1, <2>2, Zenon DEF ClientType
    <2>4. Typed' /\ OwnRequest'
      BY <1>0, <1>6, <2>1, <2>2, <2>3, Zenon DEF Typed, OwnRequest, Awaited, TakenBy
    <2>5. HitsConfigured' /\ NothingYet'
      BY <1>0, <1>6, <2>2, <2>3, Zenon DEF IInv, HitsConfigured, NothingYet, TakenBy
    <2>6. Holding'
      BY <1>0, <1>6, <2>2, <2>3 DEF IInv, Holding, Busy, TakenBy
    <2> QED
      BY <2>4, <2>5, <2>6, Zenon DEF IInv
  <1>7. ASSUME NEW k, NEW state, TakenBy(k, "self", client.pc, state), r = Refused(k)
        PROVE  IInv'
    <2>1. client' = Proceed(client, FALSE) /\ kpm' = k
      BY <1>1, <1>7, Zenon DEF Refused, Await
    <2>2. kpm' \in ModuleType /\ HitsConfigured'
      BY <1>7, <2>1, Zenon DEF IInv, HitsConfigured, TakenBy
    <2> QED
      BY <1>0, <2>1, <2>2, Failed, Zenon DEF IInv
  <1> QED
    BY <1>3, <1>4, <1>5, <1>6, <1>7, Zenon

(* A poll moves the cursors. *)
LEMMA PollKeeps == ASSUME IInv, NEW lost \in BOOLEAN, Poll(lost) PROVE IInv'
  <1>0. /\ client \in ClientType /\ kpm \in ModuleType /\ client.after \in Nat
        /\ Len(kpm.hits) \in Nat
    BY DEF IInv, Typed, ClientType, ModuleType
  <1>1. PICK r \in Control(lost, client.ready, PopAfter(client.after)) :
          /\ kpm' = r.kpm
          /\ client' = IF ~r.ok THEN [client EXCEPT !.polling = FALSE]
                       ELSE IF r.hit = 0 THEN client
                       ELSE [client EXCEPT !.after = r.hit]
    BY Zenon DEF Poll
  <1> DEFINE n == client.after
             here == [kpm EXCEPT !.consumer = n]
             there == [kpm EXCEPT !.consumer = n + 1]
  <1>2. ASSUME NEW q \in PopAfter(n)
        PROVE  q = Refused(kpm) \/ q = Answer(here, 0, 0) \/ q = Answer(there, 0, n + 1)
    BY <1>2, Zenon DEF PopAfter
  <1>3. /\ Refused(kpm).kpm = kpm /\ Refused(here).kpm = here /\ Refused(there).kpm = there
        /\ Refused(kpm).ok = FALSE /\ Refused(here).ok = FALSE /\ Refused(there).ok = FALSE
        /\ Answer(here, 0, 0).kpm = here /\ Answer(there, 0, n + 1).kpm = there
        /\ Answer(here, 0, 0).hit = 0 /\ Answer(there, 0, n + 1).hit = n + 1
    BY Zenon DEF Refused, Answer
  <1> HIDE DEF here, there
  <1>8. \/ r = Refused(kpm) \/ r = Refused(here) \/ r = Refused(there)
        \/ r = Answer(here, 0, 0) \/ r = Answer(there, 0, n + 1)
    <2>1. \/ r \in PopAfter(n) \/ r = Refused(kpm) \/ \E q \in PopAfter(n) : r = Refused(q.kpm)
      BY Controlled
    <2> QED
      BY <1>2, <1>3, <2>1, Zenon
  <1>4. kpm' = kpm \/ kpm' = here \/ kpm' = there
    BY <1>1, <1>3, <1>8, Zenon
  <1>5. r.ok => r.hit \in Nat
    BY <1>0, <1>3, <1>8
  <1>6. /\ client' \in ClientType /\ client'.pc = client.pc /\ client'.request = client.request
        /\ client'.err = client.err
    BY <1>0, <1>1, <1>5, ZenonT(60) DEF ClientType
  <1>7. /\ kpm' \in ModuleType /\ kpm'.async = kpm.async /\ kpm'.owner = kpm.owner
        /\ kpm'.armed = kpm.armed /\ kpm'.configured = kpm.configured
        /\ kpm'.binding = kpm.binding /\ kpm'.hits = kpm.hits
    BY <1>0, <1>4 DEF ModuleType, here, there
  <1> QED
    BY <1>6, <1>7, Stays, Zenon

(* A process starts: whatever it finds in the module is of the past. *)
LEMMA BeginKeeps == ASSUME IInv, Begin PROVE IInv'
  <1> DEFINE hits == [i \in DOMAIN kpm.hits |-> Rename(kpm.hits[i])]
  <1>0. kpm \in ModuleType /\ kpm.async \in RequestType /\ kpm.hits \in Seq(Who)
    BY ModuleFields, Zenon DEF IInv, Typed
  <1>1. \A o \in Who : Rename(o) \in Who /\ Rename(o) # "self" /\ (o = "none" => Rename(o) = "none")
    BY Zenon DEF Who, Rename
  <1>2. hits \in Seq(Who) /\ DOMAIN hits = DOMAIN kpm.hits
    BY <1>0, <1>1
  <1>3. kpm' = [kpm EXCEPT !.owner = Rename(kpm.owner), !.armed = Rename(kpm.armed),
                           !.async.by = Rename(kpm.async.by), !.hits = hits]
    BY <1>0, Zenon DEF Begin, ModuleType, RequestType
  <1>4. kpm.owner \in Who /\ kpm.armed \in Who /\ kpm.async.by \in Who
    BY <1>0, Zenon DEF ModuleType, RequestType
  <1> DEFINE owner == Rename(kpm.owner)
             armed == Rename(kpm.armed)
             by == Rename(kpm.async.by)
  <1>5. owner \in Who \ {"self"} /\ armed \in Who \ {"self"} /\ by \in Who \ {"self"}
        /\ (kpm.armed = "none" => armed = "none")
    BY <1>1, <1>4, Zenon
  <1>6. \A i \in DOMAIN hits : kpm.hits[i] = "none" => hits[i] = "none"
    BY <1>0, <1>1
  <1> HIDE DEF hits, owner, armed, by
  <1>7. kpm' = [kpm EXCEPT !.owner = owner, !.armed = armed, !.async.by = by, !.hits = hits]
    BY <1>3, Zenon DEF hits, owner, armed, by
  <1>8. /\ kpm' \in ModuleType /\ kpm'.owner = owner /\ kpm'.armed = armed
        /\ kpm'.async.by = by /\ kpm'.hits = hits /\ kpm'.configured = kpm.configured
    BY <1>0, <1>2, <1>5, <1>7, Zenon DEF ModuleType, RequestType
  <1>9. /\ client' \in ClientType /\ client'.request = 0 /\ client'.pc = "status"
    BY DEF Begin, NewClient, ClientType, Pcs
  <1>10. Typed' /\ OwnRequest' /\ Holding'
    BY <1>8, <1>9, Zenon DEF Typed, OwnRequest, Awaited, Holding
  <1>11. NothingYet'
    BY <1>5, <1>8, Zenon DEF NothingYet, Clean
  <1>12. HitsConfigured'
    BY <1>2, <1>5, <1>6, <1>8, Zenon DEF IInv, HitsConfigured
  <1> QED
    BY <1>10, <1>11, <1>12, Zenon DEF IInv

(* At first there is no process and the module is empty. *)
LEMMA InitInvariant == Init => IInv
  <1> SUFFICES ASSUME Init PROVE IInv
    OBVIOUS
  <1>1. /\ client \in ClientType /\ client.pc = "end" /\ client.request = 0
    BY Zenon DEF Init, NewClient, ClientType, Pcs, Ended
  <1>2. /\ kpm \in ModuleType /\ kpm.owner = "none" /\ kpm.armed = "none" /\ kpm.hits = <<>>
        /\ kpm.async.state = "FREE"
    <2>1. NoRequest \in RequestType /\ NoRequest.state = "FREE" /\ <<>> \in Seq(Who)
      BY DEF NoRequest, RequestType, Who
    <2> QED
      BY <2>1, Zenon DEF Init, EmptyModule, ModuleType, Who
  <1> QED
    BY <1>1, <1>2 DEF IInv, Typed, OwnRequest, Awaited, HitsConfigured, NothingYet, Clean, Busy,
                      Holding

(* Every step of every process, of the worker, the target and the operator. *)
LEMMA NextInvariant == IInv /\ [Next]_vars => IInv'
  <1> SUFFICES ASSUME IInv, [Next]_vars PROVE IInv'
    OBVIOUS
  <1>1. ASSUME NEW lost \in BOOLEAN, Step(lost) \/ Poll(lost) PROVE IInv'
    BY <1>1, LookKeeps, BindKeeps, BreakKeeps, AsyncKeeps, PollKeeps, Zenon DEF Step
  <1>2. CASE Begin \/ WaitBoundTimeout \/ Expire \/ Close \/ Kill
    BY <1>2, BeginKeeps, EndsKeep, Zenon
  <1>3. CASE Audit \/ Worker
    BY <1>3, AuditKeeps, RunBeginKeeps, RunEndKeeps, Zenon DEF Worker
  <1>4. CASE Observe \/ Exit \/ Hit \/ PublishIntegrity
    BY <1>4, TargetKeeps, Zenon
  <1>5. CASE UNCHANGED vars
    BY <1>5, Stays, Zenon DEF vars, IInv, Typed
  <1> QED
    BY <1>1, <1>2, <1>3, <1>4, <1>5, Zenon DEF Next

-----------------------------------------------------------------------------
(* See IInv: what a process has in the module at each of its steps. *)
THEOREM Invariance == Spec => []IInv
  BY InitInvariant, NextInvariant, PTL DEF Spec

(* KPMBRK.cleanup, clearFailedBinding and clearKPMPreparationBinding: a       *)
(* process that ends without an error has left nothing of its own in the      *)
(* module, whatever answers were lost.                                        *)
THEOREM Cleaned == Spec => []CleanClose
  <1>1. IInv => CleanClose
    BY Zenon DEF IInv, NothingYet, Clean, CleanClose
  <1> QED
    BY <1>1, Invariance, PTL

(* KPMBRK.Start: a process that polls has configured the breakpoint on the    *)
(* binding it set and enabled it by its own request, whatever an earlier one  *)
(* left behind.                                                               *)
THEOREM Started == Spec => []StartedOnOwn
  <1>1. IInv => StartedOnOwn
    BY Zenon DEF IInv, Holding, StartedOnOwn
  <1> QED
    BY <1>1, Invariance, PTL

(* KPMBRK.poll: no hit of an earlier process's breakpoint is in the ring a    *)
(* process polls.                                                             *)
THEOREM OwnHits == Spec => []OwnEvents
  <1>1. IInv => OwnEvents
    BY Zenon DEF IInv, Holding, OwnEvents
  <1> QED
    BY <1>1, Invariance, PTL

-----------------------------------------------------------------------------
(* The commands a process sends.                                             *)

(* The check looks at the quotient only and is still exact: a number is       *)
(* refused if and only if it does not fit, at every length of the token.      *)
THEOREM AddDigitExact ==
    ASSUME NEW value \in 0..U64Max, NEW base \in {10, 16},
           NEW digit \in 0..(base - 1), 16 <= U64Max
    PROVE  /\ value * base + digit > U64Max => AddDigit(value, digit, base) = ERANGE
           /\ value * base + digit <= U64Max
                => AddDigit(value, digit, base) = value * base + digit
<1> DEFINE q == (U64Max - digit) \div base
<1>1. U64Max \in Nat BY CommandAssumption
<1>2. CASE base = 10
  <2>1. digit \in 0..9 BY <1>2
  <2>2. q = (U64Max - digit) \div 10 BY <1>2
  <2>3. value > q <=> value * 10 + digit > U64Max BY <1>1, <2>1, <2>2
  <2> QED BY <1>2, <2>2, <2>3, <2>1, <1>1 DEF AddDigit
<1>3. CASE base = 16
  <2>1. digit \in 0..15 BY <1>3
  <2>2. q = (U64Max - digit) \div 16 BY <1>3
  <2>3. value > q <=> value * 16 + digit > U64Max BY <1>1, <2>1, <2>2
  <2> QED BY <1>3, <2>2, <2>3, <2>1, <1>1 DEF AddDigit
<1> QED BY <1>2, <1>3

(* No word in the address arithmetic of an address below 2^56 wraps.          *)
LEMMA NoWrap ==
    ASSUME NEW b \in Breakpoint, AddressFits(b), b.length # 0
    PROVE  LastByte(b) = b.address + b.length - 1
<1> DEFINE e == b.address + b.length - 1
<1>1. e \in 0..U64Max
  BY CommandAssumption DEF Breakpoint, AddressFits
<1>2. \A m \in Nat : \A x \in 0..m : x % (m + 1) = x
  OBVIOUS
<1> QED BY <1>1, <1>2, CommandAssumption DEF LastByte, Word

(* Whatever request passes the checks, the comparator matches the bytes that  *)
(* were asked for, all of them and no other: the shifted mask loses no bit    *)
(* at the end of the eight-byte granule and the granule's base no byte.       *)
THEOREM WatchedExactly ==
    ASSUME NEW b \in Breakpoint, Fits(b)
    PROVE  Matched(b) = Asked(b)
<1>1. b.address \in Nat /\ b.length \in Nat /\ AddressFits(b)
  BY CommandAssumption DEF Breakpoint, Fits
<1>2. CASE b.kind = "x"
  <2>1. b.length = 4 BY <1>2 DEF Fits, ExecuteFits
  <2>2. Matched(b) = {b.address + k : k \in 0..3}
    BY <1>2 DEF Matched, Granule, ByteMask
  <2>3. Asked(b) = b.address .. (b.address + 3) BY <1>1, <2>1 DEF Asked
  <2>4. \A n \in b.address .. (b.address + 3) :
            n - b.address \in 0..3 /\ n = b.address + (n - b.address)
    BY <1>1
  <2> QED BY <1>1, <2>2, <2>3, <2>4
<1>3. CASE b.kind # "x"
  <2> DEFINE low == b.address % 8
             base == b.address - low
  <2>1. WatchFits(b) BY <1>3 DEF Fits
  <2>2. LastByte(b) = b.address + b.length - 1 BY <1>1, <2>1, NoWrap DEF WatchFits
  <2>3. low \in 0..7 /\ base \in Nat /\ b.address = base + low BY <1>1
  <2>4. low + b.length <= 8
    BY <1>1, <2>1, <2>2 DEF WatchFits
  <2>5. Matched(b) = {base + k : k \in {j \in 0..7 : low <= j /\ j < low + b.length}}
    BY <1>3 DEF Matched, Granule, ByteMask
  <2>6. ASSUME NEW n \in Matched(b) PROVE n \in Asked(b)
    <3>1. PICK k \in 0..7 : low <= k /\ k < low + b.length /\ n = base + k
      BY <2>5
    <3> HIDE DEF low, base
    <3> QED BY <1>1, <2>3, <3>1 DEF Asked
  <2>7. ASSUME NEW n \in Asked(b) PROVE n \in Matched(b)
    <3>1. n \in Int /\ b.address <= n /\ n <= b.address + b.length - 1
      BY <1>1 DEF Asked
    <3> DEFINE k == n - base
    <3>2. k \in 0..7 /\ low <= k /\ k < low + b.length /\ n = base + k
      <4> HIDE DEF low, base
      <4> QED BY <1>1, <2>3, <2>4, <3>1
    <3> HIDE DEF k
    <3> QED BY <3>2, <2>5
  <2> QED BY <2>6, <2>7
<1> QED BY <1>2, <1>3

(* What BreakCommand writes, the kernel reads as the same request and accepts: *)
(* the checks of the two sides agree at every boundary, and each number is    *)
(* written in the base its field is read in.                                  *)
THEOREM BreakUnderstood ==
    ASSUME NEW b \in Breakpoint, BreakCommand(b) # NoCommand
    PROVE  parse_break(BreakCommand(b), b)
<1> DEFINE tokens == <<Pair("id", Decimal(b.id)), Pair("kind", b.kind),
                       Pair("addr", Hex(b.address)),
                       Pair("len", Decimal(b.length)), Pair("mode", b.mode)>>
<1>1. Fits(b) /\ BreakCommand(b) = tokens BY DEF BreakCommand
<1>2. /\ Len(tokens) = 5
      /\ tokens[1] = Pair("id", Decimal(b.id))
      /\ tokens[2] = Pair("kind", b.kind)
      /\ tokens[3] = Pair("addr", Hex(b.address))
      /\ tokens[4] = Pair("len", Decimal(b.length))
      /\ tokens[5] = Pair("mode", b.mode)
  OBVIOUS
<1> HIDE DEF tokens
<1>3. /\ tokens[1].key = "id" /\ tokens[2].key = "kind"
      /\ tokens[3].key = "addr" /\ tokens[4].key = "len"
      /\ tokens[5].key = "mode"
  BY <1>2 DEF Pair
<1>4. /\ tokens[1].value = Decimal(b.id) /\ tokens[2].value = b.kind
      /\ tokens[3].value = Hex(b.address) /\ tokens[4].value = Decimal(b.length)
      /\ tokens[5].value = b.mode
  BY <1>2 DEF Pair
<1>5. /\ Decimal(b.id).n = b.id /\ Decimal(b.id).base = 10
      /\ Decimal(b.length).n = b.length /\ Decimal(b.length).base = 10
      /\ Hex(b.address).n = b.address /\ Hex(b.address).base = 16
  BY DEF Decimal, Hex
<1>6. \A i \in 1..5 : i = 1 \/ i = 2 \/ i = 3 \/ i = 4 \/ i = 5
  OBVIOUS
<1>7. \A i \in 1..5 : TokenFits(tokens[i].key, tokens[i].value)
  <2>1. TokenFits("id", Decimal(b.id))
    BY <1>5 DEF TokenFits, parse_decimal, Breakpoint
  <2>2. TokenFits("kind", b.kind) BY DEF TokenFits, Breakpoint
  <2>3. TokenFits("addr", Hex(b.address))
    BY <1>5 DEF TokenFits, parse_hex, Breakpoint
  <2>4. TokenFits("len", Decimal(b.length))
    BY <1>5 DEF TokenFits, parse_decimal, Breakpoint
  <2>5. TokenFits("mode", b.mode) BY DEF TokenFits, Breakpoint
  <2> QED BY <1>3, <1>4, <1>6, <2>1, <2>2, <2>3, <2>4, <2>5
<1>8. \A i, j \in 1..5 : tokens[i].key = tokens[j].key => i = j
  BY <1>3, <1>6
<1>9. \A i \in 1..5 :
        /\ tokens[i].key = "id" => b.id = tokens[i].value.n
        /\ tokens[i].key = "kind" => b.kind = tokens[i].value
        /\ tokens[i].key = "addr" => b.address = tokens[i].value.n
        /\ tokens[i].key = "len" => b.length = tokens[i].value.n
        /\ tokens[i].key = "mode" => b.mode = tokens[i].value
  BY <1>3, <1>4, <1>5, <1>6
<1> QED BY <1>1, <1>2, <1>7, <1>8, <1>9 DEF parse_break, Fills
=============================================================================
