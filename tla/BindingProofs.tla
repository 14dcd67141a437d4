--------------------------- MODULE BindingProofs ---------------------------
(* The sequence lock of kpm/core/task.c for any number of CPUs, tasks and     *)
(* requests: a snapshot is a binding as a whole, nobody inherits a binding,   *)
(* none is given up while its task lives, and the four words implement one    *)
(* atomic value.                                                              *)
EXTENDS Binding, TLAPS

USE BindingAssumption

-----------------------------------------------------------------------------
(* Entering and leaving the writers' section flips the parity. *)
LEMMA Parity == ASSUME NEW n \in Nat PROVE Even(n + 1) <=> ~Even(n)
  BY DEF Even

(* Advanced is a preorder on bindings. *)
LEMMA AdvancedReflexive == ASSUME NEW a \in WordType PROVE Advanced(a, a)
  BY Zenon DEF Advanced

(* What advances twice has advanced. *)
LEMMA AdvancedTransitive ==
  ASSUME NEW a \in WordType, NEW b \in WordType, NEW c \in WordType,
         Advanced(a, b), Advanced(b, c)
  PROVE  Advanced(a, c)
  BY DEF Advanced, WordType

(* An operation at rest is well-typed and holds no snapshot. *)
LEMMA IdleType == Idle \in OpType /\ Idle.pc = "idle" /\ Idle.snap = Atomic!NoBinding
  BY Zenon DEF Idle, OpType, Pcs, Operations, WordType, States, Atomic!NoBinding

-----------------------------------------------------------------------------
(* At first nothing is bound and nobody is at work. *)
LEMMA InitInvariant == Init => IInv
  <1> SUFFICES ASSUME Init PROVE IInv
    OBVIOUS
  <1>1. /\ committed \in WordType /\ word = committed /\ committed.state = "EMPTY"
        /\ sequence = 0
    BY Zenon DEF Init, Atomic!NoBinding, WordType, States
  <1>2. \A p \in Procs : proc[p] = Idle
    BY Zenon DEF Init
  <1>3. Typed
    BY <1>1, IdleType DEF Init, Typed
  <1>4. Exclusion
    BY <1>1, <1>2, IdleType, Zenon DEF Exclusion, InWrite
  <1>5. Lives /\ GivenUpOnlyDead
    BY <1>1, Zenon DEF Init, Lives, GivenUpOnlyDead, WasBound, Living
  <1>6. \A p \in Procs : Role(p) /\ Reading(p) /\ Decided(p) /\ Writing(p)
    BY <1>2, IdleType, Zenon DEF Role, Reading, Decided, Writing
  <1> QED
    BY <1>3, <1>4, <1>5, <1>6, Zenon DEF IInv

-----------------------------------------------------------------------------
(* A step that changes only how far process p is. *)
LEMMA ProcKeeps ==
  ASSUME IInv, NEW p \in Procs, NEW op \in OpType, Update(p, op),
         UNCHANGED <<sequence, word, life, committed>>,
         op.pc \in InWrite => proc[p].pc \in InWrite,
         proc'[p] = op => Role(p)' /\ Reading(p)' /\ Decided(p)' /\ Writing(p)'
  PROVE  IInv'
  <1>1. /\ proc' \in [Procs -> OpType] /\ proc'[p] = op
        /\ \A q \in Procs \ {p} : proc'[q] = proc[q]
    BY Zenon DEF IInv, Typed, Update
  <1>2. Typed' /\ Exclusion' /\ Lives' /\ GivenUpOnlyDead'
    BY <1>1, Zenon DEF IInv, Typed, Exclusion, Lives, GivenUpOnlyDead
  <1>3. ASSUME NEW q \in Procs \ {p}
        PROVE  Role(q)' /\ Reading(q)' /\ Decided(q)' /\ Writing(q)'
    <2>1. Role(q)' /\ Reading(q)'
      BY <1>1, <1>3 DEF IInv, Role, Reading
    <2>2. Decided(q)'
      BY <1>1, <1>3 DEF IInv, Decided
    <2>3. Writing(q)'
      <3>1. Legal(q, proc[q].snap)' <=> Legal(q, proc[q].snap)
        BY <1>1, <1>3, Zenon DEF Legal
      <3>2. Legal(q, word)' <=> Legal(q, word)
        BY <1>1, <1>3, Zenon DEF Legal
      <3> QED
        BY <1>1, <1>3, <3>1, <3>2, Zenon DEF IInv, Writing
    <2> QED
      BY <2>1, <2>2, <2>3, Zenon
  <1> QED
    BY <1>1, <1>2, <1>3, Zenon DEF IInv

(* Whoever returns is at nothing. *)
LEMMA LeaveKeeps ==
  ASSUME IInv, NEW p \in Procs, Leave(p), UNCHANGED <<sequence, word, life, committed>>
  PROVE  IInv'
  <1>1. proc'[p] = Idle => Role(p)' /\ Reading(p)' /\ Decided(p)' /\ Writing(p)'
    BY IdleType, Zenon DEF Role, Reading, Decided, Writing
  <1> QED
    BY <1>1, IdleType, ProcKeeps, Zenon DEF Leave, InWrite

(* An operation begins; it has read nothing yet. *)
LEMMA BeginKeeps ==
  ASSUME IInv, NEW c \in CPUs, NEW t \in Tasks, Observe(c, t) PROVE IInv'
  <1> DEFINE op == [Idle EXCEPT !.pc = "before", !.op = "observe", !.arg = t]
  <1>1. /\ Update(c, op) /\ UNCHANGED <<sequence, word, life, committed>>
        /\ life[t] \in Living /\ c \in Procs
    BY Zenon DEF Observe, Begin, Living, Procs
  <1>2. /\ op \in OpType /\ op.pc = "before" /\ op.op = "observe" /\ op.arg = t
    BY Zenon DEF Idle, OpType, Pcs, Operations, WordType, States, Atomic!NoBinding
  <1> HIDE DEF op
  <1>3. proc'[c] = op => Role(c)' /\ Reading(c)' /\ Decided(c)' /\ Writing(c)'
    BY <1>1, <1>2, Zenon DEF Role, Reading, Decided, Writing
  <1> QED
    BY <1>1, <1>2, <1>3, ProcKeeps, Zenon DEF InWrite

(* The control channel calls for a write: nothing is stored yet. *)
LEMMA WriteKeeps ==
  ASSUME IInv, NEW o \in {"set", "clear"}, NEW arg \in Requests \cup {None},
         o = "set" => arg \in Requests, Write(o, arg)
  PROVE  IInv'
  <1> DEFINE op == [Idle EXCEPT !.pc = "write", !.op = o, !.arg = arg]
  <1>1. Update(Control, op) /\ UNCHANGED <<sequence, word, life, committed>> /\ Control \in Procs
    BY Zenon DEF Write, Procs
  <1>2. op \in OpType /\ op.pc = "write" /\ op.op = o /\ op.arg = arg
    BY Zenon DEF Idle, OpType, Pcs, Operations, WordType, States, Atomic!NoBinding
  <1> HIDE DEF op
  <1>3. proc'[Control] = op =>
          Role(Control)' /\ Reading(Control)' /\ Decided(Control)' /\ Writing(Control)'
    BY <1>1, <1>2, Zenon DEF Role, Reading, Decided, Writing
  <1> QED
    BY <1>1, <1>2, <1>3, ProcKeeps, Zenon DEF InWrite

-----------------------------------------------------------------------------
(* The steps of a snapshot.  What is read while the sequence is the even      *)
(* value it was at first is the last committed binding.                       *)
LEMMA ReadKeeps ==
  ASSUME IInv, NEW p \in Procs, Read(p) PROVE IInv'
  <1>0. /\ UNCHANGED <<sequence, word, life, committed>> /\ proc[p] \in OpType
        /\ sequence \in Nat /\ word \in WordType /\ committed \in WordType
    BY Zenon DEF Read, ReadBefore, ReadHead, ReadBody, ReadAfter, IInv, Typed
  <1>1. ASSUME NEW op \in OpType, Update(p, op), op.op = proc[p].op, op.arg = proc[p].arg,
               proc[p].pc \in {"before", "head", "body", "after"},
               op.pc \in {"before", "head", "body", "after", "decide"},
               proc'[p] = op => Reading(p)'
        PROVE  IInv'
    <2>1. proc'[p] = op => Role(p)'
      BY <1>0, <1>1, ZenonT(60) DEF IInv, Role, InWrite
    <2>2. proc'[p] = op => Decided(p)' /\ Writing(p)'
      BY <1>1, Zenon DEF Decided, Writing
    <2> QED
      BY <1>0, <1>1, <2>1, <2>2, ProcKeeps, Zenon DEF InWrite
  <1>2. CASE proc[p].pc = "before" /\ Even(sequence)
             /\ Update(p, [proc[p] EXCEPT !.pc = "head", !.before = sequence])
    <2> DEFINE op == [proc[p] EXCEPT !.pc = "head", !.before = sequence]
    <2>1. /\ op \in OpType /\ op.pc = "head" /\ op.before = sequence
          /\ op.op = proc[p].op /\ op.arg = proc[p].arg
      BY <1>0, Zenon DEF OpType, Pcs
    <2> HIDE DEF op
    <2>2. proc'[p] = op => Reading(p)'
      BY <1>0, <1>2, <2>1 DEF Reading
    <2>3. Update(p, op)
      BY <1>2, Zenon DEF op
    <2> QED
      BY <1>1, <1>2, <2>1, <2>2, <2>3, Zenon
  <1>3. CASE ReadHead(p)
    <2> DEFINE op == [proc[p] EXCEPT !.pc = "body", !.snap.generation = word.generation,
                                     !.snap.state = word.state]
    <2>1. /\ op \in OpType /\ op.pc = "body" /\ op.before = proc[p].before
          /\ op.op = proc[p].op /\ op.arg = proc[p].arg
          /\ op.snap.generation = word.generation /\ op.snap.state = word.state
      BY <1>0, Zenon DEF OpType, WordType, Pcs
    <2> HIDE DEF op
    <2>2. proc'[p] = op => Reading(p)'
      BY <1>0, <1>3, <2>1 DEF ReadHead, IInv, Exclusion, Reading
    <2>3. Update(p, op) /\ proc[p].pc = "head"
      BY <1>3, Zenon DEF ReadHead, op
    <2> QED
      BY <1>1, <2>1, <2>2, <2>3, Zenon
  <1>4. CASE ReadBody(p)
    <2> DEFINE op == [proc[p] EXCEPT !.pc = "after", !.snap.request = word.request,
                                     !.snap.identity = word.identity]
    <2>1. /\ op \in OpType /\ op.pc = "after" /\ op.before = proc[p].before
          /\ op.op = proc[p].op /\ op.arg = proc[p].arg
          /\ op.snap.generation = proc[p].snap.generation /\ op.snap.state = proc[p].snap.state
          /\ op.snap.request = word.request /\ op.snap.identity = word.identity
      BY <1>0, Zenon DEF OpType, WordType, Pcs
    <2> HIDE DEF op
    <2>2. proc'[p] = op => Reading(p)'
      BY <1>0, <1>4, <2>1 DEF ReadBody, IInv, Exclusion, Reading
    <2>3. Update(p, op) /\ proc[p].pc = "body"
      BY <1>4, Zenon DEF ReadBody, op
    <2> QED
      BY <1>1, <2>1, <2>2, <2>3, Zenon
  <1>5. CASE proc[p].pc = "after" /\ sequence = proc[p].before
             /\ Update(p, [proc[p] EXCEPT !.pc = "decide"])
    <2> DEFINE op == [proc[p] EXCEPT !.pc = "decide"]
    <2>1. /\ op \in OpType /\ op.pc = "decide" /\ op.snap = proc[p].snap
          /\ op.op = proc[p].op /\ op.arg = proc[p].arg
      BY <1>0, Zenon DEF OpType, Pcs
    <2> HIDE DEF op
    <2>2. proc[p].snap = committed
      BY <1>0, <1>5 DEF IInv, Reading, OpType, WordType
    <2>3. proc'[p] = op => Reading(p)'
      BY <1>0, <2>1, <2>2, AdvancedReflexive DEF IInv, Lives, Reading
    <2>4. Update(p, op)
      BY <1>5, Zenon DEF op
    <2> QED
      BY <1>1, <1>5, <2>1, <2>3, <2>4, Zenon
  <1>6. CASE proc[p].pc = "after" /\ Retry(p)
    <2> DEFINE op == [proc[p] EXCEPT !.pc = "before", !.before = 0, !.snap = Idle.snap]
    <2>1. op \in OpType /\ op.pc = "before" /\ op.op = proc[p].op /\ op.arg = proc[p].arg
      BY <1>0, IdleType, Zenon DEF OpType, Pcs
    <2> HIDE DEF op
    <2>2. proc'[p] = op => Reading(p)'
      BY <2>1, Zenon DEF Reading
    <2>3. Update(p, op)
      BY <1>6, Zenon DEF Retry, op
    <2> QED
      BY <1>1, <1>6, <2>1, <2>2, <2>3, Zenon
  <1>7. CASE Leave(p)
    BY <1>0, <1>7, LeaveKeeps, Zenon
  <1> QED
    BY <1>2, <1>3, <1>4, <1>5, <1>6, <1>7, Zenon DEF Read, ReadBefore, ReadAfter

-----------------------------------------------------------------------------
(* What follows from a snapshot carries its generation. *)
LEMMA GotoKeeps ==
  ASSUME IInv, NEW p \in Procs, proc[p].pc = "decide",
         NEW pc \in {"before", "write", "matched"},
         NEW o \in {"match", "bind", "STALE", "EXITED"}, Goto(p, pc, o),
         pc = "before" => o = "match", pc = "write" => o # "match", pc = "matched" => o = "match",
         p \in Tasks => o = "EXITED",
         UNCHANGED <<sequence, word, life, committed>>,
         o = "bind" => Atomic!SelectorMatches(proc[p].snap.request, proc[p].arg),
         proc[p].snap.generation = committed.generation =>
           /\ o \in {"STALE", "EXITED"} =>
                WasBound(committed) /\ life[committed.identity] \in Dead
           /\ pc = "matched" => WasBound(committed) /\ committed.identity = proc[p].arg
  PROVE  IInv'
  <1> DEFINE op == [Idle EXCEPT !.pc = pc, !.op = o, !.arg = proc[p].arg,
                                !.expected = proc[p].snap.generation]
  <1>1. Update(p, op)
    BY Zenon DEF Goto
  <1>2. proc[p] \in OpType /\ committed \in WordType
    BY Zenon DEF IInv, Typed
  <1>3. /\ op \in OpType /\ op.pc = pc /\ op.op = o /\ op.arg = proc[p].arg
        /\ op.expected = proc[p].snap.generation
    BY <1>2, ZenonT(60) DEF Idle, OpType, Pcs, Operations, WordType, States, Atomic!NoBinding
  <1> HIDE DEF op
  <1>4. Advanced(proc[p].snap, committed)
    BY Zenon DEF IInv, Reading
  <1>5. /\ op.expected <= committed.generation
        /\ op.expected = committed.generation => proc[p].snap.request = committed.request
    BY <1>2, <1>3, <1>4 DEF Advanced, OpType, WordType
  <1>6. proc'[p] = op => Role(p)'
    BY <1>3, ZenonT(60) DEF IInv, Role, InWrite
  <1>7. proc'[p] = op => Reading(p)' /\ Writing(p)'
    BY <1>3, Zenon DEF Reading, Writing
  <1>8. proc'[p] = op => Decided(p)'
    BY <1>3, <1>5, Zenon DEF Decided
  <1> QED
    BY <1>1, <1>3, <1>6, <1>7, <1>8, ProcKeeps, Zenon DEF InWrite

(* Two living tasks do not have one pid: a bound task whose pid now belongs   *)
(* to another one is gone.                                                    *)
LEMMA DecideKeeps ==
  ASSUME IInv, NEW p \in Procs, Decide(p) PROVE IInv'
  <1> DEFINE snap == proc[p].snap
             t == proc[p].arg
  <1>0. /\ UNCHANGED <<sequence, word, life, committed>> /\ proc[p] \in OpType
        /\ committed \in WordType /\ life \in [Tasks -> {"unborn", "alive", "exit", "zombie", "gone"}]
    BY Zenon DEF Decide, DecideObserve, DecideMatch, DecideExit, Answered, IInv, Typed
  <1>1. CASE Leave(p)
    BY <1>0, <1>1, LeaveKeeps, Zenon
  <1>2. CASE DecideObserve(p) /\ ~Leave(p)
    <2>1. p \notin Tasks
      BY <1>2, Zenon DEF DecideObserve, IInv, Role
    <2> QED
      BY <1>0, <1>2, <2>1, GotoKeeps, Zenon DEF DecideObserve
  <1>3. ASSUME proc[p].pc = "decide", snap.state = "BOUND",
               snap.generation = committed.generation
        PROVE  /\ WasBound(committed) /\ committed.identity = snap.identity
               /\ snap.identity \in Tasks /\ life[snap.identity] # "unborn"
    <2>1. Advanced(snap, committed) /\ WasBound(snap) /\ snap.generation \in Nat
      BY <1>0, <1>3, Zenon DEF IInv, Reading, WasBound, OpType, WordType
    <2>2. WasBound(committed) /\ committed.identity = snap.identity
      BY <1>3, <2>1 DEF Advanced
    <2> QED
      BY <2>2, Zenon DEF IInv, Lives
  <1>4. CASE DecideMatch(p) /\ ~Leave(p)
    <2>1. /\ proc[p].pc = "decide" /\ proc[p].op = "match"
          /\ snap.state = "BOUND" /\ Identity[t].pid = Identity[snap.identity].pid
          /\ \/ ~SameStrongIdentity(snap.identity, t) /\ Goto(p, "write", "STALE")
             \/ /\ SameStrongIdentity(snap.identity, t)
                /\ \/ life[t] = "zombie" /\ Goto(p, "write", "EXITED")
                   \/ Goto(p, "matched", "match")
      BY <1>4, Zenon DEF DecideMatch
    <2>2. p \notin Tasks /\ t \in Tasks /\ life[t] \in Living
      BY <2>1, Zenon DEF IInv, Role, Procs, InWrite
    <2>3. CASE ~SameStrongIdentity(snap.identity, t) /\ Goto(p, "write", "STALE")
      <3>1. ASSUME snap.generation = committed.generation
            PROVE  life[committed.identity] \in Dead
        <4>1. committed.identity \in Tasks /\ committed.identity # t
          BY <1>3, <2>1, <2>3, <3>1, Zenon DEF SameStrongIdentity
        <4>2. life[committed.identity] \notin Living /\ life[committed.identity] # "unborn"
          BY <1>3, <2>1, <2>2, <3>1, <4>1, Zenon DEF IInv, Lives
        <4> QED
          BY <1>0, <4>1, <4>2, Zenon DEF Living, Dead
      <3> QED
        BY <1>0, <1>3, <2>1, <2>2, <2>3, <3>1, GotoKeeps, Zenon
    <2>4. CASE SameStrongIdentity(snap.identity, t) /\ life[t] = "zombie"
               /\ Goto(p, "write", "EXITED")
      <3>1. snap.generation = committed.generation => committed.identity = t
        BY <1>3, <2>1, <2>2, <2>4, Zenon DEF SameStrongIdentity
      <3> QED
        BY <1>0, <1>3, <2>1, <2>2, <2>4, <3>1, GotoKeeps, Zenon DEF Dead
    <2>5. CASE SameStrongIdentity(snap.identity, t) /\ Goto(p, "matched", "match")
      <3>1. snap.generation = committed.generation => committed.identity = t
        BY <1>3, <2>1, <2>2, <2>5, Zenon DEF SameStrongIdentity
      <3> QED
        BY <1>0, <1>3, <2>1, <2>2, <2>5, <3>1, GotoKeeps, Zenon
    <2> QED
      BY <2>1, <2>3, <2>4, <2>5, Zenon
  <1>5. CASE DecideExit(p) /\ ~Leave(p)
    <2>1. /\ proc[p].pc = "decide" /\ proc[p].op = "exit" /\ snap.state = "BOUND"
          /\ SameStrongIdentity(snap.identity, t) /\ Goto(p, "write", "EXITED")
      BY <1>5, Zenon DEF DecideExit
    <2>2. t \in Tasks /\ life[t] = "exit"
      <3>1. p \notin CPUs /\ p # Control
        BY <2>1, Zenon DEF IInv, Role
      <3> QED
        BY <2>1, <3>1 DEF IInv, Role, Procs
    <2>3. snap.generation = committed.generation => committed.identity = t
      BY <1>3, <2>1, <2>2, Zenon DEF SameStrongIdentity
    <2> QED
      BY <1>0, <1>3, <2>1, <2>2, <2>3, GotoKeeps, Zenon DEF Dead
  <1> QED
    BY <1>1, <1>2, <1>4, <1>5, Zenon DEF Decide, Answered

-----------------------------------------------------------------------------
(* A writer gets in only when nobody is, and from then on no reader that      *)
(* began before will find the sequence it began with.                         *)
LEMMA WriteBeginKeeps ==
  ASSUME IInv, NEW p \in Procs, WriteBegin(p) PROVE IInv'
  <1>1. CASE Leave(p) /\ UNCHANGED sequence
    BY <1>1, LeaveKeeps, Zenon DEF WriteBegin
  <1>2. CASE Even(sequence) /\ sequence' = sequence + 1
             /\ Update(p, [proc[p] EXCEPT !.pc = "check"])
    <2>1. /\ UNCHANGED <<word, life, committed>> /\ proc[p].pc = "write"
          /\ sequence \in Nat /\ word = committed
          /\ \A q \in Procs : proc[q].pc \notin InWrite
      BY <1>2, Zenon DEF WriteBegin, IInv, Typed, Exclusion
    <2>2. /\ proc' \in [Procs -> OpType] /\ \A q \in Procs \ {p} : proc'[q] = proc[q]
          /\ proc'[p].pc = "check" /\ proc'[p].op = proc[p].op /\ proc'[p].arg = proc[p].arg
          /\ proc'[p].expected = proc[p].expected
      <3>1. proc[p] \in OpType /\ proc \in [Procs -> OpType]
        BY Zenon DEF IInv, Typed
      <3>2. ASSUME NEW op \in OpType, op = [proc[p] EXCEPT !.pc = "check"]
            PROVE  /\ op.pc = "check" /\ op.op = proc[p].op /\ op.arg = proc[p].arg
                   /\ op.expected = proc[p].expected
        BY <3>1, <3>2, Zenon DEF OpType
      <3>3. [proc[p] EXCEPT !.pc = "check"] \in OpType
        BY <3>1, Zenon DEF OpType, Pcs, InWrite
      <3> QED
        BY <1>2, <3>1, <3>2, <3>3, Zenon DEF Update
    <2>3. ~Even(sequence')
      BY <1>2, <2>1, Parity, Zenon
    <2>4. Typed' /\ Exclusion' /\ Lives' /\ GivenUpOnlyDead'
      BY <1>2, <2>1, <2>2, <2>3 DEF IInv, Typed, Exclusion, Lives, GivenUpOnlyDead
    <2>5. Role(p)' /\ Reading(p)' /\ Decided(p)' /\ Writing(p)'
      <3>1. Role(p)'
        BY <2>1, <2>2, Zenon DEF IInv, Role, InWrite
      <3>2. Reading(p)' /\ Writing(p)'
        BY <2>1, <2>2, Zenon DEF Reading, Writing
      <3>3. Decided(p)'
        BY <2>1, <2>2, Zenon DEF IInv, Decided
      <3> QED
        BY <3>1, <3>2, <3>3, Zenon
    <2>6. ASSUME NEW q \in Procs \ {p} PROVE Role(q)' /\ Decided(q)' /\ Writing(q)'
      <3>1. Role(q)'
        BY <2>1, <2>2, <2>6 DEF IInv, Role
      <3>2. Decided(q)'
        BY <2>1, <2>2, <2>6 DEF IInv, Decided
      <3>3. Writing(q)'
        BY <2>1, <2>2, <2>6 DEF Writing, InWrite
      <3> QED
        BY <3>1, <3>2, <3>3, Zenon
    <2>7. ASSUME NEW q \in Procs \ {p} PROVE Reading(q)'
      <3>1. proc[q].before \in Nat
        BY <2>7, Zenon DEF IInv, Typed, OpType
      <3> QED
        BY <1>2, <2>1, <2>2, <2>7, <3>1 DEF IInv, Reading
    <2> QED
      BY <2>4, <2>5, <2>6, <2>7, Zenon DEF IInv
  <1> QED
    BY <1>1, <1>2, Zenon DEF WriteBegin

(* The check is made on the committed binding, and what passes it is a legal  *)
(* successor of that binding.                                                 *)
LEMMA WriteCheckKeeps ==
  ASSUME IInv, NEW p \in Procs, WriteCheck(p) PROVE IInv'
  <1> DEFINE valid == \/ proc[p].op \in {"set", "clear"}
                      \/ /\ word.generation = proc[p].expected
                         /\ word.state = (IF proc[p].op = "bind" THEN "PENDING" ELSE "BOUND")
             new == [proc[p] EXCEPT !.pc = "store body", !.snap = Written(p)]
             refused == [proc[p] EXCEPT !.pc = "end", !.op = None]
  <1>1. /\ proc[p].pc = "check" /\ UNCHANGED <<sequence, word, life, committed>>
        /\ Update(p, IF valid THEN new ELSE refused)
    BY Zenon DEF WriteCheck
  <1>2. /\ proc[p] \in OpType /\ word \in WordType /\ word = committed
        /\ proc[p].op \in {"bind", "STALE", "EXITED", "set", "clear"}
    BY <1>1, Zenon DEF IInv, Typed, Writing, Decided
  <1>3. CASE valid
    <2>1. Written(p) \in WordType /\ Legal(p, Written(p))
      <3>1. CASE proc[p].op = "set"
        <4>1. proc[p].arg \in Requests
          BY <1>1, <3>1 DEF IInv, Role, Procs
        <4> QED
          BY <1>2, <3>1, <4>1 DEF Written, Legal, WordType, States
      <3>2. CASE proc[p].op = "clear"
        BY <1>2, <3>2 DEF Written, Legal, WordType, States, Atomic!NoBinding
      <3>3. CASE proc[p].op = "bind"
        <4>1. word.generation = proc[p].expected /\ word.state = "PENDING"
          BY <1>3, <3>3, Zenon
        <4>2. proc[p].arg \in Tasks
          BY <1>1, <3>3, Zenon DEF IInv, Role, Procs
        <4>3. Atomic!SelectorMatches(committed.request, proc[p].arg)
          BY <1>1, <1>2, <3>3, <4>1, Zenon DEF IInv, Decided
        <4> QED
          BY <1>2, <3>3, <4>1, <4>2, <4>3, Zenon DEF Written, Legal, WordType, States
      <3>4. CASE proc[p].op \in {"STALE", "EXITED"}
        <4>1. word.generation = proc[p].expected /\ word.state = "BOUND"
          BY <1>3, <3>4, Zenon
        <4>2. life[committed.identity] \in Dead
          BY <1>1, <1>2, <3>4, <4>1, Zenon DEF IInv, Decided
        <4> QED
          BY <1>2, <3>4, <4>1, <4>2, Zenon DEF Written, Legal, WordType, States
      <3> QED
        BY <1>2, <3>1, <3>2, <3>3, <3>4, Zenon
    <2>2. /\ new \in OpType /\ new.pc = "store body" /\ new.op = proc[p].op
          /\ new.arg = proc[p].arg /\ new.expected = proc[p].expected /\ new.snap = Written(p)
      BY <1>2, <2>1, Zenon DEF OpType, Pcs, InWrite
    <2>3. Update(p, new)
      BY <1>1, <1>3, Zenon
    <2> HIDE DEF new
    <2>8. proc[p].pc = "check" /\ life' = life
      BY <1>1, Zenon
    <2>4. proc'[p] = new => Role(p)'
      <3> SUFFICES ASSUME proc'[p] = new PROVE Role(p)'
        OBVIOUS
      <3>1. Role(p) /\ proc[p].pc # "idle" /\ proc'[p].pc \in InWrite
        BY <2>2, <2>8, Zenon DEF IInv, InWrite
      <3> QED
        BY <2>2, <2>8, <3>1, Zenon DEF Role
    <2>7. proc'[p] = new => Reading(p)' /\ Decided(p)'
      BY <2>2, Zenon DEF Reading, Decided
    <2>5. proc'[p] = new => Legal(p, proc[p].snap)'
      BY <1>1, <2>1, <2>2, ZenonT(60) DEF Legal
    <2>6. proc'[p] = new => Writing(p)'
      BY <2>2, <2>5, Zenon DEF Writing
    <2> QED
      BY <1>1, <2>2, <2>3, <2>4, <2>6, <2>7, ProcKeeps, Zenon DEF InWrite
  <1>4. CASE ~valid
    <2>1. refused \in OpType /\ refused.pc = "end" /\ refused.op = None /\ refused.arg = proc[p].arg
      BY <1>2, Zenon DEF OpType, Pcs, InWrite, Operations
    <2>2. Update(p, refused) /\ proc[p].op \notin {"set", "clear"}
      BY <1>1, <1>4, Zenon
    <2> HIDE DEF refused
    <2>3. proc'[p] = refused => Role(p)'
      BY <1>1, <2>1, <2>2 DEF IInv, Role
    <2>4. proc'[p] = refused => Reading(p)' /\ Decided(p)' /\ Writing(p)'
      BY <1>1, <1>2, <2>1, Zenon DEF Reading, Decided, Writing
    <2> QED
      BY <1>1, <2>1, <2>2, <2>3, <2>4, ProcKeeps, Zenon DEF InWrite
  <1> QED
    BY <1>3, <1>4, Zenon

(* The stores inside the section: readers that began before it see the        *)
(* sequence changed, and nobody else writes.                                  *)
LEMMA StoreKeeps ==
  ASSUME IInv, NEW p \in Procs, NEW op \in OpType, Update(p, op), word' \in WordType,
         proc[p].pc \in InWrite, op.pc \in InWrite,
         op.op = proc[p].op, op.arg = proc[p].arg, op.expected = proc[p].expected,
         op.pc \in {"store head", "end"},
         UNCHANGED <<sequence, life, committed>>,
         proc'[p] = op => Writing(p)'
  PROVE  IInv'
  <1>1. /\ proc' \in [Procs -> OpType] /\ proc'[p] = op
        /\ \A q \in Procs \ {p} : proc'[q] = proc[q]
    BY Zenon DEF IInv, Typed, Update
  <1>2. ~Even(sequence) /\ \A q \in Procs \ {p} : proc[q].pc \notin InWrite
    BY Zenon DEF IInv, Exclusion
  <1>3. Typed' /\ Exclusion' /\ Lives' /\ GivenUpOnlyDead'
    BY <1>1, <1>2 DEF IInv, Typed, Exclusion, Lives, GivenUpOnlyDead
  <1>4. Role(p)' /\ Reading(p)' /\ Decided(p)' /\ Writing(p)'
    <2>1. Role(p)'
      BY <1>1 DEF IInv, Role, InWrite
    <2>2. Reading(p)' /\ Decided(p)'
      BY <1>1, Zenon DEF Reading, Decided
    <2> QED
      BY <1>1, <2>1, <2>2, Zenon
  <1>5. ASSUME NEW q \in Procs \ {p}
        PROVE  Role(q)' /\ Reading(q)' /\ Decided(q)' /\ Writing(q)'
    <2>5. /\ proc'[q] = proc[q] /\ Role(q) /\ Reading(q)
          /\ life' = life /\ sequence' = sequence /\ committed' = committed
      BY <1>1, <1>5, Zenon DEF IInv
    <2>1. Role(q)'
      BY <2>5, Zenon DEF Role
    <2>4. Reading(q)'
      BY <2>5, Zenon DEF Reading
    <2>2. Decided(q)'
      BY <1>1, <1>5, ZenonT(60) DEF IInv, Decided
    <2>3. Writing(q)'
      BY <1>1, <1>2, <1>5 DEF Writing, InWrite
    <2> QED
      BY <2>1, <2>2, <2>3, <2>4, Zenon
  <1> QED
    BY <1>3, <1>4, <1>5, Zenon DEF IInv

(* What a writer is about to store stays legal while it stores it. *)
LEMMA LegalStays ==
  ASSUME NEW p \in Procs, NEW new, Legal(p, new), UNCHANGED <<life, committed>>,
         proc'[p].op = proc[p].op, proc'[p].arg = proc[p].arg,
         proc'[p].expected = proc[p].expected
  PROVE  Legal(p, new)'
  BY ZenonT(60) DEF Legal

(* The writer stores the request and the identity, ... *)
LEMMA WriteBodyKeeps ==
  ASSUME IInv, NEW p \in Procs, WriteBody(p) PROVE IInv'
  <1> DEFINE op == [proc[p] EXCEPT !.pc = "store head"]
  <1>1. /\ proc[p].pc = "store body" /\ Update(p, op) /\ UNCHANGED <<sequence, life, committed>>
        /\ word' = [word EXCEPT !.request = proc[p].snap.request,
                                !.identity = proc[p].snap.identity]
    BY Zenon DEF WriteBody
  <1>2. proc[p] \in OpType /\ word \in WordType
    BY Zenon DEF IInv, Typed
  <1>3. word' \in WordType
    BY <1>1, <1>2, Zenon DEF OpType, WordType
  <1>4. /\ op \in OpType /\ op.pc = "store head" /\ op.op = proc[p].op /\ op.arg = proc[p].arg
        /\ op.expected = proc[p].expected /\ op.snap = proc[p].snap
    BY <1>2, Zenon DEF OpType, Pcs, InWrite
  <1> HIDE DEF op
  <1>5. Legal(p, proc[p].snap)
    BY <1>1, Zenon DEF IInv, Writing
  <1>6. proc'[p] = op => Legal(p, proc[p].snap)'
    <2>1. PICK new : new = proc[p].snap
      OBVIOUS
    <2>2. proc'[p] = op => Legal(p, new)'
      BY <1>1, <1>4, <1>5, <2>1, LegalStays, Zenon
    <2> QED
      BY <1>4, <2>1, <2>2, Zenon
  <1>7. proc'[p] = op => Writing(p)'
    BY <1>4, <1>6, Zenon DEF Writing
  <1> QED
    BY <1>1, <1>3, <1>4, <1>7, StoreKeeps, Zenon DEF InWrite

(* ... then the state and the generation. *)
LEMMA WriteHeadKeeps ==
  ASSUME IInv, NEW p \in Procs, WriteHead(p) PROVE IInv'
  <1> DEFINE op == [proc[p] EXCEPT !.pc = "end", !.snap = Idle.snap]
  <1>1. /\ proc[p].pc = "store head" /\ Update(p, op) /\ UNCHANGED <<sequence, life, committed>>
        /\ word' = proc[p].snap
    BY Zenon DEF WriteHead
  <1>2. proc[p] \in OpType
    BY Zenon DEF IInv, Typed
  <1>3. word' \in WordType
    BY <1>1, <1>2, Zenon DEF OpType
  <1>4. /\ op \in OpType /\ op.pc = "end" /\ op.op = proc[p].op /\ op.arg = proc[p].arg
        /\ op.expected = proc[p].expected
    BY <1>2, IdleType, Zenon DEF OpType, Pcs, InWrite
  <1> HIDE DEF op
  <1>5. Legal(p, proc[p].snap)
    BY <1>1, Zenon DEF IInv, Writing
  <1>6. proc'[p] = op => Legal(p, word)'
    <2>1. PICK new : new = proc[p].snap
      OBVIOUS
    <2>2. proc'[p] = op => Legal(p, new)'
      BY <1>1, <1>4, <1>5, <2>1, LegalStays, Zenon
    <2> QED
      BY <1>1, <2>1, <2>2, Zenon
  <1>7. proc[p].op # None
    BY <1>5, Zenon DEF Legal
  <1>8. proc'[p] = op => Writing(p)'
    BY <1>4, <1>6, <1>7, Zenon DEF Writing
  <1> QED
    BY <1>1, <1>3, <1>4, <1>8, StoreKeeps, Zenon DEF InWrite

-----------------------------------------------------------------------------
(* What is published is the committed binding again or a later form of it,    *)
(* bound to a task that was born, and given up only after its death.          *)
LEMMA LegalAdvances ==
  ASSUME IInv, NEW p \in Procs, proc[p].pc = "end"
  PROVE  /\ Advanced(committed, word)
         /\ WasBound(word) => word.identity \in Tasks /\ life[word.identity] # "unborn"
         /\ word.state \in {"STALE", "EXITED"} => life[word.identity] \in Dead
         /\ proc[p].op = "bind" => /\ WasBound(word) /\ word.identity = proc[p].arg
                                   /\ word.generation = proc[p].expected
  <1>1. committed \in WordType /\ word \in WordType /\ proc[p] \in OpType
    BY Zenon DEF IInv, Typed
  <1>2. CASE proc[p].op = None
    BY <1>1, <1>2, AdvancedReflexive, Zenon
       DEF IInv, Writing, Lives, GivenUpOnlyDead, Dead
  <1>3. CASE proc[p].op # None
    <2>1. Legal(p, word)
      BY <1>3, Zenon DEF IInv, Writing
    <2>2. CASE proc[p].op = "set"
      BY <1>1, <2>1, <2>2 DEF Legal, Advanced, WasBound, WordType
    <2>3. CASE proc[p].op = "clear"
      BY <1>1, <2>1, <2>3 DEF Legal, Advanced, WasBound, WordType, Atomic!NoBinding
    <2>4. CASE proc[p].op = "bind"
      <3>1. proc[p].arg \in Tasks /\ life[proc[p].arg] \in Living
        BY <2>4, Zenon DEF IInv, Role, Procs
      <3> QED
        BY <1>1, <2>1, <2>4, <3>1, ZenonT(60) DEF Legal, Advanced, WasBound, WordType, Living
    <2>5. CASE proc[p].op \in {"STALE", "EXITED"}
      BY <1>1, <2>1, <2>5 DEF Legal, Advanced, WasBound, WordType, IInv, Lives
    <2> QED
      BY <2>1, <2>2, <2>3, <2>4, <2>5, Zenon DEF Legal
  <1> QED
    BY <1>2, <1>3, Zenon

(* What a process of another operation knows survives a new binding. *)
LEMMA KnowledgeKept ==
  ASSUME IInv, NEW q \in Procs, proc'[q] = proc[q], UNCHANGED life,
         committed' \in WordType, Advanced(committed, committed'),
         sequence' = sequence + 1
  PROVE  Role(q)' /\ Reading(q)' /\ Decided(q)'
  <1>1. /\ committed \in WordType /\ proc[q] \in OpType /\ sequence \in Nat
        /\ Role(q) /\ Reading(q) /\ Decided(q)
    BY Zenon DEF IInv, Typed
  <1>2. Role(q)'
    BY <1>1, Zenon DEF Role
  <1>3. Reading(q)'
    <2>1. proc[q].before \in Nat /\ proc[q].snap \in WordType
      BY <1>1, Zenon DEF OpType
    <2>2. proc[q].pc \in {"head", "body", "after"} =>
            Even(proc[q].before) /\ proc[q].before <= sequence' /\ proc[q].before # sequence'
      BY <1>1, <2>1 DEF Reading
    <2>3. proc[q].pc = "decide" => Advanced(proc[q].snap, committed')
      BY <1>1, <2>1, AdvancedTransitive, Zenon DEF Reading
    <2> QED
      BY <1>1, <2>2, <2>3, Zenon DEF Reading
  <1>4. Decided(q)'
    <2> SUFFICES ASSUME proc[q].pc \in {"write", "check", "matched"} PROVE Decided(q)'
      BY Zenon DEF Decided
    <2>1. /\ proc[q].expected \in Nat /\ committed.generation \in Nat
          /\ committed'.generation \in Nat
      BY <1>1, Zenon DEF OpType, WordType
    <2>2. committed.generation <= committed'.generation
      BY <2>1 DEF Advanced
    <2>3. CASE proc[q].op \in {"set", "clear"}
      BY <1>1, <2>3, Zenon DEF Decided
    <2>4. CASE proc[q].op \notin {"set", "clear"}
      <3>1. proc[q].expected <= committed'.generation
        BY <1>1, <2>1, <2>2, <2>4 DEF Decided
      <3>2. CASE proc[q].expected # committed'.generation
        BY <1>1, <3>1, <3>2, Zenon DEF Decided
      <3>3. CASE proc[q].expected = committed'.generation
        <4>1. committed.generation = committed'.generation
          BY <1>1, <2>1, <2>2, <2>4, <3>3 DEF Decided
        <4>2. /\ committed'.request = committed.request
              /\ WasBound(committed) =>
                   WasBound(committed)' /\ committed'.identity = committed.identity
          BY <2>1, <4>1 DEF Advanced, WasBound
        <4> QED
          BY <1>1, <3>1, <3>3, <4>1, <4>2, Zenon DEF Decided
      <3> QED
        BY <3>2, <3>3, Zenon
    <2> QED
      BY <2>3, <2>4, Zenon
  <1> QED
    BY <1>2, <1>3, <1>4, Zenon

(* The writer leaves: the sequence is even and the words are the binding.     *)
LEMMA WriteEndKeeps ==
  ASSUME IInv, NEW p \in Procs, WriteEnd(p) PROVE IInv'
  <1>1. /\ proc[p].pc = "end" /\ sequence' = sequence + 1 /\ committed' = word
        /\ UNCHANGED <<word, life>>
    BY Zenon DEF WriteEnd
  <1>2. /\ sequence \in Nat /\ word \in WordType /\ proc[p] \in OpType
        /\ ~Even(sequence) /\ \A q \in Procs \ {p} : proc[q].pc \notin InWrite
    BY <1>1, Zenon DEF IInv, Typed, Exclusion, InWrite
  <1>3. PICK op \in OpType : /\ Update(p, op)
                             /\ \/ op = Idle
                                \/ /\ proc[p].op = "bind" /\ op.pc = "matched"
                                   /\ op.op = proc[p].op /\ op.arg = proc[p].arg
                                   /\ op.expected = proc[p].expected
    <2>1. CASE proc[p].op = "bind"
      <3> DEFINE op == [proc[p] EXCEPT !.pc = "matched"]
      <3>1. op \in OpType /\ op.pc = "matched" /\ op.op = proc[p].op /\ op.arg = proc[p].arg
            /\ op.expected = proc[p].expected
        BY <1>2, Zenon DEF OpType, Pcs
      <3>2. Update(p, op)
        BY <2>1, Zenon DEF WriteEnd
      <3> HIDE DEF op
      <3> QED
        BY <2>1, <3>1, <3>2, Zenon
    <2>2. CASE proc[p].op # "bind"
      BY <2>2, IdleType, Zenon DEF WriteEnd, Leave
    <2> QED
      BY <2>1, <2>2, Zenon
  <1>4. /\ proc' \in [Procs -> OpType] /\ proc'[p] = op
        /\ \A q \in Procs \ {p} : proc'[q] = proc[q]
    BY <1>3, Zenon DEF IInv, Typed, Update
  <1>5. Advanced(committed, committed')
    BY <1>1, LegalAdvances, Zenon
  <1>6. op.pc \in {"idle", "matched"}
    BY <1>3, IdleType, Zenon
  <1>7. Typed' /\ Lives' /\ GivenUpOnlyDead'
    <2>1. Typed'
      BY <1>1, <1>2, <1>4 DEF IInv, Typed
    <2>2. Lives'
      BY <1>1, LegalAdvances, Zenon DEF IInv, Lives, WasBound
    <2>3. GivenUpOnlyDead'
      BY <1>1, LegalAdvances, Zenon DEF GivenUpOnlyDead, Dead
    <2> QED
      BY <2>1, <2>2, <2>3, Zenon
  <1>8. Exclusion'
    <2>1. \A q \in Procs : proc'[q].pc \notin InWrite
      BY <1>2, <1>4, <1>6, Zenon DEF InWrite
    <2> QED
      BY <1>1, <2>1, Zenon DEF Exclusion
  <1>9. Role(p)' /\ Reading(p)' /\ Decided(p)' /\ Writing(p)'
    <2>1. CASE op = Idle
      BY <1>4, <2>1, IdleType, Zenon DEF Role, Reading, Decided, Writing
    <2>2. CASE proc[p].op = "bind" /\ op.pc = "matched" /\ op.op = proc[p].op
               /\ op.arg = proc[p].arg /\ op.expected = proc[p].expected
      <3>1. Role(p) /\ p \in CPUs
        BY <1>1, <2>2, Zenon DEF IInv, Role, Procs
      <3>2. Role(p)'
        BY <1>1, <1>4, <2>2, <3>1, Zenon DEF Role
      <3>3. Reading(p)' /\ Writing(p)'
        BY <1>4, <2>2, Zenon DEF Reading, Writing
      <3>4. /\ WasBound(committed)' /\ committed'.identity = op.arg
            /\ committed'.generation = op.expected /\ op.expected \in Nat
        BY <1>1, <1>2, <2>2, LegalAdvances, Zenon DEF WasBound, OpType
      <3>5. Decided(p)'
        BY <1>4, <2>2, <3>4 DEF Decided
      <3> QED
        BY <3>2, <3>3, <3>5, Zenon
    <2> QED
      BY <1>3, <2>1, <2>2, Zenon
  <1>10. ASSUME NEW q \in Procs \ {p}
         PROVE  Role(q)' /\ Reading(q)' /\ Decided(q)' /\ Writing(q)'
    <2>1. proc'[q] = proc[q] /\ committed' \in WordType
      BY <1>1, <1>2, <1>4, <1>10, Zenon
    <2>2. Writing(q)'
      BY <1>2, <1>10, <2>1, Zenon DEF Writing, InWrite
    <2> QED
      BY <1>1, <1>5, <2>1, <2>2, KnowledgeKept, Zenon
  <1> QED
    BY <1>7, <1>8, <1>9, <1>10, Zenon DEF IInv

-----------------------------------------------------------------------------
(* Task t gets on with its life: born while no task of its pid lives, in      *)
(* do_exit, a zombie, gone; never while a callback is about it.               *)
LEMMA LifeKeeps ==
  ASSUME IInv, NEW t \in Tasks, NEW stage \in {"alive", "exit", "zombie", "gone"},
         UNCHANGED <<sequence, word, committed>>, life' = [life EXCEPT ![t] = stage],
         proc' \in [Procs -> OpType], \A q \in Procs \ {t} : proc'[q] = proc[q],
         \A c \in CPUs : proc[c].pc # "idle" => proc[c].arg # t,
         life[t] \in Dead => stage \in Dead,
         stage \in Living /\ life[t] \notin Living =>
           \A u \in Tasks \ {t} : Identity[u].pid = Identity[t].pid => life[u] \notin Living,
         proc[t].pc = "idle", proc'[t].pc \in {"idle", "before"},
         Role(t)'
  PROVE  IInv'
  <1>1. /\ life \in [Tasks -> {"unborn", "alive", "exit", "zombie", "gone"}]
        /\ life' \in [Tasks -> {"unborn", "alive", "exit", "zombie", "gone"}]
        /\ life'[t] = stage /\ \A u \in Tasks \ {t} : life'[u] = life[u]
    BY Zenon DEF IInv, Typed
  <1>2. Typed' /\ Exclusion'
    <2>1. Typed'
      BY <1>1, Zenon DEF IInv, Typed
    <2>2. \A q \in Procs : proc'[q].pc \in InWrite => proc[q].pc \in InWrite
      BY Zenon DEF InWrite
    <2> QED
      BY <2>1, <2>2, Zenon DEF IInv, Exclusion
  <1>3. /\ \A u \in Tasks : life[u] \in Dead => life'[u] \in Dead
        /\ \A u \in Tasks : life[u] # "unborn" => life'[u] # "unborn"
    BY <1>1, Zenon
  <1>4. Lives'
    <2>1. ASSUME NEW u \in Tasks, NEW v \in Tasks, Identity[u].pid = Identity[v].pid,
                 life'[u] \in Living, life'[v] \in Living
          PROVE  u = v
      BY <1>1, <2>1 DEF IInv, Lives
    <2>2. WasBound(committed)' => WasBound(committed)
      BY Zenon DEF WasBound
    <2> QED
      BY <1>3, <2>1, <2>2, Zenon DEF IInv, Lives
  <1>5. WasBound(committed) => committed.identity \in Tasks
    BY Zenon DEF IInv, Lives
  <1>6. GivenUpOnlyDead'
    BY <1>3, <1>5, Zenon DEF IInv, GivenUpOnlyDead, Dead, WasBound
  <1>7. Reading(t)' /\ Decided(t)' /\ Writing(t)'
    BY Zenon DEF Reading, Decided, Writing
  <1>8. ASSUME NEW q \in Procs \ {t}
        PROVE  Role(q)' /\ Reading(q)' /\ Decided(q)' /\ Writing(q)'
    <2>1. /\ proc'[q] = proc[q] /\ Role(q) /\ Reading(q) /\ Decided(q) /\ Writing(q)
          /\ committed' = committed /\ word' = word /\ sequence' = sequence
      BY <1>8, Zenon DEF IInv
    <2>2. Role(q)'
      BY <1>1, <1>8, <2>1 DEF Role
    <2>3. Reading(q)'
      BY <2>1, Zenon DEF Reading
    <2>4. Decided(q)'
      BY <1>3, <1>5, <2>1, Zenon DEF Decided
    <2>5. Legal(q, proc[q].snap) => Legal(q, proc[q].snap)'
      BY <1>3, <1>5, <2>1, Zenon DEF Legal, WasBound
    <2>6. Legal(q, word) => Legal(q, word)'
      BY <1>3, <1>5, <2>1, Zenon DEF Legal, WasBound
    <2>7. Writing(q)'
      BY <2>1, <2>5, <2>6 DEF Writing
    <2> QED
      BY <2>2, <2>3, <2>4, <2>7, Zenon
  <1> QED
    BY <1>2, <1>4, <1>6, <1>7, <1>8, Zenon DEF IInv, Procs

(* A task dies, ... *)
LEMMA DoExitKeeps == ASSUME IInv, NEW t \in Tasks, DoExit(t) PROVE IInv'
  <1> DEFINE op == [Idle EXCEPT !.pc = "before", !.op = "exit", !.arg = t]
  <1>1. /\ Update(t, op) /\ UNCHANGED <<sequence, word, committed>> /\ proc[t].pc = "idle"
        /\ life[t] = "alive" /\ life' = [life EXCEPT ![t] = "exit"] /\ t \in Procs
        /\ \A c \in CPUs : proc[c].pc # "idle" => proc[c].arg # t
    BY Zenon DEF DoExit, Begin, Executes, IsAbout, Procs
  <1>2. op \in OpType /\ op.pc = "before" /\ op.op = "exit" /\ op.arg = t
    BY Zenon DEF Idle, OpType, Pcs, Operations, WordType, States, Atomic!NoBinding
  <1> HIDE DEF op
  <1>3. /\ proc' \in [Procs -> OpType] /\ proc'[t] = op
        /\ \A q \in Procs \ {t} : proc'[q] = proc[q]
    BY <1>1, <1>2, Zenon DEF IInv, Typed, Update
  <1>4. life'[t] = "exit"
    BY <1>1, Zenon DEF IInv, Typed
  <1>5. Role(t)'
    BY <1>2, <1>3, <1>4, Zenon DEF Role
  <1> QED
    BY <1>1, <1>2, <1>3, <1>5, LifeKeeps, Zenon DEF Living, Dead

(* ... its exit is reported, ... *)
LEMMA ExitNotifyKeeps == ASSUME IInv, NEW t \in Tasks, ExitNotify(t) PROVE IInv'
  <1>1. /\ UNCHANGED <<sequence, word, proc, committed>> /\ proc[t].pc = "idle"
        /\ \A c \in CPUs : proc[c].pc # "idle" => proc[c].arg # t
        /\ proc \in [Procs -> OpType]
    BY Zenon DEF ExitNotify, Executes, IsAbout, IInv, Typed
  <1>2. PICK stage \in {"zombie", "gone"} :
          /\ life' = [life EXCEPT ![t] = stage]
          /\ life[t] \in {"exit", "zombie"}
    BY Zenon DEF ExitNotify
  <1>3. Role(t)'
    BY <1>1, Zenon DEF Role
  <1> QED
    BY <1>1, <1>2, <1>3, LifeKeeps, Zenon DEF Living, Dead

(* ... and a new one may get its number. *)
LEMMA ForkKeeps == ASSUME IInv, NEW t \in Tasks, Fork(t) PROVE IInv'
  <1>1. /\ UNCHANGED <<sequence, word, proc, committed>> /\ life' = [life EXCEPT ![t] = "alive"]
        /\ life[t] = "unborn" /\ proc \in [Procs -> OpType] /\ t \in Procs
        /\ \A u \in Tasks \ {t} : Identity[u].pid = Identity[t].pid => life[u] \notin Living
    BY Zenon DEF Fork, IInv, Typed, Living, Procs
  <1>2. \A c \in CPUs : proc[c].pc # "idle" => proc[c].arg # t
    BY <1>1, Zenon DEF IInv, Role, Living, Procs
  <1>3. proc[t].pc = "idle"
    BY <1>1, Zenon DEF IInv, Role
  <1>4. Role(t)'
    BY <1>1, <1>3, Zenon DEF Role
  <1> QED
    BY <1>1, <1>2, <1>3, <1>4, LifeKeeps, Zenon DEF Dead

-----------------------------------------------------------------------------
(* A step that changes nothing keeps the invariant, ... *)
LEMMA StutterKeeps == ASSUME IInv, UNCHANGED vars PROVE IInv'
  <1>1. /\ proc' = proc /\ sequence' = sequence /\ word' = word /\ life' = life
        /\ committed' = committed
    BY Zenon DEF vars
  <1>2. Typed' /\ Exclusion' /\ Lives' /\ GivenUpOnlyDead'
    BY <1>1, Zenon DEF IInv, Typed, Exclusion, Lives, GivenUpOnlyDead
  <1>3. ASSUME NEW q \in Procs PROVE Role(q)' /\ Reading(q)' /\ Decided(q)' /\ Writing(q)'
    <2>1. Role(q) /\ Reading(q) /\ Decided(q) /\ Writing(q)
      BY <1>3, Zenon DEF IInv
    <2>2. Role(q)' /\ Reading(q)'
      BY <1>1, <2>1, Zenon DEF Role, Reading
    <2>3. Decided(q)'
      BY <1>1, <2>1, Zenon DEF Decided
    <2>4. Legal(q, proc[q].snap)' <=> Legal(q, proc[q].snap)
      BY <1>1, Zenon DEF Legal
    <2>5. Legal(q, word)' <=> Legal(q, word)
      BY <1>1, Zenon DEF Legal
    <2> QED
      BY <1>1, <2>1, <2>2, <2>3, <2>4, <2>5, Zenon DEF Writing
  <1> QED
    BY <1>2, <1>3, Zenon DEF IInv

(* ... and so does every step of every actor. *)
LEMMA NextInvariant == IInv /\ [Next]_vars => IInv'
  <1> SUFFICES ASSUME IInv, [Next]_vars PROVE IInv'
    OBVIOUS
  <1>1. CASE \E p \in Procs : Step(p)
    BY <1>1, ReadKeeps, DecideKeeps, WriteBeginKeeps, WriteCheckKeeps, WriteBodyKeeps,
       WriteHeadKeeps, WriteEndKeeps, Zenon DEF Step, WriteStep
  <1>2. CASE \E c \in CPUs, t \in Tasks : Observe(c, t)
    BY <1>2, BeginKeeps, Zenon
  <1>3. CASE \E t \in Tasks : DoExit(t) \/ ExitNotify(t) \/ Fork(t)
    BY <1>3, DoExitKeeps, ExitNotifyKeeps, ForkKeeps, Zenon
  <1>4. CASE Write("clear", None) \/ \E r \in Requests : Write("set", r)
    BY <1>4, WriteKeeps, Zenon
  <1>5. CASE UNCHANGED vars
    BY <1>5, StutterKeeps, Zenon
  <1> QED
    BY <1>1, <1>2, <1>3, <1>4, <1>5, Zenon DEF Next

(* The invariant of the sequence lock, the readers, the decisions and the     *)
(* lives of the tasks holds in every state.                                   *)
THEOREM Invariance == Spec => []IInv
  BY InitInvariant, NextInvariant, PTL DEF Spec

(* spz_binding_snapshot never returns words of two bindings, with any number  *)
(* of writers and however long the reader is interrupted.                     *)
THEOREM AtomicSnapshot == Spec => []SnapshotAtomic
  <1>1. IInv => SnapshotAtomic
    <2> SUFFICES ASSUME IInv, NEW p \in Procs, proc[p].pc = "after", proc[p].before = sequence
                 PROVE  proc[p].snap = committed
      BY Zenon DEF SnapshotAtomic
    <2>1. proc[p] \in OpType /\ committed \in WordType
      BY Zenon DEF IInv, Typed
    <2> QED
      BY <2>1 DEF IInv, Reading, OpType, WordType
  <1> QED
    BY <1>1, Invariance, PTL

(* A callback is told that its task is the target of the current generation   *)
(* only if that task was bound, whatever tasks had its pid before it.         *)
THEOREM Inheritance == Spec => []NeverInherited
  <1>1. IInv => NeverInherited
    BY Zenon DEF IInv, Decided, NeverInherited, Procs
  <1> QED
    BY <1>1, Invariance, PTL

(* A binding becomes STALE or EXITED only after its task has entered do_exit: *)
(* a late mark of an old generation never hits a new binding.                 *)
THEOREM GivenUp == Spec => []GivenUpOnlyDead
  <1>1. IInv => GivenUpOnlyDead
    BY Zenon DEF IInv
  <1> QED
    BY <1>1, Invariance, PTL

-----------------------------------------------------------------------------
(* Every step but the end of a successful write leaves the committed binding  *)
(* alone, and that one is a step of the atomic binding.                       *)
LEMMA StepImplements == IInv /\ [Next]_vars => [Atomic!Next]_committed
  <1> SUFFICES ASSUME IInv, [Next]_vars, committed' # committed PROVE Atomic!Next
    BY SMTT(60)
  <1>1. PICK p \in Procs : WriteEnd(p)
    BY Zenon DEF Next, vars, Step, Read, ReadBefore, ReadHead, ReadBody, ReadAfter, Decide,
           DecideObserve, DecideMatch, DecideExit, Answered, WriteStep, WriteBegin, WriteCheck,
           WriteBody, WriteHead, Observe, DoExit, ExitNotify, Fork, Write, Begin
  <1>2. committed' = word /\ proc[p].pc = "end"
    BY <1>1, Zenon DEF WriteEnd
  <1>3. Legal(p, word)
    BY <1>2, Zenon DEF IInv, Writing
  <1>4. CASE proc[p].op = "set"
    <2>1. proc[p].arg \in Requests
      BY <1>2, <1>4 DEF IInv, Role, Procs
    <2> QED
      BY <1>2, <1>3, <1>4, <2>1, Zenon DEF Legal, Atomic!Next, Atomic!Set
  <1>5. CASE proc[p].op = "clear"
    BY <1>2, <1>3, <1>5, Zenon DEF Legal, Atomic!Next, Atomic!Clear
  <1>6. CASE proc[p].op = "bind"
    <2>1. proc[p].arg \in Tasks
      BY <1>2, <1>6, Zenon DEF IInv, Role, Procs
    <2> QED
      BY <1>2, <1>3, <1>6, <2>1, Zenon DEF Legal, Atomic!Next, Atomic!BindTo
  <1>7. CASE proc[p].op \in {"STALE", "EXITED"}
    BY <1>2, <1>3, <1>7, Zenon DEF Legal, Atomic!Next, Atomic!End
  <1> QED
    BY <1>3, <1>4, <1>5, <1>6, <1>7, Zenon DEF Legal

(* The four words behind the sequence counter implement one atomic value that *)
(* is set, cleared, bound once to a selected task and given up for good.      *)
THEOREM Refinement == Spec => ImplementsAtomic
  <1>1. Init => Atomic!Init
    BY Zenon DEF Init, Atomic!Init
  <1> QED
    BY <1>1, StepImplements, Invariance, PTL DEF Spec, ImplementsAtomic, Atomic!Spec
=============================================================================
