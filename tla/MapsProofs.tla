----------------------------- MODULE MapsProofs ------------------------------
(* However many readers, bindings, pages and snapshots there are, and however *)
(* capture, worker, readers and target interleave: the gate keeps readers and *)
(* writers apart, a snapshot shows one moment of the address space, what a    *)
(* client puts together is one snapshot, and references and buffers balance.  *)
EXTENDS Maps, TLAPS

-----------------------------------------------------------------------------
(* The steps of the capture, the worker, the readers and the target keep the  *)
(* invariant of Maps.                                                         *)

USE MapsAssumption

Inside == {r \in Readers : reader[r].pc \in Counted}

(* The pages are numbers. *)
LEMMA PagesNat == Pages \subseteq Nat
  <1>1. \A n : Pages = 0 .. n - 1 => Pages \subseteq Nat
    BY SMT
  <1> QED
    BY <1>1, Zenon

(* A step that moves no reader in or out leaves the count right. *)
LEMMA StayCounted ==
  ASSUME readers = Cardinality(Inside), readers \in Nat, UNCHANGED readers,
         \A q \in Readers : reader'[q].pc \in Counted <=> reader[q].pc \in Counted
  PROVE  readers' = Cardinality(Inside') /\ readers' \in Nat
  <1>1. Inside' = Inside
    BY Zenon DEF Inside
  <1> QED
    BY <1>1, Zenon

(* A step that moves nothing the invariant speaks of. *)
LEMMA StutterKeeps == IInv /\ UNCHANGED vars => IInv'
  <1> SUFFICES ASSUME IInv, UNCHANGED vars PROVE IInv'
    OBVIOUS
  <1>1. /\ UNCHANGED <<writer, readers, state, task, data, refs, buffers, space, locked, users>>
        /\ UNCHANGED <<generation, capture, worker, reader, requests, published>>
    BY Zenon DEF vars, gate, fields, memory, target, history
  <1>2. Typed'
    BY <1>1, Zenon DEF IInv, Typed
  <1>3. Gate' /\ Holding'
    BY <1>1, Zenon DEF IInv, Gate, Holding, Kept
  <1>4. Request' /\ Walk'
    BY <1>1, ZenonT(60) DEF IInv, Request, Walk
  <1>5. ASSUME NEW r \in Readers PROVE Chunks(r)'
    BY <1>1, Zenon DEF IInv, Chunks
  <1>6. OneReference' /\ SnapshotCoherent' /\ FetchedWhole'
    BY <1>1, Zenon DEF IInv, OneReference, SnapshotCoherent, FetchedWhole
  <1> QED
    BY <1>2, <1>3, <1>4, <1>5, <1>6, Zenon DEF IInv

-----------------------------------------------------------------------------
(* A step of reader r alone: what it has to keep is its own part of the       *)
(* invariant and the count.                                                   *)
LEMMA ReaderKeeps ==
  ASSUME IInv, NEW r \in Readers, NEW n \in ReaderType, Goto(r, n),
         UNCHANGED <<writer, fields, memory, target, generation, capture, worker, history>>,
         readers' \in Nat, readers' = Cardinality(Inside'),
         n.pc \in {"check", "copy"} => reader[r].pc \in {"check", "copy"} \/ writer = 0,
         worker.op = "maps" /\ worker.pc \notin {"idle", "end", "release"} /\ n.id = worker.id
           => n.got = <<>>,
         Chunks(r)', n.pc = "whole" => Shows(n.got, published[n.id])
  PROVE  IInv'
  <1>1. /\ UNCHANGED <<writer, state, task, data, refs, buffers, space, locked, users>>
        /\ UNCHANGED <<generation, capture, worker, requests, published>>
    BY Zenon DEF fields, memory, target, history
  <1>2. /\ reader' \in [Readers -> ReaderType] /\ reader'[r] = n
        /\ \A q \in Readers \ {r} : reader'[q] = reader[q]
    BY Zenon DEF IInv, Typed, Goto
  <1>3. Typed'
    <2>1. locked' \in BOOLEAN
      BY <1>1, Zenon DEF IInv, Typed
    <2> QED
      BY <1>1, <1>2, <2>1, Zenon DEF IInv, Typed
  <1>4. Gate'
    BY <1>1, <1>2 DEF IInv, Gate, Inside
  <1>5. Holding' /\ Walk'
    BY <1>1, Zenon DEF IInv, Holding, Kept, Walk
  <1>6. Request'
    BY <1>1, <1>2, Zenon DEF IInv, Request
  <1>7. \A q \in Readers : Chunks(q)'
    <2> SUFFICES ASSUME NEW q \in Readers \ {r} PROVE Chunks(q)'
      OBVIOUS
    <2>1. reader'[q] = reader[q] /\ Chunks(q)
      BY <1>2, Zenon DEF IInv
    <2> QED
      BY <1>1, <2>1, Zenon DEF Chunks
  <1>8. OneReference' /\ SnapshotCoherent'
    BY <1>1, Zenon DEF IInv, OneReference, SnapshotCoherent
  <1>9. FetchedWhole'
    BY <1>1, <1>2, Zenon DEF IInv, FetchedWhole
  <1> QED
    BY <1>3, <1>4, <1>5, <1>6, <1>7, <1>8, <1>9, Zenon DEF IInv

(* A step of reader r that copies nothing: it keeps its chunks or has none.   *)
LEMMA NoChunkKeeps ==
  ASSUME IInv, NEW r \in Readers, NEW n \in ReaderType, Goto(r, n),
         UNCHANGED <<writer, fields, memory, target, generation, capture, worker, history>>,
         readers' \in Nat, readers' = Cardinality(Inside'),
         n.pc \notin {"copy", "whole"}, n.held = None, n.id <= requests,
         n.pc = "check" => writer = 0,
         n.got = <<>> \/ (n.id = reader[r].id /\ n.got = reader[r].got)
  PROVE  IInv'
  <1>1. reader'[r] = n
    BY Zenon DEF IInv, Typed, Goto
  <1>2. Chunks(r) /\ UNCHANGED <<data, requests>>
    BY Zenon DEF IInv, fields, history
  <1>3. Chunks(r)'
    BY <1>1, <1>2 DEF Chunks
  <1>4. worker.op = "maps" /\ worker.pc \notin {"idle", "end", "release"} /\ n.id = worker.id
           => n.got = <<>>
    BY Zenon DEF IInv, Request
  <1> QED
    BY <1>3, <1>4, ReaderKeeps, Zenon

(* The records of the readers, the worker and the capture that do nothing.    *)
LEMMA IdleTypes ==
  /\ IdleReader \in ReaderType /\ IdleReader.pc = "idle" /\ IdleReader.held = None
  /\ IdleReader.id = 0 /\ IdleReader.got = <<>>
  /\ IdleWorker \in WorkerType
  BY DEF IdleReader, ReaderType, IdleWorker, WorkerType

(* What reader r looks like to the others before and after its step.          *)
LEMMA ReaderSteps ==
  ASSUME Typed, NEW r \in Readers, NEW n \in ReaderType, Goto(r, n)
  PROVE  /\ reader'[r] = n /\ \A q \in Readers \ {r} : reader'[q] = reader[q]
         /\ reader[r] \in ReaderType
  BY Zenon DEF Typed, Goto

(* The client asks for a snapshot, ... *)
LEMMA FetchKeeps ==
  ASSUME IInv, NEW r \in Readers, NEW id \in 1 .. requests, Fetch(r, id)
  PROVE  IInv'
  <1> DEFINE n == [IdleReader EXCEPT !.pc = "look", !.id = id]
  <1>0. /\ Typed /\ readers = Cardinality(Inside) /\ readers \in Nat
        /\ id \in 0 .. MaxSnapshot /\ id <= requests
    BY DEF IInv, Gate, Inside, Typed
  <1>1. n \in ReaderType /\ n.pc = "look" /\ n.id = id /\ n.got = <<>> /\ n.held = None
    BY <1>0, IdleTypes, Zenon DEF ReaderType
  <1> HIDE DEF n
  <1>2. /\ Goto(r, n) /\ UNCHANGED readers
        /\ UNCHANGED <<writer, fields, memory, target, generation, capture, worker, history>>
    BY Zenon DEF Fetch, n, gate
  <1>3. reader[r].pc \notin Counted /\ n.pc \notin Counted
    BY <1>1, Zenon DEF Fetch, Counted
  <1>4. readers' = Cardinality(Inside') /\ readers' \in Nat
    BY <1>0, <1>1, <1>2, <1>3, ReaderSteps, StayCounted, Zenon
  <1>5. n.pc \notin {"copy", "whole", "check"} /\ n.id <= requests
    BY <1>0, <1>1, Zenon
  <1> QED
    BY <1>1, <1>2, <1>4, <1>5, NoChunkKeeps, Zenon

(* ... is refused or not at the first look, ... *)
LEMMA LookKeeps == ASSUME IInv, NEW r \in Readers, ReadLook(r) PROVE IInv'
  <1> DEFINE n == IF writer = 0 THEN [reader[r] EXCEPT !.pc = "count"] ELSE IdleReader
  <1>0. /\ Typed /\ readers = Cardinality(Inside) /\ readers \in Nat /\ reader[r] \in ReaderType
        /\ reader[r].held = None /\ reader[r].id <= requests /\ 0 <= requests
    BY DEF IInv, Gate, Inside, Typed, ReadLook, Chunks
  <1>1. /\ n \in ReaderType /\ n.pc \in {"count", "idle"} /\ n.held = None /\ n.id <= requests
        /\ n.got = <<>> \/ (n.id = reader[r].id /\ n.got = reader[r].got)
    <2>1. CASE writer = 0
      BY <1>0, <2>1, Zenon DEF ReaderType
    <2>2. CASE writer # 0
      BY <1>0, <2>2, IdleTypes, Zenon
    <2> QED
      BY <2>1, <2>2, Zenon
  <1> HIDE DEF n
  <1>2. /\ Goto(r, n) /\ UNCHANGED readers
        /\ UNCHANGED <<writer, fields, memory, target, generation, capture, worker, history>>
    BY Zenon DEF ReadLook, n, gate
  <1>3. reader[r].pc \notin Counted /\ n.pc \notin Counted
    BY <1>1, Zenon DEF ReadLook, Counted
  <1>4. readers' = Cardinality(Inside') /\ readers' \in Nat
    BY <1>0, <1>1, <1>2, <1>3, ReaderSteps, StayCounted
  <1> QED
    BY <1>1, <1>2, <1>4, NoChunkKeeps, Zenon

(* ... and looks again: it goes on only when no writer is there. *)
LEMMA AgainKeeps == ASSUME IInv, NEW r \in Readers, ReadAgain(r) PROVE IInv'
  <1> DEFINE n == [reader[r] EXCEPT !.pc = IF writer = 0 THEN "check" ELSE "leave"]
  <1>0. /\ Typed /\ readers = Cardinality(Inside) /\ readers \in Nat /\ reader[r] \in ReaderType
        /\ reader[r].held = None /\ reader[r].id <= requests
    BY Zenon DEF IInv, Gate, Inside, Typed, ReadAgain, Chunks
  <1>1. /\ n \in ReaderType /\ n.pc \in {"check", "leave"} /\ n.held = None
        /\ n.id <= requests
        /\ n.pc = "check" => writer = 0
    BY <1>0, Zenon DEF ReaderType, Counted
  <1>11. n.id = reader[r].id /\ n.got = reader[r].got
    BY <1>0, Zenon DEF ReaderType
  <1> HIDE DEF n
  <1>2. /\ Goto(r, n) /\ UNCHANGED readers
        /\ UNCHANGED <<writer, fields, memory, target, generation, capture, worker, history>>
    BY Zenon DEF ReadAgain, n, gate
  <1>3. reader[r].pc \in Counted /\ n.pc \in Counted
    BY <1>1, Zenon DEF ReadAgain, Counted
  <1>4. readers' = Cardinality(Inside') /\ readers' \in Nat
    BY <1>0, <1>1, <1>2, <1>3, ReaderSteps, StayCounted, Zenon
  <1> QED
    BY <1>1, <1>11, <1>2, <1>4, NoChunkKeeps, Zenon

(* It finds the snapshot it wants, longer than what it has, or leaves. *)
LEMMA CheckKeeps == ASSUME IInv, NEW r \in Readers, ReadCheck(r) PROVE IInv'
  <1>0. /\ Typed /\ readers = Cardinality(Inside) /\ readers \in Nat /\ reader[r] \in ReaderType
        /\ reader[r].held = None /\ reader[r].id <= requests /\ reader[r].pc = "check"
        /\ Chunks(r) /\ data \in Snapshot \cup {None}
        /\ UNCHANGED <<readers, data, requests>>
        /\ UNCHANGED <<writer, fields, memory, target, generation, capture, worker, history>>
    BY Zenon DEF IInv, Gate, Inside, Typed, ReadCheck, Chunks, gate, fields, history
  <1>1. CASE state = "READY" /\ data # None /\ data.id = reader[r].id
             /\ Len(reader[r].got) < Len(data.content)
    <2> DEFINE n == [reader[r] EXCEPT !.pc = "copy", !.held = data]
    <2>1. n \in ReaderType /\ n.pc = "copy" /\ n.held = data
      BY <1>0, Zenon DEF ReaderType, Counted
    <2>2. n.id = reader[r].id /\ n.got = reader[r].got
      BY <1>0, Zenon DEF ReaderType
    <2> HIDE DEF n
    <2>3. Goto(r, n)
      BY <1>1, Zenon DEF ReadCheck, n
    <2>4. reader'[r] = n /\ \A q \in Readers \ {r} : reader'[q] = reader[q]
      BY <1>0, <2>1, <2>3, ReaderSteps, Zenon
    <2>5. readers' = Cardinality(Inside') /\ readers' \in Nat
      BY <1>0, <2>1, <2>4, StayCounted, Zenon DEF Counted
    <2>6. Chunks(r)'
      BY <1>0, <1>1, <2>1, <2>2, <2>4, Zenon DEF Chunks
    <2>7. worker.op = "maps" /\ worker.pc \notin {"idle", "end", "release"} /\ n.id = worker.id
           => n.got = <<>>
      BY <2>2, Zenon DEF IInv, Request
    <2> QED
      BY <1>0, <2>1, <2>3, <2>5, <2>6, <2>7, ReaderKeeps, Zenon
  <1>2. CASE ~(state = "READY" /\ data # None /\ data.id = reader[r].id
               /\ Len(reader[r].got) < Len(data.content))
    <2> DEFINE n == [reader[r] EXCEPT !.pc = "leave"]
    <2>1. n \in ReaderType /\ n.pc = "leave" /\ n.held = None
      BY <1>0, Zenon DEF ReaderType, Counted
    <2>2. n.id = reader[r].id /\ n.got = reader[r].got
      BY <1>0, Zenon DEF ReaderType
    <2> HIDE DEF n
    <2>3. Goto(r, n)
      BY <1>2, Zenon DEF ReadCheck, n
    <2>4. reader'[r] = n /\ \A q \in Readers \ {r} : reader'[q] = reader[q]
      BY <1>0, <2>1, <2>3, ReaderSteps, Zenon
    <2>5. readers' = Cardinality(Inside') /\ readers' \in Nat
      BY <1>0, <2>1, <2>4, StayCounted, Zenon DEF Counted
    <2> QED
      BY <1>0, <2>1, <2>2, <2>3, <2>5, NoChunkKeeps, Zenon
  <1> QED
    BY <1>1, <1>2, Zenon

-----------------------------------------------------------------------------
(* A step of the capture: the gate, its own record, and what it retains.      *)
LEMMA CaptureKeeps ==
  ASSUME IInv, UNCHANGED <<readers, data, buffers, target, generation, worker, reader, history>>,
         writer' \in {0, 1}, state' \in {"EMPTY", "TASK_CAPTURED", "READY"},
         task' \in Generations \cup {None}, refs' \in [Generations -> Nat],
         capture' \in [pc : {"idle", "has", "begin", "wait", "in"}, gen : 0 .. MaxGeneration],
         capture'.pc # "idle" => capture'.gen > 0,
         writer' = 1 <=> capture'.pc \in {"wait", "in"} \/ worker.pc \in WorkerInside \cup {"wait"},
         ~(capture'.pc \in {"wait", "in"} /\ worker.pc \in WorkerInside \cup {"wait"}),
         capture'.pc = "in" => capture.pc = "in" \/ Inside = {},
         worker.pc \in Rendering \ {"out"} => task' = task,
         OneReference'
  PROVE  IInv'
  <1>1. UNCHANGED <<readers, data, buffers, space, locked, users, generation, worker, reader,
                    requests, published>>
    BY Zenon DEF target, history
  <1>2. Typed'
    <2>1. locked' \in BOOLEAN
      BY <1>1, Zenon DEF IInv, Typed
    <2> QED
      BY <1>1, <2>1, Zenon DEF IInv, Typed
  <1>3. Gate'
    <2>1. ASSUME Inside = {}, NEW r \in Readers PROVE reader[r].pc \notin Counted
      BY <2>1, Zenon DEF Inside
    <2>2. readers' = Cardinality({r \in Readers : reader'[r].pc \in Counted})
      BY <1>1, Zenon DEF IInv, Gate
    <2>3. capture'.pc = "in" \/ worker'.pc \in WorkerInside =>
            \A r \in Readers : reader'[r].pc \notin {"check", "copy"}
      BY <1>1, <2>1, Zenon DEF IInv, Gate, Counted
    <2> QED
      BY <1>1, <2>2, <2>3, Zenon DEF Gate
  <1>4. Holding' /\ Walk'
    BY <1>1, Zenon DEF IInv, Holding, Kept, Walk
  <1>5. Request'
    BY <1>1, Zenon DEF IInv, Request
  <1>6. ASSUME NEW r \in Readers PROVE Chunks(r)'
    BY <1>1 DEF IInv, Chunks
  <1>7. SnapshotCoherent' /\ FetchedWhole'
    BY <1>1, Zenon DEF IInv, SnapshotCoherent, FetchedWhole
  <1> QED
    BY <1>2, <1>3, <1>4, <1>5, <1>6, <1>7, Zenon DEF IInv

(* The steps before the gate only look. *)
LEMMA CaptureLookKeeps == ASSUME IInv, CaptureBegin \/ CaptureHasTask PROVE IInv'
  <1>1. /\ UNCHANGED <<readers, data, buffers, target, generation, worker, reader, history>>
        /\ UNCHANGED <<writer, state, task, refs>>
    BY Zenon DEF CaptureBegin, CaptureHasTask, gate, fields, memory
  <1>2. /\ capture' \in [pc : {"idle", "has", "begin", "wait", "in"}, gen : 0 .. MaxGeneration]
        /\ capture'.pc \in {"idle", "has", "begin"} /\ capture.pc \in {"idle", "has"}
        /\ capture'.pc # "idle" => capture'.gen > 0
    <2>1. CASE CaptureBegin
      BY <2>1, Zenon DEF CaptureBegin, IInv, Typed
    <2>2. CASE CaptureHasTask
      BY <2>2 DEF CaptureHasTask, IInv, Typed, IdleCapture, Request
    <2> QED
      BY <2>1, <2>2, Zenon
  <1>3. OneReference'
    BY <1>1, Zenon DEF IInv, OneReference
  <1>4. /\ writer' \in {0, 1} /\ state' \in {"EMPTY", "TASK_CAPTURED", "READY"}
        /\ task' \in Generations \cup {None} /\ refs' \in [Generations -> Nat]
    BY <1>1, Zenon DEF IInv, Typed
  <1>5. writer' = 1 <=> capture'.pc \in {"wait", "in"} \/ worker.pc \in WorkerInside \cup {"wait"}
    BY <1>1, <1>2, Zenon DEF IInv, Gate
  <1> QED
    BY <1>1, <1>2, <1>3, <1>4, <1>5, CaptureKeeps, Zenon

(* The gate lets it in when the flag was down and no reader is left. *)
LEMMA CaptureGateKeeps == ASSUME IInv, readers = 0 => Inside = {}, CaptureGate PROVE IInv'
  <1>1. /\ UNCHANGED <<readers, data, buffers, target, generation, worker, reader, history>>
        /\ UNCHANGED <<state, task, refs>>
    BY Zenon DEF CaptureGate, fields, memory
  <1>2. OneReference'
    BY <1>1, Zenon DEF IInv, OneReference
  <1>3. /\ state' \in {"EMPTY", "TASK_CAPTURED", "READY"}
        /\ task' \in Generations \cup {None} /\ refs' \in [Generations -> Nat]
    BY <1>1, Zenon DEF IInv, Typed
  <1>4. /\ writer \in {0, 1}
        /\ capture \in [pc : {"idle", "has", "begin", "wait", "in"}, gen : 0 .. MaxGeneration]
        /\ capture.pc # "idle" => capture.gen > 0
        /\ writer = 1 <=> capture.pc \in {"wait", "in"} \/ worker.pc \in WorkerInside \cup {"wait"}
        /\ ~(capture.pc \in {"wait", "in"} /\ worker.pc \in WorkerInside \cup {"wait"})
    BY Zenon DEF IInv, Typed, Request, Gate
  <1>5. /\ writer' \in {0, 1}
        /\ capture' \in [pc : {"idle", "has", "begin", "wait", "in"}, gen : 0 .. MaxGeneration]
        /\ capture'.pc # "idle" => capture'.gen > 0
        /\ writer' = 1 <=> capture'.pc \in {"wait", "in"} \/ worker.pc \in WorkerInside \cup {"wait"}
        /\ ~(capture'.pc \in {"wait", "in"} /\ worker.pc \in WorkerInside \cup {"wait"})
        /\ capture'.pc = "in" => capture.pc = "in" \/ readers = 0
    <2>1. CASE capture.pc = "begin"
      BY <1>4, <2>1 DEF CaptureGate, WriteBegin, IdleCapture
    <2>2. CASE capture.pc = "wait"
      BY <1>4, <2>2 DEF CaptureGate, WriteWait, IdleCapture
    <2> QED
      BY <2>1, <2>2, Zenon DEF CaptureGate
  <1> QED
    BY <1>1, <1>2, <1>3, <1>5, CaptureKeeps, Zenon

(* Inside, it takes a reference to the task it retains. *)
LEMMA CaptureTaskKeeps == ASSUME IInv, CaptureTask PROVE IInv'
  <1>1. /\ UNCHANGED <<readers, data, buffers, target, generation, worker, reader, history>>
        /\ capture.pc = "in" /\ writer' = 0 /\ capture' = IdleCapture
    BY Zenon DEF CaptureTask
  <1>2. worker.pc \notin WorkerInside \cup {"wait"}
    BY <1>1, Zenon DEF IInv, Gate
  <1>3. /\ capture' \in [pc : {"idle", "has", "begin", "wait", "in"}, gen : 0 .. MaxGeneration]
        /\ capture'.pc = "idle" /\ capture.gen \in Generations
    BY <1>1 DEF IInv, Typed, Request, IdleCapture, Generations
  <1>4. /\ state' \in {"EMPTY", "TASK_CAPTURED", "READY"}
        /\ task' \in Generations \cup {None} /\ refs' \in [Generations -> Nat]
    BY <1>3 DEF IInv, Typed, CaptureTask
  <1>5. OneReference'
    <2>1. refs \in [Generations -> Nat] /\ OneReference /\ worker' = worker
      BY <1>1, Zenon DEF IInv, Typed
    <2>2. CASE task = None /\ task' = capture.gen /\ refs' = [refs EXCEPT ![capture.gen] = @ + 1]
      <3> SUFFICES ASSUME NEW g \in Generations
                   PROVE  refs'[g] = (IF g = task' THEN 1 ELSE 0)
                                     + (IF g = worker.task THEN 1 ELSE 0)
        BY <1>4, <2>1, Zenon DEF OneReference
      <3>1. refs[g] = (IF g = task THEN 1 ELSE 0) + (IF g = worker.task THEN 1 ELSE 0)
        BY <2>1, Zenon DEF OneReference
      <3>2. g # None
        BY DEF Generations
      <3>3. refs'[g] = IF g = capture.gen THEN refs[g] + 1 ELSE refs[g]
        BY <2>1, <2>2, Zenon
      <3> QED
        BY <2>2, <3>1, <3>2, <3>3
    <2>3. CASE UNCHANGED <<task, refs>>
      BY <2>1, <2>3, Zenon DEF OneReference
    <2> QED
      BY <2>2, <2>3, Zenon DEF CaptureTask
  <1>6. worker.pc \notin Rendering
    BY <1>2, Zenon DEF WorkerInside
  <1> QED
    BY <1>1, <1>2, <1>3, <1>4, <1>5, <1>6, CaptureKeeps

-----------------------------------------------------------------------------
(* A new binding changes nothing but the generation. *)
LEMMA BindKeeps == ASSUME IInv, Bind PROVE IInv'
  <1>1. /\ UNCHANGED <<writer, readers, state, task, data, refs, buffers, space, locked, users>>
        /\ UNCHANGED <<capture, worker, reader, requests, published>>
    BY Zenon DEF Bind, gate, fields, memory, target, history
  <1>2. Typed'
    <2>1. generation' \in 0 .. MaxGeneration
      BY DEF Bind, IInv, Typed
    <2>2. locked' \in BOOLEAN
      BY <1>1, Zenon DEF IInv, Typed
    <2> QED
      BY <1>1, <2>1, <2>2, Zenon DEF IInv, Typed
  <1>3. Gate' /\ Holding'
    BY <1>1, ZenonT(60) DEF IInv, Gate, Holding, Kept
  <1>4. Request' /\ Walk'
    BY <1>1 DEF IInv, Request, Walk
  <1>5. ASSUME NEW r \in Readers PROVE Chunks(r)'
    BY <1>1, Zenon DEF IInv, Chunks
  <1>6. OneReference' /\ SnapshotCoherent' /\ FetchedWhole'
    BY <1>1, Zenon DEF IInv, OneReference, SnapshotCoherent, FetchedWhole
  <1> QED
    BY <1>2, <1>3, <1>4, <1>5, <1>6, Zenon DEF IInv

(* The target maps and unmaps only while the worker is not walking. *)
LEMMA MmapKeeps == ASSUME IInv, Mmap PROVE IInv'
  <1>1. /\ UNCHANGED <<writer, readers, state, task, data, refs, buffers, locked, users>>
        /\ UNCHANGED <<generation, capture, worker, reader, requests, published>>
    BY Zenon DEF Mmap, gate, fields, memory, history
  <1>2. Typed'
    <2>1. space' \in SUBSET Pages
      BY Zenon DEF Mmap, IInv, Typed
    <2>2. locked' \in BOOLEAN
      BY <1>1, Zenon DEF IInv, Typed
    <2> QED
      BY <1>1, <2>1, <2>2, Zenon DEF IInv, Typed
  <1>3. Gate' /\ Holding'
    BY <1>1, ZenonT(60) DEF IInv, Gate, Holding, Kept
  <1>4. Request'
    BY <1>1, Zenon DEF IInv, Request
  <1>5. Walk'
    <2>1. worker.pc # "walk"
      BY Zenon DEF Mmap, IInv, Holding
    <2> QED
      BY <1>1, <2>1, Zenon DEF IInv, Walk
  <1>6. ASSUME NEW r \in Readers PROVE Chunks(r)'
    BY <1>1, Zenon DEF IInv, Chunks
  <1>7. OneReference' /\ SnapshotCoherent' /\ FetchedWhole'
    BY <1>1, Zenon DEF IInv, OneReference, SnapshotCoherent, FetchedWhole
  <1> QED
    BY <1>2, <1>3, <1>4, <1>5, <1>6, <1>7, Zenon DEF IInv

-----------------------------------------------------------------------------
(* The gate, seen from a step of the worker. *)
LEMMA WorkerGateKept ==
  ASSUME IInv, UNCHANGED <<readers, capture, reader>>,
         writer' = 1 <=> capture.pc \in {"wait", "in"} \/ worker'.pc \in WorkerInside \cup {"wait"},
         ~(capture.pc \in {"wait", "in"} /\ worker'.pc \in WorkerInside \cup {"wait"}),
         worker'.pc \in WorkerInside => worker.pc \in WorkerInside \/ Inside = {}
  PROVE  Gate'
  <1>1. ASSUME Inside = {}, NEW r \in Readers PROVE reader[r].pc \notin Counted
    BY <1>1, Zenon DEF Inside
  <1>2. readers' = Cardinality({r \in Readers : reader'[r].pc \in Counted})
    BY Zenon DEF IInv, Gate
  <1>3. capture'.pc = "in" \/ worker'.pc \in WorkerInside =>
          \A r \in Readers : reader'[r].pc \notin {"check", "copy"}
    BY <1>1, Zenon DEF IInv, Gate, Counted
  <1> QED
    BY <1>2, <1>3, Zenon DEF Gate

(* A step of the worker that neither publishes nor takes nor gives: it goes   *)
(* on with its request, or is idle.                                           *)
LEMMA RequestKeeps ==
  ASSUME IInv, UNCHANGED <<readers, fields, refs, space, generation, capture, reader, history>>,
         writer' \in {0, 1}, Gate', worker' \in WorkerType,
         buffers' \in SUBSET Ids, locked' \in BOOLEAN, users' \in Nat, Holding', Walk',
         worker'.task = worker.task,
         \/ worker'.pc = "idle" /\ worker'.id = 0
         \/ /\ worker'.op = worker.op /\ worker'.gen = worker.gen /\ worker'.id = worker.id
            /\ worker.pc # "idle"
            /\ worker.pc \in {"end", "release"} => worker'.pc \in {"end", "release"},
         worker'.pc \in {"begin", "wait"} => worker'.op \in {"maps", "clear"},
         worker'.pc \in Rendering \cup {"maps"} => worker'.op = "maps",
         worker'.pc \in Rendering \ {"out"} => task = worker'.gen
  PROVE  IInv'
  <1>1. UNCHANGED <<readers, state, task, data, refs, space, generation, capture, reader,
                    requests, published>>
    BY Zenon DEF fields, history
  <1>2. Typed'
    BY <1>1, Zenon DEF IInv, Typed
  <1>3. Request'
    <2>1. 0 <= requests
      BY DEF IInv, Typed
    <2> QED
      BY <1>1, <2>1, Zenon DEF IInv, Request, Rendering
  <1>4. ASSUME NEW r \in Readers PROVE Chunks(r)'
    BY <1>1 DEF IInv, Chunks
  <1>5. OneReference' /\ SnapshotCoherent' /\ FetchedWhole'
    BY <1>1, ZenonT(60) DEF IInv, OneReference, SnapshotCoherent, FetchedWhole
  <1> QED
    BY <1>2, <1>3, <1>4, <1>5, Zenon DEF IInv

(* The worker's record after At(pc). *)
LEMMA AtSteps ==
  ASSUME Typed, NEW pc \in WorkerInside \cup {"idle", "begin", "wait", "release"}, At(pc)
  PROVE  /\ worker' \in WorkerType /\ worker'.pc = pc
         /\ worker'.op = worker.op /\ worker'.gen = worker.gen /\ worker'.id = worker.id
         /\ worker'.cursor = worker.cursor /\ worker'.out = worker.out
         /\ worker'.buffer = worker.buffer /\ worker'.task = worker.task
  BY Zenon DEF Typed, At, WorkerType

(* The gate lets the worker in, or its request ends. *)
LEMMA WorkerGateKeeps == ASSUME IInv, readers = 0 => Inside = {}, WorkerGate PROVE IInv'
  <1>1. /\ UNCHANGED <<readers, fields, refs, space, generation, capture, reader, history>>
        /\ UNCHANGED <<buffers, locked, users, data, published>>
    BY Zenon DEF WorkerGate, memory, target, fields, history
  <1>2. /\ Typed /\ worker \in WorkerType /\ writer \in {0, 1}
        /\ writer = 1 <=> capture.pc \in {"wait", "in"} \/ worker.pc \in WorkerInside \cup {"wait"}
        /\ ~(capture.pc \in {"wait", "in"} /\ worker.pc \in WorkerInside \cup {"wait"})
    BY Zenon DEF IInv, Typed, Gate
  <1>3. /\ worker.buffer = None /\ worker.task = None /\ worker.out = <<>> /\ worker.cursor = 0
        /\ ~locked /\ users = 0 /\ buffers = Kept /\ worker.op \in {"maps", "clear"}
        /\ worker.pc \in {"begin", "wait"}
    BY Zenon DEF WorkerGate, IInv, Holding, Walk, Request
  <1>4. /\ buffers' \in SUBSET Ids /\ users' \in Nat
    BY <1>1, Zenon DEF IInv, Typed
  <1>5. locked' \in BOOLEAN
    BY <1>1, Zenon DEF IInv, Typed
  <1>6. ASSUME worker' = IdleWorker,
               writer' = 0 \/ (writer' = 1 /\ writer = 1 /\ worker.pc = "begin"),
               writer' = 0 => worker.pc = "wait"
        PROVE  IInv'
    <2>1. /\ worker' \in WorkerType /\ worker'.pc = "idle" /\ worker'.id = 0
          /\ worker'.task = None /\ worker'.buffer = None
      BY <1>6, IdleTypes, Zenon DEF IdleWorker
    <2>2. worker.pc = "begin" => capture.pc \in {"wait", "in"} \/ writer = 0
      BY <1>2, Zenon DEF WorkerInside, Rendering
    <2>3. worker.pc = "wait" => capture.pc \notin {"wait", "in"}
      BY <1>2, Zenon
    <2>4. worker'.pc \notin WorkerInside \cup {"wait"}
      BY <2>1, Zenon DEF WorkerInside, Rendering
    <2>5. writer' = 1 <=> capture.pc \in {"wait", "in"}
      BY <1>6, <2>2, <2>3, <1>3
    <2>6. Gate'
      BY <1>1, <2>4, <2>5, WorkerGateKept, Zenon
    <2>7. Holding' /\ Walk'
      BY <1>1, <1>3, <2>1, Zenon DEF Holding, Walk, Kept, Rendering
    <2>8. writer' \in {0, 1}
      BY <1>6, Zenon
    <2>9. worker'.pc \notin Rendering \cup {"maps"}
      BY <2>1, Zenon DEF Rendering
    <2> QED
      BY <1>1, <1>3, <1>4, <1>5, <2>1, <2>6, <2>7, <2>8, <2>9, RequestKeeps, Zenon
  <1>7. ASSUME NEW pc \in {"wait", "maps", "clear"}, At(pc), writer' = 1,
               capture.pc \notin {"wait", "in"},
               pc # "wait" => readers = 0 /\ worker.op = pc
        PROVE  IInv'
    <2>1. pc \in WorkerInside \cup {"idle", "begin", "wait", "release"}
      BY Zenon DEF WorkerInside
    <2>2. /\ worker' \in WorkerType /\ worker'.pc = pc
          /\ worker'.op = worker.op /\ worker'.gen = worker.gen /\ worker'.id = worker.id
          /\ worker'.cursor = worker.cursor /\ worker'.out = worker.out
          /\ worker'.buffer = worker.buffer /\ worker'.task = worker.task
      BY <1>2, <1>7, <2>1, AtSteps, Zenon
    <2>3. worker'.pc \in WorkerInside \cup {"wait"} /\ "wait" \notin WorkerInside
      BY <2>2, Zenon DEF WorkerInside, Rendering
    <2>4. Gate'
      BY <1>1, <1>7, <2>2, <2>3, WorkerGateKept, Zenon
    <2>5. Holding' /\ Walk'
      BY <1>1, <1>3, <2>2, Zenon DEF Holding, Walk, Kept, Rendering
    <2>6. /\ worker'.pc \notin Rendering
          /\ worker'.pc = "maps" => worker'.op = "maps"
          /\ worker'.pc \in {"begin", "wait"} => worker'.op \in {"maps", "clear"}
      BY <1>3, <1>7, <2>2, Zenon DEF Rendering
    <2> QED
      BY <1>1, <1>3, <1>4, <1>5, <1>7, <2>2, <2>4, <2>5, <2>6, RequestKeeps, Zenon
  <1>8. CASE worker.pc = "begin"
    <2>1. CASE writer = 0
      <3>1. writer' = 1 /\ At("wait") /\ capture.pc \notin {"wait", "in"}
        BY <1>2, <1>8, <2>1 DEF WorkerGate, WriteBegin
      <3> QED
        BY <3>1, <1>7, Zenon
    <2>2. CASE writer = 1
      <3>1. writer' = 1 /\ worker' = IdleWorker
        BY <1>8, <2>2 DEF WorkerGate, WriteBegin
      <3> QED
        BY <3>1, <1>6, <1>8, <2>2
    <2> QED
      BY <1>2, <2>1, <2>2, Zenon
  <1>9. CASE worker.pc = "wait"
    <2>0. writer = 1 /\ capture.pc \notin {"wait", "in"}
      BY <1>2, <1>9, Zenon
    <2>1. CASE readers = 0
      <3>1. writer' = 1 /\ At(worker.op)
        BY <1>9, <2>0, <2>1, Zenon DEF WorkerGate, WriteWait
      <3> QED
        BY <3>1, <1>3, <1>7, <2>0, <2>1, Zenon
    <2>2. CASE readers # 0
      <3>1. writer' = 0 /\ worker' = IdleWorker
        BY <1>9, <2>2, Zenon DEF WorkerGate, WriteWait
      <3> QED
        BY <3>1, <1>6, <1>9, Zenon
    <2> QED
      BY <2>1, <2>2, Zenon
  <1> QED
    BY <1>3, <1>8, <1>9, Zenon

(* A step of the rendering, inside the gate. *)
LEMMA RenderKeeps ==
  ASSUME IInv, UNCHANGED <<gate, fields, refs, space, generation, capture, reader, history>>,
         worker.pc \in Rendering \cup {"maps"}, worker'.pc \in Rendering \cup {"end"},
         worker' \in WorkerType, worker'.op = worker.op, worker'.gen = worker.gen,
         worker'.id = worker.id, worker'.task = worker.task,
         buffers' \in SUBSET Ids, locked' \in BOOLEAN, users' \in Nat, Holding', Walk',
         worker'.pc \in Rendering \ {"out"} => task = worker.gen
  PROVE  IInv'
  <1>1. /\ UNCHANGED <<readers, fields, refs, space, generation, capture, reader, history>>
        /\ UNCHANGED writer
    BY Zenon DEF gate
  <1>2. worker.pc \in WorkerInside /\ worker'.pc \in WorkerInside
    BY Zenon DEF WorkerInside
  <1>3. Gate'
    BY <1>1, <1>2, WorkerGateKept, Zenon DEF IInv, Gate
  <1>4. writer' \in {0, 1} /\ worker.op = "maps"
    BY <1>1, Zenon DEF IInv, Typed, Request
  <1>5. /\ worker.pc \notin {"idle", "end", "release"}
        /\ worker'.pc \notin {"begin", "wait"}
    BY Zenon DEF Rendering
  <1> QED
    BY <1>1, <1>3, <1>4, <1>5, RequestKeeps, Zenon

(* The task is compared and a buffer taken; ... *)
LEMMA SnapshotCheckKeeps == ASSUME IInv, SnapshotCheck PROVE IInv'
  <1>1. /\ UNCHANGED <<gate, fields, refs, space, generation, capture, reader, history>>
        /\ UNCHANGED <<locked, users, data, space, published>> /\ worker.pc = "maps"
    BY Zenon DEF SnapshotCheck, target, fields, history
  <1>2. /\ Typed /\ worker.buffer = None /\ worker.task = None
        /\ worker.out = <<>> /\ worker.cursor = 0
        /\ ~locked /\ users = 0 /\ buffers = Kept /\ buffers \in SUBSET Ids /\ worker.id \in Ids
    BY <1>1, SMTT(60) DEF IInv, Holding, Walk, Request, Typed, WorkerType, Ids
  <1>3. locked' \in BOOLEAN
    BY <1>1, Zenon DEF IInv, Typed
  <1>4. Kept' = Kept /\ None \notin Kept
    BY <1>1, <1>2 DEF Kept, Typed, Snapshot, Ids
  <1>5. CASE task = worker.gen /\ At("mm") /\ buffers' = buffers \cup {worker.id}
    <2>1. /\ worker' \in WorkerType /\ worker'.pc = "mm"
          /\ worker'.op = worker.op /\ worker'.gen = worker.gen /\ worker'.id = worker.id
          /\ worker'.cursor = worker.cursor /\ worker'.out = worker.out
          /\ worker'.buffer = worker.buffer /\ worker'.task = worker.task
      BY <1>2, <1>5, AtSteps, Zenon DEF WorkerInside, Rendering
    <2>2. Holding' /\ Walk'
      BY <1>1, <1>2, <1>4, <1>5, <2>1, Zenon DEF Holding, Walk, Rendering
    <2>3. buffers' \in SUBSET Ids /\ users' \in Nat
      BY <1>1, <1>2, <1>5, Zenon
    <2>4. worker.pc \in Rendering \cup {"maps"} /\ worker'.pc \in Rendering \cup {"end"}
      BY <1>1, <2>1, Zenon DEF Rendering
    <2> QED
      BY <1>1, <1>3, <1>5, <2>1, <2>2, <2>3, <2>4, RenderKeeps, Zenon
  <1>6. CASE At("end") /\ UNCHANGED buffers
    <2>1. /\ worker' \in WorkerType /\ worker'.pc = "end"
          /\ worker'.op = worker.op /\ worker'.gen = worker.gen /\ worker'.id = worker.id
          /\ worker'.cursor = worker.cursor /\ worker'.out = worker.out
          /\ worker'.buffer = worker.buffer /\ worker'.task = worker.task
      BY <1>2, <1>6, AtSteps, Zenon DEF WorkerInside, Rendering
    <2>2. Holding' /\ Walk'
      BY <1>1, <1>2, <1>4, <1>6, <2>1, Zenon DEF Holding, Walk, Rendering
    <2>3. buffers' \in SUBSET Ids /\ users' \in Nat
      BY <1>1, <1>2, <1>6, Zenon
    <2>4. /\ worker.pc \in Rendering \cup {"maps"} /\ worker'.pc \in Rendering \cup {"end"}
          /\ worker'.pc \notin Rendering
      BY <1>1, <2>1, Zenon DEF Rendering
    <2> QED
      BY <1>1, <1>3, <2>1, <2>2, <2>3, <2>4, RenderKeeps, Zenon
  <1> QED
    BY <1>5, <1>6, Zenon DEF SnapshotCheck

(* ... the address space is taken; ... *)
LEMMA RenderMmKeeps == ASSUME IInv, RenderMm PROVE IInv'
  <1>1. /\ UNCHANGED <<gate, fields, refs, space, generation, capture, reader, history>>
        /\ UNCHANGED <<locked, buffers, data, published>> /\ worker.pc = "mm"
    BY Zenon DEF RenderMm, memory, fields, history
  <1>2. /\ Typed /\ worker.buffer = None /\ worker.task = None /\ task = worker.gen
        /\ worker.out = <<>> /\ worker.cursor = 0
        /\ ~locked /\ users = 0 /\ buffers = Kept \cup {worker.id} /\ buffers \in SUBSET Ids
    BY <1>1, Zenon DEF IInv, Holding, Walk, Request, Typed, Rendering
  <1>3. locked' \in BOOLEAN
    BY <1>1, Zenon DEF IInv, Typed
  <1>4. Kept' = Kept
    BY <1>1, Zenon DEF Kept
  <1>5. PICK pc \in {"lock", "out"} : At(pc) /\ users' = IF pc = "lock" THEN 1 ELSE 0
    BY <1>2 DEF RenderMm
  <1>6. /\ worker' \in WorkerType /\ worker'.pc = pc
        /\ worker'.op = worker.op /\ worker'.gen = worker.gen /\ worker'.id = worker.id
        /\ worker'.cursor = worker.cursor /\ worker'.out = worker.out
        /\ worker'.buffer = worker.buffer /\ worker'.task = worker.task
    BY <1>2, <1>5, AtSteps, Zenon DEF WorkerInside, Rendering
  <1>7. Holding' /\ Walk'
    BY <1>1, <1>2, <1>4, <1>5, <1>6, Zenon DEF Holding, Walk, Rendering
  <1>8. /\ worker.pc \in Rendering \cup {"maps"} /\ worker'.pc \in Rendering \cup {"end"}
        /\ buffers' \in SUBSET Ids /\ users' \in Nat
    BY <1>1, <1>2, <1>5, <1>6, Zenon DEF Rendering
  <1> QED
    BY <1>1, <1>2, <1>3, <1>6, <1>7, <1>8, RenderKeeps, Zenon

(* An empty text shows what lies below the first address; ... *)
LEMMA NothingShown == ASSUME NEW pages \in SUBSET Nat PROVE Shows(<<>>, Below(pages, 0))
  <1>1. Below(pages, 0) = {}
    <2>1. \A p \in pages : ~(p < 0)
      OBVIOUS
    <2> QED
      BY <2>1, Zenon DEF Below
  <1>2. Len(<<>>) = 0 /\ 1 .. 0 = {}
    OBVIOUS
  <1> QED
    BY <1>1, <1>2, Zenon DEF Shows

(* ... with the mapping find_vma finds, it shows what lies below its end.     *)
LEMMA MoreShown ==
  ASSUME Typed, NEW cursor \in Nat, NEW s \in Seq(Nat), Shows(s, Below(space, cursor)),
         NEW vma \in FindVma(cursor)
  PROVE  Append(s, vma) \in Seq(Nat) /\ Shows(Append(s, vma), Below(space, vma + 1))
  <1> DEFINE u == Append(s, vma)
  <1>1. space \in SUBSET Nat
    BY PagesNat, Zenon DEF Typed
  <1>2. vma \in space /\ vma \in Nat /\ cursor <= vma /\ \A q \in space : q >= cursor => vma <= q
    BY <1>1, Zenon DEF FindVma
  <1>3. u \in Seq(Nat) /\ Len(u) = Len(s) + 1 /\ Len(s) \in Nat
    BY <1>2
  <1>4. \A i \in 1 .. Len(s) : u[i] = s[i] /\ s[i] \in Nat
    BY <1>2
  <1>5. u[Len(s) + 1] = vma
    BY <1>2
  <1> HIDE DEF u
  <1>6. /\ \A i \in 1 .. Len(s) : s[i] \in space /\ s[i] < cursor
        /\ \A p \in space : p < cursor => \E i \in 1 .. Len(s) : p = s[i]
    BY Zenon DEF Shows, Below
  <1>7. \A i, j \in 1 .. Len(s) : i < j => s[i] < s[j]
    BY Zenon DEF Shows
  <1>8. ASSUME NEW i \in 1 .. Len(u) PROVE u[i] \in Below(space, vma + 1)
    <2>1. CASE i \in 1 .. Len(s)
      BY <1>1, <1>2, <1>4, <1>6, <2>1, SMTT(60) DEF Below
    <2>2. CASE i = Len(s) + 1
      BY <1>2, <1>5, <2>2 DEF Below
    <2> QED
      BY <1>3, <2>1, <2>2
  <1>9. ASSUME NEW p \in Below(space, vma + 1) PROVE \E i \in 1 .. Len(u) : p = u[i]
    <2>1. p \in space /\ p \in Nat /\ p < vma + 1
      BY <1>1, Zenon DEF Below
    <2>2. CASE p < cursor
      <3>1. PICK i \in 1 .. Len(s) : p = s[i]
        BY <1>6, <2>1, <2>2, Zenon
      <3>2. i \in 1 .. Len(u) /\ u[i] = p
        BY <1>3, <1>4, <3>1
      <3> QED
        BY <3>2, Zenon
    <2>3. CASE p >= cursor
      <3>1. p = vma
        BY <1>2, <2>1, <2>3
      <3>2. Len(s) + 1 \in 1 .. Len(u)
        BY <1>3
      <3> QED
        BY <1>5, <3>1, <3>2, Zenon
    <2> QED
      BY <2>1, <2>2, <2>3
  <1>10. ASSUME NEW i \in 1 .. Len(u), NEW j \in 1 .. Len(u), i < j PROVE u[i] < u[j]
    <2>1. i \in 1 .. Len(s) /\ u[i] = s[i] /\ s[i] < cursor /\ s[i] \in Nat
      BY <1>3, <1>4, <1>6, <1>10, SMTT(60)
    <2>2. CASE j \in 1 .. Len(s)
      BY <1>4, <1>7, <1>10, <2>1, <2>2, Zenon
    <2>3. CASE j = Len(s) + 1
      BY <1>2, <1>5, <2>1, <2>3
    <2> QED
      BY <1>3, <2>2, <2>3
  <1>11. {u[i] : i \in 1 .. Len(u)} = Below(space, vma + 1)
    BY <1>8, <1>9, Zenon
  <1>12. Shows(u, Below(space, vma + 1))
    BY <1>10, <1>11, Zenon DEF Shows
  <1> QED
    BY <1>3, <1>12, Zenon DEF u

(* ... it is locked, and its mappings are those the snapshot has to show; ... *)
LEMMA RenderLockKeeps == ASSUME IInv, RenderLock PROVE IInv'
  <1>1. /\ UNCHANGED <<gate, fields, refs, buffers, space, users, generation, capture, reader>>
        /\ UNCHANGED <<requests, data>> /\ worker.pc = "lock"
    BY Zenon DEF RenderLock, memory, fields
  <1>2. /\ Typed /\ worker.buffer = None /\ worker.task = None /\ task = worker.gen
        /\ worker.out = <<>> /\ worker.cursor = 0 /\ worker.op = "maps"
        /\ ~locked /\ users = 1 /\ buffers = Kept \cup {worker.id} /\ buffers \in SUBSET Ids
        /\ users' \in Nat /\ worker.pc \in Rendering
    BY <1>1, Zenon DEF IInv, Holding, Walk, Request, Typed, Rendering
  <1>3. Kept' = Kept
    BY <1>1, Zenon DEF Kept
  <1>4. worker.id \in Ids /\ published \in [Ids -> SUBSET Pages] /\ space \in SUBSET Pages
    BY <1>1, <1>2, Zenon DEF IInv, Typed, WorkerType, Request, Ids
  <1>5. CASE At("out") /\ UNCHANGED <<locked, published>>
    <2>1. /\ worker' \in WorkerType /\ worker'.pc = "out"
          /\ worker'.op = worker.op /\ worker'.gen = worker.gen /\ worker'.id = worker.id
          /\ worker'.cursor = worker.cursor /\ worker'.out = worker.out
          /\ worker'.buffer = worker.buffer /\ worker'.task = worker.task
      BY <1>2, <1>5, AtSteps, Zenon DEF WorkerInside, Rendering
    <2>2. Holding' /\ Walk'
      BY <1>1, <1>2, <1>3, <1>5, <2>1, Zenon DEF Holding, Walk, Rendering
    <2>3. locked' \in BOOLEAN
      BY <1>5, Zenon DEF IInv, Typed
    <2>4. worker'.pc \in Rendering \cup {"end"} /\ buffers' \in SUBSET Ids
      BY <1>1, <1>2, <2>1, Zenon DEF Rendering
    <2> QED
      BY <1>1, <1>2, <1>5, <2>1, <2>2, <2>3, <2>4, RenderKeeps, Zenon DEF history
  <1>6. CASE At("walk") /\ locked' = TRUE /\ published' = [published EXCEPT ![worker.id] = space]
    <2>1. /\ worker' \in WorkerType /\ worker'.pc = "walk"
          /\ worker'.op = worker.op /\ worker'.gen = worker.gen /\ worker'.id = worker.id
          /\ worker'.cursor = worker.cursor /\ worker'.out = worker.out
          /\ worker'.buffer = worker.buffer /\ worker'.task = worker.task
      BY <1>2, <1>6, AtSteps, Zenon DEF WorkerInside, Rendering
    <2>2. UNCHANGED <<writer, readers, state, task>>
      BY <1>1, Zenon DEF gate, fields
    <2>3. /\ published' \in [Ids -> SUBSET Pages] /\ published'[worker.id] = space
          /\ \A id \in Ids \ {worker.id} : published'[id] = published[id]
      BY <1>4, <1>6, Zenon
    <2>4. Typed'
      <3>1. locked' \in BOOLEAN
        BY <1>6, Zenon
      <3> QED
        BY <1>1, <1>2, <2>1, <2>2, <2>3, <3>1, Zenon DEF Typed
    <2>5. Gate'
      <3>1. worker.pc \in WorkerInside /\ worker'.pc \in WorkerInside
        BY <1>1, <2>1, Zenon DEF WorkerInside, Rendering
      <3> QED
        BY <1>1, <2>2, <3>1, WorkerGateKept, Zenon DEF IInv, Gate
    <2>6. Holding'
      BY <1>1, <1>2, <1>3, <1>6, <2>1, Zenon DEF Holding, Rendering
    <2>7. Request'
      BY <1>1, <1>2, <2>1, <2>2, Zenon DEF IInv, Request
    <2>8. Walk'
      <3>1. Shows(<<>>, Below(space, 0))
        BY <1>4, PagesNat, NothingShown, Zenon
      <3> QED
        BY <1>1, <1>2, <2>1, <2>3, <3>1, Zenon DEF Walk
    <2>9. ASSUME NEW r \in Readers PROVE Chunks(r)'
      BY <1>1, Zenon DEF IInv, Chunks
    <2>10. OneReference'
      BY <1>1, <2>1, <2>2, Zenon DEF IInv, OneReference
    <2>11. SnapshotCoherent'
      <3>1. data # None => data.id < worker.id /\ data.id \in Ids
        BY <1>1, <1>2, Zenon DEF IInv, Request, Typed, Snapshot
      <3>2. data # None => data.id # worker.id
        BY <1>4, <3>1 DEF Ids
      <3> QED
        BY <1>1, <2>3, <3>1, <3>2, Zenon DEF IInv, SnapshotCoherent
    <2>12. FetchedWhole'
      <3> SUFFICES ASSUME NEW r \in Readers, reader[r].pc = "whole"
                   PROVE  published'[reader[r].id] = published[reader[r].id]
        BY <1>1, Zenon DEF IInv, FetchedWhole
      <3>1. reader[r].got # <<>> /\ reader[r].id > 0 /\ reader[r].id \in 0 .. MaxSnapshot
        BY Zenon DEF IInv, Chunks, Typed, ReaderType
      <3>2. reader[r].id # worker.id
        BY <1>1, <1>2, <3>1, Zenon DEF IInv, Request
      <3> QED
        BY <2>3, <3>1, <3>2 DEF Ids
    <2> QED
      BY <2>4, <2>5, <2>6, <2>7, <2>8, <2>9, <2>10, <2>11, <2>12, Zenon DEF IInv
  <1> QED
    BY <1>5, <1>6, Zenon DEF RenderLock

(* ... the walk goes on, ... *)
LEMMA RenderVmaKeeps == ASSUME IInv, RenderVma PROVE IInv'
  <1>1. /\ UNCHANGED <<gate, fields, refs, space, generation, capture, reader, history>>
        /\ UNCHANGED <<locked, users, buffers, data, published>> /\ worker.pc = "walk"
    BY Zenon DEF RenderVma, memory, target, fields, history
  <1>2. /\ Typed /\ worker \in WorkerType
        /\ worker.buffer = None /\ worker.task = None /\ task = worker.gen
        /\ locked /\ users = 1 /\ buffers = Kept \cup {worker.id} /\ buffers' \in SUBSET Ids
        /\ users' \in Nat /\ worker.pc \in Rendering
    BY <1>1, Zenon DEF IInv, Holding, Request, Typed, Rendering
  <1>3. locked' \in BOOLEAN
    BY <1>1, Zenon DEF IInv, Typed
  <1>4. Kept' = Kept
    BY <1>1, Zenon DEF Kept
  <1>5. PICK vma \in FindVma(worker.cursor) :
          \/ At("out")
          \/ worker' = [worker EXCEPT !.out = Append(@, vma), !.cursor = vma + 1]
    BY Zenon DEF RenderVma
  <1>6. CASE At("out")
    <2>1. /\ worker' \in WorkerType /\ worker'.pc = "out"
          /\ worker'.op = worker.op /\ worker'.gen = worker.gen /\ worker'.id = worker.id
          /\ worker'.buffer = worker.buffer /\ worker'.task = worker.task
      BY <1>2, <1>6, AtSteps, Zenon DEF WorkerInside, Rendering
    <2>2. Holding' /\ Walk'
      BY <1>1, <1>2, <1>4, <2>1, Zenon DEF Holding, Walk, Rendering
    <2>3. worker'.pc \in Rendering \cup {"end"}
      BY <2>1, Zenon DEF Rendering
    <2> QED
      BY <1>1, <1>2, <1>3, <2>1, <2>2, <2>3, RenderKeeps, Zenon
  <1>7. CASE worker' = [worker EXCEPT !.out = Append(@, vma), !.cursor = vma + 1]
    <2>1. /\ worker.cursor \in Nat /\ worker.out \in Seq(Nat) /\ space = published[worker.id]
          /\ Shows(worker.out, Below(space, worker.cursor))
      BY <1>1, <1>2, Zenon DEF IInv, Walk, WorkerType
    <2>2. /\ Append(worker.out, vma) \in Seq(Nat)
          /\ Shows(Append(worker.out, vma), Below(space, vma + 1))
      BY <1>2, <2>1, MoreShown, Zenon
    <2>3. vma + 1 \in Nat
      <3>1. vma \in space /\ space \in SUBSET Pages
        BY <1>2, Zenon DEF FindVma, Typed
      <3> QED
        BY <3>1, PagesNat
    <2>4. /\ worker'.pc = "walk" /\ worker'.cursor = vma + 1
          /\ worker'.out = Append(worker.out, vma)
          /\ worker'.op = worker.op /\ worker'.gen = worker.gen /\ worker'.id = worker.id
          /\ worker'.buffer = worker.buffer /\ worker'.task = worker.task
      BY <1>1, <1>2, <1>7, Zenon DEF WorkerType
    <2>5. worker' \in WorkerType
      BY <1>2, <1>7, <2>2, <2>3, Zenon DEF WorkerType
    <2>6. Holding'
      BY <1>1, <1>2, <1>4, <2>4, Zenon DEF Holding, Rendering
    <2>7. Walk'
      BY <1>1, <2>1, <2>2, <2>4, Zenon DEF Walk
    <2>8. worker'.pc \in Rendering \cup {"end"}
      BY <2>4, Zenon DEF Rendering
    <2> QED
      BY <1>1, <1>2, <1>3, <2>4, <2>5, <2>6, <2>7, <2>8, RenderKeeps, Zenon
  <1> QED
    BY <1>5, <1>6, <1>7, Zenon

(* ... or it fails, and everything is given back. *)
LEMMA RenderOutKeeps == ASSUME IInv, RenderOut PROVE IInv'
  <1>1. /\ UNCHANGED <<gate, fields, refs, space, generation, capture, reader, history>>
        /\ UNCHANGED <<data, published>> /\ worker.pc = "out" /\ users' = 0
        /\ buffers' = buffers \ {worker.id} /\ At("end")
    BY Zenon DEF RenderOut, fields, history
  <1>2. /\ Typed /\ worker.buffer = None /\ worker.task = None /\ worker.op = "maps"
        /\ buffers = Kept \cup {worker.id} /\ buffers' \in SUBSET Ids
        /\ worker.pc \in Rendering
    BY <1>1, Zenon DEF IInv, Holding, Request, Typed, Rendering
  <1>3. locked' = FALSE /\ locked' \in BOOLEAN
    BY Zenon DEF RenderOut
  <1>4. Kept' = Kept /\ worker.id \notin Kept /\ None \notin Kept
    <2>1. data # None => data.id < worker.id /\ data.id \in Ids /\ worker.id \in Nat
      BY <1>1, <1>2 DEF IInv, Request, Typed, Snapshot, WorkerType
    <2> QED
      BY <1>1, <2>1, SMTT(60) DEF Kept, Ids
  <1>5. /\ worker' \in WorkerType /\ worker'.pc = "end"
        /\ worker'.op = worker.op /\ worker'.gen = worker.gen /\ worker'.id = worker.id
        /\ worker'.buffer = worker.buffer /\ worker'.task = worker.task
    BY <1>1, <1>2, AtSteps, Zenon DEF WorkerInside, Rendering
  <1>6. Holding' /\ Walk'
    BY <1>1, <1>2, <1>3, <1>4, <1>5, Zenon DEF Holding, Walk, Rendering
  <1>7. worker'.pc \in Rendering \cup {"end"} /\ worker'.pc \notin Rendering /\ users' \in Nat
    BY <1>1, <1>5, Zenon DEF Rendering
  <1> QED
    BY <1>1, <1>2, <1>3, <1>5, <1>6, <1>7, RenderKeeps, Zenon

(* The new snapshot takes the place of the old one, which no reader holds. *)
LEMMA PublishKeeps == ASSUME IInv, Publish PROVE IInv'
  <1>1. /\ UNCHANGED <<writer, readers, task, refs, buffers, space, locked, users>>
        /\ UNCHANGED <<generation, capture, reader, requests, published>>
        /\ worker.pc = "publish" /\ state' = "READY"
        /\ data' = [id |-> worker.id, content |-> worker.out]
    BY Zenon DEF Publish, gate, memory, target, history
  <1>2. /\ Typed /\ worker \in WorkerType /\ worker.task = None /\ worker.op = "maps"
        /\ worker.id \in Ids /\ worker.id <= requests /\ worker.out \in Seq(Nat)
        /\ ~locked /\ users = 0 /\ buffers = Kept \cup {worker.id}
        /\ Shows(worker.out, published[worker.id])
        /\ data # None => data.id < worker.id /\ data.id \in Ids
    BY <1>1, Zenon DEF IInv, Holding, Request, Walk, Typed, Rendering, WorkerType, Ids, Snapshot
  <1>3. /\ data' \in Snapshot /\ data' # None /\ data'.id = worker.id /\ data'.content = worker.out
        /\ Kept' = {worker.id}
    <2>1. data' \in Snapshot /\ data' \in [id : Nat, content : Seq(Nat)]
      BY <1>1, <1>2 DEF Snapshot, Ids
    <2> QED
      BY <1>1, <2>1, Zenon DEF Kept
  <1> DEFINE old == IF data = None THEN None ELSE data.id
  <1>4. /\ old \in Ids \cup {None} /\ Kept = {old} \ {None} /\ old # worker.id
    BY <1>2 DEF Kept, Ids
  <1> HIDE DEF old
  <1>5. /\ worker' \in WorkerType /\ worker'.pc = "end" /\ worker'.buffer = old
        /\ worker'.op = worker.op /\ worker'.gen = worker.gen /\ worker'.id = worker.id
        /\ worker'.task = worker.task
    <2>1. worker' = [worker EXCEPT !.pc = "end", !.buffer = old]
      BY Zenon DEF Publish, old
    <2> QED
      BY <1>2, <1>4, <2>1, Zenon DEF WorkerType, WorkerInside
  <1>6. Typed'
    <2>1. locked' \in BOOLEAN
      BY <1>1, Zenon DEF IInv, Typed
    <2> QED
      BY <1>1, <1>2, <1>3, <1>5, <2>1, Zenon DEF Typed
  <1>7. worker.pc \in WorkerInside /\ worker'.pc \in WorkerInside
    BY <1>1, <1>5, Zenon DEF WorkerInside, Rendering
  <1>8. Gate'
    BY <1>1, <1>7, WorkerGateKept, Zenon DEF IInv, Gate
  <1>9. Holding'
    BY <1>1, <1>2, <1>3, <1>4, <1>5, Zenon DEF Holding, Rendering
  <1>10. Request'
    BY <1>1, <1>2, <1>3, <1>5, Zenon DEF IInv, Request, Rendering
  <1>11. Walk'
    BY <1>5, Zenon DEF Walk
  <1>12. ASSUME NEW r \in Readers PROVE Chunks(r)'
    <2>1. reader[r].id = worker.id => reader[r].got = <<>>
      BY <1>1, <1>2, Zenon DEF IInv, Request
    <2>2. reader[r].pc # "copy"
      BY <1>7, Zenon DEF IInv, Gate
    <2>3. Chunks(r)
      BY Zenon DEF IInv
    <2> QED
      BY <1>1, <1>3, <2>1, <2>2, <2>3 DEF Chunks
  <1>13. OneReference'
    BY <1>1, <1>5, Zenon DEF IInv, OneReference
  <1>14. SnapshotCoherent' /\ FetchedWhole'
    BY <1>1, <1>2, <1>3, Zenon DEF IInv, SnapshotCoherent, FetchedWhole
  <1> QED
    BY <1>6, <1>8, <1>9, <1>10, <1>11, <1>12, <1>13, <1>14, Zenon DEF IInv

(* CLEAR takes the task and the snapshot out; the references move with them.  *)
LEMMA ClearFieldsKeeps == ASSUME IInv, ClearFields PROVE IInv'
  <1>1. /\ UNCHANGED <<writer, readers, refs, buffers, space, locked, users>>
        /\ UNCHANGED <<generation, capture, reader, requests, published>>
        /\ worker.pc = "clear" /\ task' = None /\ data' = None /\ state' = "EMPTY"
    BY Zenon DEF ClearFields, gate, memory, target, history
  <1>2. /\ Typed /\ worker \in WorkerType /\ worker.task = None
        /\ task \in Generations \cup {None}
        /\ ~locked /\ users = 0 /\ buffers = Kept
        /\ data # None => data.id \in Ids
    BY <1>1, Zenon DEF IInv, Holding, Typed, Snapshot
  <1>3. Kept' = {}
    BY <1>1, Zenon DEF Kept
  <1> DEFINE old == IF data = None THEN None ELSE data.id
  <1>4. old \in Ids \cup {None} /\ Kept = {old} \ {None}
    BY <1>2 DEF Kept, Ids
  <1> HIDE DEF old
  <1>5. /\ worker' \in WorkerType /\ worker'.pc = "end" /\ worker'.buffer = old
        /\ worker'.op = worker.op /\ worker'.gen = worker.gen /\ worker'.id = worker.id
        /\ worker'.task = task
    <2>1. worker' = [worker EXCEPT !.pc = "end", !.task = task, !.buffer = old]
      BY Zenon DEF ClearFields, old
    <2> QED
      BY <1>2, <1>4, <2>1, ZenonT(60) DEF WorkerType, WorkerInside
  <1>6. Typed'
    <2>1. locked' \in BOOLEAN
      BY <1>1, Zenon DEF IInv, Typed
    <2> QED
      BY <1>1, <1>2, <1>5, <2>1, Zenon DEF Typed
  <1>7. worker.pc \in WorkerInside /\ worker'.pc \in WorkerInside
    BY <1>1, <1>5, Zenon DEF WorkerInside, Rendering
  <1>8. Gate'
    BY <1>1, <1>7, WorkerGateKept, Zenon DEF IInv, Gate
  <1>9. Holding'
    BY <1>1, <1>2, <1>3, <1>4, <1>5, Zenon DEF Holding, Rendering
  <1>10. Request'
    BY <1>1, <1>2, <1>5, Zenon DEF IInv, Request, Rendering
  <1>11. Walk'
    BY <1>5, Zenon DEF Walk
  <1>12. ASSUME NEW r \in Readers PROVE Chunks(r)'
    <2>1. reader[r].pc # "copy" /\ Chunks(r)
      BY <1>7, Zenon DEF IInv, Gate
    <2> QED
      BY <1>1, <2>1, Zenon DEF Chunks
  <1>13. OneReference'
    <2> SUFFICES ASSUME NEW g \in Generations
                 PROVE  refs[g] = (IF g = None THEN 1 ELSE 0) + (IF g = task THEN 1 ELSE 0)
      BY <1>1, <1>2, <1>5, Zenon DEF OneReference, Typed
    <2>1. g # None
      BY DEF Generations
    <2>2. refs[g] = (IF g = task THEN 1 ELSE 0) + (IF g = None THEN 1 ELSE 0)
      BY <1>2, Zenon DEF IInv, OneReference, Typed
    <2> QED
      BY <2>1, <2>2
  <1>14. SnapshotCoherent' /\ FetchedWhole'
    BY <1>1, Zenon DEF IInv, SnapshotCoherent, FetchedWhole
  <1> QED
    BY <1>6, <1>8, <1>9, <1>10, <1>11, <1>12, <1>13, <1>14, Zenon DEF IInv

(* The gate is opened, ... *)
LEMMA WriteEndKeeps == ASSUME IInv, WriteEnd PROVE IInv'
  <1>1. /\ UNCHANGED <<readers, fields, refs, space, generation, capture, reader, history>>
        /\ UNCHANGED <<buffers, locked, users, data>>
        /\ worker.pc = "end" /\ writer' = 0 /\ At("release")
    BY Zenon DEF WriteEnd, memory, target, fields
  <1>2. /\ Typed /\ ~locked /\ users = 0 /\ buffers' \in SUBSET Ids
        /\ buffers = Kept \cup ({worker.buffer} \ {None}) /\ worker.buffer \notin Kept
        /\ capture.pc \notin {"wait", "in"}
    BY <1>1, Zenon DEF IInv, Holding, Typed, Gate, WorkerInside
  <1>3. locked' \in BOOLEAN
    BY <1>1, Zenon DEF IInv, Typed
  <1>4. /\ worker' \in WorkerType /\ worker'.pc = "release"
        /\ worker'.op = worker.op /\ worker'.gen = worker.gen /\ worker'.id = worker.id
        /\ worker'.buffer = worker.buffer /\ worker'.task = worker.task
    BY <1>1, <1>2, AtSteps, Zenon
  <1>5. worker'.pc \notin WorkerInside \cup {"wait"} /\ worker'.pc \notin Rendering \cup {"maps"}
    BY <1>4, Zenon DEF WorkerInside, Rendering
  <1>6. Gate'
    BY <1>1, <1>2, <1>5, WorkerGateKept
  <1>7. Holding' /\ Walk'
    BY <1>1, <1>2, <1>4, Zenon DEF Holding, Walk, Kept, Rendering
  <1>8. writer' \in {0, 1} /\ users' \in Nat
    BY <1>1, <1>2, Zenon
  <1> QED
    BY <1>1, <1>2, <1>3, <1>4, <1>5, <1>6, <1>7, <1>8, RequestKeeps, Zenon

(* ... and what was taken out is released. *)
LEMMA ReleaseKeeps == ASSUME IInv, Release PROVE IInv'
  <1>1. /\ UNCHANGED <<writer, readers, state, task, data, space, locked, users>>
        /\ UNCHANGED <<generation, capture, reader, requests, published>>
        /\ worker.pc = "release" /\ worker' = IdleWorker /\ buffers' = buffers \ {worker.buffer}
        /\ refs' = [g \in DOMAIN refs |-> IF g = worker.task THEN refs[g] - 1 ELSE refs[g]]
    BY Zenon DEF Release, gate, fields, target, history
  <1>2. /\ Typed /\ ~locked /\ users = 0 /\ buffers' \in SUBSET Ids /\ 0 <= requests
        /\ buffers = Kept \cup ({worker.buffer} \ {None}) /\ worker.buffer \notin Kept
    BY <1>1 DEF IInv, Holding, Typed
  <1>3. /\ worker' \in WorkerType /\ worker'.pc = "idle" /\ worker'.id = 0
        /\ worker'.buffer = None /\ worker'.task = None
    BY <1>1, IdleTypes, Zenon DEF IdleWorker
  <1>4. worker'.pc \notin WorkerInside \cup {"wait"} /\ worker.pc \notin WorkerInside \cup {"wait"}
    BY <1>1, <1>3, Zenon DEF WorkerInside, Rendering
  <1>5. ASSUME NEW g \in Generations
        PROVE  refs'[g] \in Nat /\ refs'[g] = IF g = task THEN 1 ELSE 0
    <2>1. refs \in [Generations -> Nat] /\ g \in DOMAIN refs
      BY <1>2, Zenon DEF Typed
    <2>2. refs[g] = (IF g = task THEN 1 ELSE 0) + (IF g = worker.task THEN 1 ELSE 0)
      BY <2>1, Zenon DEF IInv, OneReference
    <2>3. refs'[g] = IF g = worker.task THEN refs[g] - 1 ELSE refs[g]
      BY <1>1, <2>1, Zenon
    <2> QED
      BY <2>1, <2>2, <2>3
  <1>6. refs' \in [Generations -> Nat]
    BY <1>1, <1>2, <1>5, Zenon DEF Typed
  <1>7. Typed'
    <2>1. locked' \in BOOLEAN
      BY <1>1, Zenon DEF IInv, Typed
    <2> QED
      BY <1>1, <1>2, <1>3, <1>6, <2>1, Zenon DEF Typed
  <1>8. Gate'
    BY <1>1, <1>4, WorkerGateKept, Zenon DEF IInv, Gate
  <1>9. Holding'
    BY <1>1, <1>2, <1>3, Zenon DEF Holding, Kept, Rendering
  <1>10. Request'
    BY <1>1, <1>2, <1>3, Zenon DEF IInv, Request, Rendering
  <1>11. Walk'
    BY <1>3, Zenon DEF Walk
  <1>12. ASSUME NEW r \in Readers PROVE Chunks(r)'
    BY <1>1, Zenon DEF IInv, Chunks
  <1>13. OneReference'
    <2> SUFFICES ASSUME NEW g \in Generations
                 PROVE  refs'[g] = (IF g = task THEN 1 ELSE 0) + (IF g = None THEN 1 ELSE 0)
      BY <1>1, <1>3, <1>6 DEF OneReference
    <2>1. g # None
      BY DEF Generations
    <2> QED
      BY <1>5, <2>1
  <1>14. SnapshotCoherent' /\ FetchedWhole'
    BY <1>1, Zenon DEF IInv, SnapshotCoherent, FetchedWhole
  <1> QED
    BY <1>7, <1>8, <1>9, <1>10, <1>11, <1>12, <1>13, <1>14, Zenon DEF IInv

(* A request begins, with a number no snapshot and no reader has. *)
LEMMA WorkerStartKeeps == ASSUME IInv, WorkerMaps \/ WorkerClear PROVE IInv'
  <1>1. /\ UNCHANGED <<writer, readers, state, task, data, refs, buffers, space, locked, users>>
        /\ UNCHANGED <<generation, capture, reader, published>> /\ worker.pc = "idle"
        /\ requests \in Nat /\ requests' \in 0 .. MaxSnapshot /\ requests' >= requests
    BY DEF WorkerMaps, WorkerClear, gate, fields, memory, target, history, IInv, Typed
  <1>2. /\ Typed /\ ~locked /\ users = 0 /\ buffers = Kept
        /\ worker.task = None /\ data \in Snapshot \cup {None}
        /\ data # None => data.id <= requests
    BY <1>1, Zenon DEF IInv, Holding, Typed, Request
  <1>3. /\ worker' \in WorkerType /\ worker'.pc = "begin" /\ worker'.out = <<>>
        /\ worker'.cursor = 0 /\ worker'.buffer = None /\ worker'.task = None
        /\ worker'.id <= requests' /\ worker'.op \in {"maps", "clear"}
        /\ worker'.op = "maps" => worker'.gen > 0 /\ worker'.id = requests + 1
    <2>1. CASE WorkerMaps
      <3>1. worker' = [pc |-> "begin", op |-> "maps", gen |-> generation, id |-> requests + 1,
                       cursor |-> 0, out |-> <<>>, buffer |-> None, task |-> None]
        BY <2>1, Zenon DEF WorkerMaps, IdleWorker
      <3>2. /\ requests' = requests + 1 /\ requests + 1 \in 0 .. MaxSnapshot
            /\ generation \in 0 .. MaxGeneration /\ generation > 0
        BY <1>1, <1>2, <2>1, Zenon DEF WorkerMaps, Typed
      <3>3. worker' \in WorkerType
        BY <3>1, <3>2 DEF WorkerType
      <3> QED
        BY <3>1, <3>2, <3>3
    <2>2. CASE WorkerClear
      <3>1. worker' = [pc |-> "begin", op |-> "clear", gen |-> 0, id |-> 0,
                       cursor |-> 0, out |-> <<>>, buffer |-> None, task |-> None]
        BY <2>2, Zenon DEF WorkerClear, IdleWorker
      <3>2. worker' \in WorkerType
        BY <3>1 DEF WorkerType
      <3> QED
        BY <1>1, <3>1, <3>2
    <2> QED
      BY <2>1, <2>2, Zenon
  <1>4. worker'.pc \notin WorkerInside \cup {"wait"} /\ worker.pc \notin WorkerInside \cup {"wait"}
    BY <1>1, <1>3, Zenon DEF WorkerInside, Rendering
  <1>5. Typed'
    <2>1. locked' \in BOOLEAN
      BY <1>1, Zenon DEF IInv, Typed
    <2> QED
      BY <1>1, <1>2, <1>3, <2>1, Zenon DEF Typed
  <1>6. Gate'
    BY <1>1, <1>4, WorkerGateKept, Zenon DEF IInv, Gate
  <1>7. Holding'
    BY <1>1, <1>2, <1>3, Zenon DEF Holding, Kept, Rendering
  <1>8. Request'
    <2>1. \A r \in Readers : reader[r].id <= requests /\ reader[r].id \in Nat
      BY <1>2 DEF IInv, Chunks, Typed, ReaderType
    <2>2. data # None => data.id \in Nat
      BY <1>2 DEF Snapshot, Ids
    <2>3. worker'.op = "maps" =>
            /\ data # None => data.id < worker'.id
            /\ \A r \in Readers : reader[r].id # worker'.id
      BY <1>1, <1>2, <1>3, <2>1, <2>2
    <2>4. worker'.pc \notin Rendering \cup {"maps"}
      BY <1>3, Zenon DEF Rendering
    <2>5. /\ data # None => data.id <= requests'
          /\ capture.pc # "idle" => capture.gen > 0
          /\ worker'.op = "maps" => worker'.id > 0
      BY <1>1, <1>2, <1>3, <2>2 DEF IInv, Request
    <2> QED
      BY <1>1, <1>3, <2>3, <2>4, <2>5, ZenonT(60) DEF Request
  <1>9. Walk'
    BY <1>3, Zenon DEF Walk
  <1>10. ASSUME NEW r \in Readers PROVE Chunks(r)'
    <2>1. reader[r].id \in Nat /\ Chunks(r)
      BY <1>2 DEF IInv, Typed, ReaderType
    <2>2. reader[r].id <= requests'
      BY <1>1, <2>1, SMTT(60) DEF Chunks
    <2> QED
      BY <1>1, <2>1, <2>2, Zenon DEF Chunks
  <1>11. OneReference' /\ SnapshotCoherent' /\ FetchedWhole'
    BY <1>1, <1>2, <1>3, SMTT(60) DEF IInv, OneReference, SnapshotCoherent, FetchedWhole
  <1> QED
    BY <1>5, <1>6, <1>7, <1>8, <1>9, <1>10, <1>11, Zenon DEF IInv

-----------------------------------------------------------------------------
(* The steps that change the count of the readers, the end of the walk, and   *)
(* the theorems.                                                              *)

INSTANCE FiniteSetTheorems
INSTANCE WellFoundedInduction

(* A set of naturals has a least element: find_vma finds the next mapping     *)
(* whenever there is one at or after the address.                             *)
LEMMA Least ==
  ASSUME NEW T \in SUBSET Nat, T # {}
  PROVE  \E x \in T : \A y \in T : x <= y
  <1> DEFINE R == {ss \in Nat \X Nat : ss[1] < ss[2]}
  <1>1. IsWellFoundedOn(R, Nat)
    BY NatLessThanWellFounded, Zenon DEF OpToRel
  <1> HIDE DEF R
  <1>2. PICK x \in T : \A y \in T : ~ (<<y, x>> \in R)
    BY <1>1, WFMin, Zenon
  <1>3. \A y \in T : ~ (y < x)
    BY <1>2, Zenon DEF R
  <1> QED
    BY <1>3

(* find_vma comes back empty-handed only when nothing lies ahead. *)
LEMMA FindVmaExact ==
  ASSUME Typed, NEW cursor \in Nat, FindVma(cursor) = {}
  PROVE  Below(space, cursor) = space
  <1> DEFINE T == {p \in space : p >= cursor}
  <1>1. T \in SUBSET Nat /\ space \in SUBSET Nat
    BY PagesNat, Zenon DEF Typed
  <1>2. ASSUME T # {} PROVE FALSE
    <2>1. PICK x \in T : \A y \in T : x <= y
      BY <1>1, <1>2, Least, Zenon
    <2>2. x \in FindVma(cursor)
      BY <2>1, Zenon DEF FindVma
    <2> QED
      BY <2>2, Zenon
  <1>3. \A p \in space : p < cursor
    BY <1>1, <1>2
  <1> QED
    BY <1>3, Zenon DEF Below

-----------------------------------------------------------------------------
(* The count of the readers inside, when one enters, leaves or neither. *)
LEMMA InsideFinite == IsFiniteSet(Inside) /\ Cardinality(Inside) \in Nat
  BY FS_Subset, FS_CardinalityType, Zenon DEF Inside

(* The gate opens for a writer when the count is zero. *)
LEMMA NobodyInside == IInv /\ readers = 0 => Inside = {}
  BY InsideFinite, FS_EmptySet, ZenonT(60) DEF IInv, Gate, Inside

(* The count goes up with a reader that enters, ... *)
LEMMA EnterCounted ==
  ASSUME readers = Cardinality(Inside), NEW r \in Readers,
         reader[r].pc \notin Counted, reader'[r].pc \in Counted,
         \A q \in Readers \ {r} : reader'[q] = reader[q], readers' = readers + 1
  PROVE  readers' = Cardinality(Inside') /\ readers' \in Nat
  <1>1. Inside' = Inside \cup {r} /\ r \notin Inside
    BY DEF Inside
  <1>2. Cardinality(Inside') = Cardinality(Inside) + 1
    BY <1>1, InsideFinite, FS_AddElement, Zenon
  <1> QED
    BY <1>2, InsideFinite

(* ... and down with one that leaves. *)
LEMMA LeaveCounted ==
  ASSUME readers = Cardinality(Inside), NEW r \in Readers,
         reader[r].pc \in Counted, reader'[r].pc \notin Counted,
         \A q \in Readers \ {r} : reader'[q] = reader[q], readers' = readers - 1
  PROVE  readers' = Cardinality(Inside') /\ readers' \in Nat
  <1>1. Inside' = Inside \ {r} /\ r \in Inside
    BY DEF Inside
  <1>2. Cardinality(Inside') = Cardinality(Inside) - 1 /\ Cardinality(Inside') \in Nat
    BY <1>1, InsideFinite, FS_RemoveElement, FS_CardinalityType, ZenonT(60)
  <1> QED
    BY <1>2, InsideFinite, Zenon

-----------------------------------------------------------------------------
(* Nothing is retained, published or asked for at first. *)
LEMMA InitInvariant == Init => IInv
  <1> SUFFICES ASSUME Init PROVE IInv
    OBVIOUS
  <1>1. Typed
    <2>1. worker \in WorkerType
      BY DEF Init, IdleWorker, WorkerType
    <2>2. reader \in [Readers -> ReaderType]
      BY DEF Init, IdleReader, ReaderType
    <2>3. refs \in [Generations -> Nat] /\ published \in [Ids -> SUBSET Pages]
      BY Zenon DEF Init, Generations, Ids
    <2>4. locked \in BOOLEAN
      BY Zenon DEF Init
    <2> QED
      BY <2>1, <2>2, <2>3, <2>4, SMTT(60) DEF Init, Typed, IdleCapture
  <1>2. Gate
    <2>1. Inside = {}
      BY Zenon DEF Init, Inside, IdleReader, Counted
    <2>2. readers = Cardinality(Inside)
      BY <2>1, FS_EmptySet, Zenon DEF Init
    <2> QED
      BY <2>2 DEF Init, Gate, Inside, IdleCapture, IdleWorker, IdleReader, WorkerInside, Rendering
  <1>3. Holding
    BY Zenon DEF Init, Holding, Kept, IdleWorker, Rendering
  <1>4. Request
    BY DEF Init, Request, IdleCapture, IdleWorker, Rendering
  <1>41. Walk
    BY Zenon DEF Init, Walk, IdleWorker
  <1>5. \A r \in Readers : Chunks(r)
    BY DEF Init, Chunks, IdleReader
  <1>6. OneReference
    BY DEF Init, OneReference, IdleWorker
  <1>7. SnapshotCoherent /\ FetchedWhole
    BY Zenon DEF Init, SnapshotCoherent, FetchedWhole, IdleReader
  <1> QED
    BY <1>1, <1>2, <1>3, <1>4, <1>41, <1>5, <1>6, <1>7, ZenonT(60) DEF IInv

(* ... counts itself, ... *)
LEMMA CountKeeps == ASSUME IInv, NEW r \in Readers, ReadCount(r) PROVE IInv'
  <1> DEFINE n == [reader[r] EXCEPT !.pc = "again"]
  <1>0. /\ Typed /\ readers = Cardinality(Inside) /\ readers \in Nat /\ reader[r] \in ReaderType
        /\ reader[r].held = None /\ reader[r].id <= requests
    BY Zenon DEF IInv, Gate, Inside, Typed, ReadCount, Chunks
  <1>1. /\ n \in ReaderType /\ n.pc = "again" /\ n.held = None /\ n.id <= requests
        /\ n.id = reader[r].id /\ n.got = reader[r].got
    BY <1>0, Zenon DEF ReaderType, Counted
  <1> HIDE DEF n
  <1>2. /\ Goto(r, n) /\ readers' = readers + 1
        /\ UNCHANGED <<writer, fields, memory, target, generation, capture, worker, history>>
    BY Zenon DEF ReadCount, n
  <1>3. reader[r].pc \notin Counted /\ n.pc \in Counted
    BY <1>1, Zenon DEF ReadCount, Counted
  <1>4. readers' = Cardinality(Inside') /\ readers' \in Nat
    BY <1>0, <1>1, <1>2, <1>3, ReaderSteps, EnterCounted, ZenonT(60)
  <1> QED
    BY <1>1, <1>2, <1>4, NoChunkKeeps, ZenonT(60)

(* A prefix of a sequence, and one more of its elements. *)
LEMMA NextChunk ==
  ASSUME NEW s \in Seq(Nat), NEW t \in Seq(Nat), Len(s) < Len(t),
         \A i \in 1 .. Len(s) : i <= Len(t) /\ s[i] = t[i]
  PROVE  LET u == Append(s, t[Len(s) + 1])
         IN  /\ u \in Seq(Nat) /\ Len(u) = Len(s) + 1 /\ u # <<>>
             /\ \A i \in 1 .. Len(u) : i <= Len(t) /\ u[i] = t[i]
  <1> DEFINE e == t[Len(s) + 1]
             u == Append(s, e)
  <1>1. Len(s) \in Nat /\ Len(t) \in Nat /\ Len(s) + 1 \in 1 .. Len(t)
    OBVIOUS
  <1>2. e \in Nat
    BY <1>1
  <1> HIDE DEF e
  <1>3. u \in Seq(Nat) /\ u # <<>> /\ Len(u) = Len(s) + 1
    BY <1>2, SMTT(60)
  <1>31. \A i \in 1 .. Len(s) : u[i] = s[i]
    BY <1>1, <1>2
  <1>32. u[Len(s) + 1] = e
    BY <1>1, <1>2
  <1> HIDE DEF u
  <1>4. ASSUME NEW i \in 1 .. Len(u) PROVE i <= Len(t) /\ u[i] = t[i]
    <2>1. CASE i \in 1 .. Len(s)
      BY <1>3, <1>31, <2>1, ZenonT(60)
    <2>2. CASE i = Len(s) + 1
      BY <1>1, <1>32, <2>2 DEF e
    <2> QED
      BY <1>1, <1>3, <2>1, <2>2
  <1> QED
    BY <1>3, <1>4, Zenon DEF u, e

(* Two texts with the same lines show the same. *)
LEMMA SameShown ==
  ASSUME NEW s \in Seq(Nat), NEW t \in Seq(Nat), Len(s) = Len(t),
         \A i \in 1 .. Len(s) : s[i] = t[i], NEW pages, Shows(t, pages)
  PROVE  Shows(s, pages)
  <1>1. {s[i] : i \in 1 .. Len(s)} = {t[i] : i \in 1 .. Len(t)}
    BY SMTT(60)
  <1>2. \A i, j \in 1 .. Len(s) : i < j => s[i] < s[j]
    BY Zenon DEF Shows
  <1> QED
    BY <1>1, <1>2, Zenon DEF Shows

(* It copies the next chunk of the snapshot it has been reading: no newer one *)
(* can have taken its place.                                                  *)
LEMMA CopyKeeps == ASSUME IInv, NEW r \in Readers, ReadCopy(r) PROVE IInv'
  <1>0. /\ Typed /\ readers = Cardinality(Inside) /\ readers \in Nat /\ reader[r] \in ReaderType
        /\ reader[r].pc = "copy" /\ Chunks(r) /\ data # None /\ reader[r].held = data
        /\ reader[r].id = data.id /\ Len(reader[r].got) < Len(data.content)
        /\ readers' = readers - 1
    BY Zenon DEF IInv, Gate, Inside, Typed, ReadCopy, Chunks
  <1>1. UNCHANGED <<writer, fields, memory, target, generation, capture, worker, history>>
    BY Zenon DEF ReadCopy
  <1>2. UNCHANGED <<data, requests, published>>
    BY <1>1, Zenon DEF fields, history
  <1>3. /\ data \in Snapshot /\ data.id \in Ids /\ data.content \in Seq(Nat)
        /\ reader[r].got \in Seq(Nat)
    BY <1>0, Zenon DEF Typed, Snapshot, ReaderType
  <1> DEFINE content == data.content
             got == Append(reader[r].got, content[Len(reader[r].got) + 1])
             pc == IF Len(got) = Len(content) THEN "whole" ELSE "look"
             n == [reader[r] EXCEPT !.got = got, !.held = None, !.pc = pc]
  <1>4. /\ got \in Seq(Nat) /\ Len(got) = Len(reader[r].got) + 1 /\ got # <<>>
        /\ \A i \in 1 .. Len(got) : i <= Len(content) /\ got[i] = content[i]
    <2>1. \A i \in 1 .. Len(reader[r].got) : i <= Len(content) /\ reader[r].got[i] = content[i]
      BY <1>0, Zenon DEF Chunks
    <2> QED
      BY <1>0, <1>3, <2>1, NextChunk, ZenonT(60)
  <1>5. Goto(r, n)
    BY <1>0, Zenon DEF ReadCopy
  <1> HIDE DEF got
  <1>6. /\ n \in ReaderType /\ n.pc = pc /\ pc \in {"whole", "look"} /\ n.held = None
        /\ n.id = reader[r].id /\ n.got = got
    BY <1>0, <1>4, Zenon DEF ReaderType
  <1>7. pc = "whole" => (Shows(content, published[data.id]) => Shows(got, published[data.id]))
    BY <1>3, <1>4, SameShown, Zenon
  <1> HIDE DEF n, pc
  <1>8. reader'[r] = n /\ \A q \in Readers \ {r} : reader'[q] = reader[q]
    BY <1>0, <1>5, <1>6, ReaderSteps, Zenon
  <1>9. readers' = Cardinality(Inside') /\ readers' \in Nat
    BY <1>0, <1>6, <1>8, LeaveCounted, Zenon DEF Counted
  <1>10. Chunks(r)'
    <2>1. /\ reader'[r].id = data.id /\ reader'[r].got = got /\ reader'[r].held = None
          /\ reader'[r].pc # "copy" /\ data' = data /\ requests' = requests
      BY <1>0, <1>2, <1>6, <1>8, ZenonT(60)
    <2>2. data.id <= requests /\ data.id > 0
      BY <1>0, <1>3 DEF Chunks, Ids
    <2> HIDE DEF content
    <2>3. \A i \in 1 .. Len(got) : i <= Len(data.content) /\ got[i] = data.content[i]
      BY <1>4, Zenon DEF content
    <2> QED
      BY <1>4, <2>1, <2>2, <2>3, ZenonT(60) DEF Chunks
  <1>11. ~(worker.op = "maps" /\ worker.pc \notin {"idle", "end", "release"} /\ n.id = worker.id)
    <2>1. worker.op = "maps" /\ worker.pc \notin {"idle", "end", "release"}
            => data.id < worker.id
      BY <1>0, ZenonT(60) DEF IInv, Request
    <2>2. data.id \in Nat /\ worker.id \in Nat
      BY <1>0, <1>3, SMTT(60) DEF Typed, Ids, WorkerType
    <2> QED
      BY <1>0, <1>6, <2>1, <2>2, SMTT(60)
  <1>12. n.pc = "whole" => Shows(n.got, published[n.id])
    BY <1>0, <1>6, <1>7, Zenon DEF IInv, SnapshotCoherent
  <1> QED
    BY <1>1, <1>5, <1>6, <1>9, <1>10, <1>11, <1>12, ReaderKeeps, ZenonT(60)

(* It ends the read, or the client is done. *)
LEMMA LeaveKeeps == ASSUME IInv, NEW r \in Readers, ReadLeave(r) PROVE IInv'
  <1>0. /\ Typed /\ readers = Cardinality(Inside) /\ readers \in Nat
        /\ 0 <= requests /\ Goto(r, IdleReader)
    BY DEF IInv, Gate, Inside, Typed, ReadLeave
  <1>1. UNCHANGED <<writer, fields, memory, target, generation, capture, worker, history>>
    BY Zenon DEF ReadLeave
  <1>2. reader'[r] = IdleReader /\ \A q \in Readers \ {r} : reader'[q] = reader[q]
    BY <1>0, IdleTypes, ReaderSteps, Zenon
  <1>3. readers' = Cardinality(Inside') /\ readers' \in Nat
    <2>1. CASE reader[r].pc = "leave" /\ readers' = readers - 1
      BY <1>0, <1>2, <2>1, IdleTypes, LeaveCounted, ZenonT(60) DEF Counted
    <2>2. CASE reader[r].pc = "whole" /\ UNCHANGED readers
      BY <1>0, <1>2, <2>2, IdleTypes, StayCounted, ZenonT(60) DEF Counted
    <2> QED
      BY <2>1, <2>2, Zenon DEF ReadLeave
  <1> QED
    BY <1>0, <1>1, <1>3, IdleTypes, NoChunkKeeps, ZenonT(60)

(* ... and comes to an end, with everything shown; ... *)
LEMMA RenderDoneKeeps == ASSUME IInv, RenderDone PROVE IInv'
  <1>1. /\ UNCHANGED <<gate, fields, refs, space, generation, capture, reader, history>>
        /\ UNCHANGED <<buffers, data, published>> /\ worker.pc = "walk"
        /\ FindVma(worker.cursor) = {}
    BY Zenon DEF RenderDone, memory, fields, history
  <1>2. /\ Typed /\ worker \in WorkerType
        /\ worker.buffer = None /\ worker.task = None /\ task = worker.gen
        /\ users = 1 /\ buffers = Kept \cup {worker.id} /\ buffers' \in SUBSET Ids
        /\ worker.pc \in Rendering
    BY <1>1, ZenonT(60) DEF IInv, Holding, Request, Typed, Rendering
  <1>3. locked' = FALSE /\ locked' \in BOOLEAN
    BY Zenon DEF RenderDone
  <1>4. users' = 0
    BY <1>2 DEF RenderDone
  <1>5. Kept' = Kept
    BY <1>1, Zenon DEF Kept
  <1>6. PICK pc \in {"out", "publish"} : At(pc)
    BY Zenon DEF RenderDone
  <1>7. /\ worker' \in WorkerType /\ worker'.pc = pc
        /\ worker'.op = worker.op /\ worker'.gen = worker.gen /\ worker'.id = worker.id
        /\ worker'.out = worker.out
        /\ worker'.buffer = worker.buffer /\ worker'.task = worker.task
    BY <1>2, <1>6, AtSteps, Zenon DEF WorkerInside, Rendering
  <1>8. Holding'
    BY <1>1, <1>2, <1>3, <1>4, <1>5, <1>7, ZenonT(60) DEF Holding, Rendering
  <1>9. Walk'
    <2>1. /\ worker.cursor \in Nat /\ space = published[worker.id]
          /\ Shows(worker.out, Below(space, worker.cursor))
      BY <1>1, <1>2, ZenonT(60) DEF IInv, Walk, WorkerType
    <2>2. Below(space, worker.cursor) = space
      BY <1>1, <1>2, <2>1, FindVmaExact, ZenonT(60)
    <2> QED
      BY <1>1, <1>7, <2>1, <2>2, ZenonT(60) DEF Walk
  <1>10. worker'.pc \in Rendering \cup {"end"} /\ users' \in Nat
    BY <1>4, <1>7, Zenon DEF Rendering
  <1>11. worker.pc \in Rendering \cup {"maps"} /\ worker'.task = worker.task
    BY <1>2, <1>7, Zenon
  <1> QED
    BY <1>1, <1>2, <1>3, <1>7, <1>8, <1>9, <1>10, <1>11, RenderKeeps, ZenonT(60)

-----------------------------------------------------------------------------
(* Every step of every actor keeps the invariant. *)
LEMMA NextInvariant == IInv /\ [Next]_vars => IInv'
  <1> SUFFICES ASSUME IInv, [Next]_vars PROVE IInv'
    OBVIOUS
  <1>1. CASE CaptureBegin \/ CaptureHasTask
    BY <1>1, CaptureLookKeeps, Zenon
  <1>2. CASE CaptureGate
    BY <1>2, NobodyInside, CaptureGateKeeps, Zenon
  <1>3. CASE CaptureTask
    BY <1>3, CaptureTaskKeeps, ZenonT(60)
  <1>4. CASE WorkerMaps \/ WorkerClear
    BY <1>4, WorkerStartKeeps, Zenon
  <1>5. CASE Worker
    BY <1>5, NobodyInside, WorkerGateKeeps, SnapshotCheckKeeps, RenderMmKeeps, RenderLockKeeps,
       RenderVmaKeeps, RenderDoneKeeps, RenderOutKeeps, PublishKeeps, ClearFieldsKeeps,
       WriteEndKeeps, ReleaseKeeps, SMTT(60)
       DEF Worker
  <1>6. ASSUME NEW r \in Readers, Reader(r) PROVE IInv'
    BY <1>6, LookKeeps, CountKeeps, AgainKeeps, CheckKeeps, CopyKeeps, LeaveKeeps, ZenonT(60) DEF Reader
  <1>7. ASSUME NEW r \in Readers, NEW id \in 1 .. requests, Fetch(r, id) PROVE IInv'
    BY <1>7, FetchKeeps, ZenonT(60)
  <1>8. CASE Bind
    BY <1>8, BindKeeps, Zenon
  <1>9. CASE Mmap
    BY <1>9, MmapKeeps, Zenon
  <1>10. CASE UNCHANGED vars
    BY <1>10, StutterKeeps, Zenon
  <1> QED
    BY <1>1, <1>2, <1>3, <1>4, <1>5, <1>6, <1>7, <1>8, <1>9, <1>10, ZenonT(60) DEF Next

(* The invariant of the gate, the requests, the walk and the readers holds in *)
(* every state.                                                               *)
THEOREM Invariance == Spec => []IInv
  BY InitInvariant, NextInvariant, PTL DEF Spec

(* Readers and writers of struct spz_maps exclude each other: while a writer  *)
(* is past spz_maps_write_begin no reader is past spz_maps_read_begin.        *)
THEOREM GateExcludes ==
  Spec => [](capture.pc = "in" \/ worker.pc \in WorkerInside =>
                 \A r \in Readers : reader[r].pc \notin {"check", "copy"})
  <1>1. IInv => (capture.pc = "in" \/ worker.pc \in WorkerInside =>
                   \A r \in Readers : reader[r].pc \notin {"check", "copy"})
    BY Zenon DEF IInv, Gate
  <1> QED
    BY <1>1, Invariance, PTL

(* The buffer a reader copies from has not been released, whichever snapshots *)
(* and CLEARs come while it copies.                                           *)
THEOREM LiveBuffer == Spec => []ReadLiveBuffer
  <1>1. IInv => ReadLiveBuffer
    <2> SUFFICES ASSUME IInv, NEW r \in Readers, reader[r].held # None
                 PROVE  reader[r].held.id \in buffers
      BY Zenon DEF ReadLiveBuffer
    <2>1. reader[r].pc = "copy" /\ data # None /\ reader[r].held = data
      BY Zenon DEF IInv, Chunks
    <2>2. worker \in WorkerType
      BY Zenon DEF IInv, Typed
    <2>3. Kept \subseteq buffers
      BY <2>2, ZenonT(60) DEF IInv, Holding, WorkerType, WorkerInside
    <2> QED
      BY <2>1, <2>3, Zenon DEF Kept
  <1> QED
    BY <1>1, Invariance, PTL

(* retain_task and release_task balance for every task.                       *)
THEOREM References == Spec => []OneReference
  <1>1. IInv => OneReference
    BY ZenonT(60) DEF IInv
  <1> QED
    BY <1>1, Invariance, PTL

(* A published snapshot shows the mappings the target had when its lock was   *)
(* taken: all of them, once each, in order.                                   *)
THEOREM Coherent == Spec => []SnapshotCoherent
  <1>1. IInv => SnapshotCoherent
    BY Zenon DEF IInv
  <1> QED
    BY <1>1, Invariance, PTL

(* The task rendered is that of the generation asked for, and referenced.     *)
THEOREM Referenced == Spec => []RenderReferenced
  <1>1. IInv => RenderReferenced
    <2> SUFFICES ASSUME IInv, worker.pc \in {"mm", "lock", "walk", "publish"}
                 PROVE  task = worker.gen /\ refs[worker.gen] > 0
      BY Zenon DEF RenderReferenced
    <2>1. task = worker.gen /\ worker.gen > 0
      BY ZenonT(60) DEF IInv, Request, Rendering
    <2>2. worker.gen \in Generations /\ refs \in [Generations -> Nat]
      BY <2>1 DEF IInv, Typed, WorkerType, Generations
    <2>3. refs[worker.gen] = 1 + (IF worker.gen = worker.task THEN 1 ELSE 0)
      BY <2>1, <2>2, ZenonT(60) DEF IInv, OneReference
    <2> QED
      BY <2>1, <2>3
  <1> QED
    BY <1>1, Invariance, PTL

(* The chunks a client puts together are those of one snapshot.               *)
THEOREM Whole == Spec => []FetchedWhole
  <1>1. IInv => FetchedWhole
    BY Zenon DEF IInv
  <1> QED
    BY <1>1, Invariance, PTL

(* Between two requests the worker holds nothing of the target, and the only  *)
(* buffer is the published one.                                               *)
THEOREM Released == Spec => []NothingKept
  <1>1. IInv => NothingKept
    <2>1. ASSUME IInv, worker.pc \in {"idle", "begin", "wait"}
          PROVE  ~locked /\ users = 0 /\ buffers = Kept
      BY <2>1, Zenon DEF IInv, Holding
    <2> QED
      BY <2>1, Zenon DEF NothingKept, Kept
  <1> QED
    BY <1>1, Invariance, PTL

==============================================================================
