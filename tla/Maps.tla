------------------------------- MODULE Maps --------------------------------
(* The maps snapshot of a bound task: the gate between one writer and any     *)
(* readers and the published buffer (kpm/core/maps.c), the walk over the      *)
(* address space that fills it (kpm/platform/kpatch/maps.c), and the client   *)
(* that fetches it chunk by chunk (user/kpm/client.go, SnapshotMaps).         *)
(* Writers are a scheduler callback that captures the task, and the worker    *)
(* with its requests MAPS and CLEAR.  Each generation has a task of its own.  *)
EXTENDS Naturals, Sequences, FiniteSets

CONSTANTS
    Readers,       \* control calls that may be reading at the same time
    Pages,         \* 0 .. n: where the target has a mapping of one page or none
    None,
    MaxLength,     \* max_snapshot_bytes, in mappings
    MaxGeneration, \* bound: bindings
    MaxSnapshot    \* bound: MAPS requests

ASSUME MapsAssumption ==
    /\ Pages = 0 .. Cardinality(Pages) - 1 /\ IsFiniteSet(Readers)
    /\ None \notin Nat /\ None \notin [id : Nat, content : Seq(Nat)]
    /\ MaxLength \in Nat /\ MaxGeneration \in Nat /\ MaxSnapshot \in Nat

VARIABLES
    writer, readers,       \* the gate of struct spz_maps
    state, task,           \* its state, and task = task_generation or None
    data,                  \* data, length and snapshot, or None
    refs, buffers,         \* task references held, buffers allocated
    space, locked, users,  \* the target: mappings, mmap lock held by us, mm references
    generation,            \* the binding's generation
    capture, worker,       \* the two writers
    reader,                \* [Readers -> ...]: the reading calls
    requests,              \* snapshots asked for so far
    published              \* history: the mappings each snapshot must show

gate == <<writer, readers>>
fields == <<state, task, data>>
memory == <<refs, buffers>>
target == <<space, locked, users>>
history == <<requests, published>>
vars == <<gate, fields, memory, target, generation, capture, worker, reader, history>>

-----------------------------------------------------------------------------
IdleCapture == [pc |-> "idle", gen |-> 0]

IdleWorker == [pc |-> "idle", op |-> None, gen |-> 0, id |-> 0, cursor |-> 0,
               out |-> <<>>, buffer |-> None, task |-> None]

IdleReader == [pc |-> "idle", id |-> 0, got |-> <<>>, held |-> None]

(* spz_maps_write_begin: the flag, then a bounded wait for the readers.       *)
WriteBegin(to, busy) ==
    \/ writer = 0 /\ writer' = 1 /\ to
    \/ writer = 1 /\ UNCHANGED writer /\ busy

(* Mutant: the readers inside are not waited for. *)
WriteWaitNot(to, busy) == UNCHANGED writer /\ to

WriteWait(to, busy) ==
    \/ readers = 0 /\ UNCHANGED writer /\ to
    \/ readers # 0 /\ writer' = 0 /\ busy

-----------------------------------------------------------------------------
(* spz_module_finish_after has observed the target; spz_maps_capture_task *)
CaptureBegin ==
    /\ capture.pc = "idle" /\ generation > 0
    /\ capture' = [pc |-> "has", gen |-> generation]
    /\ UNCHANGED <<gate, fields, memory, target, generation, worker, reader, history>>

(* spz_maps_has_task *)
CaptureHasTask ==
    /\ capture.pc = "has"
    /\ capture' = IF task = None THEN [capture EXCEPT !.pc = "begin"] ELSE IdleCapture
    /\ UNCHANGED <<gate, fields, memory, target, generation, worker, reader, history>>

CaptureGate ==
    LET to(pc) == capture' = [capture EXCEPT !.pc = pc]
        leave == capture' = IdleCapture
    IN  /\ \/ capture.pc = "begin" /\ WriteBegin(to("wait"), leave)
           \/ capture.pc = "wait" /\ WriteWait(to("in"), leave)
        /\ UNCHANGED <<readers, fields, memory, target, generation, worker, reader, history>>

(* Inside: nothing when a task is retained, else retain_task. *)
CaptureTask ==
    /\ capture.pc = "in"
    /\ \/ /\ task = None
          /\ task' = capture.gen /\ state' = "TASK_CAPTURED"
          /\ refs' = [refs EXCEPT ![capture.gen] = @ + 1]
       \/ task # None /\ UNCHANGED <<task, state, refs>>
    /\ writer' = 0 /\ capture' = IdleCapture
    /\ UNCHANGED <<readers, data, buffers, target, generation, worker, reader, history>>

-----------------------------------------------------------------------------
(* The worker: spz_module_async_execute reads the binding's generation, then  *)
(* spz_maps_snapshot under the request's number, or spz_maps_clear.           *)
At(pc) == worker' = [worker EXCEPT !.pc = pc]

WorkerMaps ==
    /\ worker.pc = "idle" /\ generation > 0 /\ requests < MaxSnapshot
    /\ requests' = requests + 1
    /\ worker' = [IdleWorker EXCEPT !.pc = "begin", !.op = "maps", !.gen = generation,
                                    !.id = requests + 1]
    /\ UNCHANGED <<gate, fields, memory, target, generation, capture, reader, published>>

WorkerClear ==
    /\ worker.pc = "idle"
    /\ worker' = [IdleWorker EXCEPT !.pc = "begin", !.op = "clear"]
    /\ UNCHANGED <<gate, fields, memory, target, generation, capture, reader, history>>

WorkerGate ==
    LET leave == worker' = IdleWorker
    IN  /\ \/ worker.pc = "begin" /\ WriteBegin(At("wait"), leave)
           \/ worker.pc = "wait" /\ WriteWait(At(worker.op), leave)
        /\ UNCHANGED <<readers, fields, memory, target, generation, capture, reader, history>>

(* Mutant: the generation of the retained task is not compared. *)
SnapshotCheckAnyTask ==
    /\ worker.pc = "maps"
    /\ \/ task # None /\ At("mm") /\ buffers' = buffers \cup {worker.id}
       \/ task = None /\ At("end") /\ UNCHANGED buffers
    /\ UNCHANGED <<gate, fields, refs, target, generation, capture, reader, history>>

(* A task of another generation is not rendered (-ESTALE).  spz_maps_render_  *)
(* vmas allocates its buffer ...                                              *)
SnapshotCheck ==
    /\ worker.pc = "maps"
    /\ \/ task = worker.gen /\ At("mm") /\ buffers' = buffers \cup {worker.id}
       \/ task # worker.gen /\ At("end") /\ UNCHANGED buffers
    /\ UNCHANGED <<gate, fields, refs, target, generation, capture, reader, history>>

(* ... takes the address space (-ESRCH when the task has none left) ...       *)
RenderMm ==
    /\ worker.pc = "mm"
    /\ \/ users' = users + 1 /\ At("lock")
       \/ UNCHANGED users /\ At("out")
    /\ UNCHANGED <<gate, fields, memory, space, locked, generation, capture, reader, history>>

(* Mutant: the lock is not taken. *)
RenderUnlocked ==
    /\ worker.pc = "lock"
    /\ At("walk") /\ published' = [published EXCEPT ![worker.id] = space]
    /\ UNCHANGED <<gate, fields, memory, target, generation, capture, reader, requests>>

(* ... and its lock (or is killed), ...                                       *)
RenderLock ==
    /\ worker.pc = "lock"
    /\ \/ /\ locked' = TRUE /\ At("walk")
          /\ published' = [published EXCEPT ![worker.id] = space]
       \/ At("out") /\ UNCHANGED <<locked, published>>
    /\ UNCHANGED <<gate, fields, memory, space, users, generation, capture, reader, requests>>

(* find_vma: the first mapping that ends after the address *)
FindVma(address) == {p \in space : p >= address /\ \A q \in space : q >= address => p <= q}

(* Mutant: the cursor stays at the start of the mapping. *)
RenderVmaStays ==
    /\ worker.pc = "walk"
    /\ \E vma \in FindVma(worker.cursor) : worker' = [worker EXCEPT !.cursor = vma]
    /\ UNCHANGED <<gate, fields, memory, target, generation, capture, reader, history>>

(* ... shows the mapping at the cursor and goes to its end, as long as the    *)
(* buffer is not full (-E2BIG) and mas_walk finds the same mapping            *)
(* (-EUCLEAN), ...                                                            *)
RenderVma ==
    /\ worker.pc = "walk"
    /\ \E vma \in FindVma(worker.cursor) :
          \/ At("out")
          \/ /\ Len(worker.out) + 1 < MaxLength
             /\ worker' = [worker EXCEPT !.out = Append(@, vma), !.cursor = vma + 1]
    /\ UNCHANGED <<gate, fields, memory, target, generation, capture, reader, history>>

(* ... until there is none.  An empty result is an error (-EUCLEAN).          *)
RenderDone ==
    /\ worker.pc = "walk" /\ FindVma(worker.cursor) = {}
    /\ At(IF worker.out = <<>> THEN "out" ELSE "publish")
    /\ locked' = FALSE /\ users' = users - 1
    /\ UNCHANGED <<gate, fields, memory, space, generation, capture, reader, history>>

(* Mutant: the way out forgets the address space. *)
RenderOutKeepsMm ==
    /\ worker.pc = "out"
    /\ locked' = FALSE
    /\ buffers' = buffers \ {worker.id} /\ At("end")
    /\ UNCHANGED <<gate, fields, refs, space, users, generation, capture, reader, history>>

(* The way out of a failure: unlock, mmput, free. *)
RenderOut ==
    /\ worker.pc = "out"
    /\ locked' = FALSE /\ users' = 0
    /\ buffers' = buffers \ {worker.id} /\ At("end")
    /\ UNCHANGED <<gate, fields, refs, space, generation, capture, reader, history>>

(* spz_maps_snapshot swaps the buffers and keeps the old one to release.      *)
Publish ==
    /\ worker.pc = "publish"
    /\ data' = [id |-> worker.id, content |-> worker.out]
    /\ state' = "READY"
    /\ worker' = [worker EXCEPT !.pc = "end",
                                !.buffer = IF data = None THEN None ELSE data.id]
    /\ UNCHANGED <<gate, task, memory, target, generation, capture, reader, history>>

(* spz_maps_clear takes everything out. *)
ClearFields ==
    /\ worker.pc = "clear"
    /\ task' = None /\ data' = None /\ state' = "EMPTY"
    /\ worker' = [worker EXCEPT !.pc = "end", !.task = task,
                                !.buffer = IF data = None THEN None ELSE data.id]
    /\ UNCHANGED <<gate, memory, target, generation, capture, reader, history>>

WriteEnd ==
    /\ worker.pc = "end" /\ writer' = 0 /\ At("release")
    /\ UNCHANGED <<readers, fields, memory, target, generation, capture, reader, history>>

(* Mutant: the reference to the task is not given back. *)
ReleaseBufferOnly ==
    /\ worker.pc = "release" /\ worker' = IdleWorker
    /\ buffers' = buffers \ {worker.buffer}
    /\ UNCHANGED <<gate, fields, refs, target, generation, capture, reader, history>>

(* release_buffer and release_task, outside the gate *)
Release ==
    /\ worker.pc = "release" /\ worker' = IdleWorker
    /\ buffers' = buffers \ {worker.buffer}
    /\ refs' = [g \in DOMAIN refs |-> IF g = worker.task THEN refs[g] - 1 ELSE refs[g]]
    /\ UNCHANGED <<gate, fields, target, generation, capture, reader, history>>

Worker == \/ WorkerGate \/ SnapshotCheck \/ RenderMm \/ RenderLock \/ RenderVma \/ RenderDone
          \/ RenderOut \/ Publish \/ ClearFields \/ WriteEnd \/ Release

-----------------------------------------------------------------------------
(* SnapshotMaps of the client: spz_control_maps_read at growing offsets until *)
(* eof; any error ends it.  spz_maps_read_begin looks at the writer's flag,   *)
(* counts itself and looks again, ...                                         *)
Goto(r, rec) == reader' = [reader EXCEPT ![r] = rec]

Fetch(r, id) ==
    /\ reader[r].pc = "idle"
    /\ Goto(r, [IdleReader EXCEPT !.pc = "look", !.id = id])
    /\ UNCHANGED <<gate, fields, memory, target, generation, capture, worker, history>>

ReadLook(r) ==
    /\ reader[r].pc = "look"
    /\ Goto(r, IF writer = 0 THEN [reader[r] EXCEPT !.pc = "count"] ELSE IdleReader)
    /\ UNCHANGED <<gate, fields, memory, target, generation, capture, worker, history>>

ReadCount(r) ==
    /\ reader[r].pc = "count"
    /\ readers' = readers + 1 /\ Goto(r, [reader[r] EXCEPT !.pc = "again"])
    /\ UNCHANGED <<writer, fields, memory, target, generation, capture, worker, history>>

ReadAgain(r) ==
    /\ reader[r].pc = "again"
    /\ Goto(r, [reader[r] EXCEPT !.pc = IF writer = 0 THEN "check" ELSE "leave"])
    /\ UNCHANGED <<gate, fields, memory, target, generation, capture, worker, history>>

(* Mutant: any snapshot will do. *)
ReadCheckAny(r) ==
    /\ reader[r].pc = "check"
    /\ IF state = "READY" /\ data # None /\ Len(reader[r].got) < Len(data.content)
       THEN Goto(r, [reader[r] EXCEPT !.pc = "copy", !.held = data])
       ELSE Goto(r, [reader[r] EXCEPT !.pc = "leave"])
    /\ UNCHANGED <<gate, fields, memory, target, generation, capture, worker, history>>

(* ... then at the snapshot's number and length (-ESTALE, -ERANGE).           *)
ReadCheck(r) ==
    /\ reader[r].pc = "check"
    /\ IF state = "READY" /\ data # None /\ data.id = reader[r].id
             /\ Len(reader[r].got) < Len(data.content)
       THEN Goto(r, [reader[r] EXCEPT !.pc = "copy", !.held = data])
       ELSE Goto(r, [reader[r] EXCEPT !.pc = "leave"])
    /\ UNCHANGED <<gate, fields, memory, target, generation, capture, worker, history>>

(* spz_control_maps_read copies the chunk out and ends the read; the client   *)
(* goes on at the next offset.                                                *)
ReadCopy(r) ==
    LET content == reader[r].held.content
        got == Append(reader[r].got, content[Len(reader[r].got) + 1])
    IN  /\ reader[r].pc = "copy"
        /\ readers' = readers - 1
        /\ Goto(r, [reader[r] EXCEPT !.got = got, !.held = None,
                                     !.pc = IF Len(got) = Len(content)
                                            THEN "whole" ELSE "look"])
        /\ UNCHANGED <<writer, fields, memory, target, generation, capture, worker, history>>

ReadLeave(r) ==
    /\ \/ reader[r].pc = "leave" /\ readers' = readers - 1
       \/ reader[r].pc = "whole" /\ UNCHANGED readers
    /\ Goto(r, IdleReader)
    /\ UNCHANGED <<writer, fields, memory, target, generation, capture, worker, history>>

Reader(r) == \/ ReadLook(r) \/ ReadCount(r) \/ ReadAgain(r) \/ ReadCheck(r) \/ ReadCopy(r)
             \/ ReadLeave(r)

-----------------------------------------------------------------------------
(* A new binding, refused while a task is retained. *)
Bind ==
    /\ generation < MaxGeneration /\ task = None
    /\ generation' = generation + 1
    /\ UNCHANGED <<gate, fields, memory, target, capture, worker, reader, history>>

(* The target maps or unmaps something, which needs the lock. *)
Mmap ==
    /\ ~locked
    /\ \E p \in Pages : space' = IF p \in space THEN space \ {p} ELSE space \cup {p}
    /\ UNCHANGED <<gate, fields, memory, locked, users, generation, capture, worker, reader,
                   history>>

Init ==
    /\ writer = 0 /\ readers = 0
    /\ state = "EMPTY" /\ task = None /\ data = None
    /\ refs = [g \in 1 .. MaxGeneration |-> 0] /\ buffers = {}
    /\ space = Pages /\ locked = FALSE /\ users = 0
    /\ generation = 0
    /\ capture = IdleCapture /\ worker = IdleWorker
    /\ reader = [r \in Readers |-> IdleReader]
    /\ requests = 0 /\ published = [s \in 1 .. MaxSnapshot |-> {}]

Next == \/ CaptureBegin \/ CaptureHasTask \/ CaptureGate \/ CaptureTask
        \/ WorkerMaps \/ WorkerClear \/ Worker
        \/ \E r \in Readers : Reader(r) \/ \E id \in 1 .. requests : Fetch(r, id)
        \/ Bind \/ Mmap

Spec == Init /\ [][Next]_vars

(* The worker of a queued request runs. *)
FairSpec == Spec /\ WF_vars(Worker)

-----------------------------------------------------------------------------
(* A reader that is copying holds a buffer that has not been released: CLEAR  *)
(* and a newer snapshot release theirs only when no reader can have it.       *)
ReadLiveBuffer ==
    \A r \in Readers : reader[r].held # None => reader[r].held.id \in buffers

(* The reference to the task is taken once for every time it is retained and  *)
(* given back once by the CLEAR that takes it out.                            *)
OneReference ==
    \A g \in DOMAIN refs :
        refs[g] = (IF g = task THEN 1 ELSE 0) + (IF g = worker.task THEN 1 ELSE 0)

(* The text lists the mappings of an address space, each once and in order.   *)
Shows(content, pages) ==
    /\ {content[i] : i \in 1 .. Len(content)} = pages
    /\ \A i, j \in 1 .. Len(content) : i < j => content[i] < content[j]

(* A snapshot shows the address space at one moment, complete and in order,   *)
(* although the target keeps mapping and unmapping.                           *)
SnapshotCoherent == data # None => Shows(data.content, published[data.id])

(* The task that is rendered is the one retained for the generation that was  *)
(* asked for, and the reference to it is held: not one left over from an      *)
(* earlier binding, and not one a CLEAR has given back.                       *)
RenderReferenced ==
    worker.pc \in {"mm", "lock", "walk", "publish"} =>
        task = worker.gen /\ refs[worker.gen] > 0

(* What the client puts together from chunks is one snapshot, whatever is     *)
(* published or cleared between two chunks.                                   *)
FetchedWhole ==
    \A r \in Readers : reader[r].pc = "whole" =>
        Shows(reader[r].got, published[reader[r].id])

(* A finished request holds nothing of the target and no buffer but the one   *)
(* that is published.                                                         *)
NothingKept ==
    worker.pc \in {"idle", "begin", "wait"} =>
        /\ ~locked /\ users = 0
        /\ buffers = IF data = None THEN {} ELSE {data.id}

(* A request comes to an end: the walk makes progress in every step and the   *)
(* wait for readers is bounded.                                               *)
WorkerFinishes == worker.pc # "idle" ~> worker.pc = "idle"

-----------------------------------------------------------------------------
(* The inductive invariant: the types, ...                                    *)
Rendering == {"mm", "lock", "walk", "publish", "out"}

WorkerInside == Rendering \cup {"maps", "clear", "end"}

Counted == {"again", "check", "copy", "leave"}

Ids == 1 .. MaxSnapshot

Generations == 1 .. MaxGeneration

Snapshot == [id : Ids, content : Seq(Nat)]

WorkerType == [pc : WorkerInside \cup {"idle", "begin", "wait", "release"},
               op : {None, "maps", "clear"}, gen : 0 .. MaxGeneration, id : 0 .. MaxSnapshot,
               cursor : Nat, out : Seq(Nat), buffer : Ids \cup {None},
               task : Generations \cup {None}]

ReaderType == [pc : Counted \cup {"idle", "look", "count", "whole"}, id : 0 .. MaxSnapshot,
               got : Seq(Nat), held : Snapshot \cup {None}]

Typed ==
    /\ writer \in {0, 1} /\ readers \in Nat
    /\ state \in {"EMPTY", "TASK_CAPTURED", "READY"} /\ task \in Generations \cup {None}
    /\ data \in Snapshot \cup {None}
    /\ refs \in [Generations -> Nat] /\ buffers \in SUBSET Ids
    /\ space \in SUBSET Pages /\ locked \in BOOLEAN /\ users \in Nat
    /\ generation \in 0 .. MaxGeneration
    /\ capture \in [pc : {"idle", "has", "begin", "wait", "in"}, gen : 0 .. MaxGeneration]
    /\ worker \in WorkerType /\ reader \in [Readers -> ReaderType]
    /\ requests \in 0 .. MaxSnapshot /\ published \in [Ids -> SUBSET Pages]

(* ... the gate: the flag is up for one writer, the count is of the readers   *)
(* between read_begin and read_end, and a writer inside excludes them, ...    *)
Gate ==
    /\ writer = 1 <=> capture.pc \in {"wait", "in"} \/ worker.pc \in WorkerInside \cup {"wait"}
    /\ ~(capture.pc \in {"wait", "in"} /\ worker.pc \in WorkerInside \cup {"wait"})
    /\ readers = Cardinality({r \in Readers : reader[r].pc \in Counted})
    /\ capture.pc = "in" \/ worker.pc \in WorkerInside =>
          \A r \in Readers : reader[r].pc \notin {"check", "copy"}

(* ... what the worker holds of the target and of the buffers, ...            *)
Kept == IF data = None THEN {} ELSE {data.id}

Holding ==
    /\ worker.pc = "walk" => locked /\ users = 1
    /\ worker.pc = "lock" => ~locked /\ users = 1
    /\ worker.pc = "out" => users \in {0, 1}
    /\ worker.pc \notin {"lock", "walk", "out"} => ~locked /\ users = 0
    /\ worker.pc \in {"idle", "begin", "wait", "maps", "clear"} => buffers = Kept
    /\ worker.pc \in Rendering => buffers = Kept \cup {worker.id}
    /\ worker.pc \in {"end", "release"} =>
          /\ buffers = Kept \cup ({worker.buffer} \ {None})
          /\ worker.buffer \notin Kept
    /\ worker.pc \notin {"end", "release"} => worker.buffer = None /\ worker.task = None

(* ... its request: the number is new, and the task the one asked for, ...    *)
Request ==
    /\ data # None => data.id <= requests
    /\ worker.id <= requests
    /\ capture.pc # "idle" => capture.gen > 0
    /\ worker.pc \in {"begin", "wait"} => worker.op \in {"maps", "clear"}
    /\ worker.pc \in Rendering \cup {"maps"} => worker.op = "maps"
    /\ worker.op = "maps" /\ worker.pc # "idle" => worker.gen > 0 /\ worker.id > 0
    /\ worker.pc \in Rendering \ {"out"} => task = worker.gen
    /\ worker.op = "maps" /\ worker.pc \notin {"idle", "end", "release"} =>
          /\ data # None => data.id < worker.id
          /\ \A r \in Readers : reader[r].id = worker.id => reader[r].got = <<>>

(* ... the walk: what was shown is what lies below the cursor, ...            *)
Below(pages, cursor) == {p \in pages : p < cursor}

Walk ==
    /\ worker.pc \in {"begin", "wait", "maps", "mm", "lock"} =>
          worker.out = <<>> /\ worker.cursor = 0
    /\ worker.pc = "walk" =>
          /\ space = published[worker.id]
          /\ Shows(worker.out, Below(space, worker.cursor))
    /\ worker.pc = "publish" => Shows(worker.out, published[worker.id])

(* ... and the readers: the chunks so far are those of the snapshot, if it is *)
(* still the published one.                                                   *)
Chunks(r) ==
    /\ reader[r].id <= requests
    /\ reader[r].pc = "copy" => /\ data # None /\ reader[r].held = data /\ data.id = reader[r].id
                                /\ Len(reader[r].got) < Len(data.content)
    /\ reader[r].pc # "copy" => reader[r].held = None
    /\ data # None /\ reader[r].id = data.id =>
          \A i \in 1 .. Len(reader[r].got) : i <= Len(data.content)
                                              /\ reader[r].got[i] = data.content[i]
    /\ reader[r].pc = "whole" => reader[r].got # <<>> /\ reader[r].id > 0

IInv ==
    /\ Typed /\ Gate /\ Holding /\ Request /\ Walk /\ \A r \in Readers : Chunks(r)
    /\ OneReference /\ SnapshotCoherent /\ FetchedWhole
=============================================================================
