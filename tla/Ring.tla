-------------------------------- MODULE Ring --------------------------------
(* The per-CPU event rings of kpm/core/ring.c: producers fill the ring of     *)
(* their CPU and share one sequence counter; one reader at a time (control    *)
(* commands are serialised by control_busy) merges the rings by sequence      *)
(* number.  A step is one shared-memory access, or several of which at most   *)
(* one can be seen by another thread.  Payloads are abstracted to the number  *)
(* of the push; a loss record carries the count it reports.                   *)
EXTENDS Integers, Sequences

CONSTANTS
    NCpu,      \* SPZ_MAX_CPUS
    Producers, \* contexts that call spz_ring_push
    CpuOf,     \* [Producers -> CPUs]
    Handlers,  \* producers that run with preemption disabled on their CPU
    Capacity,  \* SPZ_RING_CAPACITY
    Word,      \* 2^64: the counters and their differences wrap
    MaxPush    \* bound: pushes between two resets

CPUs == 0 .. NCpu - 1

ASSUME RingAssumption ==
    /\ NCpu \in Nat \ {0}
    /\ Capacity \in Nat \ {0} /\ MaxPush \in Nat
    /\ Word \in Nat /\ Word > Capacity + 2 * MaxPush
    /\ CpuOf \in [Producers -> CPUs] /\ Handlers \subseteq Producers

VARIABLES
    next_sequence, consumer_after, \* struct spz_ring
    ring,   \* [CPUs -> [head, tail, lost, loss_pending]]: struct spz_cpu_ring
    slots,  \* [CPUs -> [0 .. Capacity-1 -> [commit, rec]]]
    prod,   \* [Producers -> [pc, todo, seq, head]]: a push in progress
    con,    \* [pc, after, cpu, tail, head, copy]: a poll in progress
    log,    \* history: the record each sequence number was given to
    out,    \* what the last poll has returned: <<>> or <<[seq, rec]>>
    pushes  \* history: [CPUs -> number of calls of push]

rvars == <<next_sequence, consumer_after, ring, slots, prod, con, log, out, pushes>>

NoRecord == [cpu |-> 0, n |-> 0, loss |-> 0]

IdlePush == [pc |-> "idle", todo |-> <<>>, seq |-> 0, head |-> 0]

IdlePoll == [pc |-> "idle", after |-> 0, cpu |-> 0, tail |-> 0,
             head |-> 0, copy |-> NoRecord]

EmptyRing == [c \in CPUs |-> [head |-> 0, tail |-> 0, lost |-> 0, loss_pending |-> 0]]

EmptySlots == [c \in CPUs |-> [i \in 0 .. Capacity - 1 |-> [commit |-> 0, rec |-> NoRecord]]]

(* The sum of the first n values of f, as a recursive function: the proofs    *)
(* unfold it one value at a time.                                             *)
Total(f, n) ==
    LET upTo[i \in 0 .. n] == IF i = 0 THEN 0 ELSE upTo[i - 1] + f[i]
    IN  upTo[n]

(* spz_cpu_used and the slot a free-running index names *)
Used(c) == (ring[c].head - ring[c].tail) % Word

SlotAt(c, index) == slots[c][index % Capacity]

-----------------------------------------------------------------------------
(* A producer runs unless a handler has taken its CPU. *)
Running(p) == \A q \in Handlers \ {p} : CpuOf[q] = CpuOf[p] => prod[q].pc = "idle"

CountLoss(c) == ring' = [ring EXCEPT ![c].lost = @ + 1, ![c].loss_pending = @ + 1]

(* spz_ring_push: a full ring counts the loss; otherwise a pending loss is    *)
(* reported first when there is room for both records.                        *)
PushBegin(p) ==
    LET c == CpuOf[p]
        event == [cpu |-> c, n |-> pushes[c] + 1, loss |-> 0]
        report == [cpu |-> c, n |-> 0, loss |-> ring[c].loss_pending]
        free == (Capacity - Used(c)) % Word
    IN  /\ Running(p) /\ prod[p].pc = "idle"
        /\ Total([i \in 1 .. NCpu |-> pushes[i - 1]], NCpu) < MaxPush
        /\ pushes' = [pushes EXCEPT ![c] = @ + 1]
        /\ \/ free = 0 /\ CountLoss(c) /\ UNCHANGED prod
           \/ /\ free # 0
              /\ prod' = [prod EXCEPT ![p].pc = "alloc",
                            ![p].todo = IF ring[c].loss_pending # 0 /\ free >= 2
                                        THEN <<report, event>> ELSE <<event>>]
              /\ UNCHANGED ring
        /\ UNCHANGED <<next_sequence, consumer_after, slots, con, log, out>>

(* spz_publish up to the sequence number.  A full ring counts a lost event    *)
(* but not a lost report; a slot still committed drops the record.            *)
PublishAlloc(p) ==
    LET c == CpuOf[p]
        full == Used(c) >= Capacity
    IN  /\ Running(p) /\ prod[p].pc = "alloc"
        /\ IF full \/ SlotAt(c, ring[c].head).commit # 0
           THEN /\ IF full /\ Len(prod[p].todo) = 1 THEN CountLoss(c) ELSE UNCHANGED ring
                /\ prod' = [prod EXCEPT ![p] = IdlePush]
                /\ UNCHANGED <<next_sequence, log>>
           ELSE /\ next_sequence' = next_sequence + 1
                /\ log' = Append(log, Head(prod[p].todo))
                /\ prod' = [prod EXCEPT ![p].pc = "fill", ![p].head = ring[c].head,
                                        ![p].seq = next_sequence + 1]
                /\ UNCHANGED ring
        /\ UNCHANGED <<consumer_after, slots, con, out, pushes>>

(* Mutant: the payload goes to the slot before the head. *)
PublishFillPrevious(p) ==
    /\ Running(p) /\ prod[p].pc = "fill"
    /\ slots' = [slots EXCEPT ![CpuOf[p]][(prod[p].head + Capacity - 1) % Capacity].rec =
                                Head(prod[p].todo)]
    /\ prod' = [prod EXCEPT ![p].pc = "commit"]
    /\ UNCHANGED <<next_sequence, consumer_after, ring, con, log, out, pushes>>

(* The payload is copied into the slot. *)
PublishFill(p) ==
    /\ Running(p) /\ prod[p].pc = "fill"
    /\ slots' = [slots EXCEPT ![CpuOf[p]][prod[p].head % Capacity].rec = Head(prod[p].todo)]
    /\ prod' = [prod EXCEPT ![p].pc = "commit"]
    /\ UNCHANGED <<next_sequence, consumer_after, ring, con, log, out, pushes>>

(* slot->commit is stored. *)
PublishCommit(p) ==
    /\ Running(p) /\ prod[p].pc = "commit"
    /\ slots' = [slots EXCEPT ![CpuOf[p]][prod[p].head % Capacity].commit = prod[p].seq]
    /\ prod' = [prod EXCEPT ![p].pc = "advance"]
    /\ UNCHANGED <<next_sequence, consumer_after, ring, con, log, out, pushes>>

(* Mutant: a reported loss stays pending. *)
PublishAdvanceKeepsPending(p) ==
    /\ Running(p) /\ prod[p].pc = "advance"
    /\ ring' = [ring EXCEPT ![CpuOf[p]].head = prod[p].head + 1]
    /\ prod' = [prod EXCEPT ![p] = IF Tail(prod[p].todo) = <<>> THEN IdlePush
                                   ELSE [@ EXCEPT !.pc = "alloc", !.todo = Tail(@)]]
    /\ UNCHANGED <<next_sequence, consumer_after, slots, con, log, out, pushes>>

(* head is stored; after a report the pending count drops by what it said and *)
(* the event itself follows.                                                  *)
PublishAdvance(p) ==
    LET rec == Head(prod[p].todo)
        rest == Tail(prod[p].todo)
    IN  /\ Running(p) /\ prod[p].pc = "advance"
        /\ ring' = [ring EXCEPT ![CpuOf[p]].head = prod[p].head + 1,
                                ![CpuOf[p]].loss_pending = (@ - rec.loss) % Word]
        /\ prod' = [prod EXCEPT ![p] = IF rest = <<>> THEN IdlePush
                                       ELSE [@ EXCEPT !.pc = "alloc", !.todo = rest]]
        /\ UNCHANGED <<next_sequence, consumer_after, slots, con, log, out, pushes>>

Push(p) == \/ PushBegin(p) \/ PublishAlloc(p) \/ PublishFill(p)
           \/ PublishCommit(p) \/ PublishAdvance(p)

-----------------------------------------------------------------------------
(* spz_ring_pop_after: the request is checked.  -ESTALE (behind the cursor)   *)
(* and -ERANGE (ahead of the counter) change nothing.                         *)
PollBegin(after) ==
    /\ con.pc = "idle"
    /\ after >= consumer_after /\ after <= next_sequence
    /\ con' = [IdlePoll EXCEPT !.pc = "load", !.after = after]
    /\ out' = <<>>
    /\ UNCHANGED <<next_sequence, consumer_after, ring, slots, prod, log, pushes>>

(* spz_discard_through, CPU by CPU: tail and head are loaded once ...         *)
PollLoad ==
    /\ con.pc = "load"
    /\ con' = [con EXCEPT !.pc = "discard", !.tail = ring[con.cpu].tail,
                          !.head = ring[con.cpu].head]
    /\ UNCHANGED <<next_sequence, consumer_after, ring, slots, prod, log, out, pushes>>

(* The next CPU of a loop over all of them, or what follows the loop. *)
NextCpu(again, after) ==
    IF con.cpu + 1 < NCpu THEN [con EXCEPT !.pc = again, !.cpu = @ + 1]
                          ELSE [con EXCEPT !.pc = after, !.cpu = 0]

(* Mutant: the record at the cursor itself is kept. *)
PollDiscardBelow ==
    LET commit == SlotAt(con.cpu, con.tail).commit
    IN  /\ con.pc = "discard"
        /\ IF con.tail < con.head /\ commit # 0 /\ commit < con.after
           THEN /\ slots' = [slots EXCEPT ![con.cpu][con.tail % Capacity].commit = 0]
                /\ ring' = [ring EXCEPT ![con.cpu].tail = con.tail + 1]
                /\ con' = [con EXCEPT !.tail = @ + 1]
           ELSE con' = NextCpu("load", "cursor") /\ UNCHANGED <<slots, ring>>
        /\ UNCHANGED <<next_sequence, consumer_after, prod, log, out, pushes>>

(* ... and records at or below the cursor go, one by one.  No producer looks  *)
(* at the slot before tail has moved, so the clearing of commit and the store *)
(* of tail are one step.                                                      *)
PollDiscard ==
    LET commit == SlotAt(con.cpu, con.tail).commit
    IN  /\ con.pc = "discard"
        /\ IF con.tail < con.head /\ commit # 0 /\ commit <= con.after
           THEN /\ slots' = [slots EXCEPT ![con.cpu][con.tail % Capacity].commit = 0]
                /\ ring' = [ring EXCEPT ![con.cpu].tail = con.tail + 1]
                /\ con' = [con EXCEPT !.tail = @ + 1]
           ELSE con' = NextCpu("load", "cursor") /\ UNCHANGED <<slots, ring>>
        /\ UNCHANGED <<next_sequence, consumer_after, prod, log, out, pushes>>

(* The cursor moves up to the requested position. *)
PollCursor ==
    /\ con.pc = "cursor"
    /\ consumer_after' = con.after
    /\ con' = [con EXCEPT !.pc = "scan"]
    /\ UNCHANGED <<next_sequence, ring, slots, prod, log, out, pushes>>

(* One CPU's oldest record is compared with the next sequence number; if no   *)
(* CPU has it the poll answers "empty".                                       *)
PollScan ==
    LET tail == ring[con.cpu].tail
        found == tail < ring[con.cpu].head /\ SlotAt(con.cpu, tail).commit = con.after + 1
        next == NextCpu("scan", "idle")
    IN  /\ con.pc = "scan"
        /\ con' = IF found THEN [con EXCEPT !.pc = "copy", !.tail = tail]
                   ELSE IF next.pc = "idle" THEN IdlePoll ELSE next
        /\ UNCHANGED <<next_sequence, consumer_after, ring, slots, prod, log, out, pushes>>

(* Mutant: the payload is taken from the slot after the tail. *)
PollCopyNext ==
    /\ con.pc = "copy"
    /\ con' = [con EXCEPT !.pc = "clear", !.copy = SlotAt(con.cpu, con.tail + 1).rec]
    /\ UNCHANGED <<next_sequence, consumer_after, ring, slots, prod, log, out, pushes>>

(* The record is copied out. *)
PollCopy ==
    /\ con.pc = "copy"
    /\ con' = [con EXCEPT !.pc = "clear", !.copy = SlotAt(con.cpu, con.tail).rec]
    /\ UNCHANGED <<next_sequence, consumer_after, ring, slots, prod, log, out, pushes>>

(* commit is read again (-EAGAIN if it changed) and cleared. *)
PollClear ==
    /\ con.pc = "clear"
    /\ IF SlotAt(con.cpu, con.tail).commit # con.after + 1
       THEN con' = IdlePoll /\ UNCHANGED slots
       ELSE /\ con' = [con EXCEPT !.pc = "tail"]
            /\ slots' = [slots EXCEPT ![con.cpu][con.tail % Capacity].commit = 0]
    /\ UNCHANGED <<next_sequence, consumer_after, ring, prod, log, out, pushes>>

(* tail is stored. *)
PollTail ==
    /\ con.pc = "tail"
    /\ ring' = [ring EXCEPT ![con.cpu].tail = con.tail + 1]
    /\ con' = [con EXCEPT !.pc = "return"]
    /\ UNCHANGED <<next_sequence, consumer_after, slots, prod, log, out, pushes>>

(* The cursor is stored and the poll returns the record. *)
PollReturn ==
    /\ con.pc = "return"
    /\ consumer_after' = con.after + 1
    /\ out' = <<[seq |-> con.after + 1, rec |-> con.copy]>>
    /\ con' = IdlePoll
    /\ UNCHANGED <<next_sequence, ring, slots, prod, log, pushes>>

PollStep == \/ PollLoad \/ PollDiscard \/ PollCursor \/ PollScan
            \/ PollCopy \/ PollClear \/ PollTail \/ PollReturn

-----------------------------------------------------------------------------
(* spz_ring_init: at module start, and at the end of CLEAR. *)
RingInit ==
    /\ next_sequence' = 0 /\ consumer_after' = 0
    /\ ring' = EmptyRing /\ slots' = EmptySlots
    /\ log' = <<>> /\ out' = <<>> /\ pushes' = [c \in CPUs |-> 0]
    /\ UNCHANGED <<prod, con>>

Quiet == con.pc = "idle" /\ \A p \in Producers : prod[p].pc = "idle"

Init ==
    /\ next_sequence = 0 /\ consumer_after = 0
    /\ ring = EmptyRing /\ slots = EmptySlots
    /\ prod = [p \in Producers |-> IdlePush] /\ con = IdlePoll
    /\ log = <<>> /\ out = <<>> /\ pushes = [c \in CPUs |-> 0]

Next == \/ \E p \in Producers : Push(p)
        \/ \E after \in 0 .. next_sequence + 1 : PollBegin(after)
        \/ PollStep
        \/ Quiet /\ RingInit

(* A push runs to its end (preemption is off) and the client polls again and  *)
(* again at its cursor.                                                       *)
Fairness == /\ \A p \in Producers : WF_rvars(Push(p) /\ prod[p].pc # "idle")
            /\ WF_rvars(PollBegin(consumer_after))
            /\ WF_rvars(PollStep)

Spec == Init /\ [][Next]_rvars

FairSpec == Spec /\ Fairness

-----------------------------------------------------------------------------
(* The log as the reader sees it: this ring implements EventLog, so what the  *)
(* polls return is the sequence of accepted records with no gap, duplicate,   *)
(* tear or inversion, across CPUs and across resets.                          *)
Log == INSTANCE EventLog WITH read <- consumer_after

ImplementsLog == Log!LogSpec

(* Events and losses add up on a CPU with no push in flight: every call of    *)
(* push is either in the log or counted in lost, and every counted loss has   *)
(* been reported by a loss record or is still pending.                        *)
Resting(c) == \A p \in Producers : CpuOf[p] = c => prod[p].pc = "idle"

Recorded(c) ==
    Total([i \in DOMAIN log |-> IF log[i].cpu = c /\ log[i].loss = 0 THEN 1 ELSE 0], Len(log))

Reported(c) ==
    Total([i \in DOMAIN log |-> IF log[i].cpu = c THEN log[i].loss ELSE 0], Len(log))

EventsAccounted ==
    \A c \in CPUs : Resting(c) => pushes[c] = Recorded(c) + ring[c].lost

LossAccounted ==
    /\ EventsAccounted
    /\ \A c \in CPUs : Resting(c) => ring[c].lost = ring[c].loss_pending + Reported(c)

(* A full ring overwrites nothing: outside a reset, a committed record leaves *)
(* its slot only when a poll clears its commit, and its payload stays put     *)
(* while it is committed.                                                     *)
NothingOverwritten ==
    [][next_sequence' >= next_sequence =>
         \A c \in CPUs : \A i \in 0 .. Capacity - 1 : slots[c][i].commit # 0 =>
            \/ slots'[c][i] = slots[c][i]
            \/ slots'[c][i].commit = 0 /\ slots'[c][i].rec = slots[c][i].rec]_rvars

(* Every sequence number handed out is eventually read or skipped by a client *)
(* that keeps polling, or the ring is reset: the merge over CPUs never stalls *)
(* on a gap.                                                                  *)
AllDelivered ==
    \A n \in 1 .. MaxPush : (next_sequence >= n) ~> (consumer_after >= n \/ next_sequence < n)

-----------------------------------------------------------------------------
(* The inductive invariant behind ImplementsLog and NothingOverwritten, for    *)
(* producers that all run with preemption disabled.                            *)
Record == [cpu : CPUs, n : Nat, loss : Nat]

RingsType == [CPUs -> [head : Nat, tail : Nat, lost : Nat, loss_pending : Nat]]

Slot == [commit : Nat, rec : Record]

SlotsType == [CPUs -> [0 .. Capacity - 1 -> Slot]]

PushType == [pc : {"idle", "alloc", "fill", "commit", "advance"},
             todo : Seq(Record), seq : Nat, head : Nat]

PollType == [pc : {"idle", "load", "discard", "cursor", "scan", "copy", "clear", "tail", "return"},
             after : Nat, cpu : CPUs, tail : Nat, head : Nat, copy : Record]

Typed ==
    /\ next_sequence \in Nat /\ consumer_after \in Nat /\ log \in Seq(Record)
    /\ ring \in RingsType /\ slots \in SlotsType /\ prod \in [Producers -> PushType]
    /\ con \in PollType /\ pushes \in [CPUs -> Nat]

(* One push at a time on a CPU. *)
Exclusive ==
    \A p, q \in Producers : p # q /\ CpuOf[p] = CpuOf[q] => "idle" \in {prod[p].pc, prod[q].pc}

(* What is committed is the record its number was given to, ... *)
CommittedLogged ==
    \A c \in CPUs : \A i \in 0 .. Capacity - 1 : slots[c][i].commit # 0 =>
        slots[c][i].commit \in 1 .. Len(log) /\ slots[c][i].rec = log[slots[c][i].commit]

(* ... a push fills a slot in which nothing is committed, ... *)
Filling(p) ==
    LET slot == SlotAt(CpuOf[p], prod[p].head) IN
    /\ prod[p].pc # "idle" => prod[p].todo # <<>>
    /\ prod[p].pc \in {"fill", "commit"} =>
         slot.commit = 0 /\ prod[p].seq \in 1 .. Len(log) /\ log[prod[p].seq] = Head(prod[p].todo)
    /\ prod[p].pc = "commit" => slot.rec = Head(prod[p].todo)

(* ... and a poll that found its record still has it in front of it.           *)
Reading ==
    LET slot == SlotAt(con.cpu, con.tail) IN
    /\ con.pc \in {"load", "discard", "cursor"} => con.after \in consumer_after .. Len(log)
    /\ con.pc \in {"scan", "copy", "clear", "tail", "return"} => con.after = consumer_after
    /\ con.pc \in {"copy", "clear"} => slot.commit = con.after + 1
    /\ con.pc = "clear" => con.copy = slot.rec
    /\ con.pc \in {"tail", "return"} =>
         con.after + 1 \in 1 .. Len(log) /\ con.copy = log[con.after + 1]

IInv == /\ Typed /\ Exclusive /\ next_sequence = Len(log) /\ CommittedLogged
        /\ (\A p \in Producers : Filling(p)) /\ Reading

-----------------------------------------------------------------------------
(* A second invariant, on top of the first, behind EventsAccounted.  What is  *)
(* committed lies between tail and head, at head only while a push has still  *)
(* to store it, ...                                                           *)
Storing(c) == \E p \in Producers : CpuOf[p] = c /\ prod[p].pc = "advance"

Window(c) ==
    /\ ring[c].tail <= ring[c].head /\ ring[c].head - ring[c].tail <= Capacity
    /\ \A i \in 0 .. Capacity - 1 : slots[c][i].commit # 0 =>
         \E n \in ring[c].tail .. ring[c].head :
            n % Capacity = i /\ (n = ring[c].head => Storing(c))

(* ... a push has room for all it has to write, ... *)
Room(p) ==
    LET r == ring[CpuOf[p]] IN
    /\ prod[p].pc # "idle" => r.head - r.tail + Len(prod[p].todo) <= Capacity
    /\ prod[p].pc \in {"fill", "commit", "advance"} => prod[p].head = r.head

(* ... a poll takes from the tail, ... *)
Removing ==
    LET r == ring[con.cpu] IN
    /\ con.pc = "discard" => con.tail = r.tail /\ con.tail <= con.head /\ con.head <= r.head
    /\ con.pc \in {"copy", "clear", "tail"} => con.tail = r.tail /\ con.tail < r.head
    /\ con.pc = "tail" => SlotAt(con.cpu, con.tail).commit = 0

(* ... a push writes its event last, after at most one report, ... *)
Ordered(p) ==
    LET todo == prod[p].todo IN
    prod[p].pc # "idle" => /\ Len(todo) \in {1, 2}
                           /\ todo[Len(todo)].cpu = CpuOf[p] /\ todo[Len(todo)].loss = 0
                           /\ Len(todo) = 2 => todo[1].loss # 0

(* ... and until the event has its number the push is one too many.           *)
Owes(push) == push.pc = "alloc" \/ (push.pc # "idle" /\ Len(push.todo) = 2)

Pending(c) == \E p \in Producers : CpuOf[p] = c /\ Owes(prod[p])

Counted(c) == pushes[c] = Recorded(c) + ring[c].lost
                            + (IF Pending(c) THEN 1 ELSE 0)

WInv == /\ (\A c \in CPUs : Window(c)) /\ (\A p \in Producers : Room(p)) /\ Removing

AInv == (\A p \in Producers : Ordered(p)) /\ (\A c \in CPUs : Counted(c))

(* A third, behind the rest of LossAccounted.  A report says all that is      *)
(* pending, ...                                                               *)
Reports(p) ==
    prod[p].pc # "idle" /\ Len(prod[p].todo) = 2 =>
        /\ prod[p].todo[1].cpu = CpuOf[p]
        /\ prod[p].todo[1].loss = ring[CpuOf[p]].loss_pending

(* ... and between its number and the store of head it is in the log and      *)
(* still pending.                                                             *)
Says(push) == push.pc \in {"fill", "commit", "advance"} /\ Len(push.todo) = 2

Twice(c) == \E p \in Producers : CpuOf[p] = c /\ Says(prod[p])

Balanced(c) ==
    /\ pushes[c] <= MaxPush /\ ring[c].loss_pending <= ring[c].lost
    /\ ring[c].lost + (IF Twice(c) THEN ring[c].loss_pending ELSE 0)
          = ring[c].loss_pending + Reported(c)

LInv == (\A p \in Producers : Reports(p)) /\ (\A c \in CPUs : Balanced(c))
=============================================================================
