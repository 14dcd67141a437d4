----------------------------- MODULE RingProofs -----------------------------
(* Proofs about Ring: the per-CPU rings implement one log, for any number of  *)
(* CPUs, producers and slots, when every producer runs with preemption        *)
(* disabled (Handlers = Producers).                                           *)
EXTENDS Ring, TLAPS

(* A free-running index names a slot. *)
LEMMA SlotIndex ==
  ASSUME NEW n \in Nat PROVE n % Capacity \in 0 .. Capacity - 1
  <1>1. Capacity \in Nat /\ Capacity > 0
    BY RingAssumption
  <1> QED
    BY <1>1

(* The length of a sequence, and what Append leaves of it. *)
LEMMA LenNat ==
  ASSUME NEW S, NEW s \in Seq(S) PROVE Len(s) \in Nat
  OBVIOUS

(* An appended record is the last one and the others stay. *)
LEMMA Appended ==
  ASSUME NEW S, NEW s \in Seq(S), NEW e \in S
  PROVE  /\ Append(s, e) \in Seq(S) /\ Len(Append(s, e)) = Len(s) + 1
         /\ Append(s, e)[Len(s) + 1] = e
         /\ \A n \in 1 .. Len(s) : Append(s, e)[n] = s[n]
  OBVIOUS

(* There is a CPU, and the empty record and the resting states are of their   *)
(* types.                                                                     *)
LEMMA AtRest ==
  /\ 0 \in CPUs /\ NoRecord \in Record
  /\ IdlePush \in PushType /\ IdlePush.pc = "idle"
  /\ IdlePoll.pc = "idle" /\ IdlePoll.cpu = 0 /\ IdlePoll.tail = 0 /\ IdlePoll.head = 0
  /\ IdlePoll.copy = NoRecord
  <1>1. 0 \in CPUs
    BY RingAssumption DEF CPUs
  <1>2. NoRecord \in Record
    BY <1>1, Zenon DEF NoRecord, Record
  <1> QED
    BY <1>1, <1>2 DEF IdlePush, PushType, IdlePoll

(* The fields of one CPU, one slot and one push. *)
LEMMA Fields ==
  ASSUME Typed
  PROVE  /\ \A c \in CPUs : /\ ring[c].head \in Nat /\ ring[c].tail \in Nat
                            /\ ring[c].lost \in Nat /\ ring[c].loss_pending \in Nat
         /\ \A c \in CPUs : \A i \in 0 .. Capacity - 1 :
              slots[c][i].commit \in Nat /\ slots[c][i].rec \in Record
         /\ \A p \in Producers : /\ CpuOf[p] \in CPUs /\ prod[p] \in PushType
                                 /\ prod[p].todo \in Seq(Record)
                                 /\ prod[p].seq \in Nat /\ prod[p].head \in Nat
         /\ con.after \in Nat /\ con.cpu \in CPUs /\ con.tail \in Nat /\ con.head \in Nat
         /\ con.copy \in Record
  <1>1. \A c \in CPUs : /\ ring[c].head \in Nat /\ ring[c].tail \in Nat
                        /\ ring[c].lost \in Nat /\ ring[c].loss_pending \in Nat
    BY ZenonT(20), Zenon DEF Typed, RingsType
  <1>2. \A c \in CPUs : \A i \in 0 .. Capacity - 1 :
          slots[c][i].commit \in Nat /\ slots[c][i].rec \in Record
    BY Zenon DEF Typed, SlotsType, Slot
  <1>3. \A p \in Producers : prod[p] \in PushType /\ CpuOf[p] \in CPUs
    BY RingAssumption, Zenon DEF Typed
  <1>4. \A p \in Producers : prod[p].todo \in Seq(Record) /\ prod[p].seq \in Nat
                             /\ prod[p].head \in Nat
    BY <1>3, Zenon DEF PushType
  <1>5. /\ con.after \in Nat /\ con.cpu \in CPUs /\ con.tail \in Nat /\ con.head \in Nat
        /\ con.copy \in Record
    BY Zenon DEF Typed, PollType
  <1> QED
    BY <1>1, <1>2, <1>3, <1>4, <1>5, Zenon

-----------------------------------------------------------------------------
(* A step of one push: the pushes of the other CPUs go on, and on its own CPU *)
(* there is no other.                                                         *)
LEMMA PushExclusive ==
  ASSUME Typed, Exclusive, Handlers = Producers, NEW p \in Producers, Running(p),
         NEW push, prod' = [prod EXCEPT ![p] = push]
  PROVE  /\ Exclusive' /\ prod'[p] = push
         /\ \A q \in Producers \ {p} : prod'[q] = prod[q]
         /\ \A q \in Producers \ {p} : CpuOf[q] = CpuOf[p] => prod[q].pc = "idle"
  <1>1. prod'[p] = push /\ \A q \in Producers \ {p} : prod'[q] = prod[q]
    BY Zenon DEF Typed
  <1>2. \A q \in Producers \ {p} : CpuOf[q] = CpuOf[p] => prod[q].pc = "idle"
    BY Zenon DEF Running
  <1>3. Exclusive'
    BY <1>1, <1>2 DEF Exclusive
  <1> QED
    BY <1>1, <1>2, <1>3, Zenon

(* A step that leaves the slots and the log alone keeps what they hold. *)
LEMMA SlotsAlone ==
  ASSUME IInv, UNCHANGED <<slots, log>> PROVE CommittedLogged'
  BY Zenon DEF IInv, CommittedLogged

(* So does one that leaves the log alone and only takes away. *)
LEMMA Kept ==
  ASSUME IInv, UNCHANGED log,
         \A c \in CPUs : \A i \in 0 .. Capacity - 1 :
           slots'[c][i].commit = 0 \/ slots'[c][i] = slots[c][i]
  PROVE  CommittedLogged'
  <1>1. CommittedLogged
    BY Zenon DEF IInv
  <1>2. ASSUME NEW c \in CPUs, NEW i \in 0 .. Capacity - 1, slots'[c][i].commit # 0
        PROVE  /\ slots'[c][i].commit \in 1 .. Len(log')
               /\ slots'[c][i].rec = log'[slots'[c][i].commit]
    <2>1. slots'[c][i] = slots[c][i]
      BY <1>2, Zenon
    <2> QED
      BY <1>1, <1>2, <2>1, Zenon DEF CommittedLogged
  <1> QED
    BY <1>2, Zenon DEF CommittedLogged

(* A push on another CPU, or at rest, is not concerned. *)
LEMMA OthersFill ==
  ASSUME IInv, NEW q \in Producers, prod'[q] = prod[q],
         prod[q].pc = "idle" \/ slots'[CpuOf[q]] = slots[CpuOf[q]],
         \A n \in 1 .. Len(log) : n \in 1 .. Len(log') /\ log'[n] = log[n]
  PROVE  Filling(q)'
  BY Zenon DEF IInv, Filling, SlotAt

(* A poll is not concerned by what leaves committed slots and the log alone.  *)
LEMMA ReaderAlone ==
  ASSUME IInv, UNCHANGED <<con, consumer_after>>, Len(log) \in Nat, Len(log') \in Nat,
         Len(log) <= Len(log'), \A n \in 1 .. Len(log) : log'[n] = log[n],
         \A c \in CPUs : \A i \in 0 .. Capacity - 1 :
           slots[c][i].commit # 0 => slots'[c][i] = slots[c][i]
  PROVE  Reading'
  <1>1. con.cpu \in CPUs /\ con.tail \in Nat /\ con.after \in Nat /\ consumer_after \in Nat
    BY Fields, Zenon DEF IInv, Typed
  <1>2. con.tail % Capacity \in 0 .. Capacity - 1
    BY <1>1, SlotIndex, Zenon
  <1>3. con.pc \in {"copy", "clear"} => SlotAt(con.cpu, con.tail)' = SlotAt(con.cpu, con.tail)
    BY <1>1, <1>2, SMTT(60) DEF IInv, Reading, SlotAt
  <1> QED
    BY <1>1, <1>3 DEF IInv, Reading

(* A loss is counted. *)
LEMMA CountLossTyped ==
  ASSUME Typed, NEW c \in CPUs, CountLoss(c)
  PROVE  ring' \in RingsType
  <1> DEFINE r == [ring[c] EXCEPT !.lost = @ + 1, !.loss_pending = @ + 1]
  <1>1. ring' = [ring EXCEPT ![c] = r]
    BY Zenon DEF Typed, RingsType, CountLoss
  <1>2. ASSUME NEW x \in [head : Nat, tail : Nat, lost : Nat, loss_pending : Nat]
        PROVE  [x EXCEPT !.lost = @ + 1, !.loss_pending = @ + 1]
                 \in [head : Nat, tail : Nat, lost : Nat, loss_pending : Nat]
    <2>1. x.lost + 1 \in Nat /\ x.loss_pending + 1 \in Nat
      BY <1>2
    <2>2. ASSUME NEW a \in Nat, NEW b \in Nat
          PROVE  [x EXCEPT !.lost = a, !.loss_pending = b]
                   \in [head : Nat, tail : Nat, lost : Nat, loss_pending : Nat]
      BY <1>2, Zenon
    <2> QED
      BY <2>1, <2>2, Zenon
  <1>3. r \in [head : Nat, tail : Nat, lost : Nat, loss_pending : Nat]
    BY <1>2, Zenon DEF Typed, RingsType
  <1> HIDE DEF r
  <1> QED
    BY <1>1, <1>3, Zenon DEF Typed, RingsType

(* It moves neither end of a ring. *)
LEMMA CountLossEnds ==
  ASSUME Typed, NEW c \in CPUs, CountLoss(c)
  PROVE  \A d \in CPUs : ring'[d].head = ring[d].head /\ ring'[d].tail = ring[d].tail
  BY Zenon DEF Typed, RingsType, CountLoss

-----------------------------------------------------------------------------
(* A step of one push keeps the invariant when it leaves alone what is        *)
(* committed, only adds to the log and leaves its own push in order.          *)
LEMMA PushStep ==
  ASSUME IInv, Handlers = Producers, NEW p \in Producers, Running(p),
         NEW push \in PushType, prod' = [prod EXCEPT ![p] = push],
         UNCHANGED <<con, consumer_after>>,
         next_sequence' = Len(log'), log' \in Seq(Record), Len(log) <= Len(log'),
         \A n \in 1 .. Len(log) : log'[n] = log[n],
         ring' \in RingsType,
         slots' \in SlotsType,
         pushes' \in [CPUs -> Nat],
         \A c \in CPUs : \A i \in 0 .. Capacity - 1 :
           slots[c][i].commit # 0 => slots'[c][i] = slots[c][i],
         \A c \in CPUs \ {CpuOf[p]} : slots'[c] = slots[c],
         CommittedLogged', Filling(p)'
  PROVE  IInv'
  <1>1. Typed /\ Exclusive
    BY Zenon DEF IInv
  <1>2. /\ Exclusive' /\ prod'[p] = push
        /\ \A q \in Producers \ {p} : prod'[q] = prod[q]
        /\ \A q \in Producers \ {p} : CpuOf[q] = CpuOf[p] => prod[q].pc = "idle"
    BY <1>1, PushExclusive, Zenon
  <1>3. Len(log) \in Nat /\ Len(log') \in Nat /\ next_sequence' \in Nat
    <2>1. log \in Seq(Record)
      BY <1>1, Zenon DEF Typed
    <2> QED
      BY <2>1, LenNat, Zenon
  <1>4. Typed'
    <2>1. prod' \in [Producers -> PushType]
      <3>1. prod \in [Producers -> PushType]
        BY <1>1, Zenon DEF Typed
      <3> QED
        BY <3>1, Zenon
    <2> QED
      BY <1>1, <1>3, <2>1, Zenon DEF Typed
  <1>5. Reading'
    BY <1>3, ReaderAlone, Zenon
  <1>6. ASSUME NEW q \in Producers \ {p} PROVE Filling(q)'
    <2>1. CpuOf[q] \in CPUs
      BY RingAssumption, Zenon
    <2>2. \A n \in 1 .. Len(log) : n \in 1 .. Len(log') /\ log'[n] = log[n]
      BY <1>3
    <2>3. prod[q].pc = "idle" \/ slots'[CpuOf[q]] = slots[CpuOf[q]]
      BY <1>2, <2>1, Zenon
    <2> QED
      BY <1>2, <2>2, <2>3, OthersFill, Zenon
  <1> QED
    BY <1>2, <1>4, <1>5, <1>6, Zenon DEF IInv

(* The same when only the push, the ring header and the number of pushes      *)
(* change.                                                                    *)
LEMMA HeaderStep ==
  ASSUME IInv, Handlers = Producers, NEW p \in Producers, Running(p),
         NEW push \in PushType, prod' = [prod EXCEPT ![p] = push],
         UNCHANGED <<con, consumer_after, next_sequence, slots, log>>,
         ring' \in RingsType,
         pushes' \in [CPUs -> Nat],
         push.pc \in {"idle", "alloc", "advance"}, push.pc # "idle" => push.todo # <<>>
  PROVE  IInv'
  <1>1. Typed /\ next_sequence = Len(log) /\ log \in Seq(Record) /\ Len(log) \in Nat
    BY Zenon DEF IInv, Typed
  <1>2. prod'[p] = push
    BY <1>1, Zenon DEF Typed
  <1>3. Filling(p)'
    BY <1>2, Zenon DEF Filling
  <1>4. CommittedLogged'
    BY SlotsAlone, Zenon
  <1>5. slots' \in SlotsType
    BY <1>1, Zenon DEF Typed
  <1>6. /\ next_sequence' = Len(log') /\ log' \in Seq(Record) /\ Len(log) <= Len(log')
        /\ \A n \in 1 .. Len(log) : log'[n] = log[n]
    BY <1>1
  <1>7. /\ \A c \in CPUs : \A i \in 0 .. Capacity - 1 :
             slots[c][i].commit # 0 => slots'[c][i] = slots[c][i]
        /\ \A c \in CPUs \ {CpuOf[p]} : slots'[c] = slots[c]
        /\ con' = con /\ consumer_after' = consumer_after
    BY Zenon
  <1> QED
    BY <1>3, <1>4, <1>5, <1>6, <1>7, PushStep, Zenon

(* spz_ring_push begins. *)
LEMMA PushBeginKeeps ==
  ASSUME IInv, Handlers = Producers, NEW p \in Producers, PushBegin(p) PROVE IInv'
  <1> DEFINE c == CpuOf[p]
             event == [cpu |-> c, n |-> pushes[c] + 1, loss |-> 0]
             report == [cpu |-> c, n |-> 0, loss |-> ring[c].loss_pending]
  <1>0. Typed
    BY Zenon DEF IInv
  <1>1. c \in CPUs /\ pushes[c] \in Nat /\ ring[c].loss_pending \in Nat /\ prod[p] \in PushType
    BY <1>0, RingAssumption, Fields, Zenon DEF Typed
  <1>2. event \in Record /\ report \in Record
    BY <1>1 DEF Record
  <1>3. pushes' \in [CPUs -> Nat]
    <2>1. pushes' = [pushes EXCEPT ![c] = @ + 1]
      BY Zenon DEF PushBegin
    <2>2. pushes[c] + 1 \in Nat
      BY <1>1
    <2>3. pushes \in [CPUs -> Nat]
      BY <1>0, Zenon DEF Typed
    <2> QED
      BY <2>1, <2>2, <2>3, Zenon
  <1>4. /\ Running(p) /\ prod[p].pc = "idle"
        /\ UNCHANGED <<next_sequence, consumer_after, slots, con, log, out>>
    BY Zenon DEF PushBegin
  <1>5. CASE CountLoss(c) /\ UNCHANGED prod
    <2>1. prod' = [prod EXCEPT ![p] = prod[p]]
      BY <1>0, <1>5, Zenon DEF Typed
    <2>2. ring' \in RingsType
      BY <1>0, <1>1, <1>5, CountLossTyped, Zenon
    <2> QED
      BY <1>1, <1>3, <1>4, <2>1, <2>2, HeaderStep, Zenon
  <1>6. ASSUME NEW todo \in {<<report, event>>, <<event>>}, UNCHANGED ring,
               prod' = [prod EXCEPT ![p].pc = "alloc", ![p].todo = todo]
        PROVE  IInv'
    <2> DEFINE push == [prod[p] EXCEPT !.pc = "alloc", !.todo = todo]
    <2>1. todo \in Seq(Record) /\ todo # <<>>
      <3> HIDE DEF event, report
      <3>1. CASE todo = <<report, event>>
        BY <1>2, <3>1
      <3>2. CASE todo = <<event>>
        BY <1>2, <3>2
      <3> QED
        BY <1>6, <3>1, <3>2, Zenon
    <2>2. prod' = [prod EXCEPT ![p] = push]
      BY <1>0, <1>6, Zenon DEF Typed
    <2>3. push \in PushType /\ push.pc = "alloc" /\ push.todo = todo
      BY <1>1, <2>1, Zenon DEF PushType
    <2>4. ring' \in RingsType
      BY <1>0, <1>6, Zenon DEF Typed
    <2> HIDE DEF push
    <2> QED
      BY <1>3, <1>4, <2>1, <2>2, <2>3, <2>4, HeaderStep, Zenon
  <1>7. \/ CountLoss(c) /\ UNCHANGED prod
        \/ \E todo \in {<<report, event>>, <<event>>} :
             UNCHANGED ring /\ prod' = [prod EXCEPT ![p].pc = "alloc", ![p].todo = todo]
    BY Zenon DEF PushBegin
  <1> QED
    BY <1>5, <1>6, <1>7, Zenon

(* spz_publish takes a sequence number, or gives up. *)
LEMMA PublishAllocKeeps ==
  ASSUME IInv, Handlers = Producers, NEW p \in Producers, PublishAlloc(p) PROVE IInv'
  <1> DEFINE c == CpuOf[p]
  <1>0. Typed
    BY Zenon DEF IInv
  <1>1. /\ c \in CPUs /\ ring[c].head \in Nat /\ prod[p] \in PushType
        /\ prod[p].todo \in Seq(Record)
    BY <1>0, Fields, Zenon
  <1>2. Running(p) /\ prod[p].pc = "alloc" /\ UNCHANGED <<consumer_after, slots, con, out, pushes>>
    BY Zenon DEF PublishAlloc
  <1>3. /\ ring \in RingsType
        /\ slots' \in SlotsType
        /\ pushes' \in [CPUs -> Nat] /\ log \in Seq(Record)
    BY <1>0, <1>2, Zenon DEF Typed
  <1>4. CASE /\ CountLoss(c) \/ UNCHANGED ring
             /\ prod' = [prod EXCEPT ![p] = IdlePush] /\ UNCHANGED <<next_sequence, log>>
    <2>1. ring' \in RingsType
      BY <1>0, <1>1, <1>3, <1>4, CountLossTyped, Zenon
    <2>2. IdlePush \in PushType /\ IdlePush.pc = "idle"
      BY AtRest, Zenon
    <2> QED
      BY <1>2, <1>3, <1>4, <2>1, <2>2, HeaderStep, Zenon
  <1>5. CASE /\ SlotAt(c, ring[c].head).commit = 0
             /\ next_sequence' = next_sequence + 1 /\ log' = Append(log, Head(prod[p].todo))
             /\ prod' = [prod EXCEPT ![p].pc = "fill", ![p].head = ring[c].head,
                                     ![p].seq = next_sequence + 1]
             /\ UNCHANGED ring
    <2> DEFINE rec == Head(prod[p].todo)
               push == [prod[p] EXCEPT !.pc = "fill", !.head = ring[c].head,
                                       !.seq = next_sequence + 1]
    <2>1. next_sequence = Len(log) /\ Len(log) \in Nat
      BY <1>3, LenNat, Zenon DEF IInv
    <2>2. rec \in Record
      <3>1. prod[p].todo # <<>>
        BY <1>2, Zenon DEF IInv, Filling
      <3> QED
        BY <1>1, <3>1
    <2>3. /\ log' \in Seq(Record) /\ Len(log') = Len(log) + 1 /\ log'[Len(log) + 1] = rec
          /\ \A n \in 1 .. Len(log) : log'[n] = log[n]
      <3> HIDE DEF rec
      <3>1. /\ Append(log, rec) \in Seq(Record) /\ Len(Append(log, rec)) = Len(log) + 1
            /\ Append(log, rec)[Len(log) + 1] = rec
            /\ \A n \in 1 .. Len(log) : Append(log, rec)[n] = log[n]
        BY <1>3, <2>2, Appended
      <3>2. log' = Append(log, rec)
        BY <1>5, Zenon DEF rec
      <3> QED
        BY <3>1, <3>2, Zenon
    <2>4. prod' = [prod EXCEPT ![p] = push]
      BY <1>0, <1>5, Zenon DEF Typed
    <2>5. /\ push \in PushType /\ push.pc = "fill" /\ push.head = ring[c].head
          /\ push.seq = Len(log) + 1 /\ push.todo = prod[p].todo
      <3>1. next_sequence + 1 \in Nat
        BY <2>1
      <3> QED
        BY <1>1, <2>1, <3>1, Zenon DEF PushType
    <2> HIDE DEF push
    <2>6. Filling(p)'
      <3>1. prod'[p] = push
        BY <1>0, <2>4, Zenon DEF Typed
      <3>2. SlotAt(c, ring[c].head)'.commit = 0
        BY <1>2, <1>5, Zenon DEF SlotAt
      <3>3. prod[p].todo # <<>>
        BY <1>2, Zenon DEF IInv, Filling
      <3>4. Len(log) + 1 \in 1 .. Len(log')
        BY <2>1, <2>3
      <3> QED
        BY <1>2, <1>5, <2>3, <2>5, <3>1, <3>2, <3>3, <3>4, Zenon DEF Filling, SlotAt
    <2>7. CommittedLogged'
      <3>1. \A n \in 1 .. Len(log) : n \in 1 .. Len(log')
        BY <2>1, <2>3
      <3> QED
        BY <1>2, <2>3, <3>1, Zenon DEF IInv, CommittedLogged
    <2>8. next_sequence' = Len(log') /\ Len(log) <= Len(log')
      BY <1>5, <2>1, <2>3
    <2>9. /\ \A d \in CPUs : \A i \in 0 .. Capacity - 1 :
               slots[d][i].commit # 0 => slots'[d][i] = slots[d][i]
          /\ \A d \in CPUs \ {CpuOf[p]} : slots'[d] = slots[d]
          /\ con' = con /\ consumer_after' = consumer_after /\ ring' = ring
      BY <1>2, <1>5, Zenon
    <2> QED
      BY <1>2, <1>3, <2>3, <2>4, <2>5, <2>6, <2>7, <2>8, <2>9, PushStep, Zenon
  <1> QED
    BY <1>4, <1>5, Zenon DEF PublishAlloc

-----------------------------------------------------------------------------
(* A slot, ... *)
LEMMA SlotTyped ==
  ASSUME Typed, NEW c \in CPUs, NEW i \in 0 .. Capacity - 1
  PROVE  slots[c][i] \in Slot
  <1>1. slots[c] \in [0 .. Capacity - 1 -> Slot]
    BY Zenon DEF Typed, SlotsType
  <1> QED
    BY <1>1, Zenon

(* ... one that is written, and what the write leaves. *)
Written(c, i, s) == slots' = [slots EXCEPT ![c][i] = s]

OneSlot(c, i, s) ==
  /\ slots' \in SlotsType /\ slots'[c][i] = s
  /\ \A d \in CPUs \ {c} : slots'[d] = slots[d]
  /\ \A j \in 0 .. Capacity - 1 : j # i => slots'[c][j] = slots[c][j]

(* A write of one slot leaves the others alone. *)
LEMMA SlotWritten ==
  ASSUME Typed, NEW c \in CPUs, NEW i \in 0 .. Capacity - 1, NEW s \in Slot, Written(c, i, s)
  PROVE  OneSlot(c, i, s)
  BY ZenonT(20), Zenon DEF Typed, SlotsType, Written, OneSlot

(* The payload is copied into the slot. *)
LEMMA PublishFillKeeps ==
  ASSUME IInv, Handlers = Producers, NEW p \in Producers, PublishFill(p) PROVE IInv'
  <1> DEFINE c == CpuOf[p]
             i == prod[p].head % Capacity
             rec == Head(prod[p].todo)
             slot == [slots[c][i] EXCEPT !.rec = rec]
             push == [prod[p] EXCEPT !.pc = "commit"]
  <1>0. Typed
    BY Zenon DEF IInv
  <1>1. /\ c \in CPUs /\ prod[p] \in PushType /\ prod[p].todo \in Seq(Record)
        /\ i \in 0 .. Capacity - 1
    BY <1>0, Fields, SlotIndex, Zenon
  <1>2. /\ Running(p) /\ prod[p].pc = "fill" /\ prod' = [prod EXCEPT ![p].pc = "commit"]
        /\ UNCHANGED <<next_sequence, consumer_after, ring, con, log, out, pushes>>
        /\ slots' = [slots EXCEPT ![c][i].rec = rec]
    BY Zenon DEF PublishFill
  <1>3. /\ prod[p].todo # <<>> /\ slots[c][i].commit = 0 /\ prod[p].seq \in 1 .. Len(log)
        /\ log[prod[p].seq] = rec
    BY <1>2, Zenon DEF IInv, Filling, SlotAt
  <1>4. rec \in Record
    BY <1>1, <1>3
  <1>5. Written(c, i, slot) /\ prod' = [prod EXCEPT ![p] = push]
    BY <1>0, <1>1, <1>2, Zenon DEF Typed, SlotsType, Written
  <1>6. slot \in Slot /\ slot.commit = 0 /\ slot.rec = rec
    <2>1. slots[c][i] \in Slot
      BY <1>0, <1>1, SlotTyped, Zenon
    <2> QED
      BY <1>3, <1>4, <2>1, Zenon DEF Slot
  <1>7. push \in PushType /\ push = [prod[p] EXCEPT !.pc = "commit"]
    BY <1>1, Zenon DEF PushType
  <1> HIDE DEF c, i, slot, push
  <1>8. /\ slots' \in SlotsType
        /\ slots'[c][i] = slot
        /\ \A d \in CPUs \ {c} : slots'[d] = slots[d]
        /\ \A j \in 0 .. Capacity - 1 : j # i => slots'[c][j] = slots[c][j]
    <2>1. OneSlot(c, i, slot)
      BY <1>0, <1>1, <1>5, <1>6, SlotWritten, ZenonT(20), Zenon
    <2> QED
      BY <2>1, Zenon DEF OneSlot
  <1>9. Filling(p)'
    <2>1. prod'[p] = push
      BY <1>0, <1>5, Zenon DEF Typed
    <2>2. push.pc = "commit" /\ push.seq = prod[p].seq /\ push.head = prod[p].head
          /\ push.todo = prod[p].todo
      BY <1>1, <1>7, Zenon DEF PushType
    <2> QED
      BY <1>2, <1>3, <1>6, <1>8, <2>1, <2>2, Zenon DEF Filling, SlotAt, c, i
  <1>10. \A d \in CPUs : \A j \in 0 .. Capacity - 1 :
           slots[d][j].commit # 0 => slots'[d][j] = slots[d][j]
    BY <1>1, <1>3, <1>8, Zenon
  <1>11. CommittedLogged'
    <2>1. \A d \in CPUs : \A j \in 0 .. Capacity - 1 :
            slots'[d][j].commit = 0 \/ slots'[d][j] = slots[d][j]
      BY <1>1, <1>6, <1>8, Zenon
    <2> QED
      BY <1>2, <2>1, Kept, Zenon
  <1>12. /\ next_sequence' = Len(log') /\ log' \in Seq(Record) /\ Len(log) <= Len(log')
         /\ \A n \in 1 .. Len(log) : log'[n] = log[n]
    BY <1>0, <1>2, LenNat DEF IInv, Typed
  <1>13. /\ ring' \in RingsType
         /\ pushes' \in [CPUs -> Nat] /\ con' = con /\ consumer_after' = consumer_after
    BY <1>0, <1>2, Zenon DEF Typed
  <1> USE DEF c
  <1> QED
    BY <1>2, <1>5, <1>7, <1>8, <1>9, <1>10, <1>11, <1>12, <1>13, PushStep, Zenon

(* slot->commit is stored. *)
LEMMA PublishCommitKeeps ==
  ASSUME IInv, Handlers = Producers, NEW p \in Producers, PublishCommit(p) PROVE IInv'
  <1> DEFINE c == CpuOf[p]
             i == prod[p].head % Capacity
             slot == [slots[c][i] EXCEPT !.commit = prod[p].seq]
             push == [prod[p] EXCEPT !.pc = "advance"]
  <1>0. Typed
    BY Zenon DEF IInv
  <1>1. /\ c \in CPUs /\ prod[p] \in PushType /\ prod[p].seq \in Nat
        /\ i \in 0 .. Capacity - 1
    BY <1>0, Fields, SlotIndex, Zenon
  <1>2. /\ Running(p) /\ prod[p].pc = "commit" /\ prod' = [prod EXCEPT ![p].pc = "advance"]
        /\ UNCHANGED <<next_sequence, consumer_after, ring, con, log, out, pushes>>
        /\ slots' = [slots EXCEPT ![c][i].commit = prod[p].seq]
    BY Zenon DEF PublishCommit
  <1>3. /\ prod[p].todo # <<>> /\ slots[c][i].commit = 0 /\ prod[p].seq \in 1 .. Len(log)
        /\ log[prod[p].seq] = slots[c][i].rec
    BY <1>2, Zenon DEF IInv, Filling, SlotAt
  <1>5. Written(c, i, slot) /\ prod' = [prod EXCEPT ![p] = push]
    BY <1>0, <1>1, <1>2, Zenon DEF Typed, SlotsType, Written
  <1>6. slot \in Slot /\ slot.commit = prod[p].seq /\ slot.rec = log[prod[p].seq]
    <2>1. slots[c][i] \in Slot
      BY <1>0, <1>1, SlotTyped, Zenon
    <2> QED
      BY <1>1, <1>3, <2>1, Zenon DEF Slot
  <1>7. push \in PushType /\ push.pc = "advance" /\ push.todo = prod[p].todo
    BY <1>1, Zenon DEF PushType
  <1> HIDE DEF c, i, slot, push
  <1>8. /\ slots' \in SlotsType
        /\ slots'[c][i] = slot
        /\ \A d \in CPUs \ {c} : slots'[d] = slots[d]
        /\ \A j \in 0 .. Capacity - 1 : j # i => slots'[c][j] = slots[c][j]
    <2>1. OneSlot(c, i, slot)
      BY <1>0, <1>1, <1>5, <1>6, SlotWritten, ZenonT(20), Zenon
    <2> QED
      BY <2>1, Zenon DEF OneSlot
  <1>9. Filling(p)'
    <2>1. prod'[p] = push
      BY <1>0, <1>5, Zenon DEF Typed
    <2> QED
      BY <1>3, <1>7, <2>1, Zenon DEF Filling
  <1>10. \A d \in CPUs : \A j \in 0 .. Capacity - 1 :
           slots[d][j].commit # 0 => slots'[d][j] = slots[d][j]
    BY <1>1, <1>3, <1>8, Zenon
  <1>11. CommittedLogged'
    <2>1. CommittedLogged
      BY Zenon DEF IInv
    <2>2. ASSUME NEW d \in CPUs, NEW j \in 0 .. Capacity - 1, slots'[d][j].commit # 0
          PROVE  /\ slots'[d][j].commit \in 1 .. Len(log')
                 /\ slots'[d][j].rec = log'[slots'[d][j].commit]
      <3>1. CASE d = c /\ j = i
        BY <1>2, <1>3, <1>6, <1>8, <3>1, Zenon
      <3>2. CASE slots'[d][j] = slots[d][j]
        BY <1>2, <2>1, <2>2, <3>2, Zenon DEF CommittedLogged
      <3> QED
        BY <1>8, <3>1, <3>2, Zenon
    <2> QED
      BY <2>2, Zenon DEF CommittedLogged
  <1>12. /\ next_sequence' = Len(log') /\ log' \in Seq(Record) /\ Len(log) <= Len(log')
         /\ \A n \in 1 .. Len(log) : log'[n] = log[n]
    BY <1>0, <1>2, LenNat DEF IInv, Typed
  <1>13. /\ ring' \in RingsType
         /\ pushes' \in [CPUs -> Nat] /\ con' = con /\ consumer_after' = consumer_after
    BY <1>0, <1>2, Zenon DEF Typed
  <1> USE DEF c
  <1> QED
    BY <1>2, <1>5, <1>7, <1>8, <1>9, <1>10, <1>11, <1>12, <1>13, PushStep, Zenon

(* head is stored, and the event follows its report. *)
LEMMA PublishAdvanceKeeps ==
  ASSUME IInv, Handlers = Producers, NEW p \in Producers, PublishAdvance(p) PROVE IInv'
  <1> DEFINE c == CpuOf[p]
             rec == Head(prod[p].todo)
             rest == Tail(prod[p].todo)
             push == IF rest = <<>> THEN IdlePush
                     ELSE [prod[p] EXCEPT !.pc = "alloc", !.todo = rest]
  <1>0. Typed
    BY Zenon DEF IInv
  <1>1. /\ c \in CPUs /\ prod[p] \in PushType /\ prod[p].head \in Nat
        /\ prod[p].todo \in Seq(Record) /\ ring[c].loss_pending \in Nat
    BY <1>0, Fields, Zenon
  <1>2. /\ Running(p) /\ prod[p].pc = "advance"
        /\ ring' = [ring EXCEPT ![c].head = prod[p].head + 1,
                                ![c].loss_pending = (@ - rec.loss) % Word]
        /\ prod' = [prod EXCEPT ![p] = IF rest = <<>> THEN IdlePush
                                       ELSE [@ EXCEPT !.pc = "alloc", !.todo = rest]]
        /\ UNCHANGED <<next_sequence, consumer_after, slots, con, log, out, pushes>>
    BY Zenon DEF PublishAdvance
  <1>3. prod[p].todo # <<>>
    BY <1>2, Zenon DEF IInv, Filling
  <1>4. rec.loss \in Nat /\ rest \in Seq(Record)
    <2>1. ASSUME NEW t \in Seq(Record), t # <<>> PROVE Head(t) \in Record /\ Tail(t) \in Seq(Record)
      BY <2>1
    <2>2. ASSUME NEW x \in Record PROVE x.loss \in Nat
      BY <2>2, Zenon DEF Record
    <2> QED
      BY <1>1, <1>3, <2>1, <2>2, Zenon
  <1>5. prod' = [prod EXCEPT ![p] = push]
    BY <1>0, <1>2, Zenon DEF Typed
  <1>6. push \in PushType /\ push.pc \in {"idle", "alloc", "advance"}
        /\ (push.pc # "idle" => push.todo # <<>>)
    <2>1. CASE rest = <<>>
      BY <2>1, AtRest, Zenon
    <2>2. CASE rest # <<>>
      BY <1>1, <1>4, <2>2, Zenon DEF PushType
    <2> QED
      BY <2>1, <2>2, Zenon
  <1>7. ring' \in RingsType
    <2> DEFINE r == [ring[c] EXCEPT !.head = prod[p].head + 1,
                                    !.loss_pending = (@ - rec.loss) % Word]
    <2>1. prod[p].head + 1 \in Nat /\ (ring[c].loss_pending - rec.loss) % Word \in Nat
      <3>1. Word \in Nat /\ Word > 0
        BY RingAssumption
      <3>2. ASSUME NEW a \in Nat, NEW b \in Nat PROVE (a - b) % Word \in Nat
        BY <3>1
      <3>3. prod[p].head + 1 \in Nat
        BY <1>1
      <3> QED
        BY <1>1, <1>4, <3>2, <3>3, Zenon
    <2>2. ASSUME NEW x \in [head : Nat, tail : Nat, lost : Nat, loss_pending : Nat],
                 NEW a \in Nat, NEW b \in Nat
          PROVE  [x EXCEPT !.head = a, !.loss_pending = b]
                   \in [head : Nat, tail : Nat, lost : Nat, loss_pending : Nat]
      BY <2>2, Zenon
    <2>3. ring' = [ring EXCEPT ![c] = r]
      BY <1>0, <1>1, <1>2, Zenon DEF Typed, RingsType
    <2>4. r \in [head : Nat, tail : Nat, lost : Nat, loss_pending : Nat]
      BY <1>0, <1>1, <2>1, <2>2, Zenon DEF Typed, RingsType
    <2> HIDE DEF r
    <2> QED
      BY <1>0, <2>3, <2>4, Zenon DEF Typed, RingsType
  <1>8. pushes' \in [CPUs -> Nat]
    BY <1>0, <1>2, Zenon DEF Typed
  <1> HIDE DEF push
  <1> QED
    BY <1>2, <1>5, <1>6, <1>7, <1>8, HeaderStep, Zenon

-----------------------------------------------------------------------------
(* A step of the reader keeps the invariant when it writes no slot but to     *)
(* clear its commit, and leaves its own poll in order.                        *)
LEMMA ReaderStep ==
  ASSUME IInv, UNCHANGED <<next_sequence, prod, log, pushes>>, con' \in PollType,
         consumer_after' \in Nat, ring' \in RingsType, slots' \in SlotsType,
         \A c \in CPUs : \A i \in 0 .. Capacity - 1 :
           slots'[c][i] = slots[c][i] \/ slots'[c][i] = [slots[c][i] EXCEPT !.commit = 0],
         Reading'
  PROVE  IInv'
  <1>1. Typed /\ Typed'
    BY Zenon DEF IInv, Typed
  <1>2. \A c \in CPUs : \A i \in 0 .. Capacity - 1 :
          \/ slots'[c][i] = slots[c][i]
          \/ slots'[c][i].commit = 0 /\ slots'[c][i].rec = slots[c][i].rec
    <2>1. ASSUME NEW x \in Slot
          PROVE  [x EXCEPT !.commit = 0].commit = 0 /\ [x EXCEPT !.commit = 0].rec = x.rec
      BY <2>1, Zenon DEF Slot
    <2>2. ASSUME NEW c \in CPUs, NEW i \in 0 .. Capacity - 1
          PROVE  \/ slots'[c][i] = slots[c][i]
                 \/ slots'[c][i].commit = 0 /\ slots'[c][i].rec = slots[c][i].rec
      <3>1. slots[c][i] \in Slot
        BY <1>1, SlotTyped, Zenon
      <3>2. /\ [slots[c][i] EXCEPT !.commit = 0].commit = 0
            /\ [slots[c][i] EXCEPT !.commit = 0].rec = slots[c][i].rec
        BY <2>1, <3>1, ZenonT(20), Zenon
      <3> QED
        BY <3>2, Zenon
    <2> QED
      BY <2>2, Zenon
  <1>3. CommittedLogged'
    BY <1>2, Kept, Zenon
  <1>4. ASSUME NEW q \in Producers PROVE Filling(q)'
    <2> DEFINE i == prod[q].head % Capacity
    <2>1. CpuOf[q] \in CPUs /\ i \in 0 .. Capacity - 1
      BY <1>1, Fields, SlotIndex, Zenon
    <2>2. Filling(q)
      BY Zenon DEF IInv
    <2>3. /\ slots[CpuOf[q]][i].commit = 0 => slots'[CpuOf[q]][i].commit = 0
          /\ slots'[CpuOf[q]][i].rec = slots[CpuOf[q]][i].rec
      BY <1>2, <2>1, Zenon
    <2> QED
      BY <2>2, <2>3, Zenon DEF Filling, SlotAt
  <1>5. Exclusive' /\ next_sequence' = Len(log')
    BY Zenon DEF IInv, Exclusive
  <1> QED
    BY <1>1, <1>3, <1>4, <1>5, Zenon DEF IInv

(* The same when only the poll itself changes, ... *)
LEMMA PollOnly ==
  ASSUME IInv, UNCHANGED <<next_sequence, consumer_after, ring, slots, prod, log, pushes>>,
         con' \in PollType, Reading'
  PROVE  IInv'
  <1>1. consumer_after' \in Nat /\ ring' \in RingsType /\ slots' \in SlotsType
    BY Zenon DEF IInv, Typed
  <1>2. \A c \in CPUs : \A i \in 0 .. Capacity - 1 :
          slots'[c][i] = slots[c][i] \/ slots'[c][i] = [slots[c][i] EXCEPT !.commit = 0]
    BY Zenon
  <1> QED
    BY <1>1, <1>2, ReaderStep, Zenon

(* ... and the clearing of one commit. *)
Cleared(c, i) == slots' = [slots EXCEPT ![c][i].commit = 0]

(* It leaves the slots typed and no other slot changed. *)
LEMMA SlotCleared ==
  ASSUME Typed, NEW c \in CPUs, NEW i \in 0 .. Capacity - 1, Cleared(c, i)
  PROVE  /\ slots' \in SlotsType
         /\ \A d \in CPUs : \A j \in 0 .. Capacity - 1 :
              slots'[d][j] = slots[d][j] \/ slots'[d][j] = [slots[d][j] EXCEPT !.commit = 0]
  <1> DEFINE slot == [slots[c][i] EXCEPT !.commit = 0]
  <1>1. slots[c][i] \in Slot
    BY SlotTyped, Zenon
  <1>2. slot \in Slot
    BY <1>1, Zenon DEF Slot
  <1>3. Written(c, i, slot)
    BY Zenon DEF Typed, SlotsType, Cleared, Written
  <1>4. OneSlot(c, i, slot)
    <2> HIDE DEF slot
    <2> QED
      BY <1>2, <1>3, SlotWritten, ZenonT(20), Zenon
  <1> QED
    BY <1>4, Zenon DEF OneSlot

TailMoved(c, n) == ring' = [ring EXCEPT ![c].tail = n]

(* A tail that moves keeps the rings typed. *)
LEMMA TailStored ==
  ASSUME Typed, NEW c \in CPUs, NEW n \in Nat, TailMoved(c, n)
  PROVE  ring' \in RingsType
  BY Zenon DEF Typed, RingsType, TailMoved

(* The next CPU of a loop is a CPU. *)
LEMMA NextCpuTyped ==
  ASSUME Typed,
         NEW again \in {"load", "discard", "cursor", "scan", "idle"},
         NEW after \in {"load", "discard", "cursor", "scan", "idle"}
  PROVE  /\ NextCpu(again, after) \in PollType /\ NextCpu(again, after).pc \in {again, after}
         /\ NextCpu(again, after).after = con.after
  <1>1. con \in PollType /\ con.cpu \in 0 .. NCpu - 1 /\ NCpu \in Nat
    BY RingAssumption, Zenon DEF Typed, PollType, CPUs
  <1>2. CASE con.cpu + 1 < NCpu
    <2>1. con.cpu + 1 \in CPUs
      BY <1>1, <1>2 DEF CPUs
    <2> QED
      BY <1>1, <1>2, <2>1, Zenon DEF NextCpu, PollType
  <1>3. CASE ~(con.cpu + 1 < NCpu)
    <2>1. 0 \in CPUs
      BY AtRest, Zenon
    <2> QED
      BY <1>1, <1>3, <2>1, Zenon DEF NextCpu, PollType
  <1> QED
    BY <1>2, <1>3, Zenon

(* A poll at rest has its type and promises nothing. *)
LEMMA PollRests ==
  ASSUME con' = IdlePoll PROVE con' \in PollType /\ Reading'
  <1>1. IdlePoll \in PollType
    BY AtRest, Zenon DEF IdlePoll, PollType
  <1>2. Reading'
    BY AtRest, Zenon DEF Reading
  <1> QED
    BY <1>1, <1>2, Zenon

-----------------------------------------------------------------------------
(* spz_ring_pop_after accepts the request. *)
LEMMA PollBeginKeeps ==
  ASSUME IInv, NEW after \in Nat, PollBegin(after) PROVE IInv'
  <1>1. /\ after >= consumer_after /\ after <= next_sequence
        /\ con' = [IdlePoll EXCEPT !.pc = "load", !.after = after]
        /\ UNCHANGED <<next_sequence, consumer_after, ring, slots, prod, log, pushes>>
    BY Zenon DEF PollBegin
  <1>2. con' \in PollType /\ con'.pc = "load" /\ con'.after = after
    BY <1>1, AtRest, Zenon DEF IdlePoll, PollType
  <1>3. next_sequence = Len(log) /\ consumer_after \in Nat /\ next_sequence \in Nat
    BY Zenon DEF IInv, Typed
  <1>4. Reading'
    BY <1>1, <1>2, <1>3 DEF Reading
  <1> QED
    BY <1>1, <1>2, <1>4, PollOnly, Zenon

(* The rings are walked through up to the cursor, ... *)
LEMMA PollLoadKeeps ==
  ASSUME IInv, PollLoad PROVE IInv'
  <1>1. /\ con.pc = "load"
        /\ con' = [con EXCEPT !.pc = "discard", !.tail = ring[con.cpu].tail,
                              !.head = ring[con.cpu].head]
        /\ UNCHANGED <<next_sequence, consumer_after, ring, slots, prod, log, out, pushes>>
    BY Zenon DEF PollLoad
  <1>2. con \in PollType /\ ring[con.cpu].tail \in Nat /\ ring[con.cpu].head \in Nat
    BY Fields, Zenon DEF IInv, Typed
  <1>3. con' \in PollType /\ con'.pc = "discard" /\ con'.after = con.after
    BY <1>1, <1>2, Zenon DEF PollType
  <1>4. Reading'
    BY <1>1, <1>3, Zenon DEF IInv, Reading
  <1> QED
    BY <1>1, <1>3, <1>4, PollOnly, Zenon

(* ... one record after the other, ... *)
LEMMA PollDiscardKeeps ==
  ASSUME IInv, PollDiscard PROVE IInv'
  <1>0. Typed /\ con.pc = "discard" /\ con.after \in consumer_after .. Len(log)
    BY Zenon DEF IInv, PollDiscard, Reading
  <1>1. UNCHANGED <<next_sequence, consumer_after, prod, log, out, pushes>>
    BY Zenon DEF PollDiscard
  <1>2. con \in PollType /\ con.cpu \in CPUs /\ con.tail \in Nat /\ con.tail + 1 \in Nat
    BY <1>0, Fields DEF Typed
  <1>3. CASE /\ slots' = [slots EXCEPT ![con.cpu][con.tail % Capacity].commit = 0]
             /\ ring' = [ring EXCEPT ![con.cpu].tail = con.tail + 1]
             /\ con' = [con EXCEPT !.tail = @ + 1]
    <2>1. con' \in PollType /\ con'.pc = "discard" /\ con'.after = con.after
      BY <1>0, <1>2, <1>3, Zenon DEF PollType
    <2>2. Reading'
      BY <1>0, <1>1, <2>1, Zenon DEF Reading
    <2>3. con.tail % Capacity \in 0 .. Capacity - 1
      BY <1>2, SlotIndex, Zenon
    <2>4. /\ slots' \in SlotsType
          /\ \A d \in CPUs : \A j \in 0 .. Capacity - 1 :
               slots'[d][j] = slots[d][j] \/ slots'[d][j] = [slots[d][j] EXCEPT !.commit = 0]
      <3>1. Cleared(con.cpu, con.tail % Capacity)
        BY <1>3, Zenon DEF Cleared
      <3> QED
        BY <1>0, <1>2, <2>3, <3>1, SlotCleared, Zenon
    <2>5. ring' \in RingsType
      BY <1>0, <1>2, <1>3, TailStored, Zenon DEF TailMoved
    <2> QED
      BY <1>0, <1>1, <2>1, <2>2, <2>4, <2>5, ReaderStep, Zenon DEF Typed
  <1>4. CASE con' = NextCpu("load", "cursor") /\ UNCHANGED <<slots, ring>>
    <2>1. con' \in PollType /\ con'.pc \in {"load", "cursor"} /\ con'.after = con.after
      BY <1>0, <1>4, NextCpuTyped, Zenon
    <2>2. Reading'
      BY <1>0, <1>1, <2>1, Zenon DEF Reading
    <2> QED
      BY <1>1, <1>4, <2>1, <2>2, PollOnly, Zenon
  <1> QED
    BY <1>3, <1>4, Zenon DEF PollDiscard

(* ... and the cursor moves up. *)
LEMMA PollCursorKeeps ==
  ASSUME IInv, PollCursor PROVE IInv'
  <1>1. /\ con.pc = "cursor" /\ consumer_after' = con.after /\ con' = [con EXCEPT !.pc = "scan"]
        /\ UNCHANGED <<next_sequence, ring, slots, prod, log, out, pushes>>
    BY Zenon DEF PollCursor
  <1>2. con \in PollType /\ con.after \in Nat
    BY Fields, Zenon DEF IInv, Typed
  <1>3. con' \in PollType /\ con'.pc = "scan" /\ con'.after = con.after
    BY <1>1, <1>2, Zenon DEF PollType
  <1>4. Reading'
    BY <1>1, <1>3, Zenon DEF Reading
  <1>5. consumer_after' \in Nat /\ ring' \in RingsType /\ slots' \in SlotsType
    BY <1>1, <1>2, Zenon DEF IInv, Typed
  <1>6. \A c \in CPUs : \A i \in 0 .. Capacity - 1 :
          slots'[c][i] = slots[c][i] \/ slots'[c][i] = [slots[c][i] EXCEPT !.commit = 0]
    BY <1>1, Zenon
  <1> QED
    BY <1>1, <1>3, <1>4, <1>5, <1>6, ReaderStep, Zenon

(* A CPU's oldest record is looked at. *)
LEMMA PollScanKeeps ==
  ASSUME IInv, PollScan PROVE IInv'
  <1> DEFINE tail == ring[con.cpu].tail
  <1>0. Typed /\ con.pc = "scan" /\ con.after = consumer_after
    BY Zenon DEF IInv, PollScan, Reading
  <1>1. UNCHANGED <<next_sequence, consumer_after, ring, slots, prod, log, out, pushes>>
    BY Zenon DEF PollScan
  <1>2. con \in PollType /\ con.cpu \in CPUs /\ tail \in Nat
    BY <1>0, Fields, Zenon DEF Typed
  <1>3. CASE /\ SlotAt(con.cpu, tail).commit = con.after + 1
             /\ con' = [con EXCEPT !.pc = "copy", !.tail = tail]
    <2>1. /\ con' \in PollType /\ con'.pc = "copy" /\ con'.tail = tail
          /\ con'.after = con.after /\ con'.cpu = con.cpu
      BY <1>2, <1>3, Zenon DEF PollType
    <2>2. Reading'
      BY <1>0, <1>1, <1>3, <2>1, Zenon DEF Reading, SlotAt
    <2> QED
      BY <1>1, <2>1, <2>2, PollOnly, Zenon
  <1>4. CASE con' = IdlePoll
    BY <1>1, <1>4, PollRests, PollOnly, Zenon
  <1>5. CASE con' = NextCpu("scan", "idle") /\ NextCpu("scan", "idle").pc # "idle"
    <2>1. con' \in PollType /\ con'.pc = "scan" /\ con'.after = con.after
      BY <1>0, <1>5, NextCpuTyped, Zenon
    <2>2. Reading'
      BY <1>0, <1>1, <2>1, Zenon DEF Reading
    <2> QED
      BY <1>1, <2>1, <2>2, PollOnly, Zenon
  <1> QED
    BY <1>3, <1>4, <1>5, Zenon DEF PollScan

(* The record is copied out, ... *)
LEMMA PollCopyKeeps ==
  ASSUME IInv, PollCopy PROVE IInv'
  <1>1. /\ con.pc = "copy"
        /\ con' = [con EXCEPT !.pc = "clear", !.copy = SlotAt(con.cpu, con.tail).rec]
        /\ UNCHANGED <<next_sequence, consumer_after, ring, slots, prod, log, out, pushes>>
    BY Zenon DEF PollCopy
  <1>2. con \in PollType /\ con.cpu \in CPUs /\ con.tail % Capacity \in 0 .. Capacity - 1
    BY Fields, SlotIndex, Zenon DEF IInv, Typed
  <1>3. SlotAt(con.cpu, con.tail).rec \in Record
    BY <1>2, Fields, Zenon DEF IInv, SlotAt
  <1>4. /\ con' \in PollType /\ con'.pc = "clear" /\ con'.copy = SlotAt(con.cpu, con.tail).rec
        /\ con'.after = con.after /\ con'.cpu = con.cpu /\ con'.tail = con.tail
    BY <1>1, <1>2, <1>3, Zenon DEF PollType
  <1>5. Reading'
    BY <1>1, <1>4, Zenon DEF IInv, Reading, SlotAt
  <1> QED
    BY <1>1, <1>4, <1>5, PollOnly, Zenon

(* ... its commit is cleared, ... *)
LEMMA PollClearKeeps ==
  ASSUME IInv, PollClear PROVE IInv'
  <1> DEFINE i == con.tail % Capacity
  <1>0. Typed /\ CommittedLogged /\ Reading /\ con.pc = "clear"
    BY Zenon DEF IInv, PollClear
  <1>1. UNCHANGED <<next_sequence, consumer_after, ring, prod, log, out, pushes>>
    BY Zenon DEF PollClear
  <1>2. con \in PollType /\ con.cpu \in CPUs /\ con.after \in Nat /\ i \in 0 .. Capacity - 1
    BY <1>0, Fields, SlotIndex, Zenon DEF Typed
  <1>3. /\ slots[con.cpu][i].commit = con.after + 1 /\ con.copy = slots[con.cpu][i].rec
        /\ con.after = consumer_after
    BY <1>0, Zenon DEF Reading, SlotAt
  <1>4. con' = [con EXCEPT !.pc = "tail"] /\ Cleared(con.cpu, i)
    BY <1>3, Zenon DEF PollClear, SlotAt, Cleared
  <1>5. con.after + 1 \in 1 .. Len(log) /\ con.copy = log[con.after + 1]
    BY <1>0, <1>2, <1>3 DEF CommittedLogged
  <1>6. /\ con' \in PollType /\ con'.pc = "tail" /\ con'.copy = con.copy
        /\ con'.after = con.after
    BY <1>2, <1>4, Zenon DEF PollType
  <1>7. Reading'
    BY <1>1, <1>3, <1>5, <1>6, Zenon DEF Reading
  <1>8. /\ slots' \in SlotsType
        /\ \A d \in CPUs : \A j \in 0 .. Capacity - 1 :
             slots'[d][j] = slots[d][j] \/ slots'[d][j] = [slots[d][j] EXCEPT !.commit = 0]
    BY <1>0, <1>2, <1>4, SlotCleared, Zenon
  <1> QED
    BY <1>0, <1>1, <1>6, <1>7, <1>8, ReaderStep, Zenon DEF Typed

(* ... tail is stored, ... *)
LEMMA PollTailKeeps ==
  ASSUME IInv, PollTail PROVE IInv'
  <1>1. /\ con.pc = "tail" /\ ring' = [ring EXCEPT ![con.cpu].tail = con.tail + 1]
        /\ con' = [con EXCEPT !.pc = "return"]
        /\ UNCHANGED <<next_sequence, consumer_after, slots, prod, log, out, pushes>>
    BY Zenon DEF PollTail
  <1>2. Typed /\ con \in PollType /\ con.cpu \in CPUs /\ con.tail + 1 \in Nat
    BY Fields DEF IInv, Typed
  <1>3. con' \in PollType /\ con'.pc = "return" /\ con'.copy = con.copy /\ con'.after = con.after
    BY <1>1, <1>2, Zenon DEF PollType
  <1>4. Reading'
    BY <1>1, <1>3, Zenon DEF IInv, Reading
  <1>5. ring' \in RingsType
    BY <1>1, <1>2, TailStored, Zenon DEF TailMoved
  <1>6. consumer_after' \in Nat /\ slots' \in SlotsType
    BY <1>1, <1>2, Zenon DEF Typed
  <1>7. \A c \in CPUs : \A i \in 0 .. Capacity - 1 :
          slots'[c][i] = slots[c][i] \/ slots'[c][i] = [slots[c][i] EXCEPT !.commit = 0]
    BY <1>1, Zenon
  <1> QED
    BY <1>1, <1>3, <1>4, <1>5, <1>6, <1>7, ReaderStep, Zenon

(* ... and the poll returns. *)
LEMMA PollReturnKeeps ==
  ASSUME IInv, PollReturn PROVE IInv'
  <1>1. /\ consumer_after' = con.after + 1 /\ con' = IdlePoll
        /\ UNCHANGED <<next_sequence, ring, slots, prod, log, pushes>>
    BY Zenon DEF PollReturn
  <1>2. con' \in PollType /\ Reading'
    BY <1>1, PollRests, Zenon
  <1>3. con.after \in Nat
    BY Fields, Zenon DEF IInv
  <1>4. consumer_after' \in Nat
    BY <1>1, <1>3
  <1>5. ring' \in RingsType /\ slots' \in SlotsType
    BY <1>1, Zenon DEF IInv, Typed
  <1>6. \A c \in CPUs : \A i \in 0 .. Capacity - 1 :
          slots'[c][i] = slots[c][i] \/ slots'[c][i] = [slots[c][i] EXCEPT !.commit = 0]
    BY <1>1, Zenon
  <1> QED
    BY <1>1, <1>2, <1>4, <1>5, <1>6, ReaderStep, Zenon

-----------------------------------------------------------------------------
(* spz_ring_init leaves empty rings, ... *)
LEMMA EmptyTyped == EmptyRing \in RingsType /\ EmptySlots \in SlotsType /\ <<>> \in Seq(Record)
  <1>1. [head |-> 0, tail |-> 0, lost |-> 0, loss_pending |-> 0]
          \in [head : Nat, tail : Nat, lost : Nat, loss_pending : Nat]
    OBVIOUS
  <1>2. [commit |-> 0, rec |-> NoRecord] \in Slot
    BY AtRest, Zenon DEF Slot
  <1>3. EmptyRing \in RingsType
    BY <1>1, Zenon DEF EmptyRing, RingsType
  <1>4. EmptySlots \in SlotsType
    BY <1>2, Zenon DEF EmptySlots, SlotsType
  <1> QED
    BY <1>3, <1>4

(* ... in which nothing is committed. *)
LEMMA NothingCommitted ==
  \A c \in CPUs : \A i \in 0 .. Capacity - 1 : EmptySlots[c][i].commit = 0
  BY Zenon DEF EmptySlots

(* The module starts with the invariant, ... *)
LEMMA InitInvariant == Init => IInv
  <1> SUFFICES ASSUME Init PROVE IInv
    OBVIOUS
  <1>1. Typed
    <2>1. prod \in [Producers -> PushType]
      BY AtRest, Zenon DEF Init
    <2>2. con \in PollType
      BY AtRest, Zenon DEF Init, IdlePoll, PollType
    <2>3. pushes \in [CPUs -> Nat]
      BY Zenon DEF Init
    <2> QED
      BY <2>1, <2>2, <2>3, EmptyTyped, Zenon DEF Init, Typed
  <1>2. \A p \in Producers : prod[p].pc = "idle"
    BY AtRest, Zenon DEF Init
  <1>3. Exclusive /\ \A p \in Producers : Filling(p)
    BY <1>2, Zenon DEF Exclusive, Filling
  <1>4. CommittedLogged
    BY NothingCommitted, Zenon DEF Init, CommittedLogged
  <1>5. Reading
    BY AtRest, Zenon DEF Init, Reading
  <1>6. next_sequence = Len(log)
    BY Zenon DEF Init
  <1> QED
    BY <1>1, <1>3, <1>4, <1>5, <1>6, Zenon DEF IInv

(* ... a reset of a quiet ring restores it, ... *)
LEMMA RingInitKeeps ==
  ASSUME IInv, Quiet, RingInit PROVE IInv'
  <1>1. /\ next_sequence' = 0 /\ consumer_after' = 0 /\ ring' = EmptyRing /\ slots' = EmptySlots
        /\ log' = <<>> /\ pushes' = [c \in CPUs |-> 0] /\ prod' = prod /\ con' = con
    BY Zenon DEF RingInit
  <1>2. Typed'
    <2>1. pushes' \in [CPUs -> Nat]
      BY <1>1, Zenon
    <2>2. prod \in [Producers -> PushType] /\ con \in PollType
      BY Zenon DEF IInv, Typed
    <2>3. next_sequence' \in Nat /\ consumer_after' \in Nat
      BY <1>1, Zenon
    <2> QED
      BY <1>1, <2>1, <2>2, <2>3, EmptyTyped, Zenon DEF Typed
  <1>3. \A p \in Producers : prod'[p].pc = "idle"
    BY <1>1, Zenon DEF Quiet
  <1>4. Exclusive' /\ \A p \in Producers : Filling(p)'
    BY <1>3, Zenon DEF Exclusive, Filling
  <1>5. CommittedLogged'
    BY <1>1, NothingCommitted, Zenon DEF CommittedLogged
  <1>6. Reading'
    BY <1>1, Zenon DEF Quiet, Reading
  <1>7. next_sequence' = Len(log')
    BY <1>1, Zenon
  <1> QED
    BY <1>2, <1>4, <1>5, <1>6, <1>7, Zenon DEF IInv

(* ... and every step keeps it. *)
LEMMA NextInvariant ==
  ASSUME Handlers = Producers, IInv, [Next]_rvars PROVE IInv'
  <1>1. CASE \E p \in Producers : Push(p)
    BY <1>1, PushBeginKeeps, PublishAllocKeeps, PublishFillKeeps, PublishCommitKeeps,
       PublishAdvanceKeeps, Zenon DEF Push
  <1>2. CASE \E after \in 0 .. next_sequence + 1 : PollBegin(after)
    <2>1. \A n \in 0 .. next_sequence + 1 : n \in Nat
      BY DEF IInv, Typed
    <2> QED
      BY <1>2, <2>1, PollBeginKeeps, Zenon
  <1>3. CASE PollStep
    BY <1>3, PollLoadKeeps, PollDiscardKeeps, PollCursorKeeps, PollScanKeeps, PollCopyKeeps,
       PollClearKeeps, PollTailKeeps, PollReturnKeeps, Zenon DEF PollStep
  <1>4. CASE Quiet /\ RingInit
    BY <1>4, RingInitKeeps, Zenon
  <1>5. CASE UNCHANGED rvars
    BY <1>5, Zenon DEF rvars, IInv, Typed, Exclusive, CommittedLogged, Filling, Reading, SlotAt
  <1> QED
    BY <1>1, <1>2, <1>3, <1>4, <1>5, Zenon DEF Next

(* The inductive invariant: with producers that are not preempted, a push     *)
(* fills a slot in which nothing is committed, what is committed is the       *)
(* record its sequence number was given to, and a poll that found its record  *)
(* still has it in front of it until it clears it.                            *)
THEOREM Invariance == ASSUME Handlers = Producers PROVE Spec => []IInv
  <1>1. Init => IInv
    BY InitInvariant, Zenon
  <1>2. IInv /\ [Next]_rvars => IInv'
    BY NextInvariant, Zenon
  <1> QED
    BY <1>1, <1>2, PTL DEF Spec

-----------------------------------------------------------------------------
(* What a producer writes is not committed. *)
LEMMA FillsFree ==
  ASSUME IInv, NEW p \in Producers, PublishFill(p) \/ PublishCommit(p),
         NEW c \in CPUs, NEW i \in 0 .. Capacity - 1, slots[c][i].commit # 0
  PROVE  slots'[c][i] = slots[c][i]
  <1> DEFINE d == CpuOf[p]
             j == prod[p].head % Capacity
  <1>1. slots[d][j].commit = 0
    BY Zenon DEF IInv, Filling, SlotAt, PublishFill, PublishCommit
  <1>2. PICK x : slots' = [slots EXCEPT ![d][j] = x]
    <2>1. CASE PublishFill(p)
      <3>1. slots' = [slots EXCEPT ![d][j] = [slots[d][j] EXCEPT !.rec = Head(prod[p].todo)]]
        BY <2>1, Zenon DEF PublishFill, IInv, Typed, SlotsType
      <3> QED
        BY <3>1, Zenon
    <2>2. CASE PublishCommit(p)
      <3>1. slots' = [slots EXCEPT ![d][j] = [slots[d][j] EXCEPT !.commit = prod[p].seq]]
        BY <2>2, Zenon DEF PublishCommit, IInv, Typed, SlotsType
      <3> QED
        BY <3>1, Zenon
    <2> QED
      BY <2>1, <2>2, Zenon
  <1>3. slots \in SlotsType /\ ~(c = d /\ i = j)
    BY <1>1, Zenon DEF IInv, Typed
  <1> HIDE DEF d, j
  <1> QED
    BY <1>2, <1>3, Zenon DEF SlotsType

(* A poll clears a commit and touches nothing else. *)
LEMMA OnlyClears ==
  ASSUME IInv, PollStep, NEW c \in CPUs, NEW i \in 0 .. Capacity - 1
  PROVE  \/ slots'[c][i] = slots[c][i]
         \/ slots'[c][i].commit = 0 /\ slots'[c][i].rec = slots[c][i].rec
  <1> DEFINE j == con.tail % Capacity
  <1>1. Typed /\ con.cpu \in CPUs /\ con.tail \in Nat
    BY Fields, Zenon DEF IInv
  <1>2. j \in 0 .. Capacity - 1
    BY <1>1, SlotIndex, Zenon
  <1>3. UNCHANGED slots \/ Cleared(con.cpu, j)
    BY Zenon DEF PollStep, PollLoad, PollDiscard, PollCursor, PollScan, PollCopy, PollClear,
       PollTail, PollReturn, Cleared
  <1> HIDE DEF j
  <1>4. slots'[c][i] = slots[c][i] \/ slots'[c][i] = [slots[c][i] EXCEPT !.commit = 0]
    BY <1>1, <1>2, <1>3, SlotCleared, Zenon
  <1>5. slots[c][i] \in Slot
    BY <1>1, SlotTyped, Zenon
  <1> QED
    BY <1>4, <1>5, Zenon DEF Slot

(* A step that is no reset leaves committed records where they are until a    *)
(* poll clears them.                                                          *)
LEMMA NextKeepsCommitted ==
  ASSUME IInv, [Next]_rvars, next_sequence' >= next_sequence,
         NEW c \in CPUs, NEW i \in 0 .. Capacity - 1, slots[c][i].commit # 0
  PROVE  \/ slots'[c][i] = slots[c][i]
         \/ slots'[c][i].commit = 0 /\ slots'[c][i].rec = slots[c][i].rec
  <1>1. ASSUME NEW p \in Producers, Push(p) PROVE slots'[c][i] = slots[c][i]
    <2>1. CASE PublishFill(p) \/ PublishCommit(p)
      BY <2>1, FillsFree, Zenon
    <2>2. CASE PushBegin(p) \/ PublishAlloc(p) \/ PublishAdvance(p)
      BY <2>2, Zenon DEF PushBegin, PublishAlloc, PublishAdvance
    <2> QED
      BY <1>1, <2>1, <2>2, Zenon DEF Push
  <1>2. ASSUME NEW after, PollBegin(after) PROVE slots'[c][i] = slots[c][i]
    BY <1>2, Zenon DEF PollBegin
  <1>3. CASE PollStep
    BY <1>3, OnlyClears, Zenon
  <1>4. ~RingInit
    <2>1. next_sequence = Len(log) /\ next_sequence \in Nat /\ slots[c][i].commit \in 1 .. Len(log)
      BY Zenon DEF IInv, Typed, CommittedLogged
    <2> QED
      BY <2>1 DEF RingInit
  <1>5. CASE UNCHANGED rvars
    BY <1>5, Zenon DEF rvars
  <1> QED
    BY <1>1, <1>2, <1>3, <1>4, <1>5, Zenon DEF Next

(* A full ring overwrites nothing, for any number of CPUs, slots and          *)
(* producers that are not preempted.                                          *)
THEOREM Unwritten == ASSUME Handlers = Producers PROVE Spec => NothingOverwritten
  <1>1. Spec => []IInv
    BY Invariance, Zenon
  <1>2. IInv /\ [Next]_rvars =>
          [next_sequence' >= next_sequence =>
             \A c \in CPUs : \A i \in 0 .. Capacity - 1 : slots[c][i].commit # 0 =>
                \/ slots'[c][i] = slots[c][i]
                \/ slots'[c][i].commit = 0 /\ slots'[c][i].rec = slots[c][i].rec]_rvars
    BY NextKeepsCommitted, Zenon
  <1> QED
    BY <1>1, <1>2, PTL DEF Spec, NothingOverwritten

-----------------------------------------------------------------------------
(* The steps of the ring as steps of the log: an accepted record is           *)
(* published, ...                                                             *)
LEMMA PushRefines ==
  ASSUME IInv, NEW p \in Producers, Push(p)
  PROVE  Log!Publish \/ UNCHANGED <<log, consumer_after, out>>
  <1>1. UNCHANGED <<consumer_after, out>>
    BY Zenon DEF Push, PushBegin, PublishAlloc, PublishFill, PublishCommit, PublishAdvance
  <1>2. CASE log' = Append(log, Head(prod[p].todo)) /\ prod[p].pc = "alloc"
    <2>1. log \in Seq(Record) /\ prod[p].todo \in Seq(Record) /\ prod[p].todo # <<>>
      BY <1>2, Fields, Zenon DEF IInv, Typed, Filling
    <2>2. ASSUME NEW t \in Seq(Record), t # <<>> PROVE Head(t) \in Record
      BY <2>2
    <2>3. ASSUME NEW x \in Record
          PROVE  Len(Append(log, x)) = Len(log) + 1 /\ SubSeq(Append(log, x), 1, Len(log)) = log
      BY <2>1, <2>3
    <2>4. Head(prod[p].todo) \in Record
      BY <2>1, <2>2, Zenon
    <2> QED
      BY <1>1, <1>2, <2>3, <2>4, Zenon DEF Log!Publish
  <1>3. CASE UNCHANGED log
    BY <1>1, <1>3, Zenon
  <1> QED
    BY <1>2, <1>3, Zenon
       DEF Push, PushBegin, PublishAlloc, PublishFill, PublishCommit, PublishAdvance

(* ... a poll asks, skips to its position, and delivers the next record.      *)
LEMMA PollRefines ==
  ASSUME IInv, PollStep
  PROVE  Log!Skip \/ Log!Deliver \/ UNCHANGED <<log, consumer_after, out>>
  <1>1. CASE PollCursor
    <2>1. con.after \in consumer_after .. Len(log) /\ consumer_after \in Nat /\ log \in Seq(Record)
      BY <1>1, Zenon DEF IInv, Typed, Reading, PollCursor
    <2>2. consumer_after' = con.after /\ UNCHANGED <<log, out>>
      BY <1>1, Zenon DEF PollCursor
    <2>3. CASE con.after = consumer_after
      BY <2>2, <2>3, Zenon
    <2>4. CASE con.after # consumer_after
      <3>1. con.after \in consumer_after + 1 .. Len(log)
        BY <2>1, <2>4
      <3> QED
        BY <2>2, <3>1, Zenon DEF Log!Skip
    <2> QED
      BY <2>3, <2>4, Zenon
  <1>2. CASE PollReturn
    <2>1. /\ consumer_after' = con.after + 1 /\ out' = <<[seq |-> con.after + 1, rec |-> con.copy]>>
          /\ UNCHANGED log
      BY <1>2, Zenon DEF PollReturn
    <2>2. /\ con.after = consumer_after /\ con.after + 1 \in 1 .. Len(log)
          /\ con.copy = log[con.after + 1]
      BY <1>2, Zenon DEF IInv, Reading, PollReturn
    <2>3. consumer_after \in Nat /\ Len(log) \in Nat
      BY LenNat, Zenon DEF IInv, Typed
    <2>4. consumer_after < Len(log)
      BY <2>2, <2>3
    <2> QED
      BY <2>1, <2>2, <2>4, Zenon DEF Log!Deliver
  <1>3. CASE PollLoad \/ PollDiscard \/ PollScan \/ PollCopy \/ PollClear \/ PollTail
    BY <1>3, Zenon DEF PollLoad, PollDiscard, PollScan, PollCopy, PollClear, PollTail
  <1> QED
    BY <1>1, <1>2, <1>3, Zenon DEF PollStep

(* The per-CPU rings implement one log: what the polls return is the sequence *)
(* of accepted records with no gap, duplicate, tear or inversion, for any     *)
(* number of CPUs, slots and producers that are not preempted.                *)
THEOREM Refinement == ASSUME Handlers = Producers PROVE Spec => ImplementsLog
  <1>1. Spec => []IInv
    BY Invariance, Zenon
  <1>2. Init => Log!LogInit
    BY Zenon DEF Init, Log!LogInit
  <1>3. IInv /\ [Next]_rvars => [Log!LogNext]_(Log!logvars)
    <2> SUFFICES ASSUME IInv, [Next]_rvars
                 PROVE  Log!LogNext \/ UNCHANGED <<log, consumer_after, out>>
      BY Zenon DEF Log!logvars
    <2>1. ASSUME NEW after, PollBegin(after) PROVE Log!Ask
      BY <2>1, Zenon DEF PollBegin, Log!Ask
    <2>2. RingInit => Log!Reset
      BY Zenon DEF RingInit, Log!Reset
    <2>3. CASE UNCHANGED rvars
      BY <2>3, Zenon DEF rvars
    <2> QED
      BY <2>1, <2>2, <2>3, PushRefines, PollRefines, Zenon DEF Next, Log!LogNext
  <1> QED
    BY <1>1, <1>2, <1>3, PTL DEF Spec, ImplementsLog, Log!LogSpec

-----------------------------------------------------------------------------
(* The window between tail and head.  Positions less than a ring apart have   *)
(* slots of their own, ...                                                    *)
LEMMA Apart ==
  ASSUME NEW m \in Nat, NEW n \in Nat, m < n, n - m < Capacity
  PROVE  m % Capacity # n % Capacity
  <1> DEFINE q == n \div Capacity
             k == m \div Capacity
  <1>0. Capacity \in Nat /\ Capacity > 0
    BY RingAssumption
  <1>1. n % Capacity = n - Capacity * q /\ q \in Int
    BY <1>0
  <1>2. m % Capacity = m - Capacity * k /\ k \in Int
    BY <1>0
  <1>3. SUFFICES ASSUME m % Capacity = n % Capacity PROVE FALSE
    OBVIOUS
  <1> HIDE DEF q, k
  <1>4. n - m = Capacity * q - Capacity * k
    BY <1>0, <1>1, <1>2, <1>3
  <1>5. Capacity * q - Capacity * k = Capacity * (q - k) /\ q - k \in Int
    BY <1>0, <1>1, <1>2
  <1>6. ASSUME NEW x \in Int, x <= 0 PROVE Capacity * x <= 0
    BY <1>0, <1>6
  <1>7. ASSUME NEW x \in Int, x >= 1 PROVE Capacity * x >= Capacity
    BY <1>0, <1>7
  <1>8. CASE q - k <= 0
    <2>1. Capacity * (q - k) <= 0
      BY <1>5, <1>6, <1>8, Zenon
    <2> QED
      BY <1>4, <1>5, <2>1
  <1>9. CASE q - k >= 1
    <2>1. Capacity * (q - k) >= Capacity
      BY <1>5, <1>7, <1>9, Zenon
    <2> QED
      BY <1>0, <1>4, <1>5, <2>1
  <1> QED
    BY <1>5, <1>8, <1>9

(* ... and the counters' difference does not wrap. *)
LEMMA UsedExact ==
  ASSUME Typed, NEW c \in CPUs, Window(c)
  PROVE  /\ Used(c) = ring[c].head - ring[c].tail /\ Used(c) \in 0 .. Capacity
         /\ (Capacity - Used(c)) % Word = Capacity - (ring[c].head - ring[c].tail)
  <1> DEFINE h == ring[c].head
             t == ring[c].tail
  <1>1. h \in Nat /\ t \in Nat /\ t <= h /\ h - t <= Capacity
    BY Fields, Zenon DEF Window
  <1>2. Capacity \in Nat /\ Word \in Nat /\ Word > Capacity
    BY RingAssumption
  <1>3. Used(c) = (h - t) % Word
    BY Zenon DEF Used
  <1> HIDE DEF h, t
  <1>4. ASSUME NEW x \in Nat, x <= Capacity PROVE x % Word = x
    BY <1>2, <1>4
  <1>5. h - t \in Nat /\ h - t <= Capacity
    BY <1>1, <1>2
  <1>6. Used(c) = h - t
    BY <1>3, <1>4, <1>5, Zenon
  <1>7. Capacity - (h - t) \in Nat /\ Capacity - (h - t) <= Capacity
    BY <1>2, <1>5
  <1>8. (Capacity - Used(c)) % Word = Capacity - (h - t)
    BY <1>4, <1>6, <1>7, Zenon
  <1>9. Used(c) \in 0 .. Capacity
    BY <1>2, <1>5, <1>6
  <1> QED
    BY <1>6, <1>8, <1>9, Zenon DEF h, t

(* A push that is not preempted has the only push of its CPU. *)
LEMMA OnlyPush ==
  ASSUME Exclusive, NEW p \in Producers, prod[p].pc # "idle",
         NEW q \in Producers, q # p, CpuOf[q] = CpuOf[p]
  PROVE  prod[q].pc = "idle"
  BY Zenon DEF Exclusive

(* spz_publish finds room, and a slot with no committed record: its two       *)
(* refusals never happen.                                                     *)
LEMMA FreshSlot ==
  ASSUME IInv, WInv, NEW p \in Producers, prod[p].pc \in {"alloc", "fill", "commit"}
  PROVE  /\ Used(CpuOf[p]) < Capacity /\ SlotAt(CpuOf[p], ring[CpuOf[p]].head).commit = 0
         /\ ring[CpuOf[p]].head - ring[CpuOf[p]].tail < Capacity
  <1> DEFINE c == CpuOf[p]
             h == ring[c].head
             t == ring[c].tail
  <1>1. /\ Typed /\ c \in CPUs /\ Window(c) /\ Room(p) /\ h \in Nat /\ t \in Nat
        /\ Capacity \in Nat
    BY Fields, RingAssumption, Zenon DEF IInv, WInv
  <1>2. prod[p].todo \in Seq(Record) /\ prod[p].todo # <<>>
    BY <1>1, Fields, Zenon DEF IInv, Filling
  <1>3. Len(prod[p].todo) \in Nat /\ Len(prod[p].todo) >= 1
    <2>1. ASSUME NEW s \in Seq(Record), s # <<>> PROVE Len(s) \in Nat /\ Len(s) >= 1
      BY <2>1
    <2> QED
      BY <1>2, <2>1, Zenon
  <1>4. h - t + Len(prod[p].todo) <= Capacity
    BY <1>1, Zenon DEF Room
  <1>5. h - t < Capacity
    <2>1. ASSUME NEW a \in Nat, NEW b \in Nat, NEW l \in Nat, l >= 1, a - b + l <= Capacity
          PROVE  a - b < Capacity
      BY <1>1, <2>1
    <2> QED
      BY <1>1, <1>3, <1>4, <2>1, Zenon
  <1>6. Used(c) < Capacity
    <2>1. Used(c) = h - t
      BY <1>1, UsedExact, Zenon
    <2> QED
      BY <1>5, <2>1, Zenon
  <1>7. ~Storing(c)
    BY OnlyPush, Zenon DEF Storing, IInv
  <1>8. slots[c][h % Capacity].commit = 0
    <2>1. SUFFICES ASSUME slots[c][h % Capacity].commit # 0 PROVE FALSE
      OBVIOUS
    <2>2. h % Capacity \in 0 .. Capacity - 1
      BY <1>1, SlotIndex, Zenon
    <2>3. PICK n \in t .. h : n % Capacity = h % Capacity /\ n # h
      BY <1>1, <1>7, <2>1, <2>2, Zenon DEF Window
    <2>4. n \in Nat /\ n < h /\ h - n < Capacity
      BY <1>1, <1>5, <2>3
    <2> QED
      BY <1>1, <2>3, <2>4, Apart, Zenon
  <1> QED
    BY <1>5, <1>6, <1>8, Zenon DEF SlotAt

-----------------------------------------------------------------------------
(* A window stays when its ends do and nothing more is committed in it, ...   *)
LEMMA WindowStays ==
  ASSUME NEW c \in CPUs, Window(c), ring'[c].head = ring[c].head, ring'[c].tail = ring[c].tail,
         \A i \in 0 .. Capacity - 1 : slots'[c][i].commit # 0 => slots[c][i].commit # 0,
         Storing(c) => Storing(c)'
  PROVE  Window(c)'
  BY Zenon DEF Window

(* ... a push keeps its room when tail moves up, ...                          *)
LEMMA RoomStays ==
  ASSUME Typed, NEW q \in Producers, Room(q), prod'[q] = prod[q],
         \/ prod[q].pc = "idle"
         \/ /\ ring'[CpuOf[q]].head = ring[CpuOf[q]].head
            /\ ring'[CpuOf[q]].tail \in Nat /\ ring'[CpuOf[q]].tail >= ring[CpuOf[q]].tail
  PROVE  Room(q)'
  <1> DEFINE c == CpuOf[q]
  <1>1. CASE prod[q].pc = "idle"
    BY <1>1, Zenon DEF Room
  <1>2. CASE /\ prod[q].pc # "idle" /\ ring'[c].head = ring[c].head
             /\ ring'[c].tail \in Nat /\ ring'[c].tail >= ring[c].tail
    <2>1. ring[c].head \in Nat /\ ring[c].tail \in Nat /\ Capacity \in Nat
      BY Fields, RingAssumption, Zenon
    <2>2. Len(prod[q].todo) \in Nat
      BY Fields, LenNat, Zenon
    <2>3. ring[c].head - ring[c].tail + Len(prod[q].todo) <= Capacity
      BY <1>2, Zenon DEF Room
    <2>4. ASSUME NEW h \in Nat, NEW a \in Nat, NEW b \in Nat, NEW l \in Nat, b >= a,
                 h - a + l <= Capacity
          PROVE  h - b + l <= Capacity
      BY <2>1, <2>4
    <2>5. ring[c].head - ring'[c].tail + Len(prod[q].todo) <= Capacity
      BY <1>2, <2>1, <2>2, <2>3, <2>4, Zenon
    <2> QED
      BY <1>2, <2>5, Zenon DEF Room
  <1> QED
    BY <1>1, <1>2, Zenon

(* ... and a poll keeps its place when head does.                             *)
LEMMA RemovingStays ==
  ASSUME Typed, Removing, con' = con, ring'[con.cpu].tail = ring[con.cpu].tail,
         ring'[con.cpu].head \in Nat, ring'[con.cpu].head >= ring[con.cpu].head,
         con.pc = "tail" => slots'[con.cpu][con.tail % Capacity].commit = 0
  PROVE  Removing'
  <1>1. con.cpu \in CPUs /\ con.tail \in Nat /\ con.head \in Nat /\ ring[con.cpu].head \in Nat
    BY Fields, Zenon
  <1>2. ASSUME NEW a \in Nat, NEW b \in Nat, NEW d \in Nat, d >= b
        PROVE  (a <= b => a <= d) /\ (a < b => a < d)
    BY <1>2
  <1>3. /\ con.tail < ring[con.cpu].head => con.tail < ring'[con.cpu].head
        /\ con.head <= ring[con.cpu].head => con.head <= ring'[con.cpu].head
    BY <1>1, <1>2, Zenon
  <1> QED
    BY <1>3, Zenon DEF Removing, SlotAt

(* A step of a push that moves no index, commits nothing and is not about to  *)
(* store head.                                                                *)
LEMMA WindowPush ==
  ASSUME IInv, WInv, Handlers = Producers, NEW p \in Producers,
         NEW push, prod' = [prod EXCEPT ![p] = push], con' = con,
         prod[p].pc # "advance", Room(p)',
         \A c \in CPUs : ring'[c].head = ring[c].head /\ ring'[c].tail = ring[c].tail,
         \A c \in CPUs : \A i \in 0 .. Capacity - 1 : slots'[c][i].commit = slots[c][i].commit
  PROVE  WInv'
  <1>1. Typed /\ \A q \in Producers : CpuOf[q] \in CPUs
    BY Fields, Zenon DEF IInv
  <1>2. /\ \A c \in CPUs : ring[c].head \in Nat /\ ring[c].tail \in Nat
        /\ con.cpu \in CPUs /\ con.tail % Capacity \in 0 .. Capacity - 1
    BY <1>1, Fields, SlotIndex, Zenon
  <1>3. \A q \in Producers \ {p} : prod'[q] = prod[q]
    BY <1>1, Zenon DEF Typed
  <1>4. ASSUME NEW c \in CPUs PROVE Window(c)'
    <2>1. Storing(c) => Storing(c)'
      BY <1>3, Zenon DEF Storing
    <2>2. Window(c)
      BY Zenon DEF WInv
    <2> QED
      BY <2>1, <2>2, WindowStays, Zenon
  <1>5. ASSUME NEW x \in Nat PROVE x >= x
    BY <1>5
  <1>6. ASSUME NEW q \in Producers PROVE Room(q)'
    <2>1. Room(q)
      BY Zenon DEF WInv
    <2>2. /\ ring'[CpuOf[q]].head = ring[CpuOf[q]].head
          /\ ring'[CpuOf[q]].tail \in Nat /\ ring'[CpuOf[q]].tail >= ring[CpuOf[q]].tail
      BY <1>1, <1>2, <1>5, Zenon
    <2> QED
      BY <1>1, <1>3, <2>1, <2>2, RoomStays, Zenon
  <1>7. Removing'
    <2>1. Removing
      BY Zenon DEF WInv
    <2>2. con.pc = "tail" => slots'[con.cpu][con.tail % Capacity].commit = 0
      BY <1>2, <2>1, Zenon DEF Removing, SlotAt
    <2>3. /\ ring'[con.cpu].tail = ring[con.cpu].tail /\ ring'[con.cpu].head \in Nat
          /\ ring'[con.cpu].head >= ring[con.cpu].head
      BY <1>2, <1>5, Zenon
    <2> QED
      BY <1>1, <2>1, <2>2, <2>3, RemovingStays, Zenon
  <1> QED
    BY <1>4, <1>6, <1>7, Zenon DEF WInv

(* spz_ring_push begins only when there is room for what it will write, ...   *)
LEMMA PushBeginWindow ==
  ASSUME IInv, WInv, Handlers = Producers, NEW p \in Producers, PushBegin(p) PROVE WInv'
  <1> DEFINE c == CpuOf[p]
             event == [cpu |-> c, n |-> pushes[c] + 1, loss |-> 0]
             report == [cpu |-> c, n |-> 0, loss |-> ring[c].loss_pending]
             free == (Capacity - Used(c)) % Word
  <1>1. Typed /\ c \in CPUs /\ Window(c) /\ ring \in RingsType /\ prod \in [Producers -> PushType]
    BY Fields, Zenon DEF IInv, WInv, Typed
  <1>2. prod[p].pc = "idle" /\ con' = con /\ slots' = slots
    BY Zenon DEF PushBegin
  <1>3. \A d \in CPUs : \A i \in 0 .. Capacity - 1 : slots'[d][i].commit = slots[d][i].commit
    BY <1>2, Zenon
  <1>4. CASE CountLoss(c) /\ UNCHANGED prod
    <2>1. prod' = [prod EXCEPT ![p] = prod[p]] /\ prod'[p] = prod[p]
      BY <1>1, <1>4, Zenon
    <2>2. \A d \in CPUs : ring'[d].head = ring[d].head /\ ring'[d].tail = ring[d].tail
      BY <1>1, <1>4, CountLossEnds, Zenon
    <2>3. Room(p)'
      BY <1>2, <2>1, Zenon DEF Room
    <2> QED
      BY <1>2, <1>3, <2>1, <2>2, <2>3, WindowPush, Zenon
  <1>5. ASSUME NEW todo, UNCHANGED ring, Len(todo) \in 1 .. free,
               prod' = [prod EXCEPT ![p].pc = "alloc", ![p].todo = todo]
        PROVE  WInv'
    <2> DEFINE push == [prod[p] EXCEPT !.pc = "alloc", !.todo = todo]
    <2>1. prod' = [prod EXCEPT ![p] = push]
      BY <1>1, <1>5, Zenon
    <2>2. push.pc = "alloc" /\ push.todo = todo
      BY <1>1, Zenon DEF PushType
    <2> HIDE DEF push
    <2>3. prod'[p] = push
      BY <1>1, <2>1, Zenon
    <2>4. free = Capacity - (ring[c].head - ring[c].tail)
      BY <1>1, UsedExact, Zenon
    <2>5. ring[c].head - ring[c].tail + Len(todo) <= Capacity
      <3>1. ring[c].head \in Nat /\ ring[c].tail \in Nat /\ Capacity \in Nat
        BY <1>1, Fields, RingAssumption, Zenon
      <3> QED
        BY <1>5, <2>4, <3>1
    <2>6. Room(p)'
      BY <1>5, <2>2, <2>3, <2>5, Zenon DEF Room
    <2> QED
      BY <1>2, <1>3, <1>5, <2>1, <2>6, WindowPush, Zenon
  <1>6. free # 0 => 1 \in 1 .. free
    <2>1. free = Capacity - Used(c) /\ Used(c) \in 0 .. Capacity /\ Capacity \in Nat
      BY <1>1, UsedExact, RingAssumption, Zenon
    <2> QED
      BY <2>1
  <1>7. free # 0 /\ free >= 2 => 2 \in 1 .. free
    <2>1. free = Capacity - Used(c) /\ Used(c) \in 0 .. Capacity /\ Capacity \in Nat
      BY <1>1, UsedExact, RingAssumption, Zenon
    <2> QED
      BY <2>1
  <1>8. Len(<<report, event>>) = 2 /\ Len(<<event>>) = 1
    OBVIOUS
  <1>9. \/ CountLoss(c) /\ UNCHANGED prod
        \/ /\ UNCHANGED ring /\ free # 0
           /\ prod' = [prod EXCEPT ![p].pc = "alloc",
                         ![p].todo = IF ring[c].loss_pending # 0 /\ free >= 2
                                     THEN <<report, event>> ELSE <<event>>]
    BY Zenon DEF PushBegin
  <1> HIDE DEF free, event, report
  <1>10. CASE /\ UNCHANGED ring /\ free # 0 /\ ring[c].loss_pending # 0 /\ free >= 2
              /\ prod' = [prod EXCEPT ![p].pc = "alloc", ![p].todo = <<report, event>>]
    BY <1>5, <1>7, <1>8, <1>10, Zenon
  <1>11. CASE /\ UNCHANGED ring /\ free # 0
              /\ prod' = [prod EXCEPT ![p].pc = "alloc", ![p].todo = <<event>>]
    BY <1>5, <1>6, <1>8, <1>11, Zenon
  <1> QED
    BY <1>4, <1>9, <1>10, <1>11, Zenon

(* ... takes its number ... *)
LEMMA PublishAllocWindow ==
  ASSUME IInv, WInv, Handlers = Producers, NEW p \in Producers, PublishAlloc(p) PROVE WInv'
  <1> DEFINE c == CpuOf[p]
  <1>1. Typed /\ c \in CPUs /\ Room(p) /\ ring \in RingsType /\ prod \in [Producers -> PushType]
    BY Fields, Zenon DEF IInv, WInv, Typed
  <1>2. prod[p].pc = "alloc" /\ con' = con /\ slots' = slots
    BY Zenon DEF PublishAlloc
  <1>3. \A d \in CPUs : \A i \in 0 .. Capacity - 1 : slots'[d][i].commit = slots[d][i].commit
    BY <1>2, Zenon
  <1>4. CASE (CountLoss(c) \/ UNCHANGED ring) /\ prod' = [prod EXCEPT ![p] = IdlePush]
    <2>1. \A d \in CPUs : ring'[d].head = ring[d].head /\ ring'[d].tail = ring[d].tail
      BY <1>1, <1>4, CountLossEnds, Zenon
    <2>2. prod'[p].pc = "idle"
      BY <1>1, <1>4, AtRest, Zenon
    <2>3. Room(p)'
      BY <2>2, Zenon DEF Room
    <2> QED
      BY <1>2, <1>3, <1>4, <2>1, <2>3, WindowPush, Zenon
  <1>5. CASE /\ prod' = [prod EXCEPT ![p].pc = "fill", ![p].head = ring[c].head,
                                     ![p].seq = next_sequence + 1]
             /\ UNCHANGED ring
    <2> DEFINE push == [prod[p] EXCEPT !.pc = "fill", !.head = ring[c].head,
                                       !.seq = next_sequence + 1]
    <2>1. prod' = [prod EXCEPT ![p] = push]
      BY <1>1, <1>5, Zenon
    <2>2. push.pc = "fill" /\ push.todo = prod[p].todo /\ push.head = ring[c].head
      BY <1>1, Zenon DEF PushType
    <2> HIDE DEF push
    <2>3. prod'[p] = push
      BY <1>1, <2>1, Zenon
    <2>4. Room(p)'
      BY <1>1, <1>2, <1>5, <2>2, <2>3, Zenon DEF Room
    <2> QED
      BY <1>2, <1>3, <1>5, <2>1, <2>4, WindowPush, Zenon
  <1> QED
    BY <1>4, <1>5, Zenon DEF PublishAlloc

(* ... and fills its slot. *)
LEMMA PublishFillWindow ==
  ASSUME IInv, WInv, Handlers = Producers, NEW p \in Producers, PublishFill(p) PROVE WInv'
  <1> DEFINE c == CpuOf[p]
             i == prod[p].head % Capacity
             push == [prod[p] EXCEPT !.pc = "commit"]
  <1>1. /\ Typed /\ c \in CPUs /\ i \in 0 .. Capacity - 1 /\ Room(p)
        /\ slots \in SlotsType /\ prod \in [Producers -> PushType]
    BY Fields, SlotIndex, Zenon DEF IInv, WInv, Typed
  <1>2. /\ prod[p].pc = "fill" /\ con' = con /\ ring' = ring
        /\ slots' = [slots EXCEPT ![c][i].rec = Head(prod[p].todo)]
        /\ prod' = [prod EXCEPT ![p].pc = "commit"]
    BY Zenon DEF PublishFill
  <1>3. ASSUME NEW d \in CPUs, NEW j \in 0 .. Capacity - 1
        PROVE  slots'[d][j].commit = slots[d][j].commit
    <2>1. slots[d][j] \in Slot
      BY <1>1, SlotTyped, Zenon
    <2>2. \/ slots'[d][j] = slots[d][j]
          \/ slots'[d][j] = [slots[d][j] EXCEPT !.rec = Head(prod[p].todo)]
      BY <1>1, <1>2, Zenon DEF SlotsType
    <2> QED
      BY <2>1, <2>2, Zenon DEF Slot
  <1>4. prod' = [prod EXCEPT ![p] = push]
    BY <1>1, <1>2, Zenon
  <1>5. push.pc = "commit" /\ push.todo = prod[p].todo /\ push.head = prod[p].head
    BY <1>1, Zenon DEF PushType
  <1> HIDE DEF push
  <1>6. prod'[p] = push
    BY <1>1, <1>4, Zenon
  <1>7. Room(p)'
    BY <1>1, <1>2, <1>5, <1>6, Zenon DEF Room
  <1> QED
    BY <1>2, <1>3, <1>4, <1>7, WindowPush, Zenon

(* The record is committed at head, away from the slot the poll is clearing.  *)
LEMMA PublishCommitWindow ==
  ASSUME IInv, WInv, Handlers = Producers, NEW p \in Producers, PublishCommit(p) PROVE WInv'
  <1> DEFINE c == CpuOf[p]
             h == ring[c].head
             i == h % Capacity
             push == [prod[p] EXCEPT !.pc = "advance"]
  <1>1. /\ Typed /\ c \in CPUs /\ h \in Nat /\ i \in 0 .. Capacity - 1 /\ Room(p) /\ Window(c)
        /\ slots \in SlotsType /\ prod \in [Producers -> PushType] /\ ring[c].tail \in Nat
    BY Fields, SlotIndex, Zenon DEF IInv, WInv, Typed
  <1>2. /\ prod[p].pc = "commit" /\ con' = con /\ ring' = ring /\ prod[p].head = h
        /\ slots' = [slots EXCEPT ![c][i].commit = prod[p].seq]
        /\ prod' = [prod EXCEPT ![p].pc = "advance"]
    <2>1. prod[p].pc = "commit"
      BY Zenon DEF PublishCommit
    <2>2. prod[p].head = h
      BY <1>1, <2>1, Zenon DEF Room
    <2> QED
      BY <2>2, Zenon DEF PublishCommit
  <1>3. ASSUME NEW d \in CPUs, NEW j \in 0 .. Capacity - 1, ~(d = c /\ j = i)
        PROVE  slots'[d][j] = slots[d][j]
    <2> HIDE DEF i
    <2> QED
      BY <1>1, <1>2, <1>3, Zenon DEF SlotsType
  <1>4. prod' = [prod EXCEPT ![p] = push]
    BY <1>1, <1>2, Zenon
  <1>5. push.pc = "advance" /\ push.todo = prod[p].todo /\ push.head = h
    BY <1>1, <1>2, Zenon DEF PushType
  <1> HIDE DEF push
  <1>6. prod'[p] = push /\ \A q \in Producers \ {p} : prod'[q] = prod[q]
    BY <1>1, <1>4, Zenon
  <1>7. \A d \in CPUs : Storing(d) => Storing(d)'
    BY <1>2, <1>6, Zenon DEF Storing
  <1>8. ASSUME NEW d \in CPUs \ {c} PROVE Window(d)'
    <2>1. Window(d)
      BY Zenon DEF WInv
    <2>2. \A j \in 0 .. Capacity - 1 : slots'[d][j] = slots[d][j]
      BY <1>3, Zenon
    <2> QED
      BY <1>2, <1>7, <2>1, <2>2, WindowStays, Zenon
  <1>9. Window(c)'
    <2>1. Storing(c)'
      BY <1>5, <1>6, Zenon DEF Storing
    <2>2. ring[c].tail <= h /\ h - ring[c].tail <= Capacity
      BY <1>1, Zenon DEF Window
    <2>3. h \in ring[c].tail .. h
      BY <1>1, <2>2
    <2>4. ASSUME NEW j \in 0 .. Capacity - 1, slots'[c][j].commit # 0
          PROVE  \E n \in ring[c].tail .. h : n % Capacity = j
      <3>1. CASE j = i
        BY <2>3, <3>1, Zenon
      <3>2. CASE j # i
        <4>1. slots[c][j].commit # 0
          BY <1>1, <1>3, <2>4, <3>2, Zenon
        <4> QED
          BY <1>1, <4>1, Zenon DEF Window
      <3> QED
        BY <3>1, <3>2, Zenon
    <2> QED
      BY <1>2, <2>1, <2>2, <2>4, Zenon DEF Window
  <1>10. Room(p)'
    BY <1>1, <1>2, <1>5, <1>6, Zenon DEF Room
  <1>11. ASSUME NEW q \in Producers \ {p} PROVE Room(q)'
    BY <1>2, <1>6, <1>11, Zenon DEF WInv, Room
  <1>12. Removing'
    <2>1. Removing /\ con.cpu \in CPUs /\ con.tail \in Nat /\ con.tail % Capacity \in 0 .. Capacity - 1
      BY <1>1, Fields, SlotIndex, Zenon DEF WInv
    <2>2. ASSUME con.pc = "tail" PROVE slots'[con.cpu][con.tail % Capacity].commit = 0
      <3>1. /\ con.tail = ring[con.cpu].tail /\ con.tail < ring[con.cpu].head
            /\ slots[con.cpu][con.tail % Capacity].commit = 0
        BY <2>1, <2>2, Zenon DEF Removing, SlotAt
      <3>2. con.cpu = c => con.tail % Capacity # i
        <4>1. h - ring[c].tail < Capacity
          BY <1>2, FreshSlot, Zenon
        <4> QED
          BY <1>1, <2>1, <3>1, <4>1, Apart, Zenon
      <3>3. slots'[con.cpu][con.tail % Capacity] = slots[con.cpu][con.tail % Capacity]
        BY <1>3, <2>1, <3>2, Zenon
      <3> QED
        BY <3>1, <3>3, Zenon
    <2> QED
      BY <1>2, <2>1, <2>2, Zenon DEF Removing, SlotAt
  <1> QED
    BY <1>8, <1>9, <1>10, <1>11, <1>12, Zenon DEF WInv

(* head is stored: the record at it is inside the window. *)
LEMMA PublishAdvanceWindow ==
  ASSUME IInv, WInv, Handlers = Producers, NEW p \in Producers, PublishAdvance(p) PROVE WInv'
  <1> DEFINE c == CpuOf[p]
             h == ring[c].head
             t == ring[c].tail
             rest == Tail(prod[p].todo)
             push == IF rest = <<>> THEN IdlePush
                     ELSE [prod[p] EXCEPT !.pc = "alloc", !.todo = rest]
  <1>1. /\ Typed /\ c \in CPUs /\ h \in Nat /\ t \in Nat /\ Room(p) /\ Window(c)
        /\ ring \in RingsType /\ prod \in [Producers -> PushType] /\ Capacity \in Nat
    BY Fields, RingAssumption, Zenon DEF IInv, WInv, Typed
  <1>2. /\ Running(p) /\ prod[p].pc = "advance" /\ con' = con /\ slots' = slots
        /\ ring' = [ring EXCEPT ![c].head = prod[p].head + 1,
                                ![c].loss_pending = (@ - Head(prod[p].todo).loss) % Word]
        /\ prod' = [prod EXCEPT ![p] = IF rest = <<>> THEN IdlePush
                                       ELSE [@ EXCEPT !.pc = "alloc", !.todo = rest]]
    BY Zenon DEF PublishAdvance
  <1>3. prod[p].head = h
    BY <1>1, <1>2, Zenon DEF Room
  <1>4. /\ ring'[c].head = h + 1 /\ ring'[c].tail = t
        /\ \A d \in CPUs \ {c} : ring'[d] = ring[d]
    BY <1>1, <1>2, <1>3, Zenon DEF RingsType
  <1>5. prod'[p] = push /\ \A q \in Producers \ {p} : prod'[q] = prod[q]
    BY <1>1, <1>2, Zenon
  <1>6. \A q \in Producers \ {p} : CpuOf[q] = c => prod[q].pc = "idle"
    BY <1>2, Zenon DEF Running
  <1>7. /\ prod[p].todo \in Seq(Record) /\ prod[p].todo # <<>> /\ Len(prod[p].todo) \in Nat
        /\ Len(prod[p].todo) >= 1 /\ (rest # <<>> => Len(rest) = Len(prod[p].todo) - 1)
    <2>1. prod[p].todo \in Seq(Record) /\ prod[p].todo # <<>>
      BY <1>1, <1>2, Fields, Zenon DEF IInv, Filling
    <2>2. ASSUME NEW s \in Seq(Record), s # <<>>
          PROVE  Len(s) \in Nat /\ Len(s) >= 1 /\ Len(Tail(s)) = Len(s) - 1
      BY <2>2
    <2> QED
      BY <2>1, <2>2, Zenon
  <1>8. h - t + Len(prod[p].todo) <= Capacity
    BY <1>1, <1>2, Zenon DEF Room
  <1>9. Window(c)'
    <2>1. t <= h
      BY <1>1, Zenon DEF Window
    <2>2. t <= h + 1 /\ (h + 1) - t <= Capacity
      <3>1. ASSUME NEW a \in Nat, NEW b \in Nat, NEW l \in Nat, l >= 1, b <= a, a - b + l <= Capacity
            PROVE  b <= a + 1 /\ (a + 1) - b <= Capacity
        BY <1>1, <3>1
      <3> QED
        BY <1>1, <1>7, <1>8, <2>1, <3>1, Zenon
    <2>3. \A n \in t .. h : n \in t .. h + 1 /\ n # h + 1
      BY <1>1
    <2>4. \A j \in 0 .. Capacity - 1 : slots'[c][j].commit # 0 =>
            \E n \in t .. h : n % Capacity = j
      BY <1>1, <1>2, Zenon DEF Window
    <2> HIDE DEF h, t
    <2>5. \A j \in 0 .. Capacity - 1 : slots'[c][j].commit # 0 =>
            \E n \in ring'[c].tail .. ring'[c].head : n % Capacity = j /\ n # ring'[c].head
      BY <1>4, <2>3, <2>4, Zenon
    <2>6. /\ ring'[c].tail <= ring'[c].head /\ ring'[c].head - ring'[c].tail <= Capacity
      BY <1>4, <2>2, Zenon
    <2> QED
      BY <2>5, <2>6, Zenon DEF Window
  <1>10. ASSUME NEW d \in CPUs \ {c} PROVE Window(d)'
    <2>1. Window(d)
      BY Zenon DEF WInv
    <2>2. Storing(d) => Storing(d)'
      BY <1>5, <1>10, Zenon DEF Storing
    <2> QED
      BY <1>2, <1>4, <2>1, <2>2, WindowStays, Zenon
  <1>11. Room(p)'
    <2>1. CASE rest = <<>>
      <3>1. prod'[p].pc = "idle"
        BY <1>5, <2>1, AtRest, Zenon
      <3> QED
        BY <3>1, Zenon DEF Room
    <2>2. CASE rest # <<>>
      <3>1. prod'[p].pc = "alloc" /\ prod'[p].todo = rest
        BY <1>1, <1>5, <2>2, Zenon DEF PushType
      <3>2. ASSUME NEW a \in Nat, NEW b \in Nat, NEW l \in Nat, a - b + l <= Capacity
            PROVE  (a + 1) - b + (l - 1) <= Capacity
        BY <1>1, <3>2
      <3>3. (h + 1) - t + Len(rest) <= Capacity
        BY <1>1, <1>7, <1>8, <2>2, <3>2, Zenon
      <3>4. ring'[c].head - ring'[c].tail + Len(prod'[p].todo) <= Capacity
        BY <1>4, <3>1, <3>3, Zenon
      <3> QED
        BY <3>1, <3>4, Zenon DEF Room
    <2> QED
      BY <2>1, <2>2, Zenon
  <1>12. ASSUME NEW q \in Producers \ {p} PROVE Room(q)'
    <2>1. CpuOf[q] \in CPUs /\ Room(q) /\ prod'[q] = prod[q]
      BY <1>1, <1>5, Fields, Zenon DEF WInv
    <2>2. CASE CpuOf[q] = c
      BY <1>6, <2>1, <2>2, Zenon DEF Room
    <2>3. CASE CpuOf[q] # c
      BY <1>4, <2>1, <2>3, Zenon DEF Room
    <2> QED
      BY <2>2, <2>3, Zenon
  <1>13. Removing'
    <2>1. Removing /\ con.cpu \in CPUs /\ ring[con.cpu].head \in Nat
      BY <1>1, Fields, Zenon DEF WInv
    <2>2. ring'[con.cpu].tail = ring[con.cpu].tail
      BY <1>4, <2>1, Zenon
    <2>3. ring'[con.cpu].head \in Nat /\ ring'[con.cpu].head >= ring[con.cpu].head
      <3>1. ring'[con.cpu].head \in {ring[con.cpu].head, ring[con.cpu].head + 1}
        BY <1>4, <2>1, Zenon
      <3> QED
        BY <2>1, <3>1
    <2>4. con.pc = "tail" => slots'[con.cpu][con.tail % Capacity].commit = 0
      BY <1>2, <2>1, Zenon DEF Removing, SlotAt
    <2> QED
      BY <1>1, <1>2, <2>1, <2>2, <2>3, <2>4, RemovingStays, Zenon
  <1> QED
    BY <1>9, <1>10, <1>11, <1>12, <1>13, Zenon DEF WInv

-----------------------------------------------------------------------------
(* A step of the poll that moves no index: it commits nothing, and is left    *)
(* with its own place in order.                                               *)
LEMMA WindowPoll ==
  ASSUME IInv, WInv, UNCHANGED <<ring, prod>>, Removing',
         \A c \in CPUs : \A i \in 0 .. Capacity - 1 :
           slots'[c][i].commit # 0 => slots[c][i].commit # 0
  PROVE  WInv'
  <1>1. ASSUME NEW c \in CPUs PROVE Window(c)'
    <2>1. Window(c) /\ (Storing(c) => Storing(c)')
      BY Zenon DEF WInv, Storing
    <2> QED
      BY <2>1, WindowStays, Zenon
  <1>2. \A p \in Producers : Room(p)'
    BY Zenon DEF WInv, Room
  <1> QED
    BY <1>1, <1>2, Zenon DEF WInv

(* tail moves past a slot with no committed record, and the window with it.   *)
LEMMA WindowMoves ==
  ASSUME IInv, WInv, UNCHANGED prod, Removing', NEW c \in CPUs, TailMoved(c, ring[c].tail + 1),
         ring[c].tail < ring[c].head, slots'[c][ring[c].tail % Capacity].commit = 0,
         \A d \in CPUs : \A i \in 0 .. Capacity - 1 :
           slots'[d][i].commit # 0 => slots[d][i].commit # 0
  PROVE  WInv'
  <1> DEFINE h == ring[c].head
             t == ring[c].tail
  <1>1. /\ Typed /\ h \in Nat /\ t \in Nat /\ Window(c) /\ ring \in RingsType /\ Capacity \in Nat
    BY Fields, RingAssumption, Zenon DEF IInv, WInv, Typed
  <1>2. /\ ring'[c].head = h /\ ring'[c].tail = t + 1
        /\ \A d \in CPUs \ {c} : ring'[d] = ring[d]
    BY <1>1, Zenon DEF TailMoved, RingsType
  <1>3. \A d \in CPUs : Storing(d) => Storing(d)'
    BY Zenon DEF Storing
  <1>4. ASSUME NEW d \in CPUs \ {c} PROVE Window(d)'
    <2>1. Window(d)
      BY Zenon DEF WInv
    <2> QED
      BY <1>2, <1>3, <2>1, WindowStays, Zenon
  <1>5. Window(c)'
    <2>1. h - t <= Capacity
      BY <1>1, Zenon DEF Window
    <2> HIDE DEF h, t
    <2>2. t + 1 <= h /\ h - (t + 1) <= Capacity
      <3>1. t < h
        BY Zenon DEF h, t
      <3> QED
        BY <1>1, <2>1, <3>1
    <2>3. ASSUME NEW j \in 0 .. Capacity - 1, slots'[c][j].commit # 0
          PROVE  \E n \in t + 1 .. h : n % Capacity = j /\ (n = h => Storing(c)')
      <3>1. slots[c][j].commit # 0
        BY <2>3, Zenon
      <3>2. PICK n \in t .. h : n % Capacity = j /\ (n = h => Storing(c))
        BY <1>1, <3>1, Zenon DEF Window, h, t
      <3>3. n # t
        BY <2>3, <3>2, Zenon DEF t
      <3>4. n \in t + 1 .. h
        BY <1>1, <3>2, <3>3
      <3> QED
        BY <1>3, <3>2, <3>4, Zenon
    <2>4. ring'[c].tail <= ring'[c].head /\ ring'[c].head - ring'[c].tail <= Capacity
      BY <1>2, <2>2, Zenon
    <2>5. \A j \in 0 .. Capacity - 1 : slots'[c][j].commit # 0 =>
            \E n \in ring'[c].tail .. ring'[c].head :
              n % Capacity = j /\ (n = ring'[c].head => Storing(c)')
      BY <1>2, <2>3, Zenon
    <2> QED
      BY <2>4, <2>5, Zenon DEF Window
  <1>6. ASSUME NEW q \in Producers PROVE Room(q)'
    <2>1. CpuOf[q] \in CPUs /\ Room(q) /\ prod'[q] = prod[q]
      BY <1>1, Fields, Zenon DEF WInv
    <2>2. ring[CpuOf[q]].tail \in Nat /\ ring'[CpuOf[q]].head = ring[CpuOf[q]].head
      BY <1>1, <1>2, <2>1, Fields, Zenon
    <2>3. ring'[CpuOf[q]].tail \in {ring[CpuOf[q]].tail, ring[CpuOf[q]].tail + 1}
      BY <1>2, <2>1, Zenon
    <2>4. ring'[CpuOf[q]].tail \in Nat /\ ring'[CpuOf[q]].tail >= ring[CpuOf[q]].tail
      BY <2>2, <2>3
    <2> QED
      BY <1>1, <2>1, <2>2, <2>4, RoomStays, Zenon
  <1> QED
    BY <1>4, <1>5, <1>6, Zenon DEF WInv

(* The steps of a poll that write no slot and move no index. *)
LEMMA PollPlaces ==
  ASSUME IInv, WInv, \/ \E after \in Nat : PollBegin(after)
                     \/ PollLoad \/ PollCursor \/ PollScan \/ PollCopy \/ PollReturn
  PROVE  WInv'
  <1>0. Typed /\ Removing /\ con \in PollType /\ con.cpu \in CPUs
    BY Fields, Zenon DEF IInv, Typed, WInv
  <1>1. UNCHANGED <<ring, slots, prod>>
    BY Zenon DEF PollBegin, PollLoad, PollCursor, PollScan, PollCopy, PollReturn
  <1>2. ASSUME con'.pc \in {"idle", "load", "cursor", "scan", "return"} PROVE WInv'
    BY <1>1, <1>2, WindowPoll, Zenon DEF Removing
  <1>3. CASE (\E after \in Nat : PollBegin(after)) \/ PollCursor \/ PollReturn
    <2>1. con'.pc \in {"idle", "load", "scan"}
      BY <1>0, <1>3, AtRest, Zenon DEF PollBegin, PollCursor, PollReturn, PollType, IdlePoll
    <2> QED
      BY <1>2, <2>1, Zenon
  <1>4. CASE PollLoad
    <2>1. /\ con'.pc = "discard" /\ con'.tail = ring[con.cpu].tail /\ con'.cpu = con.cpu
          /\ con'.head = ring[con.cpu].head
      BY <1>0, <1>4, Zenon DEF PollLoad, PollType
    <2>2. ring[con.cpu].tail <= ring[con.cpu].head /\ ring[con.cpu].head \in Nat
      BY <1>0, Fields, Zenon DEF WInv, Window
    <2>3. ring[con.cpu].head <= ring[con.cpu].head
      BY <2>2
    <2>4. Removing'
      BY <1>1, <2>1, <2>2, <2>3, Zenon DEF Removing
    <2> QED
      BY <1>1, <2>4, WindowPoll, Zenon
  <1>5. CASE PollScan
    <2> DEFINE tail == ring[con.cpu].tail
    <2>1. CASE tail < ring[con.cpu].head /\ con' = [con EXCEPT !.pc = "copy", !.tail = tail]
      <3>1. con'.pc = "copy" /\ con'.tail = tail /\ con'.cpu = con.cpu
        BY <1>0, <2>1, Zenon DEF PollType
      <3>2. Removing'
        BY <1>1, <2>1, <3>1, Zenon DEF Removing
      <3> QED
        BY <1>1, <3>2, WindowPoll, Zenon
    <2>2. CASE con' = IdlePoll
      BY <1>2, <2>2, AtRest, Zenon
    <2>3. CASE con' = NextCpu("scan", "idle")
      <3>1. con'.pc \in {"scan", "idle"}
        BY <1>0, <2>3, NextCpuTyped, Zenon
      <3> QED
        BY <1>2, <3>1, Zenon
    <2> QED
      BY <1>5, <2>1, <2>2, <2>3, Zenon DEF PollScan
  <1>6. CASE PollCopy
    <2>1. con.pc = "copy" /\ con'.pc = "clear" /\ con'.tail = con.tail /\ con'.cpu = con.cpu
      BY <1>0, <1>6, Zenon DEF PollCopy, PollType
    <2>2. Removing'
      BY <1>0, <1>1, <2>1, Zenon DEF Removing
    <2> QED
      BY <1>1, <2>2, WindowPoll, Zenon
  <1> QED
    BY <1>3, <1>4, <1>5, <1>6, Zenon

(* A cleared slot holds no committed record, and no other slot gets one.      *)
LEMMA ClearedFree ==
  ASSUME Typed, NEW c \in CPUs, NEW i \in 0 .. Capacity - 1, Cleared(c, i)
  PROVE  /\ slots'[c][i].commit = 0
         /\ \A d \in CPUs : \A j \in 0 .. Capacity - 1 :
              slots'[d][j].commit # 0 => slots[d][j].commit # 0
  <1>1. slots[c][i] \in Slot
    BY SlotTyped, Zenon
  <1>2. slots'[c][i] = [slots[c][i] EXCEPT !.commit = 0]
    BY Zenon DEF Typed, SlotsType, Cleared
  <1>3. slots'[c][i].commit = 0
    BY <1>1, <1>2, Zenon DEF Slot
  <1>4. ASSUME NEW d \in CPUs, NEW j \in 0 .. Capacity - 1, ~(d = c /\ j = i)
        PROVE  slots'[d][j] = slots[d][j]
    BY <1>4, Zenon DEF Typed, SlotsType, Cleared
  <1> QED
    BY <1>3, <1>4, Zenon

(* A record is discarded, ... *)
LEMMA PollDiscardWindow ==
  ASSUME IInv, WInv, PollDiscard PROVE WInv'
  <1> DEFINE c == con.cpu
  <1>0. /\ Typed /\ Removing /\ con \in PollType /\ c \in CPUs /\ con.tail \in Nat
        /\ con.head \in Nat /\ con.tail % Capacity \in 0 .. Capacity - 1 /\ ring \in RingsType
        /\ ring[c].head \in Nat
    BY Fields, SlotIndex, Zenon DEF IInv, Typed, WInv
  <1>1. con.pc = "discard" /\ UNCHANGED prod
    BY Zenon DEF PollDiscard
  <1>2. con.tail = ring[c].tail /\ con.head <= ring[c].head
    BY <1>0, <1>1, Zenon DEF Removing
  <1>3. CASE /\ con.tail < con.head
             /\ slots' = [slots EXCEPT ![con.cpu][con.tail % Capacity].commit = 0]
             /\ ring' = [ring EXCEPT ![con.cpu].tail = con.tail + 1]
             /\ con' = [con EXCEPT !.tail = @ + 1]
    <2>1. con'.pc = "discard" /\ con'.tail = con.tail + 1 /\ con'.head = con.head /\ con'.cpu = c
      BY <1>0, <1>1, <1>3, Zenon DEF PollType
    <2>2. ring'[c].tail = con.tail + 1 /\ ring'[c].head = ring[c].head
      BY <1>0, <1>3, Zenon DEF RingsType
    <2>3. con.tail + 1 <= con.head /\ con.tail < ring[c].head
      <3>1. ASSUME NEW a \in Nat, NEW b \in Nat, NEW x \in Nat, a < b, b <= x
            PROVE  a + 1 <= b /\ a < x
        BY <3>1
      <3> QED
        BY <1>0, <1>2, <1>3, <3>1, Zenon
    <2>4. Removing'
      BY <1>2, <2>1, <2>2, <2>3, Zenon DEF Removing
    <2>5. /\ slots'[c][con.tail % Capacity].commit = 0
          /\ \A d \in CPUs : \A j \in 0 .. Capacity - 1 :
               slots'[d][j].commit # 0 => slots[d][j].commit # 0
      <3>1. Cleared(c, con.tail % Capacity)
        BY <1>3, Zenon DEF Cleared
      <3> QED
        BY <1>0, <3>1, ClearedFree, Zenon
    <2>6. TailMoved(c, ring[c].tail + 1)
      BY <1>2, <1>3, Zenon DEF TailMoved
    <2> QED
      BY <1>0, <1>1, <1>2, <2>3, <2>4, <2>5, <2>6, WindowMoves, Zenon
  <1>4. CASE con' = NextCpu("load", "cursor") /\ UNCHANGED <<slots, ring>>
    <2>1. con'.pc \in {"load", "cursor"}
      BY <1>0, <1>4, NextCpuTyped, Zenon
    <2>2. Removing'
      BY <2>1, Zenon DEF Removing
    <2> QED
      BY <1>1, <1>4, <2>2, WindowPoll, Zenon
  <1> QED
    BY <1>3, <1>4, Zenon DEF PollDiscard

(* ... or cleared once it has been copied, ... *)
LEMMA PollClearWindow ==
  ASSUME IInv, WInv, PollClear PROVE WInv'
  <1> DEFINE i == con.tail % Capacity
  <1>0. /\ Typed /\ Removing /\ con \in PollType /\ con.cpu \in CPUs /\ i \in 0 .. Capacity - 1
    BY Fields, SlotIndex, Zenon DEF IInv, Typed, WInv
  <1>1. con.pc = "clear" /\ UNCHANGED <<ring, prod>>
    BY Zenon DEF PollClear
  <1>2. con' = [con EXCEPT !.pc = "tail"] /\ Cleared(con.cpu, i)
    <2>1. slots[con.cpu][i].commit = con.after + 1
      BY <1>1, Zenon DEF IInv, Reading, SlotAt
    <2> QED
      BY <2>1, Zenon DEF PollClear, SlotAt, Cleared
  <1>3. con'.pc = "tail" /\ con'.cpu = con.cpu /\ con'.tail = con.tail
    BY <1>0, <1>2, Zenon DEF PollType
  <1>4. /\ slots'[con.cpu][i].commit = 0
        /\ \A d \in CPUs : \A j \in 0 .. Capacity - 1 :
             slots'[d][j].commit # 0 => slots[d][j].commit # 0
    BY <1>0, <1>2, ClearedFree, Zenon
  <1>5. Removing'
    BY <1>0, <1>1, <1>3, <1>4, Zenon DEF Removing, SlotAt
  <1> QED
    BY <1>1, <1>4, <1>5, WindowPoll, Zenon

(* ... and tail is stored. *)
LEMMA PollTailWindow ==
  ASSUME IInv, WInv, PollTail PROVE WInv'
  <1> DEFINE c == con.cpu
  <1>0. /\ Typed /\ Removing /\ con \in PollType /\ c \in CPUs
    BY Fields, Zenon DEF IInv, Typed, WInv
  <1>1. /\ con.pc = "tail" /\ UNCHANGED <<slots, prod>> /\ con' = [con EXCEPT !.pc = "return"]
        /\ ring' = [ring EXCEPT ![c].tail = con.tail + 1]
    BY Zenon DEF PollTail
  <1>2. con.tail = ring[c].tail /\ con.tail < ring[c].head /\ slots[c][con.tail % Capacity].commit = 0
    BY <1>0, <1>1, Zenon DEF Removing, SlotAt
  <1>3. con'.pc = "return"
    BY <1>0, <1>1, Zenon DEF PollType
  <1>4. Removing'
    BY <1>3, Zenon DEF Removing
  <1>5. TailMoved(c, ring[c].tail + 1)
    BY <1>1, <1>2, Zenon DEF TailMoved
  <1>6. /\ slots'[c][ring[c].tail % Capacity].commit = 0
        /\ \A d \in CPUs : \A j \in 0 .. Capacity - 1 :
             slots'[d][j].commit # 0 => slots[d][j].commit # 0
    BY <1>1, <1>2, Zenon
  <1> QED
    BY <1>0, <1>1, <1>2, <1>4, <1>5, <1>6, WindowMoves, Zenon

-----------------------------------------------------------------------------
(* Empty rings have an empty window, ... *)
LEMMA EmptyWindow ==
  ASSUME ring = EmptyRing, slots = EmptySlots, NEW c \in CPUs PROVE Window(c)
  <1>1. ring[c].head = 0 /\ ring[c].tail = 0
    BY Zenon DEF EmptyRing
  <1>2. \A i \in 0 .. Capacity - 1 : slots[c][i].commit = 0
    BY NothingCommitted, Zenon
  <1>3. 0 <= 0 /\ 0 - 0 <= Capacity
    BY RingAssumption
  <1> QED
    BY <1>1, <1>2, <1>3, Zenon DEF Window

(* ... at the start and after a reset, ... *)
LEMMA InitWindow == Init => WInv
  <1> SUFFICES ASSUME Init PROVE WInv
    OBVIOUS
  <1>1. \A c \in CPUs : Window(c)
    BY EmptyWindow, Zenon DEF Init
  <1>2. \A p \in Producers : prod[p].pc = "idle"
    BY AtRest, Zenon DEF Init
  <1>3. \A p \in Producers : Room(p)
    BY <1>2, Zenon DEF Room
  <1>4. con.pc = "idle"
    BY AtRest, Zenon DEF Init
  <1>5. Removing
    BY <1>4, Zenon DEF Removing
  <1> QED
    BY <1>1, <1>3, <1>5, Zenon DEF WInv

(* ... and every step keeps it. *)
LEMMA NextWindow ==
  ASSUME Handlers = Producers, IInv, WInv, [Next]_rvars PROVE WInv'
  <1>1. CASE \E p \in Producers : Push(p)
    BY <1>1, PushBeginWindow, PublishAllocWindow, PublishFillWindow, PublishCommitWindow,
       PublishAdvanceWindow, Zenon DEF Push
  <1>2. CASE \E after \in 0 .. next_sequence + 1 : PollBegin(after)
    <2>1. \A n \in 0 .. next_sequence + 1 : n \in Nat
      BY DEF IInv, Typed
    <2> QED
      BY <1>2, <2>1, PollPlaces, Zenon
  <1>3. CASE PollStep
    BY <1>3, PollPlaces, PollDiscardWindow, PollClearWindow, PollTailWindow, Zenon DEF PollStep
  <1>4. CASE Quiet /\ RingInit
    <2>1. ring' = EmptyRing /\ slots' = EmptySlots /\ prod' = prod /\ con' = con
      BY <1>4, Zenon DEF RingInit
    <2>2. ASSUME NEW c \in CPUs PROVE Window(c)'
      <3>1. ring'[c].head = 0 /\ ring'[c].tail = 0
        BY <2>1, Zenon DEF EmptyRing
      <3>2. \A i \in 0 .. Capacity - 1 : slots'[c][i].commit = 0
        BY <2>1, NothingCommitted, Zenon
      <3>3. 0 <= 0 /\ 0 - 0 <= Capacity
        BY RingAssumption
      <3> QED
        BY <3>1, <3>2, <3>3, Zenon DEF Window
    <2>3. \A p \in Producers : Room(p)'
      BY <1>4, <2>1, Zenon DEF Quiet, Room
    <2>4. Removing'
      BY <1>4, <2>1, Zenon DEF Quiet, Removing
    <2> QED
      BY <2>2, <2>3, <2>4, Zenon DEF WInv
  <1>5. CASE UNCHANGED rvars
    BY <1>5, Zenon DEF rvars, WInv, Window, Storing, Room, Removing, SlotAt
  <1> QED
    BY <1>1, <1>2, <1>3, <1>4, <1>5, Zenon DEF Next

-----------------------------------------------------------------------------
(* Sums. *)
INSTANCE WellFoundedInduction

(* A nonempty set of numbers has a least one. *)
LEMMA Least ==
  ASSUME NEW T, T \subseteq Nat, T # {} PROVE \E x \in T : \A y \in T : x <= y
  <1> DEFINE R == {ss \in Nat \X Nat : ss[1] < ss[2]}
  <1>1. IsWellFoundedOn(R, Nat)
    BY NatLessThanWellFounded, Zenon DEF OpToRel
  <1> HIDE DEF R
  <1>2. PICK x \in T : \A y \in T : ~ (<<y, x>> \in R)
    BY <1>1, WFMin, Zenon
  <1>3. \A y \in T : ~ (y < x)
    BY <1>2, Zenon DEF R
  <1> QED
    BY <1>3

(* The partial sums of f up to n. *)
Sums(u, f, n) == u = [i \in 0 .. n |-> IF i = 0 THEN 0 ELSE u[i - 1] + f[i]]

(* Each adds the next value, ... *)
LEMMA SumsAt ==
  ASSUME NEW f, NEW n \in Nat, NEW u, Sums(u, f, n)
  PROVE  u[0] = 0 /\ \A i \in 0 .. n : i # 0 => i - 1 \in 0 .. n /\ u[i] = u[i - 1] + f[i]
  <1>1. 0 \in 0 .. n /\ \A i \in 0 .. n : i # 0 => i - 1 \in 0 .. n
    OBVIOUS
  <1> QED
    BY <1>1, Zenon DEF Sums

(* They exist, ... *)
LEMMA SumsExist ==
  ASSUME NEW f, NEW n \in Nat PROVE \E u : Sums(u, f, n)
  <1> DEFINE T == {m \in Nat : ~ \E u : Sums(u, f, m)}
  <1>1. SUFFICES ASSUME T # {} PROVE FALSE
    OBVIOUS
  <1>2. PICK m \in T : \A k \in T : m <= k
    BY <1>1, Least, Zenon
  <1>3. CASE m = 0
    <2> DEFINE u == [i \in 0 .. 0 |-> 0]
    <2>1. \A i \in 0 .. 0 : i = 0
      OBVIOUS
    <2>2. [i \in 0 .. 0 |-> IF i = 0 THEN 0 ELSE u[i - 1] + f[i]] = [i \in 0 .. 0 |-> 0]
      BY <2>1, Zenon
    <2> QED
      BY <1>3, <2>2, Zenon DEF Sums
  <1>4. CASE m # 0
    <2>1. m - 1 \in Nat /\ ~ (m <= m - 1) /\ m \in Nat
      BY <1>4
    <2>2. PICK v : Sums(v, f, m - 1)
      BY <1>2, <2>1, Zenon
    <2> DEFINE u == [i \in 0 .. m |-> IF i = m THEN v[m - 1] + f[m] ELSE v[i]]
    <2>3. /\ \A i \in 0 .. m : i # m => i \in 0 .. m - 1
          /\ \A i \in 0 .. m : i # 0 => i - 1 \in 0 .. m /\ i - 1 # m
          /\ m - 1 \in 0 .. m
      BY <2>1
    <2>4. \A i \in 0 .. m : i # m => v[i] = IF i = 0 THEN 0 ELSE v[i - 1] + f[i]
      BY <2>2, <2>3, Zenon DEF Sums
    <2>5. ASSUME NEW i \in 0 .. m PROVE u[i] = IF i = 0 THEN 0 ELSE u[i - 1] + f[i]
      BY <1>4, <2>3, <2>4, Zenon
    <2>6. u = [i \in 0 .. m |-> IF i = 0 THEN 0 ELSE u[i - 1] + f[i]]
      <3>1. u = [i \in 0 .. m |-> u[i]]
        BY Zenon
      <3> HIDE DEF u
      <3> QED
        BY <2>5, <3>1, Zenon
    <2> QED
      BY <1>2, <2>6, Zenon DEF Sums
  <1> QED
    BY <1>3, <1>4, Zenon

Agree(u, v, f, g, m) ==
    \A k \in 0 .. m : (\A i \in 1 .. k : f[i] = g[i]) => u[k] = v[k]

(* ... and depend on nothing but the values they add. *)
LEMMA SumsAgree ==
  ASSUME NEW f, NEW g, NEW n \in Nat, NEW m \in Nat, m <= n,
         NEW u, NEW v, Sums(u, f, n), Sums(v, g, m)
  PROVE  Agree(u, v, f, g, m)
  <1> SUFFICES ASSUME NEW k \in 0 .. m, \A i \in 1 .. k : f[i] = g[i] PROVE u[k] = v[k]
    BY Zenon DEF Agree
  <1> DEFINE T == {j \in 0 .. k : u[j] # v[j]}
  <1>1. SUFFICES ASSUME T # {} PROVE FALSE
    <2>1. k \in 0 .. k
      OBVIOUS
    <2> QED
      BY <1>1, <2>1, Zenon
  <1>2. T \subseteq Nat
    OBVIOUS
  <1>3. PICK j \in T : \A i \in T : j <= i
    BY <1>1, <1>2, Least, Zenon
  <1>4. j # 0
    <2>1. u[0] = 0
      BY SumsAt, SMT
    <2>2. v[0] = 0
      BY SumsAt, SMT
    <2> QED
      BY <1>3, <2>1, <2>2, Zenon
  <1>5. j \in 1 .. k /\ j \in 0 .. n /\ j \in 0 .. m /\ j - 1 \in 0 .. k /\ ~ (j <= j - 1)
    BY <1>4
  <1>6. u[j - 1] = v[j - 1] /\ f[j] = g[j]
    BY <1>3, <1>5, Zenon
  <1>7. u[j] = u[j - 1] + f[j] /\ v[j] = v[j - 1] + g[j]
    BY <1>4, <1>5, SumsAt, SMT
  <1> QED
    BY <1>3, <1>6, <1>7, Zenon

(* The total is the last of them, ... *)
LEMMA TotalIs ==
  ASSUME NEW f, NEW n \in Nat, NEW u, Sums(u, f, n) PROVE Total(f, n) = u[n]
  <1> DEFINE v == CHOOSE w : w = [i \in 0 .. n |-> IF i = 0 THEN 0 ELSE w[i - 1] + f[i]]
  <1>1. Sums(v, f, n)
    BY SumsExist, Zenon DEF Sums
  <1>2. Total(f, n) = v[n]
    BY Zenon DEF Total
  <1>3. n <= n
    OBVIOUS
  <1> HIDE DEF v
  <1>4. Agree(u, v, f, f, n) /\ n \in 0 .. n
    BY <1>1, <1>3, SumsAgree
  <1> QED
    BY <1>2, <1>4, Zenon DEF Agree

(* ... depends on the first n values only, ... *)
LEMMA TotalSame ==
  ASSUME NEW f, NEW g, NEW n \in Nat, \A i \in 1 .. n : f[i] = g[i] PROVE Total(f, n) = Total(g, n)
  <1>1. PICK u : Sums(u, f, n)
    BY SumsExist, Zenon
  <1>2. PICK v : Sums(v, g, n)
    BY SumsExist, Zenon
  <1>3. n <= n
    OBVIOUS
  <1>4. u[n] = v[n]
    <2>1. Agree(u, v, f, g, n) /\ n \in 0 .. n
      BY <1>1, <1>2, <1>3, SumsAgree
    <2> QED
      BY <2>1, Zenon DEF Agree
  <1> QED
    BY <1>1, <1>2, <1>4, TotalIs, SMT

(* ... is 0 for none, ... *)
LEMMA TotalNone ==
  ASSUME NEW f PROVE Total(f, 0) = 0
  <1>1. 0 \in Nat
    OBVIOUS
  <1>2. PICK u : Sums(u, f, 0)
    BY <1>1, SumsExist, Zenon
  <1> QED
    BY <1>1, <1>2, SumsAt, TotalIs, SMT

(* ... grows by the next one, ... *)
LEMMA TotalMore ==
  ASSUME NEW f, NEW n \in Nat PROVE Total(f, n + 1) = Total(f, n) + f[n + 1]
  <1>1. PICK u : Sums(u, f, n + 1)
    BY SumsExist
  <1>2. PICK v : Sums(v, f, n)
    BY SumsExist, Zenon
  <1>3. n + 1 \in Nat /\ n <= n + 1 /\ n <= n /\ n + 1 \in 0 .. n + 1 /\ n + 1 # 0 /\ (n + 1) - 1 = n
    OBVIOUS
  <1>4. u[n + 1] = u[n] + f[n + 1]
    BY <1>1, <1>3, SumsAt, SMT
  <1>5. u[n] = v[n]
    <2>1. Agree(u, v, f, f, n) /\ n \in 0 .. n
      BY <1>1, <1>2, <1>3, SumsAgree
    <2> QED
      BY <2>1, Zenon DEF Agree
  <1> QED
    BY <1>1, <1>2, <1>3, <1>4, <1>5, TotalIs, Zenon

(* ... and is as large as any of them. *)
LEMMA TotalBounds ==
  ASSUME NEW f, NEW n \in Nat, \A i \in 1 .. n : f[i] \in Nat
  PROVE  Total(f, n) \in Nat /\ \A i \in 1 .. n : f[i] <= Total(f, n)
  <1> DEFINE Ok(j) == Total(f, j) \in Nat /\ \A i \in 1 .. j : f[i] <= Total(f, j)
             T == {j \in 0 .. n : ~Ok(j)}
  <1>1. SUFFICES ASSUME T # {} PROVE FALSE
    <2>1. n \in 0 .. n
      OBVIOUS
    <2> QED
      BY <1>1, <2>1, Zenon
  <1>2. T \subseteq Nat
    OBVIOUS
  <1>3. PICK j \in T : \A i \in T : j <= i
    BY <1>1, <1>2, Least, Zenon
  <1>4. j # 0
    <2>1. 0 \in Nat /\ \A i \in 1 .. 0 : FALSE
      OBVIOUS
    <2> QED
      BY <1>3, <2>1, TotalNone, Zenon
  <1>5. /\ j \in 1 .. n /\ j - 1 \in 0 .. n /\ ~ (j <= j - 1) /\ j - 1 \in Nat /\ (j - 1) + 1 = j
        /\ \A i \in 1 .. j : i \in 1 .. n /\ (i # j => i \in 1 .. j - 1)
    BY <1>4
  <1>6. Ok(j - 1)
    BY <1>3, <1>5, Zenon
  <1>7. Total(f, j) = Total(f, j - 1) + f[j]
    BY <1>5, TotalMore, Zenon
  <1>8. ASSUME NEW a \in Nat, NEW b \in Nat PROVE a + b \in Nat /\ a <= a + b /\ b <= a + b
    BY <1>8
  <1>9. ASSUME NEW a \in Nat, NEW b \in Nat, NEW c \in Nat, c <= a PROVE c <= a + b
    BY <1>9
  <1>10. Total(f, j - 1) \in Nat /\ f[j] \in Nat
    BY <1>5, <1>6, Zenon
  <1>11. Total(f, j) \in Nat /\ f[j] <= Total(f, j)
    BY <1>7, <1>8, <1>10, Zenon
  <1>12. ASSUME NEW i \in 1 .. j, i # j PROVE f[i] <= Total(f, j)
    BY <1>5, <1>6, <1>7, <1>9, <1>10, <1>12, Zenon
  <1> QED
    BY <1>3, <1>11, <1>12, Zenon

(* A value more. *)
LEMMA TotalAppend ==
  ASSUME NEW f, NEW g, NEW n \in Nat, \A i \in 1 .. n : g[i] = f[i]
  PROVE  Total(g, n + 1) = Total(f, n) + g[n + 1]
  BY TotalMore, TotalSame, Zenon

-----------------------------------------------------------------------------
(* The events of a CPU in the log are a number, ...                           *)
LEMMA RecordedNat ==
  ASSUME Typed, NEW c PROVE Recorded(c) \in Nat
  <1> DEFINE f == [i \in DOMAIN log |-> IF log[i].cpu = c /\ log[i].loss = 0 THEN 1 ELSE 0]
  <1>1. /\ DOMAIN log = 1 .. Len(log) /\ Len(log) \in Nat
        /\ \A i \in 1 .. Len(log) : log[i] \in Record
    BY DEF Typed
  <1>2. 0 \in Nat /\ 1 \in Nat /\ \A r \in Record : r.loss \in Nat
    BY DEF Record
  <1>3. \A i \in 1 .. Len(log) : f[i] \in Nat
    BY <1>1, <1>2, Zenon
  <1> HIDE DEF f
  <1>4. Total(f, Len(log)) \in Nat
    BY <1>1, <1>3, TotalBounds, Zenon
  <1> QED
    BY <1>4, Zenon DEF Recorded, f

(* ... one more for an appended event of that CPU, and the same otherwise.    *)
LEMMA RecordedGrows ==
  ASSUME Typed, NEW c, NEW r \in Record, log' = Append(log, r)
  PROVE  /\ r.cpu = c /\ r.loss = 0 => Recorded(c)' = Recorded(c) + 1
         /\ ~(r.cpu = c /\ r.loss = 0) => Recorded(c)' = Recorded(c)
  <1> DEFINE f == [i \in DOMAIN log |-> IF log[i].cpu = c /\ log[i].loss = 0 THEN 1 ELSE 0]
             g == [i \in DOMAIN log' |-> IF log'[i].cpu = c /\ log'[i].loss = 0 THEN 1 ELSE 0]
             n == Len(log)
  <1>1. log \in Seq(Record) /\ n \in Nat
    BY DEF Typed
  <1>2. DOMAIN log = 1 .. n /\ DOMAIN log' = 1 .. n + 1 /\ Len(log') = n + 1
    BY <1>1
  <1>3. log'[n + 1] = r /\ \A i \in 1 .. n : log'[i] = log[i]
    BY <1>1, Appended
  <1>4. n + 1 \in 1 .. n + 1 /\ \A i \in 1 .. n : i \in 1 .. n + 1
    BY <1>1
  <1>5. /\ \A i \in 1 .. n : g[i] = f[i]
        /\ g[n + 1] = IF r.cpu = c /\ r.loss = 0 THEN 1 ELSE 0
    BY <1>2, <1>3, <1>4, Zenon
  <1>6. Recorded(c) = Total(f, n) /\ Recorded(c)' = Total(g, n + 1)
    BY <1>2, Zenon DEF Recorded
  <1>7. Total(f, n) \in Nat
    BY <1>6, RecordedNat, Zenon
  <1> HIDE DEF f, g, n
  <1>8. Total(g, n + 1) = Total(f, n) + g[n + 1]
    BY <1>1, <1>5, TotalAppend, Zenon
  <1>9. ASSUME NEW k \in Nat PROVE k + 0 = k
    BY <1>9
  <1> QED
    BY <1>5, <1>6, <1>7, <1>8, <1>9, Zenon

(* The account of a CPU that nothing touches stays. *)
LEMMA CountedStays ==
  ASSUME NEW c \in CPUs, Counted(c), pushes'[c] = pushes[c], ring'[c].lost = ring[c].lost,
         Recorded(c)' = Recorded(c), Pending(c)' <=> Pending(c)
  PROVE  Counted(c)'
  <1> DEFINE S == Recorded(c)
  <1>1. S' = S
    BY Zenon
  <1>2. pushes[c] = S + ring[c].lost + (IF Pending(c) THEN 1 ELSE 0)
    BY Zenon DEF Counted
  <1> HIDE DEF S
  <1>3. pushes'[c] = S' + ring'[c].lost + (IF Pending(c)' THEN 1 ELSE 0)
    BY <1>1, <1>2, Zenon
  <1> QED
    BY <1>3, Zenon DEF Counted, S

(* Whether an event is owed is a matter of the one push of the CPU. *)
LEMMA PendingOwn ==
  ASSUME Typed, Handlers = Producers, NEW p \in Producers, Running(p),
         NEW push, prod' = [prod EXCEPT ![p] = push]
  PROVE  /\ Pending(CpuOf[p]) <=> Owes(prod[p])
         /\ Pending(CpuOf[p])' <=> Owes(push)
         /\ \A d \in CPUs \ {CpuOf[p]} : Pending(d)' <=> Pending(d)
  <1>1. prod'[p] = push /\ \A q \in Producers \ {p} : prod'[q] = prod[q]
    BY Zenon DEF Typed
  <1>2. \A q \in Producers \ {p} : CpuOf[q] = CpuOf[p] => prod[q].pc = "idle"
    BY Zenon DEF Running
  <1>3. \A q \in Producers \ {p} : CpuOf[q] = CpuOf[p] => ~Owes(prod[q]) /\ ~Owes(prod'[q])
    BY <1>1, <1>2, Zenon DEF Owes
  <1> QED
    BY <1>1, <1>3, Zenon DEF Pending

(* A step of one push settles its own CPU's account; the others' stay.        *)
LEMMA AccountPush ==
  ASSUME IInv, AInv, Handlers = Producers, NEW p \in Producers, Running(p),
         NEW push, prod' = [prod EXCEPT ![p] = push], Ordered(p)', Counted(CpuOf[p])',
         \A d \in CPUs \ {CpuOf[p]} : /\ pushes'[d] = pushes[d] /\ ring'[d].lost = ring[d].lost
                                      /\ Recorded(d)' = Recorded(d)
  PROVE  AInv'
  <1>1. Typed
    BY Zenon DEF IInv
  <1>2. \A q \in Producers \ {p} : prod'[q] = prod[q]
    BY <1>1, Zenon DEF Typed
  <1>3. ASSUME NEW q \in Producers \ {p} PROVE Ordered(q)'
    BY <1>2, <1>3, ZenonT(60) DEF AInv, Ordered
  <1>4. ASSUME NEW d \in CPUs \ {CpuOf[p]} PROVE Counted(d)'
    <2>1. Pending(d)' <=> Pending(d)
      BY <1>1, PendingOwn, Zenon
    <2>2. Counted(d)
      BY Zenon DEF AInv
    <2> QED
      BY <2>1, <2>2, CountedStays, Zenon
  <1> QED
    BY <1>3, <1>4, Zenon DEF AInv

(* A call of push is counted, and lost or owed. *)
LEMMA PushBeginAccount ==
  ASSUME IInv, AInv, Handlers = Producers, NEW p \in Producers, PushBegin(p) PROVE AInv'
  <1> DEFINE c == CpuOf[p]
             event == [cpu |-> c, n |-> pushes[c] + 1, loss |-> 0]
             report == [cpu |-> c, n |-> 0, loss |-> ring[c].loss_pending]
             K == Recorded(c)
  <1>1. /\ Typed /\ c \in CPUs /\ ring \in RingsType /\ prod \in [Producers -> PushType]
        /\ pushes \in [CPUs -> Nat] /\ ring[c].lost \in Nat /\ K \in Nat
    BY Fields, RecordedNat, Zenon DEF IInv, Typed
  <1>2. /\ Running(p) /\ prod[p].pc = "idle" /\ log' = log
        /\ pushes' = [pushes EXCEPT ![c] = @ + 1]
    BY Zenon DEF PushBegin
  <1>3. \A d \in CPUs : Recorded(d)' = Recorded(d)
    BY <1>2, Zenon DEF Recorded
  <1>4. pushes'[c] = pushes[c] + 1 /\ \A d \in CPUs \ {c} : pushes'[d] = pushes[d]
    BY <1>1, <1>2, Zenon
  <1>5. ~Owes(prod[p])
    BY <1>2, Zenon DEF Owes
  <1>6. pushes[c] = K + ring[c].lost + 0
    <2>1. ~Pending(c)
      <3>1. prod[p].pc = "idle" /\ \A q \in Producers \ {p} : CpuOf[q] = c => prod[q].pc = "idle"
        BY <1>2, Zenon DEF Running
      <3> QED
        BY <3>1, Zenon DEF Pending, Owes
    <2>2. Counted(c)
      BY <1>1, Zenon DEF AInv
    <2> HIDE DEF c
    <2> QED
      BY <2>1, <2>2, Zenon DEF Counted
  <1>7. CASE CountLoss(c) /\ UNCHANGED prod
    <2>1. prod' = [prod EXCEPT ![p] = prod[p]]
      BY <1>1, <1>7, Zenon
    <2>2. ring'[c].lost = ring[c].lost + 1 /\ \A d \in CPUs \ {c} : ring'[d].lost = ring[d].lost
      BY <1>1, <1>7, Zenon DEF CountLoss, RingsType
    <2>3. ~Pending(c)'
      BY <1>1, <1>2, <1>5, <2>1, PendingOwn, ZenonT(60)
    <2>4. pushes'[c] = K + ring'[c].lost + 0
      <3> HIDE DEF K
      <3> QED
        BY <1>1, <1>4, <1>6, <2>2
    <2>5. Counted(c)'
      BY <1>1, <1>3, <2>3, <2>4, Zenon DEF Counted
    <2>6. Ordered(p)'
      BY <1>2, <1>7, Zenon DEF Ordered
    <2> QED
      BY <1>2, <1>3, <1>4, <2>1, <2>2, <2>5, <2>6, AccountPush, ZenonT(60)
  <1>8. ASSUME NEW todo, UNCHANGED ring, prod' = [prod EXCEPT ![p].pc = "alloc", ![p].todo = todo],
               \/ todo = <<event>>
               \/ todo = <<report, event>> /\ ring[c].loss_pending # 0
        PROVE  AInv'
    <2> DEFINE push == [prod[p] EXCEPT !.pc = "alloc", !.todo = todo]
    <2>1. prod' = [prod EXCEPT ![p] = push]
      BY <1>1, <1>8, Zenon
    <2>2. push.pc = "alloc" /\ push.todo = todo
      BY <1>1, Zenon DEF PushType
    <2> HIDE DEF push
    <2>3. prod'[p] = push
      BY <1>1, <2>1, Zenon
    <2>4. Owes(push)
      BY <2>2, Zenon DEF Owes
    <2>5. Pending(c)'
      BY <1>1, <1>2, <2>1, <2>4, PendingOwn, ZenonT(60)
    <2>6. pushes'[c] = K + ring'[c].lost + 1
      <3> HIDE DEF K
      <3> QED
        BY <1>1, <1>4, <1>6, <1>8
    <2>7. Counted(c)'
      BY <1>1, <1>3, <2>5, <2>6, Zenon DEF Counted
    <2>8. Ordered(p)'
      <3>1. event.cpu = c /\ event.loss = 0 /\ report.loss = ring[c].loss_pending
        OBVIOUS
      <3> HIDE DEF event, report
      <3>2. CASE todo = <<event>>
        <4>1. Len(todo) \in {1, 2} /\ Len(todo) # 2 /\ todo[Len(todo)] = event
          BY <3>2
        <4> QED
          BY <2>2, <2>3, <3>1, <4>1, Zenon DEF Ordered
      <3>3. CASE todo = <<report, event>> /\ ring[c].loss_pending # 0
        <4>1. Len(todo) \in {1, 2} /\ todo[Len(todo)] = event /\ todo[1] = report
          BY <3>3, Zenon
        <4> QED
          <5>1. todo[Len(todo)].cpu = c /\ todo[Len(todo)].loss = 0 /\ todo[1].loss # 0
            BY <3>1, <3>3, <4>1, Zenon
          <5> QED
            BY <2>2, <2>3, <4>1, <5>1, Zenon DEF Ordered
      <3> QED
        BY <1>8, <3>2, <3>3, Zenon
    <2> QED
      BY <1>2, <1>3, <1>4, <1>8, <2>1, <2>7, <2>8, AccountPush, ZenonT(60)
  <1>9. \/ CountLoss(c) /\ UNCHANGED prod
        \/ \E todo : /\ UNCHANGED ring
                     /\ prod' = [prod EXCEPT ![p].pc = "alloc", ![p].todo = todo]
                     /\ \/ todo = <<event>>
                        \/ todo = <<report, event>> /\ ring[c].loss_pending # 0
    BY Zenon DEF PushBegin
  <1> QED
    BY <1>7, <1>8, <1>9, Zenon

(* spz_publish takes a number: it finds the room that push had seen.           *)
LEMMA NumberTaken ==
  ASSUME IInv, WInv, NEW p \in Producers, PublishAlloc(p)
  PROVE  /\ log' = Append(log, Head(prod[p].todo)) /\ ring' = ring
         /\ prod' = [prod EXCEPT ![p].pc = "fill", ![p].head = ring[CpuOf[p]].head,
                                 ![p].seq = next_sequence + 1]
  <1> DEFINE c == CpuOf[p]
  <1>1. Typed /\ c \in CPUs /\ prod[p].pc = "alloc"
    BY Fields, Zenon DEF IInv, PublishAlloc
  <1>2. Used(c) < Capacity /\ SlotAt(c, ring[c].head).commit = 0
    BY <1>1, FreshSlot, Zenon
  <1>3. Used(c) \in 0 .. Capacity /\ Capacity \in Nat
    BY <1>1, UsedExact, RingAssumption, Zenon DEF WInv
  <1>4. ~(Used(c) >= Capacity)
    BY <1>2, <1>3
  <1> QED
    BY <1>2, <1>4, Zenon DEF PublishAlloc

(* The event is owed no more once it has its number; a report is no event.    *)
LEMMA PublishAllocAccount ==
  ASSUME IInv, WInv, AInv, Handlers = Producers, NEW p \in Producers, PublishAlloc(p) PROVE AInv'
  <1> DEFINE c == CpuOf[p]
             K == Recorded(c)
             todo == prod[p].todo
             rec == Head(todo)
             push == [prod[p] EXCEPT !.pc = "fill", !.head = ring[c].head,
                                     !.seq = next_sequence + 1]
  <1>1. /\ Typed /\ c \in CPUs /\ ring \in RingsType /\ prod \in [Producers -> PushType]
        /\ pushes[c] \in Nat /\ ring[c].lost \in Nat /\ K \in Nat /\ todo \in Seq(Record)
    BY Fields, RecordedNat, Zenon DEF IInv, Typed
  <1>2. Running(p) /\ prod[p].pc = "alloc" /\ pushes' = pushes
    BY Zenon DEF PublishAlloc
  <1>3. /\ log' = Append(log, rec) /\ ring' = ring
        /\ prod' = [prod EXCEPT ![p].pc = "fill", ![p].head = ring[c].head,
                                ![p].seq = next_sequence + 1]
    BY <1>2, NumberTaken, Zenon
  <1>4. prod' = [prod EXCEPT ![p] = push]
    BY <1>1, <1>3, Zenon
  <1>5. push.pc = "fill" /\ push.todo = todo
    BY <1>1, Zenon DEF PushType
  <1> HIDE DEF push
  <1>6. prod'[p] = push
    BY <1>1, <1>4, Zenon
  <1>7. /\ Len(todo) \in {1, 2} /\ todo[Len(todo)].cpu = c /\ todo[Len(todo)].loss = 0
        /\ Len(todo) = 2 => todo[1].loss # 0
    BY <1>2, ZenonT(60) DEF AInv, Ordered
  <1>8. rec = todo[1] /\ rec \in Record
    BY <1>1, <1>7
  <1>9. Ordered(p)'
    BY <1>5, <1>6, <1>7, Zenon DEF Ordered
  <1>10. /\ \A d \in CPUs : ~(rec.cpu = d /\ rec.loss = 0) =>
                Recorded(d)' = Recorded(d)
         /\ rec.cpu = c /\ rec.loss = 0 => Recorded(c)' = K + 1
    BY <1>1, <1>3, <1>8, RecordedGrows, Zenon
  <1>11. pushes[c] = K + ring[c].lost + 1
    <2>1. Pending(c)
      BY <1>2, Zenon DEF Pending, Owes
    <2>2. Counted(c)
      BY <1>1, Zenon DEF AInv
    <2> QED
      BY <2>1, <2>2, ZenonT(60) DEF Counted
  <1>12. Pending(c)' <=> Len(todo) = 2
    <2>1. Pending(c)' <=> Owes(push)
      BY <1>1, <1>2, <1>4, PendingOwn, Zenon
    <2> QED
      BY <1>5, <2>1, Zenon DEF Owes
  <1>13. CASE Len(todo) = 1
    <2>1. rec.cpu = c /\ rec.loss = 0
      BY <1>7, <1>8, <1>13, Zenon
    <2>2. ~Pending(c)'
      BY <1>12, <1>13
    <2>3. pushes'[c] = (K + 1) + ring'[c].lost + 0
      <3>1. ASSUME NEW k \in Nat, NEW l \in Nat PROVE k + l + 1 = (k + 1) + l + 0
        BY <3>1
      <3> QED
        BY <1>1, <1>2, <1>3, <1>11, <3>1, ZenonT(60)
    <2>4. Counted(c)'
      BY <1>1, <1>10, <2>1, <2>2, <2>3, ZenonT(60) DEF Counted
    <2>5. \A d \in CPUs \ {c} : Recorded(d)' = Recorded(d)
      BY <1>10, <2>1, Zenon
    <2> QED
      BY <1>2, <1>3, <1>4, <1>9, <2>4, <2>5, AccountPush, ZenonT(60)
  <1>14. CASE Len(todo) = 2
    <2>1. \A d \in CPUs : Recorded(d)' = Recorded(d)
      BY <1>7, <1>8, <1>10, <1>14, Zenon
    <2>2. Pending(c)'
      BY <1>12, <1>14, Zenon
    <2>3. pushes'[c] = K + ring'[c].lost + 1
      BY <1>2, <1>3, <1>11, Zenon
    <2>4. Counted(c)'
      BY <1>1, <2>1, <2>2, <2>3, Zenon DEF Counted
    <2> QED
      BY <1>2, <1>3, <1>4, <1>9, <2>1, <2>4, AccountPush, ZenonT(60)
  <1> QED
    BY <1>7, <1>13, <1>14, Zenon

(* The slot is filled and committed. *)
LEMMA PublishStoreAccount ==
  ASSUME IInv, AInv, Handlers = Producers, NEW p \in Producers, PublishFill(p) \/ PublishCommit(p)
  PROVE  AInv'
  <1> DEFINE c == CpuOf[p]
  <1>1. Typed /\ c \in CPUs /\ prod \in [Producers -> PushType]
    BY Fields, Zenon DEF IInv, Typed
  <1>2. /\ Running(p) /\ prod[p].pc \in {"fill", "commit"}
        /\ UNCHANGED <<ring, log, pushes>>
    BY Zenon DEF PublishFill, PublishCommit
  <1>3. PICK pc \in {"commit", "advance"} : prod' = [prod EXCEPT ![p].pc = pc]
    BY Zenon DEF PublishFill, PublishCommit
  <1> DEFINE push == [prod[p] EXCEPT !.pc = pc]
  <1>4. prod' = [prod EXCEPT ![p] = push]
    BY <1>1, <1>3, Zenon
  <1>5. push.pc = pc /\ push.todo = prod[p].todo
    BY <1>1, Zenon DEF PushType
  <1> HIDE DEF push
  <1>6. prod'[p] = push
    BY <1>1, <1>4, Zenon
  <1>7. Owes(push) <=> Owes(prod[p])
    BY <1>2, <1>5, Zenon DEF Owes
  <1>8. Ordered(p)'
    BY <1>2, <1>5, <1>6, Zenon DEF AInv, Ordered
  <1>9. \A d \in CPUs : Recorded(d)' = Recorded(d)
    BY <1>2, Zenon DEF Recorded
  <1>10. Pending(c)' <=> Pending(c)
    BY <1>1, <1>2, <1>4, <1>7, PendingOwn, Zenon
  <1>11. Counted(c)'
    BY <1>1, <1>2, <1>9, <1>10, CountedStays, Zenon DEF AInv
  <1> QED
    BY <1>2, <1>4, <1>8, <1>9, <1>11, AccountPush, ZenonT(60)

(* What is left of one record and of two. *)
LEMMA OneLess ==
  ASSUME NEW s \in Seq(Record)
  PROVE  /\ Len(s) = 1 => Tail(s) = <<>>
         /\ Len(s) = 2 => Tail(s) # <<>> /\ Len(Tail(s)) = 1 /\ Tail(s)[Len(Tail(s))] = s[Len(s)]
  <1>1. ASSUME Len(s) = 1 PROVE Tail(s) = <<>>
    <2>1. s # <<>>
      BY <1>1
    <2>2. Tail(s) \in Seq(Record) /\ Len(Tail(s)) = 0
      BY <1>1, <2>1
    <2>3. ASSUME NEW t \in Seq(Record), Len(t) = 0 PROVE t = <<>>
      BY <2>3
    <2> QED
      BY <2>2, <2>3, Zenon
  <1>2. ASSUME Len(s) = 2
        PROVE  Tail(s) # <<>> /\ Len(Tail(s)) = 1 /\ Tail(s)[Len(Tail(s))] = s[Len(s)]
    <2>1. s # <<>>
      BY <1>2
    <2>2. Tail(s) \in Seq(Record) /\ Len(Tail(s)) = 1
      BY <1>2, <2>1
    <2>3. ASSUME NEW t, Len(t) = 1 PROVE t # <<>>
      <3>1. Len(<<>>) # 1
        OBVIOUS
      <3> QED
        BY <2>3, <3>1, Zenon
    <2>4. Tail(s)[1] = s[2]
      BY <1>2, <2>1
    <2> QED
      BY <1>2, <2>2, <2>3, <2>4, Zenon
  <1> QED
    BY <1>1, <1>2, Zenon

(* head is stored, and after a report the event is still owed. *)
LEMMA PublishAdvanceAccount ==
  ASSUME IInv, AInv, Handlers = Producers, NEW p \in Producers, PublishAdvance(p) PROVE AInv'
  <1> DEFINE c == CpuOf[p]
             todo == prod[p].todo
             rest == Tail(todo)
             push == IF rest = <<>> THEN IdlePush
                     ELSE [prod[p] EXCEPT !.pc = "alloc", !.todo = rest]
  <1>1. /\ Typed /\ c \in CPUs /\ prod \in [Producers -> PushType] /\ ring \in RingsType
        /\ todo \in Seq(Record)
    BY Fields, Zenon DEF IInv, Typed
  <1>2. /\ Running(p) /\ prod[p].pc = "advance" /\ UNCHANGED <<log, pushes>>
        /\ ring' = [ring EXCEPT ![c].head = prod[p].head + 1,
                                ![c].loss_pending = (@ - Head(todo).loss) % Word]
        /\ prod' = [prod EXCEPT ![p] = IF rest = <<>> THEN IdlePush
                                       ELSE [@ EXCEPT !.pc = "alloc", !.todo = rest]]
    BY Zenon DEF PublishAdvance
  <1>3. \A d \in CPUs : ring'[d].lost = ring[d].lost
    BY <1>1, <1>2, Zenon DEF RingsType
  <1>4. \A d \in CPUs : Recorded(d)' = Recorded(d)
    BY <1>2, Zenon DEF Recorded
  <1>5. prod' = [prod EXCEPT ![p] = push] /\ prod'[p] = push
    BY <1>1, <1>2, Zenon
  <1>6. /\ Len(todo) \in {1, 2} /\ todo[Len(todo)].cpu = c /\ todo[Len(todo)].loss = 0
    BY <1>2, Zenon DEF AInv, Ordered
  <1>7. /\ Len(todo) = 1 => rest = <<>>
        /\ Len(todo) = 2 => rest # <<>> /\ Len(rest) = 1 /\ rest[Len(rest)] = todo[Len(todo)]
    BY <1>1, OneLess, Zenon
  <1>8. Ordered(p)' /\ (Owes(push) <=> Owes(prod[p]))
    <2>1. CASE Len(todo) = 1
      <3>1. push.pc = "idle"
        BY <1>7, <2>1, AtRest, Zenon
      <3>2. ~Owes(push) /\ ~Owes(prod[p])
        BY <1>2, <2>1, <3>1 DEF Owes
      <3> QED
        BY <1>5, <3>1, <3>2, Zenon DEF Ordered
    <2>2. CASE Len(todo) = 2
      <3>1. push.pc = "alloc" /\ push.todo = rest
        BY <1>1, <1>7, <2>2, Zenon DEF PushType
      <3>2. Owes(push) /\ Owes(prod[p])
        BY <1>2, <2>2, <3>1, Zenon DEF Owes
      <3>3. Len(rest) \in {1, 2} /\ Len(rest) # 2
        BY <1>7, <2>2, Zenon
      <3> HIDE DEF push, rest
      <3>4. Ordered(p)'
        BY <1>5, <1>6, <1>7, <2>2, <3>1, <3>3, ZenonT(60) DEF Ordered
      <3> QED
        BY <3>2, <3>4, Zenon
    <2> QED
      BY <1>6, <2>1, <2>2, Zenon
  <1> HIDE DEF push
  <1>9. Pending(c)' <=> Pending(c)
    BY <1>1, <1>2, <1>5, <1>8, PendingOwn, ZenonT(60)
  <1>10. Counted(c)'
    BY <1>1, <1>2, <1>3, <1>4, <1>9, CountedStays, ZenonT(60) DEF AInv
  <1> QED
    BY <1>2, <1>3, <1>4, <1>5, <1>8, <1>10, AccountPush, ZenonT(60)

(* A poll owes nothing and loses nothing. *)
LEMMA AccountPoll ==
  ASSUME IInv, AInv, UNCHANGED <<prod, log, pushes>>,
         \A d \in CPUs : ring'[d].lost = ring[d].lost
  PROVE  AInv'
  <1>1. \A q \in Producers : Ordered(q)'
    BY Zenon DEF AInv, Ordered
  <1>2. ASSUME NEW d \in CPUs PROVE Counted(d)'
    <2>1. Pending(d)' <=> Pending(d)
      BY Zenon DEF Pending
    <2>2. Recorded(d)' = Recorded(d)
      BY Zenon DEF Recorded
    <2>3. Counted(d)
      BY Zenon DEF AInv
    <2> QED
      BY <2>1, <2>2, <2>3, CountedStays, Zenon
  <1> QED
    BY <1>1, <1>2, Zenon DEF AInv

(* An empty log has no length. *)
LEMMA EmptyLen == Len(<<>>) = 0
  OBVIOUS

(* An empty log and no push add up, ... *)
LEMMA NothingPushed ==
  ASSUME log = <<>>, pushes = [c \in CPUs |-> 0], ring = EmptyRing,
         \A p \in Producers : prod[p].pc = "idle"
  PROVE  AInv
  <1>1. \A p \in Producers : Ordered(p)
    BY Zenon DEF Ordered
  <1>2. ASSUME NEW c \in CPUs PROVE Counted(c)
    <2>1. pushes[c] = 0 /\ ring[c].lost = 0
      BY Zenon DEF EmptyRing
    <2>2. ~Pending(c)
      BY Zenon DEF Pending, Owes
    <2>3. Recorded(c) = 0
      BY EmptyLen, TotalNone, Zenon DEF Recorded
    <2>4. 0 = 0 + 0 + 0
      OBVIOUS
    <2> QED
      BY <2>1, <2>2, <2>3, <2>4, Zenon DEF Counted
  <1> QED
    BY <1>1, <1>2, Zenon DEF AInv

(* ... and every step keeps the account. *)
LEMMA NextAccount ==
  ASSUME Handlers = Producers, IInv, WInv, AInv, [Next]_rvars PROVE AInv'
  <1>0. Typed /\ ring \in RingsType /\ con.cpu \in CPUs
    BY Fields, Zenon DEF IInv, Typed
  <1>1. CASE \E p \in Producers : Push(p)
    BY <1>1, PushBeginAccount, PublishAllocAccount, PublishStoreAccount, PublishAdvanceAccount,
       ZenonT(60) DEF Push
  <1>2. ASSUME NEW after, PollBegin(after) PROVE AInv'
    BY <1>2, AccountPoll, Zenon DEF PollBegin
  <1>3. CASE PollStep
    <2>1. UNCHANGED <<prod, log, pushes>>
      BY <1>3, Zenon DEF PollStep, PollLoad, PollDiscard, PollCursor, PollScan, PollCopy, PollClear,
         PollTail, PollReturn
    <2>2. UNCHANGED ring \/ TailMoved(con.cpu, con.tail + 1)
      BY <1>3, Zenon DEF PollStep, PollLoad, PollDiscard, PollCursor, PollScan, PollCopy, PollClear,
         PollTail, PollReturn, TailMoved
    <2>3. \A d \in CPUs : ring'[d].lost = ring[d].lost
      BY <1>0, <2>2, ZenonT(60) DEF TailMoved, RingsType
    <2> QED
      BY <2>1, <2>3, AccountPoll, Zenon
  <1>4. CASE Quiet /\ RingInit
    <2>1. /\ log' = <<>> /\ pushes' = [c \in CPUs |-> 0] /\ ring' = EmptyRing
          /\ \A p \in Producers : prod'[p].pc = "idle"
      BY <1>4, Zenon DEF RingInit, Quiet
    <2>2. \A p \in Producers : Ordered(p)'
      BY <2>1, Zenon DEF Ordered
    <2>3. ASSUME NEW c \in CPUs PROVE Counted(c)'
      <3>1. pushes'[c] = 0 /\ ring'[c].lost = 0
        BY <2>1, Zenon DEF EmptyRing
      <3>2. ~Pending(c)'
        BY <2>1, Zenon DEF Pending, Owes
      <3>3. Recorded(c)' = 0
        BY <2>1, EmptyLen, TotalNone, Zenon DEF Recorded
      <3>4. 0 = 0 + 0 + 0
        OBVIOUS
      <3> QED
        BY <3>1, <3>2, <3>3, <3>4, Zenon DEF Counted
    <2> QED
      BY <2>2, <2>3, Zenon DEF AInv
  <1>5. CASE UNCHANGED rvars
    BY <1>5, AccountPoll, Zenon DEF rvars
  <1> QED
    BY <1>1, <1>2, <1>3, <1>4, <1>5, ZenonT(60) DEF Next

(* The windows of the rings: what is committed lies between tail and head,    *)
(* and a push that has begun has room for all it writes, so that spz_publish  *)
(* never finds the ring full nor a slot still committed.                      *)
THEOREM Windows == ASSUME Handlers = Producers PROVE Spec => []WInv
  <1>1. Spec => []IInv
    BY Invariance, Zenon
  <1>2. Init => WInv
    BY InitWindow, Zenon
  <1>3. IInv /\ WInv /\ [Next]_rvars => WInv'
    BY NextWindow, Zenon
  <1> QED
    BY <1>1, <1>2, <1>3, PTL DEF Spec

(* Every call of push is in the log, counted in lost or still on its way.     *)
LEMMA Counts == ASSUME Handlers = Producers PROVE Spec => []AInv
  <1>1. Spec => [](IInv /\ WInv)
    BY Invariance, Windows, PTL
  <1>2. Init => AInv
    <2> SUFFICES ASSUME Init PROVE AInv
      OBVIOUS
    <2>1. \A p \in Producers : prod[p].pc = "idle"
      BY AtRest, Zenon DEF Init
    <2> QED
      BY <2>1, NothingPushed, Zenon DEF Init
  <1>3. (IInv /\ WInv) /\ AInv /\ [Next]_rvars => AInv'
    BY NextAccount, Zenon
  <1> QED
    BY <1>1, <1>2, <1>3, PTL DEF Spec

(* On a CPU with no push on its way they add up. *)
LEMMA EventsAdd == ASSUME IInv, AInv PROVE EventsAccounted
  <1> SUFFICES ASSUME NEW c \in CPUs, Resting(c)
               PROVE  pushes[c] = Recorded(c) + ring[c].lost
    BY Zenon DEF EventsAccounted
  <1>1. ~Pending(c)
    BY Zenon DEF Resting, Pending, Owes
  <1>2. pushes[c] = Recorded(c) + ring[c].lost + 0
    BY <1>1, Zenon DEF AInv, Counted
  <1>3. Recorded(c) \in Nat /\ ring[c].lost \in Nat
    BY RecordedNat, Fields, Zenon DEF IInv
  <1>4. ASSUME NEW k \in Nat, NEW l \in Nat PROVE k + l + 0 = k + l
    BY <1>4
  <1> QED
    BY <1>2, <1>3, <1>4, Zenon

-----------------------------------------------------------------------------
(* What the log reports of a CPU is a number, ...                             *)
LEMMA ReportedNat ==
  ASSUME Typed, NEW c PROVE Reported(c) \in Nat
  <1> DEFINE f == [i \in DOMAIN log |-> IF log[i].cpu = c THEN log[i].loss ELSE 0]
  <1>1. /\ DOMAIN log = 1 .. Len(log) /\ Len(log) \in Nat
        /\ \A i \in 1 .. Len(log) : log[i] \in Record
    BY DEF Typed
  <1>2. 0 \in Nat /\ 1 \in Nat /\ \A r \in Record : r.loss \in Nat
    BY DEF Record
  <1>3. \A i \in 1 .. Len(log) : f[i] \in Nat
    BY <1>1, <1>2, ZenonT(60)
  <1> HIDE DEF f
  <1>4. Total(f, Len(log)) \in Nat
    BY <1>1, <1>3, TotalBounds, Zenon
  <1> QED
    BY <1>4, Zenon DEF Reported, f

(* ... to which an appended report of that CPU adds what it says.             *)
LEMMA ReportedGrows ==
  ASSUME Typed, NEW c, NEW r \in Record, log' = Append(log, r)
  PROVE  /\ r.cpu = c => Reported(c)' = Reported(c) + r.loss
         /\ r.cpu # c => Reported(c)' = Reported(c)
  <1> DEFINE f == [i \in DOMAIN log |-> IF log[i].cpu = c THEN log[i].loss ELSE 0]
             g == [i \in DOMAIN log' |-> IF log'[i].cpu = c THEN log'[i].loss ELSE 0]
             n == Len(log)
  <1>1. log \in Seq(Record) /\ n \in Nat
    BY DEF Typed
  <1>2. DOMAIN log = 1 .. n /\ DOMAIN log' = 1 .. n + 1 /\ Len(log') = n + 1
    BY <1>1
  <1>3. log'[n + 1] = r /\ \A i \in 1 .. n : log'[i] = log[i]
    BY <1>1, Appended
  <1>4. n + 1 \in 1 .. n + 1 /\ \A i \in 1 .. n : i \in 1 .. n + 1
    BY <1>1
  <1>5. /\ \A i \in 1 .. n : g[i] = f[i]
        /\ g[n + 1] = IF r.cpu = c THEN r.loss ELSE 0
    BY <1>2, <1>3, <1>4, Zenon
  <1>6. Reported(c) = Total(f, n) /\ Reported(c)' = Total(g, n + 1)
    BY <1>2, Zenon DEF Reported
  <1>7. Total(f, n) \in Nat
    BY <1>6, ReportedNat, Zenon
  <1> HIDE DEF f, g, n
  <1>8. Total(g, n + 1) = Total(f, n) + g[n + 1]
    BY <1>1, <1>5, TotalAppend, Zenon
  <1>9. ASSUME NEW k \in Nat PROVE k + 0 = k
    BY <1>9
  <1> QED
    BY <1>5, <1>6, <1>7, <1>8, <1>9, ZenonT(60)

(* The balance of a CPU that nothing touches stays. *)
LEMMA BalancedStays ==
  ASSUME NEW c \in CPUs, Balanced(c), pushes'[c] = pushes[c], ring'[c].lost = ring[c].lost,
         ring'[c].loss_pending = ring[c].loss_pending,
         Reported(c)' = Reported(c), Twice(c)' <=> Twice(c)
  PROVE  Balanced(c)'
  <1> DEFINE R == Reported(c)
  <1>1. R' = R
    BY Zenon
  <1>2. /\ pushes[c] <= MaxPush /\ ring[c].loss_pending <= ring[c].lost
        /\ ring[c].lost + (IF Twice(c) THEN ring[c].loss_pending ELSE 0)
              = ring[c].loss_pending + R
    BY Zenon DEF Balanced
  <1> HIDE DEF R
  <1>3. /\ pushes'[c] <= MaxPush /\ ring'[c].loss_pending <= ring'[c].lost
        /\ ring'[c].lost + (IF Twice(c)' THEN ring'[c].loss_pending ELSE 0)
              = ring'[c].loss_pending + R'
    BY <1>1, <1>2, ZenonT(60)
  <1> QED
    BY <1>3, Zenon DEF Balanced, R

(* Whether a loss is both reported and pending is a matter of the one push of *)
(* the CPU.                                                                   *)
LEMMA TwiceOwn ==
  ASSUME Typed, Handlers = Producers, NEW p \in Producers, Running(p),
         NEW push, prod' = [prod EXCEPT ![p] = push]
  PROVE  /\ Twice(CpuOf[p]) <=> Says(prod[p])
         /\ Twice(CpuOf[p])' <=> Says(push)
         /\ \A d \in CPUs \ {CpuOf[p]} : Twice(d)' <=> Twice(d)
  <1>1. prod'[p] = push /\ \A q \in Producers \ {p} : prod'[q] = prod[q]
    BY Zenon DEF Typed
  <1>2. \A q \in Producers \ {p} : CpuOf[q] = CpuOf[p] => prod[q].pc = "idle"
    BY Zenon DEF Running
  <1>3. \A q \in Producers \ {p} : CpuOf[q] = CpuOf[p] => ~Says(prod[q]) /\ ~Says(prod'[q])
    BY <1>1, <1>2, Zenon DEF Says
  <1> QED
    BY <1>1, <1>3, Zenon DEF Twice

(* A step of one push settles its own CPU's balance; the others' stay.        *)
LEMMA BalancePush ==
  ASSUME IInv, LInv, Handlers = Producers, NEW p \in Producers, Running(p),
         NEW push, prod' = [prod EXCEPT ![p] = push], Reports(p)', Balanced(CpuOf[p])',
         \A d \in CPUs \ {CpuOf[p]} : /\ pushes'[d] = pushes[d] /\ ring'[d].lost = ring[d].lost
                                      /\ ring'[d].loss_pending = ring[d].loss_pending
                                      /\ Reported(d)' = Reported(d)
  PROVE  LInv'
  <1>1. Typed
    BY Zenon DEF IInv
  <1>2. \A q \in Producers \ {p} : prod'[q] = prod[q]
    BY <1>1, Zenon DEF Typed
  <1>3. ASSUME NEW q \in Producers \ {p} PROVE Reports(q)'
    <2>1. CASE CpuOf[q] = CpuOf[p]
      <3>1. prod'[q].pc = "idle"
        BY <1>2, <2>1, Zenon DEF Running
      <3> QED
        BY <3>1, Zenon DEF Reports
    <2>2. CASE CpuOf[q] # CpuOf[p]
      <3>1. CpuOf[q] \in CPUs
        BY RingAssumption, Zenon
      <3>2. ring'[CpuOf[q]].loss_pending = ring[CpuOf[q]].loss_pending
        BY <2>2, <3>1, Zenon
      <3>3. Reports(q)
        BY Zenon DEF LInv
      <3> QED
        BY <1>2, <3>2, <3>3, Zenon DEF Reports
    <2> QED
      BY <2>1, <2>2, Zenon
  <1>4. ASSUME NEW d \in CPUs \ {CpuOf[p]} PROVE Balanced(d)'
    <2>1. Twice(d)' <=> Twice(d)
      BY <1>1, TwiceOwn, Zenon
    <2>2. Balanced(d)
      BY Zenon DEF LInv
    <2> QED
      BY <2>1, <2>2, BalancedStays, Zenon
  <1> QED
    BY <1>3, <1>4, Zenon DEF LInv

(* A call of push is within the bound on all of them. *)
LEMMA CallsBounded ==
  ASSUME Typed, NEW c \in CPUs, Total([i \in 1 .. NCpu |-> pushes[i - 1]], NCpu) < MaxPush
  PROVE  pushes[c] + 1 <= MaxPush
  <1> DEFINE f == [i \in 1 .. NCpu |-> pushes[i - 1]]
  <1>1. NCpu \in Nat /\ MaxPush \in Nat /\ pushes \in [CPUs -> Nat]
    BY RingAssumption, Zenon DEF Typed
  <1>2. c \in Nat /\ c + 1 \in 1 .. NCpu /\ (c + 1) - 1 = c /\ \A i \in 1 .. NCpu : i - 1 \in CPUs
    BY <1>1 DEF CPUs
  <1>3. f[c + 1] = pushes[c] /\ \A i \in 1 .. NCpu : f[i] \in Nat
    BY <1>1, <1>2, Zenon
  <1>4. Total(f, NCpu) < MaxPush
    OBVIOUS
  <1> HIDE DEF f
  <1>5. Total(f, NCpu) \in Nat /\ f[c + 1] <= Total(f, NCpu)
    BY <1>1, <1>2, <1>3, TotalBounds, ZenonT(60)
  <1>6. ASSUME NEW a \in Nat, NEW t \in Nat, a <= t, t < MaxPush PROVE a + 1 <= MaxPush
    BY <1>1, <1>6
  <1> QED
    BY <1>1, <1>3, <1>4, <1>5, <1>6, ZenonT(60)

(* A call of push loses its event, which is pending, or makes a report of all *)
(* that is.                                                                   *)
LEMMA PushBeginBalance ==
  ASSUME IInv, LInv, Handlers = Producers, NEW p \in Producers, PushBegin(p) PROVE LInv'
  <1> DEFINE c == CpuOf[p]
             event == [cpu |-> c, n |-> pushes[c] + 1, loss |-> 0]
             report == [cpu |-> c, n |-> 0, loss |-> ring[c].loss_pending]
             R == Reported(c)
  <1>1. /\ Typed /\ c \in CPUs /\ ring \in RingsType /\ prod \in [Producers -> PushType]
        /\ pushes \in [CPUs -> Nat] /\ ring[c].lost \in Nat /\ ring[c].loss_pending \in Nat
        /\ R \in Nat
    BY Fields, ReportedNat, ZenonT(60) DEF IInv, Typed
  <1>2. /\ Running(p) /\ prod[p].pc = "idle" /\ log' = log
        /\ pushes' = [pushes EXCEPT ![c] = @ + 1]
        /\ Total([i \in 1 .. NCpu |-> pushes[i - 1]], NCpu) < MaxPush
    BY Zenon DEF PushBegin
  <1>3. \A d \in CPUs : Reported(d)' = Reported(d)
    BY <1>2, Zenon DEF Reported
  <1>4. pushes'[c] = pushes[c] + 1 /\ \A d \in CPUs \ {c} : pushes'[d] = pushes[d]
    BY <1>1, <1>2, Zenon
  <1>5. pushes'[c] <= MaxPush
    BY <1>1, <1>2, <1>4, CallsBounded, Zenon
  <1>6. /\ ring[c].loss_pending <= ring[c].lost
        /\ ring[c].lost + 0 = ring[c].loss_pending + R
    <2>1. ~Says(prod[p]) /\ \A q \in Producers \ {p} : CpuOf[q] = c => prod[q].pc = "idle"
      BY <1>2, Zenon DEF Running, Says
    <2>2. ~Twice(c)
      BY <2>1, Zenon DEF Twice, Says
    <2>3. Balanced(c)
      BY <1>1, Zenon DEF LInv
    <2> QED
      BY <2>2, <2>3, Zenon DEF Balanced
  <1>7. CASE CountLoss(c) /\ UNCHANGED prod
    <2>1. prod' = [prod EXCEPT ![p] = prod[p]]
      BY <1>1, <1>7, Zenon
    <2>2. /\ ring'[c].lost = ring[c].lost + 1 /\ ring'[c].loss_pending = ring[c].loss_pending + 1
          /\ \A d \in CPUs \ {c} : /\ ring'[d].lost = ring[d].lost
                                   /\ ring'[d].loss_pending = ring[d].loss_pending
      BY <1>1, <1>7, Zenon DEF CountLoss, RingsType
    <2>3. ~Twice(c)'
      BY <1>1, <1>2, <2>1, TwiceOwn, ZenonT(60) DEF Says
    <2>4. /\ ring'[c].loss_pending <= ring'[c].lost
          /\ ring'[c].lost + 0 = ring'[c].loss_pending + R
      <3> HIDE DEF R
      <3> QED
        BY <1>1, <1>6, <2>2
    <2>5. Balanced(c)'
      BY <1>1, <1>3, <1>5, <2>3, <2>4, ZenonT(60) DEF Balanced
    <2>6. Reports(p)'
      BY <1>2, <1>7, Zenon DEF Reports
    <2> QED
      BY <1>2, <1>3, <1>4, <2>1, <2>2, <2>5, <2>6, BalancePush, ZenonT(60)
  <1>8. ASSUME NEW todo, UNCHANGED ring, prod' = [prod EXCEPT ![p].pc = "alloc", ![p].todo = todo],
               todo \in {<<event>>, <<report, event>>}
        PROVE  LInv'
    <2> DEFINE push == [prod[p] EXCEPT !.pc = "alloc", !.todo = todo]
    <2>1. prod' = [prod EXCEPT ![p] = push]
      BY <1>1, <1>8, Zenon
    <2>2. push.pc = "alloc" /\ push.todo = todo
      BY <1>1, Zenon DEF PushType
    <2> HIDE DEF push
    <2>3. prod'[p] = push
      BY <1>1, <2>1, Zenon
    <2>4. ~Twice(c)'
      BY <1>1, <1>2, <2>1, <2>2, TwiceOwn, ZenonT(60) DEF Says
    <2>5. Balanced(c)'
      BY <1>1, <1>3, <1>5, <1>6, <1>8, <2>4, ZenonT(60) DEF Balanced
    <2>6. Len(todo) = 2 => todo[1].cpu = c /\ todo[1].loss = ring[c].loss_pending
      <3>1. report.cpu = c /\ report.loss = ring[c].loss_pending
        OBVIOUS
      <3> HIDE DEF event, report
      <3>2. /\ todo = <<event>> => Len(todo) = 1
            /\ todo = <<report, event>> => todo[1] = report
        OBVIOUS
      <3>3. 1 # 2
        OBVIOUS
      <3> QED
        BY <1>8, <3>1, <3>2, <3>3, ZenonT(60)
    <2>7. Reports(p)'
      BY <1>8, <2>2, <2>3, <2>6, ZenonT(60) DEF Reports
    <2> QED
      BY <1>2, <1>3, <1>4, <1>8, <2>1, <2>5, <2>7, BalancePush, ZenonT(60)
  <1>9. \/ CountLoss(c) /\ UNCHANGED prod
        \/ \E todo : /\ UNCHANGED ring
                     /\ prod' = [prod EXCEPT ![p].pc = "alloc", ![p].todo = todo]
                     /\ todo \in {<<event>>, <<report, event>>}
    BY Zenon DEF PushBegin
  <1> QED
    BY <1>7, <1>8, <1>9, ZenonT(60)

(* A report that has its number is in the log while it is pending. *)
LEMMA PublishAllocBalance ==
  ASSUME IInv, WInv, AInv, LInv, Handlers = Producers, NEW p \in Producers, PublishAlloc(p)
  PROVE  LInv'
  <1> DEFINE c == CpuOf[p]
             R == Reported(c)
             todo == prod[p].todo
             rec == Head(todo)
             push == [prod[p] EXCEPT !.pc = "fill", !.head = ring[c].head,
                                     !.seq = next_sequence + 1]
  <1>1. /\ Typed /\ c \in CPUs /\ ring \in RingsType /\ prod \in [Producers -> PushType]
        /\ ring[c].lost \in Nat /\ ring[c].loss_pending \in Nat /\ R \in Nat
        /\ todo \in Seq(Record)
    BY Fields, ReportedNat, ZenonT(60) DEF IInv, Typed
  <1>2. Running(p) /\ prod[p].pc = "alloc" /\ pushes' = pushes
    BY Zenon DEF PublishAlloc
  <1>3. /\ log' = Append(log, rec) /\ ring' = ring
        /\ prod' = [prod EXCEPT ![p].pc = "fill", ![p].head = ring[c].head,
                                ![p].seq = next_sequence + 1]
    BY <1>2, NumberTaken, Zenon
  <1>4. prod' = [prod EXCEPT ![p] = push]
    BY <1>1, <1>3, Zenon
  <1>5. push.pc = "fill" /\ push.todo = todo
    BY <1>1, Zenon DEF PushType
  <1> HIDE DEF push
  <1>6. prod'[p] = push
    BY <1>1, <1>4, Zenon
  <1>7. Len(todo) \in {1, 2} /\ todo[Len(todo)].cpu = c /\ todo[Len(todo)].loss = 0
    BY <1>2, Zenon DEF AInv, Ordered
  <1>8. Len(todo) = 2 => todo[1].cpu = c /\ todo[1].loss = ring[c].loss_pending
    BY <1>2, Zenon DEF LInv, Reports
  <1>9. rec = todo[1] /\ rec \in Record
    BY <1>1, <1>7
  <1>10. rec.cpu = c
    BY <1>7, <1>8, <1>9, Zenon
  <1>11. /\ \A d \in CPUs \ {c} : Reported(d)' = Reported(d)
         /\ Reported(c)' = R + rec.loss
    <2>1. \A d \in CPUs : /\ rec.cpu = d => Reported(d)' = Reported(d) + rec.loss
                          /\ rec.cpu # d => Reported(d)' = Reported(d)
      BY <1>1, <1>3, <1>9, ReportedGrows, Zenon
    <2> QED
      BY <1>1, <1>10, <2>1, Zenon
  <1>12. /\ pushes[c] <= MaxPush /\ ring[c].loss_pending <= ring[c].lost
         /\ ring[c].lost + 0 = ring[c].loss_pending + R
    <2>1. ~Twice(c)
      BY <1>1, <1>2, <1>4, TwiceOwn, Zenon DEF Says
    <2>2. Balanced(c)
      BY <1>1, Zenon DEF LInv
    <2> QED
      BY <2>1, <2>2, Zenon DEF Balanced
  <1>13. Reports(p)'
    BY <1>3, <1>5, <1>6, <1>8, Zenon DEF Reports
  <1>14. Twice(c)' <=> Len(todo) = 2
    <2>1. Twice(c)' <=> Says(push)
      BY <1>1, <1>2, <1>4, TwiceOwn, Zenon
    <2> QED
      BY <1>5, <2>1, Zenon DEF Says
  <1>15. CASE Len(todo) = 1
    <2>1. rec.loss = 0
      BY <1>7, <1>9, <1>15, Zenon
    <2>2. ~Twice(c)'
      BY <1>14, <1>15
    <2>3. Reported(c)' = R
      <3> HIDE DEF R
      <3> QED
        BY <1>1, <1>11, <2>1
    <2>4. Balanced(c)'
      BY <1>2, <1>3, <1>12, <2>2, <2>3, ZenonT(60) DEF Balanced
    <2> QED
      BY <1>2, <1>3, <1>4, <1>11, <1>13, <2>4, BalancePush, ZenonT(60)
  <1>16. CASE Len(todo) = 2
    <2>1. rec.loss = ring[c].loss_pending
      BY <1>8, <1>9, <1>16, Zenon
    <2>2. Twice(c)'
      BY <1>14, <1>16, Zenon
    <2>3. ring[c].lost + ring[c].loss_pending = ring[c].loss_pending + (R + rec.loss)
      <3> HIDE DEF R, rec
      <3> QED
        BY <1>1, <1>12, <2>1
    <2>4. Balanced(c)'
      BY <1>2, <1>3, <1>11, <1>12, <2>2, <2>3, ZenonT(60) DEF Balanced
    <2> QED
      BY <1>2, <1>3, <1>4, <1>11, <1>13, <2>4, BalancePush, Zenon
  <1> QED
    BY <1>7, <1>15, <1>16, ZenonT(60)

(* The slot is filled and committed. *)
LEMMA PublishStoreBalance ==
  ASSUME IInv, LInv, Handlers = Producers, NEW p \in Producers, PublishFill(p) \/ PublishCommit(p)
  PROVE  LInv'
  <1> DEFINE c == CpuOf[p]
  <1>1. Typed /\ c \in CPUs /\ prod \in [Producers -> PushType]
    BY Fields, Zenon DEF IInv, Typed
  <1>2. /\ Running(p) /\ prod[p].pc \in {"fill", "commit"}
        /\ UNCHANGED <<ring, log, pushes>>
    BY Zenon DEF PublishFill, PublishCommit
  <1>3. PICK pc \in {"commit", "advance"} : prod' = [prod EXCEPT ![p].pc = pc]
    BY Zenon DEF PublishFill, PublishCommit
  <1> DEFINE push == [prod[p] EXCEPT !.pc = pc]
  <1>4. prod' = [prod EXCEPT ![p] = push]
    BY <1>1, <1>3, Zenon
  <1>5. push.pc = pc /\ push.todo = prod[p].todo
    BY <1>1, Zenon DEF PushType
  <1> HIDE DEF push
  <1>6. prod'[p] = push
    BY <1>1, <1>4, Zenon
  <1>7. Says(push) <=> Says(prod[p])
    BY <1>2, <1>5, Zenon DEF Says
  <1>8. Reports(p)'
    BY <1>2, <1>5, <1>6, ZenonT(60) DEF LInv, Reports
  <1>9. \A d \in CPUs : Reported(d)' = Reported(d)
    BY <1>2, ZenonT(60) DEF Reported
  <1>10. Twice(c)' <=> Twice(c)
    BY <1>1, <1>2, <1>4, <1>7, TwiceOwn, Zenon
  <1>11. Balanced(c)'
    BY <1>1, <1>2, <1>9, <1>10, BalancedStays, ZenonT(60) DEF LInv
  <1> QED
    BY <1>2, <1>4, <1>8, <1>9, <1>11, BalancePush, ZenonT(60)

(* head is stored: the pending count drops by what was reported. *)
LEMMA PublishAdvanceBalance ==
  ASSUME IInv, AInv, LInv, Handlers = Producers, NEW p \in Producers, PublishAdvance(p) PROVE LInv'
  <1> DEFINE c == CpuOf[p]
             R == Reported(c)
             todo == prod[p].todo
             rest == Tail(todo)
             push == IF rest = <<>> THEN IdlePush
                     ELSE [prod[p] EXCEPT !.pc = "alloc", !.todo = rest]
             left == (ring[c].loss_pending - Head(todo).loss) % Word
  <1>1. /\ Typed /\ c \in CPUs /\ prod \in [Producers -> PushType] /\ ring \in RingsType
        /\ todo \in Seq(Record) /\ pushes[c] \in Nat
        /\ ring[c].lost \in Nat /\ ring[c].loss_pending \in Nat /\ R \in Nat
    BY Fields, ReportedNat, ZenonT(60) DEF IInv, Typed
  <1>2. /\ Running(p) /\ prod[p].pc = "advance" /\ UNCHANGED <<log, pushes>>
        /\ ring' = [ring EXCEPT ![c].head = prod[p].head + 1, ![c].loss_pending = left]
        /\ prod' = [prod EXCEPT ![p] = IF rest = <<>> THEN IdlePush
                                       ELSE [@ EXCEPT !.pc = "alloc", !.todo = rest]]
    BY Zenon DEF PublishAdvance
  <1>3. /\ \A d \in CPUs : ring'[d].lost = ring[d].lost
        /\ \A d \in CPUs \ {c} : ring'[d].loss_pending = ring[d].loss_pending
        /\ ring'[c].loss_pending = left
    <2> HIDE DEF left
    <2> QED
      BY <1>1, <1>2, Zenon DEF RingsType
  <1>4. \A d \in CPUs : Reported(d)' = Reported(d)
    BY <1>2, Zenon DEF Reported
  <1>5. prod' = [prod EXCEPT ![p] = push] /\ prod'[p] = push
    BY <1>1, <1>2, Zenon
  <1>6. /\ Len(todo) \in {1, 2} /\ todo[Len(todo)].loss = 0 /\ Head(todo) = todo[1]
        /\ Len(todo) = 2 => todo[1].loss = ring[c].loss_pending
    <2>1. Len(todo) \in {1, 2} /\ todo[Len(todo)].loss = 0
      BY <1>2, Zenon DEF AInv, Ordered
    <2>2. Head(todo) = todo[1]
      BY <1>1, <2>1
    <2>3. Len(todo) = 2 => todo[1].loss = ring[c].loss_pending
      BY <1>2, Zenon DEF LInv, Reports
    <2> QED
      BY <2>1, <2>2, <2>3, Zenon
  <1>7. ~Says(push) /\ Reports(p)'
    <2>1. /\ Len(todo) = 1 => rest = <<>>
          /\ Len(todo) = 2 => rest # <<>> /\ Len(rest) = 1
      BY <1>1, OneLess, Zenon
    <2>2. CASE Len(todo) = 1
      <3>1. push.pc = "idle"
        BY <2>1, <2>2, AtRest, Zenon
      <3> QED
        BY <1>5, <3>1, Zenon DEF Says, Reports
    <2>3. CASE Len(todo) = 2
      <3>1. push.pc = "alloc" /\ push.todo = rest
        BY <1>1, <2>1, <2>3, ZenonT(60) DEF PushType
      <3>2. Len(push.todo) # 2
        BY <2>1, <2>3, <3>1, Zenon
      <3> HIDE DEF push
      <3> QED
        BY <1>5, <3>1, <3>2, Zenon DEF Says, Reports
    <2> QED
      BY <1>6, <2>2, <2>3, Zenon
  <1> HIDE DEF push
  <1>8. ~Twice(c)' /\ (Twice(c) <=> Len(todo) = 2)
    <2>1. Says(prod[p]) <=> Len(todo) = 2
      BY <1>2, Zenon DEF Says
    <2> QED
      BY <1>1, <1>2, <1>5, <1>7, <2>1, TwiceOwn, Zenon
  <1>9. /\ pushes[c] <= MaxPush /\ ring[c].loss_pending <= ring[c].lost
        /\ ring[c].lost + (IF Len(todo) = 2 THEN ring[c].loss_pending ELSE 0)
              = ring[c].loss_pending + R
    <2>1. Balanced(c)
      BY <1>1, Zenon DEF LInv
    <2> QED
      BY <1>8, <2>1, Zenon DEF Balanced
  <1>10. ring[c].lost <= pushes[c]
    <2> DEFINE K == Recorded(c)
    <2>1. /\ K \in Nat
          /\ \/ pushes[c] = K + ring[c].lost + 1
             \/ pushes[c] = K + ring[c].lost + 0
      <3>1. Counted(c)
        BY <1>1, Zenon DEF AInv
      <3> QED
        BY <1>1, <3>1, RecordedNat, Zenon DEF Counted
    <2> HIDE DEF K
    <2> QED
      BY <1>1, <2>1
  <1>11. /\ Len(todo) = 2 => left = 0
         /\ Len(todo) = 1 => left = ring[c].loss_pending
    <2>1. ASSUME NEW x \in Nat, x <= MaxPush PROVE (x - x) % Word = 0 /\ (x - 0) % Word = x
      BY <2>1, RingAssumption
    <2>2. ring[c].loss_pending <= MaxPush
      <3>1. MaxPush \in Nat
        BY RingAssumption
      <3> QED
        BY <1>1, <1>9, <1>10, <3>1, SMTT(60)
    <2>3. Len(todo) = 1 => Head(todo).loss = 0
      BY <1>6, Zenon
    <2>4. Len(todo) = 2 => Head(todo).loss = ring[c].loss_pending
      BY <1>6, Zenon
    <2> QED
      BY <1>1, <2>1, <2>2, <2>3, <2>4, ZenonT(60)
  <1> HIDE DEF left
  <1>12. left <= ring[c].lost /\ ring[c].lost + 0 = left + R
    <2> HIDE DEF R
    <2>1. CASE Len(todo) = 1
      BY <1>1, <1>9, <1>11, <2>1, SMTT(60)
    <2>2. CASE Len(todo) = 2
      BY <1>1, <1>9, <1>11, <2>2
    <2> QED
      BY <1>6, <2>1, <2>2, ZenonT(60)
  <1>13. Balanced(c)'
    BY <1>1, <1>2, <1>3, <1>4, <1>8, <1>9, <1>12, ZenonT(60) DEF Balanced
  <1> QED
    BY <1>2, <1>3, <1>4, <1>5, <1>7, <1>13, BalancePush, ZenonT(60)

(* A poll reports nothing and loses nothing. *)
LEMMA BalancePoll ==
  ASSUME IInv, LInv, UNCHANGED <<prod, log, pushes>>,
         \A d \in CPUs : /\ ring'[d].lost = ring[d].lost
                         /\ ring'[d].loss_pending = ring[d].loss_pending
  PROVE  LInv'
  <1>1. ASSUME NEW q \in Producers PROVE Reports(q)'
    <2>1. CpuOf[q] \in CPUs
      BY RingAssumption, Zenon
    <2>2. Reports(q)
      BY Zenon DEF LInv
    <2> QED
      BY <2>1, <2>2, Zenon DEF Reports
  <1>2. ASSUME NEW d \in CPUs PROVE Balanced(d)'
    <2>1. Twice(d)' <=> Twice(d)
      BY Zenon DEF Twice
    <2>2. Reported(d)' = Reported(d)
      BY Zenon DEF Reported
    <2>3. Balanced(d)
      BY Zenon DEF LInv
    <2> QED
      BY <2>1, <2>2, <2>3, BalancedStays, ZenonT(60)
  <1> QED
    BY <1>1, <1>2, Zenon DEF LInv

(* Every step keeps the balance. *)
LEMMA NextBalance ==
  ASSUME Handlers = Producers, IInv, WInv, AInv, LInv, [Next]_rvars PROVE LInv'
  <1>0. Typed /\ ring \in RingsType /\ con.cpu \in CPUs
    BY Fields, Zenon DEF IInv, Typed
  <1>1. CASE \E p \in Producers : Push(p)
    BY <1>1, PushBeginBalance, PublishAllocBalance, PublishStoreBalance, PublishAdvanceBalance,
       ZenonT(60) DEF Push
  <1>2. ASSUME NEW after, PollBegin(after) PROVE LInv'
    BY <1>2, BalancePoll, Zenon DEF PollBegin
  <1>3. CASE PollStep
    <2>1. UNCHANGED <<prod, log, pushes>>
      BY <1>3, Zenon DEF PollStep, PollLoad, PollDiscard, PollCursor, PollScan, PollCopy, PollClear,
         PollTail, PollReturn
    <2>2. UNCHANGED ring \/ TailMoved(con.cpu, con.tail + 1)
      BY <1>3, Zenon DEF PollStep, PollLoad, PollDiscard, PollCursor, PollScan, PollCopy, PollClear,
         PollTail, PollReturn, TailMoved
    <2>3. \A d \in CPUs : /\ ring'[d].lost = ring[d].lost
                          /\ ring'[d].loss_pending = ring[d].loss_pending
      BY <1>0, <2>2, ZenonT(60) DEF TailMoved, RingsType
    <2> QED
      BY <2>1, <2>3, BalancePoll, ZenonT(60)
  <1>4. CASE Quiet /\ RingInit
    <2>1. /\ log' = <<>> /\ pushes' = [c \in CPUs |-> 0] /\ ring' = EmptyRing
          /\ \A p \in Producers : prod'[p].pc = "idle"
      BY <1>4, Zenon DEF RingInit, Quiet
    <2>2. \A p \in Producers : Reports(p)'
      BY <2>1, Zenon DEF Reports
    <2>3. ASSUME NEW c \in CPUs PROVE Balanced(c)'
      <3>1. pushes'[c] = 0 /\ ring'[c].lost = 0 /\ ring'[c].loss_pending = 0
        BY <2>1, Zenon DEF EmptyRing
      <3>2. ~Twice(c)'
        BY <2>1, Zenon DEF Twice, Says
      <3>3. Reported(c)' = 0
        BY <2>1, EmptyLen, TotalNone, Zenon DEF Reported
      <3>4. 0 + 0 = 0 + 0 /\ 0 <= 0 /\ 0 <= MaxPush
        BY RingAssumption
      <3> QED
        BY <3>1, <3>2, <3>3, <3>4, Zenon DEF Balanced
    <2> QED
      BY <2>2, <2>3, Zenon DEF LInv
  <1>5. CASE UNCHANGED rvars
    BY <1>5, BalancePoll, Zenon DEF rvars
  <1> QED
    BY <1>1, <1>2, <1>3, <1>4, <1>5, ZenonT(60) DEF Next

(* Nothing is lost unseen: on a CPU with no push in flight every call of push *)
(* is in the log or counted in lost, and every counted loss has been reported *)
(* by a loss record or is still pending.                                      *)
THEOREM Accounted == ASSUME Handlers = Producers PROVE Spec => []LossAccounted
  <1>1. Spec => [](IInv /\ WInv /\ AInv)
    BY Invariance, Windows, Counts, PTL
  <1>2. Init => LInv
    <2> SUFFICES ASSUME Init PROVE LInv
      OBVIOUS
    <2>1. /\ log = <<>> /\ pushes = [c \in CPUs |-> 0] /\ ring = EmptyRing
          /\ \A p \in Producers : prod[p].pc = "idle"
      BY AtRest, Zenon DEF Init
    <2>2. \A p \in Producers : Reports(p)
      BY <2>1, Zenon DEF Reports
    <2>3. ASSUME NEW c \in CPUs PROVE Balanced(c)
      <3>1. pushes[c] = 0 /\ ring[c].lost = 0 /\ ring[c].loss_pending = 0
        BY <2>1, Zenon DEF EmptyRing
      <3>2. ~Twice(c)
        BY <2>1, Zenon DEF Twice, Says
      <3>3. Reported(c) = 0
        BY <2>1, EmptyLen, TotalNone, ZenonT(60) DEF Reported
      <3>4. 0 + 0 = 0 + 0 /\ 0 <= 0 /\ 0 <= MaxPush
        BY RingAssumption
      <3> QED
        BY <3>1, <3>2, <3>3, <3>4, ZenonT(60) DEF Balanced
    <2> QED
      BY <2>2, <2>3, Zenon DEF LInv
  <1>3. (IInv /\ WInv /\ AInv) /\ LInv /\ [Next]_rvars => LInv'
    BY NextBalance, Zenon
  <1>4. IInv /\ AInv /\ LInv => LossAccounted
    <2> SUFFICES ASSUME IInv, AInv, LInv, NEW c \in CPUs, Resting(c)
                 PROVE  ring[c].lost = ring[c].loss_pending + Reported(c)
      BY EventsAdd, Zenon DEF LossAccounted
    <2>1. ~Twice(c)
      BY Zenon DEF Resting, Twice, Says
    <2>2. ring[c].lost + 0 = ring[c].loss_pending + Reported(c)
      BY <2>1, Zenon DEF LInv, Balanced
    <2>3. ring[c].lost \in Nat
      BY Fields, Zenon DEF IInv
    <2>4. ASSUME NEW l \in Nat PROVE l + 0 = l
      BY <2>4
    <2> QED
      BY <2>2, <2>3, <2>4, Zenon
  <1> QED
    BY <1>1, <1>2, <1>3, <1>4, PTL DEF Spec
=============================================================================
