---------------------------- MODULE TracerProofs ----------------------------
(***************************************************************************)
(* Theorems about Tracer: whom the programs trace, and which saved         *)
(* registers an exit or a probe is served.                                 *)
(***************************************************************************)
EXTENDS Tracer, TLAPS

-----------------------------------------------------------------------------
(* The inductive invariant.                                                *)

Active(c) == cpu[c].pc # "idle"

IsEvent(e) ==
    /\ {"pc", "tid"} \subseteq DOMAIN e
    /\ e.pc \in {"run", "lookup", "delete", "done"}
    /\ e.tid \in Tasks

IsRegs(r) ==
    /\ DOMAIN r = {"flag", "call", "value", "count"}
    /\ r.flag \in {-1, 0, 1} /\ r.call \in Nat

IsTask(r) ==
    /\ DOMAIN r = {"at", "listed", "said", "name", "parent", "calls"}
    /\ r.at \in {"user", "unborn", "kernel", "entering", "probed"}
    /\ r.said \in {"nothing", "enter", "stray"}
    /\ r.parent \in Tasks \cup {Nobody}
    /\ r.calls \in Seq(Points)

\* The state variables have their types, and the map of the lists holds what
\* the user asked for.
Typed ==
    /\ rules \in RuleSets
    /\ common_list = {Start(r[1]) + r[2] : r \in rules.lists}
    /\ DOMAIN cpu = CPUs /\ \A c \in CPUs : cpu[c] = Idle \/ IsEvent(cpu[c])
    /\ DOMAIN task = Tasks /\ \A t \in Tasks : IsTask(task[t])
    /\ DOMAIN ctx_regs_map = Keys /\ \A k \in Keys : IsRegs(ctx_regs_map[k])
    /\ child_parent_map \in [Tasks -> Tasks \cup {Nobody}]
    /\ reused \subseteq Children

\* Only the ids for children are without a process; such an id is inside no
\* call, and has a parent only if it was used before.
Births ==
    \A t \in Tasks : task[t].at = "unborn" =>
        /\ t \in Children /\ task[t].calls = <<>> /\ task[t].said = "nothing"
        /\ t \notin reused => task[t].parent = Nobody

\* The fork map: a process is in it under its own id exactly if it is listed,
\* and at all exactly if it or its parent is.
Known(t) == \/ InRules("pid_white", t)
            \/ /\ task[t].parent # Nobody
               /\ InRules("pid_white", task[t].parent)
ByRules ==
    ListedAlive /\ Room =>
        /\ \A t \in Tasks : Followed(t) <=> InRules("pid_white", t)
        /\ \A t \in Tasks \ reused : child_parent_map[t] # Nobody <=> Known(t)

\* A CPU that builds an event has its thread to itself, which waits in the
\* program of the module that is loaded.
Placed ==
    /\ \A c \in CPUs : Active(c) =>
            task[cpu[c].tid].at = IF rules.module = "stack" THEN "probed" ELSE "entering"
    /\ \A c, d \in CPUs : c # d /\ Active(c) /\ Active(d) => cpu[c].tid # cpu[d].tid
    /\ \A t \in Tasks : IF rules.module = "stack"
                        THEN task[t].at \notin {"kernel", "entering"}
                        ELSE task[t].at # "probed"

\* What sys_exit would report is the call the thread is in, and its enter
\* was reported.
OwnEnter(t) ==
    LET regs == ctx_regs_map[<<SYSCALL_ENTER, t>>]
    IN /\ /\ task[t].at = "kernel" /\ regs # NoRegs /\ regs.flag = 0
          /\ should_trace(t) /\ task[t].listed
          => regs.call = 1 /\ task[t].said = "enter"
       /\ task[t].at = "entering" /\ regs # NoRegs => regs.call = 1

\* The registers kept for a function are those of its innermost open call.
Innermost(t, e) ==
    LET regs == ctx_regs_map[<<e, t>>]
        calls == task[t].calls
    IN regs # NoRegs =>
        /\ should_trace(t)
        /\ regs.call \in 1 .. Len(calls) /\ calls[regs.call] = e
        /\ \A j \in 1 .. Len(calls) : j > regs.call => calls[j] # e

Entries == {EnterKey[p] : p \in Points} \ {0}
Paired ==
    /\ rules.module # "stack" => \A t \in Tasks \ renamed : OwnEnter(t)
    /\ rules.module = "stack" =>
            \A t \in Tasks \ (renamed \cup unwound \cup reused) :
                \A e \in Entries : Innermost(t, e)

-----------------------------------------------------------------------------
(* Types.                                                                  *)

\* An operation of read_args changes neither the thread of the event nor
\* anything the other programs look at.
Kin(e, f) == \/ e = Idle /\ f = Idle
             \/ IsEvent(e) /\ IsEvent(f) /\ f.tid = e.tid
Quiet == /\ UNCHANGED <<rules, common_list, task, ctx_regs_map, child_parent_map>>
         /\ UNCHANGED <<renamed, unwound, reused>>
Interprets == /\ DOMAIN cpu' = CPUs
              /\ \A d \in CPUs : Kin(cpu[d], cpu'[d])

\* A field that is neither the program counter nor the thread may be set.
LEMMA KinSet ==
    ASSUME NEW e, NEW f, Kin(e, f), IsEvent(e), NEW x, NEW v, x # "pc", x # "tid"
    PROVE  Kin(e, [f EXCEPT ![x] = v])
BY Zenon DEF Kin, IsEvent, Idle

LEMMA KinSame ==
    ASSUME NEW e, IsEvent(e)
    PROVE  Kin(e, e)
BY Zenon DEF Kin

\* The steps of RunsKeeping keep the kin of all events.
LEMMA RunsKin ==
    ASSUME Typed, NEW c \in CPUs, NEW code, NEW e, NEW n,
           RunsKeeping(c, code, e, n), Kin(cpu[c], e)
    PROVE  Quiet /\ Interprets
<1>1. Quiet
  BY Zenon DEF RunsKeeping, Quiet, config, history
<1>2. ASSUME NEW d \in CPUs
      PROVE  Kin(cpu[d], cpu[d])
  BY Zenon DEF Typed, Kin
<1>3. cpu' = [cpu EXCEPT ![c] = e]
  BY Zenon DEF RunsKeeping
<1>4. Interprets
  BY <1>2, <1>3, Zenon DEF Interprets, Typed
<1> QED BY <1>1, <1>4, Zenon

\* The interpreter runs only in an event.
LEMMA RunningEvent ==
    ASSUME Typed, NEW c \in CPUs, Active(c)
    PROVE  IsEvent(cpu[c])
BY DEF Typed, Active, Idle

LEMMA FetchedKin ==
    ASSUME Typed, NEW c \in CPUs, Active(c)
    PROVE  Kin(cpu[c], Fetched(c)) /\ IsEvent(cpu[c])
<1>1. IsEvent(cpu[c])
  BY RunningEvent, Zenon
<1>2. QED
  BY <1>1, Zenon DEF Kin, IsEvent, Fetched

\* Saving an item keeps the kin.
LEMMA SavedKin ==
    ASSUME NEW e, NEW f, Kin(e, f), IsEvent(e), NEW item, NEW size
    PROVE  /\ Kin(e, Lose(f)) /\ Kin(e, Put(f, item, size))
           /\ Kin(e, save_to_submit_buf(f)) /\ Kin(e, save_bytes_to_buf(f, item, size))
<1>1. Kin(e, Lose(f))
  BY Zenon DEF Kin, IsEvent, Idle, Lose
<1>2. ASSUME NEW i, NEW n
      PROVE  Kin(e, Put(f, i, n))
  BY Zenon DEF Kin, IsEvent, Idle, Put
<1>3. Kin(e, save_to_submit_buf(f))
  BY <1>1, <1>2, Zenon DEF save_to_submit_buf
<1>4. Kin(e, save_bytes_to_buf(f, item, size))
  BY <1>1, <1>2, Zenon DEF save_bytes_to_buf
<1> QED BY <1>1, <1>2, <1>3, <1>4, Zenon

\* So does what a comparison leaves.
LEMMA MatchedKin ==
    ASSUME NEW e, NEW g, Kin(e, g), IsEvent(e), NEW f, NEW b
    PROVE  Kin(e, Matched(g, f, b))
BY Zenon DEF Kin, IsEvent, Idle, Matched

\* Every operation of read_args keeps the kin of all events.
LEMMA ReadArgs ==
    ASSUME Typed, NEW c \in CPUs, read_args(c)
    PROVE  Quiet /\ Interprets
<1>1. CASE Compute(c)
  <2>1. PICK code \in {"MOVE", "READ_REG", "READ_POINTER"} : Runs(c, code, Fetched(c))
    BY <1>1, Zenon DEF Compute
  <2>2. Active(c)
    BY <2>1, Zenon DEF Runs, RunsKeeping, Running, Active
  <2>3. Kin(cpu[c], Fetched(c))
    BY <2>2, FetchedKin, Zenon
  <2>4. QED
    BY <2>1, <2>3, RunsKin, Zenon DEF Runs
<1>2. CASE SetReadLen(c)
  <2>1. PICK code, len : Runs(c, code, [Fetched(c) EXCEPT !.read_len = len])
    BY <1>2, Zenon DEF SetReadLen
  <2>2. Active(c)
    BY <2>1, Zenon DEF Runs, RunsKeeping, Running, Active
  <2>3. Kin(cpu[c], [Fetched(c) EXCEPT !.read_len = len])
    BY <2>2, FetchedKin, KinSet, Zenon
  <2>4. QED
    BY <2>1, <2>3, RunsKin, Zenon DEF Runs
<1>3. CASE SetBreakCount(c)
  <2>1. PICK code, n : Runs(c, code, [Fetched(c) EXCEPT !.break_count = n])
    BY <1>3, Zenon DEF SetBreakCount
  <2>2. Active(c)
    BY <2>1, Zenon DEF Runs, RunsKeeping, Running, Active
  <2>3. Kin(cpu[c], [Fetched(c) EXCEPT !.break_count = n])
    BY <2>2, FetchedKin, KinSet, Zenon
  <2>4. QED
    BY <2>1, <2>3, RunsKin, Zenon DEF Runs
<1>4. CASE ForBreak(c)
  <2> DEFINE e == Fetched(c)
             start == IF e.loop_count = 0 THEN e.op_key_index ELSE e.loop_index
             left == [e EXCEPT !.loop_count = 0, !.break_count = 0, !.loop_index = 0]
             again == [e EXCEPT !.loop_count = @ + 1, !.op_key_index = start,
                                !.loop_index = start]
             f == IF e.loop_count >= e.break_count THEN left ELSE again
  <2>1. Runs(c, "FOR_BREAK", f)
    BY <1>4, Zenon DEF ForBreak
  <2>2. Active(c)
    BY <2>1, Zenon DEF Runs, RunsKeeping, Running, Active
  <2>3. Kin(cpu[c], e) /\ IsEvent(cpu[c])
    BY <2>2, FetchedKin, Zenon
  <2> HIDE DEF e
  <2>4. Kin(cpu[c], left)
    BY <2>3, Zenon DEF Kin, IsEvent, Idle
  <2>5. Kin(cpu[c], again)
    BY <2>3, Zenon DEF Kin, IsEvent, Idle
  <2>6. Kin(cpu[c], f)
    BY <2>4, <2>5, Zenon
  <2> HIDE DEF f
  <2>7. QED
    BY <2>1, <2>6, RunsKin, Zenon DEF Runs
<1>5. CASE SaveReg(c)
  <2>1. Runs(c, "SAVE_REG", save_to_submit_buf(Fetched(c)))
    BY <1>5, Zenon DEF SaveReg
  <2>2. Active(c)
    BY <2>1, Zenon DEF Runs, RunsKeeping, Running, Active
  <2>3. Kin(cpu[c], save_to_submit_buf(Fetched(c)))
    BY <2>2, FetchedKin, SavedKin, Zenon
  <2>4. QED
    BY <2>1, <2>3, RunsKin, Zenon DEF Runs
<1>6. CASE SaveStruct(c)
  <2> DEFINE e == Fetched(c)
             zero == save_bytes_to_buf(e, "empty", 0)
             iov == save_bytes_to_buf(e, "iovec", 1)
             max == save_bytes_to_buf(e, "text", MAX_BYTES_ARR_SIZE)
             other == IF e.read_len = "iovec" THEN Lose(zero) ELSE zero
  <2>1. PICK f \in {zero, iov, max, other} : Runs(c, "SAVE_STRUCT", f)
    BY <1>6, Zenon DEF SaveStruct
  <2>2. Active(c)
    BY <2>1, Zenon DEF Runs, RunsKeeping, Running, Active
  <2>3. Kin(cpu[c], e) /\ IsEvent(cpu[c])
    BY <2>2, FetchedKin, Zenon
  <2> HIDE DEF e
  <2>4. Kin(cpu[c], zero) /\ Kin(cpu[c], iov) /\ Kin(cpu[c], max)
    BY <2>3, SavedKin, Zenon
  <2>5. Kin(cpu[c], Lose(zero))
    BY <2>3, <2>4, SavedKin, Zenon
  <2>6. Kin(cpu[c], f)
    BY <2>1, <2>4, <2>5, Zenon
  <2>7. QED
    BY <2>1, <2>6, RunsKin, Zenon DEF Runs
<1>7. CASE SaveString(c)
  <2> DEFINE e == Fetched(c)
  <2>1. PICK size :
            \/ \E n : RunsKeeping(c, "SAVE_STRING", Put(e, "text", size + 1), n)
            \/ Runs(c, "SAVE_STRING",
                    [save_bytes_to_buf(e, "empty", 0) EXCEPT !.unsaved = size > 0])
    BY <1>7, Zenon DEF SaveString
  <2>2. Active(c)
    BY <2>1, Zenon DEF Runs, RunsKeeping, Running, Active
  <2>3. Kin(cpu[c], e) /\ IsEvent(cpu[c])
    BY <2>2, FetchedKin, Zenon
  <2> HIDE DEF e
  <2>4. Kin(cpu[c], Put(e, "text", size + 1))
    BY <2>3, SavedKin, Zenon
  <2>5. Kin(cpu[c], save_bytes_to_buf(e, "empty", 0))
    BY <2>3, SavedKin, Zenon
  <2>6. Kin(cpu[c], [save_bytes_to_buf(e, "empty", 0) EXCEPT !.unsaved = size > 0])
    BY <2>3, <2>5, KinSet, Zenon
  <2>7. QED
    BY <2>1, <2>4, <2>6, RunsKin, Zenon DEF Runs
<1>8. CASE SavePtrString(c)
  <2> DEFINE e == save_to_submit_buf(Fetched(c))
             m == [save_bytes_to_buf(e, "magic", 0) EXCEPT !.loop_count = e.break_count]
  <2>1. PICK size : Runs(c, "SAVE_PTR_STRING",
                         IF RoomForString(e) /\ size > 0 THEN Put(e, "text", size + 1) ELSE m)
    BY <1>8, Zenon DEF SavePtrString
  <2>2. Active(c)
    BY <2>1, Zenon DEF Runs, RunsKeeping, Running, Active
  <2>3. Kin(cpu[c], e) /\ IsEvent(cpu[c])
    BY <2>2, FetchedKin, SavedKin, Zenon
  <2> HIDE DEF e
  <2>4. Kin(cpu[c], Put(e, "text", size + 1))
    BY <2>3, SavedKin, Zenon
  <2>5. Kin(cpu[c], save_bytes_to_buf(e, "magic", 0))
    BY <2>3, SavedKin, Zenon
  <2>6. Kin(cpu[c], m)
    BY <2>3, <2>5, KinSet, Zenon
  <2> HIDE DEF m
  <2>7. QED
    BY <2>1, <2>4, <2>6, RunsKin, Zenon DEF Runs
<1>9. CASE FilterValue(c)
  <2>1. PICK b : Runs(c, "FILTER_VALUE", [Fetched(c) EXCEPT !.black = b])
    BY <1>9, Zenon DEF FilterValue
  <2>2. Active(c)
    BY <2>1, Zenon DEF Runs, RunsKeeping, Running, Active
  <2>3. Kin(cpu[c], [Fetched(c) EXCEPT !.black = b])
    BY <2>2, FetchedKin, KinSet, Zenon
  <2>4. QED
    BY <2>1, <2>3, RunsKin, Zenon DEF Runs
<1>10. CASE CompareShort(c)
  <2>1. Runs(c, "FILTER_STRING", Matched(Fetched(c), Filter(c), FALSE))
    BY <1>10, Zenon DEF CompareShort
  <2>2. Active(c)
    BY <2>1, Zenon DEF Runs, RunsKeeping, Running, Active
  <2>3. Kin(cpu[c], Matched(Fetched(c), Filter(c), FALSE))
    BY <2>2, FetchedKin, MatchedKin, Zenon
  <2>4. QED
    BY <2>1, <2>3, RunsKin, Zenon DEF Runs
<1>11. CASE CompareUpdate(c)
  <2>1. Active(c) /\ Quiet
    BY <1>11, Zenon DEF CompareUpdate, Running, Active, Quiet, config, history
  <2>2. IsEvent(cpu[c])
    BY <2>1, RunningEvent, Zenon
  <2> DEFINE e == [cpu[c] EXCEPT !.pc = "lookup"]
  <2>3. cpu' = Overlapped(c, e)
    BY <1>11, Zenon DEF CompareUpdate
  <2>4. Kin(cpu[c], e)
    BY <2>2, Zenon DEF Kin, IsEvent
  <2> HIDE DEF e
  <2>5. DOMAIN cpu' = CPUs
    BY <2>3, Zenon DEF Overlapped
  <2>6. ASSUME NEW d \in CPUs, d # c
        PROVE  Kin(cpu[d], cpu'[d])
    <3>1. cpu'[d] = IF InCompare(d) THEN [cpu[d] EXCEPT !.overlap = TRUE] ELSE cpu[d]
      BY <2>3, <2>6, Zenon DEF Overlapped
    <3>2. CASE InCompare(d)
      <4>1. IsEvent(cpu[d])
        BY <3>2 DEF InCompare, Typed, Idle
      <4>2. QED
        BY <3>1, <3>2, <4>1, KinSame, KinSet
    <3>3. CASE ~InCompare(d)
      BY <3>1, <3>3, Zenon DEF Typed, Kin
    <3>4. QED
      BY <3>2, <3>3, Zenon
  <2>7. PICK b : cpu'[c] = [e EXCEPT !.overlap = b]
    BY <2>3, Zenon DEF Overlapped
  <2>8. Kin(cpu[c], cpu'[c])
    BY <2>2, <2>4, <2>7, KinSet
  <2>9. QED
    BY <2>1, <2>5, <2>6, <2>8, Zenon DEF Interprets
<1>12. CASE CompareLookup(c)
  <2>1. Active(c) /\ Quiet
    BY <1>12, Zenon DEF CompareLookup, Active, Quiet, config, history
  <2>2. IsEvent(cpu[c])
    BY <2>1, RunningEvent, Zenon
  <2>3. PICK b : cpu' = [cpu EXCEPT ![c].pc = "delete", ![c].found = b]
    BY <1>12, Zenon DEF CompareLookup
  <2>4. Kin(cpu[c], cpu'[c])
    BY <2>2, <2>3, Zenon DEF Kin, IsEvent, Typed
  <2>5. QED
    BY <2>1, <2>3, <2>4, Zenon DEF Interprets, Typed, Kin
<1>13. CASE CompareDelete(c)
  <2> DEFINE m == Matched(Fetched(c), Filter(c), cpu[c].found)
  <2>1. Active(c) /\ Quiet
    BY <1>13, Zenon DEF CompareDelete, Active, Quiet, config, history
  <2>2. IsEvent(cpu[c]) /\ Kin(cpu[c], Fetched(c))
    BY <2>1, FetchedKin, Zenon
  <2>3. cpu' = [cpu EXCEPT ![c] = [m EXCEPT !.pc = "run", !.found = FALSE]]
    BY <1>13, Zenon DEF CompareDelete, Typed
  <2>4. Kin(cpu[c], m)
    BY <2>2, MatchedKin, Zenon
  <2> HIDE DEF m
  <2>5. Kin(cpu[c], [m EXCEPT !.pc = "run", !.found = FALSE])
    BY <2>2, <2>4, Zenon DEF Kin, IsEvent, Idle
  <2>6. QED
    BY <2>1, <2>3, <2>5, Zenon DEF Interprets, Typed, Kin
<1>14. CASE EndArgs(c)
  <2>1. Active(c) /\ Quiet
    BY <1>14, Zenon DEF EndArgs, Active, Quiet, config, history
  <2>2. IsEvent(cpu[c])
    BY <2>1, RunningEvent, Zenon
  <2>3. PICK b, s : cpu' = [cpu EXCEPT ![c].pc = "done", ![c].odd = b, ![c].skip = s]
    BY <1>14, Zenon DEF EndArgs
  <2>4. Kin(cpu[c], cpu'[c])
    BY <2>2, <2>3, Zenon DEF Kin, IsEvent, Typed
  <2>5. QED
    BY <2>1, <2>3, <2>4, Zenon DEF Interprets, Typed, Kin
<1>15. QED
  BY <1>1, <1>2, <1>3, <1>4, <1>5, <1>6, <1>7, <1>8, <1>9, <1>10, <1>11, <1>12,
     <1>13, <1>14, Zenon DEF read_args

-----------------------------------------------------------------------------
(* What the steps do to the types.                                         *)

LEMMA KeyType ==
    ASSUME NEW t \in Tasks
    PROVE  /\ <<SYSCALL_ENTER, t>> \in Keys
           /\ \A p \in Points : <<EnterKey[p], t>> \in Keys
           /\ \A e \in Entries : <<e, t>> \in Keys /\ e # SYSCALL_ENTER
BY TracerAssumption, Zenon DEF Keys, Entries, SYSCALL_ENTER

\* What saving registers leaves: a full map keeps what it has, which is
\* nothing for this key.
SavedFor(m, key, flag, call) ==
    /\ DOMAIN m = Keys
    /\ \A k \in Keys : IsRegs(m[k])
    /\ \A k \in Keys \ {key} : m[k] = ctx_regs_map[k]
    /\ m[key] = NoRegs \/ (m[key].flag = flag /\ m[key].call = call)

LEMMA SavedIs ==
    ASSUME Typed, NEW key \in Keys, NEW flag \in {0, 1}, NEW call \in Nat,
           NEW value, NEW count
    PROVE  SavedFor(Saved(key, flag, call, value, count), key, flag, call)
<1> DEFINE new == [flag |-> flag, call |-> call, value |-> value, count |-> count]
<1>1. IsRegs(new) /\ new.flag = flag /\ new.call = call
  BY Zenon DEF IsRegs
<1>2. DOMAIN ctx_regs_map = Keys /\ \A k \in Keys : IsRegs(ctx_regs_map[k])
  BY Zenon DEF Typed
<1>3. CASE Saved(key, flag, call, value, count) = [ctx_regs_map EXCEPT ![key] = new]
  <2> HIDE DEF new
  <2>1. QED
    BY <1>1, <1>2, <1>3, Zenon DEF SavedFor
<1>4. CASE /\ Saved(key, flag, call, value, count) = ctx_regs_map
           /\ ctx_regs_map[key] = NoRegs
  BY <1>2, <1>4, Zenon DEF SavedFor
<1>5. QED
  BY <1>3, <1>4, Zenon DEF Saved

LEMMA DeletedIs ==
    ASSUME Typed, NEW key \in Keys
    PROVE  SavedFor(del_regs(key), key, -1, 0)
<1>1. IsRegs(NoRegs)
  BY Zenon DEF IsRegs, NoRegs
<1>2. QED
  BY <1>1, Zenon DEF SavedFor, del_regs, Typed

LEMMA NewEvent ==
    ASSUME NEW c, NEW t \in Tasks, NEW s, NEW text, NEW n, NEW v
    PROVE  IsEvent(Event(c, t, s, text, n, v)) /\ Event(c, t, s, text, n, v).tid = t
BY Zenon DEF IsEvent, Event

\* The one task a program acts for changes, the others do not.
OnlyTask(t) == /\ DOMAIN task' = Tasks /\ IsTask(task'[t])
               /\ \A x \in Tasks \ {t} : task'[x] = task[x]

Returning(calls, s) ==
    /\ s \in Seq(Points) /\ Len(s) = Len(calls) - 1
    /\ \A i \in 1 .. Len(s) : s[i] = calls[i]
LEMMA ReturnedIs ==
    ASSUME NEW calls \in Seq(Points), calls # <<>>
    PROVE  Returning(calls, Returned(calls))
<1> DEFINE n == Len(calls) - 1
<1>1. n \in Nat /\ \A i \in 1 .. n : calls[i] \in Points
  OBVIOUS
<1>2. Returned(calls) = [i \in 1 .. n |-> calls[i]]
  BY Zenon DEF Returned
<1> HIDE DEF n
<1>3. [i \in 1 .. n |-> calls[i]] \in Seq(Points) /\ Len([i \in 1 .. n |-> calls[i]]) = n
  BY <1>1
<1>4. QED
  BY <1>2, <1>3, Zenon DEF Returning, n

\* sys_enter.
LEMMA EnterDoes ==
    ASSUME Typed, NEW c \in CPUs, NEW t \in Tasks, NEW s, sys_enter(c, t, s)
    PROVE  /\ rules.module = "syscall" /\ task[t].at = "user" /\ cpu[c] = Idle
           /\ UNCHANGED <<rules, common_list, child_parent_map, renamed, unwound, reused>>
           /\ OnlyTask(t) /\ task'[t].name = task[t].name
           /\ task'[t].parent = task[t].parent /\ task'[t].calls = task[t].calls
           /\ task'[t].said = "nothing"
           /\ \/ /\ SavedFor(ctx_regs_map', <<SYSCALL_ENTER, t>>, 0, 1)
                 /\ \E e : IsEvent(e) /\ e.tid = t /\ cpu' = [cpu EXCEPT ![c] = e]
                 /\ task'[t].at = "entering"
              \/ /\ UNCHANGED <<cpu, ctx_regs_map>>
                 /\ task'[t].at = "kernel"
                 /\ ~(should_trace(t) /\ task'[t].listed)
<1>1. rules.module = "syscall" /\ task[t].at = "user" /\ cpu[c] = Idle
  BY Zenon DEF sys_enter, Typed, IsEvent
<1>2. UNCHANGED <<rules, common_list, child_parent_map, renamed, unwound, reused>>
  BY Zenon DEF sys_enter, config, history
<1>3. IsTask(task[t]) /\ DOMAIN task = Tasks
  BY Zenon DEF Typed
<1>4. PICK a \in {"entering", "kernel"} :
        task' = [task EXCEPT ![t].at = a, ![t].listed = SysListed(s), ![t].said = "nothing"]
  BY Zenon DEF sys_enter
<1>5. /\ OnlyTask(t) /\ task'[t].name = task[t].name
      /\ task'[t].parent = task[t].parent /\ task'[t].calls = task[t].calls
      /\ task'[t].said = "nothing" /\ task'[t].at = a /\ task'[t].listed = SysListed(s)
  BY <1>3, <1>4, Zenon DEF OnlyTask, IsTask
<1>6. CASE should_trace(t) /\ SysListed(s)
  <2>1. ctx_regs_map' = SavedCall(t, 0)
    BY <1>6, Zenon DEF sys_enter
  <2>2. SavedFor(ctx_regs_map', <<SYSCALL_ENTER, t>>, 0, 1)
    BY <2>1, SavedIs, KeyType, Zenon DEF SavedCall
  <2>3. PICK text, n, v : cpu' = [cpu EXCEPT ![c] = Event(c, t, s, text, n, v)]
    BY <1>6 DEF sys_enter
  <2>4. \E e : IsEvent(e) /\ e.tid = t /\ cpu' = [cpu EXCEPT ![c] = e]
    <3> DEFINE e == Event(c, t, s, text, n, v)
    <3>1. IsEvent(e) /\ e.tid = t
      BY NewEvent
    <3> HIDE DEF e
    <3>2. QED
      BY <2>3, <3>1, Zenon DEF e
  <2>5. task'[t].at = "entering"
    <3>1. task' = [task EXCEPT ![t].at = "entering", ![t].listed = SysListed(s),
                               ![t].said = "nothing"]
      BY <1>6, Zenon DEF sys_enter
    <3>2. QED
      BY <1>3, <3>1, Zenon DEF IsTask
  <2>6. QED
    BY <1>1, <1>2, <1>5, <2>2, <2>4, <2>5, Zenon
<1>7. CASE ~(should_trace(t) /\ SysListed(s))
  <2>1. UNCHANGED <<cpu, ctx_regs_map>>
    BY <1>7, Zenon DEF sys_enter
  <2>2. task'[t].at = "kernel"
    <3>1. task' = [task EXCEPT ![t].at = "kernel", ![t].listed = SysListed(s),
                               ![t].said = "nothing"]
      BY <1>7, Zenon DEF sys_enter
    <3>2. QED
      BY <1>3, <3>1, Zenon DEF IsTask
  <2>3. QED
    BY <1>1, <1>2, <1>5, <1>7, <2>1, <2>2, Zenon
<1>8. QED
  BY <1>6, <1>7, Zenon

\* The end of sys_enter and of a probe.
LEMMA FinishDoes ==
    ASSUME Typed, NEW c \in CPUs, Finish(c)
    PROVE  /\ IsEvent(cpu[c])
           /\ UNCHANGED <<rules, common_list, child_parent_map, renamed, unwound, reused>>
           /\ cpu' = [cpu EXCEPT ![c] = Idle]
           /\ LET t == cpu[c].tid
              IN /\ OnlyTask(t) /\ task'[t].name = task[t].name
                 /\ task'[t].parent = task[t].parent /\ task'[t].calls = task[t].calls
                 /\ \/ /\ task[t].at = "entering" /\ task'[t].at = "kernel"
                       /\ \/ task'[t].said = "enter" /\ UNCHANGED ctx_regs_map
                          \/ /\ task'[t].said = "nothing"
                             /\ SavedFor(ctx_regs_map', <<SYSCALL_ENTER, t>>, 1, 1)
                    \/ /\ task[t].at # "entering" /\ task'[t].at = "user"
                       /\ task'[t].said = task[t].said /\ UNCHANGED ctx_regs_map
<1> DEFINE t == cpu[c].tid
<1>1. IsEvent(cpu[c]) /\ t \in Tasks
  BY DEF Finish, Typed, Idle, IsEvent
<1>2. /\ UNCHANGED <<rules, common_list, child_parent_map, renamed, unwound, reused>>
      /\ cpu' = [cpu EXCEPT ![c] = Idle]
  BY Zenon DEF Finish, config, history
<1>3. IsTask(task[t]) /\ DOMAIN task = Tasks
  BY <1>1, Zenon DEF Typed
<1>4. CASE task[t].at = "entering" /\ cpu[c].skip
  <2>1. /\ ctx_regs_map' = SavedCall(t, 1)
        /\ task' = [task EXCEPT ![t].at = "kernel", ![t].said = "nothing"]
    BY <1>4, Zenon DEF Finish
  <2>2. SavedFor(ctx_regs_map', <<SYSCALL_ENTER, t>>, 1, 1)
    BY <1>1, <2>1, SavedIs, KeyType, Zenon DEF SavedCall
  <2> HIDE DEF t
  <2>3. /\ OnlyTask(t) /\ task'[t].name = task[t].name
        /\ task'[t].parent = task[t].parent /\ task'[t].calls = task[t].calls
        /\ task'[t].at = "kernel" /\ task'[t].said = "nothing"
    BY <1>1, <1>3, <2>1, Zenon DEF OnlyTask, IsTask
  <2>4. QED
    BY <1>1, <1>2, <1>4, <2>2, <2>3, Zenon DEF t
<1>5. CASE task[t].at = "entering" /\ ~cpu[c].skip
  <2>1. /\ ctx_regs_map' = ctx_regs_map
        /\ task' = [task EXCEPT ![t].at = "kernel", ![t].said = "enter"]
    BY <1>5, Zenon DEF Finish
  <2> HIDE DEF t
  <2>3. /\ OnlyTask(t) /\ task'[t].name = task[t].name
        /\ task'[t].parent = task[t].parent /\ task'[t].calls = task[t].calls
        /\ task'[t].at = "kernel" /\ task'[t].said = "enter"
    BY <1>1, <1>3, <2>1, Zenon DEF OnlyTask, IsTask
  <2>4. QED
    BY <1>1, <1>2, <1>5, <2>1, <2>3, Zenon DEF t
<1>6. CASE task[t].at # "entering"
  <2>1. /\ ctx_regs_map' = ctx_regs_map
        /\ task' = [task EXCEPT ![t].at = "user"]
    BY <1>6, Zenon DEF Finish
  <2> HIDE DEF t
  <2>3. /\ OnlyTask(t) /\ task'[t].name = task[t].name
        /\ task'[t].parent = task[t].parent /\ task'[t].calls = task[t].calls
        /\ task'[t].at = "user" /\ task'[t].said = task[t].said
    BY <1>1, <1>3, <2>1, Zenon DEF OnlyTask, IsTask
  <2>4. QED
    BY <1>1, <1>2, <1>6, <2>1, <2>3, Zenon DEF t
<1>7. QED
  BY <1>4, <1>5, <1>6, Zenon

\* sys_exit.
LEMMA ExitDoes ==
    ASSUME Typed, NEW t \in Tasks, sys_exit(t)
    PROVE  /\ task[t].at = "kernel"
           /\ UNCHANGED <<rules, common_list, child_parent_map, cpu, renamed, unwound, reused>>
           /\ OnlyTask(t) /\ task'[t].name = task[t].name
           /\ task'[t].parent = task[t].parent /\ task'[t].calls = task[t].calls
           /\ task'[t].at = "user"
           /\ DOMAIN ctx_regs_map' = Keys /\ \A k \in Keys : IsRegs(ctx_regs_map'[k])
           /\ \A k \in Keys : k # <<SYSCALL_ENTER, t>> => ctx_regs_map'[k] = ctx_regs_map[k]
           /\ task'[t].said = "stray" =>
                LET regs == ctx_regs_map[<<SYSCALL_ENTER, t>>]
                IN /\ should_trace(t) /\ regs # NoRegs /\ regs.flag = 0 /\ task[t].listed
                   /\ ~(regs.call = 1 /\ task[t].said = "enter")
<1> DEFINE key == <<SYSCALL_ENTER, t>>
           regs == ctx_regs_map[key]
           loads == should_trace(t) /\ regs # NoRegs
           reports == loads /\ regs.flag = 0 /\ task[t].listed
           said == IF ~reports THEN "nothing"
                   ELSE IF regs.call = 1 /\ task[t].said = "enter" THEN "nothing" ELSE "stray"
<1>1. /\ task[t].at = "kernel"
      /\ UNCHANGED <<rules, common_list, child_parent_map, cpu, renamed, unwound, reused>>
  BY Zenon DEF sys_exit, config, history
<1>2. IsTask(task[t]) /\ DOMAIN task = Tasks
  BY Zenon DEF Typed
<1>3. task' = [task EXCEPT ![t].at = "user", ![t].listed = FALSE, ![t].said = said]
  BY <1>2, Zenon DEF sys_exit, load_regs, IsTask
<1>4. said \in {"nothing", "stray"}
  OBVIOUS
<1>5. said = "stray" => reports /\ ~(regs.call = 1 /\ task[t].said = "enter")
  OBVIOUS
<1> HIDE DEF said
<1>6. /\ OnlyTask(t) /\ task'[t].name = task[t].name
      /\ task'[t].parent = task[t].parent /\ task'[t].calls = task[t].calls
      /\ task'[t].at = "user" /\ task'[t].said = said
  BY <1>2, <1>3, <1>4, Zenon DEF OnlyTask, IsTask
<1>7. key \in Keys
  BY KeyType, Zenon
<1>8. \/ ctx_regs_map' = del_regs(key)
      \/ ctx_regs_map' = [ctx_regs_map EXCEPT ![key].call = 0]
  BY Zenon DEF sys_exit
<1> HIDE DEF key
<1>9. /\ DOMAIN ctx_regs_map' = Keys /\ \A k \in Keys : IsRegs(ctx_regs_map'[k])
      /\ \A k \in Keys : k # key => ctx_regs_map'[k] = ctx_regs_map[k]
  <2>1. CASE ctx_regs_map' = del_regs(key)
    BY <1>7, <2>1, DeletedIs, Zenon DEF SavedFor
  <2>2. CASE ctx_regs_map' = [ctx_regs_map EXCEPT ![key].call = 0]
    BY <1>7, <2>2, Zenon DEF Typed, IsRegs
  <2>3. QED
    BY <1>8, <2>1, <2>2, Zenon
<1>10. QED
  BY <1>1, <1>5, <1>6, <1>9, Zenon DEF key

\* A probe that saves, that loads, and that does neither.
Saves(p) == EnterKey[p] = p
Loads(p) == EnterKey[p] \notin {0, p}
CallsAfter(t, p) ==
    /\ Saves(p) => task'[t].calls = Append(task[t].calls, p)
    /\ Loads(p) => /\ task[t].calls # <<>>
                   /\ task[t].calls[Len(task[t].calls)] = EnterKey[p]
                   /\ task'[t].calls = Returned(task[t].calls)
    /\ ~Saves(p) /\ ~Loads(p) => task'[t].calls = task[t].calls
Begun(c, t) == \E e : IsEvent(e) /\ e.tid = t /\ cpu' = [cpu EXCEPT ![c] = e]
ProbeServes(c, t, p) ==
    /\ should_trace(t)
    /\ Loads(p) => ctx_regs_map[<<EnterKey[p], t>>] # NoRegs
    /\ Begun(c, t)
    /\ task'[t].at = "probed"
    /\ Saves(p) => SavedFor(ctx_regs_map', <<p, t>>, 0, Len(task[t].calls) + 1)
    /\ Loads(p) => ctx_regs_map' = del_regs(<<EnterKey[p], t>>)
    /\ ~Saves(p) /\ ~Loads(p) => UNCHANGED ctx_regs_map
    /\ task'[t].said = "stray" =>
            /\ Loads(p)
            /\ ctx_regs_map[<<EnterKey[p], t>>].call # Len(task[t].calls)
ProbeGivesUp(t, p) ==
    /\ ~should_trace(t) \/ (Loads(p) /\ ctx_regs_map[<<EnterKey[p], t>>] = NoRegs)
    /\ UNCHANGED <<cpu, ctx_regs_map>>
    /\ task'[t].at = "user" /\ task'[t].said = "nothing"
LEMMA ProbeDoes ==
    ASSUME Typed, NEW c \in CPUs, NEW t \in Tasks, NEW p \in Points,
           probe_stack_warp(c, t, p)
    PROVE  /\ rules.module = "stack" /\ task[t].at = "user" /\ cpu[c] = Idle
           /\ UNCHANGED <<rules, common_list, child_parent_map, renamed, unwound, reused>>
           /\ OnlyTask(t) /\ task'[t].name = task[t].name
           /\ task'[t].parent = task[t].parent
           /\ CallsAfter(t, p)
           /\ ProbeServes(c, t, p) \/ ProbeGivesUp(t, p)
<1> DEFINE enter == EnterKey[p]
           saves == enter = p
           loads == enter \notin {0, p}
           regs == IF loads THEN load_regs(<<enter, t>>) ELSE NoRegs
           traced == should_trace(t) /\ (loads => regs # NoRegs)
           calls == task[t].calls
           at == IF traced THEN "probed" ELSE "user"
           after == IF saves THEN Append(calls, p)
                    ELSE IF loads THEN Returned(calls) ELSE calls
           said == IF traced /\ loads /\ regs.call # Len(calls) THEN "stray" ELSE "nothing"
<1>1. rules.module = "stack" /\ task[t].at = "user" /\ cpu[c] = Idle
  BY Zenon DEF probe_stack_warp, Typed, IsEvent
<1>2. UNCHANGED <<rules, common_list, child_parent_map, renamed, unwound, reused>>
  BY Zenon DEF probe_stack_warp, config, history
<1>3. IsTask(task[t]) /\ DOMAIN task = Tasks
  BY Zenon DEF Typed
<1>4. loads => calls # <<>> /\ calls[Len(calls)] = enter
  BY Zenon DEF probe_stack_warp
<1>5. task' = [task EXCEPT ![t].at = at, ![t].calls = after, ![t].said = said]
  BY Zenon DEF probe_stack_warp
<1>6. after \in Seq(Points)
  <2>1. calls \in Seq(Points)
    BY <1>3, Zenon DEF IsTask
  <2> HIDE DEF calls
  <2>2. loads => Returned(calls) \in Seq(Points)
    BY <1>4, <2>1, ReturnedIs, Zenon DEF Returning
  <2>3. Append(calls, p) \in Seq(Points)
    BY <2>1
  <2>4. QED
    BY <2>1, <2>2, <2>3, Zenon
<1>7. at \in {"probed", "user"} /\ said \in {"nothing", "stray"}
  OBVIOUS
<1>8. /\ OnlyTask(t) /\ task'[t].name = task[t].name
      /\ task'[t].parent = task[t].parent
      /\ task'[t].at = at /\ task'[t].calls = after /\ task'[t].said = said
  <2> HIDE DEF at, after, said
  <2>1. QED
    BY <1>3, <1>5, <1>6, <1>7, Zenon DEF OnlyTask, IsTask
<1>9. CASE traced
  <2>1. PICK text \in ArgTexts(p), n \in ArgCounts(p), v \in ArgValues(p) :
            LET value == IF loads THEN regs.value ELSE v
                count == IF loads THEN regs.count ELSE n
            IN /\ cpu' = [cpu EXCEPT ![c] = Event(c, t, p, text, count, value)]
               /\ ctx_regs_map' =
                    IF saves THEN Saved(<<p, t>>, 0, Len(calls) + 1, value, count)
                    ELSE IF loads THEN del_regs(<<enter, t>>)
                    ELSE ctx_regs_map
    BY <1>9, Zenon DEF probe_stack_warp
  <2>2. \E e : IsEvent(e) /\ e.tid = t /\ cpu' = [cpu EXCEPT ![c] = e]
    <3>1. PICK m, w : cpu' = [cpu EXCEPT ![c] = Event(c, t, p, text, m, w)]
      BY <2>1, Zenon
    <3> DEFINE e == Event(c, t, p, text, m, w)
    <3>2. IsEvent(e) /\ e.tid = t
      BY NewEvent
    <3> HIDE DEF e
    <3>3. QED
      BY <3>1, <3>2, Zenon DEF e
  <2>3. saves => SavedFor(ctx_regs_map', <<p, t>>, 0, Len(calls) + 1)
    <3>1. SUFFICES ASSUME saves PROVE SavedFor(ctx_regs_map', <<p, t>>, 0, Len(calls) + 1)
      OBVIOUS
    <3>2. PICK w, m : ctx_regs_map' = Saved(<<p, t>>, 0, Len(calls) + 1, w, m)
      BY <2>1, <3>1, Zenon
    <3>3. Len(calls) + 1 \in Nat /\ <<p, t>> \in Keys
      <4>1. Len(calls) + 1 \in Nat
        BY <1>3 DEF IsTask
      <4>2. <<EnterKey[p], t>> \in Keys
        BY KeyType, Zenon
      <4>3. QED
        BY <3>1, <4>1, <4>2, Zenon
    <3> HIDE DEF calls
    <3>4. QED
      BY <3>2, <3>3, SavedIs, Zenon
  <2>4. /\ loads => ctx_regs_map' = del_regs(<<enter, t>>)
        /\ ~saves /\ ~loads => UNCHANGED ctx_regs_map
    BY <2>1, Zenon
  <2>5. said = "stray" => loads /\ ctx_regs_map[<<enter, t>>].call # Len(calls)
    BY Zenon DEF load_regs
  <2>6. should_trace(t) /\ (loads => ctx_regs_map[<<enter, t>>] # NoRegs) /\ at = "probed"
    BY <1>9, Zenon DEF load_regs
  <2> HIDE DEF at, said
  <2>7. QED
    <3>1. CallsAfter(t, p)
      BY <1>4, <1>8, Zenon DEF Saves, Loads, CallsAfter
    <3>2. ProbeServes(c, t, p)
      BY <1>8, <2>2, <2>3, <2>4, <2>5, <2>6, Zenon DEF Saves, Loads, ProbeServes, Begun
    <3>3. QED
      BY <1>1, <1>2, <1>8, <3>1, <3>2, Zenon
<1>10. CASE ~traced
  <2>1. UNCHANGED <<cpu, ctx_regs_map>>
    BY <1>10, Zenon DEF probe_stack_warp
  <2>2. at = "user" /\ said = "nothing"
    BY <1>10, Zenon
  <2>3. ~should_trace(t) \/ (loads /\ ctx_regs_map[<<enter, t>>] = NoRegs)
    BY <1>10, Zenon DEF load_regs
  <2> HIDE DEF at, said
  <2>4. QED
    <3>1. CallsAfter(t, p)
      BY <1>4, <1>8, Zenon DEF Saves, Loads, CallsAfter
    <3>2. ProbeGivesUp(t, p)
      BY <1>8, <2>1, <2>2, <2>3, Zenon DEF Saves, Loads, ProbeGivesUp
    <3>3. QED
      BY <1>1, <1>2, <1>8, <3>1, <3>2, Zenon
<1>11. QED
  BY <1>9, <1>10, Zenon

LEMMA UnwindDoes ==
    ASSUME Typed, NEW t \in Tasks, Unwind(t)
    PROVE  /\ task[t].at = "user"
           /\ UNCHANGED <<rules, common_list, child_parent_map, cpu, ctx_regs_map,
                          renamed, reused>>
           /\ unwound' = unwound \cup {t}
           /\ OnlyTask(t) /\ task'[t].name = task[t].name /\ task'[t].at = task[t].at
           /\ task'[t].parent = task[t].parent /\ task'[t].said = task[t].said
<1>1. /\ task[t].at = "user" /\ task[t].calls # <<>>
      /\ UNCHANGED <<rules, common_list, child_parent_map, cpu, ctx_regs_map,
                     renamed, reused>>
      /\ unwound' = unwound \cup {t}
      /\ task' = [task EXCEPT ![t].calls = Returned(task[t].calls)]
  BY Zenon DEF Unwind, config, Typed, IsTask
<1>2. IsTask(task[t]) /\ DOMAIN task = Tasks
  BY Zenon DEF Typed
<1>3. Returned(task[t].calls) \in Seq(Points)
  BY <1>1, <1>2, ReturnedIs, Zenon DEF Returning, IsTask
<1>4. QED
  BY <1>1, <1>2, <1>3, Zenon DEF OnlyTask, IsTask

LEMMA RenameDoes ==
    ASSUME Typed, NEW t \in Tasks, NEW name, Rename(t, name)
    PROVE  /\ InKernel(t)
           /\ UNCHANGED <<rules, common_list, child_parent_map, cpu, ctx_regs_map,
                          unwound, reused>>
           /\ renamed' = renamed \cup {t}
           /\ OnlyTask(t) /\ task'[t].at = task[t].at /\ task'[t].calls = task[t].calls
           /\ task'[t].parent = task[t].parent /\ task'[t].said = task[t].said
<1>1. /\ InKernel(t)
      /\ UNCHANGED <<rules, common_list, child_parent_map, cpu, ctx_regs_map,
                     unwound, reused>>
      /\ renamed' = renamed \cup {t}
      /\ task' = [task EXCEPT ![t].name = name]
  BY Zenon DEF Rename, config
<1>2. IsTask(task[t]) /\ DOMAIN task = Tasks
  BY Zenon DEF Typed
<1>3. QED
  BY <1>1, <1>2, Zenon DEF OnlyTask, IsTask

LEMMA DieDoes ==
    ASSUME Typed, NEW t \in Tasks, Die(t)
    PROVE  /\ InKernel(t) /\ t \in Children
           /\ UNCHANGED <<rules, common_list, child_parent_map, cpu, renamed, unwound>>
           /\ reused' = reused \cup {t}
           /\ OnlyTask(t) /\ task'[t].at = "unborn" /\ task'[t].calls = <<>>
           /\ task'[t].said = "nothing"
           /\ DOMAIN ctx_regs_map' = Keys /\ \A k \in Keys : IsRegs(ctx_regs_map'[k])
           /\ \A k \in Keys : k[2] # t => ctx_regs_map'[k] = ctx_regs_map[k]
<1>1. /\ InKernel(t) /\ t \in Children
      /\ UNCHANGED <<rules, common_list, child_parent_map, cpu, renamed, unwound>>
      /\ reused' = reused \cup {t}
      /\ task' = [task EXCEPT ![t].at = "unborn", ![t].listed = FALSE,
                              ![t].said = "nothing", ![t].calls = <<>>]
      /\ ctx_regs_map' = [k \in Keys |->
            IF k[2] # t \/ ctx_regs_map[k] = NoRegs THEN ctx_regs_map[k]
            ELSE [ctx_regs_map[k] EXCEPT !.call = 0]]
  BY Zenon DEF Die, config
<1>2. IsTask(task[t]) /\ DOMAIN task = Tasks
  BY Zenon DEF Typed
<1>3. /\ OnlyTask(t) /\ task'[t].at = "unborn" /\ task'[t].calls = <<>>
      /\ task'[t].said = "nothing"
  BY <1>1, <1>2 DEF OnlyTask, IsTask
<1>4. ASSUME NEW k \in Keys PROVE IsRegs(ctx_regs_map'[k])
  <2>1. IsRegs(ctx_regs_map[k])
    BY Zenon DEF Typed
  <2>2. IsRegs([ctx_regs_map[k] EXCEPT !.call = 0])
    BY <2>1, Zenon DEF IsRegs
  <2>3. QED
    BY <1>1, <2>1, <2>2, Zenon
<1>5. /\ DOMAIN ctx_regs_map' = Keys
      /\ \A k \in Keys : k[2] # t => ctx_regs_map'[k] = ctx_regs_map[k]
  BY <1>1, Zenon
<1>6. QED
  BY <1>1, <1>3, <1>4, <1>5, Zenon

FamilyAfter(t, u) ==
    /\ child_parent_map' \in [Tasks -> Tasks \cup {Nobody}]
    /\ \A x \in Tasks \ {u} : child_parent_map'[x] = child_parent_map[x]
    /\ ~Followed(t) => child_parent_map'[u] = child_parent_map[u]
    /\ /\ Followed(t)
       /\ \/ child_parent_map[u] # Nobody
          \/ Cardinality({v \in Tasks : child_parent_map[v] # Nobody}) < MaxFollowed
       => child_parent_map'[u] = t
LEMMA ForkDoes ==
    ASSUME Typed, NEW t \in Tasks, NEW u \in Tasks, sched_process_fork(t, u)
    PROVE  /\ InKernel(t) /\ task[u].at = "unborn"
           /\ UNCHANGED <<rules, common_list, cpu, ctx_regs_map, renamed, unwound, reused>>
           /\ OnlyTask(u) /\ task'[u].at = "user" /\ task'[u].parent = t
           /\ task'[u].said = "nothing"
           /\ FamilyAfter(t, u)
<1> DEFINE new == [at |-> "user", listed |-> FALSE, said |-> "nothing",
                   name |-> task[t].name, parent |-> t, calls |-> task[t].calls]
<1>1. /\ InKernel(t) /\ task[u].at = "unborn"
      /\ UNCHANGED <<rules, common_list, cpu, ctx_regs_map, renamed, unwound, reused>>
      /\ task' = [task EXCEPT ![u] = new]
  BY Zenon DEF sched_process_fork, config, history
<1>2. IsTask(task[t]) /\ DOMAIN task = Tasks
  BY Zenon DEF Typed
<1>3. IsTask(new) /\ new.at = "user" /\ new.parent = t /\ new.said = "nothing"
  BY <1>2, Zenon DEF IsTask
<1> HIDE DEF new
<1>4. /\ OnlyTask(u) /\ task'[u].at = "user" /\ task'[u].parent = t
      /\ task'[u].said = "nothing"
  BY <1>1, <1>2, <1>3, Zenon DEF OnlyTask
<1>5. child_parent_map \in [Tasks -> Tasks \cup {Nobody}]
  BY Zenon DEF Typed
<1>6. child_parent_map' =
        IF /\ Followed(t)
           /\ \/ child_parent_map[u] # Nobody
              \/ Cardinality({v \in Tasks : child_parent_map[v] # Nobody}) < MaxFollowed
        THEN [child_parent_map EXCEPT ![u] = t] ELSE child_parent_map
  BY Zenon DEF sched_process_fork
<1>7. FamilyAfter(t, u)
  BY <1>5, <1>6, Zenon DEF FamilyAfter
<1>8. QED
  BY <1>1, <1>4, <1>7, Zenon

-----------------------------------------------------------------------------
(* What several steps have in common.                                      *)

\* The verdict on a thread depends on its name and on its process.
LEMMA Judged ==
    ASSUME Typed, NEW t \in Tasks, UNCHANGED <<rules, common_list>>,
           task'[t].name = task[t].name,
           child_parent_map'[Pid[t]] = child_parent_map[Pid[t]]
    PROVE  should_trace(t)' <=> should_trace(t)
BY DEF should_trace, Cascade, NameStops, NamePasses, EntriesOf, Listed, InGroup

\* A step for the process t that neither bears nor ends one.
Steady(t) == /\ OnlyTask(t) /\ UNCHANGED <<rules, common_list, child_parent_map, reused>>
             /\ task'[t].parent = task[t].parent
             /\ task[t].at # "unborn" /\ task'[t].at # "unborn"

LEMMA SteadyFamilies ==
    ASSUME NEW t \in Tasks, Steady(t), Births, ByRules
    PROVE  Births' /\ ByRules'
<1>1. Births'
  BY DEF Births, Steady, OnlyTask
<1>2. \A x \in Tasks : task'[x].parent = task[x].parent
  BY Zenon DEF Steady, OnlyTask
<1>3. ByRules'
  BY <1>2 DEF ByRules, Steady, ListedAlive, Room, InRules, Followed, Known
<1>4. QED
  BY <1>1, <1>3, Zenon

LEMMA TasksTyped ==
    ASSUME Typed, NEW t \in Tasks, OnlyTask(t)
    PROVE  DOMAIN task' = Tasks /\ \A x \in Tasks : IsTask(task'[x])
BY Zenon DEF Typed, OnlyTask

\* A thread that is in no program is on no CPU.
LEMMA Unattended ==
    ASSUME Typed, Placed, NEW t \in Tasks, task[t].at \notin {"entering", "probed"}
    PROVE  \A c \in CPUs : Active(c) => cpu[c].tid # t
BY Zenon DEF Placed

LEMMA PlacedElsewhere ==
    ASSUME Typed, Placed, NEW t \in Tasks, OnlyTask(t), UNCHANGED <<rules, cpu>>,
           task[t].at \notin {"entering", "probed"},
           task'[t].at \notin {"entering", "probed"},
           rules.module = "stack" => task'[t].at # "kernel"
    PROVE  Placed'
<1>1. ASSUME NEW c \in CPUs, Active(c)
      PROVE  cpu[c].tid \in Tasks \ {t}
  BY <1>1, Unattended, RunningEvent, Zenon DEF IsEvent
<1>2. \A c \in CPUs : Active(c)' <=> Active(c)
  BY Zenon DEF Active
<1>3. \A c \in CPUs : Active(c)' =>
        task'[cpu'[c].tid].at = IF rules.module = "stack" THEN "probed" ELSE "entering"
  BY <1>1, <1>2 DEF Placed, OnlyTask
<1>4. \A c, d \in CPUs : c # d /\ Active(c)' /\ Active(d)' => cpu'[c].tid # cpu'[d].tid
  BY <1>2, Zenon DEF Placed
<1>5. \A x \in Tasks : IF rules.module = "stack"
                       THEN task'[x].at \notin {"kernel", "entering"}
                       ELSE task'[x].at # "probed"
  BY Zenon DEF Placed, OnlyTask
<1>6. QED
  BY <1>3, <1>4, <1>5, Zenon DEF Placed

LEMMA PlacedBegins ==
    ASSUME Typed, Placed, NEW t \in Tasks, NEW c \in CPUs, NEW e, OnlyTask(t),
           UNCHANGED rules, IsEvent(e), e.tid = t, cpu' = [cpu EXCEPT ![c] = e],
           task[t].at = "user",
           task'[t].at = IF rules.module = "stack" THEN "probed" ELSE "entering"
    PROVE  Placed'
<1>1. ASSUME NEW d \in CPUs, Active(d)
      PROVE  cpu[d].tid \in Tasks \ {t}
  BY <1>1, Unattended, RunningEvent, Zenon DEF IsEvent
<1>2. /\ \A d \in CPUs \ {c} : cpu'[d] = cpu[d]
      /\ cpu'[c] = e
  BY Zenon DEF Typed
<1>3. \A d \in CPUs \ {c} : Active(d)' <=> Active(d)
  BY <1>2, Zenon DEF Active
<1>4. \A d \in CPUs : d # c /\ Active(d)' => cpu'[d].tid # t
  BY <1>1, <1>2, <1>3, Zenon
<1>5. QED
  <2>1. \A d \in CPUs : Active(d)' =>
            task'[cpu'[d].tid].at = IF rules.module = "stack" THEN "probed" ELSE "entering"
    BY <1>1, <1>2, <1>3 DEF Placed, OnlyTask
  <2>2. \A b, d \in CPUs : b # d /\ Active(b)' /\ Active(d)' => cpu'[b].tid # cpu'[d].tid
    BY <1>2, <1>3, <1>4 DEF Placed
  <2>3. \A x \in Tasks : IF rules.module = "stack"
                         THEN task'[x].at \notin {"kernel", "entering"}
                         ELSE task'[x].at # "probed"
    BY DEF Placed, OnlyTask
  <2>4. QED
    BY <2>1, <2>2, <2>3, Zenon DEF Placed

\* A thread the step is not about keeps its registers and what they mean.
LEMMA OthersPaired ==
    ASSUME Typed, NEW x \in Tasks, UNCHANGED <<rules, common_list>>,
           task'[x] = task[x], child_parent_map'[Pid[x]] = child_parent_map[Pid[x]],
           NEW e, ctx_regs_map'[<<e, x>>] = ctx_regs_map[<<e, x>>]
    PROVE  /\ e = SYSCALL_ENTER /\ OwnEnter(x) => OwnEnter(x)'
           /\ Innermost(x, e) => Innermost(x, e)'
<1>1. should_trace(x)' <=> should_trace(x)
  BY Judged, Zenon
<1>2. e = SYSCALL_ENTER /\ OwnEnter(x) => OwnEnter(x)'
  BY <1>1, Zenon DEF OwnEnter
<1>3. Innermost(x, e) => Innermost(x, e)'
  BY <1>1, Zenon DEF Innermost
<1>4. QED
  BY <1>2, <1>3, Zenon

\* What a step for the thread t has to show of the pairing: the rest follows
\* for the threads it is not about.
LEMMA PairedStep ==
    ASSUME Typed, Paired, NEW t \in Tasks, OnlyTask(t),
           UNCHANGED <<rules, common_list>>,
           renamed \subseteq renamed', unwound \subseteq unwound', reused \subseteq reused',
           \A x \in Tasks \ {t} : child_parent_map'[Pid[x]] = child_parent_map[Pid[x]],
           \A k \in Keys : k[2] # t => ctx_regs_map'[k] = ctx_regs_map[k],
           rules.module # "stack" /\ t \notin renamed' => OwnEnter(t)',
           rules.module = "stack" /\ t \notin renamed' \cup unwound' \cup reused'
                => \A e \in Entries : Innermost(t, e)'
    PROVE  Paired'
<1>1. ASSUME NEW x \in Tasks \ {t}
      PROVE  /\ OwnEnter(x) => OwnEnter(x)'
             /\ \A e \in Entries : Innermost(x, e) => Innermost(x, e)'
  <2>1. task'[x] = task[x]
    BY <1>1, Zenon DEF OnlyTask
  <2>2. ASSUME NEW e \in Entries \cup {SYSCALL_ENTER}
        PROVE  ctx_regs_map'[<<e, x>>] = ctx_regs_map[<<e, x>>]
    <3>1. <<e, x>> \in Keys /\ <<e, x>>[2] # t
      BY <1>1, <2>2, KeyType, Zenon
    <3>2. QED
      BY <3>1, Zenon
  <2>3. QED
    BY <1>1, <2>1, <2>2, OthersPaired, Zenon
<1>2. rules.module # "stack" => \A x \in Tasks \ renamed' : OwnEnter(x)'
  BY <1>1, Zenon DEF Paired
<1>3. rules.module = "stack" => \A x \in Tasks \ (renamed' \cup unwound' \cup reused') :
                                    \A e \in Entries : Innermost(x, e)'
  BY <1>1, Zenon DEF Paired
<1>4. QED
  BY <1>2, <1>3, Zenon DEF Paired

\* The same for what was said last.
LEMMA SaidStep ==
    ASSUME ExitOwnEnter, NEW t \in Tasks, OnlyTask(t), UNCHANGED rules,
           renamed \subseteq renamed', unwound \subseteq unwound', reused \subseteq reused',
           t \notin renamed' /\ task'[t].said = "stray"
                => rules.module = "stack" /\ t \in unwound' \cup reused'
    PROVE  ExitOwnEnter'
BY Zenon DEF ExitOwnEnter, OnlyTask

-----------------------------------------------------------------------------
(* Every step keeps the invariant.                                         *)

IInv == Typed /\ Births /\ ByRules /\ Placed /\ Paired /\ ExitOwnEnter

LEMMA KeepsReadArgs ==
    ASSUME IInv, NEW c \in CPUs, read_args(c)
    PROVE  IInv'
<1> USE DEF IInv
<1>1. Quiet /\ Interprets
  BY ReadArgs, Zenon
<1>2. Typed'
  BY <1>1, Zenon DEF Typed, Quiet, Interprets, Kin
<1>3. Births' /\ ByRules' /\ ExitOwnEnter'
  BY <1>1, Zenon DEF Births, ByRules, ExitOwnEnter, Quiet, ListedAlive, Room, InRules, Followed,
              Known
<1>4. \A d \in CPUs : /\ Active(d)' <=> Active(d)
                      /\ Active(d) => cpu'[d].tid = cpu[d].tid
  BY <1>1 DEF Interprets, Kin, Active, Idle, IsEvent
<1>5. Placed'
  BY <1>1, <1>4 DEF Placed, Quiet
<1>6. ASSUME NEW t \in Tasks PROVE should_trace(t)' <=> should_trace(t)
  BY <1>1, Judged, Zenon DEF Quiet
<1>7. \A t \in Tasks : OwnEnter(t)' <=> OwnEnter(t)
  BY <1>1, <1>6, Zenon DEF OwnEnter, Quiet
<1>8. \A t \in Tasks, e \in Entries : Innermost(t, e)' <=> Innermost(t, e)
  BY <1>1, <1>6 DEF Innermost, Quiet
<1>9. Paired'
  BY <1>1, <1>7, <1>8, Zenon DEF Paired, Quiet
<1>10. QED
  BY <1>2, <1>3, <1>5, <1>9, Zenon

LEMMA KeepsEnter ==
    ASSUME IInv, NEW c \in CPUs, NEW t \in Tasks, NEW s, sys_enter(c, t, s)
    PROVE  IInv'
<1> USE DEF IInv
<1>1. /\ rules.module = "syscall" /\ task[t].at = "user" /\ cpu[c] = Idle
      /\ UNCHANGED <<rules, common_list, child_parent_map, renamed, unwound, reused>>
      /\ OnlyTask(t) /\ task'[t].name = task[t].name
      /\ task'[t].parent = task[t].parent /\ task'[t].calls = task[t].calls
      /\ task'[t].said = "nothing"
  BY EnterDoes, Zenon
<1>2. \/ /\ SavedFor(ctx_regs_map', <<SYSCALL_ENTER, t>>, 0, 1)
         /\ \E e : IsEvent(e) /\ e.tid = t /\ cpu' = [cpu EXCEPT ![c] = e]
         /\ task'[t].at = "entering"
      \/ /\ UNCHANGED <<cpu, ctx_regs_map>>
         /\ task'[t].at = "kernel"
         /\ ~(should_trace(t) /\ task'[t].listed)
  BY EnterDoes, Zenon
<1>3. <<SYSCALL_ENTER, t>> \in Keys
  BY KeyType, Zenon
<1>4. /\ DOMAIN ctx_regs_map' = Keys /\ \A k \in Keys : IsRegs(ctx_regs_map'[k])
      /\ \A k \in Keys : k[2] # t => ctx_regs_map'[k] = ctx_regs_map[k]
  BY <1>2 DEF SavedFor, Typed
<1>5. DOMAIN cpu' = CPUs /\ \A d \in CPUs : cpu'[d] = Idle \/ IsEvent(cpu'[d])
  BY <1>2, Zenon DEF Typed
<1>6. Typed'
  BY <1>1, <1>4, <1>5, TasksTyped, Zenon DEF Typed
<1>7. Births' /\ ByRules'
  BY <1>1, <1>2, SteadyFamilies, Zenon DEF Steady
<1>8. Placed'
  <2>1. CASE UNCHANGED cpu /\ task'[t].at = "kernel"
    BY <1>1, <2>1, PlacedElsewhere, Zenon
  <2>2. CASE /\ \E e : IsEvent(e) /\ e.tid = t /\ cpu' = [cpu EXCEPT ![c] = e]
             /\ task'[t].at = "entering"
    BY <1>1, <2>2, PlacedBegins, Zenon
  <2>3. QED
    BY <1>2, <2>1, <2>2, Zenon
<1>9. OwnEnter(t)'
  <2>1. should_trace(t)' <=> should_trace(t)
    BY <1>1, Judged, Zenon
  <2>2. QED
    BY <1>2, <2>1, Zenon DEF OwnEnter, SavedFor
<1>10. Paired'
  BY <1>1, <1>4, <1>9, PairedStep, Zenon
<1>11. ExitOwnEnter'
  BY <1>1, SaidStep, Zenon
<1>12. QED
  BY <1>6, <1>7, <1>8, <1>10, <1>11, Zenon

LEMMA KeepsFinish ==
    ASSUME IInv, NEW c \in CPUs, Finish(c)
    PROVE  IInv'
<1> USE DEF IInv
<1>0. IsEvent(cpu[c]) /\ Active(c)
  BY FinishDoes, Zenon DEF IsEvent, Active
<1> PICK t \in Tasks : t = cpu[c].tid
  BY <1>0, Zenon DEF IsEvent
<1>1. /\ IsEvent(cpu[c]) /\ Active(c)
      /\ UNCHANGED <<rules, common_list, child_parent_map, renamed, unwound, reused>>
      /\ cpu' = [cpu EXCEPT ![c] = Idle]
  BY <1>0, FinishDoes, Zenon
<1>2. /\ OnlyTask(t) /\ task'[t].name = task[t].name
      /\ task'[t].parent = task[t].parent /\ task'[t].calls = task[t].calls
      /\ \/ /\ task[t].at = "entering" /\ task'[t].at = "kernel"
            /\ \/ task'[t].said = "enter" /\ UNCHANGED ctx_regs_map
               \/ /\ task'[t].said = "nothing"
                  /\ SavedFor(ctx_regs_map', <<SYSCALL_ENTER, t>>, 1, 1)
         \/ /\ task[t].at # "entering" /\ task'[t].at = "user"
            /\ task'[t].said = task[t].said /\ UNCHANGED ctx_regs_map
  BY FinishDoes, Zenon
<1>3. task[t].at = IF rules.module = "stack" THEN "probed" ELSE "entering"
  BY <1>1, Zenon DEF Placed
<1>4. \A d \in CPUs \ {c} : Active(d) => cpu[d].tid \in Tasks \ {t}
  BY <1>1, RunningEvent, Zenon DEF Placed, IsEvent
<1>5. /\ DOMAIN ctx_regs_map' = Keys /\ \A k \in Keys : IsRegs(ctx_regs_map'[k])
      /\ \A k \in Keys : k[2] # t => ctx_regs_map'[k] = ctx_regs_map[k]
  BY <1>2 DEF SavedFor, Typed
<1>6. /\ DOMAIN cpu' = CPUs /\ \A d \in CPUs : cpu'[d] = Idle \/ IsEvent(cpu'[d])
      /\ cpu'[c] = Idle /\ \A d \in CPUs \ {c} : cpu'[d] = cpu[d]
  BY <1>1, Zenon DEF Typed
<1>7. Typed'
  BY <1>1, <1>2, <1>5, <1>6, TasksTyped, Zenon DEF Typed
<1>8. Births' /\ ByRules'
  BY <1>1, <1>2, <1>3, SteadyFamilies, Zenon DEF Steady
<1>9. Placed'
  <2>1. \A d \in CPUs : Active(d)' => d # c /\ Active(d)
    BY <1>6 DEF Active, Idle
  <2>2. \A d \in CPUs : Active(d)' =>
            task'[cpu'[d].tid].at = IF rules.module = "stack" THEN "probed" ELSE "entering"
    <3>1. ASSUME NEW d \in CPUs, Active(d)'
          PROVE  task'[cpu'[d].tid] = task[cpu[d].tid] /\ Active(d)
      <4>1. d # c /\ Active(d)
        BY <2>1, <3>1, Zenon
      <4>2. cpu'[d] = cpu[d] /\ cpu[d].tid \in Tasks \ {t}
        BY <1>4, <1>6, <4>1, Zenon
      <4>3. QED
        BY <1>2, <4>1, <4>2, Zenon DEF OnlyTask
    <3>2. QED
      BY <3>1, Zenon DEF Placed
  <2>3. \A b, d \in CPUs : b # d /\ Active(b)' /\ Active(d)' => cpu'[b].tid # cpu'[d].tid
    BY <1>6, <2>1, SMTT(60) DEF Placed
  <2>4. \A x \in Tasks : IF rules.module = "stack"
                         THEN task'[x].at \notin {"kernel", "entering"}
                         ELSE task'[x].at # "probed"
    BY <1>1, <1>2, <1>3 DEF Placed, OnlyTask
  <2>5. QED
    BY <1>1, <2>2, <2>3, <2>4, Zenon DEF Placed
<1>10. should_trace(t)' <=> should_trace(t)
  BY <1>1, <1>2, Judged, Zenon
<1>11. rules.module # "stack" /\ t \notin renamed' => OwnEnter(t)'
  <2>1. SUFFICES ASSUME rules.module # "stack", t \notin renamed
                 PROVE  OwnEnter(t)'
    BY <1>1, Zenon
  <2>2. OwnEnter(t) /\ task[t].at = "entering"
    BY <1>3, <2>1, Zenon DEF Paired
  <2>3. CASE task'[t].said = "enter" /\ UNCHANGED ctx_regs_map
    BY <1>2, <2>2, <2>3, Zenon DEF OwnEnter
  <2>4. CASE SavedFor(ctx_regs_map', <<SYSCALL_ENTER, t>>, 1, 1)
    BY <1>2, <2>2, <2>4 DEF OwnEnter, SavedFor
  <2>5. QED
    BY <1>2, <2>2, <2>3, <2>4, Zenon
<1>12. rules.module = "stack" /\ t \notin renamed' \cup unwound' \cup reused'
            => \A e \in Entries : Innermost(t, e)'
  <2>1. SUFFICES ASSUME rules.module = "stack", t \notin renamed \cup unwound \cup reused,
                        NEW e \in Entries
                 PROVE  Innermost(t, e)'
    BY <1>1, Zenon
  <2>2. Innermost(t, e)
    BY <2>1, Zenon DEF Paired
  <2>3. UNCHANGED ctx_regs_map /\ task'[t].calls = task[t].calls
    BY <1>2, <1>3, <2>1, ZenonT(60)
  <2>4. QED
    BY <1>10, <2>2, <2>3, Zenon DEF Innermost
<1>13. Paired'
  BY <1>1, <1>2, <1>5, <1>11, <1>12, PairedStep, SMTT(60)
<1>14. ExitOwnEnter'
  BY <1>1, <1>2, SaidStep DEF ExitOwnEnter
<1>15. QED
  BY <1>7, <1>8, <1>9, <1>13, <1>14

LEMMA KeepsExit ==
    ASSUME IInv, NEW t \in Tasks, sys_exit(t)
    PROVE  IInv'
<1> USE DEF IInv
<1>1. /\ task[t].at = "kernel"
      /\ UNCHANGED <<rules, common_list, child_parent_map, cpu, renamed, unwound, reused>>
      /\ OnlyTask(t) /\ task'[t].name = task[t].name
      /\ task'[t].parent = task[t].parent /\ task'[t].calls = task[t].calls
      /\ task'[t].at = "user"
  BY ExitDoes, Zenon
<1>2. /\ DOMAIN ctx_regs_map' = Keys /\ \A k \in Keys : IsRegs(ctx_regs_map'[k])
      /\ \A k \in Keys : k # <<SYSCALL_ENTER, t>> => ctx_regs_map'[k] = ctx_regs_map[k]
  BY ExitDoes, Zenon
<1>3. task'[t].said = "stray" =>
        LET regs == ctx_regs_map[<<SYSCALL_ENTER, t>>]
        IN /\ should_trace(t) /\ regs # NoRegs /\ regs.flag = 0 /\ task[t].listed
           /\ ~(regs.call = 1 /\ task[t].said = "enter")
  BY ExitDoes, Zenon
<1>4. rules.module # "stack"
  BY <1>1, Zenon DEF Placed
<1>5. Typed'
  BY <1>1, <1>2, TasksTyped, Zenon DEF Typed
<1>6. Births' /\ ByRules'
  BY <1>1, SteadyFamilies, Zenon DEF Steady
<1>7. Placed'
  BY <1>1, PlacedElsewhere, Zenon
<1>8. OwnEnter(t)'
  BY <1>1, Zenon DEF OwnEnter
<1>9. \A k \in Keys : k[2] # t => ctx_regs_map'[k] = ctx_regs_map[k]
  BY <1>2
<1>10. Paired'
  BY <1>1, <1>4, <1>8, <1>9, PairedStep, Zenon
<1>11. t \notin renamed => task'[t].said # "stray"
  BY <1>1, <1>3, <1>4, Zenon DEF Paired, OwnEnter
<1>12. ExitOwnEnter'
  BY <1>1, <1>11, SaidStep, Zenon
<1>13. QED
  BY <1>5, <1>6, <1>7, <1>10, <1>12, Zenon

LEMMA KeepsProbe ==
    ASSUME IInv, NEW c \in CPUs, NEW t \in Tasks, NEW p \in Points,
           probe_stack_warp(c, t, p)
    PROVE  IInv'
<1> USE DEF IInv
<1> DEFINE traced == should_trace(t)
           regs == ctx_regs_map[<<EnterKey[p], t>>]
<1>1. /\ rules.module = "stack" /\ task[t].at = "user" /\ cpu[c] = Idle
      /\ UNCHANGED <<rules, common_list, child_parent_map, renamed, unwound, reused>>
      /\ OnlyTask(t) /\ task'[t].name = task[t].name
      /\ task'[t].parent = task[t].parent
  BY ProbeDoes, Zenon
<1>2. CallsAfter(t, p)
  BY ProbeDoes, Zenon
<1>3. ProbeServes(c, t, p) \/ ProbeGivesUp(t, p)
  BY ProbeDoes, Zenon
<1> HIDE DEF regs, traced
<1>4. <<EnterKey[p], t>> \in Keys /\ (Loads(p) \/ Saves(p) => EnterKey[p] \in Entries)
  <2>1. <<EnterKey[p], t>> \in Keys /\ p # 0
    BY KeyType, TracerAssumption, Zenon
  <2>2. QED
    BY <2>1, Zenon DEF Entries, Loads, Saves
<1>5. Loads(p) => SavedFor(del_regs(<<EnterKey[p], t>>), <<EnterKey[p], t>>, -1, 0)
  BY <1>4, DeletedIs, Zenon
<1>6. /\ DOMAIN ctx_regs_map' = Keys /\ \A k \in Keys : IsRegs(ctx_regs_map'[k])
      /\ \A k \in Keys : k # <<EnterKey[p], t>> => ctx_regs_map'[k] = ctx_regs_map[k]
  BY <1>3, <1>5, Zenon DEF SavedFor, Typed, Saves, ProbeServes, ProbeGivesUp
<1>7. DOMAIN cpu' = CPUs /\ \A d \in CPUs : cpu'[d] = Idle \/ IsEvent(cpu'[d])
  BY <1>3, ZenonT(60) DEF Typed, ProbeServes, ProbeGivesUp, Begun
<1>8. Typed'
  BY <1>1, <1>6, <1>7, TasksTyped DEF Typed
<1>9. Births' /\ ByRules'
  BY <1>1, <1>3, SteadyFamilies, Zenon DEF Steady, ProbeServes, ProbeGivesUp
<1>10. Placed'
  <2>1. CASE ProbeGivesUp(t, p)
    BY <1>1, <2>1, PlacedElsewhere, Zenon DEF ProbeGivesUp
  <2>2. CASE ProbeServes(c, t, p)
    <3>1. PICK e : IsEvent(e) /\ e.tid = t /\ cpu' = [cpu EXCEPT ![c] = e]
      BY <2>2, Zenon DEF ProbeServes, Begun
    <3>2. QED
      BY <1>1, <2>2, <3>1, PlacedBegins, Zenon DEF ProbeServes
  <2>3. QED
    BY <1>3, <2>1, <2>2, Zenon
<1>11. should_trace(t)' <=> traced
  BY <1>1, Judged, Zenon DEF traced
<1>12. ASSUME t \notin renamed \cup unwound \cup reused, NEW e \in Entries
       PROVE  Innermost(t, e)'
  <2> DEFINE calls == task[t].calls
             after == task'[t].calls
             r == ctx_regs_map[<<e, t>>]
             q == ctx_regs_map'[<<e, t>>]
  <2>1. /\ calls \in Seq(Points) /\ <<e, t>> \in Keys
        /\ IsRegs(r)
    BY KeyType, Zenon DEF Typed, IsTask
  <2>2. r # NoRegs => /\ traced
                      /\ r.call \in 1 .. Len(calls) /\ calls[r.call] = e
                      /\ \A j \in 1 .. Len(calls) : j > r.call => calls[j] # e
    <3>1. Innermost(t, e)
      BY <1>1, <1>12, Zenon DEF Paired
    <3>2. QED
      BY <3>1, Zenon DEF Innermost, traced
  <2>3. SUFFICES ASSUME q # NoRegs
                 PROVE  /\ traced
                        /\ q.call \in 1 .. Len(after) /\ after[q.call] = e
                        /\ \A j \in 1 .. Len(after) : j > q.call => after[j] # e
    BY <1>11, Zenon DEF Innermost
  <2>4. CASE Saves(p)
    <3>1. after = Append(calls, p) /\ EnterKey[p] = p
      BY <1>2, <2>4, Zenon DEF Saves, CallsAfter
    <3>2. /\ Len(calls) \in Nat /\ Len(after) = Len(calls) + 1 /\ after[Len(calls) + 1] = p
          /\ \A j \in 1 .. Len(calls) : after[j] = calls[j]
      BY <2>1, <3>1
    <3> HIDE DEF calls, after
    <3>3. CASE e = p
      <4>1. traced
        <5>1. CASE ctx_regs_map' = ctx_regs_map
          BY <2>2, <2>3, <5>1, Zenon
        <5>2. QED
          BY <1>3, <5>1, Zenon DEF ProbeServes, ProbeGivesUp, traced
      <4>2. SavedFor(ctx_regs_map', <<p, t>>, 0, Len(calls) + 1)
        BY <1>3, <2>4, <4>1, Zenon DEF calls, Loads, Saves, ProbeServes, ProbeGivesUp, traced
      <4>3. q.call = Len(calls) + 1
        BY <2>3, <3>3, <4>2, Zenon DEF SavedFor
      <4>4. QED
        BY <3>2, <3>3, <4>1, <4>3
    <3>4. CASE e # p
      <4>1. q = r
        BY <1>6, <2>1, <3>1, <3>4, Zenon
      <4>2. QED
        <5>1. q.call \in 1 .. Len(calls) /\ after[q.call] = e /\ traced
          BY <2>2, <2>3, <3>2, <4>1, Zenon
        <5>2. ASSUME NEW j \in 1 .. Len(after), j > q.call PROVE after[j] # e
          <6>1. CASE j = Len(calls) + 1
            BY <3>2, <3>4, <6>1, Zenon
          <6>2. CASE j \in 1 .. Len(calls)
            BY <2>2, <2>3, <3>2, <4>1, <5>2, <6>2, Zenon
          <6>3. QED
            BY <3>2, <6>1, <6>2
        <5>3. QED
          BY <3>2, <5>1, <5>2
    <3>5. QED
      BY <3>3, <3>4, Zenon
  <2>5. CASE Loads(p)
    <3>1. /\ calls # <<>> /\ calls[Len(calls)] = EnterKey[p]
          /\ after = Returned(calls)
      BY <1>2, <2>5, Zenon DEF CallsAfter
    <3>2. Returning(calls, after)
      BY <2>1, <3>1, ReturnedIs, Zenon
    <3>3. /\ Len(calls) \in Nat /\ Len(after) = Len(calls) - 1
          /\ \A j \in 1 .. Len(after) : after[j] = calls[j]
      BY <2>1, <3>2 DEF Returning
    <3>4. e # EnterKey[p]
      <4>1. CASE ProbeServes(c, t, p)
        <5>1. ctx_regs_map' = del_regs(<<EnterKey[p], t>>)
          BY <2>5, <4>1, Zenon DEF ProbeServes
        <5>2. QED
          BY <1>4, <2>3, <5>1, Zenon DEF del_regs, Typed
      <4>2. CASE ProbeGivesUp(t, p)
        <5>1. UNCHANGED ctx_regs_map /\ (~traced \/ regs = NoRegs)
          BY <4>2, Zenon DEF ProbeGivesUp, traced, regs
        <5>2. traced /\ r # NoRegs
          BY <2>2, <2>3, <5>1, Zenon
        <5>3. QED
          BY <5>1, <5>2, Zenon DEF regs
      <4>3. QED
        BY <1>3, <4>1, <4>2, Zenon
    <3>5. q = r
      BY <1>6, <2>1, <3>4, Zenon
    <3> HIDE DEF calls, after
    <3>6. r.call # Len(calls)
      BY <2>2, <2>3, <3>1, <3>4, <3>5
    <3>7. QED
      BY <2>2, <2>3, <3>3, <3>5, <3>6, SMTT(60)
  <2>6. CASE ~Saves(p) /\ ~Loads(p)
    <3>1. after = calls
      BY <1>2, <2>6, Zenon DEF CallsAfter
    <3>2. UNCHANGED ctx_regs_map
      BY <1>3, <2>6, Zenon DEF ProbeServes, ProbeGivesUp
    <3>3. QED
      BY <2>2, <2>3, <3>1, <3>2, Zenon
  <2>7. QED
    BY <2>4, <2>5, <2>6, Zenon
<1>13. \A k \in Keys : k[2] # t => ctx_regs_map'[k] = ctx_regs_map[k]
  BY <1>6
<1>14. Paired'
  BY <1>1, <1>12, <1>13, PairedStep, Zenon
<1>15. ASSUME t \notin renamed \cup unwound \cup reused
       PROVE  task'[t].said # "stray"
  <2>1. SUFFICES ASSUME traced, Loads(p), regs # NoRegs, regs.call # Len(task[t].calls)
                 PROVE  FALSE
    BY <1>3, Zenon DEF ProbeServes, ProbeGivesUp, traced, regs
  <2>2. Innermost(t, EnterKey[p])
    BY <1>1, <1>4, <1>15, <2>1, Zenon DEF Paired
  <2>3. task[t].calls \in Seq(Points)
    BY Zenon DEF Typed, IsTask
  <2> DEFINE calls == task[t].calls
  <2>4. /\ regs.call \in 1 .. Len(calls)
        /\ \A j \in 1 .. Len(calls) : j > regs.call => calls[j] # EnterKey[p]
    BY <2>1, <2>2, Zenon DEF Innermost, regs
  <2>5. calls # <<>> /\ calls[Len(calls)] = EnterKey[p]
    BY <1>2, <2>1, Zenon DEF CallsAfter
  <2> HIDE DEF calls
  <2>6. Len(calls) \in Nat /\ regs.call # Len(calls)
    BY <2>1, <2>3 DEF calls
  <2>7. Len(calls) > regs.call /\ Len(calls) \in 1 .. Len(calls)
    BY <2>4, <2>6
  <2>8. QED
    BY <2>4, <2>5, <2>7, Zenon
<1>16. ExitOwnEnter'
  BY <1>1, <1>15, SaidStep
<1>17. QED
  BY <1>8, <1>9, <1>10, <1>14, <1>16, Zenon

LEMMA KeepsUnwind ==
    ASSUME IInv, NEW t \in Tasks, Unwind(t)
    PROVE  IInv'
<1> USE DEF IInv
<1>1. /\ task[t].at = "user"
      /\ UNCHANGED <<rules, common_list, child_parent_map, cpu, ctx_regs_map,
                     renamed, reused>>
      /\ unwound' = unwound \cup {t}
      /\ OnlyTask(t) /\ task'[t].name = task[t].name /\ task'[t].at = task[t].at
      /\ task'[t].parent = task[t].parent /\ task'[t].said = task[t].said
  BY UnwindDoes, Zenon
<1>2. Typed'
  BY <1>1, TasksTyped, Zenon DEF Typed
<1>3. Births' /\ ByRules'
  BY <1>1, SteadyFamilies, Zenon DEF Steady
<1>4. Placed'
  BY <1>1, PlacedElsewhere, Zenon
<1>5. OwnEnter(t)'
  BY <1>1, Zenon DEF OwnEnter
<1>6. Paired'
  BY <1>1, <1>5, PairedStep, Zenon
<1>7. ExitOwnEnter'
  BY <1>1, SaidStep, Zenon DEF ExitOwnEnter
<1>8. QED
  BY <1>2, <1>3, <1>4, <1>6, <1>7, Zenon

LEMMA KeepsRename ==
    ASSUME IInv, NEW t \in Tasks, NEW name, Rename(t, name)
    PROVE  IInv'
<1> USE DEF IInv
<1>1. /\ task[t].at \in {"user", "kernel"} /\ (rules.module = "stack" => task[t].at = "user")
      /\ UNCHANGED <<rules, common_list, child_parent_map, cpu, ctx_regs_map,
                     unwound, reused>>
      /\ renamed' = renamed \cup {t}
      /\ OnlyTask(t) /\ task'[t].at = task[t].at /\ task'[t].calls = task[t].calls
      /\ task'[t].parent = task[t].parent /\ task'[t].said = task[t].said
  BY RenameDoes, Zenon DEF InKernel
<1>2. Typed'
  BY <1>1, TasksTyped, Zenon DEF Typed
<1>3. Births' /\ ByRules'
  BY <1>1, SteadyFamilies, Zenon DEF Steady
<1>4. Placed'
  BY <1>1, PlacedElsewhere, Zenon
<1>6. Paired'
  BY <1>1, PairedStep, Zenon
<1>7. ExitOwnEnter'
  BY <1>1, SaidStep, Zenon DEF ExitOwnEnter
<1>8. QED
  BY <1>2, <1>3, <1>4, <1>6, <1>7, Zenon

LEMMA KeepsDie ==
    ASSUME IInv, NEW t \in Tasks, Die(t)
    PROVE  IInv'
<1> USE DEF IInv
<1>1. /\ task[t].at \in {"user", "kernel"} /\ t \in Children
      /\ UNCHANGED <<rules, common_list, child_parent_map, cpu, renamed, unwound>>
      /\ reused' = reused \cup {t}
      /\ OnlyTask(t) /\ task'[t].at = "unborn" /\ task'[t].calls = <<>>
      /\ task'[t].said = "nothing"
  BY DieDoes, Zenon DEF InKernel
<1>2. /\ DOMAIN ctx_regs_map' = Keys /\ \A k \in Keys : IsRegs(ctx_regs_map'[k])
      /\ \A k \in Keys : k[2] # t => ctx_regs_map'[k] = ctx_regs_map[k]
  BY DieDoes, Zenon
<1>3. Typed'
  BY <1>1, <1>2, TasksTyped, Zenon DEF Typed
<1>4. Births'
  BY <1>1 DEF Births, OnlyTask
<1>5. \A x \in Tasks \ reused' : x # t /\ x \notin reused /\ task'[x].parent = task[x].parent
  BY <1>1, Zenon DEF OnlyTask
<1>6. ByRules'
  BY <1>1, <1>5 DEF ByRules, ListedAlive, Room, InRules, Followed, Known
<1>7. Placed'
  BY <1>1, PlacedElsewhere, Zenon
<1>8. OwnEnter(t)'
  BY <1>1, Zenon DEF OwnEnter
<1>9. Paired'
  BY <1>1, <1>2, <1>8, PairedStep, Zenon
<1>10. ExitOwnEnter'
  BY <1>1, SaidStep, Zenon
<1>11. QED
  BY <1>3, <1>4, <1>6, <1>7, <1>9, <1>10, Zenon

INSTANCE FiniteSetTheorems

\* While a process is not in the fork map, the map has room for it.
LEMMA RoomLeft ==
    ASSUME Typed, Room, NEW u \in Tasks, child_parent_map[u] = Nobody
    PROVE  Cardinality({v \in Tasks : child_parent_map[v] # Nobody}) < MaxFollowed
<1> DEFINE S == {v \in Tasks : child_parent_map[v] # Nobody}
<1>1. S \subseteq Tasks \ {u}
  OBVIOUS
<1>2. IsFiniteSet(Tasks \ {u}) /\ Cardinality(Tasks \ {u}) = Cardinality(Tasks) - 1
  BY FS_RemoveElement, TracerAssumption, Zenon
<1>3. Cardinality(S) <= Cardinality(Tasks \ {u}) /\ IsFiniteSet(S)
  BY <1>1, <1>2, FS_Subset, ZenonT(60)
<1>4. Cardinality(S) \in Nat /\ Cardinality(Tasks) \in Nat
  BY <1>3, FS_CardinalityType, TracerAssumption
<1>5. QED
  BY <1>2, <1>3, <1>4, TracerAssumption DEF Room

LEMMA KeepsFork ==
    ASSUME IInv, NEW t \in Tasks, NEW u \in Tasks, sched_process_fork(t, u)
    PROVE  IInv'
<1> USE DEF IInv
<1>1. /\ task[t].at \in {"user", "kernel"} /\ task[u].at = "unborn"
      /\ UNCHANGED <<rules, common_list, cpu, ctx_regs_map, renamed, unwound, reused>>
      /\ OnlyTask(u) /\ task'[u].at = "user" /\ task'[u].parent = t
      /\ task'[u].said = "nothing"
  BY ForkDoes DEF InKernel
<1>2. FamilyAfter(t, u)
  BY ForkDoes, Zenon
<1>3. /\ child_parent_map' \in [Tasks -> Tasks \cup {Nobody}]
      /\ \A x \in Tasks \ {u} : child_parent_map'[x] = child_parent_map[x]
      /\ ~Followed(t) => child_parent_map'[u] = child_parent_map[u]
  BY <1>2, Zenon DEF FamilyAfter
<1>4. Room /\ Followed(t) => child_parent_map'[u] = t
  BY <1>2, RoomLeft, Zenon DEF FamilyAfter
<1>5. /\ u \in Children /\ u # t /\ task[u].calls = <<>>
      /\ u \notin reused => task[u].parent = Nobody
  BY <1>1, ZenonT(60) DEF Births
<1>6. Typed'
  BY <1>1, <1>3, TasksTyped, SMTT(60) DEF Typed
<1>7. Births'
  BY <1>1 DEF Births, OnlyTask
<1>8. ByRules'
  <2>1. SUFFICES ASSUME ListedAlive, Room
                 PROVE  /\ \A x \in Tasks : Followed(x)' <=> InRules("pid_white", x)
                        /\ \A x \in Tasks \ reused :
                                child_parent_map'[x] # Nobody <=> Known(x)'
    BY <1>1, Zenon DEF ByRules, ListedAlive, Room, InRules
  <2>2. /\ \A x \in Tasks : Followed(x) <=> InRules("pid_white", x)
        /\ \A x \in Tasks \ reused : child_parent_map[x] # Nobody <=> Known(x)
    BY <2>1, Zenon DEF ByRules
  <2>3. ~InRules("pid_white", u)
    BY <1>5, <2>1, SMTT(60) DEF ListedAlive
  <2>4. ~Followed(u)'
    BY <1>3, <1>4, <1>5, <2>1, <2>2, <2>3, SMTT(60) DEF Followed
  <2>5. \A x \in Tasks \ {u} : /\ Followed(x)' <=> Followed(x)
                               /\ Known(x)' <=> Known(x)
    BY <1>1, <1>3 DEF Followed, Known, OnlyTask, InRules
  <2>8. t # Nobody
    BY TracerAssumption, ZenonT(60) DEF Nobody
  <2>6. Known(u)' <=> InRules("pid_white", t)
    BY <1>1, <2>3, <2>8 DEF Known, InRules
  <2>7. u \notin reused => child_parent_map[u] = Nobody
    BY <1>5, <2>2, <2>3 DEF Known
  <2>9. u \notin reused => (child_parent_map'[u] # Nobody <=> Known(u)')
    <3>1. CASE Followed(t)
      BY <1>4, <2>1, <2>2, <2>6, <2>8, <3>1, SMTT(60)
    <3>2. CASE ~Followed(t)
      BY <1>3, <2>2, <2>6, <2>7, <3>2
    <3>3. QED
      BY <3>1, <3>2, Zenon
  <2>10. QED
    BY <1>3, <2>2, <2>3, <2>4, <2>5, <2>9, ZenonT(60)
<1>9. Placed'
  BY <1>1, PlacedElsewhere, Zenon
<1>10. \A x \in Tasks \ {u} : child_parent_map'[Pid[x]] = child_parent_map[Pid[x]]
  <2>1. \A x \in Tasks \ {u} : Pid[x] \in Tasks \ {u}
    BY <1>5, TracerAssumption
  <2>2. QED
    BY <1>3, <2>1, Zenon
<1>11. OwnEnter(u)'
  BY <1>1, Zenon DEF OwnEnter
<1>12. rules.module = "stack" /\ u \notin renamed' \cup unwound' \cup reused'
            => \A e \in Entries : Innermost(u, e)'
  <2>1. SUFFICES ASSUME rules.module = "stack", u \notin renamed \cup unwound \cup reused,
                        NEW e \in Entries
                 PROVE  Innermost(u, e)'
    BY <1>1, Zenon
  <2>2. Innermost(u, e)
    BY <2>1, Zenon DEF Paired
  <2>3. ctx_regs_map[<<e, u>>] = NoRegs
    BY <1>5, <2>2, SMTT(60) DEF Innermost
  <2>4. QED
    BY <1>1, <2>3, Zenon DEF Innermost
<1>13. Paired'
  BY <1>1, <1>10, <1>11, <1>12, PairedStep, SMTT(60)
<1>14. ExitOwnEnter'
  BY <1>1, SaidStep
<1>15. QED
  BY <1>6, <1>7, <1>8, <1>9, <1>13, <1>14, SMTT(60)

LEMMA Initially ==
    ASSUME Init
    PROVE  IInv
<1>1. \A t \in Tasks : /\ IsTask(task[t]) /\ task[t].said = "nothing"
                       /\ task[t].at \in {"user", "unborn"}
                       /\ task[t].parent = Nobody /\ task[t].calls = <<>>
                       /\ task[t].at = "unborn" <=> t \in Children
  <2>1. ASSUME NEW t \in Tasks
        PROVE  /\ task[t] \in [at : {"user", "unborn"}, listed : {FALSE},
                                said : {"nothing"}, name : {FirstName},
                                parent : {Nobody}, calls : {<<>>}]
               /\ task[t].at = "unborn" <=> t \in Children
    BY Zenon DEF Init
  <2>2. <<>> \in Seq(Points)
    OBVIOUS
  <2>3. QED
    BY <2>1, <2>2, Zenon DEF IsTask
<1>2. \A k \in Keys : ctx_regs_map[k] = NoRegs
  BY Zenon DEF Init
<1>3. IsRegs(NoRegs)
  BY Zenon DEF IsRegs, NoRegs
<1>4. Typed
  BY <1>1, <1>2, <1>3 DEF Init, Typed
<1>5. Births
  BY <1>1, Zenon DEF Births
<1>6. ByRules
  <2>1. \A t \in Tasks : t # Nobody
    BY TracerAssumption, Zenon DEF Nobody
  <2>2. QED
    BY <1>1, <2>1, Zenon DEF ByRules, Init, InRules, Followed, Known
<1>7. Placed
  BY <1>1, Zenon DEF Placed, Init, Active, Idle
<1>8. Paired
  <2>1. \A t \in Tasks : OwnEnter(t)
    BY <1>1, ZenonT(60) DEF OwnEnter
  <2>2. \A t \in Tasks, e \in Entries : Innermost(t, e)
    BY <1>2, KeyType, Zenon DEF Innermost
  <2>3. QED
    BY <2>1, <2>2, Zenon DEF Paired
<1>9. ExitOwnEnter
  BY <1>1, Zenon DEF ExitOwnEnter
<1>10. QED
  BY <1>4, <1>5, <1>6, <1>7, <1>8, <1>9, SMTT(60) DEF IInv

LEMMA Stutters ==
    ASSUME IInv, UNCHANGED vars
    PROVE  IInv'
<1> USE DEF IInv, vars, config, history
<1>1. Typed' /\ Births' /\ ByRules' /\ ExitOwnEnter'
  BY Zenon DEF Typed, Births, ByRules, ExitOwnEnter, ListedAlive, Room, InRules, Followed, Known
<1>2. Placed'
  BY Zenon DEF Placed, Active
<1>3. ASSUME NEW t \in Tasks PROVE should_trace(t)' <=> should_trace(t)
  BY Judged, Zenon
<1>4. \A t \in Tasks : OwnEnter(t)' <=> OwnEnter(t)
  BY <1>3, ZenonT(60) DEF OwnEnter
<1>5. \A t \in Tasks, e \in Entries : Innermost(t, e)' <=> Innermost(t, e)
  BY <1>3 DEF Innermost
<1>6. Paired'
  BY <1>4, <1>5, Zenon DEF Paired
<1>7. QED
  BY <1>1, <1>2, <1>6

LEMMA Stepwise ==
    ASSUME IInv, [Next]_vars
    PROVE  IInv'
<1>1. ASSUME NEW c \in CPUs, read_args(c) \/ Finish(c) PROVE IInv'
  BY <1>1, KeepsReadArgs, KeepsFinish
<1>2. ASSUME NEW c \in CPUs, NEW t \in Tasks, NEW s, sys_enter(c, t, s) PROVE IInv'
  BY <1>2, KeepsEnter
<1>3. ASSUME NEW c \in CPUs, NEW t \in Tasks, NEW p \in Points, probe_stack_warp(c, t, p)
      PROVE  IInv'
  BY <1>3, KeepsProbe
<1>4. ASSUME NEW t \in Tasks, sys_exit(t) \/ Unwind(t) \/ Die(t) PROVE IInv'
  BY <1>4, KeepsExit, KeepsUnwind, KeepsDie
<1>5. ASSUME NEW t \in Tasks, NEW name, Rename(t, name) PROVE IInv'
  BY <1>5, KeepsRename
<1>6. ASSUME NEW t \in Tasks, NEW u \in Tasks, sched_process_fork(t, u) PROVE IInv'
  BY <1>6, KeepsFork
<1>7. QED
  BY <1>1, <1>2, <1>3, <1>4, <1>5, <1>6, Stutters, ZenonT(60) DEF Next

-----------------------------------------------------------------------------
(* The theorems.                                                           *)

\* The invariant holds throughout: the families of the fork map, the threads
\* in their programs, and the registers of the calls they are in.
THEOREM Invariance == Spec => []IInv
<1>1. Init => IInv
  BY Initially, Zenon
<1>2. IInv /\ [Next]_vars => IInv'
  BY Stepwise, Zenon
<1>3. QED
  BY <1>1, <1>2, PTL DEF Spec

\* A sys_exit is reported only with the registers its own sys_enter saved and
\* after that sys_enter was reported, and a probe inside a function is served
\* the registers of the very call it is in, for any number of CPUs, threads,
\* probe points and calls inside each other.
THEOREM OwnRegisters == Spec => []ExitOwnEnter
<1>1. IInv => ExitOwnEnter
  BY Zenon DEF IInv
<1>2. QED
  BY <1>1, Invariance, PTL

\* Two lists of common_list never meet while the ids are below their distance.
LEMMA ListsApart ==
    ASSUME NEW l \in DOMAIN Position, NEW m \in DOMAIN Position, NEW x \in Nat, NEW y \in Nat,
           x < Gap, y < Gap, Start(l) + x = Start(m) + y
    PROVE  l = m /\ x = y
<1>1. Gap \in Nat
  BY TracerAssumption, Zenon
<1>2. l = m
  BY <1>1 DEF Position, Start
<1>3. Start(l) \in Nat
  BY <1>1 DEF Start, Position
<1>4. QED
  BY <1>2, <1>3

LEMMA ListedIs ==
    ASSUME Typed, SmallIds, NEW l \in DOMAIN Position, NEW x \in Nat, x < Gap
    PROVE  Listed(l, x) <=> <<l, x>> \in rules.lists
<1>1. rules.lists \subseteq (DOMAIN Position) \X Nat
  BY TracerAssumption, Zenon DEF Typed
<1>2. common_list = {Start(r[1]) + r[2] : r \in rules.lists}
  BY Zenon DEF Typed
<1>3. ASSUME <<l, x>> \in rules.lists PROVE Listed(l, x)
  BY <1>2, <1>3 DEF Listed
<1>4. ASSUME Listed(l, x) PROVE <<l, x>> \in rules.lists
  <2>1. PICK r \in rules.lists : Start(l) + x = Start(r[1]) + r[2]
    BY <1>2, <1>4 DEF Listed
  <2>2. PICK a \in DOMAIN Position, n \in Nat : r = <<a, n>>
    BY <1>1
  <2>3. r[1] = a /\ r[2] = n /\ n < Gap
    BY <2>2, Zenon DEF SmallIds
  <2>4. l = a /\ x = n
    BY <2>1, <2>3, ListsApart
  <2>5. QED
    BY <2>2, <2>4
<1>5. QED
  BY <1>3, <1>4

\* should_trace decides by the rules and by descent, for any number of
\* threads, any rules and any history of forks, exits and renames.
THEOREM TracedAsAsked == Spec => []TracedByRule
<1>1. ASSUME IInv PROVE TracedByRule
  <2> USE DEF IInv
  <2>1. SUFFICES ASSUME SmallIds, ListedAlive, Room, NEW t \in Tasks \ reused,
                        task[t].at # "unborn"
                 PROVE  should_trace(t) <=>
                            Cascade(t, {e[1] : e \in EntriesOf(t) \cap rules.lists}, Descends(t))
    BY <1>1, Zenon DEF TracedByRule
  <2>2. ASSUME NEW d \in EntriesOf(t)
        PROVE  Listed(d[1], d[2]) <=> d \in rules.lists
    <3>1. PICK l \in DOMAIN Position, x \in {t, Pid[t], Uid[t]} : d = <<l, x>>
      BY <2>2 DEF EntriesOf, Position
    <3>2. x \in Nat /\ x < Gap
      BY <2>1, TracerAssumption DEF SmallIds
    <3>3. d[1] = l /\ d[2] = x
      BY <3>1, Zenon
    <3>4. QED
      BY <1>1, <2>1, <3>1, <3>2, <3>3, ListedIs, SMTT(60)
  <2>3. {d \in EntriesOf(t) : Listed(d[1], d[2])} = EntriesOf(t) \cap rules.lists
    BY <2>2, Zenon
  <2>4. Pid[t] \in Tasks \ reused
    BY <1>1, <2>1, TracerAssumption, ZenonT(60) DEF Typed
  <2>5. child_parent_map[Pid[t]] # Nobody <=> Descends(t)
    BY <1>1, <2>1, <2>4 DEF ByRules, Known, Descends
  <2> DEFINE A == {e[1] : e \in {d \in EntriesOf(t) : Listed(d[1], d[2])}}
             B == {e[1] : e \in EntriesOf(t) \cap rules.lists}
             f == child_parent_map[Pid[t]] # Nobody
  <2>6. A = B
    BY <2>3, Zenon
  <2>7. should_trace(t) <=> Cascade(t, A, f)
    BY Zenon DEF should_trace
  <2>8. f <=> Descends(t)
    BY <2>5, Zenon
  <2> HIDE DEF A, B, f
  <2>9. Cascade(t, B, f) <=> Cascade(t, B, Descends(t))
    BY <2>8, Zenon DEF Cascade
  <2>10. QED
    BY <2>6, <2>7, <2>9, Zenon DEF B
<1>2. QED
  BY <1>1, Invariance, PTL
=============================================================================
