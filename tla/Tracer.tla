------------------------------- MODULE Tracer -------------------------------
(***************************************************************************)
(* The eBPF tracer: the programs of src/syscall.c (fork, sys_enter,        *)
(* sys_exit) and of src/stack.c (uprobes), the interpreter read_args that  *)
(* runs the list of operations user space compiled for a system call or a  *)
(* probe point, the argument buffer it fills, and the Go code that builds  *)
(* the lists (the Go code that takes the buffer apart is in Decoder).  The *)
(* two modules are loaded with maps of their own: a behaviour has one of   *)
(* them.                                                                   *)
(*                                                                         *)
(* A program runs on a CPU without being preempted, so its scratch context *)
(* op_ctx and its buffer are its own.  The maps common_list, ctx_regs_map, *)
(* child_parent_map and str_buf are shared by all CPUs.  The steps of the  *)
(* interpreter that touch only its own CPU commute with the steps of the   *)
(* other CPUs: one CPU at a time is in the middle of them (Private).  The  *)
(* three accesses to str_buf of a string comparison interleave freely.     *)
(*                                                                         *)
(* The buffer is a sequence of items named by their shape, which is what   *)
(* the decoder depends on: a fixed item ("reg"), an item with its length   *)
(* in front ("text", or "empty" for length 0), one whose length is that of *)
(* a struct iovec ("iovec"), and the end mark of a string array ("magic"). *)
(* Item sizes and the room each save demands are scaled down.  A read of   *)
(* user memory may fail at any time.                                       *)
(***************************************************************************)
EXTENDS Integers, Sequences, FiniteSets

CONSTANTS
    CPUs,
    Tasks,          \* thread ids, numbers
    Children,       \* the ids free for processes that are forked
    Pid,            \* [Tasks -> Tasks], the thread group leader
    Uid,            \* [Tasks -> Nat]
    OwnPid,         \* config.stackplz_pid
    RuleSets,       \* what a user may ask for: [module, lists, groups, all]
    Gap,            \* 0x400, the distance of two lists in common_list
    WhiteNames, BlackNames,   \* thread_filter
    Names, FirstName,
    Args,           \* [sysno or probe point -> sequence of argument types]
    Filters,        \* [the same -> sequence of filters: arg, type, val]
    Points,         \* probe points, numbers above 0
    EnterKey,       \* [Points -> the point whose registers it saves (itself)
                    \*  or loads, or 0]
    MaxDepth,       \* bound: calls of probed functions open in a thread
    Texts,          \* texts as long as the filters, compared in that length
    Values,         \* values of the register of an "int" argument
    Calls,          \* [Tasks -> the system calls it makes, the points it meets]
    Renamable,      \* the threads that change their name
    IovCounts,      \* values of the register that holds an iovec's count
    MAX_OP_COUNT, MAX_LOOP_COUNT, MAX_IOV_COUNT,
    ARGS_BUF_SIZE, MAX_STRING_SIZE, MAX_BYTES_ARR_SIZE, MAX_ELEMENT_SIZE,
    MaxRegs,        \* capacity of ctx_regs_map
    MaxFollowed     \* capacity of child_parent_map

Position == [sys_white |-> 1, sys_black |-> 2, uid_white |-> 3, uid_black |-> 4,
             pid_white |-> 5, pid_black |-> 6, tid_white |-> 7, tid_black |-> 8]

\* Ids are numbers; a child is a process of one thread; rules name lists of
\* ids; a probe point that belongs to a function names the point it begins at.
ASSUME TracerAssumption ==
    /\ IsFiniteSet(Tasks) /\ Tasks \subseteq Nat \ {0} /\ Children \subseteq Tasks
    /\ Pid \in [Tasks -> Tasks] /\ Uid \in [Tasks -> Nat]
    /\ \A t \in Tasks : t \in Children \/ Pid[t] \in Children => Pid[t] = t
    /\ \A r \in RuleSets : r.lists \subseteq (DOMAIN Position) \X Nat
    /\ Gap \in Nat \ {0} /\ MaxFollowed \in Nat /\ Points \subseteq Nat \ {0}
    /\ EnterKey \in [Points -> Points \cup {0}]
    /\ \A p \in Points : EnterKey[p] = 0 \/ EnterKey[EnterKey[p]] = EnterKey[p]

VARIABLES
    rules,              \* what the user asked for: the module, entries <<list,
                        \* id>>, groups of users, whether every system call
    common_list,        \* the keys in the map of all lists
    task,               \* [Tasks -> where it is, its name, the probed functions
                        \* it is inside of, by their first points, ...]
    cpu,                \* [CPUs -> the event being built]
    op_ctx,             \* [CPUs -> what op_ctx keeps between events]
    ctx_regs_map,       \* [Keys -> saved registers or NoRegs]
    child_parent_map,   \* [Tasks -> the followed parent or 0]
    str_buf,            \* the texts in the map of the comparisons
    renamed,            \* tasks renamed inside a call (history)
    unwound,            \* tasks that left a probed call elsewhere (history)
    reused              \* ids given to a second process (history)

config == <<rules, common_list>>
history == <<renamed, unwound, reused>>
vars == <<config, task, cpu, op_ctx, ctx_regs_map, child_parent_map,
          str_buf, history>>

Sysnos == DOMAIN Args
HasVector(s) == \E i \in DOMAIN Args[s] : Args[s][i] = "iovec"
SYSCALL_ENTER == 0
Keys == ({SYSCALL_ENTER} \cup {EnterKey[p] : p \in Points}) \X Tasks
NoRegs == [flag |-> -1, call |-> 0, value |-> 0, count |-> 0]
AnyText == "any"           \* the text of a call that has no string filter
Short == "short"           \* a text shorter than the filters
Unreadable == "unreadable"
Nobody == 0

-----------------------------------------------------------------------------
(* The lists of filtering.h, all kept in one map at different offsets.     *)

\* Mutant of Start: the thread lists begin where the process lists do.
StartOverlaps(list) ==
    (IF Position[list] > 6 THEN Position[list] - 2 ELSE Position[list]) * Gap

Start(list) == Position[list] * Gap

Listed(list, id) == Start(list) + id \in common_list

\* The thread name goes before all lists.
NamePasses(t) == task[t].name \in WhiteNames
NameStops(t) == \/ task[t].name \in BlackNames
                \/ WhiteNames # {} /\ ~NamePasses(t)

\* trace_uid_group.
InGroup(uid) == \E g \in rules.groups :
    CASE g = "root" -> uid = 0
      [] g = "system" -> uid = 1000
      [] g = "shell" -> uid = 2000
      [] g = "app" -> uid \in 10000..19999
      [] g = "iso" -> uid \in 99000..99999

\* The cascade of should_trace for a thread that is on the lists `on';
\* followed: the fork map knows its process.
Cascade(t, on, followed) ==
    /\ Pid[t] # OwnPid
    /\ ~NameStops(t)
    /\ \/ NamePasses(t)
       \/ /\ "tid_black" \notin on
          /\ \/ "tid_white" \in on
             \/ /\ "pid_black" \notin on
                /\ \/ "pid_white" \in on
                   \/ followed
                   \/ /\ "uid_black" \notin on
                      /\ "uid_white" \in on \/ InGroup(Uid[t])

\* The entries that would put the thread on each of the lists.
EntriesOf(t) == ({"tid_black", "tid_white"} \X {t})
                \cup ({"pid_black", "pid_white"} \X {Pid[t]})
                \cup ({"uid_black", "uid_white"} \X {Uid[t]})

should_trace(t) ==
    Cascade(t, {e[1] : e \in {d \in EntriesOf(t) : Listed(d[1], d[2])}},
            child_parent_map[Pid[t]] # Nobody)

SysListed(s) == (rules.all \/ Listed("sys_white", s)) /\ ~Listed("sys_black", s)

-----------------------------------------------------------------------------
(* The operation lists user space compiles, one per system call.           *)

Op(code) == [code |-> code, post |-> "SKIP", value |-> 0]
OpPost(code, post) == [Op(code) EXCEPT !.post = post]
NewValue(code, value) == [Op(code) EXCEPT !.value = value]
Skip == Op("SKIP")

r_IOVEC == <<Op("SET_LEN_IOVEC"), Op("SAVE_STRUCT"), Op("SET_LEN_MAX"),
             OpPost("READ_POINTER", "SET_LEN_POINTER"), Op("READ_POINTER"),
             Op("MOVE"), Op("SAVE_STRUCT")>>

GetOpKeyList(type) ==
    CASE type = "int" -> <<>>
      [] type = "string" -> <<Op("SAVE_STRING")>>
      [] type = "string_array" ->
            <<Op("SET_BREAK_COUNT"), Op("FOR_BREAK"), Op("SAVE_PTR_STRING"),
              Op("MOVE"), Op("FOR_BREAK")>>
      [] type = "iovec" ->
            <<OpPost("READ_REG", "SET_BREAK_COUNT_REG_VALUE"), Op("SAVE_REG"),
              Op("FOR_BREAK"), Op("MOVE")>> \o r_IOVEC
              \o <<Op("MOVE"), Op("MOVE"), Op("FOR_BREAK")>>

\* A filter is an operation that names it: on the register before the data
\* of the argument, on a string behind it.
GetOpList(s, i) ==
    LET mine == SelectSeq([j \in DOMAIN Filters[s] |-> j],
                          LAMBDA j : Filters[s][j].arg = i)
        ops(code) == [k \in DOMAIN mine |-> NewValue(code, mine[k])]
        read == <<OpPost("READ_REG", "SAVE_REG"), Op("MOVE")>>
    IN IF Args[s][i] = "string"
       THEN read \o GetOpKeyList("string") \o ops("FILTER_STRING")
       ELSE read \o ops("FILTER_VALUE") \o GetOpKeyList(Args[s][i])

\* AddPointArg over the arguments, and what the table holds behind them.
op_key_list ==
    [s \in Sysnos |->
        LET upTo[n \in 0..Len(Args[s])] ==
                IF n = 0 THEN <<>> ELSE upTo[n - 1] \o GetOpList(s, n)
        IN upTo[Len(Args[s])]]
OpAt(s, index) ==
    IF index < Len(op_key_list[s]) THEN op_key_list[s][index + 1] ELSE Skip

-----------------------------------------------------------------------------
(* Saving an item.  A save stores the whole item or nothing.               *)

Put(e, item, size) == [e EXCEPT !.buf = Append(@, item), !.off = @ + size]
Lose(e) == [e EXCEPT !.odd = TRUE]

save_to_submit_buf(e) ==
    IF e.off > ARGS_BUF_SIZE - (MAX_ELEMENT_SIZE + 1)
    THEN Lose(e) ELSE Put(e, "reg", 2)

RoomForBytes(e) == e.off <= ARGS_BUF_SIZE - (MAX_BYTES_ARR_SIZE + 1)
RoomForString(e) == e.off <= ARGS_BUF_SIZE - (MAX_STRING_SIZE + 1)

save_bytes_to_buf(e, item, size) ==
    IF RoomForBytes(e) THEN Put(e, item, size + 1) ELSE Lose(e)

-----------------------------------------------------------------------------
(* The interpreter.                                                        *)

Idle == [pc |-> "idle"]
Private == \E c \in CPUs : cpu[c].pc \in {"run", "done"}

\* The memset of the first eight bytes of op_ctx, and the values set after
\* it: every loop and filter field starts at zero; post_code and str_len do
\* not, they are those of the last event on this CPU.
Event(c, t, s, text, count, value) ==
    [pc |-> "run", tid |-> t, sys |-> s, text |-> text, count |-> count,
     value |-> value, i |-> 0, op_key_index |-> 0, loop_count |-> 0, break_count |-> 0,
     loop_index |-> 0, read_len |-> "max", buf |-> <<>>, off |-> 0,
     apply |-> FALSE, white |-> FALSE, black |-> FALSE, found |-> FALSE, skip |-> FALSE,
     odd |-> op_ctx[c].post_code # "SKIP", overlap |-> FALSE, unsaved |-> FALSE]

\* One turn of the loop takes the pending post_code, or the next operation.
\* The loop is left at once when a filter has decided against the call.
Running(c) == cpu[c].pc = "run" /\ cpu[c].i < MAX_OP_COUNT /\ ~cpu[c].black
Pending(c) == op_ctx[c].post_code # "SKIP"
NextOp(c) == OpAt(cpu[c].sys, cpu[c].op_key_index)
Code(c) == IF Pending(c) THEN op_ctx[c].post_code ELSE NextOp(c).code
Fetched(c) == [cpu[c] EXCEPT !.i = @ + 1,
                             !.op_key_index = IF Pending(c) THEN @ ELSE @ + 1]
PostCode(c) == IF Pending(c) THEN "SKIP" ELSE NextOp(c).post

\* The operation `code' is run on c and makes the event e of it.
RunsKeeping(c, code, e, str_len) ==
    /\ Running(c) /\ Code(c) = code
    /\ op_ctx' = [op_ctx EXCEPT ![c] = [post_code |-> PostCode(c),
                                        str_len |-> str_len]]
    /\ cpu' = [cpu EXCEPT ![c] = e]
    /\ UNCHANGED <<config, task, ctx_regs_map, child_parent_map, str_buf, history>>
Runs(c, code, e) == RunsKeeping(c, code, e, op_ctx[c].str_len)

\* Operations that only compute addresses and registers: what is read there
\* is chosen when it is saved.
Compute(c) ==
    \E code \in {"MOVE", "READ_REG", "READ_POINTER"} :
        Runs(c, code, Fetched(c))

SetReadLen(c) ==
    \/ Runs(c, "SET_LEN_IOVEC", [Fetched(c) EXCEPT !.read_len = "iovec"])
    \/ Runs(c, "SET_LEN_MAX", [Fetched(c) EXCEPT !.read_len = "max"])
    \/ \E len \in {"max", "zero"} :
            Runs(c, "SET_LEN_POINTER", [Fetched(c) EXCEPT !.read_len = len])

LeastOf(m, n) == IF m < n THEN m ELSE n

SetBreakCount(c) ==
    \/ Runs(c, "SET_BREAK_COUNT",
            [Fetched(c) EXCEPT !.break_count = MAX_LOOP_COUNT])
    \/ Runs(c, "SET_BREAK_COUNT_REG_VALUE",
            [Fetched(c) EXCEPT !.break_count =
                LeastOf(MAX_LOOP_COUNT, cpu[c].count)])

\* Both ends of a loop are the same operation: at the first, loop_count is 0
\* and the index behind it is kept; at the last, the loop goes back to it.
ForBreak(c) ==
    LET e == Fetched(c)
        start == IF e.loop_count = 0 THEN e.op_key_index ELSE e.loop_index
    IN Runs(c, "FOR_BREAK",
            IF e.loop_count >= e.break_count
            THEN [e EXCEPT !.loop_count = 0, !.break_count = 0,
                           !.loop_index = 0]
            ELSE [e EXCEPT !.loop_count = @ + 1, !.op_key_index = start,
                           !.loop_index = start])

SaveReg(c) == Runs(c, "SAVE_REG", save_to_submit_buf(Fetched(c)))

\* A struct that cannot be read leaves an empty item; the decoder of an
\* iovec expects the struct itself there.
SaveStruct(c) ==
    LET e == Fetched(c)
    IN \E ok \in BOOLEAN : Runs(c, "SAVE_STRUCT",
        CASE e.read_len = "zero" -> save_bytes_to_buf(e, "empty", 0)
          [] ok /\ e.read_len = "iovec" -> save_bytes_to_buf(e, "iovec", 1)
          [] ok /\ e.read_len = "max" ->
                save_bytes_to_buf(e, "text", MAX_BYTES_ARR_SIZE)
          [] OTHER -> LET f == save_bytes_to_buf(e, "empty", 0)
                      IN IF e.read_len = "iovec" THEN Lose(f) ELSE f)

\* A string that cannot be read, or for which there is no room, leaves an
\* empty item, and str_len is that of an earlier string.
Sizes(text) == CASE text = Unreadable -> {0}
                 [] text = Short -> {1}
                 [] text = AnyText -> {0, 1, MAX_STRING_SIZE}
                 [] OTHER -> {MAX_STRING_SIZE}

SaveString(c) ==
    LET e == Fetched(c)
    IN /\ cpu[c].pc = "run"
       /\ \E size \in Sizes(e.text) :
        IF RoomForString(e) /\ size > 0
        THEN RunsKeeping(c, "SAVE_STRING", Put(e, "text", size + 1),
                         IF e.text \in Texts THEN "long" ELSE "short")
        ELSE Runs(c, "SAVE_STRING",
                  [save_bytes_to_buf(e, "empty", 0) EXCEPT !.unsaved = size > 0])

\* Mutant of SavePtrString: the end of the array does not end the loop.
SavePtrStringGoesOn(c) ==
    LET e == save_to_submit_buf(Fetched(c))
    IN \E size \in {0, 1, MAX_STRING_SIZE} : Runs(c, "SAVE_PTR_STRING",
        IF RoomForString(e) /\ size > 0 THEN Put(e, "text", size + 1)
        ELSE save_bytes_to_buf(e, "magic", 0))

\* One entry of a string array: the pointer, then the string, or the end
\* mark, which also ends the loop.
SavePtrString(c) ==
    LET e == save_to_submit_buf(Fetched(c))
    IN \E size \in {0, 1, MAX_STRING_SIZE} : Runs(c, "SAVE_PTR_STRING",
        IF RoomForString(e) /\ size > 0 THEN Put(e, "text", size + 1)
        ELSE [save_bytes_to_buf(e, "magic", 0) EXCEPT
                !.loop_count = e.break_count])

-----------------------------------------------------------------------------
(* The filters.  FILTER_VALUE compares the register.                       *)

Filter(c) == Filters[cpu[c].sys][NextOp(c).value]

Rejects(f, reg_value) ==
    CASE f.type = "EQUAL" -> f.val # reg_value
      [] f.type = "GREATER" -> f.val <= reg_value
      [] f.type = "LESS" -> f.val >= reg_value
      [] OTHER -> FALSE

FilterValue(c) ==
    Runs(c, "FILTER_VALUE",
         [Fetched(c) EXCEPT !.black = Rejects(Filter(c), cpu[c].value)])

(* FILTER_STRING: strcmp_by_map puts the wanted text into str_buf, looks   *)
(* the text of the argument up, and deletes the wanted text again.  A text *)
(* that is shorter than the wanted one does not match and is not looked up.*)

Matched(e, f, is_match) ==
    [e EXCEPT !.apply = @ \/ f.type = "WHITE",
              !.white = @ \/ (f.type = "WHITE" /\ is_match),
              !.black = f.type = "BLACK" /\ is_match]

CompareShort(c) ==
    /\ op_ctx[c].str_len = "short"
    /\ Runs(c, "FILTER_STRING", Matched(Fetched(c), Filter(c), FALSE))

InCompare(d) == cpu[d].pc \in {"lookup", "delete"}

\* The events of the other CPUs that are comparing now have met this one.
Overlapped(c, e) ==
    [d \in CPUs |-> IF d = c
                    THEN [e EXCEPT !.overlap = @ \/ \E o \in CPUs \ {c} : InCompare(o)]
                    ELSE IF InCompare(d) THEN [cpu[d] EXCEPT !.overlap = TRUE]
                         ELSE cpu[d]]

\* The operation is fetched when the comparison is over.
CompareUpdate(c) ==
    /\ Running(c) /\ Code(c) = "FILTER_STRING" /\ op_ctx[c].str_len = "long"
    /\ cpu' = Overlapped(c, [cpu[c] EXCEPT !.pc = "lookup"])
    /\ str_buf' = str_buf \cup {Filter(c).val}
    /\ UNCHANGED <<config, task, op_ctx, ctx_regs_map, child_parent_map, history>>

CompareLookup(c) ==
    /\ cpu[c].pc = "lookup" /\ ~Private
    /\ cpu' = [cpu EXCEPT ![c].pc = "delete",
                          ![c].found = cpu[c].text \in str_buf]
    /\ UNCHANGED <<config, task, op_ctx, ctx_regs_map, child_parent_map,
                   str_buf, history>>

\* Mutant of CompareDelete: the text stays in the map after a match.
CompareDeleteKeeps(c) ==
    /\ cpu[c].pc = "delete" /\ ~Private
    /\ cpu' = [cpu EXCEPT ![c] = [Matched(Fetched(c), Filter(c), @.found)
                                    EXCEPT !.pc = "run", !.found = FALSE]]
    /\ str_buf' = IF cpu[c].found THEN str_buf ELSE str_buf \ {Filter(c).val}
    /\ UNCHANGED <<config, task, op_ctx, ctx_regs_map, child_parent_map, history>>

CompareDelete(c) ==
    /\ cpu[c].pc = "delete" /\ ~Private
    /\ cpu' = [cpu EXCEPT ![c] = [Matched(Fetched(c), Filter(c), @.found)
                                    EXCEPT !.pc = "run", !.found = FALSE]]
    /\ str_buf' = str_buf \ {Filter(c).val}
    /\ UNCHANGED <<config, task, op_ctx, ctx_regs_map, child_parent_map, history>>

-----------------------------------------------------------------------------
(* Saved registers, keyed by the kind of event and the thread; an update   *)
(* of a full map fails.  `call' remembers which open call they are from, 0 *)
(* when it is over; value and count are the registers that are used again. *)

Saved(key, flag, call, value, count) ==
    IF \/ ctx_regs_map[key] # NoRegs
       \/ Cardinality({k \in Keys : ctx_regs_map[k] # NoRegs}) < MaxRegs
    THEN [ctx_regs_map EXCEPT ![key] = [flag |-> flag, call |-> call,
                                        value |-> value, count |-> count]]
    ELSE ctx_regs_map
load_regs(key) == ctx_regs_map[key]
del_regs(key) == [ctx_regs_map EXCEPT ![key] = NoRegs]
SavedCall(t, flag) == Saved(<<SYSCALL_ENTER, t>>, flag, 1, 0, 0)

\* What a call is made with: only what its filters and loops look at.
Filtered(s, types) == \E j \in DOMAIN Filters[s] : Filters[s][j].type \in types
ArgTexts(s) == IF Filtered(s, {"WHITE", "BLACK"})
               THEN Texts \cup {Short, Unreadable} ELSE {AnyText}
ArgValues(s) == IF Filtered(s, {"EQUAL", "GREATER", "LESS"}) THEN Values ELSE {0}
ArgCounts(s) == IF HasVector(s) THEN IovCounts ELSE {0}

\* sys_enter up to read_args: filters, saved registers, a fresh context.
sys_enter(c, t, s) ==
    /\ rules.module = "syscall"
    /\ cpu[c].pc = "idle" /\ ~Private /\ task[t].at = "user"
    /\ IF should_trace(t) /\ SysListed(s)
       THEN /\ ctx_regs_map' = SavedCall(t, 0)
            /\ \E text \in ArgTexts(s), n \in ArgCounts(s), v \in ArgValues(s) :
                    cpu' = [cpu EXCEPT ![c] = Event(c, t, s, text, n, v)]
            /\ task' = [task EXCEPT ![t].at = "entering", ![t].listed = SysListed(s),
                                    ![t].said = "nothing"]
       ELSE /\ task' = [task EXCEPT ![t].at = "kernel", ![t].listed = SysListed(s),
                                    ![t].said = "nothing"]
            /\ UNCHANGED <<ctx_regs_map, cpu>>
    /\ UNCHANGED <<config, op_ctx, child_parent_map, str_buf, history>>

\* read_args ends: at a SKIP, when the loop has run MAX_OP_COUNT times, or
\* when a filter has decided against the call.
EndArgs(c) ==
    /\ cpu[c].pc = "run"
    /\ cpu[c].i = MAX_OP_COUNT \/ Code(c) = "SKIP" \/ cpu[c].black
    /\ cpu' = [cpu EXCEPT ![c].pc = "done",
                          ![c].odd = @ \/ cpu[c].i = MAX_OP_COUNT,
                          ![c].skip = \/ cpu[c].black
                                      \/ cpu[c].apply /\ ~cpu[c].white]
    /\ UNCHANGED <<config, task, op_ctx, ctx_regs_map, child_parent_map,
                   str_buf, history>>

\* Mutant of Finish: a skipped call is not marked for its sys_exit.
FinishUnmarked(c) ==
    LET t == cpu[c].tid
    IN /\ cpu[c].pc = "done"
       /\ cpu' = [cpu EXCEPT ![c] = Idle]
       /\ IF task[t].at = "entering"
          THEN task' = [task EXCEPT ![t].at = "kernel", ![t].said =
                            IF cpu[c].skip THEN "nothing" ELSE "enter"]
          ELSE task' = [task EXCEPT ![t].at = "user"]
       /\ UNCHANGED <<config, op_ctx, ctx_regs_map, child_parent_map, str_buf, history>>

\* The rest of sys_enter and of a probe: a skipped system call is marked for
\* its sys_exit, a skipped probe is forgotten, any other is submitted.
Finish(c) ==
    LET t == cpu[c].tid
    IN /\ cpu[c].pc = "done"
       /\ cpu' = [cpu EXCEPT ![c] = Idle]
       /\ IF task[t].at = "entering"
          THEN /\ ctx_regs_map' = IF cpu[c].skip THEN SavedCall(t, 1) ELSE ctx_regs_map
               /\ task' = [task EXCEPT ![t].at = "kernel", ![t].said =
                                IF cpu[c].skip THEN "nothing" ELSE "enter"]
          ELSE task' = [task EXCEPT ![t].at = "user"] /\ UNCHANGED ctx_regs_map
       /\ UNCHANGED <<config, op_ctx, child_parent_map, str_buf, history>>

\* sys_exit: the registers saved by the enter are taken out of the map and
\* decide whether the call is reported.  The arguments read at the exit go
\* through the same interpreter and are not repeated here.
sys_exit(t) ==
    LET key == <<SYSCALL_ENTER, t>>
        regs == load_regs(key)
        loads == should_trace(t) /\ regs # NoRegs
        reports == loads /\ regs.flag = 0 /\ task[t].listed
    IN /\ task[t].at = "kernel" /\ ~Private
       /\ ctx_regs_map' =
                IF loads \/ regs = NoRegs THEN del_regs(key)
                ELSE [ctx_regs_map EXCEPT ![key].call = 0]
       /\ task' = [task EXCEPT ![t].at = "user", ![t].listed = FALSE,
                ![t].said = IF ~reports THEN "nothing"
                            ELSE IF regs.call = 1 /\ @ = "enter" THEN "nothing"
                            ELSE "stray"]
       /\ UNCHANGED <<config, cpu, op_ctx, child_parent_map, str_buf, history>>

-----------------------------------------------------------------------------
(* The uprobes.  A thread runs into the point p: an enter point saves its  *)
(* registers, a point inside the same function, its last one, loads and    *)
(* deletes them and reads its arguments from them, or gives up when there  *)
(* are none.                                                               *)
Returned(calls) == [i \in 1 .. Len(calls) - 1 |-> calls[i]]

probe_stack_warp(c, t, p) ==
    LET enter == EnterKey[p]
        saves == enter = p
        loads == enter \notin {0, p}
        regs == IF loads THEN load_regs(<<enter, t>>) ELSE NoRegs
        traced == should_trace(t) /\ (loads => regs # NoRegs)
        calls == task[t].calls
    IN /\ rules.module = "stack"
       /\ cpu[c].pc = "idle" /\ ~Private /\ task[t].at = "user"
       /\ saves => Len(calls) < MaxDepth
       /\ loads => calls # <<>> /\ calls[Len(calls)] = enter
       /\ IF traced
          THEN \E text \in ArgTexts(p), n \in ArgCounts(p), v \in ArgValues(p) :
                 LET value == IF loads THEN regs.value ELSE v
                     count == IF loads THEN regs.count ELSE n
                 IN /\ cpu' = [cpu EXCEPT ![c] = Event(c, t, p, text, count, value)]
                    /\ ctx_regs_map' =
                         IF saves THEN Saved(<<p, t>>, 0, Len(calls) + 1, value, count)
                         ELSE IF loads THEN del_regs(<<enter, t>>)
                         ELSE ctx_regs_map
          ELSE UNCHANGED <<cpu, ctx_regs_map>>
       /\ task' = [task EXCEPT
              ![t].at = IF traced THEN "probed" ELSE "user",
              ![t].calls = IF saves THEN Append(calls, p)
                           ELSE IF loads THEN Returned(calls) ELSE calls,
              ![t].said = IF traced /\ loads /\ regs.call # Len(calls)
                          THEN "stray" ELSE "nothing"]
       /\ UNCHANGED <<config, op_ctx, child_parent_map, str_buf, history>>

\* A probed function is left where no probe is: another return, an exception.
Unwind(t) ==
    /\ task[t].at = "user" /\ task[t].calls # <<>> /\ ~Private
    /\ task' = [task EXCEPT ![t].calls = Returned(@)]
    /\ unwound' = unwound \cup {t}
    /\ UNCHANGED <<config, cpu, op_ctx, ctx_regs_map, child_parent_map, str_buf,
                   renamed, reused>>

-----------------------------------------------------------------------------
(* What the traced processes do.                                           *)

\* In a system call; the uprobe module does not see them.
InKernel(t) == task[t].at = IF rules.module = "stack" THEN "user" ELSE "kernel"

\* A thread is renamed inside a call: by prctl, or by another thread.
Rename(t, name) ==
    /\ InKernel(t) /\ t \in Renamable /\ ~Private /\ name # task[t].name
    /\ task' = [task EXCEPT ![t].name = name]
    /\ renamed' = renamed \cup {t}
    /\ UNCHANGED <<config, cpu, op_ctx, ctx_regs_map, child_parent_map,
                   str_buf, unwound, reused>>

\* The thread t that forks is in the map as a process the user asked for.
Followed(t) == child_parent_map[t] = t

\* sched_process_fork.
sched_process_fork(t, u) ==
    /\ InKernel(t) /\ task[u].at = "unborn" /\ ~Private
    /\ task' = [task EXCEPT ![u] = [at |-> "user", listed |-> FALSE, said |-> "nothing",
                    name |-> task[t].name, parent |-> t, calls |-> task[t].calls]]
    /\ child_parent_map' =
            IF /\ Followed(t)
               /\ \/ child_parent_map[u] # Nobody
                  \/ Cardinality({v \in Tasks : child_parent_map[v] # Nobody})
                        < MaxFollowed
            THEN [child_parent_map EXCEPT ![u] = t] ELSE child_parent_map
    /\ UNCHANGED <<config, cpu, op_ctx, ctx_regs_map, str_buf, history>>

\* A process ends inside its last call: no sys_exit, no map is cleaned, and
\* its id may be given to another one.
Die(t) ==
    /\ InKernel(t) /\ t \in Children /\ ~Private
    /\ task' = [task EXCEPT ![t].at = "unborn", ![t].listed = FALSE,
                            ![t].said = "nothing", ![t].calls = <<>>]
    /\ reused' = reused \cup {t}
    /\ ctx_regs_map' = [k \in Keys |->
            IF k[2] # t \/ ctx_regs_map[k] = NoRegs THEN ctx_regs_map[k]
            ELSE [ctx_regs_map[k] EXCEPT !.call = 0]]
    /\ UNCHANGED <<config, cpu, op_ctx, child_parent_map, str_buf, renamed, unwound>>

-----------------------------------------------------------------------------
\* update_common_list and update_child_parent, before the first event.
Init ==
    /\ rules \in RuleSets
    /\ common_list = {Start(r[1]) + r[2] : r \in rules.lists}
    /\ task \in [Tasks -> [at : {"user", "unborn"}, listed : {FALSE},
                           said : {"nothing"}, name : {FirstName},
                           parent : {Nobody}, calls : {<<>>}]]
    /\ \A t \in Tasks : task[t].at = "unborn" <=> t \in Children
    /\ cpu = [c \in CPUs |-> Idle]
    /\ op_ctx = [c \in CPUs |-> [post_code |-> "SKIP", str_len |-> "short"]]
    /\ ctx_regs_map = [k \in Keys |-> NoRegs]
    /\ child_parent_map =
            [t \in Tasks |-> IF <<"pid_white", t>> \in rules.lists THEN t ELSE Nobody]
    /\ str_buf = {}
    /\ renamed = {} /\ unwound = {} /\ reused = {}

read_args(c) ==
    \/ Compute(c) \/ SetReadLen(c) \/ SetBreakCount(c) \/ ForBreak(c)
    \/ SaveReg(c) \/ SaveStruct(c) \/ SaveString(c) \/ SavePtrString(c)
    \/ FilterValue(c) \/ CompareShort(c)
    \/ CompareUpdate(c) \/ CompareLookup(c) \/ CompareDelete(c)
    \/ EndArgs(c)

Next ==
    \/ \E c \in CPUs : read_args(c) \/ Finish(c)
    \/ \E c \in CPUs, t \in Tasks : \E s \in Calls[t] \ Points : sys_enter(c, t, s)
    \/ \E c \in CPUs, t \in Tasks : \E p \in Calls[t] \cap Points :
            probe_stack_warp(c, t, p)
    \/ \E t \in Tasks : sys_exit(t) \/ Unwind(t) \/ Die(t)
    \/ \E t \in Tasks, name \in Names : Rename(t, name)
    \/ \E t, u \in Tasks : sched_process_fork(t, u)

Spec == Init /\ [][Next]_vars

-----------------------------------------------------------------------------
(* Properties.                                                             *)

Matches(e, f) == e.text = f.val
Meets(v, f) == CASE f.type = "EQUAL" -> v = f.val
                 [] f.type = "GREATER" -> v < f.val
                 [] f.type = "LESS" -> v > f.val
SkippedByRule(e) ==
    LET of(types) == {Filters[e.sys][j] : j \in
            {k \in DOMAIN Filters[e.sys] : Filters[e.sys][k].type \in types}}
    IN \/ \E f \in of({"BLACK"}) : Matches(e, f)
       \/ \E f \in of({"EQUAL", "GREATER", "LESS"}) : ~Meets(e.value, f)
       \/ /\ of({"WHITE"}) # {}
          /\ \A f \in of({"WHITE"}) : ~Matches(e, f)

\* A call is skipped exactly when its filters say so: a black text matches,
\* a number is refused, or there are white texts and none of them matches.
\* A number passes "gt" below the configured value and "lt" above it, which
\* is the reverse of what docs/CONFIG.md says of the two.  Excepted are the
\* calls during whose comparison another CPU was inside strcmp_by_map (the
\* map str_buf is shared), whose string found no room (str_len is then that
\* of another string), or whose operations ran out before the filter.
FilterExact ==
    \A c \in CPUs :
        LET e == cpu[c]
        IN e.pc = "done" /\ ~e.overlap /\ ~e.unsaved /\ ~e.odd
            => (e.skip <=> SkippedByRule(e))

\* A sys_exit is reported only with the registers its own sys_enter saved,
\* and only if that sys_enter was reported too: never with those of another
\* thread or of an earlier call, unless the thread was renamed during a call
\* (its enter and its exit are then judged differently by should_trace).
\* A probe that reads the registers of its function's entry gets those of
\* the very call it is in, also when the function calls itself: of nested
\* calls the inner one is served and the outer ones find nothing.  Excepted
\* are threads that left a probed call past the probe, and reused ids.
ExitOwnEnter ==
    \A t \in Tasks \ renamed :
        task[t].said = "stray" => rules.module = "stack" /\ t \in unwound \cup reused

InRules(list, id) == <<list, id>> \in rules.lists
Descends(t) == \/ InRules("pid_white", Pid[t])
               \/ /\ task[Pid[t]].parent # Nobody
                  /\ InRules("pid_white", task[Pid[t]].parent)
SmallIds == /\ \A r \in rules.lists : r[2] < Gap
            /\ \A t \in Tasks : t < Gap /\ Uid[t] < Gap

\* The listed processes are there when the tracer starts, and child_parent_map
\* has room for all: an id that is listed and later forked by a followed
\* process would be kept in the map as a child only.
ListedAlive == \A u \in Children : ~InRules("pid_white", u)
Room == Cardinality(Tasks) <= MaxFollowed

\* should_trace decides by the rules the user gave and by real descent: the
\* offsets keep the lists of common_list apart and child_parent_map holds
\* the children of the listed processes.  This needs every id to be below
\* the distance of two lists, a map with room, listed processes that exist
\* when the tracer starts, and ids that are not reused.
TracedByRule ==
    SmallIds /\ ListedAlive /\ Room => \A t \in Tasks \ reused :
        task[t].at # "unborn"
            => (should_trace(t) <=> Cascade(t, {e[1] : e \in EntriesOf(t) \cap rules.lists}, Descends(t)))
=============================================================================
