------------------------------ MODULE MCTracer ------------------------------
(* Small instance of Tracer: a listed process with two threads, 1 and 2,   *)
(* and an id for a child it forks.                                         *)
EXTENDS Decoder, TLC

Symmetry == Permutations(CPUs)

MCPid == (1 :> 1) @@ (2 :> 1) @@ (3 :> 3)
MCUid == (1 :> 1) @@ (2 :> 1) @@ (3 :> 0)

MCArgs == (1 :> <<"string_array", "string_array", "int">>) @@ (2 :> <<"iovec">>)
          @@ (3 :> <<"string">>) @@ (4 :> <<"int", "string">>)
          @@ (5 :> <<"string_array", "string">>) @@ (6 :> <<"int", "string">>)
          @@ (7 :> <<"int">>) @@ (8 :> <<"int">>) @@ (9 :> <<"int">>)
          @@ (10 :> <<"int">>) @@ (11 :> <<"int">>) @@ (12 :> <<"int">>)
MCFilters ==
    (1 :> <<>>) @@ (2 :> <<>>)
    @@ (3 :> <<[arg |-> 1, type |-> "WHITE", val |-> "b"]>>)
    @@ (4 :> <<[arg |-> 1, type |-> "GREATER", val |-> 1],
               [arg |-> 2, type |-> "WHITE", val |-> "a"]>>)
    @@ (5 :> <<[arg |-> 2, type |-> "WHITE", val |-> "a"],
               [arg |-> 2, type |-> "WHITE", val |-> "b"]>>)
    @@ (6 :> <<[arg |-> 1, type |-> "LESS", val |-> 0],
               [arg |-> 1, type |-> "EQUAL", val |-> 1],
               [arg |-> 2, type |-> "BLACK", val |-> "b"]>>)
    @@ (7 :> <<[arg |-> 1, type |-> "EQUAL", val |-> 1]>>)
    @@ (8 :> <<[arg |-> 1, type |-> "EQUAL", val |-> 1]>>) @@ (9 :> <<>>) @@ (10 :> <<>>)
    @@ (11 :> <<>>) @@ (12 :> <<>>)
\* Point 8 lies in the function that begins at point 7, point 12 in the one
\* that begins at point 11.
MCEnterKey == (7 :> 7) @@ (8 :> 7) @@ (9 :> 0) @@ (11 :> 11) @@ (12 :> 11)
MCCalls == (1 :> {1, 2, 5, 6, 7, 8, 10, 11, 12}) @@ (2 :> {4, 9, 10}) @@ (3 :> {3, 8, 10})

\* What the user asks for: one thread with the calls whose arguments take
\* long to read; a process with its children; users, without some threads
\* and calls; the probe points of a process.
Ask(lists) == [module |-> "syscall", lists |-> lists, groups |-> {}, all |-> FALSE]
MCRuleSets ==
    {[Ask({<<"sys_white", 1>>, <<"sys_white", 2>>, <<"tid_white", 1>>})
        EXCEPT !.groups = {"root"}],
     Ask({<<"sys_white", 5>>, <<"sys_white", 6>>, <<"tid_white", 1>>}),
     Ask({<<"sys_white", 10>>, <<"pid_white", 1>>}),
     [Ask({<<"sys_black", 1>>, <<"sys_black", 2>>, <<"sys_black", 10>>,
           <<"uid_white", 0>>, <<"tid_black", 1>>, <<"tid_white", 2>>}) EXCEPT !.all = TRUE],
     [Ask({<<"pid_white", 1>>}) EXCEPT !.module = "stack"]}
=============================================================================
