---------------------------- MODULE MCLifecycle ----------------------------
(* A small instance of Lifecycle: one CPU's idle task and one other task run  *)
(* the hooked functions; an operator and a process that only asks for the     *)
(* status share the control entry.                                            *)
EXTENDS Lifecycle, TLC

CONSTANTS operator, watcher

MCCallers == {operator, watcher}
MCCommands == operator :> {"bind", "request"} @@ watcher :> {"status"}
MCOneCaller == {operator}
MCOneCommands == operator :> {"bind", "request"}

MCHooks == <<"finish_task_switch", "do_exit">>
=============================================================================
