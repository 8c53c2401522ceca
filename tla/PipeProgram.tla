----------------------------- MODULE PipeProgram -----------------------------
(***************************************************************************)
(* The program of hw1_task2: run() takes the named pipes if both paths are *)
(* given (parse_args refuses one of them alone), and forks if none is.     *)
(***************************************************************************)
EXTENDS UnnamedPipes

\* The two ways to start it.
run == \/ Init /\ writing = [p \in Peer |-> Garbage]
       \/ ForkInit

NamedNext == run_named_pipe /\ UNCHANGED writing
KillNext == (\E p \in Peer : Kill(p)) /\ UNCHANGED writing
ForkNext == child_process \/ parent_process \/ handler

ProgramNext == NamedNext \/ KillNext \/ ForkNext

program_vars == <<vars, writing>>

\* A program that is not waiting for an event runs on.
ProgramSpec ==
  /\ run /\ [][ProgramNext]_program_vars
  /\ \A p \in Peer : WF_program_vars(Loop(p) /\ UNCHANGED writing)
  /\ WF_program_vars(child_process)
  /\ WF_program_vars(parent_process)
=============================================================================
