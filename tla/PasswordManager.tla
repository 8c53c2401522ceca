-------------------------- MODULE PasswordManager --------------------------
(***************************************************************************)
(* The password manager program: main() runs the container its option      *)
(* names for as long as there is input.  The other one is never touched.   *)
(***************************************************************************)
EXTENDS PasswordStack, PasswordList

VARIABLE container_to_use

vars == <<stackVars, listVars, container_to_use>>

Init == container_to_use \in {"STACK", "LIST"} /\ StackInit /\ ListInit

run_stack == container_to_use = "STACK" /\ StackNext /\ UNCHANGED <<listVars, container_to_use>>

run_list == container_to_use = "LIST" /\ ListNext /\ UNCHANGED <<stackVars, container_to_use>>

Next == run_stack \/ run_list

Spec == Init /\ [][Next]_vars
=============================================================================
