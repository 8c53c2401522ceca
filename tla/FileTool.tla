------------------------------ MODULE FileTool ------------------------------
(***************************************************************************)
(* The tool that creates or deletes a file (1_semester/hw5), started again *)
(* and again by several users for one path.  run_create and run_delete ask *)
(* access() first and act later, so that others may act in between.        *)
(***************************************************************************)
EXTENDS FiniteSets

CONSTANT User

VARIABLES path_holds,       \* what is at the path: "nothing", "empty" or "data"
          tool_at,          \* where each user's tool is
          operation,        \* what it was asked to do
          return_code,      \* what its last run returned
          overtaken         \* history: who acted since its access()

file_vars == <<path_holds, tool_at, operation, return_code, overtaken>>

FileInit == /\ path_holds = "nothing"
            /\ tool_at = [u \in User |-> "ended"]
            /\ operation = [u \in User |-> "DELETE_FILE"]
            /\ return_code = [u \in User |-> "OK"]
            /\ overtaken = [u \in User |-> {}]

\* main: with neither option the run changes nothing.
RunTool(u) == /\ tool_at[u] = "ended"
              /\ \/ /\ operation' \in {[operation EXCEPT ![u] = op] :
                                          op \in {"CREATE_FILE", "DELETE_FILE"}}
                    /\ tool_at' = [tool_at EXCEPT ![u] = "access"]
                    /\ UNCHANGED return_code
                 \/ /\ return_code' = [return_code EXCEPT ![u] = "UNEXPECTED_OPERATION"]
                    /\ UNCHANGED <<operation, tool_at>>
              /\ UNCHANGED <<path_holds, overtaken>>

\* Mutant: create does not ask whether the file exists.
Refused_OnlyDelete(u) == operation[u] = "DELETE_FILE" /\ path_holds = "nothing"

\* What access() says makes the tool give up.
Refused(u) == (operation[u] = "CREATE_FILE") # (path_holds = "nothing")

Access(u) == /\ tool_at[u] = "access"
             /\ IF Refused(u)
                THEN /\ tool_at' = [tool_at EXCEPT ![u] = "ended"]
                     /\ return_code' = [return_code EXCEPT ![u] =
                          IF operation[u] = "CREATE_FILE" THEN "CREATE_FILE_EXISTS"
                                                          ELSE "DELETE_NOT_FOUND"]
                ELSE /\ tool_at' = [tool_at EXCEPT ![u] = "act"]
                     /\ UNCHANGED return_code
             /\ overtaken' = [overtaken EXCEPT ![u] = {}]
             /\ UNCHANGED <<path_holds, operation>>

\* The call that follows ends the tool.
Acts(u, result) ==
  /\ tool_at[u] = "act"
  /\ tool_at' = [tool_at EXCEPT ![u] = "ended"]
  /\ return_code' = [return_code EXCEPT ![u] = result]
  /\ overtaken' = [v \in User |-> IF v = u \/ tool_at[v] # "act" \/ result # "OK"
                                  THEN overtaken[v] ELSE overtaken[v] \cup {u}]
  /\ UNCHANGED operation

\* fopen(path, "w") makes a file, or empties the one there is.
run_create(u) == /\ operation[u] = "CREATE_FILE"
                 /\ path_holds' = "empty"
                 /\ Acts(u, "OK")

\* remove() of what is there.
run_delete(u) == /\ operation[u] = "DELETE_FILE" /\ path_holds # "nothing"
                 /\ path_holds' = "nothing"
                 /\ Acts(u, "OK")

\* Either call fails, for want of permission or of a file.
CallFails(u) == Acts(u, "OTHER_ERROR") /\ UNCHANGED path_holds

\* Whoever works with the file writes to it.
UseFile == /\ path_holds = "empty"
           /\ path_holds' = "data"
           /\ UNCHANGED <<tool_at, operation, return_code, overtaken>>

FileNext == \/ UseFile
            \/ \E u \in User : \/ RunTool(u) \/ Access(u) \/ run_create(u)
                               \/ run_delete(u) \/ CallFails(u)
-----------------------------------------------------------------------------
\* Who was not overtaken gets what the tool says: create makes a file where
\* there was none and empties none, delete finds the file it saw.  What access()
\* and the call that follows leave open is the race, and only the race.
OnlyRacesLoseData == [][\A u \in User :
  tool_at[u] = "act" /\ tool_at'[u] = "ended" /\ overtaken[u] = {} =>
    (operation[u] = "CREATE_FILE") = (path_holds = "nothing")]_file_vars
=============================================================================
