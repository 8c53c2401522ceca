----------------------------- MODULE KWalletProc -----------------------------
(***************************************************************************)
(* /proc/kwallet (hw4): as the char device, but a command that fails       *)
(* stores a response too, write() always returns success, and read()       *)
(* copies from global_response itself after it released response_lock.     *)
(*                                                                         *)
(* Nothing orders that copy with a strscpy into global_response by a       *)
(* writer, which holds the lock that the reader has released: the copy may *)
(* meet the writer at any point.                                           *)
(***************************************************************************)
EXTENDS WalletRespond

VARIABLES file,             \* is it open, and consumed
          unit,             \* the next unit of a read() that copies
          total_len,        \* what it measured under response_lock
          sources,          \* the responses it copied units of
          undisturbed       \* history: no response was stored meanwhile

copyVars == <<unit, total_len, sources>>
vars == <<respondVars, file, copyVars, undisturbed>>

Closed == [open |-> FALSE, consumed |-> FALSE]

Init == /\ RespondInit
        /\ file = [c \in Client |-> Closed]
        /\ unit = [c \in Client |-> 0]
        /\ total_len = [c \in Client |-> 0]
        /\ sources = [c \in Client |-> {}]
        /\ undisturbed = [c \in Client |-> TRUE]

kwallet_open(c) ==
  /\ pc[c] = "idle" /\ ~file[c].open
  /\ file' = [file EXCEPT ![c] = [Closed EXCEPT !.open = TRUE]]
  /\ UNCHANGED <<respondVars, copyVars, undisturbed>>

kwallet_release(c) ==
  /\ pc[c] = "idle" /\ file[c].open
  /\ file' = [file EXCEPT ![c] = Closed]
  /\ UNCHANGED <<respondVars, copyVars, undisturbed>>

\* A write() to an open file; when it stores a response, the reads that copy
\* are no longer undisturbed.
Write(c) ==
  /\ kwallet_write(c)
  /\ file[c].open
  /\ undisturbed' = [d \in Client |->
       undisturbed[d] /\ (pc[d] = "copy" => UNCHANGED global_response)]
  /\ UNCHANGED <<file, copyVars>>

\* Mutant: read() measures the response without response_lock.
TakeResponse_Unlocked(c) ==
  /\ pc[c] = "idle" /\ file[c].open
  /\ response_ready /\ ~file[c].consumed
  /\ file' = [file EXCEPT ![c].consumed = TRUE]
  /\ total_len' = [total_len EXCEPT ![c] = Strlen]
  /\ \E u \in 1..Strlen : unit' = [unit EXCEPT ![c] = u]
  /\ undisturbed' = [undisturbed EXCEPT ![c] = TRUE]
  /\ Goto(c, "copy")
  /\ UNCHANGED <<tableVars, wallet_lock, cmd, idx, responseVars, sources, soloVars>>

\* Under response_lock, read() marks the file and measures the response, and
\* starts from f_pos, which lseek may have moved.  (With nothing ready, or a
\* marked file, it returns 0: no step.)
TakeResponse(c) ==
  /\ pc[c] = "idle" /\ file[c].open
  /\ response_lock = None
  /\ response_ready /\ ~file[c].consumed
  /\ file' = [file EXCEPT ![c].consumed = TRUE]
  /\ total_len' = [total_len EXCEPT ![c] = Strlen]
  /\ \E u \in 1..Strlen : unit' = [unit EXCEPT ![c] = u]
  /\ undisturbed' = [undisturbed EXCEPT ![c] = TRUE]
  /\ Goto(c, "copy")
  /\ UNCHANGED <<tableVars, wallet_lock, cmd, idx, responseVars, sources, soloVars>>

\* copy_to_user reads the next unit of global_response as it is now.
CopyUnit(c) ==
  /\ pc[c] = "copy" /\ unit[c] <= total_len[c]
  /\ sources' = [sources EXCEPT ![c] = @ \cup {global_response[unit[c]]}]
  /\ unit' = [unit EXCEPT ![c] = @ + 1]
  /\ UNCHANGED <<respondVars, file, total_len, undisturbed>>

\* read() returns: all copied, the user's buffer full, or a fault.
FinishRead(c) ==
  /\ pc[c] = "copy"
  /\ unit' = [unit EXCEPT ![c] = 0]
  /\ total_len' = [total_len EXCEPT ![c] = 0]
  /\ sources' = [sources EXCEPT ![c] = {}]
  /\ undisturbed' = [undisturbed EXCEPT ![c] = TRUE]
  /\ Goto(c, "idle")
  /\ UNCHANGED <<tableVars, wallet_lock, cmd, idx, responseVars, file, soloVars>>

kwallet_read(c) == TakeResponse(c) \/ CopyUnit(c) \/ FinishRead(c)

Next == \E c \in Client : \/ kwallet_open(c)
                          \/ kwallet_release(c)
                          \/ Write(c)
                          \/ kwallet_read(c)

Spec == Init /\ [][Next]_vars
-----------------------------------------------------------------------------
\* The variables of the /proc file have their types.
TypeOK ==
  /\ RespondTypeOK
  /\ file \in [Client -> [open : BOOLEAN, consumed : BOOLEAN]]
  /\ unit \in [Client -> 0..3] /\ total_len \in [Client -> 0..2]
  /\ sources \in [Client -> SUBSET (Reply \cup {NoReply})]
  /\ undisturbed \in [Client -> BOOLEAN]

\* The bytes read() has copied for its user are of one response.
OneResponse(c) == \E r \in Reply : sources[c] \subseteq {r}

\* "read() returns that response": whatever its writers do, one file is
\* given bytes of a single response.
ReadsOneResponse == \A c \in Client : OneResponse(c)

\* A read() during which no response was stored gives a single response, up
\* to the length it measured under the lock.
UndisturbedRead == \A c \in Client : undisturbed[c] => OneResponse(c)
=============================================================================
