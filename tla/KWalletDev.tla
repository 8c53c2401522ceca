----------------------------- MODULE KWalletDev -----------------------------
(***************************************************************************)
(* /dev/kwallet (hw3): commands go in by write(), the response of the last *)
(* successful one comes out by read(), once for each open file.            *)
(***************************************************************************)
EXTENDS WalletWrite

VARIABLES pending_response, response_ready,
          file,        \* filp: is it open, and response_consumed
          full_reply,  \* read()'s local copy of the response
          given        \* history: how often read() gave this file bytes

responseVars == <<pending_response, response_ready>>
devVars == <<file, full_reply, given>>
vars == <<tableVars, writeVars, responseVars, devVars>>

Closed == [open |-> FALSE, consumed |-> FALSE]

Init == /\ TableInit
        /\ WriteInit
        /\ pending_response = NoReply
        /\ response_ready = FALSE
        /\ file = [c \in Client |-> Closed]
        /\ full_reply = [c \in Client |-> NoReply]
        /\ given = [c \in Client |-> 0]

kwallet_open(c) ==
  /\ pc[c] = "idle" /\ ~file[c].open
  /\ file' = [file EXCEPT ![c] = [Closed EXCEPT !.open = TRUE]]
  /\ UNCHANGED <<tableVars, writeVars, responseVars, full_reply, given>>

kwallet_release(c) ==
  /\ pc[c] = "idle" /\ file[c].open
  /\ file' = [file EXCEPT ![c] = Closed]
  /\ given' = [given EXCEPT ![c] = 0]
  /\ UNCHANGED <<tableVars, writeVars, responseVars, full_reply>>

\* A command that succeeded stores its reply, and write() returns.
StoreAndReturn(c) ==
  /\ pc[c] = "done" /\ ~IsFailure(reply[c])
  /\ pending_response' = reply[c]
  /\ response_ready' = TRUE
  /\ WriteReturn(c)
  /\ UNCHANGED devVars

\* out_err: write() returns -errno and stores nothing.
ReturnError(c) ==
  /\ pc[c] = "done" /\ IsFailure(reply[c])
  /\ WriteReturn(c)
  /\ UNCHANGED <<responseVars, devVars>>

\* The steps before wallet_lock is released touch no response.
OnTable(A) == A /\ UNCHANGED <<responseVars, devVars>>

kwallet_write(c) ==
  \/ file[c].open /\ OnTable(\E l \in Line : WriteBegin(c, l))
  \/ OnTable(Lock(c))
  \/ OnTable(Search(c))
  \/ OnTable(Execute(c))
  \/ StoreAndReturn(c)
  \/ ReturnError(c)

\* Mutant: read() does not mark its file.
TakeResponse_Unmarked(c) ==
  /\ pc[c] = "idle" /\ file[c].open
  /\ response_ready /\ ~file[c].consumed
  /\ full_reply' = [full_reply EXCEPT ![c] = pending_response]
  /\ Goto(c, "copy")
  /\ UNCHANGED <<tableVars, wallet_lock, cmd, idx, responseVars, given, file>>

\* Under response_lock, read() takes the response and marks the file.  (With
\* nothing ready, or a marked file, it returns 0: no step.)
TakeResponse(c) ==
  /\ pc[c] = "idle" /\ file[c].open
  /\ response_ready /\ ~file[c].consumed
  /\ full_reply' = [full_reply EXCEPT ![c] = pending_response]
  /\ file' = [file EXCEPT ![c].consumed = TRUE]
  /\ Goto(c, "copy")
  /\ UNCHANGED <<tableVars, wallet_lock, cmd, idx, responseVars, given>>

\* What copy_to_user copies from: the local copy.
CopyText(c) == full_reply[c]

\* After response_lock: the bytes from f_pos on go to the user, as many as
\* asked for, unless f_pos (which lseek moves as it likes) is behind the
\* response or copy_to_user faults.  The file is marked in each case, so
\* that no later read() looks at f_pos: it needs no variable.
FinishRead(c) ==
  /\ pc[c] = "copy"
  /\ \/ given' = [given EXCEPT ![c] = @ + 1]
     \/ UNCHANGED given
  /\ full_reply' = [full_reply EXCEPT ![c] = NoReply]
  /\ Goto(c, "idle")
  /\ UNCHANGED <<tableVars, wallet_lock, cmd, idx, responseVars, file>>

kwallet_read(c) == TakeResponse(c) \/ FinishRead(c)

Next == \E c \in Client :
  \/ kwallet_open(c)
  \/ kwallet_release(c)
  \/ kwallet_write(c)
  \/ kwallet_read(c)

\* A call that runs goes on: no step inside it waits for anything but the
\* two mutexes, whose waiters the kernel queues.
Fairness == \A c \in Client :
  /\ SF_vars(OnTable(Lock(c)))
  /\ WF_vars(OnTable(Search(c) \/ Execute(c)))
  /\ WF_vars(StoreAndReturn(c) \/ ReturnError(c))
  /\ WF_vars(FinishRead(c))

Spec == Init /\ [][Next]_vars
FairSpec == Spec /\ Fairness
-----------------------------------------------------------------------------
\* The variables of the device have their types.
TypeOK ==
  /\ WriteTypeOK
  /\ pending_response \in Reply \cup {NoReply}
  /\ response_ready \in BOOLEAN
  /\ file \in [Client -> [open : BOOLEAN, consumed : BOOLEAN]]
  /\ full_reply \in [Client -> Reply \cup {NoReply}]
  /\ given \in [Client -> Nat]

\* One open file is given bytes of a response at most once, whatever is
\* written between its reads ("once per open file descriptor").
OncePerOpen == \A c \in Client : given[c] <= 1

\* What read() copies to its user, after response_lock is released, is the
\* response it measured under it, though writers go on replacing that.
WholeResponse == [][\A c \in Client :
  pc[c] = "copy" /\ pc'[c] = "copy" => CopyText(c)' = CopyText(c)]_vars

\* A read() that started has a response, and never one that says a command
\* failed: an errno is the return value of write() only.
SuccessRead == \A c \in Client :
  pc[c] = "copy" => CopyText(c) # NoReply /\ ~IsFailure(CopyText(c))

\* The writers' interleaved searches and updates are the atomic commands of
\* WalletTable, each answered once.
TableAtomic == TableSpec

\* Every write() comes back, refused commands and contention for wallet_lock
\* included.
WriteReturns == \A c \in Client : Writing(c) ~> ~Writing(c)
=============================================================================
