---------------------------- MODULE KWalletIoctl ----------------------------
(***************************************************************************)
(* The ioctl wallet (hw5) and its callers.  The handler runs under         *)
(* wallet_lock from its first line to its last, the copies from and to the *)
(* user included, so that one call is one step: what is left to go wrong   *)
(* is what a call does to the table before it fails, and what the fields   *)
(* it gives back tell the caller.                                          *)
(***************************************************************************)
EXTENDS WalletTable, FiniteSetsExt

CONSTANTS EMPTY_LEN          \* length of "(empty)\n"

ASSUME EmptyLenAssumption == EMPTY_LEN \in Nat \ {0}

VARIABLES call,              \* the request each caller is in, or NoCall
          ret,               \* what the handler returned for it
          out_len            \* the field READALL fills in

ioctlVars == <<call, ret, out_len>>
vars == <<tableVars, ioctlVars>>

\* Mutant: kwallet_cli sends the word as typed.
RequestKey_Uncut == KeyId

\* The request structures.  A key is a char[32]: kwallet_cli copies 31 bytes
\* of the word its user typed, so that what arrives is already cut.  The
\* fields of a malformed request are empty, and no command number fits an
\* unknown one (kwallet_cli.py sends such a number).
RequestKey == {Truncated[k] : k \in KeyId}

Ask(cmd, key, priv, new, size) ==
  [cmd |-> cmd, key |-> key, priv |-> priv, new |-> new, bufsize |-> size]

Request ==
  {Ask(cmd, None, None, None, 0) : cmd \in {"malformed", "unknown", "DELETEALL"}}
  \cup {Ask("CREATE", k, p, None, 0) : k \in RequestKey, p \in PrivKey}
  \cup {Ask(cmd, k, None, None, 0) : cmd \in {"READ", "DELETE"}, k \in RequestKey}
  \cup {Ask("CHANGE", k, p, q, 0) : k \in RequestKey, p \in PrivKey, q \in PrivKey}
  \cup {Ask("READALL", None, None, None, n) : n \in BufSize \cup {0}}

NoCall == Ask("none", None, None, None, 0)

Init == /\ TableInit
        /\ call = [c \in Client |-> NoCall]
        /\ ret = [c \in Client |-> "none"]
        /\ out_len = [c \in Client |-> 0]

\* ioctl(): the caller's request reaches the driver.
Enter(c, r) == /\ call[c] = NoCall
               /\ call' = [call EXCEPT ![c] = r]
               /\ UNCHANGED <<tableVars, ret, out_len>>

ReturnValue(c, v) == /\ ret' = [ret EXCEPT ![c] = v]
                     /\ UNCHANGED call

\* goto out before the wallet is looked at.
Reject(c, e) == /\ ret[c] = "none"
                /\ ReturnValue(c, e)
                /\ UNCHANGED <<tableVars, out_len>>

\* The copy of the request back to the user works, or ret becomes -EFAULT
\* with the command done.
CopyOut(c) == /\ \E v \in {"0", "EFAULT"} : ReturnValue(c, v)
              /\ UNCHANGED out_len

\* The command of a request other than READALL, and its copy to the user
\* unless it failed.
Command(c) ==
  LET r == call[c] IN
  /\ \/ r.cmd = "malformed" /\ Malformed(c)
     \/ r.cmd = "CREATE" /\ CREATE(c, r.key, r.priv)
     \/ r.cmd = "READ" /\ READ(c, r.key)
     \/ r.cmd = "CHANGE" /\ CHANGE(c, r.key, r.priv, r.new)
     \/ r.cmd = "DELETE" /\ DELETE(c, r.key)
     \/ r.cmd = "DELETEALL" /\ DELETEALL(c)
  /\ IF IsFailure(reply'[c])
     THEN ReturnValue(c, reply'[c].errno) /\ UNCHANGED out_len
     ELSE CopyOut(c)

\* Mutant: dump_wallet returns the number of bytes in the buffer, whether or
\* not it came to the end of the listing.
dump_len_Clamped(size) ==
  LET ends == {LinesEnd(i) : i \in OccupiedSlots}
  IN IF ends = {} THEN EMPTY_LEN ELSE Min({Max(ends), size - 1})

\* dump_wallet's return value: what it printed, or would have with room for
\* the line at which it stopped.
dump_len(size) ==
  LET ends == {LinesEnd(i) : i \in OccupiedSlots}
      over == {e \in ends : e >= size}
  IN IF ends = {} THEN EMPTY_LEN
     ELSE IF over # {} THEN Min(over) ELSE Max(ends)

\* READALL into the caller's buffer of bufsize bytes; kmalloc may fail.
ReadAllInto(c) ==
  /\ call[c].cmd = "READALL"
  /\ \/ call[c].bufsize = 0 /\ Reject(c, "EINVAL")
     \/ call[c].bufsize > 0 /\ Reject(c, "ENOMEM")
     \/ /\ call[c].bufsize > 0
        /\ READALL(c, call[c].bufsize)
        /\ \/ /\ ReturnValue(c, "0")
              /\ out_len' = [out_len EXCEPT ![c] = dump_len(call[c].bufsize)]
           \/ ReturnValue(c, "EFAULT") /\ UNCHANGED out_len

kwallet_ioctl(c) ==
  /\ call[c] # NoCall /\ ret[c] = "none"
  /\ \/ Command(c)
     \/ ReadAllInto(c)
     \/ call[c].cmd = "unknown" /\ Reject(c, "ENOTTY")
     \* copy_from_user faults; DELETEALL alone copies nothing in.
     \/ call[c].cmd \notin {"unknown", "DELETEALL"} /\ Reject(c, "EFAULT")

\* ioctl() is back in the caller, which prints what it got.
Leave(c) ==
  /\ ret[c] # "none"
  /\ call' = [call EXCEPT ![c] = NoCall]
  /\ ret' = [ret EXCEPT ![c] = "none"]
  /\ out_len' = [out_len EXCEPT ![c] = 0]
  /\ reply' = [reply EXCEPT ![c] = NoReply]
  /\ UNCHANGED <<wallet_table, wallet_next_cid>>

Next == \E c \in Client : \/ \E r \in Request : Enter(c, r)
                          \/ kwallet_ioctl(c)
                          \/ Leave(c)

Spec == Init /\ [][Next]_vars
-----------------------------------------------------------------------------
\* The requests and their results have their types.
TypeOK ==
  /\ TableTypeOK
  /\ call \in [Client -> Request \cup {NoCall}]
  /\ ret \in [Client -> {"none", "0", "EFAULT", "ENOMEM", "ENOTTY"} \cup Errno]
  /\ out_len \in [Client -> Nat]

\* A call that is refused leaves the wallet as it was; EFAULT alone, which
\* also tells of a failed copy of the result, leaves the caller in doubt.
RefusalChangesNothing == [][\A c \in Client :
  ret[c] = "none" /\ ret'[c] \notin {"none", "0", "EFAULT"}
    => UNCHANGED <<wallet_table, wallet_next_cid>>]_vars

\* A caller that finds out_len below its bufsize has the whole listing: what
\* kwallet_cli tests before it prints its buffer.
CutIsTold == \A c \in Client :
  /\ ret[c] = "0" /\ call[c].cmd = "READALL"
  /\ out_len[c] < call[c].bufsize
  => ~reply[c].cut

\* For callers whose keys are cut before they arrive the wallet is exactly
\* the abstract one: a word names its own entry and no other's.
Exact == INSTANCE WalletMap WITH
           store <- {wallet_table[i] : i \in OccupiedSlots},
           last <- wallet_next_cid - 1,
           answer <- reply,
           Capacity <- WALLET_MAX_SLOTS,
           KeyId <- RequestKey,
           Truncated <- [k \in RequestKey |-> k],
           MaxCid <- MAX_CID

ExactMap == Exact!Spec

\* The exact wallet serves the caller's own request, with the next id if it asks
\* for one, and at most one slot changes, unless all are to be emptied.
Served(c, r) ==
  /\ \/ /\ r.cmd = "CREATE"
        /\ Exact!Create(c, r.key, r.priv)
        /\ wallet_next_cid' = wallet_next_cid + 1
     \/ r.cmd = "READ" /\ Exact!Read(c, r.key)
     \/ r.cmd = "READALL" /\ Exact!ReadAll(c)
     \/ r.cmd = "CHANGE" /\ Exact!Change(c, r.key, r.priv, r.new)
     \/ r.cmd = "DELETE" /\ Exact!Delete(c, r.key)
     \/ r.cmd = "DELETEALL" /\ Exact!DeleteAll(c)
  /\ r.cmd # "DELETEALL" =>
       \A i, j \in Slot : /\ wallet_table'[i] # wallet_table[i]
                         /\ wallet_table'[j] # wallet_table[j] => i = j

\* A caller told EFAULT has its whole command or nothing of it, by where the copy
\* failed: the wallet was not touched, or it did exactly what a caller who is told
\* of success finds done, to all its slots and to the counter of ids.
FaultIsCommit == [][\A c \in Client :
  ret[c] = "none" /\ ret'[c] \in {"0", "EFAULT"}
    => \/ ret'[c] = "EFAULT" /\ UNCHANGED tableVars
       \/ ~IsFailure(reply'[c]) /\ Served(c, call[c])]_vars
=============================================================================
