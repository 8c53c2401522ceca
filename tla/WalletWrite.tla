----------------------------- MODULE WalletWrite -----------------------------
(***************************************************************************)
(* kwallet_write of the char device, /proc and /sys modules up to its      *)
(* mutex_unlock(&wallet_lock): a command line is parsed and runs on the    *)
(* table.  How its reply is stored for readers, under another lock, and    *)
(* what write() returns then is in the module of each driver.              *)
(*                                                                         *)
(* A client is one open file, with at most one call running on it.  What   *)
(* runs between mutex_lock(&wallet_lock) and its unlock is two steps here, *)
(* the search of the table and the use of the slot found, so that it is    *)
(* the lock that makes a command atomic.                                   *)
(***************************************************************************)
EXTENDS WalletTable

ASSUME ClientAssumption == None \notin Client

VARIABLES wallet_lock,      \* the client that holds it, or None
          pc,               \* where the call of each client is
          cmd,              \* cmd, arg1, arg2 and arg3 of its line
          idx               \* the slot its search returned

writeVars == <<wallet_lock, pc, cmd, idx>>

\* What sscanf makes of a line.  One word stands for every line that the
\* checks under the lock answer with -EINVAL: an unknown command, a missing
\* argument.  A blank line leaves cmd[] as the stack had it, and the
\* arguments empty: it acts as one of "malformed", READALL and DELETEALL.
Parsed(op, a1, a2, a3) == [op |-> op, arg1 |-> a1, arg2 |-> a2, arg3 |-> a3]

Line ==
  {Parsed(op, None, None, None) : op \in {"malformed", "READALL", "DELETEALL"}}
  \cup {Parsed(op, k, None, None) : op \in {"READ", "DELETE"}, k \in KeyId}
  \cup {Parsed("CREATE", k, p, None) : k \in KeyId, p \in PrivKey}
  \cup {Parsed("CHANGE", k, p, q) : k \in KeyId, p \in PrivKey, q \in PrivKey}

NoLine == Parsed("none", None, None, None)

\* Where a call may be.  The last two are in what the drivers add: a response
\* being stored, a response being copied to a reader.
Place == {"idle", "lock", "search", "execute", "done", "storing", "copy"}

WriteInit == /\ wallet_lock = None
             /\ pc = [c \in Client |-> "idle"]
             /\ cmd = [c \in Client |-> NoLine]
             /\ idx = [c \in Client |-> 0]

Goto(c, p) == pc' = [pc EXCEPT ![c] = p]

\* Bound: a CREATE starts only while an id is left for it and for those
\* that have not run yet.
CidLeft(l) ==
  l.op = "CREATE" =>
    wallet_next_cid + Cardinality({d \in Client : cmd[d].op = "CREATE"}) <= MAX_CID

\* write() copies and parses the line.  (A line of 256 bytes or more, or an
\* unreadable one, returns before anything is touched: no step.)
WriteBegin(c, l) ==
  /\ pc[c] = "idle"
  /\ CidLeft(l)
  /\ cmd' = [cmd EXCEPT ![c] = l]
  /\ Goto(c, "lock")
  /\ UNCHANGED <<tableVars, wallet_lock, idx>>

\* Mutant: the table is used without wallet_lock.
Lock_Unguarded(c) ==
  /\ pc[c] = "lock"
  /\ wallet_lock' = c
  /\ Goto(c, "search")
  /\ UNCHANGED <<tableVars, cmd, idx>>

\* mutex_lock(&wallet_lock)
Lock(c) ==
  /\ pc[c] = "lock"
  /\ wallet_lock = None
  /\ wallet_lock' = c
  /\ Goto(c, "search")
  /\ UNCHANGED <<tableVars, cmd, idx>>

\* goto out_err from the checks and the searches of a command.
Refused(c) ==
  LET m == cmd[c] IN
  \/ m.op = "malformed" /\ Malformed(c)
  \/ m.op = "CREATE" /\ ~unknown_key(m.arg1) /\ Fail(c, "EEXIST")
  \/ m.op = "CREATE" /\ unknown_key(m.arg1) /\ no_free_slot /\ Fail(c, "ENOSPC")
  \/ m.op \in {"READ", "CHANGE", "DELETE"} /\ unknown_key(m.arg1)
     /\ Fail(c, "ENOENT")

\* The search of the command of c returns i.
Found(c, i) ==
  LET m == cmd[c] IN
  \/ m.op = "CREATE" /\ unknown_key(m.arg1) /\ find_free_slot(i)
  \/ m.op \in {"READ", "CHANGE", "DELETE"} /\ lookup_key(m.arg1, i)
  \/ m.op \in {"READALL", "DELETEALL"} /\ i = 0

Unlock(c) == wallet_lock' = None /\ Goto(c, "done")

\* Mutant: goto out_err returns with wallet_lock held.
Search_KeepsLock(c) ==
  /\ pc[c] = "search"
  /\ \/ Refused(c) /\ Goto(c, "done") /\ UNCHANGED <<wallet_lock, idx>>
     \/ \E i \in Slot : /\ Found(c, i)
                        /\ idx' = [idx EXCEPT ![c] = i]
                        /\ Goto(c, "execute")
                        /\ UNCHANGED <<tableVars, wallet_lock>>
  /\ UNCHANGED cmd

\* Mutant: wallet_lock covers the search only, not the use of its result.
Search_Unlocks(c) ==
  /\ pc[c] = "search"
  /\ \/ Refused(c) /\ Unlock(c) /\ idx' = idx
     \/ \E i \in Slot : /\ Found(c, i)
                        /\ idx' = [idx EXCEPT ![c] = i]
                        /\ Goto(c, "execute")
                        /\ wallet_lock' = None
                        /\ UNCHANGED tableVars
  /\ UNCHANGED cmd

Search(c) ==
  /\ pc[c] = "search"
  /\ \/ Refused(c) /\ Unlock(c) /\ idx' = idx
     \/ \E i \in Slot : /\ Found(c, i)
                        /\ idx' = [idx EXCEPT ![c] = i]
                        /\ Goto(c, "execute")
                        /\ UNCHANGED <<tableVars, wallet_lock>>
  /\ UNCHANGED cmd

\* The command runs on the slot found; mutex_unlock(&wallet_lock).
Execute(c) ==
  LET m == cmd[c]
      i == idx[c]
  IN /\ pc[c] = "execute"
     /\ \/ m.op = "CREATE" /\ CreateAt(c, i, m.arg1, m.arg2)
        \/ m.op = "READ" /\ ReadAt(c, i)
        \/ m.op = "READALL" /\ \E n \in BufSize : READALL(c, n)
        \/ m.op = "CHANGE" /\ ChangeAt(c, i, m.arg2, m.arg3)
        \/ m.op = "DELETE" /\ DeleteAt(c, i)
        \/ m.op = "DELETEALL" /\ DELETEALL(c)
     /\ Unlock(c)
     /\ UNCHANGED <<cmd, idx>>

\* write() returns to its caller.
WriteReturn(c) ==
  /\ Return(c)
  /\ Goto(c, "idle")
  /\ cmd' = [cmd EXCEPT ![c] = NoLine]
  /\ idx' = [idx EXCEPT ![c] = 0]
  /\ UNCHANGED wallet_lock

-----------------------------------------------------------------------------
\* From a client's line to the return of its write().
Writing(c) == cmd[c] # NoLine

\* The variables of the write path have their types.
WriteTypeOK ==
  /\ TableTypeOK
  /\ wallet_lock \in Client \cup {None}
  /\ pc \in [Client -> Place]
  /\ cmd \in [Client -> Line \cup {NoLine}]
  /\ idx \in [Client -> Slot]

\* What a command found under wallet_lock is still so when it uses it: no
\* other command has taken the free slot, created the key, or moved or
\* removed the entry, whatever the interleaving of writers.
IndexStillValid == \A c \in Client : pc[c] = "execute" => Found(c, idx[c])

\* Nobody keeps wallet_lock on the way out: every path of kwallet_write, the
\* goto out_err ones too, lets it go before it returns.
LockReleased ==
  \A c \in Client : wallet_lock = c <=> pc[c] \in {"search", "execute"}

\* The private key of an entry is replaced only for a client whose line names
\* the entry and the private key it has at that moment, whatever other
\* commands run between that client's search and its comparison.
OldKeyKnown == [][\A i \in Slot :
  /\ Occupied(i) /\ wallet_table'[i].creation_id = wallet_table[i].creation_id
  /\ wallet_table'[i].priv_key # wallet_table[i].priv_key
  => \E c \in Client : /\ pc[c] = "execute" /\ cmd[c].op = "CHANGE"
                       /\ cmd[c].arg1 = wallet_table[i].key_id
                       /\ cmd[c].arg2 = wallet_table[i].priv_key
                       /\ cmd[c].arg3 = wallet_table'[i].priv_key
     ]_<<tableVars, writeVars>>
=============================================================================
