----------------------------- MODULE WalletTable -----------------------------
(***************************************************************************)
(* The wallet of the kernel modules: wallet_table, wallet_next_cid and the *)
(* six commands, as they run between mutex_lock(&wallet_lock) and          *)
(* mutex_unlock.  The four drivers (char device, /proc, /sys, ioctl) hold  *)
(* this same code; each driver module adds the path a command takes to it. *)
(***************************************************************************)
EXTENDS WalletReply, FiniteSets

CONSTANTS Client,            \* callers: the open files of a driver
          WALLET_MAX_SLOTS,
          KeyId,             \* the words a caller uses as keys
          PrivKey,           \* the words a caller uses as private keys
          None,              \* the empty string
          Truncated,         \* what strscpy keeps of a key in key_id[32]
          LINE_LEN,          \* length of one printed line of a listing
          BufSize,           \* the sizes of the buffers listings go to
          MAX_CID            \* bound on creation ids (an int in the code)

ASSUME SlotsAssumption == WALLET_MAX_SLOTS \in Nat \ {0}
ASSUME NoneAssumption == None \notin KeyId /\ None \notin PrivKey
ASSUME TruncatedAssumption ==
  /\ Truncated \in [KeyId -> KeyId]
  /\ \A k \in KeyId : Truncated[Truncated[k]] = Truncated[k]
ASSUME SizesAssumption == LINE_LEN \in Nat \ {0} /\ BufSize \subseteq Nat
ASSUME MaxCidAssumption == MAX_CID \in Nat \ {0}

VARIABLES wallet_table, wallet_next_cid,
          reply              \* reply / ret of the command a caller runs

tableVars == <<wallet_table, wallet_next_cid, reply>>

Slot == 0..(WALLET_MAX_SLOTS - 1)

\* struct wallet_entry; a slot is free when its creation_id is 0.
Entry == [key_id : KeyId, priv_key : PrivKey, creation_id : 1..MAX_CID]
ZeroEntry == [key_id |-> None, priv_key |-> None, creation_id |-> 0]

Reply == [creation_id : 1..MAX_CID] \cup [key_id : KeyId, priv_key : PrivKey]
         \cup {StatusReply} \cup [entries : SUBSET Entry, cut : BOOLEAN]
         \cup {Failure(e) : e \in Errno}

-----------------------------------------------------------------------------
Occupied(i) == wallet_table[i].creation_id # 0

Holds(i, name) == Occupied(i) /\ wallet_table[i].key_id = name

\* lookup_key returns i: the first occupied slot with that key.
lookup_key(name, i) == /\ Holds(i, name)
                       /\ \A j \in Slot : j < i => ~Holds(j, name)

\* lookup_key returns -1.
unknown_key(name) == \A i \in Slot : ~Holds(i, name)

\* find_free_slot returns i: the first free slot.
find_free_slot(i) == /\ ~Occupied(i)
                     /\ \A j \in Slot : j < i => Occupied(j)

\* Mutant: the search for a free slot stops before the last one.
no_free_slot_Early == \A i \in Slot : i < WALLET_MAX_SLOTS - 1 => Occupied(i)

\* find_free_slot returns -ENOSPC.
no_free_slot == \A i \in Slot : Occupied(i)

is_wallet_empty(table) == \A i \in Slot : table[i].creation_id = 0

OccupiedSlots == {i \in Slot : Occupied(i)}

\* dump_wallet prints the occupied slots in order until the buffer is full:
\* the line of slot i ends at LinesEnd(i), and snprintf printed it whole
\* only if the terminating NUL fits behind it.
LinesEnd(i) == LINE_LEN * Cardinality({j \in OccupiedSlots : j <= i})

dump_wallet(size) ==
  Listing({wallet_table[i] : i \in {j \in OccupiedSlots : LinesEnd(j) < size}},
          \E i \in OccupiedSlots : LinesEnd(i) >= size)
-----------------------------------------------------------------------------
TableInit == /\ wallet_table = [i \in Slot |-> ZeroEntry]
             /\ wallet_next_cid = 1
             /\ reply = [c \in Client |-> NoReply]

\* The command ends with reply r (or with ret = -errno) for its caller.
Finish(c, r) == /\ reply[c] = NoReply
                /\ reply' = [reply EXCEPT ![c] = r]

\* goto out_err: the table is as it was.
Fail(c, e) == /\ Finish(c, Failure(e))
              /\ UNCHANGED <<wallet_table, wallet_next_cid>>

CreateAt(c, i, name, priv) ==
  /\ wallet_next_cid <= MAX_CID
  /\ wallet_table' = [wallet_table EXCEPT
                        ![i] = [key_id |-> Truncated[name], priv_key |-> priv,
                                creation_id |-> wallet_next_cid]]
  /\ wallet_next_cid' = wallet_next_cid + 1
  /\ Finish(c, CidReply(wallet_next_cid))

ReadAt(c, i) ==
  /\ Finish(c, PairReply(wallet_table[i].key_id, wallet_table[i].priv_key))
  /\ UNCHANGED <<wallet_table, wallet_next_cid>>

\* Mutant: CHANGE does not compare the old private key.
ChangeAt_Unchecked(c, i, old, new) ==
  /\ wallet_table' = [wallet_table EXCEPT ![i] = Rekeyed(@, new)]
  /\ UNCHANGED wallet_next_cid
  /\ Finish(c, CidReply(wallet_table[i].creation_id))

\* Mutant: CHANGE stores the new private key before it compares the old one.
ChangeAt_Early(c, i, old, new) ==
  /\ wallet_table' = [wallet_table EXCEPT ![i] = Rekeyed(@, new)]
  /\ UNCHANGED wallet_next_cid
  /\ Finish(c, IF wallet_table[i].priv_key = old
               THEN CidReply(wallet_table[i].creation_id)
               ELSE Failure("EPERM"))

ChangeAt(c, i, old, new) ==
  \/ wallet_table[i].priv_key # old /\ Fail(c, "EPERM")
  \/ /\ wallet_table[i].priv_key = old
     /\ wallet_table' = [wallet_table EXCEPT ![i] = Rekeyed(@, new)]
     /\ UNCHANGED wallet_next_cid
     /\ Finish(c, CidReply(wallet_table[i].creation_id))

\* Mutant: DELETE starts the ids again though entries are left.
DeleteAt_Restarts(c, i) ==
  /\ wallet_table' = [wallet_table EXCEPT ![i] = ZeroEntry]
  /\ wallet_next_cid' = 1
  /\ Finish(c, StatusReply)

DeleteAt(c, i) ==
  /\ wallet_table' = [wallet_table EXCEPT ![i] = ZeroEntry]
  /\ wallet_next_cid' = IF is_wallet_empty(wallet_table') THEN 1
                                                          ELSE wallet_next_cid
  /\ Finish(c, StatusReply)

\* A line with a missing argument, or with no known command word.
Malformed(c) == Fail(c, "EINVAL")

\* Mutant: CREATE without its lookup_key.
CREATE_NoLookup(c, name, priv) ==
  \/ no_free_slot /\ Fail(c, "ENOSPC")
  \/ \E i \in Slot : find_free_slot(i) /\ CreateAt(c, i, name, priv)

CREATE(c, name, priv) ==
  \/ ~unknown_key(name) /\ Fail(c, "EEXIST")
  \/ unknown_key(name) /\ no_free_slot /\ Fail(c, "ENOSPC")
  \/ /\ unknown_key(name)
     /\ \E i \in Slot : find_free_slot(i) /\ CreateAt(c, i, name, priv)

READ(c, name) ==
  \/ unknown_key(name) /\ Fail(c, "ENOENT")
  \/ \E i \in Slot : lookup_key(name, i) /\ ReadAt(c, i)

READALL(c, size) == /\ Finish(c, dump_wallet(size))
                    /\ UNCHANGED <<wallet_table, wallet_next_cid>>

CHANGE(c, name, old, new) ==
  \/ unknown_key(name) /\ Fail(c, "ENOENT")
  \/ \E i \in Slot : lookup_key(name, i) /\ ChangeAt(c, i, old, new)

DELETE(c, name) ==
  \/ unknown_key(name) /\ Fail(c, "ENOENT")
  \/ \E i \in Slot : lookup_key(name, i) /\ DeleteAt(c, i)

\* Mutant: DELETEALL restarts the ids at 0, the mark of a free slot.
DELETEALL_FromZero(c) == /\ wallet_table' = [i \in Slot |-> ZeroEntry]
                         /\ wallet_next_cid' = 0
                         /\ Finish(c, StatusReply)

DELETEALL(c) == /\ wallet_table' = [i \in Slot |-> ZeroEntry]
                /\ wallet_next_cid' = 1
                /\ Finish(c, StatusReply)

\* The caller takes its reply away.
Return(c) == /\ reply[c] # NoReply
             /\ reply' = [reply EXCEPT ![c] = NoReply]
             /\ UNCHANGED <<wallet_table, wallet_next_cid>>

TableNext == \E c \in Client :
  \/ Malformed(c)
  \/ \E k \in KeyId, p \in PrivKey : CREATE(c, k, p)
  \/ \E k \in KeyId : READ(c, k)
  \/ \E n \in BufSize : READALL(c, n)
  \/ \E k \in KeyId, old, new \in PrivKey : CHANGE(c, k, old, new)
  \/ \E k \in KeyId : DELETE(c, k)
  \/ DELETEALL(c)
  \/ Return(c)

TableSpec == TableInit /\ [][TableNext]_tableVars
-----------------------------------------------------------------------------
\* The table, the counter and the replies have the values the code's types
\* and its checks leave: a free slot is all zero, an occupied one complete.
TableTypeOK == /\ wallet_table \in [Slot -> Entry \cup {ZeroEntry}]
               /\ wallet_next_cid \in 1..(MAX_CID + 1)
               /\ reply \in [Client -> Reply \cup {NoReply}]

\* A creation id in the table was handed out before the counter's value.
CidsIssued == \A i \in Slot : wallet_table[i].creation_id < wallet_next_cid

\* No two entries of the table have the same creation id, although DELETE
\* and DELETEALL set wallet_next_cid back to 1.
CidsDistinct == \A i, j \in OccupiedSlots :
  wallet_table[i].creation_id = wallet_table[j].creation_id => i = j

\* The counter starts again in an empty wallet.
EmptyRestarts == OccupiedSlots = {} => wallet_next_cid = 1

\* An id identifies an entry for as long as the wallet holds anything: what
\* is_wallet_empty guards in DELETE and DELETEALL relies on.
CidInv == CidsIssued /\ CidsDistinct /\ EmptyRestarts

\* A key the strscpy into key_id[32] leaves alone, and that no longer key is
\* cut down to.
Plain(k) == \A l \in KeyId : Truncated[l] = k <=> l = k

\* The check-then-store of CREATE admits a plain key once.  (Longer keys it
\* admits again and again: lookup_key compares the word before the cut.)
PlainKeysUnique == \A i, j \in OccupiedSlots :
  /\ Plain(wallet_table[i].key_id)
  /\ wallet_table[i].key_id = wallet_table[j].key_id
  => i = j

\* The slots are the entries of the abstract wallet, and the ids below the
\* counter those it has handed out since it was last empty.
Map == INSTANCE WalletMap WITH
         store <- {wallet_table[i] : i \in OccupiedSlots},
         last <- wallet_next_cid - 1,
         answer <- reply,
         Capacity <- WALLET_MAX_SLOTS,
         MaxCid <- MAX_CID

\* The table code does what the abstract wallet promises: ENOSPC only with
\* every place taken, no entry lost, changed or invented by a command.
MapSpec == Map!Spec
=============================================================================
