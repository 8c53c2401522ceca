-------------------------- MODULE WalletTableProofs --------------------------
(***************************************************************************)
(* Theorems about WalletTable, for every set of callers, keys and private  *)
(* keys, every truncation and every number of slots; and, behind them, the *)
(* lemmas on the critical section of kwallet_write, for each driver that   *)
(* takes its commands through WalletWrite.                                 *)
(***************************************************************************)
EXTENDS WalletWrite, FiniteSetTheorems, TLAPS

USE SlotsAssumption, NoneAssumption, TruncatedAssumption, MaxCidAssumption
    DEF Rekeyed

\* What a command may do to the table: nothing, fill one free slot with a key
\* that lookup_key does not find, replace one private key, zero one occupied
\* slot, or zero them all.
LEMMA TableStep ==
  ASSUME TableTypeOK, TableNext
  PROVE  \/ UNCHANGED <<wallet_table, wallet_next_cid>>
         \/ \E c \in Client, i \in Slot, k \in KeyId, p \in PrivKey :
              unknown_key(k) /\ ~Occupied(i) /\ CreateAt(c, i, k, p)
         \/ \E i \in Slot, p \in PrivKey :
              /\ Occupied(i)
              /\ wallet_table' = [wallet_table EXCEPT ![i] = Rekeyed(@, p)]
              /\ UNCHANGED wallet_next_cid
         \/ \E c \in Client, i \in Slot : Occupied(i) /\ DeleteAt(c, i)
         \/ /\ wallet_table' = [i \in Slot |-> ZeroEntry]
            /\ wallet_next_cid' = 1
<1>1. PICK c \in Client :
        \/ Malformed(c)
        \/ \E k \in KeyId, p \in PrivKey : CREATE(c, k, p)
        \/ \E k \in KeyId : READ(c, k)
        \/ \E n \in BufSize : READALL(c, n)
        \/ \E k \in KeyId, old, new \in PrivKey : CHANGE(c, k, old, new)
        \/ \E k \in KeyId : DELETE(c, k)
        \/ DELETEALL(c)
        \/ Return(c)
  BY DEF TableNext
<1>2. CASE Malformed(c)
  BY <1>2 DEF Malformed, Fail
<1>3. ASSUME NEW k \in KeyId, NEW p \in PrivKey, CREATE(c, k, p)
      PROVE  \/ UNCHANGED <<wallet_table, wallet_next_cid>>
             \/ \E i \in Slot :
                  unknown_key(k) /\ ~Occupied(i) /\ CreateAt(c, i, k, p)
  BY <1>3 DEF CREATE, Fail, find_free_slot
<1>4. CASE \E k \in KeyId : READ(c, k)
  BY <1>4 DEF READ, Fail, ReadAt
<1>5. CASE \E n \in BufSize : READALL(c, n)
  BY <1>5 DEF READALL
<1>6. ASSUME NEW k \in KeyId, NEW old \in PrivKey, NEW new \in PrivKey,
             CHANGE(c, k, old, new)
      PROVE  \/ UNCHANGED <<wallet_table, wallet_next_cid>>
             \/ \E i \in Slot :
                  /\ Occupied(i)
                  /\ wallet_table' = [wallet_table EXCEPT ![i] = Rekeyed(@, new)]
                  /\ UNCHANGED wallet_next_cid
  BY <1>6 DEF CHANGE, Fail, ChangeAt, lookup_key, Holds
<1>7. ASSUME NEW k \in KeyId, DELETE(c, k)
      PROVE  \/ UNCHANGED <<wallet_table, wallet_next_cid>>
             \/ \E i \in Slot : Occupied(i) /\ DeleteAt(c, i)
  BY <1>7 DEF DELETE, Fail, lookup_key, Holds
<1>8. CASE DELETEALL(c)
  BY <1>8 DEF DELETEALL
<1>9. CASE Return(c)
  BY <1>9 DEF Return
<1>10. QED
  BY <1>1, <1>2, <1>3, <1>4, <1>5, <1>6, <1>7, <1>8, <1>9

-----------------------------------------------------------------------------
\* An occupied slot holds a whole entry.
LEMMA OccupiedIsEntry ==
  ASSUME TableTypeOK, NEW i \in Slot, Occupied(i)
  PROVE  wallet_table[i] \in Entry
BY DEF TableTypeOK, Occupied, ZeroEntry

\* Every reply a command finishes with is a reply of the protocol.
LEMMA ReplyStep ==
  ASSUME TableTypeOK, TableNext
  PROVE  reply' \in [Client -> Reply \cup {NoReply}]
<1> DEFINE Good(c) == \E r \in Reply : Finish(c, r)
<1>1. \A c \in Client, e \in Errno : Fail(c, e) => Good(c)
  BY DEF Fail, Reply
<1>2. ASSUME NEW c \in Client, NEW k \in KeyId, NEW p \in PrivKey,
             CREATE(c, k, p)
      PROVE  Good(c)
  <2>1. CASE \E i \in Slot : find_free_slot(i) /\ CreateAt(c, i, k, p)
    <3>1. Finish(c, CidReply(wallet_next_cid)) /\ wallet_next_cid \in 1..MAX_CID
      BY <2>1 DEF CreateAt, TableTypeOK
    <3>2. CidReply(wallet_next_cid) \in Reply
      BY <3>1 DEF CidReply, Reply
    <3>3. QED BY <3>1, <3>2
  <2>2. CASE Fail(c, "EEXIST") \/ Fail(c, "ENOSPC")
    BY <1>1, <2>2 DEF Errno
  <2>3. QED BY <1>2, <2>1, <2>2 DEF CREATE
<1>3. ASSUME NEW c \in Client, NEW k \in KeyId, READ(c, k)
      PROVE  Good(c)
  <2>1. ASSUME NEW i \in Slot, lookup_key(k, i), ReadAt(c, i)
        PROVE  Good(c)
    <3>1. wallet_table[i] \in Entry
      BY <2>1, OccupiedIsEntry DEF lookup_key, Holds
    <3>2. PairReply(wallet_table[i].key_id, wallet_table[i].priv_key) \in Reply
      BY <3>1 DEF PairReply, Reply, Entry
    <3>3. QED BY <2>1, <3>2 DEF ReadAt
  <2>2. QED BY <1>1, <1>3, <2>1 DEF READ, Errno
<1>4. ASSUME NEW c \in Client, NEW n \in BufSize, READALL(c, n)
      PROVE  Good(c)
  <2>1. {wallet_table[i] : i \in {j \in OccupiedSlots : LinesEnd(j) < n}}
          \subseteq Entry
    BY OccupiedIsEntry DEF OccupiedSlots
  <2>2. dump_wallet(n) \in Reply
    BY <2>1 DEF dump_wallet, Listing, Reply
  <2>3. QED BY <1>4, <2>2 DEF READALL
<1>5. ASSUME NEW c \in Client, NEW k \in KeyId, NEW old \in PrivKey,
             NEW new \in PrivKey, CHANGE(c, k, old, new)
      PROVE  Good(c)
  <2>1. ASSUME NEW i \in Slot, lookup_key(k, i), ChangeAt(c, i, old, new)
        PROVE  Good(c)
    <3>1. wallet_table[i] \in Entry
      BY <2>1, OccupiedIsEntry DEF lookup_key, Holds
    <3>2. CidReply(wallet_table[i].creation_id) \in Reply
      BY <3>1 DEF CidReply, Reply, Entry
    <3>3. QED BY <1>1, <2>1, <3>2 DEF ChangeAt, Errno
  <2>2. QED BY <1>1, <1>5, <2>1 DEF CHANGE, Errno
<1>6. ASSUME NEW c \in Client, NEW k \in KeyId, DELETE(c, k)
      PROVE  Good(c)
  BY <1>1, <1>6 DEF DELETE, DeleteAt, Reply, Errno
<1>7. ASSUME NEW c \in Client, DELETEALL(c)
      PROVE  Good(c)
  BY <1>7 DEF DELETEALL, Reply
<1>8. ASSUME NEW c \in Client, Good(c) \/ Return(c)
      PROVE  reply' \in [Client -> Reply \cup {NoReply}]
  BY <1>8 DEF TableTypeOK, Finish, Return
<1>9. QED
  BY <1>1, <1>2, <1>3, <1>4, <1>5, <1>6, <1>7, <1>8
     DEF TableNext, Malformed, Errno

\* One step keeps the types: a slot is either all zero or a complete entry,
\* whatever the commands and their order.
LEMMA TableTypeStep ==
  ASSUME TableTypeOK, [TableNext]_tableVars
  PROVE  TableTypeOK'
<1>1. CASE TableNext
  <2> DEFINE Typed == /\ wallet_table' \in [Slot -> Entry \cup {ZeroEntry}]
                      /\ wallet_next_cid' \in 1..(MAX_CID + 1)
  <2>1. Typed
    <3>1. CASE UNCHANGED <<wallet_table, wallet_next_cid>>
      BY <3>1 DEF TableTypeOK
    <3>2. ASSUME NEW c \in Client, NEW i \in Slot, NEW k \in KeyId,
                 NEW p \in PrivKey, CreateAt(c, i, k, p)
          PROVE  Typed
      BY <3>2 DEF TableTypeOK, CreateAt, Entry
    <3>3. ASSUME NEW i \in Slot, NEW p \in PrivKey, Occupied(i),
                 wallet_table' = [wallet_table EXCEPT ![i] = Rekeyed(@, p)],
                 UNCHANGED wallet_next_cid
          PROVE  Typed
      BY <3>3, OccupiedIsEntry DEF TableTypeOK, Entry
    <3>4. ASSUME NEW c \in Client, NEW i \in Slot, DeleteAt(c, i)
          PROVE  Typed
      BY <3>4 DEF TableTypeOK, DeleteAt
    <3>5. CASE /\ wallet_table' = [i \in Slot |-> ZeroEntry]
               /\ wallet_next_cid' = 1
      BY <3>5
    <3>6. QED
      BY <1>1, <3>1, <3>2, <3>3, <3>4, <3>5, TableStep DEF TableTypeOK
  <2>2. QED BY <1>1, <2>1, ReplyStep DEF TableTypeOK
<1>2. CASE UNCHANGED tableVars
  BY <1>2 DEF TableTypeOK, tableVars
<1>3. QED BY <1>1, <1>2

\* The types of WalletTable.
THEOREM TypeCorrect == TableSpec => []TableTypeOK
<1>1. TableInit => TableTypeOK
  BY DEF TableInit, TableTypeOK
<1>2. QED BY <1>1, TableTypeStep, PTL DEF TableSpec

-----------------------------------------------------------------------------
\* Ids handed out since the wallet was last empty are below the counter and
\* distinct, and an empty wallet starts again at 1: one step.
LEMMA CidStep ==
  ASSUME TableTypeOK, CidInv, [TableNext]_tableVars
  PROVE  CidInv'
<1> USE DEF CidInv, CidsIssued, CidsDistinct, EmptyRestarts, OccupiedSlots,
            Occupied
<1>1. CASE UNCHANGED <<wallet_table, wallet_next_cid>>
  BY <1>1
<1>2. ASSUME NEW c \in Client, NEW i \in Slot, NEW k \in KeyId,
             NEW p \in PrivKey, CreateAt(c, i, k, p)
      PROVE  CidInv'
  BY <1>2 DEF CreateAt, TableTypeOK, Entry, ZeroEntry
<1>3. ASSUME NEW i \in Slot, NEW p \in PrivKey, Occupied(i),
             wallet_table' = [wallet_table EXCEPT ![i] = Rekeyed(@, p)],
             UNCHANGED wallet_next_cid
      PROVE  CidInv'
  <2>1. \A j \in Slot : wallet_table'[j].creation_id = wallet_table[j].creation_id
    BY <1>3 DEF TableTypeOK, Entry, ZeroEntry
  <2>2. QED BY <1>3, <2>1
<1>4. ASSUME NEW c \in Client, NEW i \in Slot, DeleteAt(c, i)
      PROVE  CidInv'
  <2>1. \A j \in Slot : wallet_table'[j] = IF j = i THEN ZeroEntry
                                                    ELSE wallet_table[j]
    BY <1>4 DEF DeleteAt, TableTypeOK
  <2>2. CASE is_wallet_empty(wallet_table')
    BY <1>4, <2>2 DEF DeleteAt, is_wallet_empty
  <2>3. CASE ~is_wallet_empty(wallet_table')
    <3>1. wallet_next_cid' = wallet_next_cid /\ wallet_next_cid \in Nat \ {0}
      BY <1>4, <2>3 DEF DeleteAt, TableTypeOK
    <3>2. QED BY <2>1, <2>3, <3>1 DEF is_wallet_empty, ZeroEntry
  <2>4. QED BY <2>2, <2>3
<1>5. CASE /\ wallet_table' = [i \in Slot |-> ZeroEntry]
           /\ wallet_next_cid' = 1
  BY <1>5 DEF ZeroEntry
<1>6. QED
  BY <1>1, <1>2, <1>3, <1>4, <1>5, TableStep DEF tableVars

\* A creation id names one entry for as long as the wallet is not empty.
THEOREM CidsCorrect == TableSpec => []CidInv
<1>1. TableInit => CidInv
  BY DEF TableInit, CidInv, CidsIssued, CidsDistinct, EmptyRestarts, OccupiedSlots,
         Occupied, ZeroEntry
<1>2. QED BY <1>1, CidStep, TypeCorrect, PTL DEF TableSpec

-----------------------------------------------------------------------------
\* CREATE's lookup admits a plain key once: one step.
LEMMA PlainStep ==
  ASSUME TableTypeOK, PlainKeysUnique, [TableNext]_tableVars
  PROVE  PlainKeysUnique'
<1> USE DEF PlainKeysUnique, OccupiedSlots, Occupied
<1>1. CASE UNCHANGED <<wallet_table, wallet_next_cid>>
  BY <1>1
<1>2. ASSUME NEW c \in Client, NEW i \in Slot, NEW k \in KeyId,
             NEW p \in PrivKey, unknown_key(k), ~Occupied(i),
             CreateAt(c, i, k, p)
      PROVE  PlainKeysUnique'
  <2>1. \A j \in Slot : wallet_table'[j] = IF j = i
           THEN [key_id |-> Truncated[k], priv_key |-> p,
                 creation_id |-> wallet_next_cid]
           ELSE wallet_table[j]
    BY <1>2 DEF CreateAt, TableTypeOK
  <2>2. ASSUME Plain(Truncated[k]), NEW j \in Slot, j # i, Occupied(j)
        PROVE  wallet_table[j].key_id # Truncated[k]
    <3>1. Truncated[k] = k
      BY <2>2 DEF Plain
    <3>2. QED BY <1>2, <2>2, <3>1 DEF unknown_key, Holds
  <2>3. QED BY <2>1, <2>2
<1>3. ASSUME NEW i \in Slot, NEW p \in PrivKey, Occupied(i),
             wallet_table' = [wallet_table EXCEPT ![i] = Rekeyed(@, p)]
      PROVE  PlainKeysUnique'
  <2>1. \A j \in Slot :
          /\ wallet_table'[j].creation_id = wallet_table[j].creation_id
          /\ wallet_table'[j].key_id = wallet_table[j].key_id
    BY <1>3 DEF TableTypeOK, Entry, ZeroEntry
  <2>2. QED BY <2>1
<1>4. ASSUME NEW c \in Client, NEW i \in Slot, DeleteAt(c, i)
      PROVE  PlainKeysUnique'
  <2>1. \A j \in Slot : wallet_table'[j] = IF j = i THEN ZeroEntry
                                                    ELSE wallet_table[j]
    BY <1>4 DEF DeleteAt, TableTypeOK
  <2>2. QED BY <2>1 DEF ZeroEntry
<1>5. CASE wallet_table' = [i \in Slot |-> ZeroEntry]
  BY <1>5 DEF ZeroEntry
<1>6. QED
  BY <1>1, <1>2, <1>3, <1>4, <1>5, TableStep DEF tableVars

\* A key that no longer key is cut down to is in the table at most once.
THEOREM PlainKeysCorrect == TableSpec => []PlainKeysUnique
<1>1. TableInit => PlainKeysUnique
  BY DEF TableInit, PlainKeysUnique, OccupiedSlots, Occupied, ZeroEntry
<1>2. QED BY <1>1, PlainStep, TypeCorrect, PTL DEF TableSpec
-----------------------------------------------------------------------------
\* The entries of the table, as the abstract wallet sees them.
Store == {wallet_table[i] : i \in OccupiedSlots}

\* The table is full exactly when the abstract wallet is.
LEMMA StoreCardinality ==
  ASSUME TableTypeOK, CidInv
  PROVE  /\ Cardinality(Store) \in Nat
         /\ no_free_slot => Cardinality(Store) = WALLET_MAX_SLOTS
         /\ ~no_free_slot => Cardinality(Store) < WALLET_MAX_SLOTS
<1> DEFINE f == [i \in OccupiedSlots |-> wallet_table[i]]
<1>1. IsFiniteSet(Slot) /\ Cardinality(Slot) = WALLET_MAX_SLOTS
  BY FS_Interval DEF Slot
<1>2. OccupiedSlots \in SUBSET Slot
  BY DEF OccupiedSlots
<1>3. /\ IsFiniteSet(OccupiedSlots)
      /\ Cardinality(OccupiedSlots) <= WALLET_MAX_SLOTS
      /\ Cardinality(OccupiedSlots) = WALLET_MAX_SLOTS => OccupiedSlots = Slot
  BY <1>1, <1>2, FS_Subset
<1>4. f \in Bijection(OccupiedSlots, Store)
  BY DEF Bijection, Injection, Surjection, IsInjective, Store, CidInv,
         CidsDistinct
<1>5. Cardinality(Store) = Cardinality(OccupiedSlots)
  BY <1>3, <1>4, FS_Bijection DEF ExistsBijection
<1>6. no_free_slot <=> OccupiedSlots = Slot
  BY DEF no_free_slot, OccupiedSlots
<1>7. Cardinality(OccupiedSlots) \in Nat
  BY <1>3, FS_CardinalityType
<1>8. QED BY <1>1, <1>3, <1>5, <1>6, <1>7

\* A key has an entry in the abstract wallet iff lookup_key finds a slot.
LEMMA NamedIsHeld ==
  ASSUME NEW k
  PROVE  /\ Map!Named(k) = {} <=> unknown_key(k)
         /\ \A i \in Slot : lookup_key(k, i) => wallet_table[i] \in Map!Named(k)
BY DEF Map!Named, unknown_key, lookup_key, Holds, OccupiedSlots, Occupied

\* The abstract ids start again with an empty wallet: DELETE at one slot.
LEMMA DeleteStep ==
  ASSUME TableTypeOK, CidInv, NEW c \in Client, NEW i \in Slot, Occupied(i),
         DeleteAt(c, i)
  PROVE  /\ Store' = Store \ {wallet_table[i]}
         /\ wallet_next_cid' - 1 = IF Store' = {} THEN 0 ELSE wallet_next_cid - 1
<1>1. \A j \in Slot : wallet_table'[j] = IF j = i THEN ZeroEntry
                                                  ELSE wallet_table[j]
  BY DEF DeleteAt, TableTypeOK
<1>2. OccupiedSlots' = OccupiedSlots \ {i}
  BY <1>1 DEF OccupiedSlots, Occupied, ZeroEntry
<1>3. \A j \in OccupiedSlots : wallet_table[j] = wallet_table[i] => j = i
  BY DEF CidInv, CidsDistinct, OccupiedSlots
<1>4. Store' = Store \ {wallet_table[i]}
  BY <1>1, <1>2, <1>3 DEF Store, OccupiedSlots
<1>5. is_wallet_empty(wallet_table') <=> Store' = {}
  BY DEF is_wallet_empty, Store, OccupiedSlots, Occupied
<1>6. QED BY <1>4, <1>5 DEF DeleteAt, TableTypeOK

\* CREATE fills a free slot: the abstract wallet gets one more entry.
LEMMA CreateStep ==
  ASSUME TableTypeOK, NEW c \in Client, NEW i \in Slot, ~Occupied(i),
         NEW k \in KeyId, NEW p \in PrivKey, CreateAt(c, i, k, p)
  PROVE  Store' = Store \cup {[key_id |-> Truncated[k], priv_key |-> p,
                               creation_id |-> wallet_next_cid]}
<1>1. \A j \in Slot : wallet_table'[j] = IF j = i
         THEN [key_id |-> Truncated[k], priv_key |-> p,
               creation_id |-> wallet_next_cid]
         ELSE wallet_table[j]
  BY DEF CreateAt, TableTypeOK
<1>2. OccupiedSlots' = OccupiedSlots \cup {i}
  BY <1>1 DEF OccupiedSlots, Occupied, CreateAt, TableTypeOK
<1>3. QED BY <1>1, <1>2 DEF Store, OccupiedSlots, Occupied

\* CHANGE replaces one entry by the same entry with another private key.
LEMMA ChangeStep ==
  ASSUME TableTypeOK, CidInv, NEW i \in Slot, Occupied(i), NEW p \in PrivKey,
         wallet_table' = [wallet_table EXCEPT ![i] = Rekeyed(@, p)]
  PROVE  Store' = (Store \ {wallet_table[i]}) \cup {Rekeyed(wallet_table[i], p)}
<1>1. \A j \in Slot : wallet_table'[j] = IF j = i
         THEN Rekeyed(wallet_table[i], p) ELSE wallet_table[j]
  BY DEF TableTypeOK
<1>2. OccupiedSlots' = OccupiedSlots
  BY <1>1 DEF OccupiedSlots, Occupied
<1>3. \A j \in OccupiedSlots : wallet_table[j] = wallet_table[i] => j = i
  BY DEF CidInv, CidsDistinct, OccupiedSlots
<1>4. i \in OccupiedSlots
  BY DEF OccupiedSlots
<1>5. QED BY <1>1, <1>2, <1>3, <1>4 DEF Store, OccupiedSlots

\* The two modules write the same replies.
USE DEF NoReply, Failure, CidReply, PairReply, StatusReply, Listing,
        Map!NoReply, Map!Failure, Map!CidReply, Map!PairReply,
        Map!StatusReply, Map!Listing, Map!Rekeyed

\* They count with the same operator.
LEMMA SameCardinality == \A S : Map!Cardinality(S) = Cardinality(S)
BY DEF Cardinality, Map!Cardinality

USE DEF Finish, Map!Answer

\* What leaves the slots alone leaves the abstract wallet alone.
LEMMA StoreUnchanged == UNCHANGED wallet_table => UNCHANGED Store
BY DEF Store, OccupiedSlots, Occupied

\* The table implements the abstract wallet, one command after another: a
\* command that fails is refused there too.
LEMMA MapRefuse ==
  ASSUME NEW c \in Client, NEW e, Fail(c, e)
  PROVE  Map!Refuse(c, e)
BY StoreUnchanged DEF Fail, Map!Refuse, Store

\* CREATE finds a place exactly when the abstract wallet has one.
LEMMA MapCreate ==
  ASSUME TableTypeOK, CidInv, NEW c \in Client, NEW k \in KeyId,
         NEW p \in PrivKey, CREATE(c, k, p)
  PROVE  Map!Create(c, k, p)
<1>0. wallet_next_cid \in 1..(MAX_CID + 1)
  BY DEF TableTypeOK
<1>1. CASE ~unknown_key(k) /\ Fail(c, "EEXIST")
  BY <1>1, MapRefuse, NamedIsHeld DEF Map!Create
<1>2. CASE unknown_key(k) /\ no_free_slot /\ Fail(c, "ENOSPC")
  BY <1>2, MapRefuse, NamedIsHeld, StoreCardinality, SameCardinality
  DEF Map!Create, Store
<1>3. ASSUME NEW i \in Slot, unknown_key(k), find_free_slot(i),
             CreateAt(c, i, k, p)
      PROVE  Map!Create(c, k, p)
  <2>1. ~Occupied(i) /\ ~no_free_slot
    BY <1>3 DEF find_free_slot, no_free_slot
  <2>2. Map!Named(k) = {} /\ Cardinality(Store) < WALLET_MAX_SLOTS
    BY <1>3, <2>1, NamedIsHeld, StoreCardinality
  <2>3. /\ wallet_next_cid \in (wallet_next_cid - 1 + 1)..MAX_CID
        /\ wallet_next_cid' - 1 = wallet_next_cid
        /\ Finish(c, CidReply(wallet_next_cid))
    BY <1>0, <1>3 DEF CreateAt
  <2>4. Store' = Store \cup {[key_id |-> Truncated[k], priv_key |-> p,
                              creation_id |-> wallet_next_cid]}
    BY <1>3, <2>1, CreateStep
  <2>5. QED BY <2>2, <2>3, <2>4, SameCardinality DEF Map!Create, Store
<1>4. QED BY <1>1, <1>2, <1>3 DEF CREATE

\* READ finds the slot of an entry with that key.
LEMMA MapRead ==
  ASSUME NEW c \in Client, NEW k \in KeyId, READ(c, k)
  PROVE  Map!Read(c, k)
<1>1. CASE unknown_key(k) /\ Fail(c, "ENOENT")
  BY <1>1, MapRefuse, NamedIsHeld DEF Map!Read
<1>2. ASSUME NEW i \in Slot, lookup_key(k, i), ReadAt(c, i)
      PROVE  Map!Read(c, k)
  <2>1. wallet_table[i] \in Map!Named(k) /\ wallet_table[i].key_id = k
    BY <1>2, NamedIsHeld DEF lookup_key, Holds
  <2>2. QED BY <1>2, <2>1, StoreUnchanged DEF ReadAt, Map!Read, Store
<1>3. QED BY <1>1, <1>2 DEF READ

\* Where the line of an occupied slot ends is a length.
LEMMA LinesEndType ==
  ASSUME NEW j \in OccupiedSlots
  PROVE  LinesEnd(j) \in Nat /\ LinesEnd(j) <= LINE_LEN * WALLET_MAX_SLOTS
<1> DEFINE upto == {i \in OccupiedSlots : i <= j}
<1>1. IsFiniteSet(Slot) /\ Cardinality(Slot) = WALLET_MAX_SLOTS
  BY FS_Interval DEF Slot
<1>2. upto \in SUBSET Slot
  BY DEF OccupiedSlots
<1>3. IsFiniteSet(upto) /\ Cardinality(upto) <= WALLET_MAX_SLOTS
  BY <1>1, <1>2, FS_Subset
<1>4. Cardinality(upto) \in Nat
  BY <1>3, FS_CardinalityType
<1>5. LinesEnd(j) = LINE_LEN * Cardinality(upto)
  BY DEF LinesEnd
<1> HIDE DEF upto
<1>6. \A m, n \in Nat : m <= n => LINE_LEN * m \in Nat /\ LINE_LEN * m <= LINE_LEN * n
  BY SizesAssumption
<1>7. QED BY <1>3, <1>4, <1>5, <1>6

\* A listing that dump_wallet did not cut has every entry.
LEMMA MapReadAll ==
  ASSUME NEW c \in Client, NEW n \in BufSize, READALL(c, n)
  PROVE  Map!ReadAll(c)
<1> DEFINE shown == {wallet_table[i] :
                       i \in {j \in OccupiedSlots : LinesEnd(j) < n}}
           cut == \E i \in OccupiedSlots : LinesEnd(i) >= n
<1>1. shown \in SUBSET Store /\ cut \in BOOLEAN
  BY DEF Store
<1>2. ~cut => shown = Store
  BY LinesEndType, SizesAssumption DEF Store
<1>3. Finish(c, Listing(shown, cut)) /\ UNCHANGED Store
  BY StoreUnchanged DEF READALL, dump_wallet
<1>4. QED BY <1>1, <1>2, <1>3 DEF Map!ReadAll, Store, READALL

\* CHANGE compares and replaces the private key of an entry with that key.
LEMMA MapChange ==
  ASSUME TableTypeOK, CidInv, NEW c \in Client, NEW k \in KeyId,
         NEW old \in PrivKey, NEW new \in PrivKey, CHANGE(c, k, old, new)
  PROVE  Map!Change(c, k, old, new)
<1>1. CASE unknown_key(k) /\ Fail(c, "ENOENT")
  BY <1>1, MapRefuse, NamedIsHeld DEF Map!Change
<1>2. ASSUME NEW i \in Slot, lookup_key(k, i), ChangeAt(c, i, old, new)
      PROVE  Map!Change(c, k, old, new)
  <2>1. wallet_table[i] \in Map!Named(k) /\ Occupied(i)
    BY <1>2, NamedIsHeld DEF lookup_key, Holds
  <2>2. CASE wallet_table[i].priv_key # old /\ Fail(c, "EPERM")
    BY <2>1, <2>2, MapRefuse DEF Map!Change
  <2>3. CASE /\ wallet_table[i].priv_key = old
             /\ wallet_table' = [wallet_table EXCEPT ![i] = Rekeyed(@, new)]
             /\ UNCHANGED wallet_next_cid
             /\ Finish(c, CidReply(wallet_table[i].creation_id))
    <3>1. Store' = (Store \ {wallet_table[i]})
                   \cup {Rekeyed(wallet_table[i], new)}
      BY <2>1, <2>3, ChangeStep
    <3>2. QED BY <2>1, <2>3, <3>1 DEF Map!Change, Store
  <2>4. QED BY <1>2, <2>2, <2>3 DEF ChangeAt
<1>3. QED BY <1>1, <1>2 DEF CHANGE

\* DELETE takes one entry, and restarts the ids with the last.
LEMMA MapDelete ==
  ASSUME TableTypeOK, CidInv, NEW c \in Client, NEW k \in KeyId, DELETE(c, k)
  PROVE  Map!Delete(c, k)
<1>1. CASE unknown_key(k) /\ Fail(c, "ENOENT")
  BY <1>1, MapRefuse, NamedIsHeld DEF Map!Delete
<1>2. ASSUME NEW i \in Slot, lookup_key(k, i), DeleteAt(c, i)
      PROVE  Map!Delete(c, k)
  <2>1. wallet_table[i] \in Map!Named(k) /\ Occupied(i)
    BY <1>2, NamedIsHeld DEF lookup_key, Holds
  <2>2. /\ Store' = Store \ {wallet_table[i]}
        /\ wallet_next_cid' - 1 = IF Store' = {} THEN 0 ELSE wallet_next_cid - 1
    BY <1>2, <2>1, DeleteStep
  <2>3. QED BY <1>2, <2>1, <2>2 DEF DeleteAt, Map!Delete, Store
<1>3. QED BY <1>1, <1>2 DEF DELETE

\* DELETEALL empties the abstract wallet.
LEMMA MapDeleteAll ==
  ASSUME NEW c \in Client, DELETEALL(c)
  PROVE  Map!DeleteAll(c)
<1>1. Store' = {}
  BY DEF DELETEALL, Store, OccupiedSlots, Occupied, ZeroEntry
<1>2. QED BY <1>1 DEF DELETEALL, Map!DeleteAll, Store

\* A caller that takes its reply away does so in the abstract wallet.
LEMMA MapReturn ==
  ASSUME NEW c \in Client, Return(c)
  PROVE  Map!Return(c)
BY StoreUnchanged DEF Return, Map!Return, Store

\* The table implements the abstract wallet: one step.
LEMMA MapStep ==
  ASSUME TableTypeOK, CidInv, TableNext
  PROVE  Map!Next
BY MapRefuse, MapCreate, MapRead, MapReadAll, MapChange, MapDelete,
   MapDeleteAll, MapReturn
   DEF TableNext, Malformed, Map!Next

\* The slots and the counter implement the abstract wallet, for any number of
\* slots: ENOSPC exactly when every place is taken, fresh ids, no entry lost.
THEOREM TableImplementsMap == TableSpec => MapSpec
<1>1. TableInit => Map!Init
  BY DEF TableInit, Map!Init, OccupiedSlots, Occupied, ZeroEntry
<1>2. TableTypeOK /\ CidInv /\ [TableNext]_tableVars => [Map!Next]_(Map!mapVars)
  <2>1. CASE UNCHANGED tableVars
    BY <2>1 DEF tableVars, Map!mapVars, OccupiedSlots, Occupied
  <2>2. QED BY <2>1, MapStep
<1>3. QED
  BY <1>1, <1>2, TypeCorrect, CidsCorrect, PTL DEF TableSpec, MapSpec, Map!Spec
-----------------------------------------------------------------------------
\* The critical section of kwallet_write

\* Mutual exclusion, in the form that makes it inductive: the lock's holder is
\* where the lock is held, and what it found there is still so.
WriteInv == WriteTypeOK /\ LockReleased /\ IndexStillValid

\* A line has the words that its command needs.
LEMMA LineFields ==
  ASSUME NEW m \in Line \cup {NoLine}
  PROVE  /\ m.op \in {"CREATE", "READ", "CHANGE", "DELETE"} => m.arg1 \in KeyId
         /\ m.op \in {"CREATE", "CHANGE"} => m.arg2 \in PrivKey
         /\ m.op = "CHANGE" => m.arg3 \in PrivKey
BY DEF Line, NoLine, Parsed

\* A search, and a command run on the slot its search found, are the atomic
\* command or nothing; so is a return.
LEMMA CommandIsAtomic ==
  ASSUME WriteInv, NEW c \in Client, Search(c) \/ Execute(c) \/ WriteReturn(c)
  PROVE  [TableNext]_tableVars
<1>1. cmd[c] \in Line \cup {NoLine}
  BY DEF WriteInv, WriteTypeOK
<1> DEFINE m == cmd[c]
<1>2. /\ m.op \in {"CREATE", "READ", "CHANGE", "DELETE"} => m.arg1 \in KeyId
      /\ m.op \in {"CREATE", "CHANGE"} => m.arg2 \in PrivKey
      /\ m.op = "CHANGE" => m.arg3 \in PrivKey
  BY <1>1, LineFields
<1>3. CASE Search(c)
  <2>1. CASE Refused(c)
    <3>1. CASE m.op = "malformed" /\ Malformed(c)
      BY <3>1 DEF TableNext
    <3>2. CASE /\ m.op = "CREATE"
               /\ \/ ~unknown_key(m.arg1) /\ Fail(c, "EEXIST")
                  \/ unknown_key(m.arg1) /\ no_free_slot /\ Fail(c, "ENOSPC")
      <4>1. \A p \in PrivKey : CREATE(c, m.arg1, p)
        BY <3>2 DEF CREATE
      <4>2. m.arg1 \in KeyId /\ m.arg2 \in PrivKey
        BY <1>2, <3>2
      <4>3. QED BY <4>1, <4>2 DEF TableNext
    <3>3. CASE m.op = "READ" /\ unknown_key(m.arg1) /\ Fail(c, "ENOENT")
      BY <1>2, <3>3 DEF TableNext, READ
    <3>4. CASE m.op = "CHANGE" /\ unknown_key(m.arg1) /\ Fail(c, "ENOENT")
      <4>1. CHANGE(c, m.arg1, m.arg2, m.arg3)
        BY <3>4 DEF CHANGE
      <4>2. QED BY <1>2, <3>4, <4>1 DEF TableNext
    <3>5. CASE m.op = "DELETE" /\ unknown_key(m.arg1) /\ Fail(c, "ENOENT")
      BY <1>2, <3>5 DEF TableNext, DELETE
    <3>6. QED BY <2>1, <3>1, <3>2, <3>3, <3>4, <3>5 DEF Refused
  <2>2. CASE UNCHANGED tableVars
    BY <2>2
  <2>3. QED BY <1>3, <2>1, <2>2 DEF Search
<1>4. CASE Execute(c)
  <2> DEFINE i == idx[c]
  <2>1. Found(c, i) /\ i \in Slot
    BY <1>4 DEF Execute, WriteInv, WriteTypeOK, IndexStillValid
  <2>2. CASE m.op = "CREATE" /\ CreateAt(c, i, m.arg1, m.arg2)
    <3>1. CREATE(c, m.arg1, m.arg2)
      BY <2>1, <2>2 DEF Found, CREATE
    <3>2. QED BY <1>2, <2>2, <3>1 DEF TableNext
  <2>3. CASE m.op = "READ" /\ ReadAt(c, i)
    <3>1. READ(c, m.arg1)
      BY <2>1, <2>3 DEF Found, READ
    <3>2. QED BY <1>2, <2>3, <3>1 DEF TableNext
  <2>4. CASE m.op = "CHANGE" /\ ChangeAt(c, i, m.arg2, m.arg3)
    <3>1. CHANGE(c, m.arg1, m.arg2, m.arg3)
      BY <2>1, <2>4 DEF Found, CHANGE
    <3>2. QED BY <1>2, <2>4, <3>1 DEF TableNext
  <2>5. CASE m.op = "DELETE" /\ DeleteAt(c, i)
    <3>1. DELETE(c, m.arg1)
      BY <2>1, <2>5 DEF Found, DELETE
    <3>2. QED BY <1>2, <2>5, <3>1 DEF TableNext
  <2>6. CASE \/ \E n \in BufSize : READALL(c, n)
             \/ DELETEALL(c)
    BY <2>6 DEF TableNext
  <2>7. QED BY <1>4, <2>2, <2>3, <2>4, <2>5, <2>6 DEF Execute
<1>5. CASE WriteReturn(c)
  BY <1>5 DEF WriteReturn, TableNext
<1>6. QED BY <1>3, <1>4, <1>5

\* Found depends on the table, on the line and on nothing else.
LEMMA FoundStable ==
  ASSUME NEW c \in Client, NEW i \in Slot, Found(c, i),
         wallet_table' = wallet_table, cmd'[c] = cmd[c]
  PROVE  Found(c, i)'
BY DEF Found, unknown_key, find_free_slot, lookup_key, Holds, Occupied

\* A client that neither holds wallet_lock nor asks for it may go where it
\* likes, and write() may begin and end there.
LEMMA ElsewhereStep ==
  ASSUME WriteInv, NEW c \in Client, NEW p \in Place, Goto(c, p),
         pc[c] \notin {"search", "execute"}, p \notin {"search", "execute"},
         wallet_lock' = wallet_lock, wallet_table' = wallet_table,
         \A d \in Client \ {c} : cmd'[d] = cmd[d] /\ idx'[d] = idx[d]
  PROVE  LockReleased' /\ IndexStillValid'
<1>1. \A d \in Client : pc'[d] = IF d = c THEN p ELSE pc[d]
  BY DEF Goto, WriteInv, WriteTypeOK
<1>2. LockReleased'
  BY <1>1 DEF LockReleased, WriteInv
<1>3. ASSUME NEW d \in Client, pc'[d] = "execute"
      PROVE  Found(d, idx[d])'
  <2>1. d # c /\ pc[d] = "execute"
    BY <1>1, <1>3
  <2>2. Found(d, idx[d]) /\ idx[d] \in Slot
    BY <2>1 DEF WriteInv, WriteTypeOK, IndexStillValid
  <2>3. Found(d, idx[d])'
    BY <2>1, <2>2, FoundStable
       DEF Found, unknown_key, find_free_slot, lookup_key, Holds, Occupied
  <2>4. QED BY <2>1, <2>3
<1>4. QED BY <1>2, <1>3 DEF IndexStillValid

\* Each step of kwallet_write up to its mutex_unlock keeps the invariant.
LEMMA WriteInvStep ==
  ASSUME WriteInv, NEW c \in Client,
         \/ \E l \in Line : WriteBegin(c, l)
         \/ Lock(c)
         \/ Search(c)
         \/ Execute(c)
  PROVE  WriteInv'
<1> USE ClientAssumption
<1>0. WriteTypeOK /\ LockReleased /\ IndexStillValid
  BY DEF WriteInv
<1>1. ASSUME NEW l \in Line, WriteBegin(c, l)
      PROVE  WriteInv'
  <2>1. WriteTypeOK'
    <3>1. TableTypeOK'
      BY <1>0, <1>1, TableTypeStep DEF WriteBegin, WriteTypeOK
    <3>2. QED BY <1>0, <1>1, <3>1 DEF WriteBegin, WriteTypeOK, Goto, Place
  <2>2. \A d \in Client \ {c} : cmd'[d] = cmd[d] /\ idx'[d] = idx[d]
    BY <1>0, <1>1 DEF WriteBegin, WriteTypeOK
  <2>3. LockReleased' /\ IndexStillValid'
    BY <1>1, <2>2, ElsewhereStep DEF WriteBegin, tableVars, Place
  <2>4. QED BY <2>1, <2>3 DEF WriteInv
<1>2. CASE Lock(c)
  <2>1. WriteTypeOK'
    <3>1. TableTypeOK'
      BY <1>0, <1>2, TableTypeStep DEF Lock, WriteTypeOK
    <3>2. QED BY <1>0, <1>2, <3>1 DEF Lock, WriteTypeOK, Goto, Place
  <2>2. \A d \in Client : pc'[d] = IF d = c THEN "search" ELSE pc[d]
    BY <1>0, <1>2 DEF Lock, Goto, WriteTypeOK
  <2>3. \A d \in Client : pc[d] \notin {"search", "execute"}
    BY <1>0, <1>2 DEF Lock, LockReleased
  <2>4. LockReleased' /\ IndexStillValid'
    BY <1>2, <2>2, <2>3 DEF Lock, LockReleased, IndexStillValid
  <2>5. QED BY <2>1, <2>4 DEF WriteInv
<1>3. CASE Search(c) \/ Execute(c)
  <2>1. pc[c] \in {"search", "execute"} /\ wallet_lock = c
    BY <1>0, <1>3 DEF Search, Execute, LockReleased
  <2>2. \A d \in Client \ {c} : pc[d] \notin {"search", "execute"}
    BY <1>0, <2>1 DEF LockReleased
  <2>3. TableTypeOK'
    BY <1>0, <1>3, CommandIsAtomic, TableTypeStep DEF WriteTypeOK
  <2>4. CASE Unlock(c) /\ UNCHANGED <<cmd, idx>>
    <3>1. WriteTypeOK'
      BY <1>0, <2>3, <2>4 DEF WriteTypeOK, Unlock, Goto, Place
    <3>2. \A d \in Client : pc'[d] = IF d = c THEN "done" ELSE pc[d]
      BY <1>0, <2>4 DEF Unlock, Goto, WriteTypeOK
    <3>3. LockReleased' /\ IndexStillValid'
      BY <2>2, <2>4, <3>2 DEF Unlock, LockReleased, IndexStillValid
    <3>4. QED BY <3>1, <3>3 DEF WriteInv
  <2>5. ASSUME NEW i \in Slot, Found(c, i), idx' = [idx EXCEPT ![c] = i],
               Goto(c, "execute"), UNCHANGED <<tableVars, wallet_lock, cmd>>
        PROVE  WriteInv'
    <3>1. WriteTypeOK'
      BY <1>0, <2>3, <2>5 DEF WriteTypeOK, Goto, Place
    <3>2. \A d \in Client : /\ pc'[d] = IF d = c THEN "execute" ELSE pc[d]
                            /\ idx'[d] = IF d = c THEN i ELSE idx[d]
      BY <1>0, <2>5 DEF Goto, WriteTypeOK
    <3>3. LockReleased'
      BY <2>1, <2>2, <2>5, <3>2 DEF LockReleased
    <3>4. Found(c, i)'
      BY <2>5, FoundStable DEF tableVars
    <3>5. IndexStillValid'
      BY <2>2, <3>2, <3>4 DEF IndexStillValid
    <3>6. QED BY <3>1, <3>3, <3>5 DEF WriteInv
  <2>6. QED BY <1>3, <2>4, <2>5 DEF Search, Execute
<1>4. QED BY <1>1, <1>2, <1>3

\* So does its return, after the response is dealt with.
LEMMA WriteReturnStep ==
  ASSUME WriteInv, NEW c \in Client, pc[c] \notin {"search", "execute"},
         WriteReturn(c)
  PROVE  WriteInv'
<1>1. TableTypeOK'
  BY CommandIsAtomic, TableTypeStep DEF WriteInv, WriteTypeOK
<1>2. WriteTypeOK'
  BY <1>1, SlotsAssumption
     DEF WriteInv, WriteTypeOK, WriteReturn, Goto, Slot, Place
<1>3. \A d \in Client \ {c} : cmd'[d] = cmd[d] /\ idx'[d] = idx[d]
  BY DEF WriteInv, WriteTypeOK, WriteReturn
<1>4. LockReleased' /\ IndexStillValid'
  BY <1>3, ElsewhereStep DEF WriteReturn, Return, Place
<1>5. QED BY <1>2, <1>4 DEF WriteInv

\* At first nobody writes and the lock is free.
LEMMA WriteInvInit ==
  ASSUME TableInit, WriteInit
  PROVE  WriteInv
<1> USE ClientAssumption, SlotsAssumption, MaxCidAssumption
<1>1. TableTypeOK
  BY DEF TableInit, TableTypeOK
<1>2. QED
  BY <1>1 DEF WriteInit, WriteInv, WriteTypeOK, LockReleased, IndexStillValid, Slot, Place

\* The private key of the entry in a slot, if a step replaces it, is replaced
\* for a client that named the entry and the key it had.
OldKeyOf(i) ==
  /\ Occupied(i) /\ wallet_table'[i].creation_id = wallet_table[i].creation_id
  /\ wallet_table'[i].priv_key # wallet_table[i].priv_key
  => \E c \in Client : /\ pc[c] = "execute" /\ cmd[c].op = "CHANGE"
                       /\ cmd[c].arg1 = wallet_table[i].key_id
                       /\ cmd[c].arg2 = wallet_table[i].priv_key
                       /\ cmd[c].arg3 = wallet_table'[i].priv_key

\* Only a command that runs touches the table, and of those only CHANGE
\* leaves an entry its id and takes its private key.
LEMMA OldKeyStep ==
  ASSUME WriteInv, NEW c \in Client,
         Execute(c) \/ Search(c) \/ UNCHANGED wallet_table
  PROVE  \A i \in Slot : OldKeyOf(i)
<1> DEFINE m == cmd[c]
           at == idx[c]
<1>1. /\ TableTypeOK /\ at \in Slot
      /\ Execute(c) => Found(c, at)
  BY DEF WriteInv, WriteTypeOK, IndexStillValid, Execute
<1>2. CASE UNCHANGED wallet_table
  BY <1>2 DEF OldKeyOf
<1>3. CASE Search(c)
  BY <1>2, <1>3 DEF Search, Refused, Malformed, Fail, tableVars
<1>4. CASE Execute(c)
  <2>1. CASE m.op = "CREATE" /\ CreateAt(c, at, m.arg1, m.arg2)
    <3>1. ~Occupied(at)
      BY <1>1, <1>4, <2>1 DEF Found, find_free_slot
    <3>2. \A i \in Slot \ {at} : wallet_table'[i] = wallet_table[i]
      BY <1>1, <2>1 DEF CreateAt, TableTypeOK
    <3>3. QED BY <3>1, <3>2 DEF OldKeyOf
  <2>2. CASE (\E n \in BufSize : READALL(c, n)) \/ ReadAt(c, at)
    BY <1>2, <2>2 DEF READALL, ReadAt
  <2>3. CASE m.op = "CHANGE" /\ ChangeAt(c, at, m.arg2, m.arg3)
    <3>1. wallet_table[at].key_id = m.arg1
      BY <1>1, <1>4, <2>3 DEF Found, lookup_key, Holds
    <3>2. CASE /\ wallet_table[at].priv_key = m.arg2
               /\ wallet_table' = [wallet_table EXCEPT ![at] = Rekeyed(@, m.arg3)]
      <4>1. \A i \in Slot : wallet_table'[i] =
              IF i = at THEN Rekeyed(wallet_table[at], m.arg3) ELSE wallet_table[i]
        BY <1>1, <3>2 DEF TableTypeOK
      <4>2. wallet_table'[at].priv_key = m.arg3
        BY <1>1, <4>1 DEF Rekeyed
      <4>3. pc[c] = "execute"
        BY <1>4 DEF Execute
      <4>4. QED BY <1>1, <2>3, <3>1, <3>2, <4>1, <4>2, <4>3 DEF OldKeyOf
    <3>3. QED BY <1>2, <2>3, <3>2 DEF ChangeAt, Fail
  <2>4. CASE DeleteAt(c, at)
    <3>1. \A i \in Slot : wallet_table'[i] = IF i = at THEN ZeroEntry
                                                       ELSE wallet_table[i]
      BY <1>1, <2>4 DEF DeleteAt, TableTypeOK
    <3>2. QED BY <3>1 DEF OldKeyOf, Occupied, ZeroEntry
  <2>5. CASE DELETEALL(c)
    BY <2>5 DEF DELETEALL, OldKeyOf, Occupied, ZeroEntry
  <2>6. QED BY <1>4, <2>1, <2>2, <2>3, <2>4, <2>5 DEF Execute
<1>5. QED BY <1>2, <1>3, <1>4
=============================================================================
