------------------------- MODULE KWalletIoctlProofs -------------------------
(***************************************************************************)
(* Theorems about KWalletIoctl: what the fields and codes an ioctl gives   *)
(* back are worth to its caller, for every set of callers and words, every *)
(* buffer size and every number of slots.                                  *)
(***************************************************************************)
EXTENDS KWalletIoctl, WalletTableProofs, WellFoundedInduction

USE SlotsAssumption, NoneAssumption, TruncatedAssumption, MaxCidAssumption,
    SizesAssumption, EmptyLenAssumption
    DEF Rekeyed, NoReply, Failure, CidReply, PairReply, StatusReply, Listing

\* What the wallet holds are keys as they arrive, each at most once: for them
\* lookup_key searches for what CREATE stored.
KeysUnique == \A i, j \in OccupiedSlots :
  /\ wallet_table[i].key_id \in RequestKey
  /\ wallet_table[i].key_id = wallet_table[j].key_id => i = j

\* A reply belongs to a call that has returned.
ReplyIsOfCall == \A c \in Client :
  /\ ret[c] = "none" => reply[c] = NoReply
  /\ call[c] = NoCall => ret[c] = "none"

\* What holds between two steps.
IoctlInv == TypeOK /\ CidInv /\ KeysUnique /\ ReplyIsOfCall /\ CutIsTold

\* A key that has arrived is one of the words, and stays as it is when it is
\* cut once more.
LEMMA ArrivedKey ==
  ASSUME NEW k \in RequestKey
  PROVE  k \in KeyId /\ Truncated[k] = k
BY DEF RequestKey

-----------------------------------------------------------------------------
\* A request other than READALL is one of the commands of the table, with
\* keys and private keys of their types.
LEMMA RequestFields ==
  ASSUME NEW r \in Request
  PROVE  /\ r.cmd \in {"CREATE", "READ", "CHANGE", "DELETE"} => r.key \in RequestKey
         /\ r.cmd \in {"CREATE", "CHANGE"} => r.priv \in PrivKey
         /\ r.cmd = "CHANGE" => r.new \in PrivKey
         /\ r.bufsize \in Nat
         /\ r.bufsize > 0 => r.bufsize \in BufSize
         /\ r # NoCall
BY DEF Request, NoCall, Ask

\* A set of naturals with an element has a least one.
LEMMA LeastNatural ==
  ASSUME NEW S, S \subseteq Nat, S # {}
  PROVE  \E m \in S : \A y \in S : m <= y
<1> DEFINE R == {ss \in Nat \X Nat : ss[1] < ss[2]}
<1>1. IsWellFoundedOn(R, Nat)
  BY NatLessThanWellFounded DEF OpToRel
<1> HIDE DEF R
<1>2. PICK m \in S : \A y \in S : ~(<<y, m>> \in R)
  BY <1>1, WFMin
<1>3. \A y \in S : ~(y < m)
  BY <1>2 DEF R
<1>4. QED BY <1>3

\* The largest line end of a listing exists.
LEMMA MaxOfBounded ==
  ASSUME NEW S, S \subseteq Nat, S # {}, NEW b \in Nat, \A x \in S : x <= b
  PROVE  Max(S) \in S
<1> DEFINE Bounds == {n \in Nat : \A x \in S : x <= n}
<1>1. PICK u \in Bounds : \A n \in Bounds : u <= n
  BY LeastNatural, b \in Bounds
<1>2. u \in S
  <2>1. SUFFICES ASSUME u \notin S PROVE FALSE
    OBVIOUS
  <2>2. \A x \in S : x < u
    BY <2>1
  <2>3. u - 1 \in Nat /\ \A x \in S : x <= u - 1
    <3>1. PICK y \in S : TRUE
      OBVIOUS
    <3>2. y \in Nat /\ y < u /\ u \in Nat
      BY <2>2, <3>1
    <3>3. QED BY <2>2, <3>2
  <2>4. u - 1 \in Bounds
    BY <2>3
  <2>5. QED BY <1>1, <2>4
<1>3. \E m \in S : \A y \in S : m >= y
  BY <1>2
<1>4. QED BY <1>3 DEF Max

\* The least of the line ends that do not fit exists.
LEMMA MinOfNaturals ==
  ASSUME NEW S, S \subseteq Nat, S # {}
  PROVE  Min(S) \in S
<1>1. \E m \in S : \A y \in S : m <= y
  BY LeastNatural
<1>2. QED BY <1>1 DEF Min

\* What dump_wallet returns is a length, and below the size of the buffer
\* only when every line fits.
LEMMA DumpLen ==
  ASSUME NEW size \in Nat
  PROVE  /\ dump_len(size) \in Nat
         /\ dump_len(size) < size => \A i \in OccupiedSlots : LinesEnd(i) < size
<1> DEFINE ends == {LinesEnd(i) : i \in OccupiedSlots}
           over == {e \in ends : e >= size}
<1>1. ends \subseteq Nat /\ \A e \in ends : e <= LINE_LEN * WALLET_MAX_SLOTS
  BY LinesEndType
<1>2. LINE_LEN * WALLET_MAX_SLOTS \in Nat
  OBVIOUS
<1>3. CASE ends = {}
  BY <1>3 DEF dump_len
<1>4. CASE ends # {} /\ over # {}
  <2>1. Min(over) \in over
    BY <1>1, <1>4, MinOfNaturals
  <2>2. dump_len(size) = Min(over)
    BY <1>4 DEF dump_len
  <2>3. QED BY <1>1, <2>1, <2>2
<1>5. CASE ends # {} /\ over = {}
  <2>1. Max(ends) \in ends
    BY <1>1, <1>2, <1>5, MaxOfBounded
  <2>2. dump_len(size) = Max(ends)
    BY <1>5 DEF dump_len
  <2>3. \A i \in OccupiedSlots : LinesEnd(i) \in ends
    OBVIOUS
  <2>4. QED BY <1>1, <1>5, <2>1, <2>2, <2>3
<1>6. QED BY <1>3, <1>4, <1>5
-----------------------------------------------------------------------------
\* READALL that found memory for its buffer.
Listed(c) ==
  /\ call[c].cmd = "READALL" /\ call[c].bufsize > 0
  /\ READALL(c, call[c].bufsize)
  /\ \/ /\ ReturnValue(c, "0")
        /\ out_len' = [out_len EXCEPT ![c] = dump_len(call[c].bufsize)]
     \/ ReturnValue(c, "EFAULT") /\ UNCHANGED out_len

\* What a step of an ioctl does: enter a call, answer one, or leave it.
LEMMA IoctlCases ==
  ASSUME Next
  PROVE  \E c \in Client :
           \/ \E r \in Request : Enter(c, r)
           \/ /\ call[c] # NoCall /\ ret[c] = "none"
              /\ \/ \E e \in {"EINVAL", "ENOMEM", "ENOTTY", "EFAULT"} : Reject(c, e)
                 \/ Command(c)
                 \/ Listed(c)
           \/ Leave(c)
<1>1. PICK c \in Client :
        (\E r \in Request : Enter(c, r)) \/ kwallet_ioctl(c) \/ Leave(c)
  BY DEF Next
<1>2. QED BY <1>1 DEF kwallet_ioctl, ReadAllInto, Listed

\* A step of an ioctl is a step of the table, or leaves it alone.
LEMMA IoctlIsTableStep ==
  ASSUME TypeOK, [Next]_vars
  PROVE  [TableNext]_tableVars
<1>1. ASSUME NEW c \in Client, call[c] # NoCall, Command(c)
      PROVE  TableNext
  <2> DEFINE r == call[c]
  <2>1. r \in Request
    BY <1>1 DEF TypeOK
  <2>2. \A k \in RequestKey : k \in KeyId
    BY ArrivedKey
  <2>3. QED
    BY <1>1, <2>1, <2>2, RequestFields DEF Command, TableNext
<1>2. ASSUME NEW c \in Client, call[c] # NoCall, Listed(c)
      PROVE  TableNext
  <2>1. call[c] \in Request
    BY <1>2 DEF TypeOK
  <2>2. call[c].bufsize \in BufSize
    BY <1>2, <2>1, RequestFields DEF Listed
  <2>3. QED BY <1>2, <2>2 DEF Listed, TableNext
<1>3. ASSUME NEW c \in Client, Leave(c)
      PROVE  [TableNext]_tableVars
  <2>1. CASE reply[c] = NoReply
    BY <1>3, <2>1 DEF Leave, TypeOK, TableTypeOK, tableVars
  <2>2. CASE reply[c] # NoReply
    BY <1>3, <2>2 DEF Leave, TableNext, Return
  <2>3. QED BY <2>1, <2>2
<1>4. CASE UNCHANGED vars
  BY <1>4 DEF vars, tableVars
<1>5. CASE Next
  BY <1>1, <1>2, <1>3, <1>5, IoctlCases DEF Enter, Reject, tableVars
<1>6. QED BY <1>4, <1>5
-----------------------------------------------------------------------------
\* One step keeps the types of the requests and of their results.
LEMMA IoctlTypeStep ==
  ASSUME TypeOK, [Next]_vars
  PROVE  TypeOK'
<1>1. TableTypeOK'
  BY IoctlIsTableStep, TableTypeStep DEF TypeOK
<1> DEFINE Typed == /\ call' \in [Client -> Request \cup {NoCall}]
                    /\ ret' \in [Client -> {"none", "0", "EFAULT", "ENOMEM", "ENOTTY"}
                                            \cup Errno]
                    /\ out_len' \in [Client -> Nat]
<1>2. ASSUME NEW c \in Client, NEW r \in Request, Enter(c, r) PROVE Typed
  BY <1>2 DEF Enter, TypeOK
<1>3. ASSUME NEW c \in Client, NEW e \in {"EINVAL", "ENOMEM", "ENOTTY", "EFAULT"},
             Reject(c, e)
      PROVE  Typed
  BY <1>3 DEF Reject, ReturnValue, TypeOK, Errno
<1>4. ASSUME NEW c \in Client, Command(c) PROVE Typed
  <2>1. IsFailure(reply'[c]) => reply'[c].errno \in Errno
    BY DEF IsFailure
  <2>2. /\ UNCHANGED <<call, out_len>>
        /\ \E v \in {"0", "EFAULT"} \cup Errno : ret' = [ret EXCEPT ![c] = v]
    BY <1>4, <2>1 DEF Command, CopyOut, ReturnValue
  <2>3. QED BY <2>2 DEF TypeOK
<1>5. ASSUME NEW c \in Client, call[c] # NoCall, Listed(c) PROVE Typed
  <2>1. call[c] \in Request
    BY <1>5 DEF TypeOK
  <2>2. call[c].bufsize \in Nat
    BY <2>1, RequestFields
  <2>3. dump_len(call[c].bufsize) \in Nat
    BY <2>2, DumpLen
  <2>4. QED BY <1>5, <2>3 DEF Listed, ReturnValue, TypeOK
<1>6. ASSUME NEW c \in Client, Leave(c) PROVE Typed
  BY <1>6 DEF Leave, TypeOK
<1>7. ASSUME UNCHANGED vars PROVE Typed
  BY <1>7 DEF vars, ioctlVars, TypeOK
<1>8. Typed
  BY <1>2, <1>3, <1>4, <1>5, <1>6, <1>7, IoctlCases
<1>9. QED BY <1>1, <1>8 DEF TypeOK

\* Slots that only lose their entry, or keep it under its key, leave the keys
\* unique.
LEMMA KeysKept ==
  ASSUME KeysUnique,
         \A j \in Slot : Occupied(j)' =>
           Occupied(j) /\ wallet_table'[j].key_id = wallet_table[j].key_id
  PROVE  KeysUnique'
BY DEF KeysUnique, OccupiedSlots

\* CREATE stores what its lookup_key searched for: the keys stay unique.
LEMMA KeysCreate ==
  ASSUME TableTypeOK, KeysUnique, NEW c \in Client, NEW k \in RequestKey,
         NEW p \in PrivKey, CREATE(c, k, p)
  PROVE  KeysUnique'
<1>1. CASE UNCHANGED wallet_table
  BY <1>1, KeysKept DEF Occupied
<1>2. ASSUME NEW i \in Slot, unknown_key(k), CreateAt(c, i, k, p)
      PROVE  KeysUnique'
  <2>1. \A j \in Slot : wallet_table'[j] =
          IF j = i THEN [key_id |-> k, priv_key |-> p, creation_id |-> wallet_next_cid]
                   ELSE wallet_table[j]
    BY <1>2, ArrivedKey DEF CreateAt, TableTypeOK
  <2>2. \A j \in OccupiedSlots : wallet_table[j].key_id # k
    BY <1>2 DEF unknown_key, Holds, OccupiedSlots
  <2>3. QED
    BY <2>1, <2>2, ArrivedKey DEF KeysUnique, OccupiedSlots, Occupied
<1>3. QED BY <1>1, <1>2 DEF CREATE, Fail

\* The keys of the wallet stay unique: one step.
LEMMA KeysStep ==
  ASSUME TypeOK, KeysUnique, [Next]_vars
  PROVE  KeysUnique'
<1>1. CASE UNCHANGED wallet_table
  BY <1>1, KeysKept DEF Occupied
<1>2. ASSUME NEW c \in Client, NEW i \in Slot, Occupied(i) , DeleteAt(c, i)
      PROVE  KeysUnique'
  <2>1. \A j \in Slot : wallet_table'[j] = IF j = i THEN ZeroEntry
                                                    ELSE wallet_table[j]
    BY <1>2 DEF DeleteAt, TypeOK, TableTypeOK
  <2>2. QED BY <2>1, KeysKept DEF Occupied, ZeroEntry
<1>3. ASSUME NEW c \in Client, NEW i \in Slot, NEW old, NEW new, Occupied(i),
             ChangeAt(c, i, old, new)
      PROVE  KeysUnique'
  <2>1. CASE wallet_table' = [wallet_table EXCEPT ![i] = Rekeyed(@, new)]
    <3>1. \A j \in Slot : wallet_table'[j] = IF j = i THEN Rekeyed(wallet_table[i], new)
                                                      ELSE wallet_table[j]
      BY <2>1 DEF TypeOK, TableTypeOK
    <3>2. QED BY <1>3, <3>1, KeysKept DEF Occupied
  <2>2. QED BY <1>1, <1>3, <2>1 DEF ChangeAt, Fail
<1>4. ASSUME NEW c \in Client, DELETEALL(c)
      PROVE  KeysUnique'
  BY <1>4, KeysKept DEF DELETEALL, Occupied, ZeroEntry
<1>5. ASSUME NEW c \in Client, call[c] # NoCall, Command(c)
      PROVE  KeysUnique'
  <2>1. call[c] \in Request
    BY <1>5 DEF TypeOK
  <2>2. CASE call[c].cmd = "CREATE" /\ CREATE(c, call[c].key, call[c].priv)
    BY <2>1, <2>2, RequestFields, KeysCreate DEF TypeOK
  <2>3. CASE Malformed(c) \/ READ(c, call[c].key)
    BY <1>1, <2>3 DEF Malformed, READ, Fail, ReadAt
  <2>4. CASE CHANGE(c, call[c].key, call[c].priv, call[c].new)
    BY <1>1, <1>3, <2>4 DEF CHANGE, Fail, lookup_key, Holds
  <2>5. CASE DELETE(c, call[c].key)
    BY <1>1, <1>2, <2>5 DEF DELETE, Fail, lookup_key, Holds
  <2>6. QED BY <1>4, <1>5, <2>2, <2>3, <2>4, <2>5 DEF Command
<1>6. CASE UNCHANGED vars
  BY <1>1, <1>6 DEF vars, tableVars
<1>7. QED
  BY <1>1, <1>5, <1>6, IoctlCases DEF Enter, Reject, Listed, READALL, Leave, tableVars
\* A command finishes with a reply for its own caller.
LEMMA CommandFinishes ==
  ASSUME NEW c \in Client, Command(c)
  PROVE  \E r : Finish(c, r)
<1>1. ASSUME NEW e, Fail(c, e) PROVE \E r : Finish(c, r)
  BY <1>1 DEF Fail
<1>2. CASE Malformed(c)
  BY <1>1, <1>2 DEF Malformed
<1>3. CASE CREATE(c, call[c].key, call[c].priv)
  BY <1>1, <1>3 DEF CREATE, CreateAt
<1>4. CASE READ(c, call[c].key)
  BY <1>1, <1>4 DEF READ, ReadAt
<1>5. CASE CHANGE(c, call[c].key, call[c].priv, call[c].new)
  BY <1>1, <1>5 DEF CHANGE, ChangeAt
<1>6. CASE DELETE(c, call[c].key)
  BY <1>1, <1>6 DEF DELETE, DeleteAt
<1>7. CASE DELETEALL(c)
  BY <1>7 DEF DELETEALL
<1>8. QED
  BY <1>2, <1>3, <1>4, <1>5, <1>6, <1>7 DEF Command

\* The fields of other callers stay as they are; a call that returns does so
\* with the reply its command finished with.
LEMMA CallStep ==
  ASSUME TypeOK, ReplyIsOfCall, CutIsTold, [Next]_vars
  PROVE  ReplyIsOfCall' /\ CutIsTold'
<1> USE DEF ReplyIsOfCall, CutIsTold
<1>1. ASSUME NEW c \in Client, NEW r \in Request, Enter(c, r)
      PROVE  ReplyIsOfCall' /\ CutIsTold'
  <2>1. /\ call' = [call EXCEPT ![c] = r]
        /\ UNCHANGED <<ret, out_len, reply>>
        /\ ret[c] = "none" /\ reply[c] = NoReply /\ r # NoCall
    BY <1>1, RequestFields DEF Enter, tableVars
  <2>2. QED BY <2>1 DEF TypeOK
<1>2. ASSUME NEW c \in Client, call[c] # NoCall, ret[c] = "none",
             NEW e \in {"EINVAL", "ENOMEM", "ENOTTY", "EFAULT"}, Reject(c, e)
      PROVE  ReplyIsOfCall' /\ CutIsTold'
  <2>1. ret' = [ret EXCEPT ![c] = e] /\ UNCHANGED <<call, out_len, reply>>
    BY <1>2 DEF Reject, ReturnValue, tableVars
  <2>2. QED BY <1>2, <2>1 DEF TypeOK
<1>3. ASSUME NEW c \in Client, call[c] # NoCall, ret[c] = "none", Command(c)
      PROVE  ReplyIsOfCall' /\ CutIsTold'
  <2>1. \E r : Finish(c, r)
    BY <1>3, CommandFinishes
  <2>2. call[c].cmd # "READALL"
    BY <1>3 DEF Command
  <2>3. \E v \in {"0", "EFAULT"} \cup Errno : ret' = [ret EXCEPT ![c] = v]
    <3>1. IsFailure(reply'[c]) => reply'[c].errno \in Errno
      BY DEF IsFailure
    <3>2. QED BY <1>3, <3>1 DEF Command, CopyOut, ReturnValue
  <2>4. UNCHANGED <<call, out_len>>
    BY <1>3 DEF Command, CopyOut, ReturnValue
  <2>5. \A d \in Client : d # c => reply'[d] = reply[d]
    BY <2>1 DEF Finish, TypeOK, TableTypeOK
  <2>6. QED BY <1>3, <2>2, <2>3, <2>4, <2>5 DEF TypeOK, Errno
<1>4. ASSUME NEW c \in Client, call[c] # NoCall, Listed(c)
      PROVE  ReplyIsOfCall' /\ CutIsTold'
  <2> DEFINE size == call[c].bufsize
  <2>1. size \in Nat
    BY <1>4, RequestFields DEF TypeOK
  <2>2. /\ UNCHANGED call
        /\ reply' = [reply EXCEPT ![c] = dump_wallet(size)]
    BY <1>4 DEF Listed, READALL, Finish, ReturnValue
  <2>3. \/ /\ ret' = [ret EXCEPT ![c] = "0"]
           /\ out_len' = [out_len EXCEPT ![c] = dump_len(size)]
        \/ ret' = [ret EXCEPT ![c] = "EFAULT"] /\ UNCHANGED out_len
    BY <1>4 DEF Listed, ReturnValue
  <2>4. dump_len(size) < size => ~dump_wallet(size).cut
    <3>1. \A i \in OccupiedSlots : LinesEnd(i) \in Nat
      BY LinesEndType
    <3>2. dump_wallet(size).cut = \E i \in OccupiedSlots : LinesEnd(i) >= size
      BY DEF dump_wallet
    <3>3. QED BY <2>1, <3>1, <3>2, DumpLen
  <2> HIDE DEF size
  <2>5. size = call[c].bufsize
    BY DEF size
  <2>6. ReplyIsOfCall'
    BY <1>4, <2>2, <2>3 DEF TypeOK, TableTypeOK
  <2>7. CutIsTold'
    BY <2>2, <2>3, <2>4, <2>5 DEF TypeOK, TableTypeOK
  <2>8. QED BY <2>6, <2>7
<1>5. ASSUME NEW c \in Client, Leave(c)
      PROVE  ReplyIsOfCall' /\ CutIsTold'
  BY <1>5 DEF Leave, TypeOK, TableTypeOK
<1>6. CASE UNCHANGED vars
  BY <1>6 DEF vars, tableVars, ioctlVars
<1>7. QED
  BY <1>1, <1>2, <1>3, <1>4, <1>5, <1>6, IoctlCases

\* The invariant, for every sequence of calls.
THEOREM IoctlInvariant == Spec => []IoctlInv
<1>1. Init => IoctlInv
  <2> SUFFICES ASSUME Init PROVE IoctlInv
    OBVIOUS
  <2>1. TypeOK
    BY DEF Init, TableInit, TypeOK, TableTypeOK
  <2>2. CidInv /\ KeysUnique
    BY DEF Init, TableInit, CidInv, CidsIssued, CidsDistinct, EmptyRestarts,
           KeysUnique, OccupiedSlots, Occupied, ZeroEntry
  <2>3. ReplyIsOfCall /\ CutIsTold
    BY DEF Init, TableInit, ReplyIsOfCall, CutIsTold
  <2>4. QED BY <2>1, <2>2, <2>3 DEF IoctlInv
<1>2. IoctlInv /\ [Next]_vars => IoctlInv'
  BY IoctlIsTableStep, IoctlTypeStep, CidStep, KeysStep, CallStep
     DEF IoctlInv, TypeOK
<1>3. QED BY <1>1, <1>2, PTL DEF Spec

\* The requests of an ioctl and their results have their types.
THEOREM IoctlTypeCorrect == Spec => []TypeOK
<1>1. IoctlInv => TypeOK
  BY DEF IoctlInv
<1>2. QED BY <1>1, IoctlInvariant, PTL

\* A caller that finds out_len below its bufsize has the whole listing,
\* whatever the length of a line and the size of its buffer.
THEOREM CutIsToldCorrect == Spec => []CutIsTold
<1>1. IoctlInv => CutIsTold
  BY DEF IoctlInv
<1>2. QED BY <1>1, IoctlInvariant, PTL

-----------------------------------------------------------------------------
\* A reply of a command that worked is not a failure.
LEMMA SuccessIsNoFailure ==
  ASSUME NEW n, NEW k, NEW p
  PROVE  /\ ~IsFailure(CidReply(n))
         /\ ~IsFailure(PairReply(k, p))
         /\ ~IsFailure(StatusReply)
         /\ ~IsFailure(NoReply)
<1>1. \A e : DOMAIN Failure(e) = {"errno"}
  OBVIOUS
<1>2. /\ DOMAIN CidReply(n) = {"creation_id"}
      /\ DOMAIN PairReply(k, p) = {"key_id", "priv_key"}
      /\ DOMAIN StatusReply = {"status"}
      /\ DOMAIN NoReply = {"none"}
  OBVIOUS
<1>3. QED BY <1>1, <1>2 DEF IsFailure

\* A command that fails has left the wallet as it was.
LEMMA FailedCommand ==
  ASSUME TableTypeOK, NEW c \in Client, Command(c), IsFailure(reply'[c])
  PROVE  UNCHANGED <<wallet_table, wallet_next_cid>>
<1>1. ASSUME NEW r, Finish(c, r) PROVE reply'[c] = r
  BY <1>1 DEF Finish, TableTypeOK
<1>2. CASE Malformed(c) \/ READ(c, call[c].key)
  BY <1>2 DEF Malformed, READ, ReadAt, Fail
<1>3. CASE CREATE(c, call[c].key, call[c].priv)
  BY <1>1, <1>3, SuccessIsNoFailure DEF CREATE, CreateAt, Fail
<1>4. CASE CHANGE(c, call[c].key, call[c].priv, call[c].new)
  BY <1>1, <1>4, SuccessIsNoFailure DEF CHANGE, ChangeAt, Fail
<1>5. CASE DELETE(c, call[c].key)
  BY <1>1, <1>5, SuccessIsNoFailure DEF DELETE, DeleteAt, Fail
<1>6. CASE DELETEALL(c)
  BY <1>1, <1>6, SuccessIsNoFailure DEF DELETEALL
<1>7. QED BY <1>2, <1>3, <1>4, <1>5, <1>6 DEF Command

\* A call that the handler refuses leaves the wallet as it was.
THEOREM RefusalCorrect == Spec => RefusalChangesNothing
<1> DEFINE A == \A c \in Client :
      ret[c] = "none" /\ ret'[c] \notin {"none", "0", "EFAULT"}
        => UNCHANGED <<wallet_table, wallet_next_cid>>
<1>1. IoctlInv /\ [Next]_vars => [A]_vars
  <2> SUFFICES ASSUME IoctlInv, Next, NEW d \in Client, ret[d] = "none",
                      ret'[d] \notin {"none", "0", "EFAULT"}
               PROVE  UNCHANGED <<wallet_table, wallet_next_cid>>
    BY DEF vars
  <2>1. TypeOK
    BY DEF IoctlInv
  <2>2. ASSUME NEW c \in Client, Command(c)
        PROVE  UNCHANGED <<wallet_table, wallet_next_cid>>
    <3>1. \E v : ret' = [ret EXCEPT ![c] = v]
      BY <2>2 DEF Command, CopyOut, ReturnValue
    <3>2. c = d
      BY <2>1, <3>1 DEF TypeOK
    <3>3. IsFailure(reply'[c])
      BY <2>1, <2>2, <3>2 DEF Command, CopyOut, ReturnValue, TypeOK
    <3>4. QED BY <2>1, <2>2, <3>3, FailedCommand DEF TypeOK
  <2>3. QED
    BY <2>1, <2>2, IoctlCases
       DEF Enter, Reject, Listed, READALL, Leave, tableVars, TypeOK
<1>2. QED BY <1>1, IoctlInvariant, PTL DEF Spec, RefusalChangesNothing
-----------------------------------------------------------------------------
\* The two abstract wallets write the same replies and count alike.
USE DEF Exact!NoReply, Exact!Failure, Exact!CidReply, Exact!PairReply,
        Exact!StatusReply, Exact!Listing, Exact!Rekeyed,
        Map!NoReply, Map!Failure, Map!CidReply, Map!PairReply,
        Map!StatusReply, Map!Listing, Map!Rekeyed,
        Exact!Answer, Map!Answer, Exact!Refuse, Map!Refuse,
        Exact!Named, Map!Named

\* Both instances of the abstract wallet count alike.
LEMMA ExactCardinality == \A S : Exact!Cardinality(S) = Map!Cardinality(S)
BY DEF Exact!Cardinality, Map!Cardinality

\* With a key that has arrived, a command is that of the exact wallet.
LEMMA ExactCommand ==
  ASSUME TableTypeOK, CidInv, NEW c \in Client, NEW k \in RequestKey
  PROVE  /\ \A p \in PrivKey : CREATE(c, k, p) => Exact!Create(c, k, p)
         /\ READ(c, k) => Exact!Read(c, k)
         /\ \A p, q \in PrivKey : CHANGE(c, k, p, q) => Exact!Change(c, k, p, q)
         /\ DELETE(c, k) => Exact!Delete(c, k)
<1>1. k \in KeyId /\ [l \in RequestKey |-> l][k] = Truncated[k]
  BY ArrivedKey
<1>2. ASSUME NEW p \in PrivKey, CREATE(c, k, p) PROVE Exact!Create(c, k, p)
  <2>1. Map!Create(c, k, p)
    BY <1>1, <1>2, MapCreate
  <2>2. QED BY <1>1, <2>1, ExactCardinality DEF Map!Create, Exact!Create
<1>3. READ(c, k) => Exact!Read(c, k)
  BY <1>1, MapRead DEF Map!Read, Exact!Read
<1>4. \A p, q \in PrivKey : CHANGE(c, k, p, q) => Exact!Change(c, k, p, q)
  BY <1>1, MapChange DEF Map!Change, Exact!Change
<1>5. DELETE(c, k) => Exact!Delete(c, k)
  BY <1>1, MapDelete DEF Map!Delete, Exact!Delete
<1>6. QED BY <1>2, <1>3, <1>4, <1>5

\* The command of a request is the exact wallet's, on the request's own key and
\* private keys.
LEMMA ExactRequest ==
  ASSUME IoctlInv, NEW c \in Client, call[c] # NoCall, Command(c)
  PROVE  LET r == call[c] IN
         \/ Malformed(c)
         \/ r.cmd = "CREATE" /\ Exact!Create(c, r.key, r.priv)
         \/ r.cmd = "READ" /\ Exact!Read(c, r.key)
         \/ r.cmd = "CHANGE" /\ Exact!Change(c, r.key, r.priv, r.new)
         \/ r.cmd = "DELETE" /\ Exact!Delete(c, r.key)
         \/ r.cmd = "DELETEALL" /\ Exact!DeleteAll(c)
<1>1. TableTypeOK /\ CidInv /\ call[c] \in Request
  BY DEF IoctlInv, TypeOK
<1>2. DELETEALL(c) => Exact!DeleteAll(c)
  BY MapDeleteAll DEF Map!DeleteAll, Exact!DeleteAll
<1> DEFINE r == call[c]
<1>3. /\ r.cmd \in {"CREATE", "READ", "CHANGE", "DELETE"} => r.key \in RequestKey
      /\ r.cmd \in {"CREATE", "CHANGE"} => r.priv \in PrivKey
      /\ r.cmd = "CHANGE" => r.new \in PrivKey
  BY <1>1, RequestFields
<1>4. CASE r.cmd = "CREATE" /\ CREATE(c, r.key, r.priv)
  <2>1. Exact!Create(c, r.key, r.priv)
    BY <1>1, <1>3, <1>4, ExactCommand DEF Exact!Create
  <2>2. QED BY <1>4, <2>1
<1>5. CASE r.cmd = "READ" /\ READ(c, r.key)
  <2>1. Exact!Read(c, r.key)
    BY <1>1, <1>3, <1>5, ExactCommand
  <2>2. QED BY <1>5, <2>1
<1>6. CASE r.cmd = "CHANGE" /\ CHANGE(c, r.key, r.priv, r.new)
  <2>1. Exact!Change(c, r.key, r.priv, r.new)
    BY <1>1, <1>3, <1>6, ExactCommand DEF Exact!Change
  <2>2. QED BY <1>6, <2>1
<1>7. CASE r.cmd = "DELETE" /\ DELETE(c, r.key)
  <2>1. Exact!Delete(c, r.key)
    BY <1>1, <1>3, <1>7, ExactCommand DEF Exact!Delete
  <2>2. QED BY <1>7, <2>1
<1>8. QED BY <1>2, <1>4, <1>5, <1>6, <1>7 DEF Command

\* So it is one step of the exact wallet.
LEMMA ExactStep ==
  ASSUME IoctlInv, NEW c \in Client, call[c] # NoCall, Command(c)
  PROVE  Exact!Next
<1>1. call[c] \in Request
  BY DEF IoctlInv, TypeOK
<1>2. Malformed(c) => Exact!Refuse(c, "EINVAL")
  BY MapRefuse DEF Malformed
<1> DEFINE r == call[c]
<1>3. /\ r.cmd = "CREATE" /\ Exact!Create(c, r.key, r.priv) => Exact!Next
      /\ r.cmd = "READ" /\ Exact!Read(c, r.key) => Exact!Next
      /\ r.cmd = "DELETE" /\ Exact!Delete(c, r.key) => Exact!Next
  BY <1>1, RequestFields DEF Exact!Next, Exact!Create, Exact!Read, Exact!Delete
<1>4. ASSUME r.cmd = "CHANGE", Exact!Change(c, r.key, r.priv, r.new) PROVE Exact!Next
  <2>1. r.key \in RequestKey /\ r.priv \in PrivKey /\ r.new \in PrivKey
    BY <1>1, <1>4, RequestFields
  <2>2. PICK k \in RequestKey, p \in PrivKey, q \in PrivKey :
          k = r.key /\ p = r.priv /\ q = r.new
    BY <2>1
  <2>3. Exact!Change(c, k, p, q)
    BY <1>4, <2>2 DEF Exact!Change
  <2>4. QED BY <2>3 DEF Exact!Next
<1>5. Exact!Refuse(c, "EINVAL") \/ Exact!DeleteAll(c) => Exact!Next
  BY DEF Exact!Next
<1>6. QED BY <1>2, <1>3, <1>4, <1>5, ExactRequest

\* READALL is one, too.
LEMMA ExactListed ==
  ASSUME IoctlInv, NEW c \in Client, call[c] # NoCall, Listed(c)
  PROVE  Exact!ReadAll(c)
<1>1. TypeOK /\ TableTypeOK
  BY DEF IoctlInv, TypeOK
<1>2. call[c].bufsize \in BufSize
  BY <1>1, RequestFields DEF Listed, TypeOK
<1>3. Map!ReadAll(c)
  BY <1>1, <1>2, MapReadAll DEF Listed
<1>4. QED BY <1>3 DEF Map!ReadAll, Exact!ReadAll

\* Callers whose keys are cut before they arrive get the exact wallet: a word
\* names its own entry and no other's, for any number of slots.
THEOREM ExactMapCorrect == Spec => ExactMap
<1>1. Init => Exact!Init
  BY DEF Init, TableInit, Exact!Init, OccupiedSlots, Occupied, ZeroEntry
<1>2. IoctlInv /\ [Next]_vars => [Exact!Next]_(Exact!mapVars)
  <2> SUFFICES ASSUME IoctlInv, [Next]_vars
               PROVE  Exact!Next \/ UNCHANGED Exact!mapVars
    OBVIOUS
  <2>1. TypeOK /\ TableTypeOK
    BY DEF IoctlInv, TypeOK
  <2>2. UNCHANGED tableVars => UNCHANGED Exact!mapVars
    BY DEF tableVars, Exact!mapVars, OccupiedSlots, Occupied
  <2>3. ASSUME NEW c \in Client, call[c] # NoCall, Listed(c) PROVE Exact!Next
    BY <2>3, ExactListed DEF Exact!Next
  <2>4. ASSUME NEW c \in Client, Leave(c)
        PROVE  Exact!Next \/ UNCHANGED Exact!mapVars
    <3>1. CASE reply[c] = NoReply
      BY <2>1, <2>2, <2>4, <3>1 DEF Leave, TableTypeOK, tableVars
    <3>2. CASE reply[c] # NoReply
      <4>1. Map!Return(c)
        BY <2>4, <3>2, MapReturn DEF Leave, Return
      <4>2. QED BY <4>1 DEF Map!Return, Exact!Return, Exact!Next
    <3>3. QED BY <3>1, <3>2
  <2>5. CASE UNCHANGED vars
    BY <2>2, <2>5 DEF vars
  <2>6. CASE Next
    BY <2>2, <2>3, <2>4, <2>6, ExactStep, IoctlCases
       DEF Enter, Reject
  <2>7. QED BY <2>5, <2>6
<1>3. QED
  BY <1>1, <1>2, IoctlInvariant, PTL DEF Spec, ExactMap, Exact!Spec
-----------------------------------------------------------------------------
\* A command that stores or clears does so in the one slot its search found.
LEMMA OneSlot ==
  ASSUME TableTypeOK, NEW c \in Client, call[c].cmd # "DELETEALL", Command(c),
         NEW i \in Slot, NEW j \in Slot,
         wallet_table'[i] # wallet_table[i], wallet_table'[j] # wallet_table[j]
  PROVE  i = j
<1> DEFINE Only(s) == \E e : wallet_table' = [wallet_table EXCEPT ![s] = e]
           r == call[c]
<1>1. ASSUME NEW s \in Slot, Only(s) PROVE i = j
  BY <1>1 DEF TableTypeOK
<1>2. ASSUME NEW e, Fail(c, e) PROVE FALSE
  BY <1>2 DEF Fail
<1>3. ASSUME CREATE(c, r.key, r.priv) PROVE \E s \in Slot : Only(s)
  BY <1>2, <1>3 DEF CREATE, CreateAt
<1>4. ASSUME READ(c, r.key) PROVE FALSE
  BY <1>2, <1>4 DEF READ, ReadAt
<1>5. ASSUME CHANGE(c, r.key, r.priv, r.new) PROVE \E s \in Slot : Only(s)
  BY <1>2, <1>5 DEF CHANGE, ChangeAt
<1>6. ASSUME DELETE(c, r.key) PROVE \E s \in Slot : Only(s)
  BY <1>2, <1>6 DEF DELETE, DeleteAt
<1>7. ASSUME Malformed(c) PROVE FALSE
  BY <1>2, <1>7 DEF Malformed
<1>8. \E s \in Slot : Only(s)
  BY <1>3, <1>4, <1>5, <1>6, <1>7 DEF Command
<1>9. QED BY <1>1, <1>8

\* A command that did not fail is its request, served.
LEMMA CommandServed ==
  ASSUME IoctlInv, NEW c \in Client, call[c] # NoCall, Command(c),
         ~IsFailure(reply'[c])
  PROVE  Served(c, call[c])
<1>1. TypeOK /\ TableTypeOK
  BY DEF IoctlInv, TypeOK
<1>2. ASSUME NEW e \in Errno, Fail(c, e) PROVE FALSE
  BY <1>1, <1>2 DEF Fail, Finish, TableTypeOK, IsFailure
<1>3. ~Malformed(c)
  BY <1>2 DEF Malformed, Errno
<1>4. call[c].cmd = "CREATE" => wallet_next_cid' = wallet_next_cid + 1
  <2> SUFFICES ASSUME call[c].cmd = "CREATE" PROVE wallet_next_cid' = wallet_next_cid + 1
    OBVIOUS
  <2>1. CREATE(c, call[c].key, call[c].priv)
    BY DEF Command
  <2>2. QED BY <1>2, <2>1 DEF CREATE, CreateAt, Errno
<1>5. call[c].cmd # "DELETEALL" =>
        \A i, j \in Slot : /\ wallet_table'[i] # wallet_table[i]
                          /\ wallet_table'[j] # wallet_table[j] => i = j
  BY <1>1, OneSlot
<1>6. QED BY <1>3, <1>4, <1>5, ExactRequest DEF Served

\* So is a listing, which never fails and touches no slot.
LEMMA ListedServed ==
  ASSUME IoctlInv, NEW c \in Client, call[c] # NoCall, Listed(c)
  PROVE  ~IsFailure(reply'[c]) /\ Served(c, call[c])
<1>1. /\ call[c].cmd = "READALL" /\ UNCHANGED wallet_table
      /\ reply'[c] = dump_wallet(call[c].bufsize)
  BY DEF Listed, READALL, Finish, IoctlInv, TypeOK, TableTypeOK
<1>2. /\ DOMAIN dump_wallet(call[c].bufsize) = {"entries", "cut"}
      /\ \A e : DOMAIN Failure(e) = {"errno"}
  BY DEF dump_wallet
<1>3. QED BY <1>1, <1>2, ExactListed DEF IsFailure, Served

\* For every set of callers, every size of the wallet and every place where a copy
\* fails: a caller told EFAULT has its whole command, done to the slots and to the
\* counter of ids as for one that is told of success, or nothing of it.
THEOREM FaultCorrect == Spec => FaultIsCommit
<1> DEFINE Told(c) == \/ ret'[c] = "EFAULT" /\ UNCHANGED tableVars
                      \/ ~IsFailure(reply'[c]) /\ Served(c, call[c])
           A == \A c \in Client :
             ret[c] = "none" /\ ret'[c] \in {"0", "EFAULT"} => Told(c)
<1>1. IoctlInv /\ [Next]_vars => [A]_vars
  <2> SUFFICES ASSUME IoctlInv, Next, NEW d \in Client, ret[d] = "none",
                      ret'[d] \in {"0", "EFAULT"}
               PROVE  Told(d)
    OBVIOUS
  <2>1. TypeOK /\ TableTypeOK
    BY DEF IoctlInv, TypeOK
  <2>2. ASSUME NEW c \in Client, NEW v, ret' = [ret EXCEPT ![c] = v] PROVE c = d
    BY <2>1, <2>2 DEF TypeOK
  <2>3. ASSUME NEW c \in Client, call[c] # NoCall, Command(c) PROVE Told(d)
    <3>1. c = d
      BY <2>2, <2>3 DEF Command, CopyOut, ReturnValue
    <3>2. ~IsFailure(reply'[c])
      <4>1. IsFailure(reply'[c]) => ret'[c] \in Errno
        BY <2>1, <2>3 DEF Command, ReturnValue, IsFailure, TypeOK
      <4>2. QED BY <3>1, <4>1 DEF Errno
    <3>3. QED BY <2>3, <3>1, <3>2, CommandServed
  <2>4. ASSUME NEW c \in Client, call[c] # NoCall, Listed(c) PROVE Told(d)
    <3>1. c = d
      BY <2>2, <2>4 DEF Listed, ReturnValue
    <3>2. QED BY <2>4, <3>1, ListedServed
  <2>5. ASSUME NEW c \in Client, NEW e \in {"EINVAL", "ENOMEM", "ENOTTY", "EFAULT"},
               Reject(c, e)
        PROVE  Told(d)
    <3>1. c = d /\ ret'[d] = e /\ UNCHANGED tableVars
      BY <2>1, <2>2, <2>5 DEF Reject, ReturnValue, TypeOK
    <3>2. QED BY <3>1
  <2>6. ASSUME NEW c \in Client, (\E q \in Request : Enter(c, q)) \/ Leave(c)
        PROVE  FALSE
    BY <2>1, <2>6 DEF Enter, Leave, TypeOK
  <2> HIDE DEF Told
  <2>7. QED BY <2>3, <2>4, <2>5, <2>6, IoctlCases
<1>2. QED BY <1>1, IoctlInvariant, PTL DEF Spec, FaultIsCommit
=============================================================================
