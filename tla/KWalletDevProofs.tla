--------------------------- MODULE KWalletDevProofs ---------------------------
(***************************************************************************)
(* The char device, for every number of files, keys and slots: its writers *)
(* are atomic, and its readers take whole responses once.                  *)
(***************************************************************************)
EXTENDS KWalletDev, WalletTableProofs

\* A step of the device is a step of WalletWrite, or none of its business.
LEMMA DevWriteStep ==
  ASSUME WriteInv, [Next]_vars
  PROVE  WriteInv' /\ [TableNext]_tableVars
<1>1. ASSUME NEW c \in Client, NEW p \in Place, Goto(c, p),
             pc[c] \notin {"search", "execute"}, p \notin {"search", "execute"},
             UNCHANGED <<tableVars, wallet_lock, cmd, idx>>
      PROVE  WriteInv'
  <2>1. WriteTypeOK'
    <3>1. TableTypeOK'
      BY <1>1, TableTypeStep DEF WriteInv, WriteTypeOK
    <3>2. QED BY <1>1, <3>1 DEF WriteInv, WriteTypeOK, Goto
  <2>2. LockReleased' /\ IndexStillValid'
    BY <1>1, ElsewhereStep DEF tableVars
  <2>3. QED BY <2>1, <2>2 DEF WriteInv
<1>2. CASE UNCHANGED <<tableVars, writeVars>>
  <2>1. TableTypeOK'
    BY <1>2, TableTypeStep DEF WriteInv, WriteTypeOK
  <2>2. WriteTypeOK' /\ LockReleased'
    BY <1>2, <2>1 DEF WriteInv, WriteTypeOK, LockReleased, writeVars
  <2>3. IndexStillValid'
    BY <1>2 DEF WriteInv, IndexStillValid, Found, unknown_key, find_free_slot,
                lookup_key, Holds, Occupied, tableVars, writeVars
  <2>4. QED BY <1>2, <2>2, <2>3 DEF WriteInv
<1>3. ASSUME NEW c \in Client, kwallet_write(c)
      PROVE  WriteInv' /\ [TableNext]_tableVars
  <2>1. CASE OnTable(\E l \in Line : WriteBegin(c, l))
    BY <2>1, WriteInvStep DEF OnTable, WriteBegin
  <2>2. CASE OnTable(Lock(c))
    BY <2>2, WriteInvStep DEF OnTable, Lock
  <2>3. CASE OnTable(Search(c)) \/ OnTable(Execute(c))
    BY <2>3, WriteInvStep, CommandIsAtomic DEF OnTable
  <2>4. CASE StoreAndReturn(c) \/ ReturnError(c)
    BY <2>4, WriteReturnStep, CommandIsAtomic DEF StoreAndReturn, ReturnError
  <2>5. QED BY <1>3, <2>1, <2>2, <2>3, <2>4 DEF kwallet_write
<1>4. ASSUME NEW c \in Client, kwallet_read(c)
      PROVE  WriteInv' /\ [TableNext]_tableVars
  <2>1. CASE TakeResponse(c)
    BY <1>1, <2>1 DEF TakeResponse, Place
  <2>2. CASE FinishRead(c)
    BY <1>1, <2>2 DEF FinishRead, Place
  <2>3. QED BY <1>4, <2>1, <2>2 DEF kwallet_read
<1>5. ASSUME NEW c \in Client, kwallet_open(c) \/ kwallet_release(c)
      PROVE  WriteInv' /\ [TableNext]_tableVars
  BY <1>2, <1>5 DEF kwallet_open, kwallet_release
<1>6. CASE UNCHANGED vars
  BY <1>2, <1>6 DEF vars
<1>7. QED BY <1>3, <1>4, <1>5, <1>6 DEF Next

\* At any time what a command found under wallet_lock still holds when it
\* uses it, and the lock is held exactly where the code holds it.
THEOREM MutexCorrect == Spec => [](LockReleased /\ IndexStillValid)
<1>1. Init => WriteInv
  BY WriteInvInit DEF Init
<1>2. WriteInv => LockReleased /\ IndexStillValid
  BY DEF WriteInv
<1>3. QED BY <1>1, <1>2, DevWriteStep, PTL DEF Spec

\* The interleaved steps of any number of writers implement the atomic
\* commands of the table.
THEOREM DevImplementsTable == Spec => TableAtomic
<1>1. Init => WriteInv /\ TableInit
  BY WriteInvInit DEF Init
<1>2. QED BY <1>1, DevWriteStep, PTL DEF Spec, TableSpec, TableAtomic

\* Hence they implement the abstract wallet.
THEOREM DevImplementsMap == Spec => MapSpec
BY DevImplementsTable, TableImplementsMap DEF TableAtomic

-----------------------------------------------------------------------------
\* A file that has been given bytes, or is about to be, is marked.
ConsumedInv ==
  /\ pc \in [Client -> Place]
  /\ given \in [Client -> Nat]
  /\ file \in [Client -> [open : BOOLEAN, consumed : BOOLEAN]]
  /\ \A c \in Client :
       /\ pc[c] = "copy" => given[c] = 0 /\ file[c].consumed
       /\ given[c] > 0 => file[c].consumed
       /\ file[c].consumed => file[c].open
       /\ given[c] <= 1

\* One step keeps the mark ahead of the bytes.
LEMMA ConsumedStep ==
  ASSUME ConsumedInv, [Next]_vars
  PROVE  ConsumedInv'
<1> USE DEF ConsumedInv, Place
<1>1. ASSUME NEW c \in Client, NEW p \in Place, Goto(c, p), pc[c] # "copy",
             p # "copy", UNCHANGED <<given, file>>
      PROVE  ConsumedInv'
  BY <1>1 DEF Goto
<1>2. ASSUME NEW c \in Client, kwallet_write(c)
      PROVE  ConsumedInv'
  <2>1. CASE OnTable(\E l \in Line : WriteBegin(c, l))
    BY <1>1, <2>1 DEF OnTable, WriteBegin, devVars
  <2>2. CASE OnTable(Lock(c))
    BY <1>1, <2>2 DEF OnTable, Lock, devVars
  <2>3. CASE OnTable(Search(c)) \/ OnTable(Execute(c))
    BY <1>1, <2>3 DEF OnTable, Search, Execute, Unlock, devVars
  <2>4. CASE StoreAndReturn(c) \/ ReturnError(c)
    BY <1>1, <2>4 DEF StoreAndReturn, ReturnError, WriteReturn, devVars
  <2>5. QED BY <1>2, <2>1, <2>2, <2>3, <2>4 DEF kwallet_write
<1>3. ASSUME NEW c \in Client, TakeResponse(c)
      PROVE  ConsumedInv'
  <2>1. file[c] \in [open : BOOLEAN, consumed : BOOLEAN] /\ given[c] = 0
    BY <1>3 DEF TakeResponse
  <2>2. /\ file' \in [Client -> [open : BOOLEAN, consumed : BOOLEAN]]
        /\ file'[c].consumed /\ file'[c].open
        /\ \A d \in Client \ {c} : file'[d] = file[d]
    BY <1>3, <2>1 DEF TakeResponse
  <2>3. QED BY <1>3, <2>1, <2>2 DEF TakeResponse, Goto
<1>4. ASSUME NEW c \in Client, FinishRead(c)
      PROVE  ConsumedInv'
  BY <1>4 DEF FinishRead, Goto
<1>5. ASSUME NEW c \in Client, kwallet_open(c)
      PROVE  ConsumedInv'
  BY <1>5 DEF kwallet_open, Closed, writeVars
<1>6. ASSUME NEW c \in Client, kwallet_release(c)
      PROVE  ConsumedInv'
  BY <1>6 DEF kwallet_release, Closed, writeVars
<1>7. CASE UNCHANGED vars
  BY <1>7 DEF vars, writeVars, devVars
<1>8. QED BY <1>2, <1>3, <1>4, <1>5, <1>6, <1>7 DEF Next, kwallet_read

\* One open file is given bytes at most once, with any number of writers and
\* readers.
THEOREM OncePerOpenCorrect == Spec => []OncePerOpen
<1>1. Init => ConsumedInv
  BY DEF Init, WriteInit, ConsumedInv, Closed, Place
<1>2. ConsumedInv => OncePerOpen
  BY DEF ConsumedInv, OncePerOpen
<1>3. QED BY <1>1, <1>2, ConsumedStep, PTL DEF Spec
-----------------------------------------------------------------------------
\* Only a success is ever stored, and only what is stored is taken.
SuccessInv ==
  /\ pc \in [Client -> Place]
  /\ full_reply \in [Client -> Reply \cup {NoReply}]
  /\ response_ready =>
       /\ pending_response \in Reply
       /\ pending_response # NoReply /\ ~IsFailure(pending_response)
  /\ SuccessRead

\* One step stores, takes and gives successes only.
LEMMA SuccessStep ==
  ASSUME SuccessInv, TableTypeOK, [Next]_vars
  PROVE  SuccessInv'
<1> USE DEF SuccessInv, SuccessRead, CopyText, Place
<1>1. ASSUME NEW c \in Client, NEW p \in Place, Goto(c, p), p # "copy",
             UNCHANGED <<full_reply, responseVars>>
      PROVE  SuccessInv'
  BY <1>1 DEF Goto, responseVars, IsFailure
<1>2. ASSUME NEW c \in Client, kwallet_write(c)
      PROVE  SuccessInv'
  <2>1. CASE OnTable(\E l \in Line : WriteBegin(c, l))
    BY <1>1, <2>1 DEF OnTable, WriteBegin, devVars
  <2>2. CASE OnTable(Lock(c))
    BY <1>1, <2>2 DEF OnTable, Lock, devVars
  <2>3. CASE OnTable(Search(c)) \/ OnTable(Execute(c))
    BY <1>1, <2>3 DEF OnTable, Search, Execute, Unlock, devVars
  <2>4. CASE ReturnError(c)
    BY <1>1, <2>4 DEF ReturnError, WriteReturn, devVars
  <2>5. CASE StoreAndReturn(c)
    <3>1. reply[c] \in Reply /\ reply[c] # NoReply /\ ~IsFailure(reply[c])
      BY <2>5 DEF StoreAndReturn, WriteReturn, Return, TableTypeOK
    <3>2. /\ pending_response' = reply[c]
          /\ full_reply' = full_reply
          /\ pc' = [pc EXCEPT ![c] = "idle"]
      BY <2>5 DEF StoreAndReturn, WriteReturn, Goto, devVars
    <3>3. QED BY <3>1, <3>2 DEF IsFailure
  <2>6. QED BY <1>2, <2>1, <2>2, <2>3, <2>4, <2>5 DEF kwallet_write
<1>3. ASSUME NEW c \in Client, TakeResponse(c)
      PROVE  SuccessInv'
  BY <1>3 DEF TakeResponse, Goto, responseVars, IsFailure
<1>4. ASSUME NEW c \in Client, FinishRead(c)
      PROVE  SuccessInv'
  BY <1>4 DEF FinishRead, Goto, responseVars, IsFailure
<1>5. ASSUME UNCHANGED <<pc, full_reply, responseVars>>
      PROVE  SuccessInv'
  BY <1>5 DEF responseVars, IsFailure
<1>6. ASSUME NEW c \in Client, kwallet_open(c) \/ kwallet_release(c)
      PROVE  SuccessInv'
  BY <1>5, <1>6 DEF kwallet_open, kwallet_release, writeVars
<1>7. CASE UNCHANGED vars
  BY <1>5, <1>7 DEF vars, writeVars, devVars
<1>8. QED BY <1>2, <1>3, <1>4, <1>6, <1>7 DEF Next, kwallet_read

\* No reader is ever given the failure of a command, nor an empty response.
THEOREM SuccessReadCorrect == Spec => []SuccessRead
<1>1. Init => SuccessInv
  BY DEF Init, WriteInit, SuccessInv, SuccessRead, Place
<1>2. SuccessInv => SuccessRead
  BY DEF SuccessInv
<1>3. WriteInv => TableTypeOK
  BY DEF WriteInv, WriteTypeOK
<1>4. Init => WriteInv
  BY WriteInvInit DEF Init
<1>5. QED BY <1>1, <1>2, <1>3, <1>4, DevWriteStep, SuccessStep, PTL DEF Spec
-----------------------------------------------------------------------------
\* A step keeps the types of the response, of the files and of the copies.
LEMMA DevTypeStep ==
  ASSUME TypeOK, WriteTypeOK', [Next]_vars
  PROVE  TypeOK'
<1> USE DEF TypeOK, Closed
<1>1. CASE UNCHANGED <<responseVars, devVars>>
  BY <1>1 DEF responseVars, devVars
<1>2. ASSUME NEW c \in Client, kwallet_write(c)
      PROVE  TypeOK'
  <2>1. CASE \/ OnTable(\E l \in Line : WriteBegin(c, l)) \/ OnTable(Lock(c))
             \/ OnTable(Search(c)) \/ OnTable(Execute(c)) \/ ReturnError(c)
    BY <1>1, <2>1 DEF OnTable, ReturnError
  <2>2. CASE StoreAndReturn(c)
    <3>1. reply[c] \in Reply \cup {NoReply}
      BY DEF WriteTypeOK, TableTypeOK
    <3>2. QED BY <2>2, <3>1 DEF StoreAndReturn, devVars
  <2>3. QED BY <1>2, <2>1, <2>2 DEF kwallet_write
<1>3. ASSUME NEW c \in Client, TakeResponse(c)
      PROVE  TypeOK'
  BY <1>3 DEF TakeResponse, responseVars
<1>4. ASSUME NEW c \in Client, FinishRead(c)
      PROVE  TypeOK'
  BY <1>4 DEF FinishRead, responseVars
<1>5. ASSUME NEW c \in Client, kwallet_open(c)
      PROVE  TypeOK'
  BY <1>5 DEF kwallet_open, responseVars
<1>6. ASSUME NEW c \in Client, kwallet_release(c)
      PROVE  TypeOK'
  BY <1>6 DEF kwallet_release, responseVars
<1>7. CASE UNCHANGED vars
  BY <1>1, <1>7 DEF vars
<1>8. QED BY <1>2, <1>3, <1>4, <1>5, <1>6, <1>7 DEF Next, kwallet_read

\* The variables of the device have their types, for any number of files.
THEOREM DevTypeCorrect == Spec => []TypeOK
<1>1. WriteInv => WriteTypeOK
  BY DEF WriteInv
<1>2. Init => WriteInv
  BY WriteInvInit DEF Init
<1>3. Init => TypeOK
  <2>1. SUFFICES ASSUME Init PROVE TypeOK
    OBVIOUS
  <2>2. WriteTypeOK
    BY <1>1, <1>2, <2>1
  <2>3. QED BY <2>1, <2>2 DEF Init, TypeOK, Closed
<1>4. QED BY <1>1, <1>2, <1>3, DevWriteStep, DevTypeStep, PTL DEF Spec

\* What a reader copies to its user, with no lock held, is the text that it
\* measured: writers that store responses meanwhile do not reach it.
THEOREM WholeResponseCorrect == Spec => WholeResponse
<1> DEFINE Kept == \A c \in Client :
      pc[c] = "copy" /\ pc'[c] = "copy" => CopyText(c)' = CopyText(c)
<1>1. ASSUME WriteTypeOK, TypeOK, [Next]_vars
      PROVE  [Kept]_vars
  <2> USE <1>1 DEF WriteTypeOK, TypeOK, CopyText
  <2>1. CASE UNCHANGED full_reply
    BY <2>1
  <2>2. ASSUME NEW c \in Client, TakeResponse(c)
        PROVE  Kept
    BY <2>2 DEF TakeResponse, Goto
  <2>3. ASSUME NEW c \in Client, FinishRead(c)
        PROVE  Kept
    BY <2>3 DEF FinishRead, Goto
  <2>4. ASSUME NEW c \in Client,
               kwallet_write(c) \/ kwallet_open(c) \/ kwallet_release(c)
        PROVE  Kept
    BY <2>1, <2>4 DEF kwallet_write, kwallet_open, kwallet_release, OnTable,
                      StoreAndReturn, ReturnError, devVars
  <2>5. CASE UNCHANGED vars
    BY <2>1, <2>5 DEF vars, devVars
  <2>6. QED BY <2>2, <2>3, <2>4, <2>5 DEF Next, kwallet_read
<1>2. WriteInv => WriteTypeOK
  BY DEF WriteInv
<1>3. Init => WriteInv
  BY WriteInvInit DEF Init
<1>4. QED BY <1>1, <1>2, <1>3, DevWriteStep, DevTypeCorrect, PTL
             DEF Spec, WholeResponse
=============================================================================
