------------------------ MODULE WalletRespondProofs ------------------------
(***************************************************************************)
(* The drivers that store a response for every command, /proc and /sys,    *)
(* for every number of files, keys and slots: their writers are atomic,    *)
(* and what their readers get is of one response.                          *)
(***************************************************************************)
EXTENDS KWalletProc, KWalletSys, WalletTableProofs, SequenceTheorems

USE ClientAssumption

\* The second unit of a stored line.
Rest(r) == IF IsLong(r) THEN r ELSE NoReply

\* The response is the whole line of r.
Stored(r) == global_response[1] = r /\ global_response[2] = Rest(r)

\* Where a call is tells what it holds and what it knows.
PlaceInv == \A c \in Client :
  /\ response_lock = c <=> pc[c] = "storing"
  /\ Writing(c) <=> pc[c] \in {"lock", "search", "execute", "done", "storing"}
  /\ pc[c] \in {"done", "storing"} => reply[c] \in Reply

\* With the lock free a reader finds one whole line, and who stores has
\* stored its first unit.
ResponseInv ==
  /\ response_lock = None /\ response_ready => \E r \in Reply : Stored(r)
  /\ \A c \in Client : pc[c] = "storing" => global_response[1] = reply[c]

\* Nobody but the solo client is writing, and its reply is kept.
SoloInv ==
  solo # None =>
    /\ \A d \in Client : Writing(d) => d = solo
    /\ pc[solo] \in {"done", "storing"} => solo_reply = reply[solo]
    /\ ~Writing(solo) => response_ready /\ Stored(solo_reply)

\* What holds between two steps of either driver.
RespondInv == WriteInv /\ RespondTypeOK /\ PlaceInv /\ ResponseInv /\ SoloInv

\* A line is not the mark of no line.
LEMMA LineIsSome ==
  ASSUME NEW l \in Line
  PROVE  l # NoLine
BY DEF Line, NoLine, Parsed

\* A reply is not the mark of no reply.
LEMMA ReplyIsSome ==
  ASSUME NEW r \in Reply
  PROVE  r # NoReply
<1>1. /\ DOMAIN NoReply = {"none"}
      /\ \A e : DOMAIN Failure(e) = {"errno"}
      /\ DOMAIN StatusReply = {"status"}
  BY DEF NoReply, Failure, StatusReply
<1>2. CASE r \in [creation_id : 1..MAX_CID]
  <2>1. DOMAIN r = {"creation_id"}
    BY <1>2
  <2>2. QED BY <1>1, <2>1
<1>3. CASE r \in [key_id : KeyId, priv_key : PrivKey]
  <2>1. DOMAIN r = {"key_id", "priv_key"}
    BY <1>3
  <2>2. QED BY <1>1, <2>1
<1>4. CASE r \in [entries : SUBSET Entry, cut : BOOLEAN]
  <2>1. DOMAIN r = {"entries", "cut"}
    BY <1>4
  <2>2. QED BY <1>1, <2>1
<1>5. CASE r = StatusReply \/ \E e \in Errno : r = Failure(e)
  BY <1>1, <1>5
<1>6. QED BY <1>2, <1>3, <1>4, <1>5 DEF Reply

-----------------------------------------------------------------------------
\* A call that neither holds wallet_lock nor asks for it moves elsewhere.
LEMMA MoveKeepsWriteInv ==
  ASSUME WriteInv, NEW c \in Client, NEW p \in Place, Goto(c, p),
         pc[c] \notin {"search", "execute"}, p \notin {"search", "execute"},
         UNCHANGED <<tableVars, wallet_lock, cmd, idx>>
  PROVE  WriteInv'
<1>1. WriteTypeOK'
  <2>1. TableTypeOK'
    BY TableTypeStep DEF WriteInv, WriteTypeOK
  <2>2. QED BY <2>1 DEF WriteInv, WriteTypeOK, Goto
<1>2. LockReleased' /\ IndexStillValid'
  BY ElsewhereStep DEF tableVars
<1>3. QED BY <1>1, <1>2 DEF WriteInv

\* The write path as the drivers take it is the one of WalletWrite: its
\* writers are atomic on the table.
LEMMA RespondIsWrite ==
  ASSUME WriteInv, NEW c \in Client, kwallet_write(c)
  PROVE  WriteInv' /\ [TableNext]_tableVars
<1>1. CASE \E l \in Line : BeginLine(c, l)
  BY <1>1, WriteInvStep DEF BeginLine, WriteBegin
<1>2. CASE WaitForWallet(c)
  BY <1>2, WriteInvStep DEF WaitForWallet, Lock
<1>3. CASE RunCommand(c)
  BY <1>3, WriteInvStep, CommandIsAtomic DEF RunCommand
<1>4. CASE BeginStore(c)
  BY <1>4, MoveKeepsWriteInv DEF BeginStore, Place
<1>5. CASE FinishStore(c)
  BY <1>5, WriteReturnStep, CommandIsAtomic DEF FinishStore
<1>6. QED BY <1>1, <1>2, <1>3, <1>4, <1>5 DEF kwallet_write

\* A command finishes with a reply.
LEMMA CommandReplies ==
  ASSUME WriteTypeOK, NEW c \in Client, Refused(c) \/ Execute(c)
  PROVE  /\ reply'[c] # NoReply
         /\ \A d \in Client \ {c} : reply'[d] = reply[d]
<1> DEFINE Some(r) == r # NoReply /\ Finish(c, r)
<1>1. ASSUME NEW r, Some(r)
      PROVE  reply'[c] # NoReply /\ \A d \in Client \ {c} : reply'[d] = reply[d]
  BY <1>1 DEF Finish, WriteTypeOK, TableTypeOK
<1>2. /\ DOMAIN NoReply = {"none"}
      /\ \A e : DOMAIN Failure(e) = {"errno"}
      /\ \A n : DOMAIN CidReply(n) = {"creation_id"}
      /\ \A k, p : DOMAIN PairReply(k, p) = {"key_id", "priv_key"}
      /\ \A s, b : DOMAIN Listing(s, b) = {"entries", "cut"}
      /\ DOMAIN StatusReply = {"status"}
  BY DEF NoReply, Failure, CidReply, PairReply, Listing, StatusReply
<1>3. \A e : Fail(c, e) => Some(Failure(e))
  BY <1>2 DEF Fail
<1>4. CASE Refused(c)
  BY <1>1, <1>3, <1>4 DEF Refused, Malformed
<1>5. CASE Execute(c)
  <2> DEFINE m == cmd[c]
             i == idx[c]
  <2>1. CASE CreateAt(c, i, m.arg1, m.arg2)
    <3>1. Some(CidReply(wallet_next_cid))
      BY <1>2, <2>1 DEF CreateAt
    <3>2. QED BY <1>1, <3>1
  <2>2. CASE ReadAt(c, i)
    <3>1. Some(PairReply(wallet_table[i].key_id, wallet_table[i].priv_key))
      BY <1>2, <2>2 DEF ReadAt
    <3>2. QED BY <1>1, <3>1
  <2>3. ASSUME NEW n \in BufSize, READALL(c, n)
        PROVE  reply'[c] # NoReply /\ \A d \in Client \ {c} : reply'[d] = reply[d]
    <3>1. Finish(c, dump_wallet(n))
      BY <2>3 DEF READALL
    <3>2. DOMAIN dump_wallet(n) = {"entries", "cut"}
      BY <1>2 DEF dump_wallet
    <3>3. dump_wallet(n) # NoReply
      <4>1. {"entries", "cut"} # {"none"}
        OBVIOUS
      <4>2. QED BY <1>2, <3>2, <4>1
    <3>4. QED BY <1>1, <3>1, <3>3
  <2>4. CASE ChangeAt(c, i, m.arg2, m.arg3)
    <3>1. Some(Failure("EPERM")) \/ Some(CidReply(wallet_table[i].creation_id))
      BY <1>2, <1>3, <2>4 DEF ChangeAt
    <3>2. QED BY <1>1, <3>1
  <2>5. CASE DeleteAt(c, i) \/ DELETEALL(c)
    <3>1. Some(StatusReply)
      BY <1>2, <2>5 DEF DeleteAt, DELETEALL
    <3>2. QED BY <1>1, <3>1
  <2>6. QED BY <1>5, <2>1, <2>2, <2>3, <2>4, <2>5 DEF Execute
<1>6. QED BY <1>4, <1>5

\* What a command does to the rest of the driver: its search goes on with the
\* slot it found, or it has a reply.
LEMMA RunEffect ==
  ASSUME WriteInv, NEW c \in Client, RunCommand(c)
  PROVE  /\ pc[c] \in {"search", "execute"} /\ UNCHANGED cmd
         /\ \A d \in Client \ {c} : pc'[d] = pc[d] /\ reply'[d] = reply[d]
         /\ \/ pc'[c] = "execute" /\ reply'[c] = reply[c]
            \/ pc'[c] = "done" /\ reply'[c] \in Reply
<1>1. WriteTypeOK /\ WriteTypeOK'
  <2>1. WriteInv'
    BY RespondIsWrite DEF kwallet_write
  <2>2. QED BY <2>1 DEF WriteInv
<1>2. CASE \/ pc[c] = "search" /\ Refused(c) /\ Unlock(c) /\ UNCHANGED cmd
           \/ Execute(c)
  <2>1. reply'[c] # NoReply /\ \A d \in Client \ {c} : reply'[d] = reply[d]
    BY <1>1, <1>2, CommandReplies
  <2>2. reply'[c] \in Reply
    BY <1>1, <2>1 DEF WriteTypeOK, TableTypeOK
  <2>3. pc[c] \in {"search", "execute"} /\ UNCHANGED cmd /\ Goto(c, "done")
    BY <1>2 DEF Execute, Unlock
  <2>4. QED BY <1>1, <2>1, <2>2, <2>3 DEF Goto, WriteTypeOK
<1>3. QED BY <1>1, <1>2 DEF RunCommand, Search, Goto, WriteTypeOK, tableVars

-----------------------------------------------------------------------------
\* One step of kwallet_write keeps the types.
LEMMA RespondTypeStep ==
  ASSUME RespondInv, NEW c \in Client, kwallet_write(c)
  PROVE  RespondTypeOK'
<1>1. WriteTypeOK /\ WriteTypeOK' /\ RespondTypeOK
  BY RespondIsWrite DEF RespondInv, WriteInv
<1>2. reply[c] \in Reply \cup {NoReply} /\ reply'[c] \in Reply \cup {NoReply}
  BY <1>1 DEF WriteTypeOK, TableTypeOK
<1> USE DEF RespondTypeOK
<1>3. CASE \E l \in Line : BeginLine(c, l)
  BY <1>1, <1>3 DEF BeginLine, responseVars
<1>4. CASE WaitForWallet(c)
  BY <1>1, <1>4 DEF WaitForWallet, responseVars, soloVars
<1>5. CASE RunCommand(c)
  BY <1>1, <1>2, <1>5 DEF RunCommand, responseVars
<1>6. CASE BeginStore(c)
  BY <1>1, <1>2, <1>6 DEF BeginStore, soloVars
<1>7. CASE FinishStore(c)
  BY <1>1, <1>2, <1>7 DEF FinishStore, soloVars
<1>8. QED BY <1>3, <1>4, <1>5, <1>6, <1>7 DEF kwallet_write

\* One step of kwallet_write keeps the places.
LEMMA PlaceStep ==
  ASSUME RespondInv, NEW c \in Client, kwallet_write(c)
  PROVE  PlaceInv'
<1>1. WriteTypeOK /\ RespondTypeOK /\ TableTypeOK
  BY DEF RespondInv, WriteInv, WriteTypeOK
<1>2. WriteTypeOK' /\ TableTypeOK'
  BY RespondIsWrite DEF RespondInv, WriteInv, WriteTypeOK
<1> USE DEF PlaceInv, RespondInv, Writing, Goto
<1>3. ASSUME NEW l \in Line, BeginLine(c, l)
      PROVE  PlaceInv'
  <2>1. /\ pc' = [pc EXCEPT ![c] = "lock"]
        /\ cmd' = [cmd EXCEPT ![c] = l]
        /\ UNCHANGED <<reply, response_lock>> /\ pc[c] = "idle" /\ l # NoLine
    BY <1>3, LineIsSome DEF BeginLine, WriteBegin, tableVars, responseVars
  <2>2. QED BY <1>1, <2>1 DEF WriteTypeOK
<1>4. CASE WaitForWallet(c)
  <2>1. /\ pc' = [pc EXCEPT ![c] = "search"]
        /\ UNCHANGED <<reply, response_lock, cmd>> /\ pc[c] = "lock"
    BY <1>4 DEF WaitForWallet, Lock, tableVars, responseVars
  <2>2. QED BY <1>1, <2>1 DEF WriteTypeOK
<1>5. CASE RunCommand(c)
  <2>1. UNCHANGED response_lock
    BY <1>5 DEF RunCommand, responseVars
  <2>2. QED BY <1>1, <1>5, <2>1, RunEffect
<1>6. CASE BeginStore(c)
  <2>1. /\ pc' = [pc EXCEPT ![c] = "storing"] /\ pc[c] = "done"
        /\ response_lock = None /\ response_lock' = c
        /\ UNCHANGED <<reply, cmd>>
    BY <1>6 DEF BeginStore, tableVars
  <2>2. QED BY <1>1, <2>1 DEF WriteTypeOK
<1>7. CASE FinishStore(c)
  <2>1. /\ pc' = [pc EXCEPT ![c] = "idle"] /\ pc[c] = "storing"
        /\ response_lock' = None
        /\ cmd' = [cmd EXCEPT ![c] = NoLine]
        /\ \A d \in Client \ {c} : reply'[d] = reply[d]
    BY <1>1, <1>7 DEF FinishStore, WriteReturn, Return, TableTypeOK
  <2>2. QED BY <1>1, <2>1 DEF WriteTypeOK
<1>8. QED BY <1>3, <1>4, <1>5, <1>6, <1>7 DEF kwallet_write

\* One step of kwallet_write keeps the response whole while the lock is free.
LEMMA ResponseStep ==
  ASSUME RespondInv, NEW c \in Client, kwallet_write(c)
  PROVE  ResponseInv'
<1>1. WriteTypeOK /\ RespondTypeOK /\ TableTypeOK
  BY DEF RespondInv, WriteInv, WriteTypeOK
<1> USE DEF ResponseInv, RespondInv, Stored, Goto, Rest
<1>2. \A d \in Client : pc[d] = "storing" => response_lock = d
  BY DEF PlaceInv
<1>3. ASSUME UNCHANGED responseVars, pc'[c] # "storing",
             \A d \in Client \ {c} : pc'[d] = pc[d] /\ reply'[d] = reply[d]
      PROVE  ResponseInv'
  BY <1>3 DEF responseVars, IsLong
<1>4. CASE (\E l \in Line : BeginLine(c, l)) \/ WaitForWallet(c)
  <2>1. \E p \in {"lock", "search"} : pc' = [pc EXCEPT ![c] = p]
    BY <1>4 DEF BeginLine, WriteBegin, WaitForWallet, Lock
  <2>2. UNCHANGED responseVars /\ UNCHANGED reply
    BY <1>4 DEF BeginLine, WriteBegin, WaitForWallet, Lock, tableVars
  <2>3. QED BY <1>1, <1>3, <2>1, <2>2 DEF WriteTypeOK
<1>5. CASE RunCommand(c)
  <2>1. UNCHANGED responseVars
    BY <1>5 DEF RunCommand
  <2>2. QED BY <1>3, <1>5, <2>1, RunEffect
<1>6. CASE BeginStore(c)
  <2>1. /\ pc' = [pc EXCEPT ![c] = "storing"]
        /\ response_lock = None /\ response_lock' = c
        /\ UNCHANGED reply
        /\ global_response'[1] = reply[c]
    BY <1>1, <1>6 DEF BeginStore, tableVars, RespondTypeOK, Unit
  <2>2. QED BY <1>1, <1>2, <2>1 DEF WriteTypeOK
<1>7. CASE FinishStore(c)
  <2>1. /\ pc' = [pc EXCEPT ![c] = "idle"] /\ pc[c] = "storing"
        /\ response_lock' = None
        /\ global_response'[1] = global_response[1]
        /\ global_response'[2] = Rest(reply[c])
        /\ reply[c] \in Reply
    BY <1>1, <1>7 DEF FinishStore, WriteReturn, RespondTypeOK, Unit, PlaceInv
  <2>2. \A d \in Client : pc'[d] # "storing"
    BY <1>1, <1>2, <2>1 DEF WriteTypeOK
  <2>3. global_response[1] = reply[c]
    BY <2>1
  <2>4. \E r \in Reply : Stored(r)'
    BY <2>1, <2>3 DEF IsLong
  <2>5. QED BY <2>2, <2>4
<1>8. QED BY <1>4, <1>5, <1>6, <1>7 DEF kwallet_write

\* One step of kwallet_write keeps the solo client's reply.
LEMMA SoloStep ==
  ASSUME RespondInv, NEW c \in Client, kwallet_write(c)
  PROVE  SoloInv'
<1>1. WriteInv /\ WriteTypeOK /\ RespondTypeOK /\ TableTypeOK
  BY DEF RespondInv, WriteInv, WriteTypeOK
<1>0. PlaceInv /\ ResponseInv /\ SoloInv
  BY DEF RespondInv
<1>2. solo # None => solo \in Client
  BY <1>1 DEF RespondTypeOK
<1> USE DEF SoloInv, Goto, Writing
<1>3. ASSUME NEW l \in Line, BeginLine(c, l)
      PROVE  SoloInv'
  <2>1. /\ pc' = [pc EXCEPT ![c] = "lock"]
        /\ cmd' = [cmd EXCEPT ![c] = l] /\ l # NoLine
        /\ solo' = IF \E d \in Client : cmd[d] # NoLine THEN None ELSE c
    BY <1>3, LineIsSome DEF BeginLine, WriteBegin
  <2>2. QED BY <1>1, <2>1 DEF WriteTypeOK
<1>4. CASE WaitForWallet(c)
  <2>1. /\ pc' = [pc EXCEPT ![c] = "search"]
        /\ UNCHANGED <<reply, responseVars, soloVars, cmd>>
    BY <1>4 DEF WaitForWallet, Lock, tableVars
  <2>2. QED
    BY <1>0, <1>1, <1>2, <2>1 DEF WriteTypeOK, responseVars, soloVars, Stored, Rest, IsLong
<1>5. CASE RunCommand(c)
  <2>1. /\ solo_reply' = IF solo = c THEN reply'[c] ELSE solo_reply
        /\ UNCHANGED <<responseVars, solo>>
    BY <1>5 DEF RunCommand
  <2>2. Writing(c)
    BY <1>0, <1>1, <1>5, RunEffect DEF PlaceInv
  <2>3. QED
    BY <1>0, <1>1, <1>2, <1>5, <2>1, <2>2, RunEffect
       DEF responseVars, Stored, Rest, IsLong
<1>6. CASE BeginStore(c)
  <2>1. /\ pc' = [pc EXCEPT ![c] = "storing"] /\ pc[c] = "done"
        /\ UNCHANGED <<reply, cmd, soloVars>>
    BY <1>6 DEF BeginStore, tableVars
  <2>2. Writing(c)
    BY <1>0, <2>1 DEF PlaceInv
  <2>3. QED BY <1>0, <1>1, <1>2, <2>1, <2>2 DEF WriteTypeOK, soloVars
<1>7. CASE FinishStore(c)
  <2>1. /\ pc' = [pc EXCEPT ![c] = "idle"] /\ pc[c] = "storing"
        /\ cmd' = [cmd EXCEPT ![c] = NoLine]
        /\ response_ready'
        /\ global_response'[1] = global_response[1]
        /\ global_response'[2] = Rest(reply[c])
        /\ UNCHANGED soloVars
    BY <1>1, <1>7 DEF FinishStore, WriteReturn, RespondTypeOK, Unit, Rest
  <2>2. Writing(c) /\ global_response[1] = reply[c]
    BY <1>0, <2>1 DEF PlaceInv, ResponseInv
  <2>3. solo # None => solo = c /\ solo_reply = reply[c]
    BY <1>0, <2>1, <2>2
  <2>4. UNCHANGED <<solo, solo_reply>>
    BY <2>1 DEF soloVars
  <2>5. solo # None => Stored(solo_reply)'
    BY <2>1, <2>2, <2>3, <2>4 DEF Stored, Rest, IsLong
  <2>6. \A d \in Client : Writing(d)' => Writing(d)
    BY <1>1, <2>1 DEF WriteTypeOK
  <2>7. QED
    BY <1>0, <1>1, <2>1, <2>3, <2>4, <2>5, <2>6 DEF WriteTypeOK
<1>8. QED BY <1>3, <1>4, <1>5, <1>6, <1>7 DEF kwallet_write

\* One step of kwallet_write keeps what holds between two steps.
LEMMA RespondWriteStep ==
  ASSUME RespondInv, NEW c \in Client, kwallet_write(c)
  PROVE  RespondInv' /\ [TableNext]_tableVars
BY RespondIsWrite, RespondTypeStep, PlaceStep, ResponseStep, SoloStep
   DEF RespondInv

\* So does a call that begins or ends to copy a response.
LEMMA RespondReadStep ==
  ASSUME RespondInv, NEW c \in Client, NEW p \in {"idle", "copy"}, Goto(c, p),
         pc[c] \in {"idle", "copy"},
         UNCHANGED <<tableVars, wallet_lock, cmd, idx, responseVars, soloVars>>
  PROVE  RespondInv'
<1>1. WriteInv /\ RespondTypeOK /\ PlaceInv /\ ResponseInv /\ SoloInv /\ WriteTypeOK
  BY DEF RespondInv, WriteInv
<1>2. WriteInv' /\ WriteTypeOK'
  <2>1. WriteInv'
    BY <1>1, MoveKeepsWriteInv DEF Place
  <2>2. QED BY <2>1 DEF WriteInv
<1>3. \A d \in Client : /\ d # c => pc'[d] = pc[d]
                        /\ pc'[c] \in {"idle", "copy"}
  BY <1>1 DEF Goto, WriteTypeOK
<1>4. RespondTypeOK' /\ PlaceInv' /\ ResponseInv'
  BY <1>1, <1>2, <1>3
     DEF RespondTypeOK, PlaceInv, ResponseInv, Stored, Rest, IsLong, Writing,
         tableVars, responseVars, soloVars
<1>5. SoloInv'
  BY <1>1, <1>3
     DEF RespondTypeOK, SoloInv, Stored, Rest, IsLong, Writing, tableVars,
         responseVars, soloVars
<1>6. QED BY <1>2, <1>4, <1>5 DEF RespondInv

\* So does a step that leaves all of it alone.
LEMMA RespondStutter ==
  ASSUME RespondInv, UNCHANGED respondVars
  PROVE  RespondInv' /\ [TableNext]_tableVars
<1>1. UNCHANGED <<tableVars, writeVars, responseVars, soloVars>>
  BY DEF respondVars
<1>2. TableTypeOK'
  BY <1>1, TableTypeStep DEF RespondInv, WriteInv, WriteTypeOK
<1>3. WriteInv'
  BY <1>1, <1>2
     DEF RespondInv, WriteInv, WriteTypeOK, LockReleased, IndexStillValid, Found,
         unknown_key, find_free_slot, lookup_key, Holds, Occupied, tableVars,
         writeVars
<1>4. QED
  BY <1>1, <1>3
     DEF RespondInv, RespondTypeOK, PlaceInv, ResponseInv, SoloInv, Stored, Rest,
         IsLong, Writing, WriteInv, tableVars, writeVars, responseVars, soloVars

\* At first nothing is stored and nobody writes.
LEMMA RespondInvInit ==
  ASSUME RespondInit
  PROVE  RespondInv
<1>1. WriteInv
  BY WriteInvInit DEF RespondInit
<1>2. QED
  BY <1>1, ReplyIsSome
     DEF RespondInit, WriteInit, RespondInv, WriteInv, RespondTypeOK, PlaceInv,
         ResponseInv, SoloInv, Writing, Unit
-----------------------------------------------------------------------------
\* /proc: who copies undisturbed copies the response that is still there.
CopyInv == \A c \in Client :
  /\ pc[c] # "copy" => sources[c] = {}
  /\ pc[c] = "copy" => unit[c] # 0
  /\ pc[c] = "copy" /\ undisturbed[c] =>
       \E r \in Reply : /\ global_response[1] = r
                        /\ total_len[c] = 2 => global_response[2] = r
                        /\ sources[c] \subseteq {r}

ProcInv == RespondInv /\ TypeOK /\ CopyInv

\* A step of kwallet_write leaves every client that copies where it is.
LEMMA WriteLeavesCopies ==
  ASSUME RespondInv, NEW c \in Client, kwallet_write(c)
  PROVE  \A d \in Client : pc'[d] = "copy" <=> pc[d] = "copy"
<1>1. WriteInv /\ pc \in [Client -> Place]
  BY DEF RespondInv, WriteInv, WriteTypeOK
<1>2. CASE RunCommand(c)
  BY <1>1, <1>2, RunEffect
<1>3. CASE ~RunCommand(c)
  <2>1. /\ pc[c] # "copy"
        /\ \E p \in {"lock", "search", "storing", "idle"} : pc' = [pc EXCEPT ![c] = p]
    BY <1>3 DEF kwallet_write, BeginLine, WriteBegin, WaitForWallet, Lock,
                BeginStore, FinishStore, WriteReturn, Goto
  <2>2. QED BY <1>1, <2>1
<1>4. QED BY <1>2, <1>3

\* One step of the /proc file keeps the types.
LEMMA ProcTypeStep ==
  ASSUME ProcInv, RespondInv', [Next]_vars
  PROVE  TypeOK'
<1>1. TypeOK /\ RespondTypeOK'
  BY DEF ProcInv, RespondInv
<1>2. Strlen \in 1..2
  BY DEF Strlen
<1>3. \A c \in Client : unit[c] \in {1, 2} => global_response[unit[c]] \in Reply \cup {NoReply}
  BY <1>1 DEF TypeOK, RespondTypeOK, Unit
<1> USE DEF TypeOK, copyVars, Closed
<1>4. ASSUME NEW c \in Client, kwallet_open(c) \/ kwallet_release(c)
      PROVE  TypeOK'
  <2>1. /\ Closed \in [open : BOOLEAN, consumed : BOOLEAN]
        /\ [Closed EXCEPT !.open = TRUE] \in [open : BOOLEAN, consumed : BOOLEAN]
    OBVIOUS
  <2>2. file' \in [Client -> [open : BOOLEAN, consumed : BOOLEAN]]
    BY <1>1, <1>4, <2>1 DEF kwallet_open, kwallet_release
  <2>3. QED BY <1>1, <1>4, <2>2 DEF kwallet_open, kwallet_release
<1>5. ASSUME NEW c \in Client, Write(c)
      PROVE  TypeOK'
  <2>1. undisturbed' \in [Client -> BOOLEAN]
    BY <1>1, <1>5 DEF Write
  <2>2. QED BY <1>1, <1>5, <2>1 DEF Write
<1>6. ASSUME NEW c \in Client, TakeResponse(c)
      PROVE  TypeOK'
  <2>1. file[c] \in [open : BOOLEAN, consumed : BOOLEAN]
    BY <1>1
  <2>2. file' \in [Client -> [open : BOOLEAN, consumed : BOOLEAN]]
    BY <1>1, <1>6, <2>1 DEF TakeResponse
  <2>3. total_len' \in [Client -> 0..2] /\ unit' \in [Client -> 0..3]
    <3>1. Strlen \in 0..2 /\ \A u \in 1..Strlen : u \in 0..3
      BY <1>2
    <3>2. QED BY <1>1, <1>6, <3>1 DEF TakeResponse
  <2>4. /\ sources' \in [Client -> SUBSET (Reply \cup {NoReply})]
        /\ undisturbed' \in [Client -> BOOLEAN]
    BY <1>1, <1>6 DEF TakeResponse
  <2>5. QED BY <1>1, <2>2, <2>3, <2>4
<1>7. ASSUME NEW c \in Client, CopyUnit(c)
      PROVE  TypeOK'
  <2>1. unit[c] \in {1, 2}
    BY <1>1, <1>7 DEF CopyUnit, ProcInv, CopyInv
  <2>2. global_response[unit[c]] \in Reply \cup {NoReply}
    BY <1>3, <2>1
  <2>3. sources' \in [Client -> SUBSET (Reply \cup {NoReply})]
    BY <1>1, <1>7, <2>2 DEF CopyUnit
  <2>4. unit' \in [Client -> 0..3]
    BY <1>1, <1>7, <2>1 DEF CopyUnit
  <2>5. QED BY <1>1, <1>7, <2>3, <2>4 DEF CopyUnit
<1>8. ASSUME NEW c \in Client, FinishRead(c)
      PROVE  TypeOK'
  BY <1>1, <1>8 DEF FinishRead
<1>9. CASE UNCHANGED vars
  BY <1>1, <1>9 DEF vars
<1>10. QED
  BY <1>4, <1>5, <1>6, <1>7, <1>8, <1>9 DEF Next, kwallet_read

\* Every step of the /proc file is one of the response's, or a call that
\* begins or ends to copy it.
LEMMA ProcRespondStep ==
  ASSUME RespondInv, [Next]_vars
  PROVE  RespondInv' /\ [TableNext]_tableVars
<1>1. ASSUME NEW c \in Client, Write(c)
      PROVE  RespondInv' /\ [TableNext]_tableVars
  BY <1>1, RespondWriteStep DEF Write
<1>2. ASSUME NEW c \in Client, TakeResponse(c)
      PROVE  RespondInv' /\ [TableNext]_tableVars
  BY <1>2, RespondReadStep DEF TakeResponse
<1>3. ASSUME NEW c \in Client, FinishRead(c)
      PROVE  RespondInv' /\ [TableNext]_tableVars
  BY <1>3, RespondReadStep DEF FinishRead
<1>4. CASE UNCHANGED respondVars
  BY <1>4, RespondStutter
<1>5. QED
  BY <1>1, <1>2, <1>3, <1>4
     DEF Next, kwallet_read, kwallet_open, kwallet_release, CopyUnit, vars

\* One step of the /proc file keeps the copies of one response.
LEMMA CopyStep ==
  ASSUME ProcInv, [Next]_vars
  PROVE  CopyInv'
<1>1. /\ RespondInv /\ TypeOK /\ CopyInv
      /\ pc \in [Client -> Place]
      /\ ResponseInv
  BY DEF ProcInv, RespondInv, WriteInv, WriteTypeOK
<1> USE DEF CopyInv, TypeOK
<1>2. ASSUME UNCHANGED <<respondVars, copyVars, undisturbed>>
      PROVE  CopyInv'
  BY <1>1, <1>2 DEF respondVars, writeVars, responseVars, copyVars
<1>3. ASSUME NEW c \in Client, Write(c)
      PROVE  CopyInv'
  <2>1. \A d \in Client : pc'[d] = "copy" <=> pc[d] = "copy"
    BY <1>1, <1>3, WriteLeavesCopies DEF Write
  <2>2. \A d \in Client : pc[d] = "copy" /\ undisturbed'[d] =>
          undisturbed[d] /\ UNCHANGED global_response
    BY <1>3 DEF Write
  <2>3. UNCHANGED copyVars
    BY <1>3 DEF Write
  <2>4. QED BY <1>1, <2>1, <2>2, <2>3 DEF copyVars
<1>4. ASSUME NEW c \in Client, TakeResponse(c)
      PROVE  CopyInv'
  <2>1. /\ pc[c] = "idle" /\ pc' = [pc EXCEPT ![c] = "copy"]
        /\ \E u \in 1..Strlen : unit' = [unit EXCEPT ![c] = u]
        /\ total_len' = [total_len EXCEPT ![c] = Strlen]
        /\ undisturbed' = [undisturbed EXCEPT ![c] = TRUE]
        /\ UNCHANGED <<sources, responseVars>>
    BY <1>4 DEF TakeResponse, Goto
  <2>2. PICK r \in Reply : Stored(r)
    BY <1>1, <1>4 DEF TakeResponse, ResponseInv
  <2>3. Strlen = 2 => global_response[2] = r
    BY <2>2 DEF Strlen, Stored, Rest
  <2>4. sources[c] = {} /\ global_response[1] = r
    BY <1>1, <2>1, <2>2 DEF Stored
  <2>5. Strlen \in 1..2
    BY DEF Strlen
  <2>6. \A d \in Client \ {c} :
          /\ pc'[d] = pc[d] /\ unit'[d] = unit[d] /\ total_len'[d] = total_len[d]
          /\ undisturbed'[d] = undisturbed[d]
    BY <1>1, <2>1
  <2>7. /\ pc'[c] = "copy" /\ unit'[c] # 0 /\ total_len'[c] = Strlen
    BY <1>1, <2>1, <2>5
  <2>8. QED BY <1>1, <2>1, <2>3, <2>4, <2>6, <2>7 DEF responseVars
<1>5. ASSUME NEW c \in Client, CopyUnit(c)
      PROVE  CopyInv'
  <2>1. /\ pc[c] = "copy" /\ unit[c] <= total_len[c]
        /\ sources' = [sources EXCEPT ![c] = @ \cup {global_response[unit[c]]}]
        /\ unit' = [unit EXCEPT ![c] = @ + 1]
        /\ UNCHANGED <<pc, total_len, global_response, undisturbed>>
    BY <1>5 DEF CopyUnit, respondVars, writeVars, responseVars
  <2>2. unit[c] = 1 \/ (unit[c] = 2 /\ total_len[c] = 2)
    BY <1>1, <2>1
  <2>3. QED BY <1>1, <2>1, <2>2
<1>6. ASSUME NEW c \in Client, FinishRead(c)
      PROVE  CopyInv'
  BY <1>1, <1>6 DEF FinishRead, Goto, responseVars
<1>7. QED
  BY <1>2, <1>3, <1>4, <1>5, <1>6
     DEF Next, kwallet_read, kwallet_open, kwallet_release, vars

\* What holds between two steps of the /proc file, for every interleaving.
THEOREM ProcInvariant == Spec => []ProcInv
<1>1. Init => ProcInv
  <2> SUFFICES ASSUME Init PROVE ProcInv
    OBVIOUS
  <2>1. RespondInv
    BY RespondInvInit DEF Init
  <2>2. TypeOK
    BY <2>1 DEF Init, TypeOK, RespondInv, Closed
  <2>3. CopyInv
    BY DEF Init, RespondInit, WriteInit, CopyInv
  <2>4. QED BY <2>1, <2>2, <2>3 DEF ProcInv
<1>2. ProcInv /\ [Next]_vars => ProcInv'
  BY ProcRespondStep, ProcTypeStep, CopyStep DEF ProcInv
<1>3. QED BY <1>1, <1>2, PTL DEF Spec

\* A read() during which no response was stored gives a single response, up
\* to the length it measured under the lock.
THEOREM UndisturbedReadCorrect == Spec => []UndisturbedRead
<1>1. ProcInv => UndisturbedRead
  <2>1. StatusReply \in Reply
    BY DEF Reply
  <2>2. QED BY <2>1 DEF ProcInv, CopyInv, UndisturbedRead, OneResponse
<1>2. QED BY <1>1, ProcInvariant, PTL

\* A client whose write() nobody overlapped or followed finds its own answer.
THEOREM ProcSoloAnswer == Spec => []SoloAnswer
<1>1. ProcInv => SoloAnswer
  BY DEF ProcInv, RespondInv, SoloInv, SoloAnswer, Stored, Rest
<1>2. QED BY <1>1, ProcInvariant, PTL

\* The writers of the /proc file implement the abstract wallet.
THEOREM ProcImplementsMap == Spec => MapSpec
<1>1. Init => TableInit
  BY DEF Init, RespondInit
<1>2. ProcInv /\ [Next]_vars => [TableNext]_tableVars
  BY ProcRespondStep DEF ProcInv
<1>3. Spec => TableSpec
  BY <1>1, <1>2, ProcInvariant, PTL DEF Spec, TableSpec
<1>4. QED BY <1>3, TableImplementsMap

\* A command run by write() replaces a private key only for who knew it.
LEMMA RespondOldKey ==
  ASSUME RespondInv, NEW c \in Client, kwallet_write(c)
  PROVE  \A i \in Slot : OldKeyOf(i)
<1>1. WriteInv
  BY DEF RespondInv
<1>2. CASE RunCommand(c)
  BY <1>1, <1>2, OldKeyStep DEF RunCommand
<1>3. CASE ~RunCommand(c)
  <2>1. UNCHANGED wallet_table
    BY <1>3 DEF kwallet_write, BeginLine, WriteBegin, WaitForWallet, Lock, BeginStore,
                FinishStore, WriteReturn, Return, tableVars
  <2>2. QED BY <1>1, <2>1, OldKeyStep
<1>4. QED BY <1>2, <1>3

\* In /proc/kwallet a private key is replaced only for a client that named the entry
\* and the private key it had, whatever ran between its search and its use.
THEOREM ProcOldKeyKnown == Spec => OldKeyKnown
<1>1. ProcInv /\ [Next]_vars => [\A i \in Slot : OldKeyOf(i)]_<<tableVars, writeVars>>
  <2> SUFFICES ASSUME ProcInv, [Next]_vars
               PROVE  \/ \A i \in Slot : OldKeyOf(i)
                      \/ UNCHANGED <<tableVars, writeVars>>
    OBVIOUS
  <2>1. ASSUME NEW c \in Client, Write(c) PROVE \A i \in Slot : OldKeyOf(i)
    BY <2>1, RespondOldKey DEF Write, ProcInv
  <2>2. CASE UNCHANGED wallet_table
    BY <2>2 DEF OldKeyOf
  <2>3. QED
    BY <2>1, <2>2 DEF Next, kwallet_read, kwallet_open, kwallet_release,
                      TakeResponse, CopyUnit, FinishRead, vars, respondVars, tableVars
<1>2. QED
  BY <1>1, ProcInvariant, PTL DEF Spec, OldKeyKnown, OldKeyOf
-----------------------------------------------------------------------------
\* /sys: what a file was given is as long as its offset, and as long as no
\* response was stored since it was at the start, it is the head of the one
\* that is there.
Unread == [part : Nat, of : Reply \cup {NoReply}]

LineLen(r) == IF IsLong(r) THEN 2 ELSE 1

GotInv ==
  /\ f_pos \in [Client -> 0..2]
  /\ got \in [Client -> Seq(Unread)]
  /\ eof \in [Client -> BOOLEAN]
  /\ unreplaced \in [Client -> BOOLEAN]
  /\ \A c \in Client :
       /\ Len(got[c]) = f_pos[c]
       /\ eof[c] => f_pos[c] # 0

HeadInv == \A c \in Client :
  unreplaced[c] /\ f_pos[c] # 0 =>
    \E r \in Reply :
       /\ Stored(r)
       /\ \A i \in 1..f_pos[c] : got[c][i] = [part |-> i, of |-> r]
       /\ f_pos[c] <= LineLen(r)
       /\ eof[c] => f_pos[c] = LineLen(r)

SysInv == RespondInv /\ GotInv /\ HeadInv

\* What a reader with the lock finds: the line of one response.
LEMMA FreeResponse ==
  ASSUME RespondInv, response_lock = None, response_ready
  PROVE  \E r \in Reply : /\ Stored(r)
                          /\ Strlen = LineLen(r)
                          /\ \A i \in 1..Strlen : global_response[i] = r
<1>1. PICK r \in Reply : Stored(r)
  BY DEF RespondInv, ResponseInv
<1>2. r # NoReply
  BY ReplyIsSome
<1>3. Strlen = LineLen(r)
  BY <1>1, <1>2 DEF Strlen, LineLen, Stored, Rest
<1>4. Strlen = 1 \/ (Strlen = 2 /\ global_response[2] = r)
  BY <1>1, <1>2 DEF Strlen, Stored, Rest
<1>5. \A i \in 1..Strlen : global_response[i] = r
  BY <1>1, <1>4 DEF Stored
<1>6. QED BY <1>1, <1>3, <1>5

\* What a piece appends.
LEMMA PieceAppended ==
  ASSUME RespondInv, GotInv, NEW c \in Client, response_lock = None,
         response_ready, NEW n \in 1..(Strlen - f_pos[c])
  PROVE  LET new == got[c] \o Piece(f_pos[c], n)
         IN /\ new \in Seq(Unread)
            /\ Len(new) = f_pos[c] + n
            /\ f_pos[c] + n \in 1..Strlen /\ f_pos[c] + n \in 1..2
            /\ \A i \in 1..(f_pos[c] + n) :
                 new[i] = IF i <= f_pos[c] THEN got[c][i]
                          ELSE [part |-> i, of |-> global_response[i]]
<1> DEFINE off == f_pos[c]
           p == Piece(off, n)
           new == got[c] \o p
<1>1. /\ Strlen \in Nat /\ off \in Nat /\ n \in Nat
      /\ n >= 1 /\ off + n <= Strlen /\ Strlen <= 2
  <2>1. (Strlen = 1 \/ Strlen = 2) /\ off \in Nat
    BY DEF Strlen, GotInv
  <2>2. QED BY <2>1
<1>2. got[c] \in Seq(Unread) /\ Len(got[c]) = off
  BY DEF GotInv
<1>3. PICK r \in Reply : \A i \in 1..Strlen : global_response[i] = r
  BY FreeResponse
<1>4. p = [i \in 1..n |-> [part |-> off + i, of |-> global_response[off + i]]]
  BY DEF Piece
<1> HIDE DEF off
<1>5. p \in Seq(Unread) /\ Len(p) = n
  <2>1. \A i \in 1..n : off + i \in 1..Strlen /\ off + i \in Nat
    BY <1>1
  <2>2. \A i \in 1..n : [part |-> off + i, of |-> global_response[off + i]] \in Unread
    BY <1>3, <2>1 DEF Unread
  <2>3. p \in [1..n -> Unread]
    BY <1>4, <2>2
  <2>4. p \in Seq(Unread)
    BY <1>1, <2>3, SeqDef
  <2>5. DOMAIN p = 1..n /\ Len(p) \in Nat /\ DOMAIN p = 1..Len(p)
    BY <2>3, <2>4, LenProperties
  <2>6. QED BY <1>1, <2>4, <2>5
<1> HIDE DEF p
<1>6. /\ new \in Seq(Unread) /\ Len(new) = off + n
      /\ \A i \in 1..(off + n) : new[i] = IF i <= off THEN got[c][i] ELSE p[i - off]
  BY <1>2, <1>5, ConcatProperties
<1>7. \A i \in 1..(off + n) : ~(i <= off) => p[i - off] = [part |-> i, of |-> global_response[i]]
  <2>1. SUFFICES ASSUME NEW i \in 1..(off + n), ~(i <= off)
                 PROVE  p[i - off] = [part |-> i, of |-> global_response[i]]
    OBVIOUS
  <2>2. i - off \in 1..n /\ off + (i - off) = i
    BY <1>1, <2>1
  <2>3. QED BY <1>4, <2>2
<1>8. off + n \in 1..Strlen /\ off + n \in 1..2
  BY <1>1
<1>9. QED BY <1>6, <1>7, <1>8 DEF p, off

\* One read() gives units of the response that is there, behind its offset.
LEMMA SysReadStep ==
  ASSUME SysInv, NEW c \in Client, sysfs_read(c)
  PROVE  /\ GotInv' /\ HeadInv' /\ UNCHANGED respondVars
         /\ \A d \in Client \ {c} : got'[d] = got[d]
         /\ \A i, j \in (Len(got[c]) + 1)..Len(got'[c]) : got'[c][i].of = got'[c][j].of
<1>1. /\ RespondInv /\ GotInv /\ HeadInv
      /\ response_lock = None /\ response_ready
      /\ UNCHANGED <<respondVars, unreplaced, global_response>>
  BY DEF SysInv, sysfs_read, respondVars, responseVars
<1>2. PICK r \in Reply : /\ Stored(r) /\ Strlen = LineLen(r)
                         /\ \A i \in 1..Strlen : global_response[i] = r
  BY <1>1, FreeResponse
<1>3. \A q : Stored(q)' <=> Stored(q)
  BY <1>1 DEF Stored, Rest, IsLong
<1>4. /\ Len(got[c]) = f_pos[c] /\ f_pos[c] \in Nat /\ f_pos[c] <= 2
      /\ LineLen(r) \in {1, 2}
  BY <1>1 DEF GotInv, LineLen
<1>5. CASE /\ f_pos[c] >= Strlen
           /\ eof' = [eof EXCEPT ![c] = TRUE]
           /\ UNCHANGED <<f_pos, got>>
  <2>1. GotInv'
    BY <1>1, <1>2, <1>4, <1>5 DEF GotInv
  <2>2. \A q : Stored(q) => q = r
    BY <1>2 DEF Stored
  <2>3. HeadInv'
    BY <1>1, <1>2, <1>3, <1>4, <1>5, <2>2 DEF HeadInv, GotInv, LineLen, IsLong
  <2>4. QED BY <1>1, <1>4, <1>5, <2>1, <2>3
<1>6. ASSUME NEW n \in 1..(Strlen - f_pos[c]),
             got' = [got EXCEPT ![c] = @ \o Piece(f_pos[c], n)],
             f_pos' = [f_pos EXCEPT ![c] = @ + n],
             UNCHANGED eof
      PROVE  /\ GotInv' /\ HeadInv'
             /\ \A d \in Client \ {c} : got'[d] = got[d]
             /\ \A i, j \in (Len(got[c]) + 1)..Len(got'[c]) :
                  got'[c][i].of = got'[c][j].of
  <2> DEFINE new == got[c] \o Piece(f_pos[c], n)
  <2>1. /\ new \in Seq(Unread) /\ Len(new) = f_pos[c] + n
        /\ f_pos[c] + n \in 1..Strlen /\ f_pos[c] + n \in 1..2
        /\ \A i \in 1..(f_pos[c] + n) :
             new[i] = IF i <= f_pos[c] THEN got[c][i]
                      ELSE [part |-> i, of |-> global_response[i]]
    BY <1>1, <1>6, PieceAppended
  <2> HIDE DEF new
  <2>2. /\ got' = [got EXCEPT ![c] = new]
        /\ got'[c] = new /\ f_pos'[c] = f_pos[c] + n
        /\ \A d \in Client \ {c} : got'[d] = got[d] /\ f_pos'[d] = f_pos[d]
    BY <1>1, <1>6 DEF GotInv, new
  <2>3. GotInv'
    <3>1. f_pos'[c] \in 0..2 /\ f_pos'[c] # 0 /\ Len(got'[c]) = f_pos'[c]
      BY <1>4, <2>1, <2>2
    <3>2. f_pos' \in [Client -> 0..2]
      BY <1>1, <1>6, <2>2, <3>1 DEF GotInv
    <3>3. got' \in [Client -> Seq(Unread)]
      BY <1>1, <2>1, <2>2 DEF GotInv
    <3>4. ASSUME NEW d \in Client
          PROVE  Len(got'[d]) = f_pos'[d] /\ (eof'[d] => f_pos'[d] # 0)
      BY <1>1, <1>6, <2>2, <3>1 DEF GotInv
    <3>5. QED BY <1>1, <1>6, <3>2, <3>3, <3>4 DEF GotInv
  <2>4. \A i \in 1..(f_pos[c] + n) :
          ~(i <= f_pos[c]) => new[i] = [part |-> i, of |-> r]
    <3>1. \A i \in 1..(f_pos[c] + n) : i \in 1..Strlen
      BY <1>2, <1>4, <2>1
    <3>2. QED BY <1>2, <2>1, <3>1
  <2>5. ASSUME unreplaced[c]
        PROVE  /\ f_pos'[c] <= LineLen(r)
               /\ ~eof[c]
               /\ \A i \in 1..f_pos'[c] : got'[c][i] = [part |-> i, of |-> r]
    <3>1. \A q : Stored(q) => q = r
      BY <1>2 DEF Stored
    <3>2. f_pos[c] # 0 =>
            /\ \A i \in 1..f_pos[c] : got[c][i] = [part |-> i, of |-> r]
            /\ eof[c] => f_pos[c] = Strlen
      BY <1>1, <1>2, <2>5, <3>1 DEF HeadInv
    <3>3. ~eof[c]
      BY <1>1, <1>2, <1>4, <1>6, <3>2 DEF GotInv
    <3>4. f_pos'[c] <= LineLen(r)
      BY <1>2, <1>4, <2>1, <2>2
    <3>5. ASSUME NEW i \in 1..f_pos'[c] PROVE got'[c][i] = [part |-> i, of |-> r]
      <4>1. i \in 1..(f_pos[c] + n)
        BY <2>2, <3>5
      <4>2. CASE i <= f_pos[c]
        <5>1. new[i] = got[c][i]
          BY <2>1, <4>1, <4>2
        <5>2. f_pos[c] # 0 /\ i \in 1..f_pos[c]
          BY <1>4, <4>1, <4>2
        <5>3. QED BY <2>2, <3>2, <5>1, <5>2
      <4>3. CASE ~(i <= f_pos[c])
        BY <2>2, <2>4, <4>1, <4>3
      <4>4. QED BY <4>2, <4>3
    <3>6. QED BY <3>3, <3>4, <3>5
  <2>6. HeadInv'
    <3>1. SUFFICES ASSUME NEW d \in Client, unreplaced'[d], f_pos'[d] # 0
                   PROVE  \E q \in Reply :
                            /\ Stored(q)
                            /\ \A i \in 1..f_pos'[d] : got'[d][i] = [part |-> i, of |-> q]
                            /\ f_pos'[d] <= LineLen(q)
                            /\ eof'[d] => f_pos'[d] = LineLen(q)
      BY <1>3 DEF HeadInv, LineLen, IsLong
    <3>2. CASE d = c
      BY <1>1, <1>2, <1>6, <2>5, <3>1, <3>2
    <3>3. CASE d # c
      <4>1. /\ unreplaced[d] /\ f_pos'[d] = f_pos[d] /\ got'[d] = got[d]
            /\ eof'[d] = eof[d]
        BY <1>1, <1>6, <2>2, <3>1, <3>3
      <4>2. QED BY <1>1, <3>1, <4>1 DEF HeadInv
    <3>4. QED BY <3>2, <3>3
  <2>7. \A i, j \in (Len(got[c]) + 1)..Len(got'[c]) : got'[c][i].of = got'[c][j].of
    <3>1. \A i \in (Len(got[c]) + 1)..Len(got'[c]) :
            i \in 1..(f_pos[c] + n) /\ ~(i <= f_pos[c])
      BY <1>4, <2>1, <2>2
    <3>2. ASSUME NEW i \in (Len(got[c]) + 1)..Len(got'[c])
          PROVE  got'[c][i].of = r
      <4>1. new[i] = [part |-> i, of |-> r]
        BY <2>4, <3>1
      <4>2. QED BY <2>2, <4>1
    <3>3. QED BY <3>2
  <2>8. QED BY <2>2, <2>3, <2>6, <2>7
<1>7. QED BY <1>1, <1>5, <1>6 DEF sysfs_read

\* A write() leaves a file that is being read what it was given, and marks it
\* when it stores another response.
LEMMA SysWriteStep ==
  ASSUME SysInv, NEW c \in Client, sysfs_write(c)
  PROVE  GotInv' /\ HeadInv'
<1>1. GotInv /\ HeadInv /\ UNCHANGED <<f_pos, got, eof>>
  BY DEF SysInv, sysfs_write
<1>2. GotInv'
  <2>1. unreplaced' \in [Client -> BOOLEAN]
    BY <1>1 DEF sysfs_write, GotInv
  <2>2. QED BY <1>1, <2>1 DEF GotInv
<1>3. \A d \in Client : unreplaced'[d] /\ f_pos[d] # 0 =>
        unreplaced[d] /\ UNCHANGED global_response
  BY DEF sysfs_write
<1>4. HeadInv'
  BY <1>1, <1>3 DEF HeadInv, Stored, Rest, LineLen, IsLong
<1>5. QED BY <1>2, <1>4

\* A file at its start was given nothing.
LEMMA RewindStep ==
  ASSUME SysInv, NEW c \in Client, Rewind(c)
  PROVE  /\ GotInv' /\ HeadInv'
         /\ \A d \in Client \ {c} : got'[d] = got[d]
         /\ got'[c] = <<>>
<1>1. GotInv /\ HeadInv /\ UNCHANGED respondVars
  BY DEF SysInv, Rewind
<1>2. <<>> \in Seq(Unread) /\ Len(<<>>) = 0
  BY EmptySeq
<1>3. GotInv' /\ got'[c] = <<>>
  BY <1>1, <1>2 DEF Rewind, GotInv
<1>4. HeadInv'
  BY <1>1 DEF Rewind, GotInv, HeadInv, Stored, Rest, LineLen, IsLong, respondVars,
              responseVars
<1>5. QED BY <1>1, <1>3, <1>4 DEF Rewind, GotInv

\* What holds between two steps of the /sys file, for every interleaving.
THEOREM SysInvariant == SysSpec => []SysInv
<1>1. SysInit => SysInv
  <2> SUFFICES ASSUME SysInit PROVE SysInv
    OBVIOUS
  <2>1. RespondInv
    BY RespondInvInit DEF SysInit
  <2>2. <<>> \in Seq(Unread) /\ Len(<<>>) = 0
    BY EmptySeq
  <2>3. GotInv /\ HeadInv
    BY <2>2 DEF SysInit, GotInv, HeadInv
  <2>4. QED BY <2>1, <2>3 DEF SysInv
<1>2. SysInv /\ [SysNext]_sysVars => SysInv'
  <2> SUFFICES ASSUME SysInv, [SysNext]_sysVars PROVE SysInv'
    OBVIOUS
  <2>1. RespondInv
    BY DEF SysInv
  <2>2. ASSUME NEW c \in Client, sysfs_write(c) PROVE SysInv'
    BY <2>1, <2>2, SysWriteStep, RespondWriteStep DEF sysfs_write, SysInv
  <2>3. ASSUME NEW c \in Client, sysfs_read(c) PROVE SysInv'
    BY <2>1, <2>3, SysReadStep, RespondStutter DEF SysInv
  <2>4. ASSUME NEW c \in Client, Rewind(c) PROVE SysInv'
    BY <2>1, <2>4, RewindStep, RespondStutter DEF Rewind, SysInv
  <2>5. CASE UNCHANGED sysVars
    <3>1. GotInv' /\ HeadInv'
      BY <2>5 DEF sysVars, fileVars, SysInv, GotInv, HeadInv, Stored, Rest, LineLen,
                  IsLong, respondVars, responseVars
    <3>2. QED BY <2>1, <2>5, <3>1, RespondStutter DEF sysVars, SysInv
  <2>6. QED BY <2>2, <2>3, <2>4, <2>5 DEF SysNext
<1>3. QED BY <1>1, <1>2, PTL DEF SysSpec

\* Who reads to the end in pieces, with no response stored since his first,
\* has one whole line and nothing else.
THEOREM ReadToEndCorrect == SysSpec => []ReadToEnd
<1>1. SysInv => ReadToEnd
  <2> SUFFICES ASSUME SysInv, NEW c \in Client, unreplaced[c], eof[c]
               PROVE  \E r \in Reply : got[c] = LineOf(r)
    BY DEF ReadToEnd
  <2>1. f_pos[c] # 0 /\ Len(got[c]) = f_pos[c] /\ got[c] \in Seq(Unread)
    BY DEF SysInv, GotInv
  <2>2. PICK r \in Reply : /\ \A i \in 1..f_pos[c] : got[c][i] = [part |-> i, of |-> r]
                           /\ f_pos[c] = LineLen(r)
    BY <2>1 DEF SysInv, HeadInv
  <2>3. got[c] \in [1..LineLen(r) -> Unread]
    BY <2>1, <2>2, LenProperties
  <2>4. got[c] = [i \in 1..LineLen(r) |-> [part |-> i, of |-> r]]
    BY <2>2, <2>3
  <2>5. QED BY <2>4 DEF LineOf, LineLen
<1>2. QED BY <1>1, SysInvariant, PTL

\* A piece never holds units of two responses.
THEOREM PieceIsOneCorrect == SysSpec => PieceIsOne
<1> DEFINE A == \A c \in Client : got'[c] # got[c] /\ got'[c] # <<>> =>
      \A i, j \in (Len(got[c]) + 1)..Len(got'[c]) : got'[c][i].of = got'[c][j].of
<1>1. SysInv /\ [SysNext]_sysVars => [A]_sysVars
  <2> SUFFICES ASSUME SysInv, SysNext PROVE A
    OBVIOUS
  <2>1. ASSUME NEW c \in Client, sysfs_read(c) PROVE A
    BY <2>1, SysReadStep
  <2>2. ASSUME NEW c \in Client, Rewind(c) PROVE A
    BY <2>2, RewindStep
  <2>3. ASSUME NEW c \in Client, sysfs_write(c) PROVE A
    BY <2>3 DEF sysfs_write
  <2>4. QED BY <2>1, <2>2, <2>3 DEF SysNext
<1>2. QED BY <1>1, SysInvariant, PTL DEF SysSpec, PieceIsOne

\* The variables of the /sys file have their types.
THEOREM SysTypeCorrect == SysSpec => []SysTypeOK
<1>1. SysInv => SysTypeOK
  BY DEF SysInv, RespondInv, GotInv, SysTypeOK
<1>2. QED BY <1>1, SysInvariant, PTL

\* A client of the /sys file whose write() nobody overlapped or followed finds
\* its own answer.
THEOREM SysSoloAnswer == SysSpec => []SoloAnswer
<1>1. SysInv => SoloAnswer
  BY DEF SysInv, RespondInv, SoloInv, SoloAnswer, Stored, Rest
<1>2. QED BY <1>1, SysInvariant, PTL

\* The writers of the /sys file implement the abstract wallet.
THEOREM SysImplementsMap == SysSpec => MapSpec
<1>1. SysInit => TableInit
  BY DEF SysInit, RespondInit
<1>2. SysInv /\ [SysNext]_sysVars => [TableNext]_tableVars
  <2> SUFFICES ASSUME RespondInv, [SysNext]_sysVars PROVE [TableNext]_tableVars
    BY DEF SysInv
  <2>1. ASSUME NEW c \in Client, sysfs_write(c) PROVE [TableNext]_tableVars
    BY <2>1, RespondWriteStep DEF sysfs_write
  <2>2. CASE UNCHANGED respondVars
    BY <2>2, RespondStutter
  <2>3. QED BY <2>1, <2>2 DEF SysNext, Rewind, sysfs_read, sysVars
<1>3. SysSpec => TableSpec
  BY <1>1, <1>2, SysInvariant, PTL DEF SysSpec, TableSpec
<1>4. QED BY <1>3, TableImplementsMap
=============================================================================
