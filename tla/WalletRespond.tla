---------------------------- MODULE WalletRespond ----------------------------
(***************************************************************************)
(* kwallet_write of the /proc and /sys modules to its return: the reply of *)
(* a command, or the "-1 errno" line of out_err, is stored for readers     *)
(* under response_lock, after wallet_lock was released.                    *)
(*                                                                         *)
(* The buffer is two units here, each stored in a step of its own, so that *)
(* who looks at it without the lock may find it half replaced.             *)
(***************************************************************************)
EXTENDS WalletWrite

VARIABLES global_response,  \* its two units; NoReply stands for the NUL
          response_ready,
          response_lock,    \* the client that holds it, or None
          solo,             \* history: the client whose write() nobody else's
                            \* has overlapped or followed, and its reply
          solo_reply

responseVars == <<global_response, response_ready, response_lock>>
soloVars == <<solo, solo_reply>>
respondVars == <<tableVars, writeVars, responseVars, soloVars>>

Unit == {1, 2}

\* The lines of READ and READALL are longer than the others.
IsLong(r) == r \in [key_id : KeyId, priv_key : PrivKey]
                   \cup [entries : SUBSET Entry, cut : BOOLEAN]

RespondInit == /\ TableInit
               /\ WriteInit
               /\ global_response = [u \in Unit |-> NoReply]
               /\ response_ready = FALSE
               /\ response_lock = None
               /\ solo = None
               /\ solo_reply = NoReply

BeginLine(c, l) ==
  /\ WriteBegin(c, l)
  /\ solo' = IF \E d \in Client : Writing(d) THEN None ELSE c
  /\ solo_reply' = NoReply
  /\ UNCHANGED responseVars

WaitForWallet(c) == Lock(c) /\ UNCHANGED <<responseVars, soloVars>>

\* The command of c runs, and its reply is known.
RunCommand(c) ==
  /\ Search(c) \/ Execute(c)
  /\ solo_reply' = IF solo = c THEN reply'[c] ELSE solo_reply
  /\ UNCHANGED <<responseVars, solo>>

\* Mutant: out_err stores nothing over the response there is.
BeginStore_SkipsFailure(c) ==
  /\ pc[c] = "done"
  /\ response_lock = None
  /\ response_lock' = c
  /\ global_response' = [global_response EXCEPT
                           ![1] = IF IsFailure(reply[c]) THEN @ ELSE reply[c]]
  /\ Goto(c, "storing")
  /\ UNCHANGED <<tableVars, wallet_lock, cmd, idx, response_ready, soloVars>>

\* mutex_lock(&response_lock), and the first unit of the line.
BeginStore(c) ==
  /\ pc[c] = "done"
  /\ response_lock = None
  /\ response_lock' = c
  /\ global_response' = [global_response EXCEPT ![1] = reply[c]]
  /\ Goto(c, "storing")
  /\ UNCHANGED <<tableVars, wallet_lock, cmd, idx, response_ready, soloVars>>

\* The rest of the line: a short one ends with a NUL in the second unit.
FinishStore(c) ==
  /\ pc[c] = "storing"
  /\ global_response' = [global_response EXCEPT
                           ![2] = IF IsLong(reply[c]) THEN reply[c] ELSE NoReply]
  /\ response_ready' = TRUE
  /\ response_lock' = None
  /\ WriteReturn(c)
  /\ UNCHANGED soloVars

kwallet_write(c) == \/ \E l \in Line : BeginLine(c, l)
                    \/ WaitForWallet(c)
                    \/ RunCommand(c)
                    \/ BeginStore(c)
                    \/ FinishStore(c)

Strlen == IF global_response[2] = NoReply THEN 1 ELSE 2
-----------------------------------------------------------------------------
\* The variables of the write path and of the response have their types.
RespondTypeOK ==
  /\ WriteTypeOK
  /\ global_response \in [Unit -> Reply \cup {NoReply}]
  /\ response_ready \in BOOLEAN
  /\ response_lock \in Client \cup {None}
  /\ solo \in Client \cup {None}
  /\ solo_reply \in Reply \cup {NoReply}

\* A client whose write() nobody overlapped, and that nobody's has followed,
\* finds its own answer to read, be it a success or a failure: what
\* kwallet_cli.py relies on when it writes, closes, opens and reads.
SoloAnswer ==
  solo # None /\ ~Writing(solo) =>
    /\ response_ready
    /\ global_response[1] = solo_reply
    /\ global_response[2] = IF IsLong(solo_reply) THEN solo_reply ELSE NoReply
=============================================================================
