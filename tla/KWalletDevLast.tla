--------------------------- MODULE KWalletDevLast ---------------------------
(***************************************************************************)
(* The char device with a history variable: the reply of the command that  *)
(* ran last, a refused one included.                                       *)
(***************************************************************************)
EXTENDS KWalletDev

VARIABLE last_reply

InitLast == Init /\ last_reply = NoReply

Answered(c) == reply[c] = NoReply /\ reply'[c] # NoReply

NextLast ==
  /\ Next
  /\ \/ \E c \in Client : Answered(c) /\ last_reply' = reply'[c]
     \/ (\A c \in Client : ~Answered(c)) /\ UNCHANGED last_reply

SpecLast == InitLast /\ [][NextLast]_<<vars, last_reply>>

\* The header of the driver: "read() returns: the response of the last
\* command".  While no command is in progress, the response that a read()
\* would take is the reply of the last command that ran.
ReadsLastCommand ==
  response_ready /\ (\A c \in Client : ~Writing(c)) => pending_response = last_reply
=============================================================================
