----------------------------- MODULE KWalletSys -----------------------------
(***************************************************************************)
(* /sys/kwallet/kwallet (hw4): a command that fails stores a response too, *)
(* and read() gives the response to whoever asks, as often as he asks,     *)
(* from the offset of his file on.  A reader that takes it in pieces comes *)
(* back with that offset to a response that may have been replaced.        *)
(***************************************************************************)
EXTENDS WalletRespond, Sequences

VARIABLES f_pos,            \* units of the response that the file is past
          got,              \* what it was given since it was at 0
          eof,              \* its last read() returned 0
          unreplaced        \* history: no response was stored since it was at 0

fileVars == <<f_pos, got, eof, unreplaced>>
sysVars == <<respondVars, fileVars>>

SysInit == /\ RespondInit
           /\ f_pos = [c \in Client |-> 0]
           /\ got = [c \in Client |-> <<>>]
           /\ eof = [c \in Client |-> FALSE]
           /\ unreplaced = [c \in Client |-> TRUE]

\* lseek to the start, or close and open (the driver keeps nothing of a file).
Rewind(c) == /\ pc[c] = "idle" /\ f_pos[c] # 0
             /\ f_pos' = [f_pos EXCEPT ![c] = 0]
             /\ got' = [got EXCEPT ![c] = <<>>]
             /\ eof' = [eof EXCEPT ![c] = FALSE]
             /\ unreplaced' = [unreplaced EXCEPT ![c] = TRUE]
             /\ UNCHANGED respondVars

\* kernfs calls kwallet_write and moves the offset of the file by what it
\* consumed, so that a file that is read after it was written was rewound
\* first: a client writes with one open file and reads with the next, as
\* kwallet_cli.py does.
sysfs_write(c) ==
  /\ kwallet_write(c)
  /\ f_pos[c] = 0
  /\ unreplaced' = [d \in Client |->
       unreplaced[d] /\ (f_pos[d] # 0 => UNCHANGED global_response)]
  /\ UNCHANGED <<f_pos, got, eof>>

\* Mutant: memcpy starts from the head of the response.
Piece_FromHead(off, n) == [i \in 1..n |-> [part |-> i, of |-> global_response[i]]]

\* The n units of the response behind off.
Piece(off, n) == [i \in 1..n |-> [part |-> off + i, of |-> global_response[off + i]]]

\* Mutant: read() does not take response_lock.
sysfs_read_Unlocked(c) ==
  /\ pc[c] = "idle"
  /\ response_ready
  /\ IF f_pos[c] >= Strlen
     THEN /\ eof' = [eof EXCEPT ![c] = TRUE]
          /\ UNCHANGED <<f_pos, got>>
     ELSE \E n \in 1..(Strlen - f_pos[c]) :
            /\ got' = [got EXCEPT ![c] = @ \o Piece(f_pos[c], n)]
            /\ f_pos' = [f_pos EXCEPT ![c] = @ + n]
            /\ UNCHANGED eof
  /\ UNCHANGED <<respondVars, unreplaced>>

\* kwallet_read, with response_lock held from the first look at the response
\* to the end of the copy: as much as is asked for and there is, or 0.
sysfs_read(c) ==
  /\ pc[c] = "idle"
  /\ response_lock = None
  /\ response_ready
  /\ IF f_pos[c] >= Strlen
     THEN /\ eof' = [eof EXCEPT ![c] = TRUE]
          /\ UNCHANGED <<f_pos, got>>
     ELSE \E n \in 1..(Strlen - f_pos[c]) :
            /\ got' = [got EXCEPT ![c] = @ \o Piece(f_pos[c], n)]
            /\ f_pos' = [f_pos EXCEPT ![c] = @ + n]
            /\ UNCHANGED eof
  /\ UNCHANGED <<respondVars, unreplaced>>

SysNext == \E c \in Client : Rewind(c) \/ sysfs_write(c) \/ sysfs_read(c)

SysSpec == SysInit /\ [][SysNext]_sysVars
-----------------------------------------------------------------------------
\* The line of a response as a reader should get it.
LineOf(r) == [i \in 1..(IF IsLong(r) THEN 2 ELSE 1) |-> [part |-> i, of |-> r]]

\* The variables of the /sys file have their types.
SysTypeOK ==
  /\ RespondTypeOK
  /\ f_pos \in [Client -> 0..2]
  /\ \A c \in Client : Len(got[c]) = f_pos[c]
  /\ eof \in [Client -> BOOLEAN]
  /\ unreplaced \in [Client -> BOOLEAN]

\* Who reads to the end in pieces, with no response stored since his first,
\* has one whole line and nothing else: "multiple reads return the same data
\* until the next write".
ReadToEnd == \A c \in Client :
  unreplaced[c] /\ eof[c] => \E r \in Reply : got[c] = LineOf(r)

\* A piece never holds units of two responses, although its reader comes back
\* to a response that was replaced: pieces are copied under response_lock.
PieceIsOne == [][\A c \in Client : got'[c] # got[c] /\ got'[c] # <<>> =>
  \A i, j \in (Len(got[c]) + 1)..Len(got'[c]) : got'[c][i].of = got'[c][j].of]_sysVars
=============================================================================
