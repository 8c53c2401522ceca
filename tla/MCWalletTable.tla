---------------------------- MODULE MCWalletTable ----------------------------
(***************************************************************************)
(* Three slots, so that a freed slot may lie before, between or behind     *)
(* occupied ones, and three keys, one of which is cut down to another.     *)
(* One caller: a command is one step here, interleavings are the drivers'. *)
(***************************************************************************)
EXTENDS WalletTable, TLC

CONSTANTS k1, k2, long1, p1, p2, c1

MCKeyId == {k1, k2, long1}
MCPrivKey == {p1, p2}
MCClient == {c1}
MCTruncated == [k \in MCKeyId |-> IF k = long1 THEN k1 ELSE k]

\* Lines of 2 bytes: a buffer for no whole line, for one, and for all.
MCBufSize == {2, 4, 8}

Symmetric == Permutations(MCPrivKey)
=============================================================================
