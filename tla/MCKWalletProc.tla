---------------------------- MODULE MCKWalletProc ----------------------------
(***************************************************************************)
(* Two files, one slot and two keys, as for the char device, and two       *)
(* private keys, so that a CHANGE changes something.                       *)
(***************************************************************************)
EXTENDS KWalletProc, TLC

CONSTANTS k1, k2, p1, p2, f1, f2

MCKeyId == {k1, k2}
MCPrivKey == {p1, p2}
MCClient == {f1, f2}
MCTruncated == [k \in MCKeyId |-> k]
MCBufSize == {8}

Symmetric == Permutations(MCKeyId) \cup Permutations(MCPrivKey)
             \cup Permutations(MCClient)
=============================================================================
