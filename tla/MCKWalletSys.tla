---------------------------- MODULE MCKWalletSys ----------------------------
(***************************************************************************)
(* Two clients, one slot and two keys: one client reads in pieces while    *)
(* the other stores short and long responses.                              *)
(***************************************************************************)
EXTENDS KWalletSys, TLC

CONSTANTS k1, k2, p1, f1, f2

MCKeyId == {k1, k2}
MCPrivKey == {p1}
MCClient == {f1, f2}
MCTruncated == [k \in MCKeyId |-> k]
MCBufSize == {8}

Symmetric == Permutations(MCKeyId) \cup Permutations(MCClient)
=============================================================================
