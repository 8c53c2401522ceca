-------------------------- MODULE MCKWalletDevLast --------------------------
(***************************************************************************)
(* The bounds of MCKWalletDev.                                             *)
(***************************************************************************)
EXTENDS KWalletDevLast

CONSTANTS k1, k2, p1, f1, f2

MCKeyId == {k1, k2}
MCPrivKey == {p1}
MCClient == {f1, f2}
MCTruncated == [k \in MCKeyId |-> k]
MCBufSize == {8}
=============================================================================
