---------------------------- MODULE MCSocketChat ----------------------------
(***************************************************************************)
(* Three peers, so that one can meddle with the other two, and two keys.   *)
(***************************************************************************)
EXTENDS SocketChat, TLC

CONSTANTS A, B, C, k1, k2, short, long

MCPeer == {A, B, C}
MCCryptoKey == {k1, k2}
MCMsg == {short, long}
MCSize == (short :> 1) @@ (long :> 2) @@ (Garbage :> 1)

Symmetric == Permutations(MCPeer) \cup Permutations(MCCryptoKey)
=============================================================================
