----------------------------- MODULE MCKWalletDev -----------------------------
(***************************************************************************)
(* Two files, two keys and one slot: both writers can race for the slot or *)
(* for the key, and a reader can meet either of their responses.           *)
(***************************************************************************)
EXTENDS KWalletDev

CONSTANTS k1, k2, p1, f1, f2

MCKeyId == {k1, k2}
MCPrivKey == {p1}
MCClient == {f1, f2}
MCTruncated == [k \in MCKeyId |-> k]

\* One buffer, of WALLET_LINE_MAX bytes, that a listing fits in.
MCBufSize == {8}
=============================================================================
