--------------------------- MODULE MCKWalletIoctl ---------------------------
(***************************************************************************)
(* Two callers, two slots, and three words of which two are one key when   *)
(* they are cut to 31 bytes.                                               *)
(***************************************************************************)
EXTENDS KWalletIoctl, TLC

CONSTANTS k1, k2, long1, p1, p2, c1, c2

MCKeyId == {k1, k2, long1}
MCPrivKey == {p1, p2}
MCClient == {c1, c2}
MCTruncated == [k \in MCKeyId |-> IF k = long1 THEN k1 ELSE k]

\* Lines of 2 bytes and "(empty)\n" of 3: buffers too small for one line, for
\* two lines, and large enough for all.
MCBufSize == {2, 3, 6}

Symmetric == Permutations(MCPrivKey) \cup Permutations(MCClient)
=============================================================================
