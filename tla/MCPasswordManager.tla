------------------------- MODULE MCPasswordManager -------------------------
(***************************************************************************)
(* Two keys and two values, up to four pairs: the stack's buffer is        *)
(* allocated for two pairs and doubled twice, the list has matches of an   *)
(* rm at its ends, in the middle and side by side.                         *)
(***************************************************************************)
EXTENDS PasswordManager, TLC

CONSTANTS n1, n2, n3, n4, a, b, u, v

MCNode == {n1, n2, n3, n4}
MCKey == {a, b}
MCValue == {u, v}

Symmetric == Permutations(MCNode) \cup Permutations(MCKey) \cup Permutations(MCValue)
=============================================================================
