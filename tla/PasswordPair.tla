---------------------------- MODULE PasswordPair ----------------------------
(***************************************************************************)
(* A pair of the password manager: pair_of_str_t, with strings that are    *)
(* compared and never looked into.                                         *)
(***************************************************************************)
EXTENDS Naturals, Sequences, FiniteSets

CONSTANTS Key, Value

Pair == [first : Key, second : Value]

\* The commands that go through all the pairs.
Command == {"LIST_PASSWORDS", "REMOVE_PASSWORD", "FIND_BY_KEY"}

\* What s has at the positions S, in its order: SelectSeq without its recursion,
\* of which nothing can be proved.
Picked(s, S) == [j \in 1..Cardinality(S) |->
                   s[CHOOSE i \in S : Cardinality({k \in S : k <= i}) = j]]
=============================================================================
