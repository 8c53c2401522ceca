---------------------------- MODULE PasswordBook ----------------------------
(***************************************************************************)
(* What the password manager (1_semester/hw6) promises whichever container *)
(* it keeps its pairs in: a sequence of pairs to which add appends, from   *)
(* which rm takes every pair of a key, and which list and find only read.  *)
(* What a command prints is the sequence shown; a container may print from *)
(* its oldest pair or from its newest one.                                 *)
(***************************************************************************)
EXTENDS PasswordPair, SequencesExt

VARIABLES pairs,            \* the pairs kept, oldest first
          shown             \* the pairs the last command printed something of

bookVars == <<pairs, shown>>

\* The pairs of s that have the key line, and those that have not.
With(s, line) == Picked(s, {i \in DOMAIN s : s[i].first = line})
Without(s, line) == Picked(s, {i \in DOMAIN s : s[i].first # line})

Prints(s) == shown' \in {s, Reverse(s)}

BookInit == pairs = <<>> /\ shown = <<>>

BookAdd(pair) == pairs' = Append(pairs, pair) /\ shown' = <<>>

BookRm(line) == pairs' = Without(pairs, line) /\ Prints(With(pairs, line))

BookList == Prints(pairs) /\ UNCHANGED pairs

BookFind(line) == Prints(With(pairs, line)) /\ UNCHANGED pairs

BookNext == \/ \E pair \in Pair : BookAdd(pair)
            \/ \E line \in Key : BookRm(line) \/ BookFind(line)
            \/ BookList

BookSpec == BookInit /\ [][BookNext]_bookVars
=============================================================================
