----------------------------- MODULE MCPrograms -----------------------------
(***************************************************************************)
(* Each of the four drivers, two files, and two majors whose low bytes     *)
(* differ; inputs of up to seven bytes, one of them negative as a char, and *)
(* a first buffer of two; two users of a path; a signal of each default,   *)
(* in the order of their numbers; texts at both ends of the range; two     *)
(* lines logged in three seconds: two runs in one of them and one after it.*)
(***************************************************************************)
EXTENDS Programs, TLC

CONSTANTS f1, f2, u1, u2

MCFile == {f1, f2}
MCMajor == {240, 511}
MCContent == UNION {[1..len -> {1, 127, 200}] : len \in 0..7}
MCUser == {u1, u2}
MCDefault == <<"end", "end", "uncatchable", "ignore", "continue", "uncatchable",
               "stop", "unnamed", "end">>
MCTyped == 1..34 \cup 4060..4100
=============================================================================
