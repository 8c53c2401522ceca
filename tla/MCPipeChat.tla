----------------------------- MODULE MCPipeChat -----------------------------
(***************************************************************************)
(* Two peers, a message that fills a read and one that fills half of it,   *)
(* and pipes that hold two reads: two short messages meet in one read, a   *)
(* short and a long one cut each other, a pipe can be too full to write.   *)
(***************************************************************************)
EXTENDS PipeProgram, TLC

CONSTANTS A, B, short, long

MCPeer == {A, B}
MCMsg == {short, long}
MCTyped == A :> 3 @@ B :> 1
MCDialog == {<<short, long, long, long, long, long>>, <<long, short, short, long, long, long>>}
MCSize == short :> 1 @@ long :> 2 @@ Garbage :> 1
=============================================================================
