--------------------------- MODULE MCObjectGraph ---------------------------
(***************************************************************************)
(* ObjectGraph on small graphs.                                            *)
(***************************************************************************)
EXTENDS ObjectGraph, TLC

CONSTANTS x, y, p, h, g

ChunkSymmetry == Permutations(Chunks)
MergeGraphs == [tensor |-> 2, checkpoint |-> 2, commit |-> 3]
=============================================================================
