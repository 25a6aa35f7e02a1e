---------------------------- MODULE MCChunkCache ----------------------------
(***************************************************************************)
(* ChunkCache on small instances.                                          *)
(***************************************************************************)
EXTENDS ChunkCache, TLC

CONSTANTS t1, t2, a, b, c

\* Two chunks that do not fit together, and one that never fits.
Sizes == a :> 2 @@ b :> 1 @@ c :> 3

\* Reads of one chunk, of two, and of one that is never cached.
Spanning == {<<a>>, <<b, a>>, <<c>>}
=============================================================================
