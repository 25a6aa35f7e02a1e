------------------------------ MODULE MCVerify ------------------------------
(***************************************************************************)
(* Verify on small histories.                                              *)
(***************************************************************************)
EXTENDS Verify, TLC

CONSTANTS x, p, h, v1, v2

\* Two tensors, which may share the chunk or rest one on the other, and two
\* commits, of which either or both are tips.
SharedTensors == [tensor |-> 2, checkpoint |-> 1, commit |-> 2]

VersionSymmetry == Permutations({v1, v2})
=============================================================================
