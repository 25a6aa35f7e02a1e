---------------------------- MODULE MCRepository ----------------------------
(***************************************************************************)
(* Repository on small instances.                                          *)
(***************************************************************************)
EXTENDS Repository, TLC

CONSTANTS p1, p2, main, dev, a, b, v, w, x, y

OneTensor == <<a>>
TwoTensors == <<a, b>>

\* Checkpoints of one tensor: two versions.
OneTensorFiles == {[t \in {a} |-> v], [t \in {a} |-> w]}

\* One checkpoint, committed again and again.
OneFile == {[t \in {a} |-> v]}

\* Checkpoints in which two tensors never share a content; one lacks a tensor.
DistinctFiles == {a :> v @@ b :> x, a :> w @@ b :> y, a :> w}

\* Two tensors that become equal.
ConvergingFiles == {a :> x @@ b :> v, a :> w @@ b :> w}

RefCommands == {"commit", "merge", "branch", "branch -d", "branch -m", "checkout"}
StoreCommands == {"commit", "commit --base", "merge"}
BaseCommands == {"commit", "commit --base"}
CommitOnly == {"commit"}
RenameCommands == {"commit", "branch -m"}

\* The steps after which a dead command has left something behind.
Writing == {"write", "ref", "unlink", "rereadHead", "reattach"}
Naming == {"ref", "unlink", "rereadHead", "reattach"}

ProcSymmetry == Permutations(Procs)
=============================================================================
