---------------------------- MODULE ObjectGraph ----------------------------
(***************************************************************************)
(* The objects of a repository as a graph, grown in the order the writers  *)
(* store them, and the walk of spp's sender, which lists what a branch     *)
(* needs.  Chunks, headers, permutations and configs are leaves.           *)
(***************************************************************************)
EXTENDS Naturals, Sequences, SequencesExt

CONSTANTS Chunks, Perms, Headers, Configs,
          Absent,    \* a null field
          Most       \* bound: how many manifests and commits of each kind

Leaves == Chunks \cup Perms \cup Headers \cup Configs

ASSUME GraphAssumption == /\ Absent \notin Leaves \cup Nat
                          /\ Leaves \cap Nat = {}
                          /\ Most \in [{"tensor", "checkpoint", "commit"} -> Nat]

\* The n-th manifest or commit that was stored is the object n.
VARIABLE nodes

Objects == Leaves \cup DOMAIN nodes
Kind(kind) == {n \in DOMAIN nodes : nodes[n].kind = kind}

Init == nodes = <<>>

\* Every graph can be numbered tensors first and commits last.
Store(node, later) == /\ Cardinality(Kind(node.kind)) < Most[node.kind]
                      /\ \A kind \in later : Kind(kind) = {}
                      /\ nodes' = Append(nodes, node)

\* A tensor manifest: the chunks, and for a residual its base and permutations.
PutTensor ==
    \E base \in Kind("tensor") \cup {Absent}, row, col \in Perms \cup {Absent},
       chunk \in Chunks :
          /\ base = Absent => row = Absent /\ col = Absent
          /\ Store([kind |-> "tensor", base |-> base, row |-> row, col |-> col,
                    chunks |-> <<chunk>>], {"checkpoint", "commit"})

\* A checkpoint manifest: header, config if one was given, tensors.
PutCheckpoint ==
    \E header \in Headers, config \in Configs \cup {Absent},
       tensors \in SetToAllKPermutations(Kind("tensor")) :
          Store([kind |-> "checkpoint", header |-> header, config |-> config,
                 tensors |-> tensors], {"commit"})

PutCommit ==
    \E checkpoint \in Kind("checkpoint"), parents \in SetToAllKPermutations(Kind("commit")) :
          /\ Len(parents) <= 2
          /\ Store([kind |-> "commit", checkpoint |-> checkpoint, parents |-> parents], {})

Next == PutTensor \/ PutCheckpoint \/ PutCommit
Spec == Init /\ [][Next]_nodes

-----------------------------------------------------------------------------
(* The walk.  A list is extended in place; HashList keeps it without       *)
(* repetitions.                                                            *)

Insert(list, o) == IF o = Absent \/ Contains(list, o) THEN list ELSE Append(list, o)
InsertAll(list, objects) == FoldLeft(Insert, list, objects)

\* A walk from each of some objects, in their order.
WalkEach(walk, list, objects) == FoldLeft(LAMBDA l, n : walk[n][l], list, objects)

\* tensor_get_objects: the base's objects, then the tensor's own leaves.
\* Faulty: the column permutation is forgotten.
LeavesWithoutCol(t) == <<t.row>> \o t.chunks
LeavesOf(t) == <<t.row, t.col>> \o t.chunks

TensorWalk ==
    LET walk[n \in Kind("tensor")] == [l \in Seq(Objects) |->
            IF Contains(l, n) THEN l
            ELSE LET below == IF nodes[n].base = Absent THEN l ELSE walk[nodes[n].base][l]
                 IN  Insert(InsertAll(below, LeavesOf(nodes[n])), n)]
    IN  walk

\* checkpoint_get_objects.
\* Faulty: the config is not sent, as once was the case.
HeaderOnly(k) == <<k.header>>
HeaderAndConfig(k) == <<k.header, k.config>>

CheckpointWalk(list, n) ==
    IF Contains(list, n) THEN list
    ELSE LET own == InsertAll(list, HeaderAndConfig(nodes[n]))
         IN  Insert(WalkEach(TensorWalk, own, nodes[n].tensors), n)

\* commit_get_objects: the checkpoint, every parent, and the commit last.
\* Faulty: a commit is listed before its parents.
CommitFirst(l, n, parents) == parents[Insert(l, n)]
CommitLast(l, n, parents) == Insert(parents[l], n)

CommitWalk ==
    LET walk[n \in Kind("commit")] == [l \in Seq(Objects) |->
            IF Contains(l, n) THEN l
            ELSE CommitLast(CheckpointWalk(l, nodes[n].checkpoint), n,
                            [m \in Seq(Objects) |-> WalkEach(walk, m, nodes[n].parents)])]
    IN  walk

\* branch_get_objects
Walk(tip) == CommitWalk[tip][<<>>]

-----------------------------------------------------------------------------
(* What the receiver relies on.                                            *)

Fields(node) ==
    CASE node.kind = "tensor" -> {node.base, node.row, node.col} \cup Range(node.chunks)
      [] node.kind = "checkpoint" -> {node.header, node.config} \cup Range(node.tensors)
      [] OTHER -> {node.checkpoint} \cup Range(node.parents)

\* The objects an object names.
Names(o) == IF o \in Leaves THEN {} ELSE Fields(nodes[o]) \ {Absent}

Reachable(tip) ==
    LET within[n \in 0..Len(nodes)] ==
            IF n = 0 THEN {tip}
            ELSE LET s == within[n - 1] IN s \cup UNION {Names(o) : o \in s}
    IN  within[Len(nodes)]

\* The list is complete: a commit's list holds all it leads to and no more
\* ("a pull then landed a repo that `verify` rejected", push.cpp:148-152).
WalkIsComplete == \A c \in Kind("commit") : Range(Walk(c)) = Reachable(c)

\* The list can be installed in order: no object comes twice, none before
\* what it names, and the tip is the last (pull.cpp:74-75).
WalkIsPostOrder ==
    \A c \in Kind("commit") :
        LET list == Walk(c)
        IN  /\ list[Len(list)] = c
            /\ \A i \in DOMAIN list : Names(list[i]) \subseteq {list[j] : j \in 1..(i - 1)}
            /\ \A i, j \in DOMAIN list : list[i] = list[j] => i = j
=============================================================================
