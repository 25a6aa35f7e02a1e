----------------------------- MODULE MCTransfer -----------------------------
(***************************************************************************)
(* Transfer on small instances, its listings made by the walk of           *)
(* ObjectGraph.                                                            *)
(***************************************************************************)
EXTENDS Transfer, TLC

CONSTANTS A, B, C, p, q, main, h

\* A header h, a checkpoint 1, a root commit 2 and two commits on it.
Nodes == <<[kind |-> "checkpoint", header |-> h, config |-> NoFile, tensors |-> <<>>],
           [kind |-> "commit", checkpoint |-> 1, parents |-> <<>>],
           [kind |-> "commit", checkpoint |-> 1, parents |-> <<2>>],
           [kind |-> "commit", checkpoint |-> 1, parents |-> <<2>>]>>

Graph == INSTANCE ObjectGraph
            WITH nodes <- Nodes, Chunks <- {}, Perms <- {}, Headers <- {h}, Configs <- {},
                 Absent <- NoFile, Most <- [k \in {"tensor", "checkpoint", "commit"} |-> 3]

Hashes == Graph!Objects
Parsed == DOMAIN Nodes
Commits == {2, 3, 4}
Named == [o \in Hashes |-> Graph!Names(o)]
Walked == [t \in Commits |-> Graph!Walk(t)]

AtA == [c \in Clients |-> A]
AtAAndC == (p :> A @@ q :> C)

Command(op, from, to) == [op |-> op, from |-> from, to |-> to, br |-> main]
PullAndPush == {Command("pull", p, B), Command("push", p, C), Command("push", q, B)}
PullsAndPush == {Command("pull", p, B), Command("pull", q, B), Command("push", p, B)}

Heads(a, b, c) ==
    [r \in Repos |-> [n \in {main} |-> CASE r = A -> a [] r = B -> b [] OTHER -> c]]

\* B and C went different ways; C is ahead; B has no such branch yet.
Diverged == {Heads(NoFile, 3, 4), Heads(2, 2, 3), Heads(2, NoFile, 3)}
Behind == {Heads(2, 3, NoFile)}

CommitsAtA == {<<A, main, 4>>}
CommitsAtB == {<<B, main, 3>>}
=============================================================================
