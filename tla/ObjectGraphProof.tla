------------------------- MODULE ObjectGraphProof -------------------------
(***************************************************************************)
(* Proofs about ObjectGraph, for any objects and bounds: the list that the *)
(* walk of spp's sender makes for a commit is all the commit leads to and  *)
(* no more, and each object in it comes once, behind all it names.         *)
(*                                                                         *)
(* The graph is acyclic because an object names older ones (GraphInv), so  *)
(* the recursive walks exist and are the functions their equations say.    *)
(* A walk extends any list that can be installed in order to one that can, *)
(* by what its object leads to (Done); the steps of one walk after another *)
(* compose (Grows).                                                        *)
(***************************************************************************)
EXTENDS ObjectGraph, NumberInduction, FiniteSetTheorems, SequenceTheorems

-----------------------------------------------------------------------------
(* Recursion: over a set of numbers, each from smaller ones, and along a   *)
(* sequence.                                                               *)

\* The greatest number of a set.
LEMMA MaxIs ==
    ASSUME NEW t \in SUBSET Nat, NEW k \in t, \A i \in t : i <= k
    PROVE  Max(t) = k
  <1>1. \A x, y \in t : (x >= y /\ y >= x) => x = y
    OBVIOUS
  <1>2. \A y \in t : k >= y
    OBVIOUS
  <1>3. Max(t) \in t /\ \A y \in t : Max(t) >= y
    BY <1>2 DEF Max
  <1>. QED
    BY <1>1, <1>2, <1>3

LEMMA MaxOfSome ==
    ASSUME NEW n \in Nat, NEW t \in SUBSET (1..n), t # {}
    PROVE  Max(t) \in t
  <1>. DEFINE above == {k \in Nat : \A i \in t : i <= k}
  <1>1. n \in above
    OBVIOUS
  <1>2. PICK k \in above : \A j \in above : k <= j
    BY <1>1, LeastNumber
  <1>3. k \in t
    <2>1. ASSUME k \notin t
          PROVE  k - 1 \in above
      <3>1. PICK i \in t : TRUE
        OBVIOUS
      <3>2. \A j \in t : j \in Nat /\ j >= 1 /\ j <= k /\ j # k
        BY <2>1
      <3>. QED
        BY <3>1, <3>2
    <2>2. ~(k <= k - 1)
      OBVIOUS
    <2>. QED
      BY <1>2, <2>1, <2>2
  <1>4. t \in SUBSET Nat /\ \A i \in t : i <= k
    OBVIOUS
  <1>. QED
    BY <1>3, <1>4, MaxIs

\* F is what a step makes of an element and of the result so far.
Foldable(n, E, V, start, s, F) ==
    /\ n \in Nat /\ start \in V
    /\ s \in [1..n -> E] /\ F \in [E -> [V -> V]]

FoldOf(iter, n, V, start, s, F) ==
    /\ iter \in [SUBSET (1..n) -> V]
    /\ \A t \in SUBSET (1..n) :
          iter[t] = IF t = {} THEN start ELSE F[s[Max(t)]][iter[t \ {Max(t)}]]

LEMMA FoldExists ==
    ASSUME NEW n, NEW E, NEW V, NEW start, NEW s, NEW F, Foldable(n, E, V, start, s, F)
    PROVE  \E iter : FoldOf(iter, n, V, start, s, F)
  <1>. USE DEF Foldable
  <1>. DEFINE Fine(k, iter) ==
                \A t \in SUBSET (1..k) :
                   iter[t] = IF t = {} THEN start ELSE F[s[Max(t)]][iter[t \ {Max(t)}]]
              T == {k \in 0..n : \E iter \in [SUBSET (1..k) -> V] : Fine(k, iter)}
  <1>2. ASSUME NEW k \in 0..n, \A y \in 0..(k - 1) : y \in T
        PROVE  k \in T
    <2>1. CASE k = 0
      <3>1. SUBSET (1..k) = {{}}
        BY <2>1
      <3>2. [t \in SUBSET (1..k) |-> start] \in [SUBSET (1..k) -> V]
        OBVIOUS
      <3>3. Fine(k, [t \in SUBSET (1..k) |-> start])
        BY <3>1
      <3>. QED
        BY <3>2, <3>3
    <2>2. CASE k # 0
      <3>1. k - 1 \in 0..(k - 1) /\ 1..(k - 1) \subseteq 1..k /\ k \in 1..n
        BY <2>2
      <3>2. PICK old \in [SUBSET (1..(k - 1)) -> V] : Fine(k - 1, old)
        BY <1>2, <3>1
      <3>. DEFINE Low == SUBSET (1..(k - 1))
                  new == [t \in SUBSET (1..k) |->
                             IF t \in Low THEN old[t] ELSE F[s[k]][old[t \ {k}]]]
      <3>3. \A t \in SUBSET (1..k) : t \ {k} \in Low
        OBVIOUS
      <3>4. \A t \in SUBSET (1..k) : t \notin Low => k \in t /\ t # {} /\ Max(t) = k
        <4>1. ASSUME NEW t \in SUBSET (1..k), t \notin Low
              PROVE  k \in t /\ Max(t) = k
          <5>1. k \in t
            BY <4>1
          <5>. QED
            BY <5>1, MaxIs
        <4>. QED
          BY <4>1
      <3>5. \A t \in Low : t # {} => t \ {Max(t)} \in Low
        OBVIOUS
      <3>6. new \in [SUBSET (1..k) -> V]
        <4>1. ASSUME NEW t \in SUBSET (1..k)
              PROVE  (IF t \in Low THEN old[t] ELSE F[s[k]][old[t \ {k}]]) \in V
          <5>1. s[k] \in E /\ F[s[k]] \in [V -> V]
            BY <3>1
          <5>2. old[t \ {k}] \in V
            BY <3>3
          <5>. QED
            BY <5>1, <5>2
        <4>. QED
          BY <4>1
      <3>7. /\ \A t \in Low : t \in SUBSET (1..k) /\ new[t] = old[t]
            /\ \A t \in SUBSET (1..k) : t \notin Low => new[t] = F[s[k]][old[t \ {k}]]
        BY <3>1
      <3>8. \A t \in Low : old[t] = IF t = {} THEN start ELSE F[s[Max(t)]][old[t \ {Max(t)}]]
        BY <3>2
      <3>. HIDE DEF new, Low
      <3>9. Fine(k, new)
        <4>1. ASSUME NEW t \in SUBSET (1..k), t \in Low
              PROVE  new[t] = IF t = {} THEN start ELSE F[s[Max(t)]][new[t \ {Max(t)}]]
          BY <3>5, <3>7, <3>8, <4>1, Zenon
        <4>2. ASSUME NEW t \in SUBSET (1..k), t \notin Low
              PROVE  new[t] = IF t = {} THEN start ELSE F[s[Max(t)]][new[t \ {Max(t)}]]
          <5>1. new[t] = F[s[k]][old[t \ {k}]] /\ old[t \ {k}] = new[t \ {k}]
            BY <3>3, <3>7, <4>2
          <5>. QED
            BY <3>4, <4>2, <5>1, Zenon
        <4>. QED
          BY <4>1, <4>2
      <3>. QED
        BY <3>6, <3>9
    <2>. QED
      BY <2>1, <2>2
  <1>3. \A k \in 0..n : k \in T
    <2>. HIDE DEF T
    <2>. QED
      BY <1>2, UpTo
  <1>4. n \in 0..n
    OBVIOUS
  <1>5. n \in T
    BY <1>3, <1>4
  <1>. HIDE DEF Fine
  <1>6. \E iter \in [SUBSET (1..n) -> V] : Fine(n, iter)
    BY <1>5
  <1>. QED
    BY <1>6 DEF Fine, FoldOf

\* H is what each number's value is made of, given the values of smaller ones.
Recursive(N, D, V, H) ==
    /\ N \in Nat /\ D \subseteq 1..N /\ V # {}
    /\ H \in [D -> [[D -> V] -> V]]
    /\ \A n \in D : \A f, g \in [D -> V] :
          (\A m \in D : m < n => f[m] = g[m]) => H[n][f] = H[n][g]

LEMMA RecursionExists ==
    ASSUME NEW N, NEW D, NEW V, NEW H, Recursive(N, D, V, H)
    PROVE  \E f \in [D -> V] : \A n \in D : f[n] = H[n][f]
  <1>. USE DEF Recursive
  <1>. DEFINE Fine(k, f) == \A n \in D : n <= k => f[n] = H[n][f]
              T == {k \in 0..N : \E f \in [D -> V] : Fine(k, f)}
  <1>1. ASSUME NEW k \in 0..N, \A y \in 0..(k - 1) : y \in T
        PROVE  k \in T
    <2>1. CASE k = 0
      <3>1. PICK v \in V : TRUE
        OBVIOUS
      <3>2. [n \in D |-> v] \in [D -> V]
        OBVIOUS
      <3>3. \A n \in D : ~(n <= k)
        BY <2>1
      <3>. QED
        BY <3>2, <3>3
    <2>2. CASE k # 0
      <3>1. k - 1 \in 0..(k - 1)
        BY <2>2
      <3>2. PICK old \in [D -> V] : Fine(k - 1, old)
        BY <1>1, <3>1
      <3>. DEFINE new == [n \in D |-> IF n = k THEN H[n][old] ELSE old[n]]
      <3>3. new \in [D -> V]
        OBVIOUS
      <3>4. \A m \in D : m # k => new[m] = old[m]
        OBVIOUS
      <3>5. k \in D => new[k] = H[k][old]
        OBVIOUS
      <3>. HIDE DEF new
      <3>6. \A n \in D : n <= k => H[n][new] = H[n][old]
        <4>1. ASSUME NEW n \in D, n <= k
              PROVE  \A m \in D : m < n => new[m] = old[m]
          <5>1. \A m \in D : m < n => m # k
            BY <4>1
          <5>. QED
            BY <3>4, <5>1
        <4>. QED
          BY <3>3, <4>1
      <3>7. \A n \in D : n <= k => n = k \/ n <= k - 1
        OBVIOUS
      <3>8. Fine(k, new)
        BY <3>2, <3>4, <3>5, <3>6, <3>7
      <3>. QED
        BY <3>3, <3>8
    <2>. QED
      BY <2>1, <2>2
  <1>2. \A k \in 0..N : k \in T
    <2>. HIDE DEF T
    <2>. QED
      BY <1>1, UpTo
  <1>3. N \in 0..N /\ \A n \in D : n <= N
    OBVIOUS
  <1>4. N \in T
    <2>. HIDE DEF T
    <2>. QED
      BY <1>2, <1>3
  <1>5. \E f \in [D -> V] : Fine(N, f)
    <2>. HIDE DEF Fine
    <2>. QED
      BY <1>4
  <1>. QED
    BY <1>3, <1>5

\* What a fold makes of the first i elements, for each i.
Closes(walk, E, V) == \A e \in E : \A v \in V : walk[e][v] \in V

Steps(L, V, walk, list, s) ==
    /\ L \in [0..Len(s) -> V] /\ L[0] = list
    /\ \A i \in 1..Len(s) : L[i] = walk[s[i]][L[i - 1]]

LEMMA WalkEachSteps ==
    ASSUME NEW V, NEW E, NEW walk, NEW list \in V, NEW s \in Seq(E), Closes(walk, E, V)
    PROVE  \E L : Steps(L, V, walk, list, s) /\ WalkEach(walk, list, s) = L[Len(s)]
  <1>. USE DEF Closes
  <1>. DEFINE n == Len(s)
              F == [e \in E |-> [v \in V |-> walk[e][v]]]
              Fold(iter) == iter = [t \in SUBSET (1..n) |->
                               IF t = {} THEN list
                               ELSE walk[s[Max(t)]][iter[t \ {Max(t)}]]]
              it == CHOOSE iter : Fold(iter)
  <1>1. n \in Nat /\ DOMAIN s = 1..n /\ s \in [1..n -> E]
    BY LenProperties
  <1>2. F \in [E -> [V -> V]]
    OBVIOUS
  <1>3. WalkEach(walk, list, s) = it[1..n]
    BY <1>1 DEF WalkEach, FoldLeft, MapThenFoldSet
  <1>4. \A t \in SUBSET (1..n) : t # {} => Max(t) \in t
    BY <1>1, MaxOfSome
  <1>5. \E iter : Fold(iter)
    <2>1. PICK iter : FoldOf(iter, n, V, list, s, F)
      <3>1. Foldable(n, E, V, list, s, F)
        BY <1>1, <1>2 DEF Foldable
      <3>. QED
        BY <3>1, FoldExists
    <2>2. \A t \in SUBSET (1..n) : t # {} => F[s[Max(t)]][iter[t \ {Max(t)}]]
                                             = walk[s[Max(t)]][iter[t \ {Max(t)}]]
      <3>1. ASSUME NEW t \in SUBSET (1..n), t # {}
            PROVE  s[Max(t)] \in E /\ iter[t \ {Max(t)}] \in V
        BY <1>1, <1>4, <2>1, <3>1 DEF FoldOf
      <3>2. \A e \in E : \A v \in V : F[e][v] = walk[e][v]
        OBVIOUS
      <3>. HIDE DEF F
      <3>. QED
        BY <3>1, <3>2
    <2>. HIDE DEF F, n
    <2>3. iter = [t \in SUBSET (1..n) |-> IF t = {} THEN list
                                          ELSE walk[s[Max(t)]][iter[t \ {Max(t)}]]]
      BY <2>1, <2>2, Zenon DEF FoldOf
    <2>. QED
      BY <2>3
  <1>6. Fold(it)
    <2>. HIDE DEF Fold
    <2>. QED
      BY <1>5
  <1>. HIDE DEF it
  <1>. DEFINE L == [i \in 0..n |-> it[1..i]]
  <1>7. it[{}] = list
    BY <1>6
  <1>8. ASSUME NEW i \in 1..n
        PROVE  it[1..i] = walk[s[i]][it[1..(i - 1)]]
    <2>1. 1..i \in SUBSET (1..n) /\ 1..i # {} /\ i \in 1..i /\ (1..i) \ {i} = 1..(i - 1)
          /\ \A j \in 1..i : j <= i
      BY <1>1
    <2>2. Max(1..i) = i
      BY <2>1, MaxIs
    <2>3. it[1..i] = walk[s[Max(1..i)]][it[(1..i) \ {Max(1..i)}]]
      BY <1>6, <2>1, Zenon
    <2>. QED
      BY <2>1, <2>2, <2>3
  <1>9. L[0] = list
    BY <1>1, <1>7
  <1>10. \A i \in 1..n : L[i] = walk[s[i]][L[i - 1]]
    BY <1>1, <1>8
  <1>11. L[n] = it[1..n] /\ DOMAIN L = 0..n
    BY <1>1
  <1>12. L = [i \in 0..n |-> L[i]]
    OBVIOUS
  <1>. HIDE DEF L
  <1>13. \A i \in 0..n : L[i] \in V
    <2>. DEFINE T == {i \in 0..n : L[i] \in V}
    <2>1. ASSUME NEW i \in 0..n, \A y \in 0..(i - 1) : y \in T
          PROVE  i \in T
      <3>1. CASE i = 0
        BY <1>9, <3>1
      <3>2. CASE i # 0
        <4>1. i - 1 \in 0..(i - 1) /\ i \in 1..n /\ s[i] \in E
          BY <1>1, <3>2
        <4>. QED
          BY <1>10, <2>1, <4>1
      <3>. QED
        BY <3>1, <3>2
    <2>2. \A i \in 0..n : i \in T
      <3>. HIDE DEF T, n
      <3>. QED
        BY <1>1, <2>1, UpTo
    <2>. QED
      BY <2>2
  <1>14. L \in [0..n -> V]
    BY <1>12, <1>13
  <1>. QED
    BY <1>3, <1>9, <1>10, <1>11, <1>14 DEF Steps

\* Two walks that agree on the elements of a sequence fold it to the same.
LEMMA WalkEachAgree ==
    ASSUME NEW V, NEW E, NEW f, NEW g, NEW list \in V, NEW s \in Seq(E),
           Closes(f, E, V), \A e \in E : \A v \in V : f[e][v] = g[e][v]
    PROVE  WalkEach(f, list, s) = WalkEach(g, list, s)
  <1>. DEFINE n == Len(s)
  <1>1. n \in Nat /\ s \in [1..n -> E]
    BY LenProperties
  <1>2. Closes(g, E, V)
    BY DEF Closes
  <1>3. PICK L : Steps(L, V, f, list, s) /\ WalkEach(f, list, s) = L[n]
    BY WalkEachSteps
  <1>4. PICK M : Steps(M, V, g, list, s) /\ WalkEach(g, list, s) = M[n]
    BY <1>2, WalkEachSteps
  <1>5. /\ L \in [0..n -> V] /\ L[0] = list /\ M[0] = list
        /\ \A i \in 1..n : L[i] = f[s[i]][L[i - 1]] /\ M[i] = g[s[i]][M[i - 1]]
    BY <1>3, <1>4 DEF Steps
  <1>. DEFINE T == {i \in 0..n : L[i] = M[i]}
  <1>. HIDE DEF n
  <1>6. ASSUME NEW i \in 0..n, \A y \in 0..(i - 1) : y \in T
        PROVE  i \in T
    <2>1. CASE i = 0
      BY <1>5, <2>1
    <2>2. CASE i # 0
      <3>1. i - 1 \in 0..(i - 1) /\ i \in 1..n /\ i - 1 \in 0..n
        BY <1>1, <2>2
      <3>2. L[i - 1] = M[i - 1] /\ L[i - 1] \in V /\ s[i] \in E
        BY <1>1, <1>5, <1>6, <3>1
      <3>. QED
        BY <1>5, <3>1, <3>2
    <2>. QED
      BY <2>1, <2>2
  <1>7. \A i \in 0..n : i \in T
    <2>. HIDE DEF T
    <2>. QED
      BY <1>1, <1>6, UpTo
  <1>. QED
    BY <1>1, <1>3, <1>4, <1>7

-----------------------------------------------------------------------------
(* The graph: typed, and every object names older ones.                    *)

Node == [kind : {"tensor"}, base : Nat \cup {Absent}, row : Perms \cup {Absent},
         col : Perms \cup {Absent}, chunks : Seq(Chunks)]
        \cup [kind : {"checkpoint"}, header : Headers, config : Configs \cup {Absent},
              tensors : Seq(Nat)]
        \cup [kind : {"commit"}, checkpoint : Nat, parents : Seq(Nat)]

Older(n, kind) == {m \in Kind(kind) : m < n}

GraphInv ==
    /\ nodes \in Seq(Node)
    /\ \A n \in Kind("tensor") : nodes[n].base \in Older(n, "tensor") \cup {Absent}
    /\ \A n \in Kind("checkpoint") : nodes[n].tensors \in Seq(Older(n, "tensor"))
    /\ \A n \in Kind("commit") : /\ nodes[n].checkpoint \in Older(n, "checkpoint")
                                 /\ nodes[n].parents \in Seq(Older(n, "commit"))

LEMMA KindFacts ==
    ASSUME nodes \in Seq(Node)
    PROVE  /\ DOMAIN nodes = 1..Len(nodes) /\ Len(nodes) \in Nat /\ DOMAIN nodes \subseteq Nat
           /\ \A kind : Kind(kind) \subseteq DOMAIN nodes /\ IsFiniteSet(Kind(kind))
           /\ DOMAIN nodes \subseteq Objects /\ Leaves \subseteq Objects
  <1>1. DOMAIN nodes = 1..Len(nodes) /\ Len(nodes) \in Nat
    BY LenProperties
  <1>2. IsFiniteSet(DOMAIN nodes)
    BY <1>1, FS_Interval
  <1>3. \A kind : Kind(kind) \subseteq DOMAIN nodes
    BY DEF Kind
  <1>4. \A kind : IsFiniteSet(Kind(kind))
    BY <1>2, <1>3, FS_Subset
  <1>. QED
    BY <1>1, <1>3, <1>4 DEF Objects

\* A sequence of some of the elements of a finite set.
LEMMA PermutationType ==
    ASSUME NEW S, IsFiniteSet(S), NEW s \in SetToAllKPermutations(S)
    PROVE  s \in Seq(S)
  <1>1. PICK T \in SUBSET S : s \in SetToSeqs(T)
    BY DEF SetToAllKPermutations
  <1>2. Cardinality(T) \in Nat
    BY FS_Subset, FS_CardinalityType
  <1>3. s \in [1..Cardinality(T) -> T]
    BY <1>1 DEF SetToSeqs
  <1>4. s \in Seq(T)
    BY <1>2, <1>3, IsASeq
  <1>. QED
    BY <1>4, SeqMonotonic

\* The node that PutTensor, PutCheckpoint or PutCommit stores.
Stored(node) ==
    /\ node \in Node /\ nodes' = Append(nodes, node)
    /\ node.kind = "tensor" => node.base \in Kind("tensor") \cup {Absent}
    /\ node.kind = "checkpoint" => node.tensors \in Seq(Kind("tensor"))
    /\ node.kind = "commit" => /\ node.checkpoint \in Kind("checkpoint")
                               /\ node.parents \in Seq(Kind("commit"))

LEMMA NextStores ==
    ASSUME GraphInv, Next
    PROVE  \E node : Stored(node)
  <1>0. \A kind : IsFiniteSet(Kind(kind)) /\ Kind(kind) \subseteq Nat
    BY KindFacts DEF GraphInv
  <1>1. CASE PutTensor
    <2>1. PICK base \in Kind("tensor") \cup {Absent}, row \in Perms \cup {Absent},
               col \in Perms \cup {Absent}, chunk \in Chunks :
            Store([kind |-> "tensor", base |-> base, row |-> row, col |-> col,
                   chunks |-> <<chunk>>], {"checkpoint", "commit"})
      BY <1>1 DEF PutTensor
    <2>. DEFINE node == [kind |-> "tensor", base |-> base, row |-> row, col |-> col,
                         chunks |-> <<chunk>>]
    <2>2. base \in Nat \cup {Absent} /\ <<chunk>> \in Seq(Chunks)
      BY <1>0
    <2>3. node \in Node
      BY <2>2 DEF Node
    <2>4. nodes' = Append(nodes, node)
      BY <2>1 DEF Store
    <2>. QED
      BY <2>3, <2>4 DEF Stored
  <1>2. CASE PutCheckpoint
    <2>1. PICK header \in Headers, config \in Configs \cup {Absent},
               tensors \in SetToAllKPermutations(Kind("tensor")) :
            Store([kind |-> "checkpoint", header |-> header, config |-> config,
                   tensors |-> tensors], {"commit"})
      BY <1>2 DEF PutCheckpoint
    <2>. DEFINE node == [kind |-> "checkpoint", header |-> header, config |-> config,
                         tensors |-> tensors]
    <2>2. tensors \in Seq(Kind("tensor"))
      BY <1>0, PermutationType
    <2>3. tensors \in Seq(Nat)
      BY <1>0, <2>2, SeqMonotonic
    <2>4. node \in Node
      BY <2>3 DEF Node
    <2>5. nodes' = Append(nodes, node)
      BY <2>1 DEF Store
    <2>. QED
      BY <2>2, <2>4, <2>5 DEF Stored
  <1>3. CASE PutCommit
    <2>1. PICK checkpoint \in Kind("checkpoint"),
               parents \in SetToAllKPermutations(Kind("commit")) :
            Store([kind |-> "commit", checkpoint |-> checkpoint, parents |-> parents], {})
      BY <1>3 DEF PutCommit
    <2>. DEFINE node == [kind |-> "commit", checkpoint |-> checkpoint, parents |-> parents]
    <2>2. parents \in Seq(Kind("commit"))
      BY <1>0, PermutationType
    <2>3. parents \in Seq(Nat) /\ checkpoint \in Nat
      BY <1>0, <2>2, SeqMonotonic
    <2>4. node \in Node
      BY <2>3 DEF Node
    <2>5. nodes' = Append(nodes, node)
      BY <2>1 DEF Store
    <2>. QED
      BY <2>2, <2>4, <2>5 DEF Stored
  <1>. QED
    BY <1>1, <1>2, <1>3 DEF Next

LEMMA StoredKeeps ==
    ASSUME GraphInv, NEW node, Stored(node)
    PROVE  GraphInv'
  <1>0. PICK k : k = Len(nodes) + 1
    OBVIOUS
  <1>1. /\ nodes' \in Seq(Node) /\ Len(nodes') = k /\ nodes'[k] = node
        /\ \A n \in 1..Len(nodes) : nodes'[n] = nodes[n]
    BY <1>0, AppendProperties DEF GraphInv, Stored
  <1>2. DOMAIN nodes = 1..Len(nodes) /\ DOMAIN nodes' = 1..k /\ Len(nodes) \in Nat
    BY <1>0, <1>1, LenProperties DEF GraphInv
  <1>3. /\ \A n \in DOMAIN nodes : n \in DOMAIN nodes' /\ nodes'[n] = nodes[n] /\ n < k
        /\ \A n \in DOMAIN nodes' : n \in DOMAIN nodes \/ n = k
    BY <1>0, <1>1, <1>2
  <1>4. \A kind : /\ Kind(kind) \subseteq Kind(kind)' /\ Kind(kind) \subseteq Older(k, kind)'
                  /\ \A n : Older(n, kind) \subseteq Older(n, kind)'
    BY <1>3 DEF Kind, Older
  <1>5. \A kind : \A n \in Kind(kind)' : n \in Kind(kind) \/ (n = k /\ node.kind = kind)
    BY <1>1, <1>3 DEF Kind
  <1>6. \A kind : \A n \in Kind(kind) : nodes'[n] = nodes[n]
    BY <1>3 DEF Kind
  <1>7. \A n \in Kind("tensor")' : nodes'[n].base \in Older(n, "tensor")' \cup {Absent}
    <2>1. ASSUME NEW n \in Kind("tensor")'
          PROVE  nodes'[n].base \in Older(n, "tensor")' \cup {Absent}
      <3>1. CASE n \in Kind("tensor")
        BY <1>4, <1>6, <3>1 DEF GraphInv
      <3>2. CASE n = k /\ node.kind = "tensor"
        BY <1>1, <1>4, <3>2 DEF Stored
      <3>. QED
        BY <1>5, <3>1, <3>2
    <2>. QED
      BY <2>1
  <1>8. \A n \in Kind("checkpoint")' : nodes'[n].tensors \in Seq(Older(n, "tensor")')
    <2>1. ASSUME NEW n \in Kind("checkpoint")'
          PROVE  nodes'[n].tensors \in Seq(Older(n, "tensor")')
      <3>1. CASE n \in Kind("checkpoint")
        <4>1. nodes[n].tensors \in Seq(Older(n, "tensor"))
          BY <3>1 DEF GraphInv
        <4>. QED
          BY <1>4, <1>6, <3>1, <4>1, SeqMonotonic
      <3>2. CASE n = k /\ node.kind = "checkpoint"
        <4>1. node.tensors \in Seq(Kind("tensor"))
          BY <3>2 DEF Stored
        <4>. QED
          BY <1>1, <1>4, <3>2, <4>1, SeqMonotonic
      <3>. QED
        BY <1>5, <3>1, <3>2
    <2>. QED
      BY <2>1
  <1>9. \A n \in Kind("commit")' : /\ nodes'[n].checkpoint \in Older(n, "checkpoint")'
                                   /\ nodes'[n].parents \in Seq(Older(n, "commit")')
    <2>1. ASSUME NEW n \in Kind("commit")'
          PROVE  /\ nodes'[n].checkpoint \in Older(n, "checkpoint")'
                 /\ nodes'[n].parents \in Seq(Older(n, "commit")')
      <3>1. CASE n \in Kind("commit")
        <4>1. /\ nodes[n].checkpoint \in Older(n, "checkpoint")
              /\ nodes[n].parents \in Seq(Older(n, "commit"))
          BY <3>1 DEF GraphInv
        <4>. QED
          BY <1>4, <1>6, <3>1, <4>1, SeqMonotonic
      <3>2. CASE n = k /\ node.kind = "commit"
        <4>1. node.checkpoint \in Kind("checkpoint") /\ node.parents \in Seq(Kind("commit"))
          BY <3>2 DEF Stored
        <4>. QED
          BY <1>1, <1>4, <3>2, <4>1, SeqMonotonic
      <3>. QED
        BY <1>5, <3>1, <3>2
    <2>. QED
      BY <2>1
  <1>. QED
    BY <1>1, <1>7, <1>8, <1>9 DEF GraphInv

LEMMA GraphInvHolds == Spec => []GraphInv
  <1>1. Init => GraphInv
    <2>1. SUFFICES ASSUME Init PROVE GraphInv
      OBVIOUS
    <2>2. nodes \in Seq(Node) /\ DOMAIN nodes = {}
      BY <2>1, EmptySeq DEF Init
    <2>. QED
      BY <2>2 DEF GraphInv, Kind
  <1>2. GraphInv /\ [Next]_nodes => GraphInv'
    <2>1. SUFFICES ASSUME GraphInv, [Next]_nodes PROVE GraphInv'
      OBVIOUS
    <2>2. CASE Next
      BY <2>1, <2>2, NextStores, StoredKeeps
    <2>3. CASE UNCHANGED nodes
      <3>1. nodes' = nodes
        BY <2>3
      <3>2. \A kind : Kind(kind)' = Kind(kind)
        BY <3>1 DEF Kind
      <3>3. \A n, kind : Older(n, kind)' = Older(n, kind)
        BY <3>2 DEF Older
      <3>. QED
        BY <2>1, <3>1, <3>2, <3>3 DEF GraphInv
    <2>. QED
      BY <2>1, <2>2, <2>3
  <1>. QED
    BY <1>1, <1>2, PTL DEF Spec

\* What an object names: leaves and older objects.
LEMMA NamesFacts ==
    ASSUME GraphInv
    PROVE  /\ Absent \notin Objects
           /\ \A o \in Leaves : Names(o) = {} /\ o \notin DOMAIN nodes
           /\ \A n \in DOMAIN nodes :
                 /\ Names(n) = Fields(nodes[n]) \ {Absent} /\ Names(n) \subseteq Objects
                 /\ \A o \in Names(n) : o \in Leaves \/ (o \in DOMAIN nodes /\ o < n)
  <1>1. /\ DOMAIN nodes = 1..Len(nodes) /\ DOMAIN nodes \subseteq Nat
        /\ DOMAIN nodes \subseteq Objects /\ Leaves \subseteq Objects
        /\ \A kind : Kind(kind) \subseteq DOMAIN nodes
    BY KindFacts DEF GraphInv
  <1>2. /\ Absent \notin Objects
        /\ \A o \in Leaves : Names(o) = {} /\ o \notin DOMAIN nodes
    BY <1>1, GraphAssumption DEF Names, Objects
  <1>3. ASSUME NEW n \in DOMAIN nodes
        PROVE  Names(n) = Fields(nodes[n]) \ {Absent}
    BY <1>2 DEF Names
  <1>4. ASSUME NEW n \in DOMAIN nodes, NEW o \in Fields(nodes[n]) \ {Absent}
        PROVE  o \in Leaves \/ (o \in DOMAIN nodes /\ o < n)
    <2>1. nodes[n] \in Node
      BY <1>1, ElementOfSeq DEF GraphInv
    <2>2. CASE nodes[n].kind = "tensor"
      <3>1. n \in Kind("tensor") /\ nodes[n].chunks \in Seq(Chunks)
            /\ nodes[n].row \in Perms \cup {Absent} /\ nodes[n].col \in Perms \cup {Absent}
        BY <2>1, <2>2 DEF Node, Kind
      <3>2. nodes[n].base \in Older(n, "tensor") \cup {Absent}
        BY <3>1 DEF GraphInv
      <3>3. Range(nodes[n].chunks) \subseteq Chunks
        BY <3>1, RangeOfSeq
      <3>4. Fields(nodes[n]) = {nodes[n].base, nodes[n].row, nodes[n].col}
                               \cup Range(nodes[n].chunks)
        BY <2>2 DEF Fields
      <3>. QED
        BY <1>1, <1>4, <3>1, <3>2, <3>3, <3>4 DEF Leaves, Older
    <2>3. CASE nodes[n].kind = "checkpoint"
      <3>1. n \in Kind("checkpoint") /\ nodes[n].header \in Headers
            /\ nodes[n].config \in Configs \cup {Absent}
        BY <2>1, <2>3 DEF Node, Kind
      <3>2. Range(nodes[n].tensors) \subseteq Older(n, "tensor")
        BY <3>1, RangeOfSeq DEF GraphInv
      <3>3. Fields(nodes[n]) = {nodes[n].header, nodes[n].config} \cup Range(nodes[n].tensors)
        BY <2>3 DEF Fields
      <3>. QED
        BY <1>1, <1>4, <3>1, <3>2, <3>3 DEF Leaves, Older
    <2>4. CASE nodes[n].kind = "commit"
      <3>1. n \in Kind("commit")
        BY <2>4 DEF Kind
      <3>2. nodes[n].checkpoint \in Older(n, "checkpoint")
            /\ Range(nodes[n].parents) \subseteq Older(n, "commit")
        BY <3>1, RangeOfSeq DEF GraphInv
      <3>3. Fields(nodes[n]) = {nodes[n].checkpoint} \cup Range(nodes[n].parents)
        BY <2>4 DEF Fields
      <3>. QED
        BY <1>1, <1>4, <3>2, <3>3 DEF Older
    <2>. QED
      BY <2>1, <2>2, <2>3, <2>4 DEF Node
  <1>5. \A n \in DOMAIN nodes : Names(n) \subseteq Objects
    BY <1>1, <1>3, <1>4
  <1>. QED
    BY <1>2, <1>3, <1>4, <1>5

-----------------------------------------------------------------------------
(* Lists that can be installed in order, and how the walks extend them.    *)

Posted(l) ==
    /\ \A i, j \in DOMAIN l : l[i] = l[j] => i = j
    /\ \A i \in DOMAIN l : Names(l[i]) \subseteq {l[j] : j \in 1..(i - 1)}

\* All that is named from W is in W.
Whole(W) == \A o \in W : Names(o) \subseteq W

\* r is l with S and what S leads to put behind it.
Grows(l, r, S) ==
    /\ r \in Seq(Objects)
    /\ Posted(l) => /\ Posted(r) /\ Range(l) \cup S \subseteq Range(r)
                    /\ \A W : Whole(W) /\ S \subseteq W => Range(r) \subseteq Range(l) \cup W

\* In particular with one object, which comes last.
Done(l, r, n) ==
    /\ Grows(l, r, {n})
    /\ Posted(l) /\ n \notin Range(l) => r # <<>> /\ r[Len(r)] = n

LEMMA GrowsOn ==
    ASSUME NEW l, NEW m, NEW r, NEW S, NEW T, Grows(l, m, S), Grows(m, r, T)
    PROVE  Grows(l, r, S \cup T)
  <1>1. r \in Seq(Objects)
    BY DEF Grows
  <1>2. ASSUME Posted(l)
        PROVE  /\ Posted(r) /\ Range(l) \cup S \cup T \subseteq Range(r)
               /\ \A W : Whole(W) /\ S \cup T \subseteq W => Range(r) \subseteq Range(l) \cup W
    <2>1. Posted(m) /\ Range(l) \cup S \subseteq Range(m)
      BY <1>2 DEF Grows
    <2>2. Posted(r) /\ Range(m) \cup T \subseteq Range(r)
      BY <2>1 DEF Grows
    <2>3. ASSUME NEW W, Whole(W), S \cup T \subseteq W
          PROVE  Range(r) \subseteq Range(l) \cup W
      <3>1. S \subseteq W /\ T \subseteq W
        BY <2>3
      <3>2. Range(m) \subseteq Range(l) \cup W
        BY <1>2, <2>3, <3>1 DEF Grows
      <3>3. Range(r) \subseteq Range(m) \cup W
        BY <2>1, <2>3, <3>1 DEF Grows
      <3>. QED
        BY <3>2, <3>3
    <2>. QED
      BY <2>1, <2>2, <2>3
  <1>3. Range(l) \cup (S \cup T) = Range(l) \cup S \cup T
    OBVIOUS
  <1>. QED
    BY <1>1, <1>2, <1>3 DEF Grows

LEMMA GrowsNot ==
    ASSUME NEW l \in Seq(Objects)
    PROVE  Grows(l, l, {})
  BY DEF Grows

LEMMA PostedGrows ==
    ASSUME NEW l, NEW r, NEW S, Grows(l, r, S), Posted(l)
    PROVE  /\ r \in Seq(Objects) /\ Posted(r) /\ Range(l) \cup S \subseteq Range(r)
           /\ \A W : Whole(W) /\ S \subseteq W => Range(r) \subseteq Range(l) \cup W
  BY DEF Grows

\* Insert puts an object behind those it names.
LEMMA InsertGrows ==
    ASSUME NEW l \in Seq(Objects), NEW o \in Objects \cup {Absent}, Absent \notin Objects,
           o # Absent /\ Posted(l) => Names(o) \subseteq Range(l)
    PROVE  /\ Grows(l, Insert(l, o), {o} \ {Absent})
           /\ o # Absent /\ o \notin Range(l) => /\ Insert(l, o) # <<>>
                                                 /\ Insert(l, o)[Len(Insert(l, o))] = o
  <1>1. DOMAIN l = 1..Len(l) /\ Len(l) \in Nat /\ Range(l) = {l[i] : i \in DOMAIN l}
    BY LenProperties DEF Range
  <1>2. Contains(l, o) <=> o \in Range(l)
    BY <1>1 DEF Contains
  <1>3. CASE o = Absent
    <2>1. Insert(l, o) = l /\ {o} \ {Absent} = {}
      BY <1>3 DEF Insert
    <2>. QED
      BY <1>3, <2>1, GrowsNot
  <1>4. CASE o # Absent /\ o \in Range(l)
    <2>1. Insert(l, o) = l /\ {o} \ {Absent} \subseteq Range(l)
      BY <1>2, <1>4 DEF Insert
    <2>. QED
      BY <1>4, <2>1 DEF Grows
  <1>5. CASE o # Absent /\ o \notin Range(l)
    <2>. DEFINE r == Append(l, o)
    <2>1. Insert(l, o) = r /\ {o} \ {Absent} = {o} /\ o \in Objects
      BY <1>2, <1>5 DEF Insert
    <2>2. /\ r \in Seq(Objects) /\ r # <<>> /\ Len(r) = Len(l) + 1
          /\ \A i \in 1..Len(l) : r[i] = l[i]
          /\ r[Len(l) + 1] = o
      BY <2>1, AppendProperties
    <2>3. DOMAIN r = 1..(Len(l) + 1)
      BY <2>2, LenProperties
    <2>. HIDE DEF r
    <2>4. /\ \A i \in DOMAIN l : i \in DOMAIN r /\ r[i] = l[i]
          /\ \A i \in DOMAIN r : i \in DOMAIN l \/ i = Len(l) + 1
          /\ Len(l) + 1 \in DOMAIN r
      BY <1>1, <2>2, <2>3
    <2>5. Range(r) = Range(l) \cup {o}
      BY <2>2, <2>4 DEF Range
    <2>6. ASSUME Posted(l)
          PROVE  Posted(r)
      <3>1. \A i, j \in DOMAIN r : r[i] = r[j] => i = j
        <4>1. \A i \in DOMAIN l : r[i] # o
          BY <1>1, <1>5, <2>4
        <4>2. \A i, j \in DOMAIN l : r[i] = r[j] => i = j
          BY <2>4, <2>6 DEF Posted
        <4>. QED
          BY <2>2, <2>4, <4>1, <4>2
      <3>2. ASSUME NEW i \in DOMAIN r
            PROVE  Names(r[i]) \subseteq {r[j] : j \in 1..(i - 1)}
        <4>1. CASE i \in DOMAIN l
          <5>1. Names(l[i]) \subseteq {l[j] : j \in 1..(i - 1)}
            BY <2>6, <4>1 DEF Posted
          <5>2. \A j \in 1..(i - 1) : r[j] = l[j]
            BY <1>1, <2>2, <4>1
          <5>3. {l[j] : j \in 1..(i - 1)} = {r[j] : j \in 1..(i - 1)}
            BY <5>2
          <5>. QED
            BY <2>4, <4>1, <5>1, <5>3
        <4>2. CASE i = Len(l) + 1
          <5>1. Names(o) \subseteq Range(l)
            BY <1>5, <2>6
          <5>2. 1..(i - 1) = DOMAIN l
            BY <1>1, <4>2
          <5>3. Range(l) = {r[j] : j \in 1..(i - 1)}
            BY <1>1, <2>4, <5>2
          <5>. QED
            BY <2>2, <4>2, <5>1, <5>3
        <4>. QED
          BY <2>4, <4>1, <4>2
      <3>. QED
        BY <3>1, <3>2 DEF Posted
    <2>7. Grows(l, r, {o})
      BY <2>2, <2>5, <2>6 DEF Grows
    <2>. QED
      BY <2>1, <2>2, <2>7
  <1>. QED
    BY <1>3, <1>4, <1>5

\* Insert makes a list of a list, so a fold of it is what its steps make.
LEMMA InsertAllSteps ==
    ASSUME NEW list \in Seq(Objects), NEW s \in Seq(Objects \cup {Absent})
    PROVE  \E L \in [0..Len(s) -> Seq(Objects)] :
              /\ L[0] = list /\ InsertAll(list, s) = L[Len(s)]
              /\ \A i \in 1..Len(s) : L[i] = Insert(L[i - 1], s[i])
  <1>. DEFINE n == Len(s)
              E == Objects \cup {Absent}
              V == Seq(Objects)
              F == [e \in E |-> [v \in V |-> Insert(v, e)]]
              Fold(iter) == iter = [t \in SUBSET (1..n) |->
                               IF t = {} THEN list
                               ELSE Insert(iter[t \ {Max(t)}], s[Max(t)])]
              it == CHOOSE iter : Fold(iter)
  <1>1. n \in Nat /\ DOMAIN s = 1..n /\ s \in [1..n -> E]
    BY LenProperties
  <1>2. \A e \in E : \A v \in V : Insert(v, e) \in V
    BY AppendProperties DEF Insert
  <1>3. InsertAll(list, s) = it[1..n]
    BY <1>1 DEF InsertAll, FoldLeft, MapThenFoldSet
  <1>4. \A t \in SUBSET (1..n) : t # {} => Max(t) \in t
    BY <1>1, MaxOfSome
  <1>. HIDE DEF E, V
  <1>5. \E iter : Fold(iter)
    <2>1. PICK iter : FoldOf(iter, n, V, list, s, F)
      <3>1. F \in [E -> [V -> V]]
        BY <1>2
      <3>2. Foldable(n, E, V, list, s, F)
        BY <1>1, <3>1 DEF Foldable, V
      <3>. QED
        BY <3>2, FoldExists
    <2>2. \A t \in SUBSET (1..n) : t # {} => F[s[Max(t)]][iter[t \ {Max(t)}]]
                                             = Insert(iter[t \ {Max(t)}], s[Max(t)])
      <3>1. ASSUME NEW t \in SUBSET (1..n), t # {}
            PROVE  s[Max(t)] \in E /\ iter[t \ {Max(t)}] \in V
        BY <1>1, <1>4, <2>1, <3>1 DEF FoldOf
      <3>2. \A e \in E : \A v \in V : F[e][v] = Insert(v, e)
        OBVIOUS
      <3>. HIDE DEF F
      <3>. QED
        BY <3>1, <3>2
    <2>. HIDE DEF F, n
    <2>3. iter = [t \in SUBSET (1..n) |-> IF t = {} THEN list
                                          ELSE Insert(iter[t \ {Max(t)}], s[Max(t)])]
      BY <2>1, <2>2, Zenon DEF FoldOf
    <2>. QED
      BY <2>3
  <1>6. Fold(it)
    <2>. HIDE DEF Fold
    <2>. QED
      BY <1>5
  <1>. HIDE DEF it
  <1>. DEFINE L == [i \in 0..n |-> it[1..i]]
  <1>7. it[{}] = list
    BY <1>6
  <1>8. ASSUME NEW i \in 1..n
        PROVE  it[1..i] = Insert(it[1..(i - 1)], s[i])
    <2>1. 1..i \in SUBSET (1..n) /\ 1..i # {} /\ i \in 1..i /\ (1..i) \ {i} = 1..(i - 1)
          /\ \A j \in 1..i : j <= i
      BY <1>1
    <2>2. Max(1..i) = i
      BY <2>1, MaxIs
    <2>3. it[1..i] = Insert(it[(1..i) \ {Max(1..i)}], s[Max(1..i)])
      BY <1>6, <2>1, Zenon
    <2>. QED
      BY <2>1, <2>2, <2>3
  <1>9. L[0] = list
    BY <1>1, <1>7
  <1>10. \A i \in 1..n : L[i] = Insert(L[i - 1], s[i])
    BY <1>1, <1>8
  <1>11. L[n] = it[1..n] /\ DOMAIN L = 0..n
    BY <1>1
  <1>12. L = [i \in 0..n |-> L[i]]
    OBVIOUS
  <1>. HIDE DEF L
  <1>13. \A i \in 0..n : L[i] \in V
    <2>. DEFINE T == {i \in 0..n : L[i] \in V}
    <2>1. ASSUME NEW i \in 0..n, \A y \in 0..(i - 1) : y \in T
          PROVE  i \in T
      <3>1. CASE i = 0
        BY <1>9, <3>1 DEF V
      <3>2. CASE i # 0
        <4>1. i - 1 \in 0..(i - 1) /\ i \in 1..n /\ s[i] \in E
          BY <1>1, <3>2
        <4>. QED
          BY <1>2, <1>10, <2>1, <4>1
      <3>. QED
        BY <3>1, <3>2
    <2>2. \A i \in 0..n : i \in T
      <3>. HIDE DEF T, n
      <3>. QED
        BY <1>1, <2>1, UpTo
    <2>. QED
      BY <2>2
  <1>14. L \in [0..n -> V]
    BY <1>12, <1>13
  <1>. QED
    BY <1>3, <1>9, <1>10, <1>11, <1>14 DEF V

\* The objects of the first i elements.
LEMMA FirstOnes ==
    ASSUME NEW E, NEW s \in Seq(E)
    PROVE  /\ {s[j] : j \in 1..0} = {} /\ {s[j] : j \in 1..Len(s)} = Range(s)
           /\ \A i \in 1..Len(s) : {s[j] : j \in 1..i} = {s[j] : j \in 1..(i - 1)} \cup {s[i]}
  <1>1. Len(s) \in Nat /\ DOMAIN s = 1..Len(s)
    BY LenProperties
  <1>2. \A i \in 1..Len(s) : 1..i = (1..(i - 1)) \cup {i}
    BY <1>1
  <1>3. 1..0 = {}
    OBVIOUS
  <1>. QED
    BY <1>1, <1>2, <1>3 DEF Range

LEMMA InsertAllGrows ==
    ASSUME NEW list \in Seq(Objects), NEW s \in Seq(Leaves \cup {Absent}), GraphInv
    PROVE  Grows(list, InsertAll(list, s), Range(s) \ {Absent})
  <1>. DEFINE n == Len(s)
              S(i) == {s[j] : j \in 1..i} \ {Absent}
  <1>1. n \in Nat /\ s \in [1..n -> Leaves \cup {Absent}]
    BY LenProperties
  <1>2. s \in Seq(Objects \cup {Absent}) /\ Leaves \subseteq Objects
    BY SeqMonotonic DEF Objects
  <1>3. PICK L \in [0..n -> Seq(Objects)] :
              /\ L[0] = list /\ InsertAll(list, s) = L[n]
              /\ \A i \in 1..n : L[i] = Insert(L[i - 1], s[i])
    BY <1>2, InsertAllSteps
  <1>4. /\ S(0) = {} /\ S(n) = Range(s) \ {Absent}
        /\ \A i \in 1..n : S(i) = S(i - 1) \cup ({s[i]} \ {Absent})
    BY FirstOnes
  <1>. DEFINE T == {i \in 0..n : Grows(list, L[i], S(i))}
  <1>. HIDE DEF n, S
  <1>5. ASSUME NEW i \in 0..n, \A y \in 0..(i - 1) : y \in T
        PROVE  i \in T
    <2>1. CASE i = 0
      BY <1>3, <1>4, <2>1, GrowsNot
    <2>2. CASE i # 0
      <3>1. i - 1 \in 0..(i - 1) /\ i \in 1..n /\ i - 1 \in 0..n
        BY <1>1, <2>2
      <3>2. Grows(list, L[i - 1], S(i - 1)) /\ L[i - 1] \in Seq(Objects)
        BY <1>3, <1>5, <3>1
      <3>3. s[i] \in Leaves \cup {Absent}
        BY <1>1, <3>1
      <3>4. s[i] # Absent => Names(s[i]) = {}
        BY <3>3, NamesFacts
      <3>5. Absent \notin Objects /\ s[i] \in Objects \cup {Absent}
        BY <1>2, <3>3, NamesFacts
      <3>6. Grows(L[i - 1], Insert(L[i - 1], s[i]), {s[i]} \ {Absent})
        BY <3>2, <3>4, <3>5, InsertGrows
      <3>7. Grows(list, L[i], S(i - 1) \cup ({s[i]} \ {Absent}))
        BY <1>3, <3>1, <3>2, <3>6, GrowsOn
      <3>. QED
        BY <1>4, <3>1, <3>7
    <2>. QED
      BY <2>1, <2>2
  <1>6. \A i \in 0..n : i \in T
    <2>. HIDE DEF T
    <2>. QED
      BY <1>1, <1>5, UpTo
  <1>7. n \in 0..n
    BY <1>1
  <1>8. Grows(list, L[n], S(n))
    BY <1>6, <1>7
  <1>. QED
    BY <1>3, <1>4, <1>8

\* A walk that lists each of some objects lists them all.
Lists(walk, E) == \A e \in E : \A l \in Seq(Objects) : Done(l, walk[e][l], e)

LEMMA WalkEachGrows ==
    ASSUME NEW E, NEW walk, NEW list \in Seq(Objects), NEW s \in Seq(E), Lists(walk, E)
    PROVE  Grows(list, WalkEach(walk, list, s), Range(s))
  <1>. DEFINE n == Len(s)
              S(i) == {s[j] : j \in 1..i}
  <1>1. n \in Nat /\ s \in [1..n -> E]
    BY LenProperties
  <1>2. Closes(walk, E, Seq(Objects))
    BY DEF Closes, Lists, Done, Grows
  <1>3. PICK L : Steps(L, Seq(Objects), walk, list, s) /\ WalkEach(walk, list, s) = L[n]
    BY <1>2, WalkEachSteps
  <1>4. /\ L \in [0..n -> Seq(Objects)] /\ L[0] = list
        /\ \A i \in 1..n : L[i] = walk[s[i]][L[i - 1]]
    BY <1>3 DEF Steps
  <1>5. /\ S(0) = {} /\ S(n) = Range(s)
        /\ \A i \in 1..n : S(i) = S(i - 1) \cup {s[i]}
    BY FirstOnes
  <1>. DEFINE T == {i \in 0..n : Grows(list, L[i], S(i))}
  <1>. HIDE DEF n, S
  <1>6. ASSUME NEW i \in 0..n, \A y \in 0..(i - 1) : y \in T
        PROVE  i \in T
    <2>1. CASE i = 0
      BY <1>4, <1>5, <2>1, GrowsNot
    <2>2. CASE i # 0
      <3>1. i - 1 \in 0..(i - 1) /\ i \in 1..n /\ i - 1 \in 0..n
        BY <1>1, <2>2
      <3>2. Grows(list, L[i - 1], S(i - 1)) /\ L[i - 1] \in Seq(Objects) /\ s[i] \in E
        BY <1>1, <1>4, <1>6, <3>1
      <3>3. Grows(L[i - 1], walk[s[i]][L[i - 1]], {s[i]})
        BY <3>2 DEF Lists, Done
      <3>4. Grows(list, L[i], S(i - 1) \cup {s[i]})
        BY <1>4, <3>1, <3>2, <3>3, GrowsOn
      <3>. QED
        BY <1>5, <3>1, <3>4
    <2>. QED
      BY <2>1, <2>2
  <1>7. \A i \in 0..n : i \in T
    <2>. HIDE DEF T
    <2>. QED
      BY <1>1, <1>6, UpTo
  <1>. QED
    BY <1>1, <1>3, <1>5, <1>7

LEMMA DoneAlready ==
    ASSUME NEW l \in Seq(Objects), NEW n, Contains(l, n)
    PROVE  Done(l, l, n)
  <1>1. n \in Range(l)
    BY LenProperties DEF Contains, Range
  <1>. QED
    BY <1>1 DEF Done, Grows

\* Once what it names is listed, an object is put last.
LEMMA InsertDone ==
    ASSUME GraphInv, NEW l \in Seq(Objects), NEW m, NEW n \in DOMAIN nodes,
           ~Contains(l, n), Grows(l, m, Names(n))
    PROVE  Done(l, Insert(m, n), n)
  <1>. DEFINE r == Insert(m, n)
  <1>1. m \in Seq(Objects) /\ n \in Objects /\ Absent \notin Objects /\ n # Absent
    BY NamesFacts DEF Grows, Objects
  <1>2. n \notin Range(l)
    BY LenProperties DEF Contains, Range
  <1>3. ASSUME Posted(l)
        PROVE  Posted(m) /\ Names(n) \subseteq Range(m) /\ Range(l) \subseteq Range(m)
    BY <1>3 DEF Grows
  <1>4. CASE Posted(l)
    <2>1. Grows(m, r, {n})
      <3>1. {n} \ {Absent} = {n}
        BY <1>1
      <3>. HIDE DEF r
      <3>2. Grows(m, r, {n} \ {Absent})
        BY <1>1, <1>3, <1>4, InsertGrows DEF r
      <3>. QED
        BY <3>1, <3>2
    <2>. DEFINE W == {o \in Objects : o \in Leaves \/ (o \in DOMAIN nodes /\ o < n)}
    <2>2. Whole(W)
      <3>1. ASSUME NEW o \in W, NEW p \in Names(o)
            PROVE  p \in W
        <4>1. CASE o \in Leaves
          BY <3>1, <4>1, NamesFacts
        <4>2. CASE o \in DOMAIN nodes /\ o < n
          <5>1. p \in Objects /\ (p \in Leaves \/ (p \in DOMAIN nodes /\ p < o))
            BY <3>1, <4>2, NamesFacts
          <5>2. DOMAIN nodes \subseteq Nat
            BY KindFacts DEF GraphInv
          <5>. QED
            BY <4>2, <5>1, <5>2
        <4>. QED
          BY <4>1, <4>2
      <3>. QED
        BY <3>1 DEF Whole
    <2>3. Names(n) \subseteq W
      BY NamesFacts
    <2>4. n \notin W
      <3>1. DOMAIN nodes \subseteq Nat
        BY KindFacts DEF GraphInv
      <3>2. n \notin Leaves
        BY NamesFacts
      <3>. QED
        BY <3>1, <3>2
    <2>. HIDE DEF W
    <2>5. Range(m) \subseteq Range(l) \cup W
      BY <1>4, <2>2, <2>3 DEF Grows
    <2>6. n \notin Range(m)
      BY <1>2, <2>4, <2>5
    <2>7. r # <<>> /\ r[Len(r)] = n
      BY <1>1, <1>3, <1>4, <2>6, InsertGrows
    <2>. HIDE DEF r
    <2>8. /\ r \in Seq(Objects) /\ Posted(r) /\ Range(m) \cup {n} \subseteq Range(r)
      BY <1>3, <1>4, <2>1, PostedGrows
    <2>9. ASSUME NEW X, Whole(X), {n} \subseteq X
          PROVE  Range(r) \subseteq Range(l) \cup X
      <3>1. Names(n) \subseteq X
        BY <2>9 DEF Whole
      <3>2. Range(m) \subseteq Range(l) \cup X
        BY <1>4, <2>9, <3>1 DEF Grows
      <3>3. Range(r) \subseteq Range(m) \cup X
        BY <1>3, <1>4, <2>1, <2>9 DEF Grows
      <3>. QED
        BY <3>2, <3>3
    <2>10. Range(l) \cup {n} \subseteq Range(r)
      BY <1>3, <1>4, <2>8
    <2>11. Grows(l, r, {n})
      BY <2>8, <2>9, <2>10 DEF Grows
    <2>. QED
      BY <2>7, <2>11 DEF Done, r
  <1>5. CASE ~Posted(l)
    <2>1. r \in Seq(Objects)
      BY <1>1, AppendProperties DEF Insert
    <2>. QED
      BY <1>5, <2>1 DEF Done, Grows
  <1>. QED
    BY <1>4, <1>5

-----------------------------------------------------------------------------
(* The three walks list what they are asked for.                           *)

LEMMA WalkEachType ==
    ASSUME NEW V, NEW E, NEW walk, NEW list \in V, NEW s \in Seq(E), Closes(walk, E, V)
    PROVE  WalkEach(walk, list, s) \in V
  <1>1. PICK L : Steps(L, V, walk, list, s) /\ WalkEach(walk, list, s) = L[Len(s)]
    BY WalkEachSteps
  <1>2. Len(s) \in Nat
    BY LenProperties
  <1>. QED
    BY <1>1, <1>2 DEF Steps

LEMMA InsertTypes ==
    ASSUME NEW list \in Seq(Objects)
    PROVE  /\ \A o \in Objects \cup {Absent} : Insert(list, o) \in Seq(Objects)
           /\ \A s \in Seq(Objects \cup {Absent}) : InsertAll(list, s) \in Seq(Objects)
  <1>1. \A o \in Objects \cup {Absent} : Insert(list, o) \in Seq(Objects)
    BY AppendProperties DEF Insert
  <1>2. ASSUME NEW s \in Seq(Objects \cup {Absent})
        PROVE  InsertAll(list, s) \in Seq(Objects)
    <2>1. PICK L \in [0..Len(s) -> Seq(Objects)] : InsertAll(list, s) = L[Len(s)]
      BY InsertAllSteps
    <2>2. Len(s) \in Nat
      BY LenProperties
    <2>. QED
      BY <2>1, <2>2
  <1>. QED
    BY <1>1, <1>2

LEMMA RecursionEquation ==
    ASSUME NEW N, NEW D, NEW V, NEW H, Recursive(N, D, V, H)
    PROVE  \E f \in [D -> V] : f = [n \in D |-> H[n][f]]
  <1>1. PICK f \in [D -> V] : \A n \in D : f[n] = H[n][f]
    BY RecursionExists
  <1>2. f = [n \in D |-> H[n][f]]
    BY <1>1
  <1>. QED
    BY <1>2

\* A tensor's fields.
LEMMA TensorFields ==
    ASSUME GraphInv, NEW n \in Kind("tensor")
    PROVE  /\ n \in DOMAIN nodes /\ LeavesOf(nodes[n]) \in Seq(Leaves \cup {Absent})
           /\ nodes[n].base \in Older(n, "tensor") \cup {Absent}
           /\ Names(n) = ({nodes[n].base} \ {Absent}) \cup (Range(LeavesOf(nodes[n])) \ {Absent})
  <1>. DEFINE t == nodes[n]
              own == <<t.row, t.col>>
  <1>1. n \in DOMAIN nodes /\ t.kind = "tensor"
    BY DEF Kind
  <1>2. t \in Node
    BY <1>1, ElementOfSeq, KindFacts DEF GraphInv
  <1>3. /\ t.chunks \in Seq(Chunks)
        /\ t.row \in Perms \cup {Absent} /\ t.col \in Perms \cup {Absent}
    BY <1>1, <1>2 DEF Node
  <1>4. own \in Seq(Leaves \cup {Absent}) /\ Len(own) = 2 /\ own[1] = t.row /\ own[2] = t.col
    BY <1>3 DEF Leaves
  <1>5. t.chunks \in Seq(Leaves \cup {Absent})
    <2>1. Chunks \subseteq Leaves \cup {Absent}
      BY DEF Leaves
    <2>. QED
      BY <1>3, <2>1, SeqMonotonic
  <1>. HIDE DEF t
  <1>. DEFINE s == own \o t.chunks
              k == Len(t.chunks)
  <1>6. /\ s \in Seq(Leaves \cup {Absent}) /\ Len(s) = 2 + k
        /\ \A i \in 1..(2 + k) : s[i] = IF i <= 2 THEN own[i] ELSE t.chunks[i - 2]
    BY <1>4, <1>5, ConcatProperties
  <1>7. DOMAIN s = 1..(2 + k) /\ k \in Nat /\ DOMAIN t.chunks = 1..k
    BY <1>5, <1>6, LenProperties
  <1>8. Range(s) = {t.row, t.col} \cup Range(t.chunks)
    <2>1. 1 \in DOMAIN s /\ 2 \in DOMAIN s /\ s[1] = t.row /\ s[2] = t.col
      BY <1>4, <1>6, <1>7
    <2>2. \A i \in DOMAIN t.chunks : i + 2 \in DOMAIN s /\ s[i + 2] = t.chunks[i]
      BY <1>6, <1>7
    <2>3. \A i \in DOMAIN s : i = 1 \/ i = 2 \/ (i - 2 \in DOMAIN t.chunks /\ s[i] = t.chunks[i - 2])
      BY <1>6, <1>7
    <2>. HIDE DEF s
    <2>. QED
      BY <2>1, <2>2, <2>3 DEF Range
  <1>9. Names(n) = ({t.base, t.row, t.col} \cup Range(t.chunks)) \ {Absent}
    <2>1. Names(n) = Fields(t) \ {Absent}
      BY <1>1, NamesFacts DEF t
    <2>. QED
      BY <1>1, <2>1 DEF Fields
  <1>10. LeavesOf(t) = s
    BY DEF LeavesOf
  <1>11. t.base \in Older(n, "tensor") \cup {Absent}
    BY DEF GraphInv, t
  <1>. HIDE DEF s
  <1>12. Names(n) = ({t.base} \ {Absent}) \cup (Range(LeavesOf(t)) \ {Absent})
    BY <1>8, <1>9, <1>10
  <1>. QED
    BY <1>1, <1>6, <1>10, <1>11, <1>12 DEF t

\* One step of the walk of tensors.
TensorStep(walk, n, l) ==
    IF Contains(l, n) THEN l
    ELSE Insert(InsertAll(IF nodes[n].base = Absent THEN l ELSE walk[nodes[n].base][l],
                          LeavesOf(nodes[n])), n)

LEMMA TensorStepDone ==
    ASSUME GraphInv, NEW walk, NEW n \in Kind("tensor"), NEW l \in Seq(Objects),
           Lists(walk, Older(n, "tensor"))
    PROVE  Done(l, TensorStep(walk, n, l), n)
  <1>. DEFINE t == nodes[n]
              below == IF t.base = Absent THEN l ELSE walk[t.base][l]
              m == InsertAll(below, LeavesOf(t))
  <1>1. /\ n \in DOMAIN nodes /\ LeavesOf(t) \in Seq(Leaves \cup {Absent})
        /\ t.base \in Older(n, "tensor") \cup {Absent}
        /\ Names(n) = ({t.base} \ {Absent}) \cup (Range(LeavesOf(t)) \ {Absent})
    BY TensorFields
  <1>. HIDE DEF t
  <1>2. Grows(l, below, {t.base} \ {Absent})
    <2>1. CASE t.base = Absent
      <3>1. below = l /\ {t.base} \ {Absent} = {}
        BY <2>1
      <3>. QED
        BY <3>1, GrowsNot
    <2>2. CASE t.base # Absent
      <3>1. below = walk[t.base][l] /\ {t.base} \ {Absent} = {t.base}
        BY <2>2
      <3>2. Grows(l, walk[t.base][l], {t.base})
        BY <1>1, <2>2 DEF Lists, Done
      <3>. QED
        BY <3>1, <3>2
    <2>. QED
      BY <2>1, <2>2
  <1>. HIDE DEF below
  <1>3. Grows(below, m, Range(LeavesOf(t)) \ {Absent})
    <2>1. below \in Seq(Objects)
      BY <1>2 DEF Grows
    <2>. QED
      BY <1>1, <2>1, InsertAllGrows
  <1>. HIDE DEF m
  <1>4. Grows(l, m, Names(n))
    BY <1>1, <1>2, <1>3, GrowsOn
  <1>5. TensorStep(walk, n, l) = IF Contains(l, n) THEN l ELSE Insert(m, n)
    BY DEF TensorStep, m, below, t
  <1>6. CASE Contains(l, n)
    BY <1>5, <1>6, DoneAlready
  <1>7. CASE ~Contains(l, n)
    <2>1. Done(l, Insert(m, n), n)
      BY <1>1, <1>4, <1>7, InsertDone
    <2>. QED
      BY <1>5, <1>7, <2>1
  <1>. QED
    BY <1>6, <1>7

LEMMA TensorWalkIs ==
    ASSUME GraphInv
    PROVE  \A n \in Kind("tensor") : \A l \in Seq(Objects) :
              TensorWalk[n][l] = TensorStep(TensorWalk, n, l)
  <1>. DEFINE D == Kind("tensor")
              V == [Seq(Objects) -> Seq(Objects)]
              Body(w) == [n \in D |-> [l \in Seq(Objects) |-> TensorStep(w, n, l)]]
              Row(n, w) == [l \in Seq(Objects) |-> TensorStep(w, n, l)]
              H == [n \in D |-> [w \in [D -> V] |-> Row(n, w)]]
  <1>1. \A n \in D : /\ n \in Objects /\ LeavesOf(nodes[n]) \in Seq(Objects \cup {Absent})
                     /\ nodes[n].base \in Older(n, "tensor") \cup {Absent}
    <2>1. Leaves \cup {Absent} \subseteq Objects \cup {Absent}
      BY DEF Objects
    <2>. QED
      BY <2>1, TensorFields, SeqMonotonic DEF Objects
  <1>2. \A n \in D : Older(n, "tensor") \subseteq D
    BY DEF Older
  <1>3. ASSUME NEW n \in D, NEW w \in [D -> V], NEW l \in Seq(Objects)
        PROVE  TensorStep(w, n, l) \in Seq(Objects)
    <2>. DEFINE below == IF nodes[n].base = Absent THEN l ELSE w[nodes[n].base][l]
    <2>1. below \in Seq(Objects)
      <3>1. CASE nodes[n].base = Absent
        BY <3>1
      <3>2. CASE nodes[n].base # Absent
        <4>1. nodes[n].base \in D
          BY <1>1, <1>2, <3>2
        <4>. QED
          BY <3>2, <4>1
      <3>. QED
        BY <3>1, <3>2
    <2>. HIDE DEF below, D
    <2>2. InsertAll(below, LeavesOf(nodes[n])) \in Seq(Objects)
      BY <1>1, <2>1, InsertTypes
    <2>3. Insert(InsertAll(below, LeavesOf(nodes[n])), n) \in Seq(Objects)
      BY <1>1, <2>2, InsertTypes
    <2>. QED
      BY <2>3 DEF TensorStep, below
  <1>4. ASSUME NEW n \in D, NEW f \in [D -> V], NEW g \in [D -> V],
               \A m \in D : m < n => f[m] = g[m]
        PROVE  Row(n, f) = Row(n, g)
    <2>1. nodes[n].base # Absent => f[nodes[n].base] = g[nodes[n].base]
      BY <1>1, <1>4 DEF Older
    <2>. HIDE DEF D, V
    <2>2. \A l : TensorStep(f, n, l) = TensorStep(g, n, l)
      BY <2>1 DEF TensorStep
    <2>. QED
      BY <2>2
  <1>5. Recursive(Len(nodes), D, V, H)
    <2>1. Len(nodes) \in Nat /\ D \subseteq 1..Len(nodes)
      BY KindFacts DEF GraphInv
    <2>2. [l \in Seq(Objects) |-> l] \in V
      OBVIOUS
    <2>3. \A n \in D : \A w \in [D -> V] : Row(n, w) \in V
      BY <1>3
    <2>. HIDE DEF D, V, Row
    <2>4. H \in [D -> [[D -> V] -> V]]
      BY <2>3
    <2>5. \A n \in D : \A w \in [D -> V] : H[n][w] = Row(n, w)
      OBVIOUS
    <2>. HIDE DEF H
    <2>6. \A n \in D : \A f, g \in [D -> V] :
             (\A m \in D : m < n => f[m] = g[m]) => H[n][f] = H[n][g]
      BY <1>4, <2>5
    <2>. QED
      BY <2>1, <2>2, <2>4, <2>6 DEF Recursive
  <1>6. \E f : f = Body(f)
    <2>1. PICK f \in [D -> V] : f = [n \in D |-> H[n][f]]
      <3>. HIDE DEF D, V, H
      <3>. QED
        BY <1>5, RecursionEquation
    <2>. HIDE DEF D, V
    <2>2. \A n \in D : H[n][f] = [l \in Seq(Objects) |-> TensorStep(f, n, l)]
      OBVIOUS
    <2>. HIDE DEF H
    <2>3. f = Body(f)
      BY <2>1, <2>2
    <2>. QED
      BY <2>3
  <1>7. TensorWalk = CHOOSE f : f = Body(f)
    BY DEF TensorWalk, TensorStep
  <1>8. TensorWalk = Body(TensorWalk)
    <2>. HIDE DEF Body
    <2>. QED
      BY <1>6, <1>7
  <1>. HIDE DEF D
  <1>9. \A n \in D : \A l \in Seq(Objects) : Body(TensorWalk)[n][l] = TensorStep(TensorWalk, n, l)
    OBVIOUS
  <1>. HIDE DEF Body
  <1>. QED
    BY <1>8, <1>9, Zenon DEF D

LEMMA TensorWalkLists ==
    ASSUME GraphInv
    PROVE  Lists(TensorWalk, Kind("tensor"))
  <1>. DEFINE T == {n \in 0..Len(nodes) : n \in Kind("tensor") => Lists(TensorWalk, {n})}
  <1>1. ASSUME NEW n \in 0..Len(nodes), \A k \in 0..(n - 1) : k \in T
        PROVE  n \in T
    <2>1. CASE n \in Kind("tensor")
      <3>1. \A k \in Older(n, "tensor") : k \in 0..(n - 1) /\ k \in Kind("tensor")
        BY KindFacts DEF Older, GraphInv
      <3>2. Lists(TensorWalk, Older(n, "tensor"))
        BY <1>1, <3>1 DEF Lists
      <3>3. \A l \in Seq(Objects) : Done(l, TensorWalk[n][l], n)
        BY <2>1, <3>2, TensorWalkIs, TensorStepDone
      <3>. QED
        BY <3>3 DEF Lists
    <2>. QED
      BY <2>1
  <1>2. Len(nodes) \in Nat /\ Kind("tensor") \subseteq 0..Len(nodes)
    BY KindFacts DEF GraphInv
  <1>3. \A n \in 0..Len(nodes) : n \in T
    <2>. HIDE DEF T
    <2>. QED
      BY <1>1, <1>2, UpTo
  <1>. QED
    BY <1>2, <1>3 DEF Lists

LEMMA CheckpointWalkDone ==
    ASSUME GraphInv, NEW n \in Kind("checkpoint"), NEW l \in Seq(Objects)
    PROVE  Done(l, CheckpointWalk(l, n), n)
  <1>. DEFINE k == nodes[n]
              fields == HeaderAndConfig(k)
              own == InsertAll(l, fields)
              m == WalkEach(TensorWalk, own, k.tensors)
  <1>1. n \in DOMAIN nodes /\ k.kind = "checkpoint"
    BY DEF Kind
  <1>2. k \in Node
    BY <1>1, ElementOfSeq, KindFacts DEF GraphInv
  <1>3. k.header \in Headers /\ k.config \in Configs \cup {Absent}
    BY <1>1, <1>2 DEF Node
  <1>4. k.tensors \in Seq(Kind("tensor"))
    <2>1. Older(n, "tensor") \subseteq Kind("tensor") /\ k.tensors \in Seq(Older(n, "tensor"))
      BY DEF GraphInv, Older
    <2>. QED
      BY <2>1, SeqMonotonic
  <1>5. Names(n) = ({k.header, k.config} \cup Range(k.tensors)) \ {Absent}
    <2>1. Names(n) = Fields(k) \ {Absent}
      BY <1>1, NamesFacts
    <2>. HIDE DEF k
    <2>. QED
      BY <1>1, <2>1 DEF Fields
  <1>. HIDE DEF k
  <1>6. fields \in Seq(Leaves \cup {Absent}) /\ Range(fields) = {k.header, k.config}
    <2>1. fields = <<k.header, k.config>>
      BY DEF HeaderAndConfig
    <2>2. fields \in Seq(Leaves \cup {Absent})
      BY <1>3, <2>1 DEF Leaves
    <2>3. DOMAIN fields = {1, 2} /\ fields[1] = k.header /\ fields[2] = k.config
      BY <2>1
    <2>. QED
      BY <2>2, <2>3 DEF Range
  <1>. HIDE DEF fields
  <1>7. Grows(l, own, {k.header, k.config} \ {Absent})
    BY <1>6, InsertAllGrows
  <1>8. Grows(own, m, Range(k.tensors))
    <2>1. own \in Seq(Objects)
      BY <1>7 DEF Grows
    <2>. HIDE DEF own
    <2>. QED
      BY <1>4, <2>1, TensorWalkLists, WalkEachGrows
  <1>9. Names(n) = ({k.header, k.config} \ {Absent}) \cup Range(k.tensors)
    <2>1. Range(k.tensors) \subseteq Kind("tensor")
      BY <1>4, RangeOfSeq
    <2>2. Absent \notin Kind("tensor")
      BY NamesFacts, KindFacts DEF GraphInv
    <2>. QED
      BY <1>5, <2>1, <2>2
  <1>. HIDE DEF own, m
  <1>10. Grows(l, m, Names(n))
    BY <1>7, <1>8, <1>9, GrowsOn
  <1>11. CheckpointWalk(l, n) = IF Contains(l, n) THEN l ELSE Insert(m, n)
    BY DEF CheckpointWalk, m, own, fields, k
  <1>12. CASE Contains(l, n)
    BY <1>11, <1>12, DoneAlready
  <1>13. CASE ~Contains(l, n)
    <2>1. Done(l, Insert(m, n), n)
      BY <1>1, <1>10, <1>13, InsertDone
    <2>. QED
      BY <1>11, <1>13, <2>1
  <1>. QED
    BY <1>12, <1>13

\* One step of the walk of commits.
CommitStep(walk, n, l) ==
    IF Contains(l, n) THEN l
    ELSE Insert(WalkEach(walk, CheckpointWalk(l, nodes[n].checkpoint), nodes[n].parents), n)

LEMMA CommitFields ==
    ASSUME GraphInv, NEW n \in Kind("commit")
    PROVE  /\ n \in DOMAIN nodes /\ nodes[n].checkpoint \in Kind("checkpoint")
           /\ nodes[n].parents \in Seq(Older(n, "commit")) /\ Older(n, "commit") \subseteq Kind("commit")
           /\ Names(n) = {nodes[n].checkpoint} \cup Range(nodes[n].parents)
           /\ \A l \in Seq(Objects) :
                 /\ CheckpointWalk(l, nodes[n].checkpoint) \in Seq(Objects)
                 /\ Grows(l, CheckpointWalk(l, nodes[n].checkpoint), {nodes[n].checkpoint})
  <1>. DEFINE c == nodes[n]
  <1>1. n \in DOMAIN nodes /\ c.kind = "commit"
    BY DEF Kind
  <1>2. /\ c.checkpoint \in Kind("checkpoint") /\ c.parents \in Seq(Older(n, "commit"))
        /\ Older(n, "commit") \subseteq Kind("commit")
    BY DEF GraphInv, Older
  <1>3. Names(n) = Fields(c) \ {Absent}
    BY <1>1, NamesFacts
  <1>. HIDE DEF c
  <1>4. Range(c.parents) \subseteq Kind("commit")
    BY <1>2, RangeOfSeq
  <1>5. Absent \notin Kind("commit") /\ Absent \notin Kind("checkpoint")
    BY NamesFacts, KindFacts DEF GraphInv
  <1>6. Names(n) = {c.checkpoint} \cup Range(c.parents)
    BY <1>1, <1>2, <1>3, <1>4, <1>5 DEF Fields
  <1>7. \A l \in Seq(Objects) : Grows(l, CheckpointWalk(l, c.checkpoint), {c.checkpoint})
    BY <1>2, CheckpointWalkDone DEF Done
  <1>. QED
    BY <1>1, <1>2, <1>6, <1>7 DEF c, Grows

LEMMA CommitStepDone ==
    ASSUME GraphInv, NEW walk, NEW n \in Kind("commit"), NEW l \in Seq(Objects),
           Lists(walk, Older(n, "commit"))
    PROVE  Done(l, CommitStep(walk, n, l), n)
  <1>. DEFINE c == CheckpointWalk(l, nodes[n].checkpoint)
              m == WalkEach(walk, c, nodes[n].parents)
  <1>1. c \in Seq(Objects) /\ Grows(l, c, {nodes[n].checkpoint})
    BY CommitFields
  <1>. HIDE DEF c
  <1>2. Grows(c, m, Range(nodes[n].parents))
    BY <1>1, CommitFields, WalkEachGrows
  <1>. HIDE DEF m
  <1>3. Grows(l, m, Names(n))
    <2>1. Grows(l, m, {nodes[n].checkpoint} \cup Range(nodes[n].parents))
      BY <1>1, <1>2, GrowsOn
    <2>. QED
      BY <2>1, CommitFields
  <1>4. CommitStep(walk, n, l) = IF Contains(l, n) THEN l ELSE Insert(m, n)
    BY DEF CommitStep, m, c
  <1>5. CASE Contains(l, n)
    BY <1>4, <1>5, DoneAlready
  <1>6. CASE ~Contains(l, n)
    <2>1. Done(l, Insert(m, n), n)
      BY <1>3, <1>6, CommitFields, InsertDone
    <2>. QED
      BY <1>4, <1>6, <2>1
  <1>. QED
    BY <1>5, <1>6

LEMMA CommitWalkIs ==
    ASSUME GraphInv
    PROVE  \A n \in Kind("commit") : \A l \in Seq(Objects) :
              CommitWalk[n][l] = CommitStep(CommitWalk, n, l)
  <1>. DEFINE D == Kind("commit")
              V == [Seq(Objects) -> Seq(Objects)]
              Cell(w, n, l) ==
                 IF Contains(l, n) THEN l
                 ELSE CommitLast(CheckpointWalk(l, nodes[n].checkpoint), n,
                                 [m \in Seq(Objects) |-> WalkEach(w, m, nodes[n].parents)])
              Body(w) == [n \in D |-> [l \in Seq(Objects) |-> Cell(w, n, l)]]
              Row(n, w) == [l \in Seq(Objects) |-> Cell(w, n, l)]
              H == [n \in D |-> [w \in [D -> V] |-> Row(n, w)]]
  <1>1. \A n \in D : /\ n \in Objects /\ nodes[n].parents \in Seq(Older(n, "commit"))
                     /\ Older(n, "commit") \subseteq D
    BY CommitFields DEF Objects
  <1>2. \A w : \A n \in D : \A l \in Seq(Objects) : Cell(w, n, l) = CommitStep(w, n, l)
    <2>1. ASSUME NEW w, NEW n \in D, NEW l \in Seq(Objects)
          PROVE  Cell(w, n, l) = CommitStep(w, n, l)
      <3>. DEFINE c == CheckpointWalk(l, nodes[n].checkpoint)
                  each == [m \in Seq(Objects) |-> WalkEach(w, m, nodes[n].parents)]
      <3>1. c \in Seq(Objects)
        BY CommitFields
      <3>. HIDE DEF c
      <3>2. each[c] = WalkEach(w, c, nodes[n].parents)
        BY <3>1
      <3>. QED
        BY <3>2 DEF CommitStep, CommitLast, c
    <2>. QED
      BY <2>1
  <1>3. ASSUME NEW n \in D, NEW w \in [D -> V]
        PROVE  Closes(w, Older(n, "commit"), Seq(Objects))
    BY <1>1 DEF Closes
  <1>4. ASSUME NEW n \in D, NEW w \in [D -> V], NEW l \in Seq(Objects)
        PROVE  CommitStep(w, n, l) \in Seq(Objects)
    <2>1. CheckpointWalk(l, nodes[n].checkpoint) \in Seq(Objects)
      BY CommitFields
    <2>2. WalkEach(w, CheckpointWalk(l, nodes[n].checkpoint), nodes[n].parents) \in Seq(Objects)
      BY <1>1, <1>3, <2>1, WalkEachType
    <2>. HIDE DEF D
    <2>3. Insert(WalkEach(w, CheckpointWalk(l, nodes[n].checkpoint), nodes[n].parents), n)
          \in Seq(Objects)
      BY <1>1, <2>2, InsertTypes
    <2>. QED
      BY <2>3 DEF CommitStep
  <1>5. ASSUME NEW n \in D, NEW f \in [D -> V], NEW g \in [D -> V],
               \A m \in D : m < n => f[m] = g[m]
        PROVE  \A l \in Seq(Objects) : CommitStep(f, n, l) = CommitStep(g, n, l)
    <2>1. \A e \in Older(n, "commit") : \A v \in Seq(Objects) : f[e][v] = g[e][v]
      BY <1>5 DEF Older
    <2>2. \A l \in Seq(Objects) : CheckpointWalk(l, nodes[n].checkpoint) \in Seq(Objects)
      BY CommitFields
    <2>3. nodes[n].parents \in Seq(Older(n, "commit"))
      BY <1>1
    <2>4. Closes(f, Older(n, "commit"), Seq(Objects))
      BY <1>3
    <2>. HIDE DEF D, V
    <2>5. \A l \in Seq(Objects) : WalkEach(f, l, nodes[n].parents) = WalkEach(g, l, nodes[n].parents)
      BY <2>1, <2>3, <2>4, WalkEachAgree
    <2>. QED
      BY <2>2, <2>5 DEF CommitStep
  <1>. HIDE DEF Cell
  <1>6. Recursive(Len(nodes), D, V, H)
    <2>1. Len(nodes) \in Nat /\ D \subseteq 1..Len(nodes)
      BY KindFacts DEF GraphInv
    <2>2. [l \in Seq(Objects) |-> l] \in V
      OBVIOUS
    <2>3. \A n \in D : \A w \in [D -> V] : Row(n, w) \in V
      BY <1>2, <1>4
    <2>. HIDE DEF D, V
    <2>4. \A n \in D : \A f, g \in [D -> V] :
             (\A m \in D : m < n => f[m] = g[m]) => Row(n, f) = Row(n, g)
      BY <1>2, <1>5
    <2>. HIDE DEF Row
    <2>5. H \in [D -> [[D -> V] -> V]]
      BY <2>3
    <2>6. \A n \in D : \A w \in [D -> V] : H[n][w] = Row(n, w)
      OBVIOUS
    <2>. HIDE DEF H
    <2>7. \A n \in D : \A f, g \in [D -> V] :
             (\A m \in D : m < n => f[m] = g[m]) => H[n][f] = H[n][g]
      BY <2>4, <2>6
    <2>. QED
      BY <2>1, <2>2, <2>5, <2>7 DEF Recursive
  <1>7. \E f : f = Body(f)
    <2>1. PICK f \in [D -> V] : f = [n \in D |-> H[n][f]]
      <3>. HIDE DEF D, V, H
      <3>. QED
        BY <1>6, RecursionEquation
    <2>. HIDE DEF D, V
    <2>2. \A n \in D : H[n][f] = [l \in Seq(Objects) |-> Cell(f, n, l)]
      OBVIOUS
    <2>. HIDE DEF H
    <2>3. f = Body(f)
      BY <2>1, <2>2
    <2>. QED
      BY <2>3
  <1>8. CommitWalk = CHOOSE f : f = Body(f)
    BY DEF CommitWalk, Cell
  <1>9. CommitWalk = Body(CommitWalk)
    <2>. HIDE DEF Body
    <2>. QED
      BY <1>7, <1>8
  <1>10. \A n \in D : \A l \in Seq(Objects) : Body(CommitWalk)[n][l] = Cell(CommitWalk, n, l)
    OBVIOUS
  <1>. HIDE DEF Body
  <1>11. \A n \in D : \A l \in Seq(Objects) : CommitWalk[n][l] = Cell(CommitWalk, n, l)
    BY <1>9, <1>10, Zenon
  <1>. QED
    BY <1>2, <1>11

LEMMA CommitWalkLists ==
    ASSUME GraphInv
    PROVE  Lists(CommitWalk, Kind("commit"))
  <1>. DEFINE T == {n \in 0..Len(nodes) : n \in Kind("commit") => Lists(CommitWalk, {n})}
  <1>1. ASSUME NEW n \in 0..Len(nodes), \A k \in 0..(n - 1) : k \in T
        PROVE  n \in T
    <2>1. CASE n \in Kind("commit")
      <3>1. \A k \in Older(n, "commit") : k \in 0..(n - 1) /\ k \in Kind("commit")
        BY KindFacts DEF Older, GraphInv
      <3>2. Lists(CommitWalk, Older(n, "commit"))
        BY <1>1, <3>1 DEF Lists
      <3>3. \A l \in Seq(Objects) : Done(l, CommitWalk[n][l], n)
        BY <2>1, <3>2, CommitWalkIs, CommitStepDone
      <3>. QED
        BY <3>3 DEF Lists
    <2>. QED
      BY <2>1
  <1>2. Len(nodes) \in Nat /\ Kind("commit") \subseteq 0..Len(nodes)
    BY KindFacts DEF GraphInv
  <1>3. \A n \in 0..Len(nodes) : n \in T
    <2>. HIDE DEF T
    <2>. QED
      BY <1>1, <1>2, UpTo
  <1>. QED
    BY <1>2, <1>3 DEF Lists

-----------------------------------------------------------------------------
(* What a commit leads to.                                                 *)

LEMMA NamesAreObjects ==
    ASSUME GraphInv, NEW o \in Objects
    PROVE  Names(o) \subseteq Objects
  BY NamesFacts DEF Objects

LEMMA ReachableSteps ==
    ASSUME GraphInv, NEW tip \in DOMAIN nodes
    PROVE  \E R \in [0..Len(nodes) -> SUBSET Objects] :
              /\ R[0] = {tip} /\ Reachable(tip) = R[Len(nodes)]
              /\ \A n \in 1..Len(nodes) : R[n] = R[n - 1] \cup UNION {Names(o) : o \in R[n - 1]}
  <1>. DEFINE N == Len(nodes)
              V == SUBSET Objects
              next == [x \in 0..N |-> x - 1]
              last == [x \in {0} |-> {tip}]
              step == [s \in V |-> s \cup UNION {Names(o) : o \in s}]
              Levels(R) == R = [n \in 0..N |-> IF n = 0 THEN {tip}
                                   ELSE LET s == R[n - 1] IN s \cup UNION {Names(o) : o \in s}]
  <1>1. N \in Nat /\ tip \in Objects
    BY KindFacts DEF GraphInv
  <1>2. \A s \in V : s \cup UNION {Names(o) : o \in s} \in V
    BY NamesAreObjects
  <1>3. Walkable(N, V, {0}, next, last, step)
    <2>1. step \in [V -> V]
      BY <1>2
    <2>2. \A x \in 0..N : x \in {0} => last[x] \in V
      BY <1>1
    <2>3. \A x \in 0..N : x \notin {0} => next[x] \in 0..(x - 1)
      BY <1>1
    <2>. HIDE DEF N, V, next, last, step
    <2>. QED
      BY <1>1, <2>1, <2>2, <2>3 DEF Walkable
  <1>4. PICK f : Walks(f, N, V, {0}, next, last, step)
    <2>. HIDE DEF N, V, next, last, step
    <2>. QED
      BY <1>3, WalkExists
  <1>5. /\ f \in [0..N -> V] /\ f[0] = {tip}
        /\ \A n \in 1..N : f[n] = f[n - 1] \cup UNION {Names(o) : o \in f[n - 1]}
    <2>1. /\ f \in [0..N -> V]
          /\ \A x \in 0..N : f[x] = IF x \in {0} THEN last[x] ELSE step[f[next[x]]]
      BY <1>4 DEF Walks
    <2>2. f[0] = {tip}
      <3>1. last[0] = {tip} /\ 0 \in 0..N /\ 0 \in {0}
        BY <1>1
      <3>. HIDE DEF last, N
      <3>. QED
        BY <2>1, <3>1, Zenon
    <2>3. ASSUME NEW n \in 1..N
          PROVE  f[n] = f[n - 1] \cup UNION {Names(o) : o \in f[n - 1]}
      <3>1. n \in 0..N /\ n \notin {0} /\ n - 1 \in 0..N
        BY <1>1
      <3>2. next[n] = n - 1 /\ f[n - 1] \in V
        BY <2>1, <3>1
      <3>3. f[n] = step[f[n - 1]]
        BY <2>1, <3>1, <3>2
      <3>. HIDE DEF V
      <3>. QED
        BY <3>2, <3>3
    <2>. QED
      BY <2>1, <2>2, <2>3
  <1>. HIDE DEF V
  <1>6. \E R : Levels(R)
    <2>1. \A n \in 0..N : n # 0 => n \in 1..N
      BY <1>1
    <2>2. f = [n \in 0..N |-> f[n]]
      BY <1>5
    <2>. HIDE DEF N
    <2>3. Levels(f)
      BY <1>5, <2>1, <2>2, Zenon
    <2>. QED
      BY <2>3
  <1>. DEFINE R == CHOOSE R : Levels(R)
  <1>7. Reachable(tip) = R[N]
    BY DEF Reachable
  <1>8. Levels(R)
    <2>. HIDE DEF Levels
    <2>. QED
      BY <1>6
  <1>. HIDE DEF R
  <1>9. R[0] = {tip}
    BY <1>1, <1>8
  <1>10. \A n \in 1..N : R[n] = R[n - 1] \cup UNION {Names(o) : o \in R[n - 1]}
    <2>1. \A n \in 1..N : n \in 0..N /\ n # 0
      BY <1>1
    <2>. HIDE DEF N
    <2>. QED
      BY <1>8, <2>1, Zenon
  <1>. HIDE DEF Levels
  <1>. DEFINE T == {n \in 0..N : R[n] \in V}
  <1>11. ASSUME NEW n \in 0..N, \A y \in 0..(n - 1) : y \in T
         PROVE  n \in T
    <2>1. CASE n = 0
      BY <1>1, <1>9, <2>1 DEF V
    <2>2. CASE n # 0
      <3>1. n - 1 \in 0..(n - 1) /\ n \in 1..N
        BY <1>1, <2>2
      <3>. QED
        BY <1>2, <1>10, <1>11, <3>1
    <2>. QED
      BY <2>1, <2>2
  <1>12. \A n \in 0..N : n \in T
    <2>. HIDE DEF T, N
    <2>. QED
      BY <1>1, <1>11, UpTo
  <1>13. R = [n \in 0..N |-> R[n]]
    BY <1>8 DEF Levels
  <1>14. R \in [0..N -> V]
    BY <1>12, <1>13
  <1>. QED
    BY <1>7, <1>9, <1>10, <1>14 DEF V

\* Numbers only fall, so the levels are exhausted, and all that a commit leads
\* to is in every set that holds it and what its members name.
LEMMA ReachableWhole ==
    ASSUME GraphInv, NEW tip \in DOMAIN nodes
    PROVE  /\ Whole(Reachable(tip)) /\ tip \in Reachable(tip)
           /\ \A W : Whole(W) /\ tip \in W => Reachable(tip) \subseteq W
  <1>. DEFINE N == Len(nodes)
  <1>1. N \in Nat /\ DOMAIN nodes = 1..N
    BY KindFacts DEF GraphInv
  <1>2. PICK R \in [0..N -> SUBSET Objects] :
              /\ R[0] = {tip} /\ Reachable(tip) = R[N]
              /\ \A n \in 1..N : R[n] = R[n - 1] \cup UNION {Names(o) : o \in R[n - 1]}
    BY ReachableSteps
  <1>. HIDE DEF N
  <1>. DEFINE Low(n) == \A o \in R[n] : Names(o) \subseteq R[n] \/ (o \in DOMAIN nodes /\ o + n <= tip)
              T == {n \in 0..N : tip \in R[n] /\ Low(n)}
  <1>3. ASSUME NEW n \in 0..N, \A y \in 0..(n - 1) : y \in T
        PROVE  n \in T
    <2>1. CASE n = 0
      BY <1>1, <1>2, <2>1
    <2>2. CASE n # 0
      <3>1. n - 1 \in 0..(n - 1) /\ n \in 1..N /\ n - 1 \in 0..N
        BY <1>1, <2>2
      <3>2. /\ R[n] = R[n - 1] \cup UNION {Names(o) : o \in R[n - 1]}
            /\ tip \in R[n - 1] /\ Low(n - 1) /\ R[n - 1] \subseteq Objects
        BY <1>2, <1>3, <3>1
      <3>3. ASSUME NEW o \in R[n], ~(Names(o) \subseteq R[n])
            PROVE  o \in DOMAIN nodes /\ o + n <= tip
        <4>1. o \notin R[n - 1]
          BY <3>2, <3>3
        <4>2. PICK p \in R[n - 1] : o \in Names(p)
          BY <3>2, <4>1
        <4>3. p \in DOMAIN nodes /\ p + (n - 1) <= tip
          BY <3>2, <4>1, <4>2
        <4>4. o \in DOMAIN nodes /\ o < p
          BY <3>3, <4>2, <4>3, NamesFacts
        <4>. QED
          BY <1>1, <4>3, <4>4
      <3>. QED
        BY <3>2, <3>3
    <2>. QED
      BY <2>1, <2>2
  <1>4. \A n \in 0..N : n \in T
    <2>. HIDE DEF T
    <2>. QED
      BY <1>1, <1>3, UpTo
  <1>5. N \in 0..N
    BY <1>1
  <1>6. tip \in R[N] /\ Low(N)
    BY <1>4, <1>5
  <1>7. Whole(R[N])
    <2>1. \A o \in DOMAIN nodes : ~(o + N <= tip)
      BY <1>1
    <2>. QED
      BY <1>6, <2>1 DEF Whole
  <1>8. ASSUME NEW W, Whole(W), tip \in W
        PROVE  R[N] \subseteq W
    <2>. DEFINE X == {n \in 0..N : R[n] \subseteq W}
    <2>1. ASSUME NEW n \in 0..N, \A y \in 0..(n - 1) : y \in X
          PROVE  n \in X
      <3>1. CASE n = 0
        BY <1>2, <1>8, <3>1
      <3>2. CASE n # 0
        <4>1. n - 1 \in 0..(n - 1) /\ n \in 1..N
          BY <1>1, <3>2
        <4>. QED
          BY <1>2, <1>8, <2>1, <4>1 DEF Whole
      <3>. QED
        BY <3>1, <3>2
    <2>2. \A n \in 0..N : n \in X
      <3>. HIDE DEF X
      <3>. QED
        BY <1>1, <2>1, UpTo
    <2>. QED
      BY <1>5, <2>2
  <1>. QED
    BY <1>2, <1>6, <1>7, <1>8

-----------------------------------------------------------------------------
(* The two properties of the walk.                                         *)

LEMMA WalkDone ==
    ASSUME GraphInv, NEW c \in Kind("commit")
    PROVE  /\ Walk(c) \in Seq(Objects) /\ Posted(Walk(c)) /\ c \in Range(Walk(c))
           /\ Walk(c)[Len(Walk(c))] = c
           /\ \A W : Whole(W) /\ c \in W => Range(Walk(c)) \subseteq W
  <1>1. <<>> \in Seq(Objects) /\ Posted(<<>>) /\ Range(<<>>) = {}
    BY EmptySeq DEF Posted, Range
  <1>2. Done(<<>>, Walk(c), c)
    BY <1>1, CommitWalkLists DEF Lists, Walk
  <1>. QED
    BY <1>1, <1>2 DEF Done, Grows

\* What the sender lists is installed in order: no object comes twice, none
\* before what it names, and the commit is the last.
THEOREM PostOrder == Spec => []WalkIsPostOrder
  <1>1. GraphInv => WalkIsPostOrder
    BY WalkDone DEF WalkIsPostOrder, Posted
  <1>. QED
    BY <1>1, GraphInvHolds, PTL

\* What the sender lists is all the commit leads to and nothing else.
THEOREM Complete == Spec => []WalkIsComplete
  <1>1. ASSUME GraphInv, NEW c \in Kind("commit")
        PROVE  Range(Walk(c)) = Reachable(c)
    <2>1. c \in DOMAIN nodes
      BY DEF Kind
    <2>2. Range(Walk(c)) \subseteq Reachable(c)
      BY <1>1, <2>1, ReachableWhole, WalkDone
    <2>3. Whole(Range(Walk(c)))
      <3>. DEFINE l == Walk(c)
      <3>1. DOMAIN l = 1..Len(l) /\ Len(l) \in Nat
        BY <1>1, WalkDone, LenProperties
      <3>2. \A i \in DOMAIN l : Names(l[i]) \subseteq {l[j] : j \in 1..(i - 1)}
        BY <1>1, WalkDone DEF Posted
      <3>3. \A i \in DOMAIN l : 1..(i - 1) \subseteq DOMAIN l
        BY <3>1
      <3>. QED
        BY <3>2, <3>3 DEF Whole, Range
    <2>4. Reachable(c) \subseteq Range(Walk(c))
      BY <1>1, <2>1, <2>3, ReachableWhole, WalkDone
    <2>. QED
      BY <2>2, <2>4
  <1>2. GraphInv => WalkIsComplete
    BY <1>1 DEF WalkIsComplete
  <1>. QED
    BY <1>2, GraphInvHolds, PTL
=============================================================================
