---------------------------- MODULE VerifyProof ----------------------------
(***************************************************************************)
(* Proofs about Verify, for any objects, versions of the compressor,       *)
(* damage and cap: the type invariant, that a verify that says ok has seen *)
(* everything the chain of trust leads to and, with --content, all that    *)
(* reading the tensors back needs; and that the report has all the damage  *)
(* it can reach, and nothing else but checksums of payloads that another   *)
(* version of the compressor made.                                         *)
(*                                                                         *)
(* What is seen grows along the walk: a file that was accepted leads only  *)
(* to files that were accepted, or that wait in the queue or among the     *)
(* references of the commit at hand.  When both are empty, the accepted    *)
(* files are closed under the links and hold the tips, so they are all     *)
(* that is reached.  The pass of --content sees the commits and tensors of *)
(* that history again, and what is bad is what the report tells.           *)
(***************************************************************************)
EXTENDS Verify, NumberInduction, FiniteSetTheorems, SequenceTheorems

Node == [kind : {"tensor"}, base : Nat \cup {Absent}, row : Perms \cup {Absent},
         col : Perms \cup {Absent}, chunks : Seq(Chunks)]
        \cup [kind : {"checkpoint"}, header : Headers, config : Configs \cup {Absent},
              tensors : Seq(Nat)]
        \cup [kind : {"commit"}, checkpoint : Nat, parents : Seq(Nat)]

\* What the fields of manifests and commits hold.
NodesOK ==
    /\ nodes \in Seq(Node)
    /\ \A n \in G!Kind("tensor") : nodes[n].base \in G!Kind("tensor") \cup {Absent}
    /\ \A n \in G!Kind("checkpoint") : nodes[n].tensors \in Seq(G!Kind("tensor"))
    /\ \A n \in G!Kind("commit") : /\ nodes[n].checkpoint \in G!Kind("checkpoint")
                                   /\ nodes[n].parents \in Seq(G!Kind("commit"))

TypeInv == TypeOK /\ NodesOK

-----------------------------------------------------------------------------
(* The object graph.                                                       *)

LEMMA KindFacts ==
    ASSUME nodes \in Seq(Node)
    PROVE  /\ DOMAIN nodes = 1..Len(nodes) /\ Len(nodes) \in Nat
           /\ \A kind : G!Kind(kind) \subseteq DOMAIN nodes /\ IsFiniteSet(G!Kind(kind))
           /\ DOMAIN nodes \subseteq G!Objects /\ DOMAIN nodes \subseteq Nat
           /\ Chunks \subseteq G!Objects
  <1>1. DOMAIN nodes = 1..Len(nodes) /\ Len(nodes) \in Nat
    BY LenProperties
  <1>2. IsFiniteSet(DOMAIN nodes)
    BY <1>1, FS_Interval
  <1>3. \A kind : G!Kind(kind) \subseteq DOMAIN nodes
    BY DEF G!Kind
  <1>4. \A kind : IsFiniteSet(G!Kind(kind))
    BY <1>2, <1>3, FS_Subset
  <1>. QED
    BY <1>1, <1>3, <1>4 DEF G!Objects, G!Leaves

\* A sequence of some of the elements of a finite set.
LEMMA PermutationType ==
    ASSUME NEW S, IsFiniteSet(S), NEW s \in G!SetToAllKPermutations(S)
    PROVE  s \in Seq(S)
  <1>1. PICK T \in SUBSET S : s \in G!SetToSeqs(T)
    BY DEF G!SetToAllKPermutations
  <1>2. Cardinality(T) \in Nat
    BY FS_Subset, FS_CardinalityType
  <1>0. G!Cardinality(T) = Cardinality(T)
    BY DEF G!Cardinality, Cardinality
  <1>3. s \in [1..Cardinality(T) -> T]
    BY <1>0, <1>1 DEF G!SetToSeqs
  <1>4. s \in Seq(T)
    BY <1>2, <1>3, IsASeq
  <1>. QED
    BY <1>4, SeqMonotonic

\* Storing a node keeps the others and their kinds.
LEMMA AppendKeeps ==
    ASSUME nodes \in Seq(Node), NEW node \in Node, nodes' = Append(nodes, node)
    PROVE  /\ nodes' \in Seq(Node) /\ Len(nodes') = Len(nodes) + 1
           /\ nodes'[Len(nodes')] = node
           /\ \A n \in DOMAIN nodes : n \in DOMAIN nodes' /\ nodes'[n] = nodes[n]
           /\ \A n \in DOMAIN nodes' : n \notin DOMAIN nodes => n = Len(nodes') /\ nodes'[n] = node
           /\ \A kind : G!Kind(kind) \subseteq G!Kind(kind)'
           /\ G!Objects \subseteq G!Objects'
  <1>1. /\ nodes' \in Seq(Node) /\ Len(nodes') = Len(nodes) + 1
        /\ nodes'[Len(nodes')] = node
        /\ \A n \in 1..Len(nodes) : nodes'[n] = nodes[n]
    BY AppendProperties
  <1>2. DOMAIN nodes = 1..Len(nodes) /\ DOMAIN nodes' = 1..(Len(nodes) + 1) /\ Len(nodes) \in Nat
    BY <1>1, LenProperties
  <1>3. \A n \in DOMAIN nodes : n \in DOMAIN nodes' /\ nodes'[n] = nodes[n]
    BY <1>1, <1>2
  <1>4. \A n \in DOMAIN nodes' : n \notin DOMAIN nodes => n = Len(nodes') /\ nodes'[n] = node
    BY <1>1, <1>2
  <1>5. \A kind : G!Kind(kind) \subseteq G!Kind(kind)'
    BY <1>3 DEF G!Kind
  <1>6. G!Objects \subseteq G!Objects'
    BY <1>3 DEF G!Objects
  <1>. QED
    BY <1>1, <1>3, <1>4, <1>5, <1>6

\* The node that PutTensor, PutCheckpoint or PutCommit stores.
Stored(node) ==
    /\ node \in Node /\ nodes' = Append(nodes, node)
    /\ node.kind = "tensor" => node.base \in G!Kind("tensor") \cup {Absent}
    /\ node.kind = "checkpoint" => node.tensors \in Seq(G!Kind("tensor"))
    /\ node.kind = "commit" => /\ node.checkpoint \in G!Kind("checkpoint")
                               /\ node.parents \in Seq(G!Kind("commit"))

LEMMA TensorStored ==
    ASSUME NodesOK, G!PutTensor
    PROVE  \E node : Stored(node) /\ node.kind = "tensor"
  <1>1. PICK base \in G!Kind("tensor") \cup {Absent}, row \in Perms \cup {Absent},
             col \in Perms \cup {Absent}, chunk \in Chunks :
          G!Store([kind |-> "tensor", base |-> base, row |-> row, col |-> col,
                   chunks |-> <<chunk>>], {"checkpoint", "commit"})
    BY DEF G!PutTensor
  <1>. DEFINE node == [kind |-> "tensor", base |-> base, row |-> row, col |-> col,
                       chunks |-> <<chunk>>]
  <1>2. base \in Nat \cup {Absent} /\ <<chunk>> \in Seq(Chunks)
    BY KindFacts DEF NodesOK
  <1>3. node \in Node
    BY <1>2 DEF Node
  <1>4. nodes' = Append(nodes, node)
    BY <1>1 DEF G!Store
  <1>. QED
    BY <1>3, <1>4 DEF Stored

LEMMA OtherStored ==
    ASSUME NodesOK, G!PutCheckpoint \/ G!PutCommit
    PROVE  \E node : Stored(node) /\ node.kind \in {"checkpoint", "commit"}
  <1>0. \A kind : IsFiniteSet(G!Kind(kind)) /\ G!Kind(kind) \subseteq Nat
    BY KindFacts DEF NodesOK
  <1>1. CASE G!PutCheckpoint
    <2>1. PICK header \in Headers, config \in Configs \cup {Absent},
               tensors \in G!SetToAllKPermutations(G!Kind("tensor")) :
            G!Store([kind |-> "checkpoint", header |-> header, config |-> config,
                     tensors |-> tensors], {"commit"})
      BY <1>1 DEF G!PutCheckpoint
    <2>. DEFINE node == [kind |-> "checkpoint", header |-> header, config |-> config,
                         tensors |-> tensors]
    <2>2. tensors \in Seq(G!Kind("tensor"))
      BY <1>0, PermutationType
    <2>3. tensors \in Seq(Nat)
      BY <1>0, <2>2, SeqMonotonic
    <2>4. node \in Node
      BY <2>3 DEF Node
    <2>5. nodes' = Append(nodes, node)
      BY <2>1 DEF G!Store
    <2>. QED
      BY <2>2, <2>4, <2>5 DEF Stored
  <1>2. CASE G!PutCommit
    <2>1. PICK checkpoint \in G!Kind("checkpoint"),
               parents \in G!SetToAllKPermutations(G!Kind("commit")) :
            G!Store([kind |-> "commit", checkpoint |-> checkpoint, parents |-> parents], {})
      BY <1>2 DEF G!PutCommit
    <2>. DEFINE node == [kind |-> "commit", checkpoint |-> checkpoint, parents |-> parents]
    <2>2. parents \in Seq(G!Kind("commit"))
      BY <1>0, PermutationType
    <2>3. parents \in Seq(Nat) /\ checkpoint \in Nat
      BY <1>0, <2>2, SeqMonotonic
    <2>4. node \in Node
      BY <2>3 DEF Node
    <2>5. nodes' = Append(nodes, node)
      BY <2>1 DEF G!Store
    <2>. QED
      BY <2>2, <2>4, <2>5 DEF Stored
  <1>. QED
    BY <1>1, <1>2

LEMMA StoredKeepsNodes ==
    ASSUME NodesOK, NEW node, Stored(node)
    PROVE  NodesOK'
  <1>1. \A kind : G!Kind(kind) \subseteq G!Kind(kind)'
    BY AppendKeeps DEF NodesOK, Stored
  <1>2. \A kind, s : s \in Seq(G!Kind(kind)) => s \in Seq(G!Kind(kind)')
    BY <1>1, SeqMonotonic
  <1>3. nodes' \in Seq(Node)
    BY AppendKeeps DEF NodesOK, Stored
  <1>4. \A n \in DOMAIN nodes' : \/ n \in DOMAIN nodes /\ nodes'[n] = nodes[n]
                                 \/ nodes'[n] = node
    BY AppendKeeps DEF NodesOK, Stored
  <1>5. ASSUME NEW n \in G!Kind("tensor")'
        PROVE  nodes'[n].base \in G!Kind("tensor")' \cup {Absent}
    <2>1. n \in DOMAIN nodes' /\ nodes'[n].kind = "tensor"
      BY DEF G!Kind
    <2>2. nodes'[n].base \in G!Kind("tensor") \cup {Absent}
      BY <1>4, <2>1 DEF NodesOK, Stored, G!Kind
    <2>. QED
      BY <1>1, <2>2
  <1>6. ASSUME NEW n \in G!Kind("checkpoint")'
        PROVE  nodes'[n].tensors \in Seq(G!Kind("tensor")')
    <2>1. n \in DOMAIN nodes' /\ nodes'[n].kind = "checkpoint"
      BY DEF G!Kind
    <2>2. nodes'[n].tensors \in Seq(G!Kind("tensor"))
      BY <1>4, <2>1 DEF NodesOK, Stored, G!Kind
    <2>. QED
      BY <1>2, <2>2
  <1>7. ASSUME NEW n \in G!Kind("commit")'
        PROVE  /\ nodes'[n].checkpoint \in G!Kind("checkpoint")'
               /\ nodes'[n].parents \in Seq(G!Kind("commit")')
    <2>1. n \in DOMAIN nodes' /\ nodes'[n].kind = "commit"
      BY DEF G!Kind
    <2>2. nodes'[n].checkpoint \in G!Kind("checkpoint") /\ nodes'[n].parents \in Seq(G!Kind("commit"))
      BY <1>4, <2>1 DEF NodesOK, Stored, G!Kind
    <2>. QED
      BY <1>1, <1>2, <2>2
  <1>. QED
    BY <1>3, <1>5, <1>6, <1>7 DEF NodesOK

-----------------------------------------------------------------------------
(* Sequences of references.                                                *)

Objs(refs) == {refs[i].object : i \in DOMAIN refs}

LEMMA HeadAndTail ==
    ASSUME NEW S, NEW s \in Seq(S), s # <<>>
    PROVE  /\ Head(s) \in S /\ Tail(s) \in Seq(S)
           /\ Range(s) = {Head(s)} \cup Range(Tail(s))
  <1>1. Head(s) \in S /\ Tail(s) \in Seq(S)
    OBVIOUS
  <1>2. /\ Len(s) \in Nat \ {0} /\ DOMAIN s = 1..Len(s) /\ Head(s) = s[1]
        /\ DOMAIN Tail(s) = 1..(Len(s) - 1)
        /\ \A i \in 1..(Len(s) - 1) : Tail(s)[i] = s[i + 1]
    OBVIOUS
  <1>3. \A i \in DOMAIN s : i = 1 \/ (i - 1 \in DOMAIN Tail(s) /\ s[i] = Tail(s)[i - 1])
    BY <1>2
  <1>4. \A i \in DOMAIN Tail(s) : i + 1 \in DOMAIN s /\ Tail(s)[i] = s[i + 1]
    BY <1>2
  <1>5. 1 \in DOMAIN s
    BY <1>2
  <1>6. Range(s) \subseteq {Head(s)} \cup Range(Tail(s))
    BY <1>2, <1>3 DEF Range
  <1>7. Range(Tail(s)) \subseteq Range(s) /\ Head(s) \in Range(s)
    BY <1>2, <1>4, <1>5 DEF Range
  <1>. QED
    BY <1>1, <1>6, <1>7

LEMMA AppendNotEmpty ==
    ASSUME NEW S, NEW s \in Seq(S), NEW x
    PROVE  Append(s, x) # <<>>
  <1>1. s \in Seq(S \cup {x})
    BY SeqMonotonic
  <1>. QED
    BY <1>1, AppendProperties

LEMMA RangeOfConcat ==
    ASSUME NEW S, NEW s \in Seq(S), NEW t \in Seq(S)
    PROVE  s \o t \in Seq(S) /\ Range(s \o t) = Range(s) \cup Range(t)
  <1>. DEFINE c == s \o t
  <1>1. /\ c \in Seq(S) /\ Len(s) \in Nat /\ Len(t) \in Nat
        /\ DOMAIN s = 1..Len(s) /\ DOMAIN t = 1..Len(t)
        /\ DOMAIN c = 1..(Len(s) + Len(t))
    BY ConcatProperties, LenProperties
  <1>2. \A i \in DOMAIN s : i \in DOMAIN c /\ c[i] = s[i]
    BY <1>1, ConcatProperties
  <1>3. \A i \in DOMAIN t : i + Len(s) \in DOMAIN c /\ c[i + Len(s)] = t[i]
    BY <1>1, ConcatProperties
  <1>. HIDE DEF c
  <1>4. \A i \in DOMAIN c :
            \/ i \in DOMAIN s
            \/ i - Len(s) \in DOMAIN t /\ (i - Len(s)) + Len(s) = i
    BY <1>1
  <1>5. \A i \in DOMAIN c : \/ i \in DOMAIN s /\ c[i] = s[i]
                            \/ i - Len(s) \in DOMAIN t /\ c[i] = t[i - Len(s)]
    BY <1>2, <1>3, <1>4
  <1>6. Range(c) \subseteq Range(s) \cup Range(t)
    BY <1>5 DEF Range
  <1>7. Range(s) \subseteq Range(c)
    BY <1>2 DEF Range
  <1>8. Range(t) \subseteq Range(c)
    BY <1>3 DEF Range
  <1>9. c \in Seq(S) /\ Range(c) = Range(s) \cup Range(t)
    BY <1>1, <1>6, <1>7, <1>8
  <1>. QED
    BY <1>9 DEF c

LEMMA RangeType ==
    ASSUME NEW S, NEW s \in Seq(S)
    PROVE  Range(s) \subseteq S /\ Range(<<>>) = {}
  BY DEF Range

LEMMA ObjsOfRefs ==
    ASSUME NEW refs \in Seq(Refs), refs # <<>>
    PROVE  /\ Head(refs) \in Refs /\ Tail(refs) \in Seq(Refs)
           /\ Objs(refs) = {Head(refs).object} \cup Objs(Tail(refs))
  <1>1. /\ Head(refs) \in Refs /\ Tail(refs) \in Seq(Refs)
        /\ Range(refs) = {Head(refs)} \cup Range(Tail(refs))
    BY HeadAndTail
  <1>2. \A s : Objs(s) = {r.object : r \in Range(s)}
    BY DEF Objs, Range
  <1>. QED
    BY <1>1, <1>2

LEMMA ObjsOfConcat ==
    ASSUME NEW s \in Seq(Refs), NEW t \in Seq(Refs)
    PROVE  s \o t \in Seq(Refs) /\ Objs(s \o t) = Objs(s) \cup Objs(t)
  <1>1. s \o t \in Seq(Refs) /\ Range(s \o t) = Range(s) \cup Range(t)
    BY RangeOfConcat
  <1>2. \A r : Objs(r) = {x.object : x \in Range(r)}
    BY DEF Objs, Range
  <1>. QED
    BY <1>1, <1>2

LEMMA ToType ==
    ASSUME NEW objects \in Seq(G!Objects), NEW n \in G!Objects
    PROVE  /\ To(objects, n) \in Seq(Refs) /\ Objs(To(objects, n)) = Range(objects)
           /\ \A r \in Range(To(objects, n)) : r.of = n /\ r.object \in Range(objects)
  <1>1. DOMAIN objects = 1..Len(objects) /\ Len(objects) \in Nat
    BY LenProperties
  <1>2. To(objects, n) \in [1..Len(objects) -> Refs]
    BY <1>1 DEF To, Refs
  <1>3. To(objects, n) \in Seq(Refs)
    BY <1>1, <1>2, IsASeq
  <1>4. Objs(To(objects, n)) = Range(objects)
    BY DEF To, Objs, Range
  <1>. QED
    BY <1>3, <1>4 DEF To, Range

-----------------------------------------------------------------------------
(* What the walk follows.                                                  *)

LEMMA FollowedType ==
    ASSUME NodesOK, NEW n \in DOMAIN nodes
    PROVE  /\ Followed(n) \in Seq(G!Objects)
           /\ nodes[n].kind \in {"tensor", "checkpoint", "commit"}
           /\ nodes[n].kind # "commit" => Range(Followed(n)) = Links(n)
           /\ nodes[n].kind = "commit" =>
                  /\ Range(Followed(n)) = {nodes[n].checkpoint}
                  /\ ParentsOf(n) \in Seq(G!Kind("commit"))
                  /\ Links(n) = {nodes[n].checkpoint} \cup Range(ParentsOf(n))
  <1>. USE KindFacts
  <1>1. nodes[n] \in Node /\ nodes[n].kind \in {"tensor", "checkpoint", "commit"}
    BY DEF NodesOK, Node
  <1>2. CASE nodes[n].kind = "tensor"
    <2>1. nodes[n].chunks \in Seq(Chunks)
      BY <1>1, <1>2 DEF Node
    <2>2. nodes[n].chunks \in Seq(G!Objects)
      BY <2>1, SeqMonotonic DEF NodesOK
    <2>. QED
      BY <1>1, <1>2, <2>2 DEF Followed, Links
  <1>3. CASE nodes[n].kind = "commit"
    <2>1. nodes[n].checkpoint \in G!Objects /\ nodes[n].parents \in Seq(G!Kind("commit"))
      BY <1>3 DEF NodesOK, G!Kind
    <2>2. <<nodes[n].checkpoint>> \in Seq(G!Objects)
      BY <2>1
    <2>3. Range(<<nodes[n].checkpoint>>) = {nodes[n].checkpoint}
      BY DEF Range
    <2>. QED
      BY <1>3, <2>1, <2>2, <2>3 DEF Followed, Links, ParentsOf
  <1>4. CASE nodes[n].kind = "checkpoint"
    <2>. DEFINE config == IF nodes[n].config = Absent THEN <<>> ELSE <<nodes[n].config>>
                header == <<nodes[n].header>>
                tensors == nodes[n].tensors
    <2>1. nodes[n].tensors \in Seq(G!Objects)
      <3>1. nodes[n].tensors \in Seq(G!Kind("tensor"))
        BY <1>4 DEF NodesOK, G!Kind
      <3>2. G!Kind("tensor") \subseteq G!Objects
        BY DEF NodesOK
      <3>. QED
        BY <3>1, <3>2, SeqMonotonic
    <2>2. nodes[n].header \in G!Objects /\ (nodes[n].config = Absent \/ nodes[n].config \in G!Objects)
      BY <1>1, <1>4 DEF Node, G!Objects, G!Leaves
    <2>3. header \in Seq(G!Objects) /\ Range(header) = {nodes[n].header}
      BY <2>2 DEF Range
    <2>4. config \in Seq(G!Objects) /\ Range(config) = {nodes[n].config} \ {Absent}
      BY <2>2 DEF Range
    <2>5. nodes[n].header # Absent
      BY <1>1, <1>4, VerifyAssumption DEF Node
    <2>7. Followed(n) = (header \o config) \o tensors
      BY <1>4 DEF Followed
    <2>. HIDE DEF config, header
    <2>. DEFINE front == header \o config
    <2>6. front \in Seq(G!Objects) /\ Range(front) = {nodes[n].header} \cup ({nodes[n].config} \ {Absent})
      BY <2>3, <2>4, RangeOfConcat
    <2>. HIDE DEF front, tensors
    <2>a. front \o tensors \in Seq(G!Objects) /\ Range(front \o tensors) = Range(front) \cup Range(tensors)
      BY <2>1, <2>6, RangeOfConcat DEF tensors
    <2>8. /\ Followed(n) \in Seq(G!Objects)
          /\ Range(Followed(n)) = {nodes[n].header} \cup ({nodes[n].config} \ {Absent})
                                  \cup Range(nodes[n].tensors)
      BY <2>6, <2>7, <2>a DEF front, tensors
    <2>9. Links(n) = ({nodes[n].header, nodes[n].config} \ {Absent}) \cup Range(nodes[n].tensors)
      BY <1>4 DEF Links
    <2>. QED
      BY <1>4, <2>5, <2>8, <2>9
  <1>. QED
    BY <1>1, <1>2, <1>3, <1>4

-----------------------------------------------------------------------------
(* The type invariant.                                                     *)

VerdictType == failures \in Seq(G!Objects) /\ truncated \in BOOLEAN
MemoType == okObjects \subseteq G!Objects /\ okChunks \subseteq Chunks /\ bad \subseteq G!Objects

LEMMA FailType ==
    ASSUME VerdictType, NEW o \in G!Objects, nodes' = nodes, Fail(o)
    PROVE  VerdictType'
  <1>1. failures' \in Seq(G!Objects)
    <2>1. Append(failures, o) \in Seq(G!Objects)
      BY AppendProperties DEF VerdictType
    <2>. QED
      BY <2>1 DEF Fail, VerdictType
  <1>2. G!Objects' = G!Objects
    BY DEF G!Objects
  <1>. QED
    BY <1>1, <1>2 DEF Fail, VerdictType

LEMMA LoadType ==
    ASSUME VerdictType, MemoType, NEW o \in G!Objects, nodes' = nodes,
           okChunks' = okChunks, LoadObject(o)
    PROVE  VerdictType' /\ MemoType'
  <1>1. G!Objects' = G!Objects
    BY DEF G!Objects
  <1>2. VerdictType'
    BY <1>1, FailType DEF LoadObject, FailOnce, verdict, VerdictType
  <1>3. MemoType'
    BY <1>1 DEF LoadObject, FailOnce, MemoType
  <1>. QED
    BY <1>2, <1>3

LEMMA TypeInit == Init => TypeInv
  <1>. SUFFICES ASSUME Init PROVE TypeInv
    OBVIOUS
  <1>1. nodes = <<>> /\ nodes \in Seq(Node)
    BY DEF Init
  <1>2. \A kind : G!Kind(kind) = {}
    BY <1>1 DEF G!Kind
  <1>3. NodesOK
    BY <1>1, <1>2 DEF NodesOK
  <1>. USE DEF Init, Tiers
  <1>4. payload \in [Chunks -> Versions \cup {Absent}] /\ harm \in [Harms -> SUBSET G!Objects]
    OBVIOUS
  <1>5. recorded \in Seq(Versions \cup {Absent}) /\ Len(recorded) = Len(nodes)
    BY <1>1
  <1>6. request \in [roots : Seq(G!Kind("commit")), tier : Tiers, rebuild : BOOLEAN]
    OBVIOUS
  <1>7. /\ queue \in Seq(G!Kind("commit")) /\ todo \in Seq(Refs) /\ failures \in Seq(G!Objects)
        /\ seen \subseteq G!Kind("commit") /\ okObjects \subseteq G!Objects
        /\ okChunks \subseteq Chunks /\ bad \subseteq G!Objects
    OBVIOUS
  <1>. QED
    BY <1>3, <1>4, <1>5, <1>6, <1>7 DEF TypeInv, TypeOK

\* What a new object leaves as it is keeps its type.
LEMMA StoredType ==
    ASSUME TypeInv, NEW node, Stored(node), harm' = harm, phase' = phase, Untouched,
           payload' \in [Chunks -> Versions \cup {Absent}],
           NEW v \in Versions \cup {Absent}, recorded' = Append(recorded, v)
    PROVE  TypeInv'
  <1>2. NodesOK'
    BY StoredKeepsNodes DEF TypeInv
  <1>3. /\ G!Objects \subseteq G!Objects' /\ \A kind : G!Kind(kind) \subseteq G!Kind(kind)'
        /\ Len(nodes') = Len(nodes) + 1
    BY AppendKeeps DEF TypeInv, NodesOK, Stored
  <1>4. recorded' \in Seq(Versions \cup {Absent}) /\ Len(recorded') = Len(nodes')
    BY <1>3, AppendProperties DEF TypeInv, TypeOK
  <1>5. TypeOK'
    <2>. USE <1>3 DEF Untouched, TypeInv, TypeOK
    <2>1. harm' \in [Harms -> SUBSET G!Objects']
      OBVIOUS
    <2>2. request' \in [roots : Seq(G!Kind("commit")'), tier : Tiers, rebuild : BOOLEAN]
      <3>1. request.roots \in Seq(G!Kind("commit")')
        BY SeqMonotonic
      <3>. QED
        BY <3>1
    <2>3. queue' \in Seq(G!Kind("commit")') /\ seen' \subseteq G!Kind("commit")'
      BY SeqMonotonic
    <2>4. todo' \in Seq(Refs')
      <3>1. Refs \subseteq Refs'
        BY DEF Refs
      <3>. QED
        BY <3>1, SeqMonotonic
    <2>5. failures' \in Seq(G!Objects') /\ truncated' \in BOOLEAN
      BY SeqMonotonic DEF verdict
    <2>6. okObjects' \subseteq G!Objects' /\ okChunks' \subseteq Chunks /\ bad' \subseteq G!Objects'
      BY DEF memo
    <2>. QED
      BY <1>4, <2>1, <2>2, <2>3, <2>4, <2>5, <2>6
  <1>. QED
    BY <1>2, <1>5 DEF TypeInv

LEMMA PutTensorType == TypeInv /\ PutTensor => TypeInv'
  <1>. SUFFICES ASSUME TypeInv, PutTensor PROVE TypeInv'
    OBVIOUS
  <1>1. PICK node : Stored(node) /\ node.kind = "tensor"
    BY TensorStored DEF PutTensor, TypeInv
  <1>2. PICK v \in Versions :
            /\ recorded' = Append(recorded, v)
            /\ payload' = [c \in Chunks |-> IF c \in NewChunks(nodes'[Len(nodes')]) THEN v
                                            ELSE payload[c]]
    BY DEF PutTensor
  <1>3. payload' \in [Chunks -> Versions \cup {Absent}]
    BY <1>2 DEF TypeInv, TypeOK
  <1>. QED
    BY <1>1, <1>2, <1>3, StoredType DEF PutTensor

LEMMA PutOtherType == TypeInv /\ PutOther => TypeInv'
  <1>. SUFFICES ASSUME TypeInv, PutOther PROVE TypeInv'
    OBVIOUS
  <1>1. PICK node : Stored(node) /\ node.kind \in {"checkpoint", "commit"}
    BY OtherStored DEF PutOther, TypeInv
  <1>2. payload' \in [Chunks -> Versions \cup {Absent}]
    BY DEF TypeInv, TypeOK, PutOther
  <1>. QED
    BY <1>1, <1>2, StoredType DEF PutOther

LEMMA GivenType == TypeInv /\ (Damage \/ Begin) => TypeInv'
  <1>. SUFFICES ASSUME TypeInv, Damage \/ Begin PROVE TypeInv'
    OBVIOUS
  <1>. USE DEF TypeInv, TypeOK
  <1>1. nodes' = nodes /\ store' = store
    BY DEF Damage, Begin, store
  <1>2. NodesOK'
    BY <1>1 DEF NodesOK, G!Kind
  <1>3. G!Objects' = G!Objects /\ Refs' = Refs /\ \A kind : G!Kind(kind)' = G!Kind(kind)
    BY <1>1 DEF G!Objects, G!Kind, Refs
  <1>4. CASE Damage
    <2>1. harm' \in [Harms -> SUBSET G!Objects]
      BY <1>4 DEF Damage
    <2>2. phase' = phase /\ Untouched
      BY <1>4 DEF Damage
    <2>. QED
      BY <1>1, <1>2, <1>3, <2>1, <2>2 DEF Untouched, memo, verdict, store
  <1>5. CASE Begin
    <2>1. PICK a \in G!Kind("commit"), b \in G!Kind("commit"), tier \in Tiers, rebuild \in BOOLEAN :
            LET roots == IF a = b THEN <<a>> ELSE <<a, b>>
            IN  request' = [roots |-> roots, tier |-> tier, rebuild |-> rebuild] /\ queue' = roots
      BY <1>5 DEF Begin
    <2>2. <<a>> \in Seq(G!Kind("commit")) /\ <<a, b>> \in Seq(G!Kind("commit"))
      OBVIOUS
    <2>3. /\ request' \in [roots : Seq(G!Kind("commit")), tier : Tiers, rebuild : BOOLEAN]
          /\ queue' \in Seq(G!Kind("commit"))
      BY <2>1, <2>2
    <2>4. /\ phase' = "walk" /\ harm' = harm /\ seen' = seen /\ todo' = todo
          /\ UNCHANGED <<memo, verdict>>
      BY <1>5 DEF Begin
    <2>. QED
      BY <1>1, <1>2, <1>3, <2>3, <2>4 DEF memo, verdict, store
  <1>. QED
    BY <1>4, <1>5

-----------------------------------------------------------------------------
(* The steps of the walk.                                                  *)

\* What no step of verify changes.
Given == UNCHANGED <<store, harm, request>>

LEMMA GivenFacts ==
    ASSUME TypeInv, Given
    PROVE  /\ NodesOK' /\ nodes' = nodes
           /\ G!Objects' = G!Objects /\ Refs' = Refs
           /\ \A kind : G!Kind(kind)' = G!Kind(kind)
           /\ Damaged' = Damaged /\ \A o : (Shows(o)' <=> Shows(o)) /\ Links(o)' = Links(o)
           /\ Tips' = Tips
  <1>1. nodes' = nodes /\ harm' = harm /\ request' = request
    BY DEF Given, store
  <1>2. NodesOK'
    BY <1>1 DEF NodesOK, G!Kind, TypeInv
  <1>3. G!Objects' = G!Objects /\ Refs' = Refs /\ \A kind : G!Kind(kind)' = G!Kind(kind)
    BY <1>1 DEF G!Objects, G!Kind, Refs
  <1>4. Damaged' = Damaged /\ \A o : (Shows(o)' <=> Shows(o)) /\ Links(o)' = Links(o)
    BY <1>1 DEF Damaged, Shows, Missing, Links
  <1>. QED
    BY <1>1, <1>2, <1>3, <1>4 DEF Tips

\* The parts of the type invariant that a step of verify can disturb.
LEMMA StepType ==
    ASSUME TypeInv, Given,
           phase' \in {"store", "walk", "rebuild", "done", "refused", "raised"},
           queue' \in Seq(G!Kind("commit")), seen' \subseteq G!Kind("commit"),
           todo' \in Seq(Refs), VerdictType', MemoType'
    PROVE  TypeInv'
  <1>1. /\ NodesOK' /\ nodes' = nodes
        /\ G!Objects' = G!Objects /\ Refs' = Refs
        /\ \A kind : G!Kind(kind)' = G!Kind(kind)
    BY GivenFacts
  <1>2. payload' = payload /\ recorded' = recorded /\ harm' = harm /\ request' = request
    BY DEF Given, store
  <1>. QED
    BY <1>1, <1>2 DEF TypeInv, TypeOK, VerdictType, MemoType

\* load_object takes an object that it has or that is whole.
LEMMA LoadFacts ==
    ASSUME TypeInv, NEW o, LoadObject(o)
    PROVE  /\ Reads(o) => /\ okObjects' = okObjects \cup {o} /\ failures' = failures
                          /\ o \in okObjects \/ o \notin Damaged
           /\ ~Reads(o) => okObjects' = okObjects
           /\ truncated' \in BOOLEAN
  BY DEF LoadObject, Reads, Whole, verdict, FailOnce, Fail, TypeInv, TypeOK

LEMMA VisitCommitType == TypeInv /\ VisitCommit => TypeInv'
  <1>. SUFFICES ASSUME TypeInv, VisitCommit PROVE TypeInv'
    OBVIOUS
  <1>. DEFINE c == Head(queue)
  <1>1. /\ c \in G!Kind("commit") /\ Tail(queue) \in Seq(G!Kind("commit"))
        /\ c \in DOMAIN nodes /\ c \in G!Objects
    <2>1. queue \in Seq(G!Kind("commit")) /\ queue # <<>>
      BY DEF TypeInv, TypeOK, VisitCommit
    <2>. QED
      BY <2>1, HeadAndTail, KindFacts DEF TypeInv, NodesOK
  <1>2. Given /\ nodes' = nodes /\ phase' = phase
    BY DEF VisitCommit, Given, store
  <1>3. VerdictType /\ MemoType
    BY DEF TypeInv, TypeOK, VerdictType, MemoType
  <1>4. CASE c \in seen
    <2>1. queue' = Tail(queue) /\ seen' = seen \cup {c} /\ UNCHANGED <<todo, memo, verdict>>
      BY <1>4 DEF VisitCommit
    <2>2. VerdictType' /\ MemoType'
      BY <1>2, <1>3, <2>1 DEF VerdictType, MemoType, memo, verdict, G!Objects
    <2>. QED
      BY <1>1, <1>2, <2>1, <2>2, StepType DEF TypeInv, TypeOK
  <1>5. CASE c \notin seen
    <2>1. /\ LoadObject(c) /\ seen' = seen \cup {c} /\ okChunks' = okChunks
          /\ queue' = Tail(queue) \o (IF Reads(c) THEN ParentsOf(c) ELSE <<>>)
          /\ todo' = IF Reads(c) THEN To(Followed(c), c) ELSE <<>>
      BY <1>5 DEF VisitCommit
    <2>2. VerdictType' /\ MemoType'
      BY <1>1, <1>2, <1>3, <2>1, LoadType
    <2>3. ParentsOf(c) \in Seq(G!Kind("commit")) /\ To(Followed(c), c) \in Seq(Refs)
      BY <1>1, FollowedType, ToType DEF TypeInv, G!Kind
    <2>4. <<>> \in Seq(G!Kind("commit")) /\ <<>> \in Seq(Refs)
      OBVIOUS
    <2>5. queue' \in Seq(G!Kind("commit"))
      BY <1>1, <2>1, <2>3, <2>4, RangeOfConcat
    <2>6. todo' \in Seq(Refs) /\ seen' \subseteq G!Kind("commit")
      BY <1>1, <2>1, <2>3, <2>4 DEF TypeInv, TypeOK
    <2>. QED
      BY <1>2, <2>2, <2>5, <2>6, StepType DEF TypeInv, TypeOK
  <1>. QED
    BY <1>4, <1>5

LEMMA VisitObjectType == TypeInv /\ VisitObject => TypeInv'
  <1>. SUFFICES ASSUME TypeInv, VisitObject PROVE TypeInv'
    OBVIOUS
  <1>. DEFINE o == Head(todo).object
              below == IF Reads(o) /\ o \in DOMAIN nodes
                          /\ ~(nodes[o].kind = "tensor" /\ o \in okObjects)
                       THEN To(Followed(o), o) ELSE <<>>
  <1>1. o \in G!Objects /\ Tail(todo) \in Seq(Refs)
    BY ObjsOfRefs DEF TypeInv, TypeOK, VisitObject, Refs
  <1>2. /\ LoadObject(o) /\ todo' = below \o Tail(todo)
        /\ UNCHANGED <<store, harm, phase, request, queue, seen, okChunks>>
    BY DEF VisitObject
  <1>3. Given /\ nodes' = nodes
    BY <1>2 DEF Given, store
  <1>4. VerdictType' /\ MemoType'
    BY <1>1, <1>2, <1>3, LoadType DEF TypeInv, TypeOK, VerdictType, MemoType
  <1>5. below \in Seq(Refs)
    BY <1>1, FollowedType, ToType DEF TypeInv
  <1>. HIDE DEF below
  <1>6. todo' \in Seq(Refs)
    BY <1>1, <1>2, <1>5, ObjsOfConcat
  <1>. QED
    BY <1>2, <1>3, <1>4, <1>6, StepType DEF TypeInv, TypeOK

LEMMA VisitChunkType == TypeInv /\ VisitChunk => TypeInv'
  <1>. SUFFICES ASSUME TypeInv, VisitChunk PROVE TypeInv'
    OBVIOUS
  <1>. DEFINE c == Head(todo).object
  <1>1. c \in Chunks /\ c \in G!Objects /\ Tail(todo) \in Seq(Refs)
    BY ObjsOfRefs DEF TypeInv, TypeOK, VisitChunk, Refs
  <1>2. /\ todo' = Tail(todo)
        /\ UNCHANGED <<store, harm, phase, request, queue, seen>>
        /\ \/ UNCHANGED <<memo, verdict>>
           \/ okChunks' = okChunks \cup {c} /\ UNCHANGED <<okObjects, bad, verdict>>
           \/ FailOnce(c) /\ UNCHANGED <<okObjects, okChunks>>
    BY DEF VisitChunk
  <1>3. Given /\ nodes' = nodes /\ G!Objects' = G!Objects
    BY <1>2 DEF Given, store, G!Objects
  <1>4. VerdictType /\ MemoType
    BY DEF TypeInv, TypeOK, VerdictType, MemoType
  <1>5. VerdictType' /\ MemoType'
    <2>1. CASE FailOnce(c) /\ UNCHANGED <<okObjects, okChunks>>
      <3>1. VerdictType'
        BY <1>1, <1>3, <1>4, <2>1, FailType DEF FailOnce, verdict, VerdictType
      <3>. QED
        BY <1>1, <1>3, <1>4, <2>1, <3>1 DEF FailOnce, MemoType
    <2>. QED
      BY <1>1, <1>2, <1>3, <1>4, <2>1 DEF VerdictType, MemoType, memo, verdict
  <1>. QED
    BY <1>1, <1>2, <1>3, <1>5, StepType DEF TypeInv, TypeOK

LEMMA EndsType == TypeInv /\ (EndWalk \/ EndRebuild) => TypeInv'
  <1>. SUFFICES ASSUME TypeInv, EndWalk \/ EndRebuild PROVE TypeInv'
    OBVIOUS
  <1>1. /\ Given /\ nodes' = nodes /\ UNCHANGED <<todo, memo, verdict>>
        /\ phase' \in {"rebuild", "done"}
        /\ queue' \in {queue, request.roots} /\ seen' \in {seen, {}}
    BY DEF EndWalk, EndRebuild, Given, store
  <1>2. VerdictType' /\ MemoType'
    BY <1>1 DEF TypeInv, TypeOK, VerdictType, MemoType, memo, verdict, G!Objects
  <1>. QED
    BY <1>1, <1>2, StepType DEF TypeInv, TypeOK

LEMMA RebuildCommitType == TypeInv /\ RebuildCommit => TypeInv'
  <1>. SUFFICES ASSUME TypeInv, RebuildCommit PROVE TypeInv'
    OBVIOUS
  <1>. DEFINE c == Head(queue)
              k == nodes[c].checkpoint
              new == c \notin seen /\ Parses(c)
              more == IF new THEN ParentsOf(c) ELSE <<>>
              refs == IF new /\ Parses(k) THEN To(nodes[k].tensors, k) ELSE <<>>
  <1>1. /\ c \in G!Kind("commit") /\ Tail(queue) \in Seq(G!Kind("commit"))
        /\ c \in DOMAIN nodes /\ c \in G!Objects
    <2>1. queue \in Seq(G!Kind("commit")) /\ queue # <<>>
      BY DEF TypeInv, TypeOK, RebuildCommit
    <2>. QED
      BY <2>1, HeadAndTail, KindFacts DEF TypeInv, NodesOK
  <1>2. /\ Given /\ nodes' = nodes /\ phase' \in {"raised", phase} /\ UNCHANGED memo
        /\ seen' = seen \cup {c} /\ queue' = Tail(queue) \o more /\ todo' = refs
        /\ Fail(c) \/ UNCHANGED verdict
    BY DEF RebuildCommit, Given, store
  <1>3. VerdictType' /\ MemoType'
    <2>1. VerdictType /\ MemoType /\ G!Objects' = G!Objects
      BY <1>2 DEF TypeInv, TypeOK, VerdictType, MemoType, G!Objects
    <2>. QED
      BY <1>1, <1>2, <2>1, FailType DEF VerdictType, MemoType, memo, verdict
  <1>4. ParentsOf(c) \in Seq(G!Kind("commit")) /\ <<>> \in Seq(G!Kind("commit"))
    BY <1>1, FollowedType DEF TypeInv, G!Kind
  <1>5. k \in G!Kind("checkpoint") /\ k \in G!Objects
    BY <1>1, KindFacts DEF TypeInv, NodesOK
  <1>6. refs \in Seq(Refs)
    <2>1. nodes[k].tensors \in Seq(G!Kind("tensor")) /\ G!Kind("tensor") \subseteq G!Objects
      BY <1>5, KindFacts DEF TypeInv, NodesOK
    <2>2. nodes[k].tensors \in Seq(G!Objects)
      BY <2>1, SeqMonotonic
    <2>3. <<>> \in Seq(Refs)
      OBVIOUS
    <2>. QED
      BY <1>5, <2>2, <2>3, ToType
  <1>7. more \in Seq(G!Kind("commit"))
    BY <1>4
  <1>. HIDE DEF more, refs
  <1>8. queue' \in Seq(G!Kind("commit"))
    BY <1>1, <1>2, <1>7, RangeOfConcat
  <1>. QED
    BY <1>1, <1>2, <1>3, <1>6, <1>8, StepType DEF TypeInv, TypeOK

LEMMA RebuildTensorType == TypeInv /\ RebuildTensor => TypeInv'
  <1>. SUFFICES ASSUME TypeInv, RebuildTensor PROVE TypeInv'
    OBVIOUS
  <1>. DEFINE t == Head(todo).object
  <1>1. t \in G!Objects /\ Tail(todo) \in Seq(Refs)
    BY ObjsOfRefs DEF TypeInv, TypeOK, RebuildTensor, Refs
  <1>2. /\ Given /\ nodes' = nodes /\ phase' \in {phase, "refused", "raised"}
        /\ todo' = Tail(todo) /\ UNCHANGED <<queue, seen, memo>>
        /\ Fail(t) \/ UNCHANGED verdict
    BY DEF RebuildTensor, Given, store
  <1>3. VerdictType' /\ MemoType'
    <2>1. VerdictType /\ MemoType /\ G!Objects' = G!Objects
      BY <1>2 DEF TypeInv, TypeOK, VerdictType, MemoType, G!Objects
    <2>. QED
      BY <1>1, <1>2, <2>1, FailType DEF VerdictType, MemoType, memo, verdict
  <1>. QED
    BY <1>1, <1>2, <1>3, StepType DEF TypeInv, TypeOK

LEMMA TypeStep == TypeInv /\ [Next]_vars => TypeInv'
  <1>. SUFFICES ASSUME TypeInv, [Next]_vars PROVE TypeInv'
    OBVIOUS
  <1>1. CASE UNCHANGED vars
    <2>1. NodesOK' /\ Given
      BY <1>1 DEF vars, store, NodesOK, G!Kind, TypeInv, Given
    <2>2. VerdictType' /\ MemoType'
      BY <1>1 DEF vars, memo, verdict, store, TypeInv, TypeOK, VerdictType, MemoType, G!Objects
    <2>. QED
      BY <1>1, <2>1, <2>2, StepType DEF vars, TypeInv, TypeOK
  <1>. QED
    BY <1>1, PutTensorType, PutOtherType, GivenType, VisitCommitType, VisitObjectType,
       VisitChunkType, EndsType, RebuildCommitType, RebuildTensorType DEF Next

\* Every variable of verify keeps its type.
THEOREM TypesOK == Spec => []TypeOK
  BY TypeInit, TypeStep, PTL DEF Spec, TypeInv

-----------------------------------------------------------------------------
(* What the walk has met, and a verify that says ok.  Met: what needs no   *)
(* more attention.                                                         *)

Accepted == okObjects \cup okChunks
Met == Accepted \cup bad
Waiting == Range(queue) \cup Objs(todo)

AcceptedFine == okObjects \cap Damaged = {} /\ \A c \in okChunks : ~Shows(c)
BadReported == bad # {} => failures # <<>>
WalkCovers ==
    phase = "walk" =>
        /\ Tips \subseteq okObjects \cup bad \cup Range(queue)
        /\ seen \subseteq okObjects \cup bad
        /\ Objs(todo) \cap G!Kind("commit") = {}
        /\ \A o \in okObjects : Links(o) \subseteq Met \cup Waiting
WalkClosed ==
    phase \in {"rebuild", "done"} =>
        /\ Tips \subseteq okObjects \cup bad
        /\ \A o \in okObjects : Links(o) \subseteq Met
Fresh == phase = "store" =>
            /\ queue = <<>> /\ todo = <<>> /\ seen = {}
            /\ okObjects = {} /\ okChunks = {} /\ bad = {}

CoverInv == Fresh /\ AcceptedFine /\ BadReported /\ WalkCovers /\ WalkClosed

LEMMA ShowsDamage == \A o : Shows(o) => o \in Damaged
  BY DEF Shows, Damaged, Harms, Missing

\* A report that is not empty stays so, and an object that fails is in it.
LEMMA FailsAreReported ==
    ASSUME TypeInv, BadReported, NEW o, FailOnce(o)
    PROVE  failures' # <<>>
  <1>1. \A x : Append(failures, x) # <<>>
    BY AppendNotEmpty DEF TypeInv, TypeOK
  <1>2. failures # <<>> \/ Len(failures) < MaxFailures
    BY VerifyAssumption DEF TypeInv, TypeOK
  <1>3. CASE o \in bad
    BY <1>3 DEF FailOnce, verdict, BadReported
  <1>4. CASE o \notin bad
    <2>1. Fail(o)
      BY <1>4 DEF FailOnce
    <2>2. CASE Len(failures) >= MaxFailures
      <3>1. failures' = failures
        BY <2>1, <2>2 DEF Fail
      <3>2. Len(failures) \in Nat
        BY DEF TypeInv, TypeOK
      <3>3. ~(Len(failures) < MaxFailures)
        BY <2>2, <3>2, VerifyAssumption
      <3>. QED
        BY <1>2, <3>1, <3>3
    <2>3. CASE ~(Len(failures) >= MaxFailures)
      BY <1>1, <2>1, <2>3 DEF Fail
    <2>. QED
      BY <2>2, <2>3
  <1>. QED
    BY <1>3, <1>4

\* An object that load_object refuses is reported, one that it takes is whole.
LEMMA LoadCovers ==
    ASSUME TypeInv, CoverInv, NEW o, LoadObject(o), Given, okChunks' = okChunks
    PROVE  /\ AcceptedFine' /\ BadReported'
           /\ \/ Reads(o) /\ okObjects' = okObjects \cup {o} /\ bad' = bad
              \/ ~Reads(o) /\ okObjects' = okObjects /\ bad' = bad \cup {o}
  <1>1. Damaged' = Damaged /\ \A x : Shows(x)' <=> Shows(x)
    BY GivenFacts
  <1>2. CASE Reads(o)
    <2>1. okObjects' = okObjects \cup {o} /\ failures' = failures /\ bad' = bad
      BY <1>2 DEF LoadObject, verdict
    <2>2. o \notin Damaged
      BY <1>2 DEF Reads, Whole, CoverInv, AcceptedFine
    <2>3. AcceptedFine'
      BY <1>1, <2>1, <2>2 DEF CoverInv, AcceptedFine
    <2>. QED
      BY <1>2, <2>1, <2>3 DEF CoverInv, BadReported
  <1>3. CASE ~Reads(o)
    <2>1. okObjects' = okObjects /\ FailOnce(o)
      BY <1>3 DEF LoadObject
    <2>2. failures' # <<>>
      BY <2>1, FailsAreReported DEF CoverInv
    <2>3. AcceptedFine'
      BY <1>1, <2>1 DEF CoverInv, AcceptedFine
    <2>4. bad' = bad \cup {o}
      BY <2>1 DEF FailOnce
    <2>. QED
      BY <1>3, <2>1, <2>2, <2>3, <2>4 DEF BadReported
  <1>. QED
    BY <1>2, <1>3

LEMMA CoverInit == Init => CoverInv
  BY DEF Init, CoverInv, Fresh, AcceptedFine, BadReported, WalkCovers, WalkClosed

LEMMA PutCovers ==
    ASSUME TypeInv, CoverInv, PutTensor \/ PutOther \/ Damage
    PROVE  CoverInv'
  <1>1. phase = "store" /\ phase' = "store" /\ UNCHANGED <<queue, seen, todo, memo, verdict>>
    BY DEF PutTensor, PutOther, Damage, Untouched
  <1>2. Fresh'
    BY <1>1 DEF CoverInv, Fresh, memo
  <1>3. AcceptedFine' /\ BadReported'
    BY <1>1, <1>2 DEF Fresh, AcceptedFine, BadReported
  <1>. QED
    BY <1>1, <1>2, <1>3 DEF CoverInv, WalkCovers, WalkClosed

LEMMA BeginCovers ==
    ASSUME TypeInv, CoverInv, Begin
    PROVE  CoverInv'
  <1>1. /\ phase = "store" /\ phase' = "walk" /\ UNCHANGED <<seen, todo, memo, verdict>>
        /\ queue' = request'.roots
    BY DEF Begin
  <1>2. seen' = {} /\ todo' = <<>> /\ okObjects' = {} /\ okChunks' = {} /\ bad' = {}
    BY <1>1 DEF CoverInv, Fresh, memo
  <1>3. Tips' = Range(queue')
    BY <1>1 DEF Tips
  <1>. QED
    BY <1>1, <1>2, <1>3
    DEF CoverInv, Fresh, AcceptedFine, BadReported, WalkCovers, WalkClosed, Objs

LEMMA VisitCommitCovers ==
    ASSUME TypeInv, CoverInv, VisitCommit
    PROVE  CoverInv'
  <1>. DEFINE c == Head(queue)
  <1>1. /\ phase = "walk" /\ phase' = "walk" /\ todo = <<>> /\ queue # <<>> /\ Given
        /\ seen' = seen \cup {c}
    BY DEF VisitCommit, Given
  <1>2. /\ queue \in Seq(G!Kind("commit")) /\ Tail(queue) \in Seq(G!Kind("commit"))
        /\ Range(queue) = {c} \cup Range(Tail(queue)) /\ c \in G!Kind("commit")
    <2>1. queue \in Seq(G!Kind("commit"))
      BY DEF TypeInv, TypeOK
    <2>. QED
      BY <1>1, <2>1, HeadAndTail
  <1>3. Objs(todo) = {}
    BY <1>1 DEF Objs
  <1>4. /\ Damaged' = Damaged /\ Tips' = Tips /\ \A kind : G!Kind(kind)' = G!Kind(kind)
        /\ \A o : (Shows(o)' <=> Shows(o)) /\ Links(o)' = Links(o)
    BY <1>1, GivenFacts
  <1>5. CASE c \in seen
    <2>1. queue' = Tail(queue) /\ UNCHANGED <<todo, memo, verdict>>
      BY <1>5 DEF VisitCommit
    <2>2. AcceptedFine' /\ BadReported'
      BY <1>4, <2>1 DEF CoverInv, AcceptedFine, BadReported, memo, verdict
    <2>3. c \in okObjects \cup bad /\ Waiting \subseteq Waiting' \cup okObjects \cup bad
      BY <1>1, <1>2, <1>5, <2>1 DEF CoverInv, WalkCovers, Waiting
    <2>4. WalkCovers'
      BY <1>1, <1>2, <1>4, <2>1, <2>3
      DEF CoverInv, WalkCovers, Accepted, Met, Waiting, memo, verdict
    <2>. QED
      BY <1>1, <2>2, <2>4 DEF CoverInv, Fresh, WalkClosed
  <1>6. CASE c \notin seen
    <2>1. /\ LoadObject(c) /\ okChunks' = okChunks
          /\ queue' = Tail(queue) \o (IF Reads(c) THEN ParentsOf(c) ELSE <<>>)
          /\ todo' = IF Reads(c) THEN To(Followed(c), c) ELSE <<>>
      BY <1>6 DEF VisitCommit
    <2>2. /\ AcceptedFine' /\ BadReported'
          /\ \/ Reads(c) /\ okObjects' = okObjects \cup {c} /\ bad' = bad
             \/ ~Reads(c) /\ okObjects' = okObjects /\ bad' = bad \cup {c}
      BY <1>1, <2>1, LoadCovers
    <2>3. /\ ParentsOf(c) \in Seq(G!Kind("commit")) /\ Followed(c) \in Seq(G!Objects)
          /\ Range(Followed(c)) = {nodes[c].checkpoint} /\ c \in G!Objects
          /\ Links(c) = {nodes[c].checkpoint} \cup Range(ParentsOf(c))
          /\ nodes[c].checkpoint \in G!Kind("checkpoint")
      BY <1>2, FollowedType, KindFacts DEF TypeInv, NodesOK, G!Kind
    <2>4. nodes[c].checkpoint \notin G!Kind("commit")
      BY <2>3 DEF G!Kind
    <2>5. ASSUME Reads(c)
          PROVE  /\ Range(queue') = Range(Tail(queue)) \cup Range(ParentsOf(c))
                 /\ Objs(todo') = {nodes[c].checkpoint}
      <3>1. queue' = Tail(queue) \o ParentsOf(c) /\ todo' = To(Followed(c), c)
        BY <2>1, <2>5
      <3>2. Range(Tail(queue) \o ParentsOf(c)) = Range(Tail(queue)) \cup Range(ParentsOf(c))
        <4>. DEFINE commits == G!Kind("commit")
                    rest == Tail(queue)
                    parents == ParentsOf(c)
        <4>1. rest \in Seq(commits) /\ parents \in Seq(commits)
          BY <1>2, <2>3
        <4>. HIDE DEF commits, rest, parents
        <4>2. Range(rest \o parents) = Range(rest) \cup Range(parents)
          BY <4>1, RangeOfConcat
        <4>. QED
          BY <4>2 DEF rest, parents
      <3>3. Objs(To(Followed(c), c)) = Range(Followed(c))
        BY <2>3, ToType
      <3>. QED
        BY <2>3, <3>1, <3>2, <3>3
    <2>6. /\ Reads(c) => Links(c) \subseteq Waiting'
          /\ Waiting \subseteq Waiting' \cup {c} /\ Range(queue) \subseteq Range(queue') \cup {c}
          /\ Objs(todo') \cap G!Kind("commit") = {}
      <3>1. CASE Reads(c)
        BY <1>2, <1>3, <2>3, <2>4, <2>5, <3>1 DEF Waiting
      <3>2. CASE ~Reads(c)
        <4>1. queue' = Tail(queue) \o <<>> /\ todo' = <<>>
          BY <2>1, <3>2
        <4>2. queue' = Tail(queue)
          <5>. DEFINE commits == G!Kind("commit")
                      rest == Tail(queue)
          <5>. HIDE DEF commits, rest
          <5>1. rest \in Seq(commits) => rest \o <<>> = rest
            BY ConcatEmptySeq
          <5>. QED
            BY <1>2, <4>1, <5>1 DEF commits, rest
        <4>3. Objs(todo') = {}
          BY <4>1 DEF Objs
        <4>. QED
          BY <1>2, <1>3, <3>2, <4>2, <4>3 DEF Waiting
      <3>. QED
        BY <3>1, <3>2
    <2>7. WalkCovers'
      <3>1. /\ Tips \subseteq okObjects \cup bad \cup Range(queue) /\ seen \subseteq okObjects \cup bad
            /\ \A o \in okObjects : Links(o) \subseteq Met \cup Waiting
        BY <1>1 DEF CoverInv, WalkCovers
      <3>2. /\ okObjects \cup bad \cup {c} = okObjects' \cup bad'
            /\ okObjects \subseteq okObjects' /\ Met' = Met \cup {c}
            /\ \A o \in okObjects' : o \in okObjects \/ (o = c /\ Reads(c))
        BY <2>1, <2>2 DEF Met, Accepted
      <3>3. Tips \subseteq okObjects' \cup bad' \cup Range(queue')
        BY <2>6, <3>1, <3>2
      <3>4. seen' \subseteq okObjects' \cup bad'
        BY <1>1, <3>1, <3>2
      <3>5. \A o \in okObjects' : Links(o) \subseteq Met' \cup Waiting'
        BY <2>6, <3>1, <3>2
      <3>. QED
        BY <1>4, <2>6, <3>3, <3>4, <3>5 DEF WalkCovers
    <2>. QED
      BY <1>1, <2>2, <2>7 DEF CoverInv, Fresh, WalkClosed
  <1>. QED
    BY <1>5, <1>6

\* Only commits lead to commits.
LEMMA FollowsNoCommit ==
    ASSUME TypeInv, NEW n \in DOMAIN nodes
    PROVE  Range(Followed(n)) \cap G!Kind("commit") = {}
  <1>1. /\ G!Kind("commit") \subseteq Nat /\ G!Kind("tensor") \cap G!Kind("commit") = {}
        /\ G!Kind("checkpoint") \cap G!Kind("commit") = {}
    BY KindFacts DEF TypeInv, NodesOK, G!Kind
  <1>2. nodes[n] \in Node
    BY DEF TypeInv, NodesOK
  <1>3. CASE nodes[n].kind = "tensor"
    <2>1. Range(Followed(n)) \subseteq Chunks
      BY <1>2, <1>3, RangeType DEF Node, Followed
    <2>. QED
      BY <1>1, <2>1, VerifyAssumption
  <1>4. CASE nodes[n].kind = "checkpoint"
    <2>1. nodes[n].tensors \in Seq(G!Kind("tensor"))
      BY <1>4 DEF TypeInv, NodesOK, G!Kind
    <2>2. Range(nodes[n].tensors) \subseteq G!Kind("tensor")
      BY <2>1, RangeType
    <2>3. {nodes[n].header, nodes[n].config} \ {Absent} \subseteq Headers \cup Configs
      BY <1>2, <1>4 DEF Node
    <2>4. Range(Followed(n)) \subseteq G!Kind("tensor") \cup Headers \cup Configs
      BY <1>4, <2>2, <2>3, FollowedType DEF TypeInv, Links
    <2>. QED
      BY <1>1, <2>4, VerifyAssumption
  <1>5. CASE nodes[n].kind = "commit"
    <2>1. nodes[n].checkpoint \in G!Kind("checkpoint")
      BY <1>5 DEF TypeInv, NodesOK, G!Kind
    <2>. QED
      BY <1>1, <1>5, <2>1, FollowedType DEF TypeInv
  <1>. QED
    BY <1>3, <1>4, <1>5, FollowedType DEF TypeInv

LEMMA VisitObjectCovers ==
    ASSUME TypeInv, CoverInv, VisitObject
    PROVE  CoverInv'
  <1>. DEFINE o == Head(todo).object
              below == IF Reads(o) /\ o \in DOMAIN nodes
                          /\ ~(nodes[o].kind = "tensor" /\ o \in okObjects)
                       THEN To(Followed(o), o) ELSE <<>>
  <1>1. /\ phase = "walk" /\ phase' = "walk" /\ todo # <<>> /\ Given
        /\ LoadObject(o) /\ todo' = below \o Tail(todo)
        /\ UNCHANGED <<queue, seen, okChunks>>
    BY DEF VisitObject, Given
  <1>2. /\ o \in G!Objects /\ Tail(todo) \in Seq(Refs)
        /\ Objs(todo) = {o} \cup Objs(Tail(todo))
    BY <1>1, ObjsOfRefs DEF TypeInv, TypeOK, Refs
  <1>3. /\ Damaged' = Damaged /\ Tips' = Tips /\ \A kind : G!Kind(kind)' = G!Kind(kind)
        /\ \A x : (Shows(x)' <=> Shows(x)) /\ Links(x)' = Links(x)
    BY <1>1, GivenFacts
  <1>4. /\ AcceptedFine' /\ BadReported'
        /\ \/ Reads(o) /\ okObjects' = okObjects \cup {o} /\ bad' = bad
           \/ ~Reads(o) /\ okObjects' = okObjects /\ bad' = bad \cup {o}
    BY <1>1, LoadCovers
  <1>5. /\ below \in Seq(Refs)
        /\ o \in DOMAIN nodes => Objs(below) \subseteq Range(Followed(o))
        /\ o \notin DOMAIN nodes => Objs(below) = {}
    <2>1. o \in DOMAIN nodes => /\ To(Followed(o), o) \in Seq(Refs)
                                /\ Objs(To(Followed(o), o)) = Range(Followed(o))
      BY <1>2, FollowedType, ToType DEF TypeInv
    <2>2. <<>> \in Seq(Refs) /\ Objs(<<>>) = {}
      BY DEF Objs
    <2>. QED
      BY <2>1, <2>2
  <1>6. /\ Reads(o) /\ o \in DOMAIN nodes =>
              Objs(below) = Range(Followed(o)) \/ o \in okObjects
    BY <1>2, FollowedType, ToType DEF TypeInv
  <1>. HIDE DEF below
  <1>7. Objs(todo') = Objs(below) \cup Objs(Tail(todo))
    BY <1>1, <1>2, <1>5, ObjsOfConcat
  <1>8. WalkCovers'
    <2>2. /\ Tips \subseteq okObjects \cup bad \cup Range(queue) /\ seen \subseteq okObjects \cup bad
          /\ Objs(todo) \cap G!Kind("commit") = {}
          /\ \A x \in okObjects : Links(x) \subseteq Met \cup Waiting
      BY <1>1 DEF CoverInv, WalkCovers
    <2>3. Objs(todo') \cap G!Kind("commit") = {}
      <3>1. o \in DOMAIN nodes => Range(Followed(o)) \cap G!Kind("commit") = {}
        BY FollowsNoCommit
      <3>. QED
        BY <1>2, <1>5, <1>7, <2>2, <3>1
    <2>4. /\ Met' = Met \cup {o} /\ Waiting \subseteq Waiting' \cup {o}
          /\ okObjects \cup bad \subseteq okObjects' \cup bad'
          /\ \A x \in okObjects' : x \in okObjects \/ (x = o /\ Reads(o))
      BY <1>1, <1>2, <1>4, <1>7 DEF Met, Accepted, Waiting
    <2>5. Reads(o) /\ o \notin okObjects => Links(o) \subseteq Waiting'
      <3>1. CASE o \notin DOMAIN nodes
        BY <3>1 DEF Links
      <3>2. CASE o \in DOMAIN nodes
        <4>1. nodes[o].kind # "commit"
          BY <1>2, <2>2, <3>2 DEF G!Kind
        <4>2. Range(Followed(o)) = Links(o)
          BY <3>2, <4>1, FollowedType DEF TypeInv
        <4>. QED
          BY <1>6, <1>7, <3>2, <4>2 DEF Waiting
      <3>. QED
        BY <3>1, <3>2
    <2>6. \A x \in okObjects' : Links(x) \subseteq Met' \cup Waiting'
      BY <2>2, <2>4, <2>5
    <2>. QED
      BY <1>1, <1>3, <2>2, <2>3, <2>4, <2>6 DEF WalkCovers
  <1>. QED
    BY <1>1, <1>4, <1>8 DEF CoverInv, Fresh, WalkClosed

\* What passes at a tier is not damaged in a way the tier sees.
LEMMA PassesFine ==
    ASSUME TypeInv, NEW c \in Chunks, NEW tensor, ChunkPasses(c, tensor)
    PROVE  ~Shows(c)
  BY DEF ChunkPasses, Shows, Missing, Whole, TypeInv, TypeOK, Tiers

LEMMA VisitChunkCovers ==
    ASSUME TypeInv, CoverInv, VisitChunk
    PROVE  CoverInv'
  <1>. DEFINE c == Head(todo).object
  <1>1. /\ phase = "walk" /\ phase' = "walk" /\ todo # <<>> /\ Given /\ c \in Chunks
        /\ todo' = Tail(todo) /\ UNCHANGED <<queue, seen>>
    BY DEF VisitChunk, Given
  <1>2. Objs(todo) = {c} \cup Objs(todo')
    BY <1>1, ObjsOfRefs DEF TypeInv, TypeOK
  <1>3. /\ Damaged' = Damaged /\ Tips' = Tips /\ \A kind : G!Kind(kind)' = G!Kind(kind)
        /\ \A x : (Shows(x)' <=> Shows(x)) /\ Links(x)' = Links(x)
    BY <1>1, GivenFacts
  <1>4. CASE UNCHANGED <<memo, verdict>> /\ c \in okChunks \cup bad
    <2>1. AcceptedFine' /\ BadReported'
      BY <1>3, <1>4 DEF CoverInv, AcceptedFine, BadReported, memo, verdict
    <2>2. c \in Met /\ Waiting \subseteq Waiting' \cup Met
      BY <1>1, <1>2, <1>4 DEF Met, Accepted, Waiting
    <2>3. WalkCovers'
      BY <1>1, <1>2, <1>3, <1>4, <2>2 DEF CoverInv, WalkCovers, Accepted, Met, memo
    <2>. QED
      BY <1>1, <2>1, <2>3 DEF CoverInv, Fresh, WalkClosed
  <1>5. CASE /\ ChunkPasses(c, Head(todo).of) /\ okChunks' = okChunks \cup {c}
             /\ UNCHANGED <<okObjects, bad, verdict>>
    <2>1. AcceptedFine' /\ BadReported'
      BY <1>1, <1>3, <1>5, PassesFine DEF CoverInv, AcceptedFine, BadReported, verdict
    <2>2. WalkCovers'
      BY <1>1, <1>2, <1>3, <1>5 DEF CoverInv, WalkCovers, Accepted, Met, Waiting, verdict
    <2>. QED
      BY <1>1, <2>1, <2>2 DEF CoverInv, Fresh, WalkClosed
  <1>6. CASE FailOnce(c) /\ UNCHANGED <<okObjects, okChunks>>
    <2>1. failures' # <<>>
      BY <1>6, FailsAreReported DEF CoverInv
    <2>2. AcceptedFine'
      BY <1>3, <1>6 DEF CoverInv, AcceptedFine
    <2>3. bad' = bad \cup {c}
      BY <1>6 DEF FailOnce
    <2>4. WalkCovers'
      BY <1>1, <1>2, <1>3, <1>6, <2>3 DEF CoverInv, WalkCovers, Accepted, Met, Waiting
    <2>. QED
      BY <1>1, <2>1, <2>2, <2>4 DEF CoverInv, Fresh, BadReported, WalkClosed
  <1>. QED
    BY <1>4, <1>5, <1>6 DEF VisitChunk

LEMMA EndWalkCovers ==
    ASSUME TypeInv, CoverInv, EndWalk
    PROVE  CoverInv'
  <1>1. /\ phase = "walk" /\ phase' \in {"rebuild", "done"} /\ Given
        /\ todo = <<>> /\ queue = <<>> /\ UNCHANGED <<memo, verdict>>
    BY DEF EndWalk, Given
  <1>2. Waiting = {} /\ Range(queue) = {}
    BY <1>1 DEF Waiting, Range, Objs
  <1>3. /\ Damaged' = Damaged /\ Tips' = Tips
        /\ \A x : (Shows(x)' <=> Shows(x)) /\ Links(x)' = Links(x)
    BY <1>1, GivenFacts
  <1>4. AcceptedFine' /\ BadReported'
    BY <1>1, <1>3 DEF CoverInv, AcceptedFine, BadReported, memo, verdict
  <1>5. WalkClosed'
    BY <1>1, <1>2, <1>3 DEF CoverInv, WalkCovers, WalkClosed, Accepted, Met, memo, verdict
  <1>. QED
    BY <1>1, <1>4, <1>5 DEF CoverInv, Fresh, WalkCovers

\* The pass of --content leaves the memo tables alone, and the report only grows.
LEMMA RebuildCovers ==
    ASSUME TypeInv, CoverInv, RebuildCommit \/ RebuildTensor \/ EndRebuild
    PROVE  CoverInv'
  <1>1. /\ phase = "rebuild" /\ phase' \in {"rebuild", "done", "refused", "raised"} /\ Given
        /\ UNCHANGED memo /\ (UNCHANGED verdict \/ \E o : Fail(o))
    BY DEF RebuildCommit, RebuildTensor, EndRebuild, Given
  <1>2. /\ Damaged' = Damaged /\ Tips' = Tips
        /\ \A x : (Shows(x)' <=> Shows(x)) /\ Links(x)' = Links(x)
    BY <1>1, GivenFacts
  <1>3. failures' = <<>> => failures = <<>>
    <2>1. \A o : Append(failures, o) # <<>>
      BY AppendNotEmpty DEF TypeInv, TypeOK
    <2>. QED
      BY <1>1, <2>1 DEF Fail, verdict
  <1>4. AcceptedFine' /\ BadReported'
    BY <1>1, <1>2, <1>3 DEF CoverInv, AcceptedFine, BadReported, memo
  <1>5. WalkClosed'
    BY <1>1, <1>2 DEF CoverInv, WalkClosed, Accepted, Met, memo
  <1>. QED
    BY <1>1, <1>4, <1>5 DEF CoverInv, Fresh, WalkCovers

-----------------------------------------------------------------------------
(* What is reached is accepted.                                            *)

LEMMA LinksType ==
    ASSUME NodesOK, NEW o
    PROVE  Links(o) \subseteq G!Objects
  <1>1. \A kind : G!Kind(kind) \subseteq G!Objects
    BY KindFacts DEF NodesOK
  <1>2. CASE o \notin DOMAIN nodes
    BY <1>2 DEF Links
  <1>3. CASE o \in DOMAIN nodes /\ nodes[o].kind # "commit"
    <2>1. Followed(o) \in Seq(G!Objects) /\ Range(Followed(o)) = Links(o)
      BY <1>3, FollowedType
    <2>. QED
      BY <2>1, RangeType
  <1>4. CASE o \in DOMAIN nodes /\ nodes[o].kind = "commit"
    <2>1. /\ ParentsOf(o) \in Seq(G!Kind("commit"))
          /\ Links(o) = {nodes[o].checkpoint} \cup Range(ParentsOf(o))
          /\ nodes[o].checkpoint \in G!Kind("checkpoint")
      BY <1>4, FollowedType DEF NodesOK, G!Kind
    <2>2. Range(ParentsOf(o)) \subseteq G!Kind("commit")
      <3>. DEFINE commits == G!Kind("commit")
                  parents == ParentsOf(o)
      <3>. HIDE DEF commits, parents
      <3>1. parents \in Seq(commits) => Range(parents) \subseteq commits
        BY RangeType
      <3>. QED
        BY <2>1, <3>1 DEF commits, parents
    <2>. QED
      BY <1>1, <2>1, <2>2
  <1>. QED
    BY <1>2, <1>3, <1>4

LEMMA TipsType == TypeInv => Tips \subseteq G!Kind("commit") /\ Tips \subseteq G!Objects
  <1>. SUFFICES ASSUME TypeInv PROVE Tips \subseteq G!Kind("commit")
    BY KindFacts DEF TypeInv, NodesOK
  <1>. DEFINE commits == G!Kind("commit")
              roots == request.roots
  <1>1. roots \in Seq(commits)
    BY DEF TypeInv, TypeOK
  <1>. HIDE DEF commits, roots
  <1>2. Range(roots) \subseteq commits
    BY <1>1, RangeType
  <1>. QED
    BY <1>2 DEF commits, roots, Tips

\* What is k or fewer links of objects in S away from the tips, for each k.
Strides(S, f) ==
    \A k \in 0..Len(nodes) :
        f[k] = IF k = 0 THEN Tips ELSE f[k - 1] \cup UNION {Links(o) : o \in f[k - 1] \cap S}

LEMMA ReachedStrides ==
    ASSUME TypeInv, NEW S
    PROVE  \E f : Strides(S, f) /\ ReachedBy(S) = f[Len(nodes)]
  <1>. DEFINE n == Len(nodes)
              Within(f) == f = [k \in 0..n |-> IF k = 0 THEN Tips
                                   ELSE f[k - 1] \cup UNION {Links(o) : o \in f[k - 1] \cap S}]
              V == SUBSET G!Objects
              Ends == {0}
              next == [k \in 0..n |-> k - 1]
              last == [k \in 0..n |-> Tips]
              step == [s \in V |-> s \cup UNION {Links(o) : o \in s \cap S}]
  <1>1. n \in Nat
    BY LenProperties DEF TypeInv, NodesOK
  <1>2. step \in [V -> V]
    <2>1. \A o : Links(o) \subseteq G!Objects
      BY LinksType DEF TypeInv
    <2>2. \A s \in V : s \cup UNION {Links(o) : o \in s \cap S} \in V
      BY <2>1
    <2>. QED
      BY <2>2
  <1>3. /\ \A k \in 0..n : k \in Ends => last[k] \in V
        /\ \A k \in 0..n : k \notin Ends => next[k] \in 0..(k - 1) /\ next[k] = k - 1
    BY <1>1, TipsType
  <1>4. \E f : Within(f)
    <2>1. PICK f \in [0..n -> V] :
              \A k \in 0..n : f[k] = IF k \in Ends THEN last[k] ELSE step[f[next[k]]]
      <3>. HIDE DEF V, Ends, next, last, step, n
      <3>1. Walkable(n, V, Ends, next, last, step)
        BY <1>1, <1>2, <1>3 DEF Walkable
      <3>. QED
        BY <3>1, WalkExists DEF Walks
    <2>2. \A k \in 0..n : k \notin Ends => f[k - 1] \in V /\ next[k] = k - 1
      <3>. HIDE DEF V, Ends, next
      <3>1. \A k \in 0..n : 0..(k - 1) \subseteq 0..n
        BY <1>1
      <3>. QED
        BY <1>3, <2>1, <3>1
    <2>3. \A k \in 0..n : f[k] = IF k = 0 THEN Tips
                  ELSE f[k - 1] \cup UNION {Links(o) : o \in f[k - 1] \cap S}
      BY <2>1, <2>2
    <2>. QED
      BY <2>3
  <1>5. ReachedBy(S) = (CHOOSE f : Within(f))[n]
    BY DEF ReachedBy
  <1>6. Within(CHOOSE f : Within(f))
    <2>. HIDE DEF Within
    <2>. QED
      BY <1>4
  <1>7. \A f : Within(f) => Strides(S, f)
    BY DEF Strides
  <1>. HIDE DEF Within
  <1>. QED
    BY <1>5, <1>6, <1>7

\* The first and the next of the strides.
LEMMA StridesStart ==
    ASSUME NEW n \in Nat, n = Len(nodes), NEW S, NEW f, Strides(S, f)
    PROVE  /\ f[0] = Tips
           /\ \A k \in 0..n : k # 0 =>
                 /\ k - 1 \in 0..n /\ k - 1 \in 0..(k - 1)
                 /\ f[k] = f[k - 1] \cup UNION {Links(o) : o \in f[k - 1] \cap S}
  <1>1. \A k \in 0..n : f[k] = IF k = 0 THEN Tips
                               ELSE f[k - 1] \cup UNION {Links(o) : o \in f[k - 1] \cap S}
    BY DEF Strides
  <1>2. \A k \in 0..n : k # 0 => k - 1 \in 0..n /\ k - 1 \in 0..(k - 1)
    OBVIOUS
  <1>3. 0 \in 0..n
    OBVIOUS
  <1>. QED
    BY <1>1, <1>2, <1>3, Zenon

LEMMA ReachedIsAccepted ==
    ASSUME TypeInv, NEW S, NEW W, Tips \subseteq W,
           \A o \in W \cap S : Links(o) \subseteq W
    PROVE  ReachedBy(S) \subseteq W
  <1>. DEFINE n == Len(nodes)
  <1>1. n \in Nat
    BY LenProperties DEF TypeInv, NodesOK
  <1>2. PICK g : Strides(S, g) /\ ReachedBy(S) = g[n]
    BY ReachedStrides
  <1>3. /\ g[0] = Tips
        /\ \A k \in 0..n : k # 0 =>
              /\ k - 1 \in 0..n /\ k - 1 \in 0..(k - 1)
              /\ g[k] = g[k - 1] \cup UNION {Links(o) : o \in g[k - 1] \cap S}
    BY <1>1, <1>2, StridesStart
  <1>. HIDE DEF n
  <1>. DEFINE T == {k \in 0..n : g[k] \subseteq W}
  <1>4. ASSUME NEW k \in 0..n, \A y \in 0..(k - 1) : y \in T
        PROVE  k \in T
    <2>1. CASE k = 0
      BY <1>3, <2>1
    <2>2. CASE k # 0
      <3>1. g[k - 1] \subseteq W
        BY <1>3, <1>4, <2>2
      <3>2. UNION {Links(o) : o \in g[k - 1] \cap S} \subseteq W
        BY <3>1
      <3>. QED
        BY <1>3, <2>2, <3>1, <3>2
    <2>. QED
      BY <2>1, <2>2
  <1>5. \A k \in 0..n : k \in T
    <2>. HIDE DEF T
    <2>. QED
      BY <1>1, <1>4, UpTo
  <1>6. n \in 0..n
    BY <1>1
  <1>. QED
    BY <1>2, <1>5, <1>6 DEF n

\* When nothing failed, the accepted files are closed under the links.
LEMMA ClosedWhenOk ==
    ASSUME CoverInv, phase \in {"rebuild", "done"}, failures = <<>>
    PROVE  Tips \subseteq okObjects /\ \A o \in okObjects : Links(o) \subseteq Accepted
  BY DEF CoverInv, BadReported, WalkClosed, Met

LEMMA CoverMeansWhole == TypeInv /\ CoverInv => OkMeansWhole
  <1>. SUFFICES ASSUME TypeInv, CoverInv, Ok PROVE \A o \in Checked : ~Shows(o)
    BY DEF OkMeansWhole
  <1>1. Tips \subseteq okObjects /\ \A o \in okObjects : Links(o) \subseteq Accepted
    BY ClosedWhenOk DEF Ok
  <1>2. \A c \in Chunks : Links(c) = {}
    <2>1. Chunks \cap DOMAIN nodes = {}
      BY KindFacts, VerifyAssumption DEF TypeInv, NodesOK
    <2>. QED
      BY <2>1 DEF Links
  <1>3. \A o \in Accepted : Links(o) \subseteq Accepted
    BY <1>1, <1>2 DEF Accepted, TypeInv, TypeOK
  <1>4. Checked \subseteq Accepted
    BY <1>1, <1>3, ReachedIsAccepted DEF Checked, Accepted
  <1>. QED
    BY <1>4, ShowsDamage DEF Accepted, CoverInv, AcceptedFine

LEMMA CoverStep == TypeInv /\ CoverInv /\ [Next]_vars => CoverInv'
  <1>. SUFFICES ASSUME TypeInv, CoverInv, [Next]_vars PROVE CoverInv'
    OBVIOUS
  <1>1. CASE UNCHANGED vars
    <2>1. Given /\ UNCHANGED <<phase, queue, seen, todo, okObjects, okChunks, bad, failures>>
      BY <1>1 DEF vars, Given, memo, verdict
    <2>2. /\ Damaged' = Damaged /\ Tips' = Tips /\ \A kind : G!Kind(kind)' = G!Kind(kind)
          /\ \A x : (Shows(x)' <=> Shows(x)) /\ Links(x)' = Links(x)
      BY <2>1, GivenFacts
    <2>. QED
      BY <2>1, <2>2 DEF CoverInv, Fresh, AcceptedFine, BadReported, WalkCovers, WalkClosed,
         Accepted, Met, Waiting
  <1>. QED
    BY <1>1, PutCovers, BeginCovers, VisitCommitCovers, VisitObjectCovers, VisitChunkCovers,
       EndWalkCovers, RebuildCovers DEF Next

\* A verify that says ok has seen every file that the chain of trust leads to
\* from the tips it was given, and none is damaged in a way its tier shows.
THEOREM OkIsWhole == Spec => []OkMeansWhole
  <1>1. TypeInv /\ [Next]_vars => TypeInv'
    BY TypeStep
  <1>2. TypeInv /\ CoverInv /\ [Next]_vars => CoverInv'
    BY CoverStep
  <1>. QED
    BY <1>1, <1>2, TypeInit, CoverInit, CoverMeansWhole, PTL DEF Spec

-----------------------------------------------------------------------------
(* The pass of --content.  Every commit it has seen leads to commits it    *)
(* has seen or that wait, and every tensor of its checkpoint was rebuilt   *)
(* or waits.                                                               *)

RebuildInv ==
    phase \in {"rebuild", "done"} /\ request.rebuild /\ failures = <<>> =>
        /\ Tips \subseteq seen \cup Range(queue)
        /\ seen \cup Range(queue) \subseteq okObjects
        /\ \A c \in seen : Range(nodes[c].parents) \subseteq seen \cup Range(queue)
        /\ \A c \in seen : \A t \in Range(nodes[nodes[c].checkpoint].tensors) :
              Rebuilds(t) \/ t \in Objs(todo)
        /\ phase = "done" => queue = <<>> /\ todo = <<>>

\* What a reader follows from a manifest or commit is what the walk follows,
\* and the base and the permutations of a residual.
LEMMA NamesFacts ==
    ASSUME NodesOK, NEW o \in G!Objects
    PROVE  /\ G!Names(o) \subseteq G!Objects
           /\ o \in G!Leaves => G!Names(o) = {}
           /\ o \in G!Kind("commit") \cup G!Kind("checkpoint") => G!Names(o) \subseteq Links(o)
  <1>1. \A n \in DOMAIN nodes : n \in Nat /\ n \notin G!Leaves /\ nodes[n] \in Node
    BY KindFacts, VerifyAssumption DEF NodesOK, G!Leaves
  <1>2. \A kind : G!Kind(kind) \subseteq G!Objects
    BY KindFacts DEF NodesOK
  <1>3. o \in G!Leaves => G!Names(o) = {}
    BY DEF G!Names
  <1>4. CASE o \in DOMAIN nodes /\ nodes[o].kind = "tensor"
    <2>1. /\ nodes[o].base \in G!Objects \cup {Absent}
          /\ {nodes[o].row, nodes[o].col} \subseteq Perms \cup {Absent}
          /\ Range(nodes[o].chunks) \subseteq Chunks
      <3>1. nodes[o].base \in G!Kind("tensor") \cup {Absent}
        BY <1>4 DEF NodesOK, G!Kind
      <3>2. /\ nodes[o].row \in Perms \cup {Absent} /\ nodes[o].col \in Perms \cup {Absent}
            /\ nodes[o].chunks \in Seq(Chunks)
        BY <1>1, <1>4 DEF Node
      <3>. QED
        BY <1>2, <3>1, <3>2, RangeType
    <2>2. G!Names(o) = ({nodes[o].base, nodes[o].row, nodes[o].col}
                            \cup Range(nodes[o].chunks)) \ {Absent}
      BY <1>1, <1>4 DEF G!Names, G!Fields, Range, G!Range
    <2>3. G!Names(o) \subseteq G!Objects
      BY <2>1, <2>2 DEF G!Objects, G!Leaves
    <2>. QED
      BY <1>1, <1>4, <2>3 DEF G!Kind
  <1>5. CASE o \in DOMAIN nodes /\ nodes[o].kind = "checkpoint"
    <2>1. G!Names(o) = ({nodes[o].header, nodes[o].config}
                            \cup Range(nodes[o].tensors)) \ {Absent}
      BY <1>1, <1>5 DEF G!Names, G!Fields, Range, G!Range
    <2>2. G!Names(o) \subseteq Links(o)
      BY <1>5, <2>1 DEF Links
    <2>3. Range(nodes[o].tensors) \subseteq G!Kind("tensor")
      BY <1>5, RangeType DEF NodesOK, G!Kind
    <2>4. nodes[o].header \in Headers /\ nodes[o].config \in Configs \cup {Absent}
      BY <1>1, <1>5 DEF Node
    <2>. QED
      BY <1>1, <1>2, <1>5, <2>1, <2>2, <2>3, <2>4 DEF G!Objects, G!Leaves
  <1>6. CASE o \in DOMAIN nodes /\ nodes[o].kind = "commit"
    <2>1. G!Names(o) = ({nodes[o].checkpoint} \cup Range(nodes[o].parents)) \ {Absent}
      BY <1>1, <1>6 DEF G!Names, G!Fields, Range, G!Range
    <2>2. G!Names(o) \subseteq Links(o)
      BY <1>6, <2>1 DEF Links
    <2>3. o \in G!Kind("commit")
      BY <1>6 DEF G!Kind
    <2>4. nodes[o].checkpoint \in G!Kind("checkpoint") /\ nodes[o].parents \in Seq(G!Kind("commit"))
      BY <2>3 DEF NodesOK
    <2>5. Range(nodes[o].parents) \subseteq G!Kind("commit")
      <3>. DEFINE commits == G!Kind("commit")
                  parents == nodes[o].parents
      <3>. HIDE DEF commits, parents
      <3>1. parents \in Seq(commits) => Range(parents) \subseteq commits
        BY RangeType
      <3>. QED
        BY <2>4, <3>1 DEF commits, parents
    <2>. QED
      BY <1>1, <1>2, <1>6, <2>1, <2>2, <2>4, <2>5
  <1>7. o \in DOMAIN nodes => nodes[o].kind \in {"tensor", "checkpoint", "commit"}
    BY <1>1 DEF Node
  <1>. QED
    BY <1>1, <1>3, <1>4, <1>5, <1>6, <1>7 DEF G!Objects, G!Kind

\* What is k or fewer names away from an object, for each k.
Steps(o, f) ==
    \A k \in 0..Len(nodes) :
        f[k] = IF k = 0 THEN {o} ELSE f[k - 1] \cup UNION {G!Names(x) : x \in f[k - 1]}

LEMMA ReachableSteps ==
    ASSUME NodesOK, NEW tip \in G!Objects
    PROVE  \E f : Steps(tip, f) /\ G!Reachable(tip) = f[Len(nodes)]
  <1>. DEFINE n == Len(nodes)
              Within(f) == f = [k \in 0..n |-> IF k = 0 THEN {tip}
                                   ELSE f[k - 1] \cup UNION {G!Names(x) : x \in f[k - 1]}]
              V == SUBSET G!Objects
              Ends == {0}
              next == [k \in 0..n |-> k - 1]
              last == [k \in 0..n |-> {tip}]
              step == [s \in V |-> s \cup UNION {G!Names(x) : x \in s}]
  <1>1. n \in Nat
    BY LenProperties DEF NodesOK
  <1>2. step \in [V -> V]
    <2>1. \A s \in V : \A x \in s : G!Names(x) \subseteq G!Objects
      BY NamesFacts
    <2>2. \A s \in V : s \cup UNION {G!Names(x) : x \in s} \in V
      BY <2>1
    <2>. QED
      BY <2>2
  <1>3. /\ \A k \in 0..n : k \in Ends => last[k] \in V
        /\ \A k \in 0..n : k \notin Ends => next[k] \in 0..(k - 1) /\ next[k] = k - 1
    BY <1>1
  <1>4. \E f : Within(f)
    <2>1. PICK f \in [0..n -> V] :
              \A k \in 0..n : f[k] = IF k \in Ends THEN last[k] ELSE step[f[next[k]]]
      <3>. HIDE DEF V, Ends, next, last, step, n
      <3>1. Walkable(n, V, Ends, next, last, step)
        BY <1>1, <1>2, <1>3 DEF Walkable
      <3>. QED
        BY <3>1, WalkExists DEF Walks
    <2>2. \A k \in 0..n : k \notin Ends => f[k - 1] \in V /\ next[k] = k - 1
      <3>. HIDE DEF V, Ends, next
      <3>1. \A k \in 0..n : 0..(k - 1) \subseteq 0..n
        BY <1>1
      <3>. QED
        BY <1>3, <2>1, <3>1
    <2>3. \A k \in 0..n : f[k] = IF k = 0 THEN {tip}
                  ELSE f[k - 1] \cup UNION {G!Names(x) : x \in f[k - 1]}
      BY <2>1, <2>2
    <2>. QED
      BY <2>3
  <1>5. G!Reachable(tip) = (CHOOSE f : Within(f))[n]
    BY DEF G!Reachable
  <1>6. Within(CHOOSE f : Within(f))
    <2>. HIDE DEF Within
    <2>. QED
      BY <1>4
  <1>7. \A f : Within(f) => Steps(tip, f)
    BY DEF Steps
  <1>. HIDE DEF Within
  <1>. QED
    BY <1>5, <1>6, <1>7

\* More names lead to no less.
LEMMA StepsGrow ==
    ASSUME NEW o, NEW f, Steps(o, f), Len(nodes) \in Nat
    PROVE  /\ f[0] = {o}
           /\ \A k \in 0..Len(nodes) : k # 0 => f[k - 1] \subseteq f[k] /\ o \in f[k]
           /\ \A k \in 0..Len(nodes) : k # 0 => G!Names(o) \subseteq f[k]
  <1>. DEFINE n == Len(nodes)
              T == {k \in 0..n : /\ o \in f[k]
                                 /\ k # 0 => G!Names(o) \subseteq f[k]}
  <1>0. \A k \in 0..n : f[k] = IF k = 0 THEN {o}
                               ELSE f[k - 1] \cup UNION {G!Names(x) : x \in f[k - 1]}
    BY DEF Steps
  <1>. HIDE DEF n
  <1>4. n \in Nat
    BY DEF n
  <1>1. \A k \in 0..n : k # 0 =>
            /\ k - 1 \in 0..n /\ k - 1 \in 0..(k - 1)
            /\ f[k] = f[k - 1] \cup UNION {G!Names(x) : x \in f[k - 1]}
    <2>1. \A k \in 0..n : k # 0 => k - 1 \in 0..n /\ k - 1 \in 0..(k - 1)
      BY <1>4
    <2>2. \A k \in 0..n : k # 0 => f[k] = f[k - 1] \cup UNION {G!Names(x) : x \in f[k - 1]}
      BY <1>0, Zenon
    <2>. QED
      BY <2>1, <2>2
  <1>2. f[0] = {o}
    <2>1. 0 \in 0..n
      BY <1>4
    <2>. QED
      BY <1>0, <2>1, Zenon
  <1>3. ASSUME NEW k \in 0..n, \A y \in 0..(k - 1) : y \in T
        PROVE  k \in T
    <2>1. CASE k = 0
      BY <1>2, <2>1
    <2>2. CASE k # 0
      <3>1. o \in f[k - 1]
        BY <1>1, <1>3, <2>2
      <3>. QED
        BY <1>1, <2>2, <3>1
    <2>. QED
      BY <2>1, <2>2
  <1>5. \A k \in 0..n : k \in T
    <2>. HIDE DEF T
    <2>. QED
      BY <1>3, <1>4, UpTo
  <1>. QED
    BY <1>1, <1>2, <1>5 DEF n

\* All that a read-back tensor leads to is whole, and so is the rest of what
\* the commits that were seen lead to.
LEMMA RebuildMeansWhole == TypeInv /\ CoverInv /\ RebuildInv => RebuildIsSound
  <1>. SUFFICES ASSUME TypeInv, CoverInv, RebuildInv, Ok, request.rebuild,
                       request.tier = "content", NEW tip \in Tips
                PROVE  \A o \in G!Reachable(tip) : Whole(o)
    BY DEF RebuildIsSound
  <1>. DEFINE n == Len(nodes)
              tensors == {t \in G!Kind("tensor") : Rebuilds(t)}
              H == [t \in tensors |-> CHOOSE f : Steps(t, f) /\ G!Reachable(t) = f[n]]
              checkpoints == {nodes[c].checkpoint : c \in seen}
              Own == seen \cup checkpoints \cup (okObjects \cap G!Leaves)
  <1>1. n \in Nat
    BY LenProperties DEF TypeInv, NodesOK
  <1>2. /\ NodesOK /\ G!Kind("tensor") \subseteq G!Objects /\ seen \subseteq G!Kind("commit")
        /\ G!Kind("commit") \subseteq G!Objects /\ G!Kind("checkpoint") \subseteq G!Objects
    BY KindFacts DEF TypeInv, TypeOK, NodesOK
  <1>3. \A t \in tensors : Steps(t, H[t]) /\ G!Reachable(t) = H[t][n]
    BY <1>2, ReachableSteps
  <1>4. \A t \in tensors : \A o \in H[t][n] : Whole(o)
    BY <1>3 DEF Rebuilds
  <1>5. /\ queue = <<>> /\ todo = <<>> /\ Tips \subseteq seen /\ seen \subseteq okObjects
        /\ \A c \in seen : Range(nodes[c].parents) \subseteq seen
        /\ \A c \in seen : \A t \in Range(nodes[nodes[c].checkpoint].tensors) : Rebuilds(t)
    <2>1. queue = <<>> /\ todo = <<>>
      BY DEF RebuildInv, Ok
    <2>2. Range(queue) = {} /\ Objs(todo) = {}
      BY <2>1 DEF Range, Objs
    <2>. QED
      BY <2>1, <2>2 DEF RebuildInv, Ok
  <1>6. /\ checkpoints \subseteq okObjects /\ checkpoints \subseteq G!Kind("checkpoint")
        /\ \A o \in okObjects : Links(o) \subseteq Accepted
    <2>1. \A o \in okObjects : Links(o) \subseteq Accepted
      BY ClosedWhenOk DEF Ok
    <2>2. \A c \in seen : nodes[c].checkpoint \in Links(c)
                          /\ nodes[c].checkpoint \in G!Kind("checkpoint")
      BY <1>2 DEF Links, G!Kind, NodesOK
    <2>3. G!Kind("checkpoint") \cap Chunks = {}
      BY KindFacts, VerifyAssumption, <1>2 DEF NodesOK
    <2>. QED
      BY <1>5, <2>1, <2>2, <2>3 DEF Accepted, TypeInv, TypeOK
  <1>7. \A o \in okObjects : Whole(o)
    BY DEF CoverInv, AcceptedFine, Whole
  <1>8. Own \subseteq okObjects
    BY <1>5, <1>6
  <1>9. \A o \in Own : G!Names(o) \subseteq Own \cup tensors
    <2>1. ASSUME NEW c \in seen
          PROVE  G!Names(c) \subseteq Own
      <3>1. G!Names(c) \subseteq Links(c)
        BY <1>2, NamesFacts
      <3>2. Links(c) = {nodes[c].checkpoint} \cup Range(nodes[c].parents)
        BY <1>2 DEF Links, G!Kind
      <3>. QED
        BY <1>5, <3>1, <3>2
    <2>2. ASSUME NEW c \in seen
          PROVE  G!Names(nodes[c].checkpoint) \subseteq Own \cup tensors
      <3>. DEFINE k == nodes[c].checkpoint
      <3>1. k \in G!Kind("checkpoint") /\ k \in okObjects
        BY <1>6
      <3>2. G!Names(k) \subseteq Links(k) /\ Links(k) \subseteq Accepted
        BY <1>2, <1>6, <3>1, NamesFacts
      <3>3. /\ Links(k) = ({nodes[k].header, nodes[k].config} \ {Absent}) \cup Range(nodes[k].tensors)
            /\ nodes[k] \in Node /\ nodes[k].kind = "checkpoint"
        BY <1>2, <3>1, KindFacts DEF Links, G!Kind, NodesOK
      <3>4. Range(nodes[k].tensors) \subseteq tensors
        <4>1. nodes[k].tensors \in Seq(G!Kind("tensor"))
          BY <1>2, <3>1 DEF NodesOK
        <4>2. Range(nodes[k].tensors) \subseteq G!Kind("tensor")
          BY <4>1, RangeType
        <4>. QED
          BY <1>5, <4>2
      <3>5. {nodes[k].header, nodes[k].config} \ {Absent} \subseteq Headers \cup Configs
        BY <3>3 DEF Node
      <3>6. Accepted \cap (Headers \cup Configs) \subseteq okObjects
        BY VerifyAssumption DEF Accepted, TypeInv, TypeOK
      <3>7. Headers \cup Configs \subseteq G!Leaves
        BY DEF G!Leaves
      <3>. HIDE DEF k, tensors
      <3>8. G!Names(k) \subseteq (okObjects \cap G!Leaves) \cup tensors
        BY <3>2, <3>3, <3>4, <3>5, <3>6, <3>7
      <3>. QED
        BY <3>8 DEF k
    <2>3. \A o \in okObjects \cap G!Leaves : G!Names(o) = {}
      BY <1>2, NamesFacts DEF G!Objects
    <2>. QED
      BY <2>1, <2>2, <2>3
  <1>10. PICK g : Steps(tip, g) /\ G!Reachable(tip) = g[n]
    BY <1>2, <1>5, ReachableSteps
  <1>. DEFINE Far(k) == Own \cup UNION {H[t][k] : t \in tensors}
              T == {k \in 0..n : g[k] \subseteq Far(k)}
  <1>11. \A t \in tensors : H[t][0] = {t}
                            /\ \A k \in 0..n : k # 0 =>
                                  /\ H[t][k - 1] \subseteq H[t][k] /\ t \in H[t][k]
                                  /\ \A x \in H[t][k - 1] : G!Names(x) \subseteq H[t][k]
    <2>1. \A t \in tensors : \A k \in 0..n : k # 0 =>
              H[t][k] = H[t][k - 1] \cup UNION {G!Names(x) : x \in H[t][k - 1]}
      BY <1>1, <1>3 DEF Steps
    <2>2. \A t \in tensors : H[t][0] = {t} /\ \A k \in 0..n : k # 0 => t \in H[t][k]
      BY <1>1, <1>3, StepsGrow
    <2>. HIDE DEF tensors, H
    <2>. QED
      BY <2>1, <2>2
  <1>12. ASSUME NEW k \in 0..n, \A y \in 0..(k - 1) : y \in T
         PROVE  k \in T
    <2>1. CASE k = 0
      <3>1. g[k] = {tip}
        BY <1>1, <1>10, <2>1 DEF Steps
      <3>. QED
        BY <1>5, <3>1
    <2>2. CASE k # 0
      <3>1. /\ g[k - 1] \subseteq Far(k - 1)
            /\ g[k] = g[k - 1] \cup UNION {G!Names(x) : x \in g[k - 1]}
        <4>1. k - 1 \in 0..(k - 1)
          BY <1>1, <2>2
        <4>2. k - 1 \in T
          BY <1>12, <4>1
        <4>. QED
          BY <1>10, <2>2, <4>2 DEF Steps
      <3>. HIDE DEF H, Own, tensors
      <3>2. Far(k - 1) \subseteq Far(k)
        BY <1>11, <2>2
      <3>3. \A x \in Own : G!Names(x) \subseteq Far(k)
        BY <1>9, <1>11, <2>2
      <3>4. \A t \in tensors : \A x \in H[t][k - 1] : G!Names(x) \subseteq Far(k)
        BY <1>11, <2>2
      <3>5. \A x \in Far(k - 1) : G!Names(x) \subseteq Far(k)
        BY <3>3, <3>4
      <3>. QED
        BY <3>1, <3>2, <3>5
    <2>. QED
      BY <2>1, <2>2
  <1>13. \A k \in 0..n : k \in T
    <2>. HIDE DEF T, n
    <2>. QED
      BY <1>1, <1>12, UpTo
  <1>14. G!Reachable(tip) \subseteq Far(n)
    BY <1>1, <1>10, <1>13
  <1>. HIDE DEF H, Own, tensors
  <1>. QED
    BY <1>4, <1>7, <1>8, <1>14

LEMMA RebuildsSame ==
    ASSUME Given
    PROVE  \A t : Rebuilds(t)' <=> Rebuilds(t)
  <1>1. nodes' = nodes /\ harm' = harm
    BY DEF Given, store
  <1>2. \A t : G!Reachable(t)' = G!Reachable(t)
    BY <1>1 DEF G!Reachable, G!Names, G!Fields, G!Leaves
  <1>. QED
    BY <1>1, <1>2 DEF Rebuilds, Whole, Damaged

LEMMA EndWalkRebuilds ==
    ASSUME TypeInv, CoverInv', EndWalk
    PROVE  RebuildInv'
  <1>1. /\ todo' = <<>> /\ request' = request /\ Tips' = Tips
        /\ request.rebuild => phase' = "rebuild" /\ seen' = {} /\ queue' = request.roots
    BY DEF EndWalk, Tips
  <1>2. phase' = "rebuild" /\ failures' = <<>> => Tips' \subseteq okObjects'
    BY DEF CoverInv, BadReported, WalkClosed
  <1>. QED
    BY <1>1, <1>2 DEF RebuildInv, Tips

LEMMA RebuildCommitRebuilds ==
    ASSUME TypeInv, CoverInv, RebuildInv, RebuildCommit
    PROVE  RebuildInv'
  <1>. DEFINE c == Head(queue)
              k == nodes[c].checkpoint
              new == c \notin seen /\ Parses(c)
  <1>1. /\ phase = "rebuild" /\ todo = <<>> /\ queue # <<>> /\ Given /\ UNCHANGED memo
        /\ seen' = seen \cup {c}
        /\ queue' = Tail(queue) \o (IF new THEN ParentsOf(c) ELSE <<>>)
        /\ phase' = IF new /\ k \in harm["garbled"] THEN "raised" ELSE phase
        /\ IF new /\ Missing(k) THEN Fail(c) ELSE UNCHANGED verdict
        /\ todo' = IF new /\ Parses(k) THEN To(nodes[k].tensors, k) ELSE <<>>
    BY DEF RebuildCommit, Given
  <1>2. /\ nodes' = nodes /\ request' = request /\ Tips' = Tips /\ okObjects' = okObjects
        /\ \A t : Rebuilds(t)' <=> Rebuilds(t)
    BY <1>1, GivenFacts, RebuildsSame DEF Given, memo
  <1>3. failures' = <<>> => failures = <<>>
    <2>1. \A o : Append(failures, o) # <<>>
      BY AppendNotEmpty DEF TypeInv, TypeOK
    <2>. QED
      BY <1>1, <2>1 DEF Fail, verdict
  <1>. SUFFICES ASSUME request.rebuild, failures' = <<>>, phase' = "rebuild"
                PROVE  /\ Tips \subseteq seen' \cup Range(queue')
                       /\ seen' \cup Range(queue') \subseteq okObjects
                       /\ \A d \in seen' : Range(nodes[d].parents) \subseteq seen' \cup Range(queue')
                       /\ \A d \in seen' : \A t \in Range(nodes[nodes[d].checkpoint].tensors) :
                             Rebuilds(t) \/ t \in Objs(todo')
    <2>1. phase' # "done"
      BY <1>1
    <2>. QED
      BY <1>2, <2>1 DEF RebuildInv
  <1>4. /\ Tips \subseteq seen \cup Range(queue) /\ seen \cup Range(queue) \subseteq okObjects
        /\ \A d \in seen : Range(nodes[d].parents) \subseteq seen \cup Range(queue)
        /\ \A d \in seen : \A t \in Range(nodes[nodes[d].checkpoint].tensors) :
              Rebuilds(t) \/ t \in Objs(todo)
    BY <1>1, <1>3 DEF RebuildInv
  <1>5. Objs(todo) = {}
    BY <1>1 DEF Objs
  <1>6. /\ Tail(queue) \in Seq(G!Kind("commit")) /\ c \in G!Kind("commit")
        /\ Range(queue) = {c} \cup Range(Tail(queue))
    <2>1. queue \in Seq(G!Kind("commit"))
      BY DEF TypeInv, TypeOK
    <2>. QED
      BY <1>1, <2>1, HeadAndTail
  <1>7. /\ k \in G!Kind("checkpoint") /\ ParentsOf(c) \in Seq(G!Kind("commit"))
        /\ ParentsOf(c) = nodes[c].parents
        /\ Links(c) = {k} \cup Range(ParentsOf(c))
    BY <1>6 DEF TypeInv, NodesOK, Links, G!Kind, ParentsOf
  <1>8. Links(c) \subseteq okObjects
    <2>1. Links(c) \subseteq Accepted
      BY <1>1, <1>3, <1>4, <1>6, ClosedWhenOk
    <2>2. Range(ParentsOf(c)) \subseteq G!Kind("commit")
      <3>. DEFINE commits == G!Kind("commit")
                  parents == ParentsOf(c)
      <3>. HIDE DEF commits, parents
      <3>1. parents \in Seq(commits) => Range(parents) \subseteq commits
        BY RangeType
      <3>. QED
        BY <1>7, <3>1 DEF commits, parents
    <2>3. Links(c) \cap Chunks = {}
      BY <1>7, <2>2, KindFacts, VerifyAssumption DEF TypeInv, NodesOK
    <2>. QED
      BY <2>1, <2>3 DEF Accepted, TypeInv, TypeOK
  <1>9. \A o \in okObjects : Parses(o)
    BY DEF CoverInv, AcceptedFine, Parses, Missing, Damaged, Harms
  <1>10. CASE c \in seen
    <2>1. queue' = Tail(queue) \o <<>> /\ todo' = <<>> /\ seen' = seen
      BY <1>1, <1>10
    <2>2. queue' = Tail(queue)
      <3>. DEFINE commits == G!Kind("commit")
                  rest == Tail(queue)
      <3>. HIDE DEF commits, rest
      <3>1. rest \in Seq(commits) => rest \o <<>> = rest
        BY ConcatEmptySeq
      <3>. QED
        BY <1>6, <2>1, <3>1 DEF commits, rest
    <2>3. Range(queue) \subseteq seen' \cup Range(queue') /\ Range(queue') \subseteq Range(queue)
      BY <1>6, <1>10, <2>1, <2>2
    <2>. QED
      BY <1>1, <1>4, <2>1, <2>3
  <1>11. CASE c \notin seen
    <2>1. new /\ Parses(k)
      BY <1>4, <1>6, <1>7, <1>8, <1>9, <1>11
    <2>2. queue' = Tail(queue) \o ParentsOf(c) /\ todo' = To(nodes[k].tensors, k)
      BY <1>1, <2>1
    <2>3. Range(queue') = Range(Tail(queue)) \cup Range(ParentsOf(c))
      <3>. DEFINE commits == G!Kind("commit")
                  rest == Tail(queue)
                  parents == ParentsOf(c)
      <3>1. rest \in Seq(commits) /\ parents \in Seq(commits)
        BY <1>6, <1>7
      <3>. HIDE DEF commits, rest, parents
      <3>2. Range(rest \o parents) = Range(rest) \cup Range(parents)
        BY <3>1, RangeOfConcat
      <3>. QED
        BY <2>2, <3>2 DEF rest, parents
    <2>4. Objs(todo') = Range(nodes[k].tensors)
      BY <2>2 DEF To, Objs, Range
    <2>5. Range(queue) \subseteq seen' \cup Range(queue') /\ seen \subseteq seen'
      BY <1>1, <1>6, <2>3
    <2>6. seen' \cup Range(queue') \subseteq okObjects
      BY <1>1, <1>4, <1>6, <1>7, <1>8, <2>3
    <2>7. \A d \in seen' : Range(nodes[d].parents) \subseteq seen' \cup Range(queue')
      BY <1>1, <1>4, <1>7, <2>3, <2>5
    <2>8. \A d \in seen' : \A t \in Range(nodes[nodes[d].checkpoint].tensors) :
              Rebuilds(t) \/ t \in Objs(todo')
      BY <1>1, <1>4, <1>5, <2>4
    <2>. QED
      BY <1>4, <2>5, <2>6, <2>7, <2>8
  <1>. QED
    BY <1>10, <1>11

LEMMA RebuildTensorRebuilds ==
    ASSUME TypeInv, CoverInv, RebuildInv, RebuildTensor
    PROVE  RebuildInv'
  <1>. DEFINE t == Head(todo).object
  <1>1. /\ phase = "rebuild" /\ todo # <<>> /\ Given /\ UNCHANGED <<queue, seen, memo>>
        /\ phase' = IF Parses(t) THEN phase ELSE IF Missing(t) THEN "refused" ELSE "raised"
        /\ IF Parses(t) /\ ~Rebuilds(t) THEN Fail(t) ELSE UNCHANGED verdict
        /\ todo' = Tail(todo)
    BY DEF RebuildTensor, Given
  <1>2. /\ nodes' = nodes /\ request' = request /\ Tips' = Tips /\ okObjects' = okObjects
        /\ \A x : Rebuilds(x)' <=> Rebuilds(x)
    BY <1>1, GivenFacts, RebuildsSame DEF Given, memo
  <1>3. Objs(todo) = {t} \cup Objs(todo')
    BY <1>1, ObjsOfRefs DEF TypeInv, TypeOK
  <1>4. phase' = "rebuild" /\ failures' = <<>> => failures = <<>> /\ Rebuilds(t)
    <2>1. \A o : Append(failures, o) # <<>>
      BY AppendNotEmpty DEF TypeInv, TypeOK
    <2>2. Fail(t) => failures' # <<>>
      <3>1. CASE failures = <<>>
        <4>1. ~(Len(failures) >= MaxFailures)
          BY <3>1, VerifyAssumption
        <4>. QED
          BY <2>1, <4>1 DEF Fail
      <3>2. CASE failures # <<>>
        BY <2>1, <3>2 DEF Fail
      <3>. QED
        BY <3>1, <3>2
    <2>. QED
      BY <1>1, <2>2 DEF verdict
  <1>5. phase' # "done"
    BY <1>1
  <1>. HIDE DEF t
  <1>. QED
    BY <1>1, <1>2, <1>3, <1>4, <1>5 DEF RebuildInv

LEMMA EndRebuildRebuilds ==
    ASSUME TypeInv, RebuildInv, EndRebuild
    PROVE  RebuildInv'
  <1>1. /\ phase = "rebuild" /\ todo = <<>> /\ queue = <<>> /\ Given
        /\ UNCHANGED <<queue, seen, todo, memo, verdict>>
    BY DEF EndRebuild, Given
  <1>2. /\ nodes' = nodes /\ request' = request /\ Tips' = Tips
        /\ okObjects' = okObjects /\ failures' = failures
        /\ \A x : Rebuilds(x)' <=> Rebuilds(x)
    BY <1>1, GivenFacts, RebuildsSame DEF Given, memo, verdict
  <1>. QED
    BY <1>1, <1>2 DEF RebuildInv

LEMMA RebuildStep == TypeInv /\ CoverInv /\ CoverInv' /\ RebuildInv /\ [Next]_vars => RebuildInv'
  <1>. SUFFICES ASSUME TypeInv, CoverInv, CoverInv', RebuildInv, [Next]_vars
                PROVE  RebuildInv'
    OBVIOUS
  <1>1. CASE UNCHANGED vars
    <2>1. Given /\ UNCHANGED <<phase, queue, seen, todo, okObjects, failures>>
      BY <1>1 DEF vars, Given, memo, verdict
    <2>2. nodes' = nodes /\ request' = request /\ Tips' = Tips
          /\ \A x : Rebuilds(x)' <=> Rebuilds(x)
      BY <2>1, GivenFacts, RebuildsSame DEF Given
    <2>. QED
      BY <2>1, <2>2 DEF RebuildInv
  <1>2. CASE PutTensor \/ PutOther \/ Damage \/ Begin
    <2>1. phase' \in {"store", "walk"}
      BY <1>2 DEF PutTensor, PutOther, Damage, Begin
    <2>. QED
      BY <2>1 DEF RebuildInv
  <1>3. CASE VisitCommit \/ VisitObject \/ VisitChunk
    <2>1. phase' = "walk"
      BY <1>3 DEF VisitCommit, VisitObject, VisitChunk
    <2>. QED
      BY <2>1 DEF RebuildInv
  <1>. QED
    BY <1>1, <1>2, <1>3, EndWalkRebuilds, RebuildCommitRebuilds, RebuildTensorRebuilds,
       EndRebuildRebuilds DEF Next

\* A verify --content that says ok has read back every tensor of the history:
\* all that a reader needs, the bases and permutations of residuals included,
\* is whole.
THEOREM OkIsRebuilt == Spec => []RebuildIsSound
  <1>1. TypeInv /\ [Next]_vars => TypeInv'
    BY TypeStep
  <1>2. TypeInv /\ CoverInv /\ [Next]_vars => CoverInv'
    BY CoverStep
  <1>3. Init => RebuildInv
    BY DEF Init, RebuildInv
  <1>. QED
    BY <1>1, <1>2, <1>3, TypeInit, CoverInit, RebuildStep, RebuildMeansWhole, PTL DEF Spec

-----------------------------------------------------------------------------
(* The references that are followed to chunks are those of tensor          *)
(* manifests.                                                              *)

ChunkRef(r) == r.of \in G!Kind("tensor") /\ r.object \in Range(nodes[r.of].chunks)
ChunkRefs == phase = "walk" => \A r \in Range(todo) : r.object \in Chunks => ChunkRef(r)

LEMMA GivenKeepsRefs == Given => \A r : ChunkRef(r)' <=> ChunkRef(r)
  BY DEF Given, store, G!Kind, ChunkRef

LEMMA FollowsChunks ==
    ASSUME TypeInv, NEW n \in DOMAIN nodes
    PROVE  \A r \in Range(To(Followed(n), n)) : r.object \in Chunks => ChunkRef(r)
  <1>1. /\ Followed(n) \in Seq(G!Objects) /\ n \in G!Objects
        /\ nodes[n].kind \in {"tensor", "checkpoint", "commit"}
    BY FollowedType, KindFacts DEF TypeInv, NodesOK
  <1>2. \A r \in Range(To(Followed(n), n)) : r.of = n /\ r.object \in Range(Followed(n))
    BY <1>1, ToType
  <1>3. CASE nodes[n].kind = "tensor"
    <2>1. Followed(n) = nodes[n].chunks /\ n \in G!Kind("tensor")
      BY <1>3 DEF Followed, G!Kind
    <2>. QED
      BY <1>2, <2>1 DEF ChunkRef
  <1>4. CASE nodes[n].kind = "commit"
    <2>1. Range(Followed(n)) = {nodes[n].checkpoint} /\ nodes[n].checkpoint \in Nat
      BY <1>4, FollowedType, KindFacts DEF TypeInv, NodesOK, G!Kind
    <2>. QED
      BY <1>2, <2>1, VerifyAssumption
  <1>5. CASE nodes[n].kind = "checkpoint"
    <2>1. nodes[n] \in Node /\ nodes[n].tensors \in Seq(G!Kind("tensor"))
      BY <1>5 DEF TypeInv, NodesOK, G!Kind
    <2>2. Range(nodes[n].tensors) \subseteq Nat
      BY <2>1, RangeType, KindFacts DEF TypeInv, NodesOK
    <2>3. {nodes[n].header, nodes[n].config} \ {Absent} \subseteq Headers \cup Configs
      BY <1>5, <2>1 DEF Node
    <2>4. Range(Followed(n)) \subseteq Nat \cup Headers \cup Configs
      BY <1>5, <2>2, <2>3, FollowedType DEF TypeInv, Links
    <2>. QED
      BY <1>2, <2>4, VerifyAssumption
  <1>. QED
    BY <1>1, <1>3, <1>4, <1>5

LEMMA VisitCommitRefs ==
    ASSUME TypeInv, ChunkRefs, VisitCommit
    PROVE  ChunkRefs'
  <1>. DEFINE c == Head(queue)
  <1>1. Given /\ phase = "walk"
    BY DEF VisitCommit, Given
  <1>2. c \in DOMAIN nodes
    <2>1. queue \in Seq(G!Kind("commit")) /\ queue # <<>>
      BY DEF TypeInv, TypeOK, VisitCommit
    <2>. QED
      BY <2>1, HeadAndTail, KindFacts DEF TypeInv, NodesOK
  <1>3. todo' = todo \/ todo' = <<>> \/ todo' = To(Followed(c), c)
    BY DEF VisitCommit
  <1>4. \A r \in Range(todo') : r.object \in Chunks => ChunkRef(r)
    BY <1>1, <1>2, <1>3, FollowsChunks DEF ChunkRefs, Range
  <1>. QED
    BY <1>1, <1>4, GivenKeepsRefs DEF ChunkRefs

LEMMA VisitObjectRefs ==
    ASSUME TypeInv, ChunkRefs, VisitObject
    PROVE  ChunkRefs'
  <1>. DEFINE o == Head(todo).object
              rest == Tail(todo)
              below == IF Reads(o) /\ o \in DOMAIN nodes
                          /\ ~(nodes[o].kind = "tensor" /\ o \in okObjects)
                       THEN To(Followed(o), o) ELSE <<>>
  <1>1. Given /\ phase = "walk" /\ todo' = below \o rest
    BY DEF VisitObject, Given
  <1>2. o \in G!Objects /\ rest \in Seq(Refs) /\ Range(todo) = {Head(todo)} \cup Range(rest)
    BY ObjsOfRefs, HeadAndTail DEF VisitObject, TypeInv, TypeOK, Refs
  <1>3. below \in Seq(Refs)
    BY <1>2, FollowedType, ToType DEF TypeInv
  <1>4. \A r \in Range(below) : r.object \in Chunks => ChunkRef(r)
    BY FollowsChunks DEF Range
  <1>. HIDE DEF below, rest
  <1>5. Range(todo') = Range(below) \cup Range(rest)
    BY <1>1, <1>2, <1>3, RangeOfConcat
  <1>. QED
    BY <1>1, <1>2, <1>4, <1>5, GivenKeepsRefs DEF ChunkRefs

LEMMA RefsStep ==
    ASSUME TypeInv, CoverInv, ChunkRefs, [Next]_vars
    PROVE  ChunkRefs'
  <1>1. CASE PutTensor \/ PutOther \/ Damage
    BY <1>1 DEF PutTensor, PutOther, Damage, ChunkRefs
  <1>2. CASE Begin
    BY <1>2 DEF Begin, CoverInv, Fresh, ChunkRefs, Range
  <1>3. CASE VisitChunk
    <2>1. Given /\ phase = "walk" /\ todo # <<>> /\ todo' = Tail(todo)
      BY <1>3 DEF VisitChunk, Given
    <2>2. Range(todo) = {Head(todo)} \cup Range(Tail(todo))
      BY <2>1, HeadAndTail DEF TypeInv, TypeOK
    <2>. QED
      BY <2>1, <2>2, GivenKeepsRefs DEF ChunkRefs
  <1>4. CASE EndWalk \/ RebuildCommit \/ RebuildTensor \/ EndRebuild
    BY <1>4 DEF EndWalk, RebuildCommit, RebuildTensor, EndRebuild, ChunkRefs
  <1>5. CASE UNCHANGED vars
    <2>1. Given /\ UNCHANGED <<phase, todo>>
      BY <1>5 DEF vars, Given
    <2>. QED
      BY <2>1, GivenKeepsRefs DEF ChunkRefs
  <1>. QED
    BY <1>1, <1>2, <1>3, <1>4, <1>5, VisitCommitRefs, VisitObjectRefs DEF Next

-----------------------------------------------------------------------------
(* The report.  A node leads to nodes that were stored before it, so what  *)
(* is reached past whole objects is closed under their links, and a walk   *)
(* that starts from the tips stays in it.  What fails there is bad, and    *)
(* what is bad is reported once, or the report says that it was cut.       *)

Ordered == \A n \in DOMAIN nodes : \A o \in Links(n) : o \in DOMAIN nodes => o < n

PastWhole == ReachedBy({o \in G!Objects : Whole(o)})

\* What may fail: the damage, and a checksum of another version's payload.
Suspect(o) == Shows(o) \/ (o \in Chunks /\ Stale(o))

OnPath == /\ bad \subseteq {o \in PastWhole : Suspect(o)}
          /\ phase = "walk" => Waiting \subseteq PastWhole
Report ==
    /\ IsFiniteSet(bad) /\ Range(failures) \subseteq bad
    /\ \A i, j \in DOMAIN failures : failures[i] = failures[j] => i = j
    /\ Cardinality(Range(failures)) = Len(failures) /\ Len(failures) <= MaxFailures
    /\ IF truncated THEN Len(failures) = MaxFailures /\ bad # Range(failures)
       ELSE bad = Range(failures)
Reported ==
    /\ phase = "rebuild" => request.rebuild
    /\ phase \in {"store", "walk"} \/ (phase = "done" /\ ~request.rebuild) => Report

ExactInv == Ordered /\ OnPath /\ Reported

\* The objects reached past whole ones are closed under the links of whole ones.
LEMMA PastWholeClosed ==
    ASSUME TypeInv, Ordered
    PROVE  /\ Tips \subseteq PastWhole
           /\ \A o \in PastWhole : Whole(o) => Links(o) \subseteq PastWhole
  <1>. DEFINE n == Len(nodes)
              S == {o \in G!Objects : Whole(o)}
  <1>1. n \in Nat /\ DOMAIN nodes = 1..n
    BY LenProperties DEF TypeInv, NodesOK
  <1>2. PICK g : Strides(S, g) /\ PastWhole = g[n]
    BY ReachedStrides DEF PastWhole
  <1>3. /\ g[0] = Tips
        /\ \A k \in 0..n : k # 0 =>
              /\ k - 1 \in 0..n /\ k - 1 \in 0..(k - 1)
              /\ g[k] = g[k - 1] \cup UNION {Links(o) : o \in g[k - 1] \cap S}
    BY <1>1, <1>2, StridesStart
  <1>4. /\ \A o \in DOMAIN nodes : \A x \in Links(o) : x \in DOMAIN nodes => x < o
        /\ \A o : o \notin DOMAIN nodes => Links(o) = {}
    BY DEF Ordered, Links
  <1>5. Tips \subseteq DOMAIN nodes
    BY TipsType, KindFacts DEF TypeInv, NodesOK
  <1>6. PastWhole \subseteq G!Objects
    <2>1. \A o \in G!Objects \cap S : Links(o) \subseteq G!Objects
      BY LinksType DEF TypeInv
    <2>. QED
      BY <2>1, TipsType, ReachedIsAccepted DEF PastWhole
  <1>. HIDE DEF n
  <1>. DEFINE T == {k \in 0..n : \A i \in 0..k : g[i] \subseteq g[k]}
  <1>7. ASSUME NEW k \in 0..n, \A y \in 0..(k - 1) : y \in T
        PROVE  k \in T
    <2>1. \A i \in 0..k : i = k \/ (k # 0 /\ i \in 0..(k - 1))
      BY <1>1
    <2>. QED
      BY <1>3, <1>7, <2>1
  <1>8. \A k \in 0..n : k \in T
    <2>. HIDE DEF T
    <2>. QED
      BY <1>1, <1>7, UpTo
  <1>9. \A k \in 0..n : \A i \in 0..k : g[i] \subseteq g[k]
    BY <1>8
  <1>. DEFINE U == {k \in 0..n : \A x \in g[k] : x \in DOMAIN nodes => x \in g[n - x]}
  <1>10. ASSUME NEW k \in 0..n, \A y \in 0..(k - 1) : y \in U
         PROVE  k \in U
    <2>. SUFFICES ASSUME NEW x \in g[k], x \in DOMAIN nodes PROVE x \in g[n - x]
      OBVIOUS
    <2>0. x \in 1..n /\ n - x \in 0..n /\ 0 \in 0..(n - x)
      BY <1>1
    <2>1. CASE x \in Tips
      BY <1>3, <1>9, <2>0, <2>1
    <2>2. CASE k # 0 /\ x \in g[k - 1]
      BY <1>3, <1>10, <2>2
    <2>3. CASE k # 0 /\ \E o \in g[k - 1] \cap S : x \in Links(o)
      <3>1. PICK o \in g[k - 1] \cap S : x \in Links(o)
        BY <2>3
      <3>2. o \in DOMAIN nodes /\ x < o
        BY <1>4, <3>1
      <3>3. o \in g[n - o]
        BY <1>3, <1>10, <2>3, <3>1, <3>2
      <3>4. /\ n - o + 1 \in 0..n /\ n - o + 1 # 0 /\ (n - o + 1) - 1 = n - o
            /\ n - o + 1 \in 0..(n - x)
        BY <1>1, <2>0, <3>2
      <3>5. Links(o) \subseteq g[n - o + 1]
        BY <1>3, <3>1, <3>3, <3>4
      <3>. QED
        BY <1>9, <2>0, <3>1, <3>4, <3>5
    <2>4. k # 0 \/ x \in Tips
      BY <1>3
    <2>. QED
      BY <1>3, <2>1, <2>2, <2>3, <2>4
  <1>11. \A k \in 0..n : k \in U
    <2>. HIDE DEF U
    <2>. QED
      BY <1>1, <1>10, UpTo
  <1>12. n \in 0..n /\ 0 \in 0..n
    BY <1>1
  <1>13. ASSUME NEW o \in PastWhole, Whole(o)
         PROVE  Links(o) \subseteq PastWhole
    <2>1. CASE o \notin DOMAIN nodes
      BY <1>4, <2>1
    <2>2. CASE o \in DOMAIN nodes
      <3>1. o \in g[n - o] /\ o \in S
        BY <1>2, <1>6, <1>11, <1>12, <1>13, <2>2 DEF n
      <3>2. n - o + 1 \in 0..n /\ n - o + 1 # 0 /\ (n - o + 1) - 1 = n - o
        BY <1>1, <2>2
      <3>3. Links(o) \subseteq g[n - o + 1]
        BY <1>3, <3>1, <3>2
      <3>. QED
        BY <1>2, <1>9, <1>12, <3>2, <3>3 DEF n
    <2>. QED
      BY <2>1, <2>2
  <1>14. g[0] \subseteq g[n]
    BY <1>1, <1>9, <1>12
  <1>. QED
    BY <1>2, <1>3, <1>13, <1>14 DEF n

LEMMA PastWholeSame ==
    ASSUME UNCHANGED <<store, harm, request>>
    PROVE  PastWhole' = PastWhole /\ \A o : Suspect(o)' <=> Suspect(o)
  <1>1. nodes' = nodes /\ harm' = harm /\ request' = request
    BY DEF store
  <1>. QED
    BY <1>1 DEF store, PastWhole, ReachedBy, Links, Tips, Whole, Damaged, Suspect, Shows, Stale,
       Missing, G!Objects, G!Leaves, G!Kind

LEMMA TipsPastWhole == TypeInv /\ Ordered => Tips \subseteq PastWhole
  BY PastWholeClosed

LEMMA TipsPastWholeNext == (TypeInv /\ Ordered => Tips \subseteq PastWhole)'
  BY TipsPastWhole, PTL

LEMMA StoredKeepsOrder ==
    ASSUME TypeInv, Ordered, NEW node, Stored(node)
    PROVE  Ordered'
  <1>. DEFINE Of(m) == CASE m.kind = "commit" -> {m.checkpoint} \cup Range(m.parents)
                         [] m.kind = "checkpoint" ->
                               ({m.header, m.config} \ {Absent}) \cup Range(m.tensors)
                         [] OTHER -> Range(m.chunks)
  <1>1. /\ Len(nodes) \in Nat /\ Len(nodes') = Len(nodes) + 1
        /\ DOMAIN nodes = 1..Len(nodes) /\ DOMAIN nodes' = 1..Len(nodes')
        /\ \A n \in DOMAIN nodes' : \/ n \in DOMAIN nodes /\ nodes'[n] = nodes[n]
                                    \/ n = Len(nodes') /\ nodes'[n] = node
    <2>1. nodes' \in Seq(Node) /\ Len(nodes') = Len(nodes) + 1
      BY AppendKeeps DEF TypeInv, NodesOK, Stored
    <2>2. /\ Len(nodes) \in Nat /\ DOMAIN nodes = 1..Len(nodes) /\ DOMAIN nodes' = 1..Len(nodes')
      BY <2>1, LenProperties DEF TypeInv, NodesOK
    <2>3. \A n \in DOMAIN nodes' : \/ n \in DOMAIN nodes /\ nodes'[n] = nodes[n]
                                   \/ n = Len(nodes') /\ nodes'[n] = node
      BY AppendKeeps DEF TypeInv, NodesOK, Stored
    <2>. QED
      BY <2>1, <2>2, <2>3
  <1>2. /\ \A n \in DOMAIN nodes : Links(n) = Of(nodes[n])
        /\ \A n \in DOMAIN nodes' : Links(n)' = Of(nodes'[n])
    BY DEF Links
  <1>3. G!Objects \cap Nat \subseteq DOMAIN nodes
    BY VerifyAssumption DEF G!Objects, G!Leaves
  <1>4. \A o \in Of(node) : o \in Nat => o \in DOMAIN nodes
    <2>0. /\ \A kind : G!Kind(kind) \subseteq DOMAIN nodes
          /\ node.kind \in {"tensor", "checkpoint", "commit"}
      BY KindFacts DEF TypeInv, NodesOK, Stored, Node
    <2>1. CASE node.kind = "tensor"
      <3>1. node.chunks \in Seq(Chunks)
        BY <2>1 DEF Stored, Node
      <3>2. Range(node.chunks) \subseteq Chunks
        BY <3>1, RangeType
      <3>. QED
        BY <2>1, <3>2, VerifyAssumption
    <2>2. CASE node.kind = "checkpoint"
      <3>1. node.tensors \in Seq(G!Kind("tensor")) /\ {node.header, node.config} \ {Absent} \subseteq Headers \cup Configs
        BY <2>2 DEF Stored, Node
      <3>2. Range(node.tensors) \subseteq G!Kind("tensor")
        BY <3>1, RangeType
      <3>. QED
        BY <2>0, <2>2, <3>1, <3>2, VerifyAssumption
    <2>3. CASE node.kind = "commit"
      <3>1. node.checkpoint \in G!Kind("checkpoint") /\ node.parents \in Seq(G!Kind("commit"))
        BY <2>3 DEF Stored
      <3>2. Range(node.parents) \subseteq G!Kind("commit")
        BY <3>1, RangeType
      <3>. QED
        BY <2>0, <2>3, <3>1, <3>2
    <2>. QED
      BY <2>0, <2>1, <2>2, <2>3
  <1>5. \A n \in DOMAIN nodes : \A o \in Links(n) : o \in Nat => o \in DOMAIN nodes
    BY <1>3, LinksType DEF TypeInv
  <1>6. \A n \in DOMAIN nodes : \A o \in Links(n) : o \in DOMAIN nodes => o < n
    BY DEF Ordered
  <1>. HIDE DEF Of
  <1>7. \A n \in DOMAIN nodes' : \A o \in Links(n)' : o \in DOMAIN nodes' => o < n
    BY <1>1, <1>2, <1>4, <1>5, <1>6
  <1>. QED
    BY <1>7 DEF Ordered

\* A failure of an object that is reached and damaged is reported, once.
LEMMA FailReports ==
    ASSUME TypeInv, Report, NEW o, FailOnce(o)
    PROVE  Report'
  <1>. DEFINE n == Len(failures)
  <1>1. /\ failures \in Seq(G!Objects) /\ n \in Nat /\ MaxFailures \in Nat
        /\ DOMAIN failures = 1..n
    BY VerifyAssumption, LenProperties DEF TypeInv, TypeOK
  <1>2. bad' = bad \cup {o} /\ IsFiniteSet(bad')
    BY FS_AddElement DEF FailOnce, Report
  <1>3. CASE o \in bad
    BY <1>2, <1>3 DEF FailOnce, Report, verdict
  <1>4. CASE o \notin bad /\ n >= MaxFailures
    <2>1. truncated' = TRUE /\ failures' = failures
      BY <1>4 DEF FailOnce, Fail
    <2>2. n = MaxFailures
      BY <1>1, <1>4 DEF Report
    <2>. QED
      BY <1>2, <1>4, <2>1, <2>2 DEF Report
  <1>5. CASE o \notin bad /\ ~(n >= MaxFailures)
    <2>1. truncated' = truncated /\ failures' = Append(failures, o)
      BY <1>5 DEF FailOnce, Fail
    <2>2. ~truncated /\ bad = Range(failures)
      BY <1>1, <1>5 DEF Report, TypeInv, TypeOK
    <2>. DEFINE more == Append(failures, o)
    <2>3. failures \in Seq(G!Objects \cup {o})
      BY <1>1, SeqMonotonic
    <2>4. /\ Len(more) = n + 1 /\ more[n + 1] = o /\ \A i \in 1..n : more[i] = failures[i]
          /\ more \in Seq(G!Objects \cup {o})
      BY <2>3, AppendProperties
    <2>5. DOMAIN more = 1..(n + 1)
      BY <2>4, LenProperties
    <2>. HIDE DEF more, n
    <2>6. \A i \in DOMAIN more : \/ i = n + 1 /\ more[i] = o
                                 \/ i \in DOMAIN failures /\ more[i] = failures[i]
      BY <1>1, <2>4, <2>5
    <2>7. /\ n + 1 \in DOMAIN more
          /\ \A i \in DOMAIN failures : i \in DOMAIN more /\ more[i] = failures[i]
      BY <1>1, <2>4, <2>5
    <2>8. Range(more) = Range(failures) \cup {o}
      BY <2>4, <2>6, <2>7 DEF Range
    <2>9. \A i \in DOMAIN failures : failures[i] # o
      BY <1>5, <2>2 DEF Range
    <2>10. \A i, j \in DOMAIN more : more[i] = more[j] => i = j
      BY <2>6, <2>9 DEF Report
    <2>11. Cardinality(Range(more)) = n + 1
      <3>1. Cardinality(Range(failures) \cup {o}) = Cardinality(Range(failures)) + 1
        BY <1>5, <2>2, FS_AddElement DEF Report
      <3>. QED
        BY <2>8, <3>1 DEF Report, n
    <2>12. n + 1 <= MaxFailures
      BY <1>1, <1>5
    <2>13. failures' = more /\ Len(failures') = n + 1
      BY <2>1, <2>4 DEF more
    <2>. QED
      BY <1>2, <2>1, <2>2, <2>8, <2>10, <2>11, <2>12, <2>13 DEF Report
  <1>. QED
    BY <1>3, <1>4, <1>5

\* A load keeps the report exact, and what it refuses is bad or damaged.
LEMMA LoadReports ==
    ASSUME TypeInv, CoverInv, Report, NEW o \in G!Objects \ Chunks, LoadObject(o)
    PROVE  /\ Report'
           /\ Reads(o) => Whole(o) /\ bad' = bad
           /\ ~Reads(o) => bad' = bad \cup {o} /\ (o \in bad \/ Suspect(o))
  <1>1. CASE Reads(o)
    <2>1. bad' = bad /\ failures' = failures /\ truncated' = truncated
      BY <1>1 DEF LoadObject, verdict
    <2>2. Whole(o)
      BY <1>1 DEF Reads, CoverInv, AcceptedFine, Whole
    <2>. QED
      BY <1>1, <2>1, <2>2 DEF Report
  <1>2. CASE ~Reads(o)
    <2>1. FailOnce(o)
      BY <1>2 DEF LoadObject
    <2>2. o \in bad \/ o \in Damaged
      BY <1>2 DEF Reads, Whole, Missing, Damaged, Harms
    <2>. QED
      BY <1>2, <2>1, <2>2, FailReports DEF FailOnce, Suspect, Shows
  <1>. QED
    BY <1>1, <1>2

LEMMA VisitCommitExact ==
    ASSUME TypeInv, CoverInv, ExactInv, VisitCommit
    PROVE  ExactInv'
  <1>. DEFINE c == Head(queue)
  <1>1. /\ phase = "walk" /\ phase' = "walk" /\ todo = <<>> /\ queue # <<>> /\ Given
    BY DEF VisitCommit, Given
  <1>2. /\ Tail(queue) \in Seq(G!Kind("commit"))
        /\ Range(queue) = {c} \cup Range(Tail(queue)) /\ c \in G!Kind("commit")
    <2>1. queue \in Seq(G!Kind("commit"))
      BY DEF TypeInv, TypeOK
    <2>. QED
      BY <1>1, <2>1, HeadAndTail
  <1>3. /\ nodes' = nodes /\ PastWhole' = PastWhole /\ \A o : Suspect(o)' <=> Suspect(o)
    BY <1>1, GivenFacts, PastWholeSame DEF Given
  <1>4. Ordered'
    BY <1>3 DEF ExactInv, Ordered, Links
  <1>5. /\ Range(queue) \subseteq PastWhole /\ bad \subseteq PastWhole
        /\ \A o \in bad : Suspect(o)
    BY <1>1 DEF ExactInv, OnPath, Waiting
  <1>6. Report
    BY <1>1 DEF ExactInv, Reported
  <1>7. CASE c \in seen
    <2>1. queue' = Tail(queue) /\ todo' = <<>> /\ bad' = bad
          /\ failures' = failures /\ truncated' = truncated
      BY <1>1, <1>7 DEF VisitCommit, memo, verdict
    <2>2. Waiting' \subseteq PastWhole
      BY <1>2, <1>5, <2>1 DEF Waiting, Objs
    <2>3. Report'
      BY <1>6, <2>1 DEF Report
    <2>. QED
      BY <1>1, <1>3, <1>4, <1>5, <2>1, <2>2, <2>3 DEF ExactInv, OnPath, Reported
  <1>8. CASE c \notin seen
    <2>1. /\ LoadObject(c)
          /\ queue' = Tail(queue) \o (IF Reads(c) THEN ParentsOf(c) ELSE <<>>)
          /\ todo' = IF Reads(c) THEN To(Followed(c), c) ELSE <<>>
      BY <1>8 DEF VisitCommit
    <2>2. c \in G!Objects \ Chunks
      BY <1>2, KindFacts, VerifyAssumption DEF TypeInv, NodesOK
    <2>3. /\ Report'
          /\ Reads(c) => Whole(c) /\ bad' = bad
          /\ ~Reads(c) => bad' = bad \cup {c} /\ (c \in bad \/ Suspect(c))
      BY <1>6, <2>1, <2>2, LoadReports
    <2>4. /\ ParentsOf(c) \in Seq(G!Kind("commit")) /\ Followed(c) \in Seq(G!Objects)
          /\ Range(Followed(c)) = {nodes[c].checkpoint}
          /\ Links(c) = {nodes[c].checkpoint} \cup Range(ParentsOf(c))
      BY <1>2, FollowedType, KindFacts DEF TypeInv, NodesOK, G!Kind
    <2>5. CASE Reads(c)
      <3>1. queue' = Tail(queue) \o ParentsOf(c) /\ todo' = To(Followed(c), c)
        BY <2>1, <2>5
      <3>2. Range(queue') = Range(Tail(queue)) \cup Range(ParentsOf(c))
        <4>. DEFINE commits == G!Kind("commit")
                    rest == Tail(queue)
                    parents == ParentsOf(c)
        <4>1. rest \in Seq(commits) /\ parents \in Seq(commits)
          BY <1>2, <2>4
        <4>. HIDE DEF commits, rest, parents
        <4>2. Range(rest \o parents) = Range(rest) \cup Range(parents)
          BY <4>1, RangeOfConcat
        <4>. QED
          BY <3>1, <4>2 DEF rest, parents
      <3>3. Objs(todo') = Range(Followed(c))
        BY <2>2, <2>4, <3>1, ToType
      <3>4. Links(c) \subseteq PastWhole
        BY <1>2, <1>5, <2>3, <2>5, PastWholeClosed DEF ExactInv
      <3>5. Waiting' \subseteq PastWhole
        BY <1>2, <1>5, <2>4, <3>2, <3>3, <3>4 DEF Waiting
      <3>. QED
        BY <1>1, <1>3, <1>4, <1>5, <2>3, <2>5, <3>5 DEF ExactInv, OnPath, Reported
    <2>6. CASE ~Reads(c)
      <3>1. queue' = Tail(queue) \o <<>> /\ todo' = <<>>
        BY <2>1, <2>6
      <3>2. queue' = Tail(queue)
        <4>. DEFINE commits == G!Kind("commit")
                    rest == Tail(queue)
        <4>. HIDE DEF commits, rest
        <4>1. rest \in Seq(commits) => rest \o <<>> = rest
          BY ConcatEmptySeq
        <4>. QED
          BY <1>2, <3>1, <4>1 DEF commits, rest
      <3>3. Waiting' \subseteq PastWhole
        BY <1>2, <1>5, <3>1, <3>2 DEF Waiting, Objs
      <3>4. bad' \subseteq PastWhole /\ \A o \in bad' : Suspect(o)
        BY <1>2, <1>5, <2>3, <2>6
      <3>. QED
        BY <1>1, <1>3, <1>4, <2>3, <3>3, <3>4 DEF ExactInv, OnPath, Reported
    <2>. QED
      BY <2>5, <2>6
  <1>. QED
    BY <1>7, <1>8

LEMMA VisitObjectExact ==
    ASSUME TypeInv, CoverInv, ExactInv, VisitObject
    PROVE  ExactInv'
  <1>. DEFINE o == Head(todo).object
              below == IF Reads(o) /\ o \in DOMAIN nodes
                          /\ ~(nodes[o].kind = "tensor" /\ o \in okObjects)
                       THEN To(Followed(o), o) ELSE <<>>
  <1>1. /\ phase = "walk" /\ phase' = "walk" /\ todo # <<>> /\ Given /\ o \notin Chunks
        /\ LoadObject(o) /\ todo' = below \o Tail(todo) /\ queue' = queue
    BY DEF VisitObject, Given
  <1>2. /\ o \in G!Objects /\ Tail(todo) \in Seq(Refs)
        /\ Objs(todo) = {o} \cup Objs(Tail(todo))
    BY <1>1, ObjsOfRefs DEF TypeInv, TypeOK, Refs
  <1>3. /\ nodes' = nodes /\ PastWhole' = PastWhole /\ \A x : Suspect(x)' <=> Suspect(x)
    BY <1>1, GivenFacts, PastWholeSame DEF Given
  <1>4. Ordered'
    BY <1>3 DEF ExactInv, Ordered, Links
  <1>5. /\ Waiting \subseteq PastWhole /\ bad \subseteq PastWhole /\ o \in PastWhole
        /\ \A x \in bad : Suspect(x)
    BY <1>1, <1>2 DEF ExactInv, OnPath, Waiting
  <1>6. /\ Report'
        /\ Reads(o) => Whole(o) /\ bad' = bad
        /\ ~Reads(o) => bad' = bad \cup {o} /\ (o \in bad \/ Suspect(o))
    BY <1>1, <1>2, LoadReports DEF ExactInv, Reported
  <1>7. below \in Seq(Refs) /\ (Objs(below) = {} \/ (Reads(o) /\ Objs(below) \subseteq Links(o)))
    <2>1. CASE Reads(o) /\ o \in DOMAIN nodes /\ ~(nodes[o].kind = "tensor" /\ o \in okObjects)
      <3>1. Followed(o) \in Seq(G!Objects) /\ Range(Followed(o)) \subseteq Links(o)
        BY <2>1, FollowedType DEF TypeInv
      <3>2. To(Followed(o), o) \in Seq(Refs) /\ Objs(To(Followed(o), o)) = Range(Followed(o))
        BY <1>2, <3>1, ToType
      <3>. QED
        BY <2>1, <3>1, <3>2
    <2>2. <<>> \in Seq(Refs) /\ Objs(<<>>) = {}
      BY DEF Objs
    <2>. QED
      BY <2>1, <2>2
  <1>. HIDE DEF below
  <1>8. Objs(todo') = Objs(below) \cup Objs(Tail(todo))
    BY <1>1, <1>2, <1>7, ObjsOfConcat
  <1>9. Reads(o) => Links(o) \subseteq PastWhole
    BY <1>5, <1>6, PastWholeClosed DEF ExactInv
  <1>10. Waiting' \subseteq PastWhole
    BY <1>1, <1>2, <1>5, <1>7, <1>8, <1>9 DEF Waiting
  <1>11. bad' \subseteq PastWhole /\ \A x \in bad' : Suspect(x)
    BY <1>5, <1>6
  <1>. QED
    BY <1>1, <1>3, <1>4, <1>6, <1>10, <1>11 DEF ExactInv, OnPath, Reported

\* A chunk fails only where its tier sees that it is damaged, or that it is not
\* the payload whose checksum the manifest has.
LEMMA VisitChunkExact ==
    ASSUME TypeInv, ChunkRefs, ExactInv, VisitChunk
    PROVE  ExactInv'
  <1>. DEFINE c == Head(todo).object
              tensor == Head(todo).of
  <1>1. /\ phase = "walk" /\ phase' = "walk" /\ todo # <<>> /\ Given /\ c \in Chunks
        /\ todo' = Tail(todo) /\ queue' = queue
    BY DEF VisitChunk, Given
  <1>2. Objs(todo) = {c} \cup Objs(todo') /\ Range(todo) = {Head(todo)} \cup Range(Tail(todo))
    BY <1>1, ObjsOfRefs, HeadAndTail DEF TypeInv, TypeOK
  <1>3. /\ nodes' = nodes /\ PastWhole' = PastWhole /\ \A x : Suspect(x)' <=> Suspect(x)
    BY <1>1, GivenFacts, PastWholeSame DEF Given
  <1>4. Ordered'
    BY <1>3 DEF ExactInv, Ordered, Links
  <1>5. /\ Waiting \subseteq PastWhole /\ bad \subseteq PastWhole /\ c \in PastWhole
        /\ \A x \in bad : Suspect(x)
    BY <1>1, <1>2 DEF ExactInv, OnPath, Waiting
  <1>6. Waiting' \subseteq PastWhole
    BY <1>1, <1>2, <1>5 DEF Waiting
  <1>7. Report
    BY <1>1 DEF ExactInv, Reported
  <1>8. CASE bad' = bad /\ UNCHANGED verdict
    <2>1. Report'
      BY <1>7, <1>8 DEF Report, verdict
    <2>. QED
      BY <1>1, <1>3, <1>4, <1>5, <1>6, <1>8, <2>1 DEF ExactInv, OnPath, Reported
  <1>9. CASE FailOnce(c) /\ ~ChunkPasses(c, tensor)
    <2>1. ChunkRef(Head(todo))
      BY <1>1, <1>2 DEF ChunkRefs
    <2>2. request.tier # "structure" /\ payload[c] # recorded[tensor] => Stale(c)
      BY <2>1 DEF ChunkRef, Stale
    <2>3. Suspect(c)
      BY <1>1, <1>9, <2>2
      DEF ChunkPasses, Suspect, Shows, Missing, Whole, Damaged, Harms, TypeInv, TypeOK, Tiers
    <2>4. Report' /\ bad' = bad \cup {c}
      BY <1>7, <1>9, FailReports DEF FailOnce
    <2>5. bad' \subseteq PastWhole /\ \A x \in bad' : Suspect(x)
      BY <1>5, <2>3, <2>4
    <2>. QED
      BY <1>1, <1>3, <1>4, <1>6, <2>4, <2>5 DEF ExactInv, OnPath, Reported
  <1>. QED
    BY <1>8, <1>9 DEF VisitChunk, memo

LEMMA PutExact ==
    ASSUME TypeInv, CoverInv, ExactInv, PutTensor \/ PutOther
    PROVE  ExactInv'
  <1>1. /\ phase = "store" /\ phase' = "store" /\ UNCHANGED <<memo, verdict>>
    BY DEF PutTensor, PutOther, Untouched
  <1>2. Ordered'
    <2>1. CASE PutTensor
      <3>1. PICK node : Stored(node)
        BY <2>1, TensorStored DEF PutTensor, TypeInv
      <3>. QED
        BY <3>1, StoredKeepsOrder DEF ExactInv
    <2>2. CASE PutOther
      <3>1. PICK node : Stored(node)
        BY <2>2, OtherStored DEF PutOther, TypeInv
      <3>. QED
        BY <3>1, StoredKeepsOrder DEF ExactInv
    <2>. QED
      BY <2>1, <2>2
  <1>3. bad' = {}
    BY <1>1 DEF CoverInv, Fresh, memo
  <1>4. Report'
    BY <1>1 DEF ExactInv, Reported, Report, memo, verdict
  <1>. QED
    BY <1>1, <1>2, <1>3, <1>4 DEF ExactInv, OnPath, Reported

LEMMA GivenExact ==
    ASSUME TypeInv, TypeInv', CoverInv, ExactInv, Damage \/ Begin
    PROVE  ExactInv'
  <1>1. /\ phase = "store" /\ phase' \in {"store", "walk"} /\ UNCHANGED <<todo, memo, verdict>>
        /\ nodes' = nodes
    BY DEF Damage, Begin, store, Untouched
  <1>2. bad' = {} /\ todo' = <<>>
    BY <1>1 DEF CoverInv, Fresh, memo
  <1>3. Ordered'
    BY <1>1 DEF ExactInv, Ordered, Links
  <1>4. Report'
    BY <1>1 DEF ExactInv, Reported, Report, memo, verdict
  <1>5. phase' = "walk" => Waiting' \subseteq PastWhole'
    <2>. SUFFICES ASSUME phase' = "walk" PROVE Waiting' \subseteq PastWhole'
      OBVIOUS
    <2>1. Begin
      BY <1>1 DEF Damage
    <2>2. queue' = request'.roots
      BY <2>1 DEF Begin
    <2>3. Waiting' = Tips'
      BY <1>2, <2>2 DEF Waiting, Objs, Tips
    <2>4. Tips' \subseteq PastWhole'
      BY <1>3, TipsPastWholeNext
    <2>. QED
      BY <2>3, <2>4
  <1>. QED
    BY <1>1, <1>2, <1>3, <1>4, <1>5 DEF ExactInv, OnPath, Reported

LEMMA EndsExact ==
    ASSUME TypeInv, ExactInv, EndWalk \/ RebuildCommit \/ RebuildTensor \/ EndRebuild
    PROVE  ExactInv'
  <1>1. Given /\ UNCHANGED memo /\ phase' \notin {"store", "walk"}
    BY DEF EndWalk, RebuildCommit, RebuildTensor, EndRebuild, Given
  <1>2. /\ nodes' = nodes /\ PastWhole' = PastWhole /\ \A x : Suspect(x)' <=> Suspect(x)
    BY <1>1, GivenFacts, PastWholeSame DEF Given
  <1>3. Ordered' /\ OnPath'
    BY <1>1, <1>2 DEF ExactInv, Ordered, Links, OnPath, memo
  <1>4. Reported'
    <2>1. CASE EndWalk
      <3>1. Report
        BY <2>1 DEF EndWalk, ExactInv, Reported
      <3>2. Report'
        BY <2>1, <3>1 DEF EndWalk, Report, memo, verdict
      <3>. QED
        BY <2>1, <3>2 DEF EndWalk, Reported
    <2>2. CASE RebuildCommit \/ RebuildTensor
      <3>1. phase' # "done"
        BY <2>2 DEF RebuildCommit, RebuildTensor
      <3>. QED
        BY <1>1, <2>2, <3>1 DEF RebuildCommit, RebuildTensor, ExactInv, Reported
    <2>3. CASE EndRebuild
      BY <1>1, <2>3 DEF EndRebuild, ExactInv, Reported
    <2>. QED
      BY <2>1, <2>2, <2>3
  <1>. QED
    BY <1>3, <1>4 DEF ExactInv

LEMMA ExactStep ==
    ASSUME TypeInv, TypeInv', CoverInv, ChunkRefs, ExactInv, [Next]_vars
    PROVE  ExactInv'
  <1>1. CASE UNCHANGED vars
    <2>1. /\ Given /\ UNCHANGED <<phase, queue, todo, bad, failures, truncated>>
      BY <1>1 DEF vars, Given, memo, verdict
    <2>2. /\ nodes' = nodes /\ request' = request /\ PastWhole' = PastWhole
          /\ \A x : Suspect(x)' <=> Suspect(x)
      BY <2>1, GivenFacts, PastWholeSame DEF Given
    <2>3. Ordered'
      BY <2>2 DEF ExactInv, Ordered, Links
    <2>4. OnPath' /\ Reported'
      BY <2>1, <2>2 DEF ExactInv, OnPath, Waiting, Reported, Report
    <2>. QED
      BY <2>3, <2>4 DEF ExactInv
  <1>. QED
    BY <1>1, PutExact, GivenExact, VisitCommitExact, VisitObjectExact, VisitChunkExact,
       EndsExact DEF Next

\* What is met is closed past whole objects, so that all that is reached is met,
\* and what is met and shows is bad.
LEMMA ExactMeansExact == TypeInv /\ CoverInv /\ ExactInv => FailuresExact
  <1>. DEFINE S == {o \in G!Objects : Whole(o)}
              reached == ReachedBy(S)
              damaged == {o \in reached : Shows(o)}
              stale == {o \in reached \cap Chunks : Stale(o)}
  <1>. SUFFICES ASSUME TypeInv, CoverInv, ExactInv, phase = "done", ~request.rebuild
                PROVE  /\ \A i, j \in DOMAIN failures : failures[i] = failures[j] => i = j
                       /\ Range(failures) \subseteq damaged \cup stale
                       /\ IF truncated
                          THEN Len(failures) = MaxFailures
                               /\ ~(damaged \cup stale \subseteq Range(failures))
                          ELSE damaged \subseteq Range(failures)
    BY DEF FailuresExact
  <1>1. Report
    BY DEF ExactInv, Reported
  <1>2. bad \subseteq damaged \cup stale
    BY DEF ExactInv, OnPath, PastWhole, Suspect
  <1>3. Tips \subseteq okObjects \cup bad /\ \A o \in okObjects : Links(o) \subseteq Met
    BY DEF CoverInv, WalkClosed
  <1>4. \A c \in Chunks : Links(c) = {}
    <2>1. Chunks \cap DOMAIN nodes = {}
      BY KindFacts, VerifyAssumption DEF TypeInv, NodesOK
    <2>. QED
      BY <2>1 DEF Links
  <1>5. \A o \in bad : o \in Chunks \/ o \notin S
    BY <1>2, ShowsDamage DEF Whole
  <1>6. \A o \in Met \cap S : Links(o) \subseteq Met
    BY <1>3, <1>4, <1>5 DEF Met, Accepted, TypeInv, TypeOK
  <1>7. ReachedBy(S) \subseteq Met
    <2>1. Tips \subseteq Met
      BY <1>3 DEF Met, Accepted
    <2>. HIDE DEF S
    <2>. QED
      BY <1>6, <2>1, ReachedIsAccepted
  <1>8. \A o \in Accepted : ~Shows(o)
    BY ShowsDamage DEF Accepted, CoverInv, AcceptedFine
  <1>9. damaged \subseteq bad
    BY <1>7, <1>8 DEF Met
  <1>. HIDE DEF damaged, stale
  <1>10. CASE ~truncated
    BY <1>1, <1>2, <1>9, <1>10 DEF Report
  <1>11. CASE truncated
    <2>. DEFINE told == Range(failures)
                suspects == damaged \cup stale
    <2>1. told \subseteq bad /\ bad # told /\ bad \subseteq suspects
      BY <1>1, <1>2, <1>11 DEF Report
    <2>2. told \subseteq suspects /\ ~(suspects \subseteq told)
      <3>. HIDE DEF told, suspects
      <3>. QED
        BY <2>1
    <2>3. Len(failures) = MaxFailures
      BY <1>1, <1>11 DEF Report
    <2>. QED
      BY <1>1, <1>11, <2>2, <2>3 DEF Report
  <1>. QED
    BY <1>10, <1>11

LEMMA ExactInit == Init => ExactInv
  <1>. SUFFICES ASSUME Init PROVE ExactInv
    OBVIOUS
  <1>1. IsFiniteSet({}) /\ Cardinality({}) = 0
    BY FS_EmptySet
  <1>2. Range(failures) = {} /\ DOMAIN failures = {} /\ DOMAIN nodes = {} /\ Len(failures) = 0
    BY DEF Init, Range
  <1>3. bad = {} /\ truncated = FALSE /\ 0 <= MaxFailures
    BY VerifyAssumption DEF Init
  <1>4. Report
    BY <1>1, <1>2, <1>3 DEF Report
  <1>. QED
    BY <1>2, <1>4 DEF Init, ExactInv, Ordered, OnPath, Reported

\* Whatever versions of the compressor wrote the repository, the report of a
\* verify has all that it can reach past whole files and finds damaged, each of
\* it once; besides these it may have checksums of another version's payload and
\* nothing else; and a report that was cut at the cap says so.
THEOREM ReportExact == Spec => []FailuresExact
  <1>1. TypeInv /\ CoverInv /\ ChunkRefs /\ [Next]_vars => ChunkRefs'
    BY RefsStep
  <1>2. TypeInv /\ [Next]_vars => TypeInv'
    BY TypeStep
  <1>3. TypeInv /\ CoverInv /\ [Next]_vars => CoverInv'
    BY CoverStep
  <1>4. TypeInv /\ TypeInv' /\ CoverInv /\ ChunkRefs /\ ExactInv /\ [Next]_vars => ExactInv'
    BY ExactStep
  <1>5. Init => ChunkRefs
    BY DEF Init, ChunkRefs
  <1>. QED
    BY <1>1, <1>2, <1>3, <1>4, <1>5, TypeInit, CoverInit, ExactInit, ExactMeansExact, PTL
    DEF Spec
=============================================================================
