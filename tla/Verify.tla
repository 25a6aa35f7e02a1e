------------------------------- MODULE Verify -------------------------------
(***************************************************************************)
(* verify.py: the walk from one or more tips that re-hashes what it meets, *)
(* its memo tables, its tiers, the cap on its report, and the pass of      *)
(* --content that rebuilds every tensor.  Commits grow the object graph,   *)
(* then files are damaged, then verify runs.                               *)
(***************************************************************************)
EXTENDS Naturals, Sequences, FiniteSets, Functions

CONSTANTS Chunks, Perms, Headers, Configs, Absent, Most,    \* as in ObjectGraph
          Versions,      \* of the compressor, each with its own payload for a stream
          MaxDamage,     \* bound: how many files are damaged
          MaxFailures    \* max_failures

ASSUME VerifyAssumption ==
    /\ MaxDamage \in Nat /\ MaxFailures \in Nat \ {0}
    /\ Absent \notin Versions \cup Headers \cup Configs
    /\ (Chunks \cup Perms \cup Headers \cup Configs) \cap Nat = {}
    /\ Chunks \cap (Headers \cup Configs) = {}

VARIABLES nodes,       \* the manifests and commits that were stored
          payload,     \* of a chunk: the version that wrote its file
          recorded,    \* of a tensor manifest: the version its checksums are of
          harm,        \* the damaged files, by what became of them
          phase, request,
          queue, seen, \* of commits
          todo,        \* references of the commit at hand still to follow
          okObjects, okChunks, bad,
          failures, truncated

G == INSTANCE ObjectGraph

store == <<nodes, payload, recorded>>
memo == <<okObjects, okChunks, bad>>
verdict == <<failures, truncated>>
vars == <<store, harm, phase, request, queue, seen, todo, memo, verdict>>

Tiers == {"structure", "checksum", "content"}

\* The file is gone; it is no JSON any more; it has the same links and gives
\* other rows; it is another payload with the same short checksum.
Harms == {"missing", "garbled", "altered", "forged"}

Refs == [object : G!Objects, of : G!Objects]
Damaged == UNION {harm[how] : how \in Harms}
Whole(o) == o \notin Damaged
Missing(o) == o \in harm["missing"]
Parses(o) == ~Missing(o) /\ o \notin harm["garbled"]

Init == /\ nodes = <<>> /\ recorded = <<>>
        /\ payload = [c \in Chunks |-> Absent]
        /\ harm = [how \in Harms |-> {}]
        /\ phase = "store"
        /\ request = [roots |-> <<>>, tier |-> "content", rebuild |-> FALSE]
        /\ queue = <<>> /\ seen = {} /\ todo = <<>>
        /\ okObjects = {} /\ okChunks = {} /\ bad = {}
        /\ failures = <<>> /\ truncated = FALSE

-----------------------------------------------------------------------------
(* What verify is given.                                                   *)

Untouched == UNCHANGED <<request, queue, seen, todo, memo, verdict>>

\* The chunks a manifest names that are not present yet.
NewChunks(t) == {c \in Range(t.chunks) : payload[c] = Absent}

\* A chunk that is present is not written again, and the manifest records the
\* checksum of the payload just made.
PutTensor ==
    /\ phase = "store" /\ Damaged = {}
    /\ G!PutTensor
    /\ \E v \in Versions :
          /\ recorded' = Append(recorded, v)
          /\ payload' = [c \in Chunks |->
                            IF c \in NewChunks(nodes'[Len(nodes')]) THEN v ELSE payload[c]]
    /\ UNCHANGED <<harm, phase>> /\ Untouched

PutOther ==
    /\ phase = "store" /\ Damaged = {}
    /\ G!PutCheckpoint \/ G!PutCommit
    /\ recorded' = Append(recorded, Absent)
    /\ UNCHANGED <<payload, harm, phase>> /\ Untouched

Damage ==
    /\ phase = "store" /\ G!Kind("commit") # {}
    /\ Cardinality(Damaged) < MaxDamage
    /\ \E o \in G!Objects \ Damaged, how \in Harms :
          /\ how = "garbled" => o \in DOMAIN nodes
          /\ how = "forged" => o \in Chunks
          /\ harm' = [harm EXCEPT ![how] = @ \cup {o}]
    /\ UNCHANGED <<store, phase>> /\ Untouched

\* verify <ref>, or --all with two branches.
Begin ==
    /\ phase = "store"
    /\ \E a, b \in G!Kind("commit"), tier \in Tiers, rebuild \in BOOLEAN :
          LET roots == IF a = b THEN <<a>> ELSE <<a, b>>
          IN  /\ request' = [roots |-> roots, tier |-> tier, rebuild |-> rebuild]
              /\ queue' = roots
    /\ phase' = "walk"
    /\ UNCHANGED <<store, harm, seen, todo, memo, verdict>>

-----------------------------------------------------------------------------
(* The walk.                                                               *)

\* fail
Fail(o) == IF Len(failures) >= MaxFailures
           THEN truncated' = TRUE /\ UNCHANGED failures
           ELSE failures' = Append(failures, o) /\ UNCHANGED truncated

\* A failure of this object, unless it has failed before.
\* Faulty: it fails at every reference.
FailAgain(o) == bad' = bad \cup {o} /\ Fail(o)
FailOnce(o) == /\ bad' = bad \cup {o}
               /\ IF o \in bad THEN UNCHANGED verdict ELSE Fail(o)

\* load_object returns its bytes, and the hash of a remembered one is not
\* computed again.
Reads(o) == o \notin bad /\ ~Missing(o) /\ (o \in okObjects \/ Whole(o))

LoadObject(o) == IF Reads(o) THEN okObjects' = okObjects \cup {o} /\ UNCHANGED <<bad, verdict>>
                 ELSE FailOnce(o) /\ UNCHANGED okObjects

To(objects, n) == [i \in DOMAIN objects |-> [object |-> objects[i], of |-> n]]

\* The references verify_checkpoint and verify_tensor follow from an object
\* they have read.
\* Faulty: a config that was not given is followed too.
FollowedNull(n) ==
    CASE nodes[n].kind = "commit" -> <<nodes[n].checkpoint>>
      [] nodes[n].kind = "checkpoint" ->
            <<nodes[n].header, nodes[n].config>> \o nodes[n].tensors
      [] OTHER -> nodes[n].chunks
Followed(n) ==
    CASE nodes[n].kind = "commit" -> <<nodes[n].checkpoint>>
      [] nodes[n].kind = "checkpoint" ->
            <<nodes[n].header>>
            \o (IF nodes[n].config = Absent THEN <<>> ELSE <<nodes[n].config>>)
            \o nodes[n].tensors
      [] OTHER -> nodes[n].chunks

\* The next commit of the queue; one that was seen is passed over.  (The code
\* also leaves seen parents out of the queue, which only saves this step.)
\* Faulty: the tips only.
NoParents(c) == <<>>
ParentsOf(c) == nodes[c].parents

VisitCommit ==
    /\ phase = "walk" /\ todo = <<>> /\ queue # <<>>
    /\ LET c == Head(queue)
       IN  /\ seen' = seen \cup {c}
           /\ IF c \in seen
              THEN queue' = Tail(queue) /\ UNCHANGED <<todo, memo, verdict>>
              ELSE /\ LoadObject(c)
                   /\ queue' = Tail(queue) \o (IF Reads(c) THEN ParentsOf(c) ELSE <<>>)
                   /\ todo' = IF Reads(c) THEN To(Followed(c), c) ELSE <<>>
                   /\ UNCHANGED okChunks
    /\ UNCHANGED <<store, harm, phase, request>>

\* The next reference of this commit.  A tensor manifest that was checked
\* before is read again, and its chunks are not visited again.
VisitObject ==
    /\ phase = "walk" /\ todo # <<>> /\ Head(todo).object \notin Chunks
    /\ LET o == Head(todo).object
       IN  /\ LoadObject(o)
           /\ todo' = (IF Reads(o) /\ o \in DOMAIN nodes
                          /\ ~(nodes[o].kind = "tensor" /\ o \in okObjects)
                       THEN To(Followed(o), o) ELSE <<>>) \o Tail(todo)
    /\ UNCHANGED <<store, harm, phase, request, queue, seen, okChunks>>

ChunkPasses(c, tensor) ==
    /\ ~Missing(c)
    /\ request.tier # "structure" =>
          c \notin harm["altered"] /\ payload[c] = recorded[tensor]
    /\ request.tier = "content" => Whole(c)

VisitChunk ==
    /\ phase = "walk" /\ todo # <<>> /\ Head(todo).object \in Chunks
    /\ LET c == Head(todo).object
       IN  IF c \in okChunks \cup bad THEN UNCHANGED <<memo, verdict>>
           ELSE IF ChunkPasses(c, Head(todo).of)
           THEN okChunks' = okChunks \cup {c} /\ UNCHANGED <<okObjects, bad, verdict>>
           ELSE FailOnce(c) /\ UNCHANGED <<okObjects, okChunks>>
    /\ todo' = Tail(todo)
    /\ UNCHANGED <<store, harm, phase, request, queue, seen>>

EndWalk ==
    /\ phase = "walk" /\ todo = <<>> /\ queue = <<>>
    /\ IF request.rebuild
       THEN /\ phase' = "rebuild" /\ seen' = {}
            /\ queue' = request.roots
       ELSE phase' = "done" /\ UNCHANGED <<seen, queue>>
    /\ UNCHANGED <<store, harm, request, todo, memo, verdict>>

-----------------------------------------------------------------------------
(* --content: _verify_tensor_content_hashes over _reachable.               *)

\* Reading a tensor back needs all it leads to.
\* Faulty: the tensor is taken to be its own chunks.
RebuildsOwn(tensor) == \A c \in Range(nodes[tensor].chunks) : Whole(c)
Rebuilds(tensor) == \A o \in G!Reachable(tensor) : Whole(o)

\* A commit that cannot be read is left out; a checkpoint manifest that is
\* missing is a failure, one that does not parse an exception.
RebuildCommit ==
    /\ phase = "rebuild" /\ todo = <<>> /\ queue # <<>>
    /\ LET c == Head(queue)
           k == nodes[c].checkpoint
           new == c \notin seen /\ Parses(c)
       IN  /\ seen' = seen \cup {c}
           /\ queue' = Tail(queue) \o (IF new THEN ParentsOf(c) ELSE <<>>)
           /\ phase' = IF new /\ k \in harm["garbled"] THEN "raised" ELSE phase
           /\ IF new /\ Missing(k) THEN Fail(c) ELSE UNCHANGED verdict
           /\ todo' = IF new /\ Parses(k) THEN To(nodes[k].tensors, k) ELSE <<>>
    /\ UNCHANGED <<store, harm, request, memo>>

\* The manifest is read outside the try that guards the reconstruction: one
\* that is missing ends the command as an integrity error (exit code 4), one
\* that does not parse as an unexpected failure (1), both without the report.
RebuildTensor ==
    /\ phase = "rebuild" /\ todo # <<>>
    /\ LET t == Head(todo).object
       IN  /\ phase' = IF Parses(t) THEN phase ELSE IF Missing(t) THEN "refused" ELSE "raised"
           /\ IF Parses(t) /\ ~Rebuilds(t) THEN Fail(t) ELSE UNCHANGED verdict
    /\ todo' = Tail(todo)
    /\ UNCHANGED <<store, harm, request, queue, seen, memo>>

EndRebuild ==
    /\ phase = "rebuild" /\ todo = <<>> /\ queue = <<>>
    /\ phase' = "done"
    /\ UNCHANGED <<store, harm, request, queue, seen, todo, memo, verdict>>

Next == \/ PutTensor \/ PutOther \/ Damage \/ Begin
        \/ VisitCommit \/ VisitObject \/ VisitChunk \/ EndWalk
        \/ RebuildCommit \/ RebuildTensor \/ EndRebuild
Spec == Init /\ [][Next]_vars
-----------------------------------------------------------------------------
(* Properties.                                                             *)

\* The type invariant.
TypeOK ==
    /\ payload \in [Chunks -> Versions \cup {Absent}]
    /\ recorded \in Seq(Versions \cup {Absent}) /\ Len(recorded) = Len(nodes)
    /\ harm \in [Harms -> SUBSET G!Objects]
    /\ phase \in {"store", "walk", "rebuild", "done", "refused", "raised"}
    /\ request \in [roots : Seq(G!Kind("commit")), tier : Tiers, rebuild : BOOLEAN]
    /\ queue \in Seq(G!Kind("commit")) /\ seen \subseteq G!Kind("commit")
    /\ todo \in Seq(Refs)
    /\ okObjects \subseteq G!Objects /\ okChunks \subseteq Chunks /\ bad \subseteq G!Objects
    /\ failures \in Seq(G!Objects) /\ truncated \in BOOLEAN

Ok == phase = "done" /\ failures = <<>>
Tips == Range(request.roots)

\* What the chain of trust in verify.py's head leads to from an object.
Links(o) ==
    IF o \notin DOMAIN nodes THEN {}
    ELSE CASE nodes[o].kind = "commit" -> {nodes[o].checkpoint} \cup Range(nodes[o].parents)
           [] nodes[o].kind = "checkpoint" ->
                 ({nodes[o].header, nodes[o].config} \ {Absent}) \cup Range(nodes[o].tensors)
           [] OTHER -> Range(nodes[o].chunks)

\* All that is reached from the tips by links of objects in S.
ReachedBy(S) ==
    LET within[n \in 0..Len(nodes)] ==
            IF n = 0 THEN Tips
            ELSE within[n - 1] \cup UNION {Links(o) : o \in within[n - 1] \cap S}
    IN  within[Len(nodes)]
Checked == ReachedBy(G!Objects)

\* The damage that the tier is to see (CLI.md 7.2).
Shows(o) == IF o \notin Chunks \/ request.tier = "content" THEN o \in Damaged
            ELSE IF request.tier = "checksum" THEN o \in harm["missing"] \cup harm["altered"]
            ELSE Missing(o)

\* A verify that says ok has seen every file the chain of trust leads to, over
\* all parents, whatever the memo tables and the cap left out.
OkMeansWhole == Ok => \A o \in Checked : ~Shows(o)

\* A chunk some manifest names whose checksums are of another payload, because
\* another version of the compressor had stored the chunk before; a tier that
\* compares checksums may fail it.
Stale(c) == /\ request.tier # "structure"
            /\ \E t \in G!Kind("tensor") : c \in Range(nodes[t].chunks)
                                           /\ payload[c] # recorded[t]

\* It reports every damaged file that it can reach past whole ones, once and
\* nothing else ("a walk can continue past a single bad object and report every
\* problem rather than the first", verify.py:206-207), and says so if the cap
\* leaves some out.  Where several versions of the compressor wrote, it may
\* report a stale checksum besides, and that is all it adds.
FailuresExact ==
    phase = "done" /\ ~request.rebuild =>
        LET reached == ReachedBy({o \in G!Objects : Whole(o)})
            damaged == {o \in reached : Shows(o)}
            stale == {o \in reached \cap Chunks : Stale(o)}
        IN  /\ \A i, j \in DOMAIN failures : failures[i] = failures[j] => i = j
            /\ Range(failures) \subseteq damaged \cup stale
            /\ IF truncated
               THEN Len(failures) = MaxFailures /\ ~(damaged \cup stale \subseteq Range(failures))
               ELSE damaged \subseteq Range(failures)

\* With --content, ok means that every tensor of the history can be read back,
\* the bases and permutations of residuals included.
RebuildIsSound ==
    Ok /\ request.rebuild /\ request.tier = "content" =>
        \A tip \in Tips : \A o \in G!Reachable(tip) : Whole(o)

\* Refuted: a repository nothing happened to is found whole ("deduplication
\* remains completely immune to compression level changes or library upgrades",
\* README.md:106).  A chunk that a second version of the compressor makes again
\* is not stored again, and the manifest records the checksum of what it made.
NoFalseAlarm == phase = "done" /\ Damaged = {} => failures = <<>>
=============================================================================
