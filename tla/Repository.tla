----------------------------- MODULE Repository -----------------------------
(***************************************************************************)
(* The repository: the content-addressed object store, the commit graph,   *)
(* refs/heads/*, HEAD, and the command line processes that share them.     *)
(*                                                                         *)
(* Nothing in store/ or cli/ takes a lock, so every file a command reads   *)
(* or writes is a step of its own here and any number of commands          *)
(* interleave.  A command may end between any two of its steps (Stop).     *)
(*                                                                         *)
(* Data is reduced to what the properties tell apart.  The content of a    *)
(* tensor is a member of Values.  A tensor manifest is a name and the      *)
(* contents on its chain of base_tensor_manifest pointers, newest first:   *)
(* <<v>> holds v outright, <<v, w>> is a residual of v on the manifest     *)
(* <<w>>.  A tensor is cut into one chunk.  A tree, the map of a           *)
(* checkpoint manifest, gives every name a chain, <<>> if the checkpoint   *)
(* has no such tensor.                                                     *)
(*                                                                         *)
(* A ref can be made to name any object of the store, as `resolve_ref`     *)
(* does not look into what it finds.  The documents it may name are        *)
(* numbered in the order they are written: 1 is config.json, which is      *)
(* written before the first commit and stands for every object that is no  *)
(* commit, and the rest are the commits.  0 stands for "none".             *)
(***************************************************************************)
EXTENDS Naturals, Sequences, FiniteSets

CONSTANTS Procs,           \* the processes that run commands
          Branches,        \* the valid branch names in play
          Main,            \* the branch `init` attaches HEAD to
          NoBranch,        \* "HEAD is detached"
          Names,           \* the tensor names, in safetensors header order
          Values,          \* what a tensor may contain
          Inputs,          \* the checkpoint files that may be committed
          Commands,        \* the commands the processes may run
          Policies,        \* the choices of --anchor-policy
          RebaseInterval,  \* graph.REBASE_INTERVAL
          MaxDepth,        \* anchor.DEFAULT_MAX_DEPTH
          MaxCommits,      \* bound: with this many commits no other is begun
          Stops            \* bound: the steps before which a command may die

Tensors == {Names[i] : i \in DOMAIN Names}

ASSUME BranchAssumption == Main \in Branches /\ NoBranch \notin Branches
ASSUME NamesAssumption == /\ Names \in Seq(Tensors)
                          /\ \A i, j \in DOMAIN Names : Names[i] = Names[j] => i = j
ASSUME InputsAssumption ==
    \A data \in Inputs : /\ DOMAIN data \subseteq Tensors
                         /\ data \in [DOMAIN data -> Values]
ASSUME PolicyAssumption == Policies \subseteq {"flat", "adaptive"}
ASSUME BoundsAssumption == /\ RebaseInterval \in Nat \ {0}
                           /\ MaxDepth \in Nat \ {0}
                           /\ MaxCommits \in Nat
                           /\ Stops \subseteq STRING

VARIABLES head,         \* .synapse/HEAD: a branch name, or NoBranch and a commit
          refs,         \* .synapse/refs/heads: branch -> commit, 0 if no file
          chunks,       \* the chunk objects in the store
          manifests,    \* the tensor manifests: <<name, chain of contents>>
          checkpoints,  \* the checkpoint manifests: trees
          commits,      \* config.json, then the commit objects, in the order written
          job           \* what each process is doing

objects == <<chunks, manifests, checkpoints, commits>>
vars == <<head, refs, objects, job>>

Documents == DOMAIN commits
Commits == Documents \ {1}
Chains == Seq(Values)
Trees == [Tensors -> Chains]
HeadBranches == Branches \cup {NoBranch}

-----------------------------------------------------------------------------
(* Walks over the commit graph.  Parents are older than their children, so *)
(* recursion on commit numbers ends.  config.json has neither of the two   *)
(* fields the walks look at: they take it for a root that is not full.     *)

WalkEnds(c) == c = 0 \/ commits[c].full \/ commits[c].parents = <<>>

SinceFull(c) ==
    LET since[x \in 0..Len(commits)] ==
            IF WalkEnds(x) THEN 0 ELSE 1 + since[commits[x].parents[1]]
    IN  since[c]

NearestFullAncestor(c) ==
    LET hub[x \in 0..Len(commits)] ==
            IF WalkEnds(x) THEN x ELSE hub[commits[x].parents[1]]
    IN  hub[c]

Parents(c) == {commits[c].parents[i] : i \in DOMAIN commits[c].parents}

Ancestors(c) ==
    LET anc[x \in 0..Len(commits)] ==
            IF x = 0 THEN {} ELSE {x} \cup UNION {anc[y] : y \in Parents(x)}
    IN  anc[c]

\* The shortest number of parent links from c up to its ancestor a.
Hops(c, a) ==
    LET hops[x \in Documents] ==
            IF x = a THEN 0
            ELSE LET via == {hops[y] : y \in {z \in Parents(x) : a \in Ancestors(z)}}
                 IN  1 + (CHOOSE n \in via : \A k \in via : n <= k)
    IN  hops[c]

\* merge_base breaks ties by hash, which is as good as arbitrary.
MergeBases(ours, theirs) ==
    LET common == Ancestors(ours) \cap Ancestors(theirs)
        cost(a) == Hops(ours, a) + Hops(theirs, a)
    IN  {a \in common : \A b \in common : cost(a) <= cost(b)}

-----------------------------------------------------------------------------
(* Encoding a checkpoint.  A plan is what a commit is about to write: the  *)
(* tree its checkpoint manifest will name, whether the commit is "full",   *)
(* the chunks the encoder hands to the store, and the names whose manifest *)
(* is written rather than taken from the base.                             *)

Present(tree) == {t \in Tensors : tree[t] # <<>>}
NoTree == [t \in Tensors |-> <<>>]

Chunk(chain) == IF Len(chain) = 1 THEN chain ELSE <<chain[1], chain[2]>>
Chunks(tree, names) == {Chunk(tree[t]) : t \in names}

Tree(data) == [t \in Tensors |-> IF t \in DOMAIN data THEN <<data[t]>> ELSE <<>>]

FullPlan(data) ==
    [tree |-> Tree(data), full |-> TRUE,
     emit |-> Chunks(Tree(data), DOMAIN data), fresh |-> DOMAIN data]

\* An unchanged tensor reuses the base's manifest, unless the alignment has
\* permuted the base; any other is described anew.  A tensor the base has is
\* then a residual on it, unless its raw chunk is the smaller of the two.
Changed(data, base) ==
    {t \in DOMAIN data : base[t] = <<>> \/ base[t][1] # data[t]}

ResidualTree(data, base, fresh, residual) ==
    [t \in Tensors |->
        IF t \in residual THEN <<data[t]>> \o base[t]
        ELSE IF t \in fresh THEN <<data[t]>>
        ELSE IF t \in DOMAIN data THEN base[t] ELSE <<>>]

PlansOf(data, base, fresh) ==
    {[tree |-> tree, full |-> FALSE, emit |-> Chunks(tree, fresh), fresh |-> fresh] :
        tree \in {ResidualTree(data, base, fresh, residual) :
                     residual \in SUBSET (fresh \cap Present(base))}}

ResidualPlans(data, base) ==
    UNION {PlansOf(data, base, fresh) :
              fresh \in {s \in SUBSET DOMAIN data : Changed(data, base) \subseteq s}}

\* The tensors the encoder comes to before t.
Earlier(t) == {Names[i] : i \in {j \in DOMAIN Names :
                  \E k \in DOMAIN Names : j < k /\ Names[k] = t}}

\* Faulty: the second pass stores nothing.
PromotedNotStored(data, promote) == {}

\* The chunks `emit_promoted` lets through.  The second pass encodes every
\* tensor, and the encoder offers a chunk only at its first occurrence: a
\* content that first occurs in a tensor that is not promoted is dropped.
Promoted(data, promote) ==
    {<<data[t]>> : t \in {u \in promote :
        \A e \in Earlier(u) \cap DOMAIN data : data[e] # data[u]}}

\* The depth a residual would have is at the cap.
\* Faulty: compares the depth the base has already.
AtCapBefore(chain) == Len(chain) - 2 >= MaxDepth
AtCap(chain) == Len(chain) - 1 >= MaxDepth

\* The second pass of --anchor-policy adaptive: tensors at the depth cap are
\* promoted, and whichever others have a poor ratio, which is of the bytes the
\* first pass stored for the tensor: none, if its chunk was there or came
\* from an earlier tensor.  When the promoted are more than half, all is stored
\* in full; the first pass has stored its chunks by then.
MixedPlan(data, plan, promote) ==
    [plan EXCEPT !.tree = [t \in Tensors |->
                              IF t \in promote THEN <<data[t]>> ELSE plan.tree[t]],
                 !.emit = plan.emit \cup Promoted(data, promote)]

WholePlan(data, plan) ==
    [FullPlan(data) EXCEPT !.emit = plan.emit \cup FullPlan(data).emit]

Charged(plan, t) ==
    /\ Chunk(plan.tree[t]) \notin chunks
    /\ Chunk(plan.tree[t]) \notin Chunks(plan.tree, Earlier(t) \cap plan.fresh)

Promotions(data, plan) ==
    LET residual == {t \in plan.fresh : Len(plan.tree[t]) > 1}
        capped == {t \in residual : AtCap(plan.tree[t])}
        charged == {t \in residual \ capped : Charged(plan, t)}
        choices == {capped \cup poor : poor \in SUBSET charged}
        Many(promote) == 2 * Cardinality(promote) > Cardinality(plan.fresh)
    IN  {MixedPlan(data, plan, promote) : promote \in {s \in choices : ~Many(s)}}
        \cup {WholePlan(data, plan) : promote \in {s \in choices : Many(s)}}

AdaptivePlans(data, base) ==
    UNION {Promotions(data, plan) : plan \in ResidualPlans(data, base)}

\* Merging: the content of every tensor `ours` has (names() is ours alone).
\* An averaged tensor may come out as anything; the alignment solved for the
\* averaged ones may also permute a tensor taken from them.
MergedContents(ours, theirs, base) ==
    LET o == commits[ours].tree
        th == commits[theirs].tree
        fork == commits[base].tree
        Same(t, f, g) == f[t] # <<>> /\ g[t] # <<>> /\ f[t][1] = g[t][1]
        kept == {t \in Present(o) : th[t] = <<>> \/ Same(t, o, th) \/ Same(t, th, fork)}
        taken == {t \in Present(o) \ kept : Same(t, o, fork)}
        averaged == Present(o) \ (kept \cup taken)
    IN  {data \in [Present(o) -> Values] :
            /\ \A t \in kept : data[t] = o[t][1]
            /\ averaged = {} => \A t \in taken : data[t] = th[t][1]}

-----------------------------------------------------------------------------
(* Commands.                                                               *)

Steps == {"idle", "base", "readHead", "plan", "mergeTip", "merge", "write", "ref",
          "create", "delete", "renameNew", "renameRead", "rename", "unlink",
          "rereadHead", "reattach", "checkout"}

Idle == [pc |-> "idle", br |-> NoBranch, to |-> NoBranch, base |-> 0, tip |-> 0,
         new |-> 0, parents |-> <<>>, tree |-> NoTree, full |-> FALSE,
         emit |-> {}, fresh |-> {}]

Begin(p, command) == job[p].pc = "idle" /\ command \in Commands
At(p, pc) == job[p].pc = pc
Set(p, to) == job' = [job EXCEPT ![p] = to]
Done(p) == Set(p, Idle)
Goto(p, pc) == Set(p, [job[p] EXCEPT !.pc = pc])

\* The plan p has made, the tip it read and the parents of its commit.
Write(p, plan, tip, parents) ==
    Set(p, [Idle EXCEPT !.pc = "write", !.br = job[p].br, !.tip = tip,
                        !.parents = parents, !.tree = plan.tree, !.full = plan.full,
                        !.emit = plan.emit, !.fresh = plan.fresh])

Init ==
    /\ head = [branch |-> Main, commit |-> 0]
    /\ refs = [b \in Branches |-> 0]
    /\ chunks = {} /\ manifests = {} /\ checkpoints = {} /\ commits = <<>>
    /\ job = [p \in Procs |-> Idle]

CommitsLeft == Len(commits) <= MaxCommits

\* commit: `resolve_ref(args.base)`, HEAD by default.  A branch or a hash can
\* name any document that exists.
CommitStart(p) ==
    /\ CommitsLeft
    /\ \/ /\ Begin(p, "commit")
          /\ IF head.branch = NoBranch
             THEN Set(p, [Idle EXCEPT !.pc = "readHead", !.base = head.commit])
             ELSE Set(p, [Idle EXCEPT !.pc = "base", !.br = head.branch])
       \/ /\ Begin(p, "commit --base")
          /\ \E c \in Documents : Set(p, [Idle EXCEPT !.pc = "readHead", !.base = c])
    /\ UNCHANGED <<head, refs, objects>>

CommitBase(p) ==
    /\ At(p, "base")
    /\ Set(p, [job[p] EXCEPT !.pc = "readHead", !.base = refs[job[p].br]])
    /\ UNCHANGED <<head, refs, objects>>

\* commit: `branch, head_commit = repo.read_head()`; the ref itself is read
\* by the next step.  A detached HEAD is an error.
CommitReadHead(p) ==
    /\ At(p, "readHead")
    /\ IF head.branch = NoBranch
       THEN Done(p)
       ELSE Set(p, [job[p] EXCEPT !.pc = "plan", !.br = head.branch])
    /\ UNCHANGED <<head, refs, objects>>

Tip(p) == refs[job[p].br]

\* Faulty: the new commit forgets its parent.
NoParents(p) == <<>>
TipAsParents(p) == IF Tip(p) = 0 THEN <<>> ELSE <<Tip(p)>>

CommitPlan(p, plan) == Write(p, plan, Tip(p), TipAsParents(p))

\* Faulty: the interval is counted from --base.
IntervalLeftAtBase(p) == SinceFull(job[p].base) < RebaseInterval - 1
IntervalLeft(p) == SinceFull(Tip(p)) < RebaseInterval - 1

\* What a residual would be of: the anchor of --base (flat) or --base itself
\* (adaptive).  Either may turn out to be no commit.
DiffBase(p, policy) ==
    IF policy = "flat" THEN NearestFullAncestor(job[p].base) ELSE job[p].base

\* commit: stored in full because there is no anchor, because the interval
\* is used up, or because alignment found the anchor unusable.
CommitFull(p) ==
    /\ At(p, "plan")
    /\ \/ job[p].base = 0 \/ ~IntervalLeft(p)
       \/ \E policy \in Policies : DiffBase(p, policy) \in Commits
    /\ \E data \in Inputs : CommitPlan(p, FullPlan(data))
    /\ UNCHANGED <<head, refs, objects>>

\* commit: stored as residuals.  The interval is counted from the branch's tip.
CommitResidual(p) ==
    /\ At(p, "plan") /\ job[p].base # 0
    /\ IntervalLeft(p)
    /\ \E policy \in Policies, data \in Inputs :
          /\ DiffBase(p, policy) \in Commits
          /\ LET base == commits[DiffBase(p, policy)].tree
             IN  \E plan \in IF policy = "flat" THEN ResidualPlans(data, base)
                             ELSE AdaptivePlans(data, base) : CommitPlan(p, plan)
    /\ UNCHANGED <<head, refs, objects>>

\* commit: an error when what is to be diffed against has no checkpoint.
CommitFails(p) ==
    /\ At(p, "plan") /\ job[p].base # 0
    /\ IntervalLeft(p)
    /\ \E policy \in Policies : DiffBase(p, policy) \notin Commits
    /\ Done(p)
    /\ UNCHANGED <<head, refs, objects>>

\* merge: `branch, head = repo.read_head()`, as two reads.
MergeStart(p) ==
    /\ Begin(p, "merge") /\ CommitsLeft
    /\ head.branch # NoBranch
    /\ Set(p, [Idle EXCEPT !.pc = "mergeTip", !.br = head.branch])
    /\ UNCHANGED <<head, refs, objects>>

MergeTip(p) ==
    /\ At(p, "mergeTip")
    /\ IF Tip(p) = 0
       THEN Done(p)
       ELSE Set(p, [job[p] EXCEPT !.pc = "merge", !.tip = Tip(p)])
    /\ UNCHANGED <<head, refs, objects>>

\* merge: the rest of the decision.  `theirs` may be named by hash, so it is
\* any document; only a plan looks into the three checkpoints.  Nothing changes
\* when one of them has none, when theirs is already merged, shares no history,
\* or conflicts and --average was not given.
MergeDecide(p) ==
    /\ At(p, "merge")
    /\ \/ Done(p)
       \/ \E theirs \in Documents \ {job[p].tip}, base \in Documents :
             /\ base # theirs /\ base \in MergeBases(job[p].tip, theirs)
             /\ \/ /\ base = job[p].tip      \* fast-forward
                   /\ Set(p, [job[p] EXCEPT !.pc = "ref", !.new = theirs])
                \/ /\ {job[p].tip, theirs, base} \subseteq Commits
                   /\ \E data \in MergedContents(job[p].tip, theirs, base) :
                         Write(p, FullPlan(data), job[p].tip, <<job[p].tip, theirs>>)
    /\ UNCHANGED <<head, refs, objects>>

\* What is left to store before the commit object: chunks, config.json, then
\* manifests, then the checkpoint manifest.  `put` of an object already there is a no-op.
Unstored(p) == {t \in job[p].fresh : <<t, job[p].tree[t]>> \notin manifests}
\* Faulty: manifests may go out before their chunks.
AnyOrder(p) == TRUE
ChunksStored(p) == job[p].emit \subseteq chunks
ConfigStored == commits # <<>>
ManifestsStored(p) == ChunksStored(p) /\ ConfigStored /\ Unstored(p) = {}

PutChunk(p) ==
    /\ At(p, "write")
    /\ \E c \in job[p].emit \ chunks : chunks' = chunks \cup {c}
    /\ UNCHANGED <<head, refs, manifests, checkpoints, commits, job>>

\* The first commit has no base to take a config from, so it stores one.
PutConfig(p) ==
    /\ At(p, "write") /\ ChunksStored(p) /\ ~ConfigStored
    /\ commits' = <<[parents |-> <<>>, full |-> FALSE, tree |-> NoTree]>>
    /\ UNCHANGED <<head, refs, chunks, manifests, checkpoints, job>>

\* Faulty: the pair is the wrong way round.
PutSwapped(p) ==
    /\ At(p, "write") /\ ChunksStored(p) /\ ConfigStored
    /\ \E t \in Unstored(p) : manifests' = manifests \cup {<<job[p].tree[t], t>>}
    /\ UNCHANGED <<head, refs, chunks, checkpoints, commits, job>>

PutManifest(p) ==
    /\ At(p, "write") /\ ChunksStored(p) /\ ConfigStored
    /\ \E t \in Unstored(p) : manifests' = manifests \cup {<<t, job[p].tree[t]>>}
    /\ UNCHANGED <<head, refs, chunks, checkpoints, commits, job>>

PutCheckpoint(p) ==
    /\ At(p, "write") /\ ManifestsStored(p)
    /\ job[p].tree \notin checkpoints
    /\ checkpoints' = checkpoints \cup {job[p].tree}
    /\ UNCHANGED <<head, refs, chunks, manifests, commits, job>>

\* Faulty: the ref moves before the commit object exists.
RefFirst(p) ==
    /\ At(p, "write") /\ ManifestsStored(p) /\ job[p].tree \in checkpoints
    /\ refs' = [refs EXCEPT ![job[p].br] = Len(commits) + 1]
    /\ UNCHANGED <<head, objects, job>>

\* An equal commit of the same second is the same object.
WriteCommit(p) ==
    /\ At(p, "write") /\ ManifestsStored(p) /\ job[p].tree \in checkpoints
    /\ LET commit == [parents |-> job[p].parents, full |-> job[p].full,
                      tree |-> job[p].tree]
       IN  \/ /\ commits' = Append(commits, commit)
              /\ Set(p, [Idle EXCEPT !.pc = "ref", !.br = job[p].br, !.tip = job[p].tip,
                                     !.new = Len(commits) + 1])
           \/ /\ \E c \in Commits :
                    /\ commits[c] = commit
                    /\ Set(p, [Idle EXCEPT !.pc = "ref", !.br = job[p].br,
                                           !.tip = job[p].tip, !.new = c])
              /\ commits' = commits
    /\ UNCHANGED <<head, refs, chunks, manifests, checkpoints>>

\* commit, merge and branch: `repo.update_ref(branch, commit)`.
UpdateRef(p) ==
    /\ At(p, "ref")
    /\ refs' = [refs EXCEPT ![job[p].br] = job[p].new]
    /\ Done(p)
    /\ UNCHANGED <<head, objects>>

\* branch <name> [<start>]: check, resolve the start point, write the ref.
CreateStart(p) ==
    /\ Begin(p, "branch")
    /\ \E b \in Branches :
          refs[b] = 0 /\ Set(p, [Idle EXCEPT !.pc = "create", !.br = b])
    /\ UNCHANGED <<head, refs, objects>>

CreateResolve(p) ==
    /\ At(p, "create")
    /\ \/ \E c \in Documents : Set(p, [job[p] EXCEPT !.pc = "ref", !.new = c])
       \/ Done(p)                      \* the start point names nothing
    /\ UNCHANGED <<head, refs, objects>>

\* Faulty: the current branch may be deleted.
DeleteAny(p) ==
    /\ Begin(p, "branch -d")
    /\ \E b \in Branches : Set(p, [Idle EXCEPT !.pc = "delete", !.br = b])
    /\ UNCHANGED <<head, refs, objects>>

\* branch -d <name>: refused for the branch HEAD was attached to.
DeleteStart(p) ==
    /\ Begin(p, "branch -d")
    /\ \E b \in Branches \ {head.branch} : Set(p, [Idle EXCEPT !.pc = "delete", !.br = b])
    /\ UNCHANGED <<head, refs, objects>>

DeleteRef(p) ==
    /\ At(p, "delete")
    /\ refs' = [refs EXCEPT ![job[p].br] = 0]
    /\ Done(p)
    /\ UNCHANGED <<head, objects>>

\* branch -m <br> <to>: rename_branch, a step for each look at a file.
RenameStart(p) ==
    /\ Begin(p, "branch -m")
    /\ \E old \in Branches, new \in Branches :
          /\ refs[old] # 0
          /\ Set(p, [Idle EXCEPT !.pc = IF new = old THEN "renameRead" ELSE "renameNew",
                                 !.br = old, !.to = new])
    /\ UNCHANGED <<head, refs, objects>>

RenameNew(p) ==
    /\ At(p, "renameNew")
    /\ IF refs[job[p].to] = 0 THEN Goto(p, "renameRead") ELSE Done(p)
    /\ UNCHANGED <<head, refs, objects>>

RenameRead(p) ==
    /\ At(p, "renameRead")
    /\ IF Tip(p) = 0
       THEN Done(p)
       ELSE Set(p, [job[p] EXCEPT !.pc = "rename", !.new = Tip(p)])
    /\ UNCHANGED <<head, refs, objects>>

\* Faulty: the old ref goes before the new one is written.
RenameDropsOld(p) ==
    /\ At(p, "rename")
    /\ refs' = [refs EXCEPT ![job[p].br] = 0]
    /\ Goto(p, "unlink")
    /\ UNCHANGED <<head, objects>>

RenameRef(p) ==
    /\ At(p, "rename")
    /\ refs' = [refs EXCEPT ![job[p].to] = job[p].new]
    /\ IF job[p].to = job[p].br THEN Done(p) ELSE Goto(p, "unlink")
    /\ UNCHANGED <<head, objects>>

RenameUnlink(p) ==
    /\ At(p, "unlink")
    /\ refs' = [refs EXCEPT ![job[p].br] = 0]
    /\ IF Tip(p) = 0 THEN Done(p) ELSE Goto(p, "rereadHead")
    /\ UNCHANGED <<head, objects>>

RenameReadHead(p) ==
    /\ At(p, "rereadHead")
    /\ IF head.branch = job[p].br THEN Goto(p, "reattach") ELSE Done(p)
    /\ UNCHANGED <<head, refs, objects>>

RenameHead(p) ==
    /\ At(p, "reattach")
    /\ head' = [branch |-> job[p].to, commit |-> 0]
    /\ Done(p)
    /\ UNCHANGED <<refs, objects>>

\* checkout <ref>: resolve it, reconstruct the file, move HEAD last.  With
\* --no-materialize any document will do.
CheckoutStart(p) ==
    /\ Begin(p, "checkout")
    /\ \/ \E b \in Branches : refs[b] # 0 /\ Set(p, [Idle EXCEPT !.pc = "checkout", !.br = b])
       \/ \E c \in Documents : Set(p, [Idle EXCEPT !.pc = "checkout", !.new = c])
    /\ UNCHANGED <<head, refs, objects>>

CheckoutHead(p) ==
    /\ At(p, "checkout")
    /\ head' = [branch |-> job[p].br, commit |-> job[p].new]
    /\ Done(p)
    /\ UNCHANGED <<refs, objects>>

\* The process is killed, or the command ends in an error.
Stop(p) ==
    /\ job[p].pc \in Stops \ {"idle"}
    /\ Done(p)
    /\ UNCHANGED <<head, refs, objects>>

Commit(p) == CommitStart(p) \/ CommitBase(p) \/ CommitReadHead(p) \/ CommitFull(p)
             \/ CommitResidual(p) \/ CommitFails(p)
Merge(p) == MergeStart(p) \/ MergeTip(p) \/ MergeDecide(p)
Put(p) == PutChunk(p) \/ PutConfig(p) \/ PutManifest(p) \/ PutCheckpoint(p) \/ WriteCommit(p)
Branch(p) == CreateStart(p) \/ CreateResolve(p) \/ DeleteStart(p) \/ DeleteRef(p)
Rename(p) == RenameStart(p) \/ RenameNew(p) \/ RenameRead(p) \/ RenameRef(p)
             \/ RenameUnlink(p) \/ RenameReadHead(p) \/ RenameHead(p)
Checkout(p) == CheckoutStart(p) \/ CheckoutHead(p)

Next == \E p \in Procs : \/ Commit(p) \/ Merge(p) \/ Put(p) \/ UpdateRef(p)
                         \/ Branch(p) \/ Rename(p) \/ Checkout(p) \/ Stop(p)

Spec == Init /\ [][Next]_vars

-----------------------------------------------------------------------------
(* What the repository promises.                                           *)

JobType ==
    [pc : Steps, br : HeadBranches, to : HeadBranches, base : Nat, tip : Nat, new : Nat,
     parents : Seq(Nat), tree : Trees, full : BOOLEAN,
     emit : SUBSET Chains, fresh : SUBSET Tensors]

\* Every variable holds a value of its kind.
TypeOK ==
    /\ head \in [branch : HeadBranches, commit : Nat]
    /\ refs \in [Branches -> Nat]
    /\ chunks \subseteq Chains
    /\ manifests \subseteq Tensors \X Chains
    /\ checkpoints \subseteq Trees
    /\ commits \in Seq([parents : Seq(Nat), full : BOOLEAN, tree : Trees])
    /\ job \in [Procs -> JobType]

\* Every object of the store can be read back: what it names is in the store.
\* This is what the write order of commit and merge (commit.py:207-217) is
\* for, and it holds whatever commands interleave and wherever they die.
ManifestReadable(t, chain) ==
    /\ Chunk(chain) \in chunks
    /\ Len(chain) > 1 => <<t, Tail(chain)>> \in manifests

StoreClosed ==
    /\ \A m \in manifests : ManifestReadable(m[1], m[2])
    /\ \A tree \in checkpoints : \A t \in Present(tree) : <<t, tree[t]>> \in manifests
    /\ \A c \in Commits : commits[c].tree \in checkpoints

\* A ref, a detached HEAD and a parent pointer only ever name an object that
\* is in the store ("A ref can never point at a partially-written or
\* inconsistent commit", FORMAT.md 118), and parents are older: no command
\* keeps the name of what it has not written yet, whatever others do.
RefsNameObjects ==
    /\ \A b \in Branches : refs[b] \in {0} \cup Documents
    /\ head.branch = NoBranch => head.commit \in Documents
    /\ \A c \in Documents : Parents(c) \subseteq 1..(c - 1)

\* The store as a graph of objects, and HEAD as the ref of its own that it is
\* when detached.  Commit 0 is no object.
StoredObjects == ({"chunk"} \X chunks) \cup ({"manifest"} \X manifests)
                 \cup ({"checkpoint"} \X checkpoints) \cup ({"commit"} \X Documents)

NamedBy(kind, o) ==
    CASE kind = "chunk" -> {}
      [] kind = "manifest" -> {<<"chunk", Chunk(o[2])>>}
                              \cup (IF Len(o[2]) > 1 THEN {<<"manifest", <<o[1], Tail(o[2])>>>>} ELSE {})
      [] kind = "checkpoint" -> {<<"manifest", <<t, o[t]>>>> : t \in Present(o)}
      [] kind = "commit" -> (IF o = 1 THEN {} ELSE {<<"checkpoint", commits[o].tree>>})
                            \cup ({"commit"} \X Parents(o))

HeadTip(b) == IF b # NoBranch THEN refs[b]
              ELSE IF head.branch = NoBranch THEN head.commit ELSE 0

\* However commands interleave and wherever they die, the repository is at every
\* step a closed store that only grows and in which one ref at a time moves, to
\* an object that is there: what transfers, verify and the daemon, which take
\* no lock either, rely on (FORMAT.md 111-118).
Store == INSTANCE ContentStore
    WITH Refs <- HeadBranches, NoObject <- <<"commit", 0>>,
         names <- [o \in StoredObjects |-> NamedBy(o[1], o[2])],
         tip <- [b \in HeadBranches |-> <<"commit", HeadTip(b)>>]
RefinesStore == Store!Spec

\* No tensor is read through more decodes than the anchor policies allow,
\* provided every root is full: one residual under the flat policy, fewer
\* than MaxDepth under the adaptive one; and a full commit needs none.
RootsAreFull == \A c \in Commits : commits[c].parents = <<>> => commits[c].full

Deepest == IF Policies = {"flat"} \/ MaxDepth = 1 THEN 1 ELSE MaxDepth - 1

DepthBounded ==
    /\ \A c \in Commits : commits[c].full =>
          \A t \in Present(commits[c].tree) : Len(commits[c].tree[t]) = 1
    /\ RootsAreFull =>
          \A c \in Commits : \A t \in Present(commits[c].tree) :
              Len(commits[c].tree[t]) - 1 <= Deepest

\* At most RebaseInterval - 1 commits follow a full one on any first-parent
\* line, however the writers of a branch interleave (FORMAT.md 12A).
DriftBounded == \A c \in Commits : SinceFull(c) <= RebaseInterval - 1

\* A commit that some branch can reach stays reachable, unless a branch is
\* deleted on request or a command writes a ref that changed after the
\* command read it: refs are written without compare-and-swap.
Reachable == UNION {Ancestors(refs[b]) : b \in Branches}

Overwrites(p) ==
    \/ At(p, "ref") /\ Tip(p) # job[p].tip
    \/ At(p, "rename") /\ job[p].to # job[p].br /\ refs[job[p].to] # 0
    \/ At(p, "rename") /\ job[p].to = job[p].br /\ Tip(p) # job[p].new
    \/ At(p, "unlink") /\ job[p].new \notin {Tip(p)} \cap {refs[job[p].to]}

NothingForgotten ==
    [][ \/ Reachable \subseteq Reachable'
        \/ \E p \in Procs : job[p] # job'[p] /\ (At(p, "delete") \/ Overwrites(p)) ]_vars

\* With one command at a time, crashes included, HEAD's branch never loses
\* its commit except in the window of a rename that moves that very branch.
HeadBorn == head.branch # NoBranch => refs[head.branch] # 0

HeadStaysBorn ==
    [][ HeadBorn => \/ HeadBorn'
                    \/ \E p \in Procs : At(p, "unlink") /\ job'[p].pc = "rereadHead" ]_vars

\* Where branches are only committed to and renamed, HEAD names one that
\* exists once any does: a rename re-attaches HEAD last so that "until that
\* write, HEAD still names a ref that exists" (repo.py:354-355).
HeadNamesARef == (\E b \in Branches : refs[b] # 0) => HeadBorn
=============================================================================
