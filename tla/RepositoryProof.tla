--------------------------- MODULE RepositoryProof ---------------------------
(***************************************************************************)
(* Repository, for any number of processes, branches, tensors and commits. *)
(*                                                                         *)
(* Two inductive invariants, the second resting on the first.  TypeInv     *)
(* says what the numbers in refs, HEAD and the jobs name; ClosedInv says   *)
(* what a commit in the middle of its writes has already stored.           *)
(***************************************************************************)
EXTENDS Repository, TLAPS, SequenceTheorems

-----------------------------------------------------------------------------
(* Chains.                                                                 *)

\* A chain that is not empty has a newest content, and one below it unless
\* it is all there is; its chunk is itself a chain.
LEMMA ChainFacts ==
    ASSUME NEW chain \in Chains, chain # <<>>
    PROVE  /\ Len(chain) \in Nat \ {0}
           /\ chain[1] \in Values
           /\ Len(chain) # 1 => chain[2] \in Values
           /\ Chunk(chain) \in Chains
  <1>1. Len(chain) \in Nat \ {0}
    BY EmptySeq DEF Chains
  <1>2. \A i \in 1..Len(chain) : chain[i] \in Values
    BY ElementOfSeq DEF Chains
  <1>3. 1 \in 1..Len(chain) /\ (Len(chain) # 1 => 2 \in 1..Len(chain))
    <2>1. \A n \in Nat \ {0} : 1 \in 1..n /\ (n # 1 => 2 \in 1..n)
      OBVIOUS
    <2>. QED
      BY ONLY <1>1, <2>1
  <1>4. chain[1] \in Values
    BY <1>2, <1>3
  <1>5. Len(chain) # 1 => chain[2] \in Values
    BY <1>2, <1>3
  <1>6. Len(chain) # 1 => <<chain[1], chain[2]>> \in Chains
    BY <1>4, <1>5 DEF Chains
  <1>. QED
    BY <1>1, <1>4, <1>5, <1>6 DEF Chunk

\* A content alone is a chain of length one.
LEMMA ShortChain ==
    ASSUME NEW x \in Values
    PROVE  /\ <<x>> \in Chains /\ <<x>> # <<>> /\ Len(<<x>>) = 1
           /\ Chunk(<<x>>) = <<x>>
  BY DEF Chains, Chunk

\* A residual is a chain, one longer than its base.
LEMMA LongChain ==
    ASSUME NEW x \in Values, NEW chain \in Chains
    PROVE  /\ <<x>> \o chain \in Chains /\ <<x>> \o chain # <<>>
           /\ Len(<<x>> \o chain) = Len(chain) + 1
           /\ Tail(<<x>> \o chain) = chain
  <1>. DEFINE long == <<x>> \o chain
  <1>1. <<x>> \in Seq(Values) /\ chain \in Seq(Values) /\ Len(<<x>>) = 1
    BY DEF Chains
  <1>2. /\ long \in Seq(Values) /\ Len(long) = 1 + Len(chain)
        /\ \A i \in 1..1 + Len(chain) : long[i] = IF i <= 1 THEN <<x>>[i] ELSE chain[i - 1]
    BY <1>1, ConcatProperties
  <1>3. Len(chain) \in Nat
    BY <1>1, LenProperties
  <1>4. long # <<>>
    BY <1>2, <1>3, EmptySeq
  <1>5. /\ Tail(long) \in Seq(Values) /\ Len(Tail(long)) = Len(long) - 1
        /\ \A i \in 1..Len(Tail(long)) : Tail(long)[i] = long[i + 1]
    <2>. HIDE DEF long
    <2>. QED
      BY <1>2, <1>4, HeadTailProperties
  <1>6. Len(Tail(long)) = Len(chain)
    BY <1>2, <1>3, <1>5
  <1>7. \A i \in 1..Len(chain) : Tail(long)[i] = chain[i]
    <2>. HIDE DEF long
    <2>. QED
      BY <1>2, <1>3, <1>5, <1>6
  <1>8. Tail(long) = chain
    <2>. HIDE DEF long
    <2>. QED
      BY <1>1, <1>5, <1>6, <1>7, SeqEqual
  <1>. QED
    BY <1>2, <1>3, <1>4, <1>8 DEF Chains

-----------------------------------------------------------------------------
(* The operators that plan a commit.                                       *)

Plans == [tree : Trees, full : BOOLEAN, emit : SUBSET Chains, fresh : SUBSET Tensors]

\* What the encoder is given: a content for some of the names.
Contents(data) == /\ DOMAIN data \subseteq Tensors
                  /\ \A t \in DOMAIN data : data[t] \in Values

\* What a plan owes the store: it brings the chunk of every manifest it
\* writes, and rests on manifests the store has.
Sound(plan, stored) ==
    /\ \A t \in plan.fresh : plan.tree[t] # <<>> /\ Chunk(plan.tree[t]) \in plan.emit
    /\ \A t \in Present(plan.tree) \ plan.fresh : <<t, plan.tree[t]>> \in stored
    /\ \A t \in plan.fresh :
          Len(plan.tree[t]) > 1 => <<t, Tail(plan.tree[t])>> \in stored

\* Storing a checkpoint in full is a plan that needs nothing from the store.
LEMMA FullPlanSound ==
    ASSUME NEW data, Contents(data), NEW stored
    PROVE  FullPlan(data) \in Plans /\ Sound(FullPlan(data), stored)
  <1>1. Tree(data) \in Trees
    BY DEF Tree, Trees, Chains, Contents
  <1>2. \A t \in DOMAIN data : Tree(data)[t] = <<data[t]>> /\ data[t] \in Values
    BY DEF Tree, Contents
  <1>3. Chunks(Tree(data), DOMAIN data) \subseteq Chains
    BY <1>2, ShortChain DEF Chunks
  <1>4. FullPlan(data) \in Plans
    BY <1>1, <1>3 DEF FullPlan, Plans, Contents
  <1>5. Present(Tree(data)) \subseteq DOMAIN data
    BY DEF Present, Tree
  <1>6. \A t \in DOMAIN data : /\ Tree(data)[t] # <<>> /\ Len(Tree(data)[t]) = 1
                               /\ Chunk(Tree(data)[t]) \in Chunks(Tree(data), DOMAIN data)
    BY <1>2, ShortChain DEF Chunks
  <1>7. /\ FullPlan(data).tree = Tree(data) /\ FullPlan(data).fresh = DOMAIN data
        /\ FullPlan(data).emit = Chunks(Tree(data), DOMAIN data)
    BY DEF FullPlan
  <1>8. \A t \in DOMAIN data : ~(Len(Tree(data)[t]) > 1)
    <2>1. ~(1 > 1)
      OBVIOUS
    <2>. QED
      BY ONLY <1>6, <2>1, Zenon
  <1>. QED
    BY <1>4, <1>5, <1>6, <1>7, <1>8 DEF Sound

\* A residual of a checkpoint on a tree is a plan, sound where the tree is
\* stored.
LEMMA ResidualPlanSound ==
    ASSUME NEW data, Contents(data), NEW base \in Trees,
           NEW plan \in ResidualPlans(data, base), NEW stored
    PROVE  /\ plan \in Plans
           /\ (\A t \in Present(base) : <<t, base[t]>> \in stored) => Sound(plan, stored)
  <1>1. PICK fresh \in SUBSET DOMAIN data : plan \in PlansOf(data, base, fresh)
    BY DEF ResidualPlans
  <1>2. PICK residual \in SUBSET (fresh \cap Present(base)) :
            plan = [tree |-> ResidualTree(data, base, fresh, residual), full |-> FALSE,
                    emit |-> Chunks(ResidualTree(data, base, fresh, residual), fresh),
                    fresh |-> fresh]
    BY <1>1 DEF PlansOf
  <1>. DEFINE tree == ResidualTree(data, base, fresh, residual)
  <1>3. fresh \subseteq DOMAIN data /\ DOMAIN data \subseteq Tensors
    BY DEF Contents
  <1>4. \A t \in DOMAIN data : data[t] \in Values
    BY DEF Contents
  <1>5. \A t \in Tensors : base[t] \in Chains /\ <<>> \in Chains
    BY DEF Trees, Chains
  <1>6. \A t \in residual : /\ tree[t] = <<data[t]>> \o base[t]
                            /\ tree[t] \in Chains /\ tree[t] # <<>>
                            /\ Tail(tree[t]) = base[t]
    BY <1>2, <1>3, <1>4, <1>5, LongChain DEF ResidualTree
  <1>7. \A t \in fresh \ residual : /\ tree[t] = <<data[t]>> /\ tree[t] \in Chains
                                    /\ tree[t] # <<>> /\ Len(tree[t]) = 1
    BY <1>2, <1>3, <1>4, ShortChain DEF ResidualTree
  <1>8. \A t \in Tensors \ fresh : tree[t] \in {base[t], <<>>}
    BY <1>2 DEF ResidualTree
  <1>9. tree \in Trees
    <2>1. \A t \in Tensors : tree[t] \in Chains
      BY <1>5, <1>6, <1>7, <1>8
    <2>. QED
      BY <2>1 DEF ResidualTree, Trees
  <1>10. Chunks(tree, fresh) \subseteq Chains
    BY <1>6, <1>7, ChainFacts DEF Chunks
  <1>11. plan \in Plans
    BY <1>2, <1>3, <1>9, <1>10 DEF Plans
  <1>12. ASSUME \A t \in Present(base) : <<t, base[t]>> \in stored
         PROVE  Sound(plan, stored)
    <2>1. \A t \in fresh : tree[t] # <<>> /\ Chunk(tree[t]) \in Chunks(tree, fresh)
      BY <1>6, <1>7 DEF Chunks
    <2>2. \A t \in Present(tree) \ fresh : <<t, tree[t]>> \in stored
      BY <1>8, <1>12 DEF Present
    <2>3. \A t \in fresh : Len(tree[t]) > 1 => <<t, Tail(tree[t])>> \in stored
      <3>1. \A t \in residual : t \in Present(base) /\ Tail(tree[t]) = base[t]
        BY <1>2, <1>6
      <3>2. \A t \in fresh \ residual : ~(Len(tree[t]) > 1)
        <4>1. ~(1 > 1)
          OBVIOUS
        <4>. QED
          BY ONLY <1>7, <4>1, Zenon
      <3>. HIDE DEF tree
      <3>. QED
        BY <3>1, <3>2, <1>12
    <2>. QED
      BY <1>2, <2>1, <2>2, <2>3 DEF Sound
  <1>. QED
    BY <1>11, <1>12

\* A residual plan describes tensors of the file.
LEMMA FreshOfData ==
    ASSUME NEW data, NEW base, NEW plan \in ResidualPlans(data, base)
    PROVE  plan.fresh \subseteq DOMAIN data
  <1>1. PICK fresh \in SUBSET DOMAIN data : plan \in PlansOf(data, base, fresh)
    BY DEF ResidualPlans
  <1>. QED
    BY <1>1 DEF PlansOf

\* Promoting changes a residual plan in one of two ways.
LEMMA PromotionCases ==
    ASSUME NEW data, NEW first, NEW plan \in Promotions(data, first)
    PROVE  \/ plan = WholePlan(data, first)
           \/ \E promote \in SUBSET first.fresh : plan = MixedPlan(data, first, promote)
  BY DEF Promotions

\* What the adaptive policy makes of a residual plan is a plan.
LEMMA AdaptivePlanType ==
    ASSUME NEW data, Contents(data), NEW base \in Trees,
           NEW plan \in AdaptivePlans(data, base)
    PROVE  plan \in Plans
  <1>1. PICK first \in ResidualPlans(data, base) : plan \in Promotions(data, first)
    BY DEF AdaptivePlans
  <1>2. first \in Plans
    BY <1>1, ResidualPlanSound
  <1>3. FullPlan(data) \in Plans
    BY FullPlanSound
  <1>4. first.fresh \subseteq DOMAIN data
    BY <1>1, FreshOfData
  <1>5. CASE plan = WholePlan(data, first)
    BY <1>2, <1>3, <1>5 DEF WholePlan, Plans
  <1>6. ASSUME NEW promote \in SUBSET first.fresh, plan = MixedPlan(data, first, promote)
        PROVE  plan \in Plans
    <2>1. \A t \in promote : <<data[t]>> \in Chains
      BY <1>4, ShortChain DEF Contents
    <2>2. Promoted(data, promote) \subseteq Chains
      BY <2>1 DEF Promoted
    <2>3. [t \in Tensors |-> IF t \in promote THEN <<data[t]>> ELSE first.tree[t]] \in Trees
      BY <1>2, <2>1 DEF Plans, Trees
    <2>. QED
      BY <1>2, <1>6, <2>2, <2>3 DEF MixedPlan, Plans
  <1>. QED
    BY <1>1, <1>5, <1>6, PromotionCases

-----------------------------------------------------------------------------
(* What refs, HEAD, commits and jobs name.                                 *)

\* A job holds the branch it works on from the moment it has read it, and
\* only numbers of commits it has seen in the store.
JobNames(j) ==
    /\ {j.base, j.tip, j.new} \subseteq {0} \cup Documents
    /\ \A i \in DOMAIN j.parents : j.parents[i] \in Documents
    /\ j.pc \in {"base", "plan", "mergeTip", "merge", "write", "ref", "create", "delete",
                "renameNew", "renameRead", "rename", "unlink", "rereadHead"} => j.br \in Branches
    /\ j.pc \in {"renameNew", "renameRead", "rename", "unlink", "rereadHead", "reattach"} =>
          j.to \in Branches
    /\ j.pc \in {"ref", "rename"} => j.new \in Documents
    /\ j.pc = "merge" => j.tip \in Documents
    /\ j.pc = "checkout" /\ j.br = NoBranch => j.new \in Documents

JobsName == \A p \in Procs : JobNames(job[p])

TypeInv == TypeOK /\ RefsNameObjects /\ JobsName

\* A step of one job keeps the jobs in order if its own new record is.
LEMMA JobStep ==
    ASSUME TypeInv, NEW p \in Procs, NEW j \in JobType, JobNames(j), Set(p, j),
           commits' = commits
    PROVE  job' \in [Procs -> JobType] /\ JobsName'
  BY DEF TypeInv, TypeOK, JobsName, JobNames, Documents, Set

\* The record of an idle process.
LEMMA IdleOK == Idle \in JobType /\ JobNames(Idle)
  <1>1. NoTree \in Trees
    BY DEF NoTree, Trees, Chains
  <1>2. <<>> \in Seq(Nat) /\ DOMAIN <<>> = {}
    OBVIOUS
  <1>. QED
    BY <1>1, <1>2 DEF Idle, JobType, JobNames, Steps, HeadBranches

\* A step that only changes one job keeps TypeInv.
LEMMA OnlyJob ==
    ASSUME TypeInv, NEW p \in Procs, NEW j \in JobType, JobNames(j), Set(p, j),
           UNCHANGED <<head, refs, objects>>
    PROVE  TypeInv'
  <1>1. job' \in [Procs -> JobType] /\ JobsName'
    BY JobStep DEF objects
  <1>. QED
    BY <1>1 DEF TypeInv, TypeOK, RefsNameObjects, objects, Documents, Parents

\* A step that also writes a ref or HEAD keeps it if that names a commit.
LEMMA JobAndRefs ==
    ASSUME TypeInv, NEW p \in Procs, NEW j \in JobType, JobNames(j), Set(p, j),
           UNCHANGED objects,
           head' \in [branch : HeadBranches, commit : Nat],
           head'.branch = NoBranch => head'.commit \in Documents,
           NEW b \in Branches, NEW c \in {0} \cup Documents,
           refs' \in {refs, [refs EXCEPT ![b] = c]}
    PROVE  TypeInv'
  <1>1. job' \in [Procs -> JobType] /\ JobsName'
    BY JobStep DEF objects
  <1>2. Documents' = Documents /\ Documents \subseteq Nat
    BY LenProperties DEF TypeInv, TypeOK, objects, Documents
  <1>3. refs \in [Branches -> Nat] /\ \A d \in Branches : refs[d] \in {0} \cup Documents
    BY DEF TypeInv, TypeOK, RefsNameObjects
  <1>4. c \in Nat
    BY <1>2
  <1>5. refs' \in [Branches -> Nat] /\ \A d \in Branches : refs'[d] \in {0} \cup Documents
    <2>1. CASE refs' = refs
      BY <1>3, <2>1
    <2>2. CASE refs' = [refs EXCEPT ![b] = c]
      BY <1>3, <1>4, <2>2
    <2>. QED
      BY <2>1, <2>2
  <1>6. TypeOK'
    BY <1>1, <1>5 DEF TypeInv, TypeOK, objects
  <1>7. \A d \in Documents : Parents(d)' = Parents(d)
    BY DEF objects, Parents
  <1>8. RefsNameObjects'
    BY <1>2, <1>5, <1>7 DEF TypeInv, RefsNameObjects
  <1>. QED
    BY <1>1, <1>6, <1>8 DEF TypeInv

\* The type of one commit.
LEMMA CommitRecord ==
    ASSUME TypeInv, NEW c \in Documents
    PROVE  commits[c] \in [parents : Seq(Nat), full : BOOLEAN, tree : Trees]
  <1>1. commits \in Seq([parents : Seq(Nat), full : BOOLEAN, tree : Trees])
    BY DEF TypeInv, TypeOK
  <1>2. c \in 1..Len(commits)
    BY <1>1, LenProperties DEF Documents
  <1>. QED
    BY <1>1, <1>2, ElementOfSeq

\* A job that has made a plan.
LEMMA WriteOK ==
    ASSUME TypeInv, NEW p \in Procs, job[p].br \in Branches,
           NEW plan \in Plans, NEW tip \in {0} \cup Documents, NEW parents \in Seq(Nat),
           \A i \in DOMAIN parents : parents[i] \in Documents,
           Write(p, plan, tip, parents), UNCHANGED <<head, refs, objects>>
    PROVE  TypeInv'
  <1>. DEFINE j == [Idle EXCEPT !.pc = "write", !.br = job[p].br, !.tip = tip,
                        !.parents = parents, !.tree = plan.tree, !.full = plan.full,
                        !.emit = plan.emit, !.fresh = plan.fresh]
  <1>1. Documents \subseteq Nat
    BY LenProperties DEF TypeInv, TypeOK, Documents
  <1>2. j \in JobType
    <2>1. tip \in Nat /\ "write" \in Steps /\ job[p].br \in HeadBranches
      BY <1>1 DEF Steps, HeadBranches
    <2>2. /\ plan.tree \in Trees /\ plan.full \in BOOLEAN
          /\ plan.emit \in SUBSET Chains /\ plan.fresh \in SUBSET Tensors
      BY DEF Plans
    <2>. QED
      BY <2>1, <2>2, IdleOK DEF JobType
  <1>3. JobNames(j)
    BY DEF JobNames, Idle
  <1>4. Set(p, j)
    BY DEF Write
  <1>. QED
    BY <1>2, <1>3, <1>4, OnlyJob

-----------------------------------------------------------------------------
(* Every action keeps TypeInv.                                             *)

LEMMA CommitType ==
    ASSUME TypeInv, NEW p \in Procs, Commit(p)
    PROVE  TypeInv'
  <1>. USE DEF At, Begin
  <1>1. /\ job[p] \in JobType /\ JobNames(job[p]) /\ Documents \subseteq Nat
        /\ Idle \in JobType /\ JobNames(Idle)
        /\ refs \in [Branches -> Nat] /\ \A b \in Branches : refs[b] \in {0} \cup Documents
        /\ head.branch \in HeadBranches
        /\ head.branch = NoBranch => head.commit \in Documents
    BY IdleOK, LenProperties DEF TypeInv, TypeOK, JobsName, RefsNameObjects, Documents
  <1>2. CASE CommitStart(p)
    <2>1. ASSUME head.branch = NoBranch,
                 Set(p, [Idle EXCEPT !.pc = "readHead", !.base = head.commit])
          PROVE  TypeInv'
      <3>1. [Idle EXCEPT !.pc = "readHead", !.base = head.commit] \in JobType
        BY <1>1, <2>1 DEF JobType, Steps
      <3>2. JobNames([Idle EXCEPT !.pc = "readHead", !.base = head.commit])
        BY <1>1, <2>1 DEF JobNames, Idle
      <3>. QED
        BY <1>2, <2>1, <3>1, <3>2, OnlyJob DEF CommitStart
    <2>2. ASSUME head.branch # NoBranch,
                 Set(p, [Idle EXCEPT !.pc = "base", !.br = head.branch])
          PROVE  TypeInv'
      <3>1. [Idle EXCEPT !.pc = "base", !.br = head.branch] \in JobType
        BY <1>1, <2>2 DEF JobType, Steps
      <3>2. JobNames([Idle EXCEPT !.pc = "base", !.br = head.branch])
        BY <1>1, <2>2 DEF JobNames, Idle, HeadBranches
      <3>. QED
        BY <1>2, <2>2, <3>1, <3>2, OnlyJob DEF CommitStart
    <2>3. ASSUME NEW c \in Documents, Set(p, [Idle EXCEPT !.pc = "readHead", !.base = c])
          PROVE  TypeInv'
      <3>1. [Idle EXCEPT !.pc = "readHead", !.base = c] \in JobType
        BY <1>1 DEF JobType, Steps
      <3>2. JobNames([Idle EXCEPT !.pc = "readHead", !.base = c])
        BY <1>1 DEF JobNames, Idle
      <3>. QED
        BY <1>2, <2>3, <3>1, <3>2, OnlyJob DEF CommitStart
    <2>. QED
      BY <1>2, <2>1, <2>2, <2>3 DEF CommitStart
  <1>3. CASE CommitBase(p)
    <2>. DEFINE j == [job[p] EXCEPT !.pc = "readHead", !.base = refs[job[p].br]]
    <2>1. job[p].br \in Branches
      BY <1>1, <1>3 DEF CommitBase, JobNames
    <2>2. j \in JobType
      BY <1>1, <2>1 DEF JobType, Steps
    <2>3. JobNames(j)
      BY <1>1, <2>1 DEF JobNames, JobType
    <2>. QED
      BY <1>3, <2>2, <2>3, OnlyJob DEF CommitBase
  <1>4. CASE CommitReadHead(p)
    <2>. DEFINE j == [job[p] EXCEPT !.pc = "plan", !.br = head.branch]
    <2>1. CASE head.branch = NoBranch
      BY <1>1, <1>4, <2>1, OnlyJob DEF CommitReadHead, Done
    <2>2. CASE head.branch # NoBranch
      <3>1. j \in JobType
        BY <1>1 DEF JobType, Steps
      <3>2. JobNames(j)
        BY <1>1, <2>2 DEF JobNames, JobType, HeadBranches
      <3>. QED
        BY <1>4, <2>2, <3>1, <3>2, OnlyJob DEF CommitReadHead
    <2>. QED
      BY <2>1, <2>2
  <1>5. ASSUME At(p, "plan"), UNCHANGED <<head, refs, objects>>,
               NEW plan \in Plans, CommitPlan(p, plan)
        PROVE  TypeInv'
    <2>1. job[p].br \in Branches
      BY <1>1, <1>5 DEF JobNames
    <2>2. Tip(p) \in {0} \cup Documents
      BY <1>1, <2>1 DEF Tip
    <2>3. /\ TipAsParents(p) \in Seq(Nat)
          /\ \A i \in DOMAIN TipAsParents(p) : TipAsParents(p)[i] \in Documents
      <3>1. CASE Tip(p) = 0
        BY <3>1 DEF TipAsParents
      <3>2. CASE Tip(p) \in Documents /\ Tip(p) # 0
        <4>1. \A c \in Documents : /\ <<c>> \in Seq(Nat)
                                 /\ \A i \in DOMAIN <<c>> : <<c>>[i] \in Documents
          BY <1>1
        <4>2. TipAsParents(p) = <<Tip(p)>>
          BY <3>2 DEF TipAsParents
        <4>. QED
          BY <3>2, <4>1, <4>2
      <3>. QED
        BY <2>2, <3>1, <3>2
    <2>. QED
      BY <1>5, <2>1, <2>2, <2>3, WriteOK DEF CommitPlan
  <1>6. \A data \in Inputs : Contents(data)
    BY InputsAssumption DEF Contents
  <1>7. CASE CommitFull(p)
    BY <1>5, <1>6, <1>7, FullPlanSound DEF CommitFull
  <1>8. CASE CommitResidual(p)
    <2>1. PICK policy \in Policies, data \in Inputs :
              /\ DiffBase(p, policy) \in Commits
              /\ \E plan \in IF policy = "flat"
                            THEN ResidualPlans(data, commits[DiffBase(p, policy)].tree)
                            ELSE AdaptivePlans(data, commits[DiffBase(p, policy)].tree) :
                    CommitPlan(p, plan)
      BY <1>8 DEF CommitResidual
    <2>2. commits[DiffBase(p, policy)].tree \in Trees
      BY <2>1, CommitRecord DEF Commits
    <2>3. \E plan \in Plans : CommitPlan(p, plan)
      BY <1>6, <2>1, <2>2, ResidualPlanSound, AdaptivePlanType
    <2>. QED
      BY <1>5, <1>8, <2>3 DEF CommitResidual
  <1>9. CASE CommitFails(p)
    BY <1>1, <1>9, OnlyJob DEF CommitFails, Done
  <1>. QED
    BY <1>2, <1>3, <1>4, <1>7, <1>8, <1>9 DEF Commit

LEMMA MergeType ==
    ASSUME TypeInv, NEW p \in Procs, Merge(p)
    PROVE  TypeInv'
  <1>. USE DEF At, Begin
  <1>1. /\ job[p] \in JobType /\ JobNames(job[p]) /\ Documents \subseteq Nat
        /\ Idle \in JobType /\ JobNames(Idle)
        /\ \A b \in Branches : refs[b] \in {0} \cup Documents
        /\ head.branch \in HeadBranches
    BY IdleOK, LenProperties DEF TypeInv, TypeOK, JobsName, RefsNameObjects, Documents
  <1>2. CASE MergeStart(p)
    <2>. DEFINE j == [Idle EXCEPT !.pc = "mergeTip", !.br = head.branch]
    <2>1. j \in JobType
      BY <1>1 DEF JobType, Steps
    <2>2. JobNames(j)
      BY <1>1, <1>2 DEF MergeStart, JobNames, Idle, HeadBranches
    <2>. QED
      BY <1>2, <2>1, <2>2, OnlyJob DEF MergeStart
  <1>3. CASE MergeTip(p)
    <2>. DEFINE j == [job[p] EXCEPT !.pc = "merge", !.tip = Tip(p)]
    <2>1. CASE Tip(p) = 0
      BY <1>1, <1>3, <2>1, OnlyJob DEF MergeTip, Done
    <2>2. CASE Tip(p) # 0
      <3>1. job[p].br \in Branches
        BY <1>1, <1>3 DEF MergeTip, JobNames
      <3>2. Tip(p) \in Documents
        BY <1>1, <2>2, <3>1 DEF Tip
      <3>3. j \in JobType
        BY <1>1, <3>2 DEF JobType, Steps
      <3>4. JobNames(j)
        BY <1>1, <3>1, <3>2 DEF JobNames, JobType
      <3>. QED
        BY <1>3, <2>2, <3>3, <3>4, OnlyJob DEF MergeTip
    <2>. QED
      BY <2>1, <2>2
  <1>4. CASE MergeDecide(p)
    <2>1. job[p].tip \in Documents /\ job[p].br \in Branches
      BY <1>1, <1>4 DEF MergeDecide, JobNames
    <2>2. CASE Done(p)
      BY <1>1, <1>4, <2>2, OnlyJob DEF MergeDecide, Done
    <2>3. ASSUME NEW theirs \in Documents, Set(p, [job[p] EXCEPT !.pc = "ref", !.new = theirs])
          PROVE  TypeInv'
      <3>. DEFINE j == [job[p] EXCEPT !.pc = "ref", !.new = theirs]
      <3>1. j \in JobType
        BY <1>1 DEF JobType, Steps
      <3>2. JobNames(j)
        BY <1>1, <2>1 DEF JobNames, JobType
      <3>. QED
        BY <1>4, <2>3, <3>1, <3>2, OnlyJob DEF MergeDecide
    <2>4. ASSUME NEW theirs \in Documents, NEW base \in Documents,
                 NEW data \in MergedContents(job[p].tip, theirs, base),
                 Write(p, FullPlan(data), job[p].tip, <<job[p].tip, theirs>>)
          PROVE  TypeInv'
      <3>1. Contents(data)
        BY DEF MergedContents, Contents, Present
      <3>2. FullPlan(data) \in Plans
        BY <3>1, FullPlanSound
      <3>3. <<job[p].tip, theirs>> \in Seq(Nat)
        <4>1. job[p].tip \in Nat /\ theirs \in Nat
          BY <1>1, <2>1
        <4>2. \A m \in Nat, n \in Nat : <<m, n>> \in Seq(Nat)
          OBVIOUS
        <4>. QED
          BY ONLY <4>1, <4>2
      <3>4. \A i \in DOMAIN <<job[p].tip, theirs>> : <<job[p].tip, theirs>>[i] \in Documents
        BY <2>1
      <3>. QED
        BY <1>4, <2>1, <2>4, <3>2, <3>3, <3>4, WriteOK DEF MergeDecide
    <2>. QED
      BY <1>4, <2>2, <2>3, <2>4 DEF MergeDecide
  <1>. QED
    BY <1>2, <1>3, <1>4 DEF Merge

\* Writing a commit whose parents are in the store.
LEMMA AppendCommit ==
    ASSUME TypeInv, NEW p \in Procs,
           NEW commit \in [parents : Seq(Nat), full : BOOLEAN, tree : Trees],
           \A i \in DOMAIN commit.parents : commit.parents[i] \in Documents,
           NEW br \in Branches, NEW tip \in {0} \cup Documents,
           NEW n, n = Len(commits) + 1, commits' = Append(commits, commit),
           Set(p, [Idle EXCEPT !.pc = "ref", !.br = br, !.tip = tip, !.new = n]),
           UNCHANGED <<head, refs, chunks, manifests, checkpoints>>
    PROVE  TypeInv'
  <1>. DEFINE Record == [parents : Seq(Nat), full : BOOLEAN, tree : Trees]
              j == [Idle EXCEPT !.pc = "ref", !.br = br, !.tip = tip, !.new = n]
  <1>1. /\ job \in [Procs -> JobType] /\ Idle \in JobType /\ JobNames(Idle)
        /\ commits \in Seq(Record)
    BY IdleOK DEF TypeInv, TypeOK
  <1>2. /\ commits' \in Seq(Record) /\ Len(commits') = n
        /\ \A c \in 1..Len(commits) : commits'[c] = commits[c]
        /\ commits'[n] = commit
    <2>. HIDE DEF Record
    <2>1. commit \in Record
      BY DEF Record
    <2>. QED
      BY <1>1, <2>1, AppendProperties
  <1>3. /\ Documents = 1..Len(commits) /\ Documents' = 1..n
        /\ Len(commits) \in Nat
    BY <1>1, <1>2, LenProperties DEF Documents
  <1>4. n \in Nat /\ Documents' = Documents \cup {n} /\ Documents \subseteq Nat /\ n - 1 = Len(commits)
    BY <1>3
  <1>5. \A c \in Documents : Parents(c)' = Parents(c)
    BY <1>2, <1>3 DEF Parents
  <1>6. Parents(n)' = {commit.parents[i] : i \in DOMAIN commit.parents}
    BY <1>2 DEF Parents
  <1>7. Parents(n)' \subseteq 1..(n - 1)
    BY <1>3, <1>4, <1>6
  <1>8. \A c \in Documents' : Parents(c)' \subseteq 1..(c - 1)
    <2>. DEFINE Older(c) == Parents(c)' \subseteq 1..(c - 1)
    <2>1. \A c \in Documents : Older(c)
      BY <1>5 DEF TypeInv, RefsNameObjects
    <2>2. Older(n)
      BY <1>7
    <2>3. \A c \in Documents' : Older(c)
      <3>. HIDE DEF Older
      <3>. QED
        BY <1>4, <2>1, <2>2
    <2>. QED
      BY <2>3
  <1>9. RefsNameObjects'
    BY <1>4, <1>8 DEF TypeInv, RefsNameObjects
  <1>10. j \in JobType
    <2>1. tip \in Nat /\ "ref" \in Steps /\ br \in HeadBranches
      BY <1>4 DEF Steps, HeadBranches
    <2>. QED
      BY <1>1, <1>4, <2>1 DEF JobType
  <1>11. JobNames(j)'
    BY <1>4 DEF JobNames, Idle
  <1>12. \A k : JobNames(k) => JobNames(k)'
    BY <1>4 DEF JobNames
  <1>13. job' \in [Procs -> JobType] /\ \A q \in Procs : job'[q] \in {job[q], j}
    <2>. HIDE DEF j
    <2>1. job' = [job EXCEPT ![p] = j]
      BY DEF Set, j
    <2>. QED
      BY <1>1, <1>10, <2>1
  <1>14. JobsName'
    <2>. SUFFICES ASSUME NEW q \in Procs
                  PROVE  JobNames(job[q])'
      BY DEF JobsName
    <2>1. CASE job'[q] = j
      BY <1>11, <2>1 DEF JobNames
    <2>2. CASE job'[q] = job[q]
      BY <1>4, <2>2 DEF TypeInv, JobsName, JobNames
    <2>. QED
      BY <1>13, <2>1, <2>2
  <1>15. TypeOK'
    BY <1>2, <1>13 DEF TypeInv, TypeOK
  <1>. QED
    BY <1>9, <1>14, <1>15 DEF TypeInv

\* Writing config.json, before which there is nothing to name.
LEMMA ConfigType ==
    ASSUME TypeInv, NEW p \in Procs, PutConfig(p)
    PROVE  TypeInv'
  <1>. DEFINE config == [parents |-> <<>>, full |-> FALSE, tree |-> NoTree]
  <1>1. commits = <<>> /\ commits' = <<config>> /\ UNCHANGED <<head, refs, job>>
    BY DEF PutConfig, ConfigStored
  <1>2. config \in [parents : Seq(Nat), full : BOOLEAN, tree : Trees]
    BY DEF NoTree, Trees, Chains
  <1>3. Documents = {} /\ Documents' = {1}
    BY <1>1 DEF Documents
  <1>4. TypeOK'
    BY <1>1, <1>2 DEF PutConfig, TypeInv, TypeOK
  <1>5. Parents(1)' = {}
    BY <1>1 DEF Parents
  <1>6. RefsNameObjects'
    BY <1>1, <1>3, <1>5 DEF TypeInv, RefsNameObjects
  <1>7. \A k : JobNames(k) => JobNames(k)'
    BY <1>3 DEF JobNames
  <1>8. JobsName'
    <2>. SUFFICES ASSUME NEW q \in Procs PROVE JobNames(job[q])'
      BY DEF JobsName
    <2>. QED
      BY <1>1, <1>3 DEF TypeInv, JobsName, JobNames
  <1>. QED
    BY <1>4, <1>6, <1>8 DEF TypeInv

LEMMA PutType ==
    ASSUME TypeInv, NEW p \in Procs, Put(p)
    PROVE  TypeInv'
  <1>. USE DEF At
  <1>1. /\ job[p] \in JobType /\ JobNames(job[p]) /\ Documents \subseteq Nat
        /\ Idle \in JobType /\ JobNames(Idle)
        /\ job \in [Procs -> JobType]
    BY IdleOK, LenProperties DEF TypeInv, TypeOK, JobsName, Documents
  <1>2. ASSUME UNCHANGED <<head, refs, commits, job>>,
               chunks' \subseteq Chains, manifests' \subseteq Tensors \X Chains,
               checkpoints' \subseteq Trees
        PROVE  TypeInv'
    BY <1>2 DEF TypeInv, TypeOK, RefsNameObjects, JobsName, JobNames, Documents, Parents
  <1>3. CASE PutChunk(p)
    BY <1>1, <1>2, <1>3 DEF PutChunk, JobType, TypeInv, TypeOK
  <1>4. CASE PutConfig(p)
    BY <1>4, ConfigType
  <1>5. CASE PutManifest(p)
    <2>1. \A t \in Unstored(p) : <<t, job[p].tree[t]>> \in Tensors \X Chains
      BY <1>1 DEF Unstored, JobType, Trees
    <2>. QED
      BY <1>2, <1>5, <2>1 DEF PutManifest, TypeInv, TypeOK
  <1>6. CASE PutCheckpoint(p)
    BY <1>1, <1>2, <1>6 DEF PutCheckpoint, JobType, TypeInv, TypeOK
  <1>7. CASE WriteCommit(p)
    <2>. DEFINE commit == [parents |-> job[p].parents, full |-> job[p].full,
                           tree |-> job[p].tree]
                j(c) == [Idle EXCEPT !.pc = "ref", !.br = job[p].br, !.tip = job[p].tip,
                                     !.new = c]
    <2>1. /\ commit \in [parents : Seq(Nat), full : BOOLEAN, tree : Trees]
          /\ \A i \in DOMAIN commit.parents : commit.parents[i] \in Documents
      BY <1>1 DEF JobType, JobNames
    <2>2. job[p].br \in Branches /\ job[p].tip \in {0} \cup Documents
      BY <1>1, <1>7 DEF WriteCommit, JobNames
    <2>3. \A c \in Nat : j(c) \in JobType
      BY <1>1 DEF JobType, Steps
    <2>4. CASE commits' = Append(commits, commit) /\ Set(p, j(Len(commits) + 1))
      <3>. HIDE DEF commit
      <3>. QED
        BY <1>7, <2>1, <2>2, <2>4, AppendCommit DEF WriteCommit
    <2>5. ASSUME NEW c \in Commits, Set(p, j(c)), commits' = commits
          PROVE  TypeInv'
      <3>1. j(c) \in JobType /\ JobNames(j(c))
        BY <1>1, <2>2, <2>3 DEF JobNames, Idle, Commits
      <3>. QED
        BY <1>7, <2>5, <3>1, OnlyJob DEF WriteCommit, objects
    <2>. QED
      BY <1>7, <2>4, <2>5 DEF WriteCommit
  <1>. QED
    BY <1>3, <1>5, <1>6, <1>7, <1>4 DEF Put

LEMMA UpdateRefType ==
    ASSUME TypeInv, NEW p \in Procs, UpdateRef(p)
    PROVE  TypeInv'
  <1>1. /\ JobNames(job[p]) /\ Idle \in JobType /\ JobNames(Idle)
        /\ head \in [branch : HeadBranches, commit : Nat]
        /\ head.branch = NoBranch => head.commit \in Documents
    BY IdleOK DEF TypeInv, TypeOK, JobsName, RefsNameObjects
  <1>2. job[p].br \in Branches /\ job[p].new \in {0} \cup Documents
    BY <1>1 DEF UpdateRef, At, JobNames
  <1>. QED
    BY <1>1, <1>2, JobAndRefs DEF UpdateRef, Done

LEMMA BranchType ==
    ASSUME TypeInv, NEW p \in Procs, Branch(p)
    PROVE  TypeInv'
  <1>. USE DEF At, Begin
  <1>1. /\ job[p] \in JobType /\ JobNames(job[p]) /\ Documents \subseteq Nat
        /\ Idle \in JobType /\ JobNames(Idle)
        /\ head \in [branch : HeadBranches, commit : Nat]
        /\ head.branch = NoBranch => head.commit \in Documents
    BY IdleOK, LenProperties DEF TypeInv, TypeOK, JobsName, RefsNameObjects, Documents
  <1>2. ASSUME NEW b \in Branches, NEW pc \in {"create", "delete"},
               Set(p, [Idle EXCEPT !.pc = pc, !.br = b]), UNCHANGED <<head, refs, objects>>
        PROVE  TypeInv'
    <2>1. [Idle EXCEPT !.pc = pc, !.br = b] \in JobType
      BY <1>1 DEF JobType, Steps, HeadBranches
    <2>2. JobNames([Idle EXCEPT !.pc = pc, !.br = b])
      BY DEF JobNames, Idle
    <2>. QED
      BY <1>2, <2>1, <2>2, OnlyJob
  <1>3. CASE CreateStart(p) \/ DeleteStart(p)
    BY <1>2, <1>3 DEF CreateStart, DeleteStart
  <1>4. CASE CreateResolve(p)
    <2>1. CASE Done(p)
      BY <1>1, <1>4, <2>1, OnlyJob DEF CreateResolve, Done
    <2>2. ASSUME NEW c \in Documents, Set(p, [job[p] EXCEPT !.pc = "ref", !.new = c])
          PROVE  TypeInv'
      <3>1. [job[p] EXCEPT !.pc = "ref", !.new = c] \in JobType
        BY <1>1 DEF JobType, Steps
      <3>2. JobNames([job[p] EXCEPT !.pc = "ref", !.new = c])
        BY <1>1, <1>4 DEF CreateResolve, JobNames, JobType
      <3>. QED
        BY <1>4, <2>2, <3>1, <3>2, OnlyJob DEF CreateResolve
    <2>. QED
      BY <1>4, <2>1, <2>2 DEF CreateResolve
  <1>5. CASE DeleteRef(p)
    <2>1. job[p].br \in Branches
      BY <1>1, <1>5 DEF DeleteRef, JobNames
    <2>. QED
      BY <1>1, <1>5, <2>1, JobAndRefs DEF DeleteRef, Done
  <1>. QED
    BY <1>3, <1>4, <1>5 DEF Branch

LEMMA RenameType ==
    ASSUME TypeInv, NEW p \in Procs, Rename(p)
    PROVE  TypeInv'
  <1>. USE DEF At, Begin
  <1>1. /\ job[p] \in JobType /\ JobNames(job[p]) /\ Documents \subseteq Nat
        /\ Idle \in JobType /\ JobNames(Idle)
        /\ \A b \in Branches : refs[b] \in {0} \cup Documents
        /\ head \in [branch : HeadBranches, commit : Nat]
        /\ head.branch = NoBranch => head.commit \in Documents
    BY IdleOK, LenProperties DEF TypeInv, TypeOK, JobsName, RefsNameObjects, Documents
  <1>2. CASE RenameStart(p)
    <2>1. PICK old \in Branches, new \in Branches, pc \in {"renameRead", "renameNew"} :
              Set(p, [Idle EXCEPT !.pc = pc, !.br = old, !.to = new])
      BY <1>2 DEF RenameStart
    <2>. DEFINE j == [Idle EXCEPT !.pc = pc, !.br = old, !.to = new]
    <2>2. j \in JobType
      BY <1>1 DEF JobType, Steps, HeadBranches
    <2>3. JobNames(j)
      BY DEF JobNames, Idle
    <2>. QED
      BY <1>2, <2>1, <2>2, <2>3, OnlyJob DEF RenameStart
  <1>3. CASE RenameNew(p)
    <2>. DEFINE j == [job[p] EXCEPT !.pc = "renameRead"]
    <2>1. j \in JobType
      BY <1>1 DEF JobType, Steps
    <2>2. JobNames(j)
      BY <1>1, <1>3 DEF RenameNew, JobNames, JobType
    <2>3. PICK k \in JobType : JobNames(k) /\ Set(p, k)
      BY <1>1, <1>3, <2>1, <2>2 DEF RenameNew, Done, Goto
    <2>. QED
      BY <1>3, <2>3, OnlyJob DEF RenameNew
  <1>4. CASE RenameRead(p)
    <2>. DEFINE j == [job[p] EXCEPT !.pc = "rename", !.new = Tip(p)]
    <2>1. CASE Tip(p) = 0
      BY <1>1, <1>4, <2>1, OnlyJob DEF RenameRead, Done
    <2>2. CASE Tip(p) # 0
      <3>1. job[p].br \in Branches /\ job[p].to \in Branches
        BY <1>1, <1>4 DEF RenameRead, JobNames
      <3>2. Tip(p) \in Documents
        BY <1>1, <2>2, <3>1 DEF Tip
      <3>3. j \in JobType
        BY <1>1, <3>2 DEF JobType, Steps
      <3>4. JobNames(j)
        BY <1>1, <3>1, <3>2 DEF JobNames, JobType
      <3>. QED
        BY <1>4, <2>2, <3>3, <3>4, OnlyJob DEF RenameRead
    <2>. QED
      BY <2>1, <2>2
  <1>5. ASSUME NEW pc \in {"unlink", "rereadHead", "reattach"},
               job[p].pc \in {"rename", "unlink", "rereadHead"}
        PROVE  /\ [job[p] EXCEPT !.pc = pc] \in JobType
               /\ JobNames([job[p] EXCEPT !.pc = pc])
    <2>1. [job[p] EXCEPT !.pc = pc] \in JobType
      BY <1>1 DEF JobType, Steps
    <2>2. JobNames([job[p] EXCEPT !.pc = pc])
      BY <1>1, <1>5 DEF JobNames, JobType
    <2>. QED
      BY <2>1, <2>2
  <1>6. CASE RenameRef(p)
    <2>1. /\ job[p].to \in Branches /\ job[p].new \in {0} \cup Documents
      BY <1>1, <1>6 DEF RenameRef, JobNames
    <2>2. Set(p, Idle) \/ Set(p, [job[p] EXCEPT !.pc = "unlink"])
      BY <1>6 DEF RenameRef, Done, Goto
    <2>3. PICK j \in JobType : JobNames(j) /\ Set(p, j)
      BY <1>1, <1>5, <1>6, <2>2 DEF RenameRef
    <2>. QED
      BY <1>1, <1>6, <2>1, <2>3, JobAndRefs DEF RenameRef
  <1>7. CASE RenameUnlink(p)
    <2>1. job[p].br \in Branches
      BY <1>1, <1>7 DEF RenameUnlink, JobNames
    <2>2. Set(p, Idle) \/ Set(p, [job[p] EXCEPT !.pc = "rereadHead"])
      BY <1>7 DEF RenameUnlink, Done, Goto
    <2>3. PICK j \in JobType : JobNames(j) /\ Set(p, j)
      BY <1>1, <1>5, <1>7, <2>2 DEF RenameUnlink
    <2>. QED
      BY <1>1, <1>7, <2>1, <2>3, JobAndRefs DEF RenameUnlink
  <1>8. CASE RenameReadHead(p)
    <2>1. Set(p, Idle) \/ Set(p, [job[p] EXCEPT !.pc = "reattach"])
      BY <1>8 DEF RenameReadHead, Done, Goto
    <2>2. PICK j \in JobType : JobNames(j) /\ Set(p, j)
      BY <1>1, <1>5, <1>8, <2>1 DEF RenameReadHead
    <2>. QED
      BY <1>8, <2>2, OnlyJob DEF RenameReadHead
  <1>9. CASE RenameHead(p)
    <2>1. job[p].to \in Branches
      BY <1>1, <1>9 DEF RenameHead, JobNames
    <2>2. /\ head' \in [branch : HeadBranches, commit : Nat]
          /\ head'.branch # NoBranch
      BY <1>9, <2>1, BranchAssumption DEF RenameHead, HeadBranches
    <2>. QED
      BY <1>1, <1>9, <2>1, <2>2, JobAndRefs DEF RenameHead, Done
  <1>. QED
    BY <1>2, <1>6, <1>7, <1>8, <1>9, <1>3, <1>4 DEF Rename

LEMMA CheckoutType ==
    ASSUME TypeInv, NEW p \in Procs, Checkout(p)
    PROVE  TypeInv'
  <1>. USE DEF At, Begin
  <1>1. /\ job[p] \in JobType /\ JobNames(job[p]) /\ Documents \subseteq Nat
        /\ Idle \in JobType /\ JobNames(Idle)
    BY IdleOK, LenProperties DEF TypeInv, TypeOK, JobsName, Documents
  <1>2. CASE CheckoutStart(p)
    <2>1. ASSUME NEW b \in Branches, Set(p, [Idle EXCEPT !.pc = "checkout", !.br = b])
          PROVE  TypeInv'
      <3>1. [Idle EXCEPT !.pc = "checkout", !.br = b] \in JobType
        BY <1>1 DEF JobType, Steps, HeadBranches
      <3>2. JobNames([Idle EXCEPT !.pc = "checkout", !.br = b])
        BY BranchAssumption DEF JobNames, Idle
      <3>. QED
        BY <1>2, <2>1, <3>1, <3>2, OnlyJob DEF CheckoutStart
    <2>2. ASSUME NEW c \in Documents, Set(p, [Idle EXCEPT !.pc = "checkout", !.new = c])
          PROVE  TypeInv'
      <3>1. [Idle EXCEPT !.pc = "checkout", !.new = c] \in JobType
        BY <1>1 DEF JobType, Steps
      <3>2. JobNames([Idle EXCEPT !.pc = "checkout", !.new = c])
        BY DEF JobNames, Idle
      <3>. QED
        BY <1>2, <2>2, <3>1, <3>2, OnlyJob DEF CheckoutStart
    <2>. QED
      BY <1>2, <2>1, <2>2 DEF CheckoutStart
  <1>3. CASE CheckoutHead(p)
    <2>1. /\ head' \in [branch : HeadBranches, commit : Nat]
          /\ head'.branch = NoBranch => head'.commit \in Documents
      BY <1>1, <1>3 DEF CheckoutHead, JobNames, JobType
    <2>2. Main \in Branches /\ 0 \in {0} \cup Documents
      BY BranchAssumption
    <2>. QED
      BY <1>1, <1>3, <2>1, <2>2, JobAndRefs DEF CheckoutHead, Done
  <1>. QED
    BY <1>2, <1>3 DEF Checkout

-----------------------------------------------------------------------------
\* TypeInv is inductive.
LEMMA TypeInit == Init => TypeInv
  <1>. SUFFICES ASSUME Init PROVE TypeInv
    OBVIOUS
  <1>1. commits = <<>> /\ Documents = {}
    BY DEF Init, Documents
  <1>2. TypeOK
    BY <1>1, IdleOK, BranchAssumption DEF Init, TypeOK, HeadBranches
  <1>3. RefsNameObjects
    BY <1>1, BranchAssumption DEF Init, RefsNameObjects
  <1>4. JobsName
    BY IdleOK DEF Init, JobsName
  <1>. QED
    BY <1>2, <1>3, <1>4 DEF TypeInv

LEMMA TypeStep == TypeInv /\ [Next]_vars => TypeInv'
  <1>. SUFFICES ASSUME TypeInv, [Next]_vars PROVE TypeInv'
    OBVIOUS
  <1>1. CASE UNCHANGED vars
    BY <1>1 DEF vars, objects, TypeInv, TypeOK, RefsNameObjects, JobsName, JobNames,
                Documents, Parents
  <1>2. ASSUME NEW p \in Procs, Stop(p)
        PROVE  TypeInv'
    BY <1>2, IdleOK, OnlyJob DEF Stop, Done
  <1>. QED
    BY <1>1, <1>2, CommitType, MergeType, PutType, UpdateRefType, BranchType, RenameType,
       CheckoutType DEF Next

\* Every variable of every reachable state has its type.
THEOREM Types == Spec => []TypeOK
  <1>1. TypeInv => TypeOK
    BY DEF TypeInv
  <1>. QED
    BY <1>1, TypeInit, TypeStep, PTL DEF Spec

\* Refs, a detached HEAD and parent pointers name objects that are in the
\* store: update_ref (repo.py:251-270) and set_head_detached are never given
\* what is yet to be written, whichever commands run at the same time and
\* wherever they die.  That the object is a commit is not checked.
THEOREM Named == Spec => []RefsNameObjects
  <1>1. TypeInv => RefsNameObjects
    BY DEF TypeInv
  <1>. QED
    BY <1>1, TypeInit, TypeStep, PTL DEF Spec

-----------------------------------------------------------------------------
(* What the store holds while commits are being written.                   *)

\* The adaptive policy's second pass drops the chunk of a promoted tensor
\* that repeats an earlier tensor's content: it may be used only on files in
\* which no two tensors are equal.
NoTies == "adaptive" \in Policies =>
    \A data \in Inputs : \A s, t \in DOMAIN data : data[s] = data[t] => s = t

JobsSound == \A p \in Procs : At(p, "write") => Sound(job[p], manifests)

ClosedInv == StoreClosed /\ JobsSound

\* What the adaptive policy makes of a sound residual plan is sound.
LEMMA AdaptivePlanSound ==
    ASSUME NEW data, Contents(data), NEW base \in Trees,
           \A s, t \in DOMAIN data : data[s] = data[t] => s = t,
           NEW stored, \A t \in Present(base) : <<t, base[t]>> \in stored,
           NEW plan \in AdaptivePlans(data, base)
    PROVE  Sound(plan, stored)
  <1>1. PICK first \in ResidualPlans(data, base) : plan \in Promotions(data, first)
    BY DEF AdaptivePlans
  <1>2. first \in Plans /\ Sound(first, stored)
    BY <1>1, ResidualPlanSound
  <1>3. FullPlan(data) \in Plans /\ Sound(FullPlan(data), stored)
    BY FullPlanSound
  <1>4. first.fresh \subseteq DOMAIN data
    BY <1>1, FreshOfData
  <1>5. CASE plan = WholePlan(data, first)
    <2>1. /\ plan.tree = FullPlan(data).tree /\ plan.fresh = FullPlan(data).fresh
          /\ FullPlan(data).emit \subseteq plan.emit
      BY <1>3, <1>5 DEF WholePlan, Plans
    <2>. QED
      BY <1>3, <2>1 DEF Sound
  <1>6. ASSUME NEW promote \in SUBSET first.fresh, plan = MixedPlan(data, first, promote)
        PROVE  Sound(plan, stored)
    <2>1. /\ plan.tree = [t \in Tensors |->
                            IF t \in promote THEN <<data[t]>> ELSE first.tree[t]]
          /\ plan.fresh = first.fresh
          /\ plan.emit = first.emit \cup Promoted(data, promote)
          /\ first.fresh \subseteq Tensors
      BY <1>2, <1>6 DEF MixedPlan, Plans
    <2>2. \A t \in promote : /\ plan.tree[t] = <<data[t]>> /\ plan.tree[t] # <<>>
                             /\ ~(Len(plan.tree[t]) > 1)
                             /\ Chunk(plan.tree[t]) = <<data[t]>>
      <3>. SUFFICES ASSUME NEW t \in promote
                    PROVE  /\ plan.tree[t] = <<data[t]>> /\ plan.tree[t] # <<>>
                           /\ ~(Len(plan.tree[t]) > 1)
                           /\ Chunk(plan.tree[t]) = <<data[t]>>
        OBVIOUS
      <3>1. plan.tree[t] = <<data[t]>> /\ data[t] \in Values
        BY <1>4, <2>1 DEF Contents
      <3>. QED
        BY <3>1, ShortChain
    <2>3. \A t \in promote : <<data[t]>> \in Promoted(data, promote)
      <3>. SUFFICES ASSUME NEW t \in promote
                    PROVE  <<data[t]>> \in Promoted(data, promote)
        OBVIOUS
      <3>1. ASSUME NEW j \in DOMAIN Names, NEW k \in DOMAIN Names, j < k, Names[k] = t,
                   Names[j] \in DOMAIN data
            PROVE  data[Names[j]] # data[t]
        <4>1. Names[j] # t
          <5>1. DOMAIN Names = 1..Len(Names) /\ Len(Names) \in Nat
            BY NamesAssumption, LenProperties
          <5>2. j # k
            BY <3>1, <5>1
          <5>. QED
            BY <3>1, <5>2, NamesAssumption
        <4>. QED
          BY <1>4, <3>1, <4>1
      <3>. QED
        BY <3>1 DEF Promoted, Earlier
    <2>4. \A t \in Tensors \ promote : plan.tree[t] = first.tree[t]
      BY <2>1
    <2>5. \A t \in plan.fresh : plan.tree[t] # <<>> /\ Chunk(plan.tree[t]) \in plan.emit
      <3>. SUFFICES ASSUME NEW t \in plan.fresh
                    PROVE  plan.tree[t] # <<>> /\ Chunk(plan.tree[t]) \in plan.emit
        OBVIOUS
      <3>1. CASE t \in promote
        BY <2>1, <2>2, <2>3, <3>1
      <3>2. CASE t \notin promote
        <4>1. plan.tree[t] = first.tree[t]
          BY <2>1, <2>4, <3>2
        <4>2. first.tree[t] # <<>> /\ Chunk(first.tree[t]) \in first.emit
          BY <1>2, <2>1 DEF Sound
        <4>. QED
          BY <2>1, <4>1, <4>2
      <3>. QED
        BY <3>1, <3>2
    <2>6. \A t \in Present(plan.tree) \ plan.fresh : <<t, plan.tree[t]>> \in stored
      BY <1>2, <2>1, <2>4 DEF Sound, Present
    <2>7. \A t \in plan.fresh : Len(plan.tree[t]) > 1 => <<t, Tail(plan.tree[t])>> \in stored
      BY <1>2, <2>1, <2>2, <2>4 DEF Sound
    <2>. QED
      BY <2>5, <2>6, <2>7 DEF Sound
  <1>. QED
    BY <1>1, <1>5, <1>6, PromotionCases

\* A step that writes no object and leaves its job short of writing one.
LEMMA NoWrite ==
    ASSUME TypeInv, ClosedInv, NEW p \in Procs, NEW j, j.pc # "write", Set(p, j),
           UNCHANGED objects
    PROVE  ClosedInv'
  BY DEF TypeInv, TypeOK, ClosedInv, StoreClosed, ManifestReadable, JobsSound, Sound, At, Set,
         objects, Commits, Documents

\* A step that makes a sound plan.
LEMMA SoundWrite ==
    ASSUME TypeInv, ClosedInv, NEW p \in Procs, NEW plan \in Plans, Sound(plan, manifests),
           NEW tip, NEW parents, Write(p, plan, tip, parents), UNCHANGED objects
    PROVE  ClosedInv'
  <1>1. StoreClosed'
    BY DEF ClosedInv, StoreClosed, ManifestReadable, objects, Commits, Documents
  <1>. DEFINE j == [Idle EXCEPT !.pc = "write", !.br = job[p].br, !.tip = tip,
                        !.parents = parents, !.tree = plan.tree, !.full = plan.full,
                        !.emit = plan.emit, !.fresh = plan.fresh]
  <1>2. j.tree = plan.tree /\ j.emit = plan.emit /\ j.fresh = plan.fresh
    BY DEF Idle
  <1>3. Sound(j, manifests)
    <2>. HIDE DEF j
    <2>. QED
      BY <1>2 DEF Sound
  <1>4. job' = [job EXCEPT ![p] = j] /\ manifests' = manifests /\ job \in [Procs -> JobType]
    BY DEF Write, Set, objects, TypeInv, TypeOK
  <1>5. JobsSound'
    <2>. HIDE DEF j
    <2>. QED
      BY <1>3, <1>4 DEF ClosedInv, JobsSound, Sound, At
  <1>. QED
    BY <1>1, <1>5 DEF ClosedInv

LEMMA CommitClosed ==
    ASSUME TypeInv, ClosedInv, NoTies, NEW p \in Procs, Commit(p)
    PROVE  ClosedInv'
  <1>1. job[p] \in JobType /\ JobNames(job[p])
    BY DEF TypeInv, TypeOK, JobsName
  <1>2. \A data \in Inputs : Contents(data)
    BY InputsAssumption DEF Contents
  <1>3. CASE CommitStart(p)
    <2>1. PICK j : j.pc # "write" /\ Set(p, j)
      BY <1>3 DEF CommitStart, Idle
    <2>. QED
      BY <1>3, <2>1, NoWrite DEF CommitStart
  <1>4. CASE CommitBase(p)
    <2>1. PICK j : j.pc # "write" /\ Set(p, j)
      BY <1>1, <1>4 DEF CommitBase, JobType
    <2>. QED
      BY <1>4, <2>1, NoWrite DEF CommitBase
  <1>5. CASE CommitReadHead(p)
    <2>1. PICK j : j.pc # "write" /\ Set(p, j)
      BY <1>1, <1>5 DEF CommitReadHead, Done, Idle, JobType
    <2>. QED
      BY <1>5, <2>1, NoWrite DEF CommitReadHead
  <1>6. CASE CommitFull(p)
    BY <1>2, <1>6, FullPlanSound, SoundWrite DEF CommitFull, CommitPlan
  <1>7. CASE CommitResidual(p)
    <2>1. PICK policy \in Policies, data \in Inputs :
              /\ DiffBase(p, policy) \in Commits
              /\ \E plan \in IF policy = "flat"
                            THEN ResidualPlans(data, commits[DiffBase(p, policy)].tree)
                            ELSE AdaptivePlans(data, commits[DiffBase(p, policy)].tree) :
                    CommitPlan(p, plan)
      BY <1>7 DEF CommitResidual
    <2>. DEFINE base == commits[DiffBase(p, policy)].tree
    <2>2. base \in Trees /\ \A t \in Present(base) : <<t, base[t]>> \in manifests
      BY <2>1, CommitRecord DEF ClosedInv, StoreClosed, Commits
    <2>3. ASSUME NEW plan \in Plans, Sound(plan, manifests), CommitPlan(p, plan)
          PROVE  ClosedInv'
      BY <1>7, <2>3, SoundWrite DEF CommitResidual, CommitPlan
    <2>. HIDE DEF base
    <2>4. CASE policy = "flat"
      <3>1. PICK plan \in ResidualPlans(data, base) : CommitPlan(p, plan)
        BY <2>1, <2>4 DEF base
      <3>. QED
        BY <1>2, <2>2, <2>3, <3>1, ResidualPlanSound
    <2>5. CASE policy # "flat"
      <3>1. PICK plan \in AdaptivePlans(data, base) : CommitPlan(p, plan)
        BY <2>1, <2>5 DEF base
      <3>2. \A s, t \in DOMAIN data : data[s] = data[t] => s = t
        BY <2>5, PolicyAssumption DEF NoTies
      <3>. QED
        BY <1>2, <2>2, <2>3, <3>1, <3>2, AdaptivePlanType, AdaptivePlanSound
    <2>. QED
      BY <2>4, <2>5
  <1>8. CASE CommitFails(p)
    BY <1>8, NoWrite DEF CommitFails, Done, Idle
  <1>. QED
    BY <1>3, <1>4, <1>5, <1>6, <1>7, <1>8 DEF Commit

LEMMA MergeClosed ==
    ASSUME TypeInv, ClosedInv, NEW p \in Procs, Merge(p)
    PROVE  ClosedInv'
  <1>1. job[p] \in JobType
    BY DEF TypeInv, TypeOK
  <1>2. CASE MergeStart(p)
    <2>1. PICK j : j.pc # "write" /\ Set(p, j)
      BY <1>2 DEF MergeStart, Idle
    <2>. QED
      BY <1>2, <2>1, NoWrite DEF MergeStart
  <1>3. CASE MergeTip(p)
    <2>1. PICK j : j.pc # "write" /\ Set(p, j)
      BY <1>1, <1>3 DEF MergeTip, Done, Idle, JobType
    <2>. QED
      BY <1>3, <2>1, NoWrite DEF MergeTip
  <1>4. CASE MergeDecide(p)
    <2>1. ASSUME NEW j, j.pc # "write", Set(p, j)
          PROVE  ClosedInv'
      BY <1>4, <2>1, NoWrite DEF MergeDecide
    <2>2. ASSUME NEW theirs, NEW base, NEW data \in MergedContents(job[p].tip, theirs, base),
                 Write(p, FullPlan(data), job[p].tip, <<job[p].tip, theirs>>)
          PROVE  ClosedInv'
      <3>1. Contents(data)
        BY DEF MergedContents, Contents, Present
      <3>. QED
        BY <1>4, <2>2, <3>1, FullPlanSound, SoundWrite DEF MergeDecide
    <2>3. \A theirs : [job[p] EXCEPT !.pc = "ref", !.new = theirs].pc # "write"
      BY <1>1 DEF JobType
    <2>4. Idle.pc # "write"
      BY DEF Idle
    <2>. QED
      BY <1>4, <2>1, <2>2, <2>3, <2>4 DEF MergeDecide, Done
  <1>. QED
    BY <1>2, <1>3, <1>4 DEF Merge

LEMMA PutClosed ==
    ASSUME TypeInv, ClosedInv, NEW p \in Procs, Put(p)
    PROVE  ClosedInv'
  <1>. USE DEF At
  <1>1. /\ job[p] \in JobType /\ job \in [Procs -> JobType]
        /\ manifests \subseteq Tensors \X Chains
    BY DEF TypeInv, TypeOK
  <1>2. ASSUME UNCHANGED <<manifests, checkpoints, commits, job>>, chunks \subseteq chunks'
        PROVE  ClosedInv'
    BY <1>2 DEF ClosedInv, StoreClosed, ManifestReadable, JobsSound, Sound, Commits, Documents
  <1>3. CASE PutChunk(p)
    BY <1>2, <1>3 DEF PutChunk
  <1>4. CASE PutManifest(p)
    <2>1. PICK t \in Unstored(p) : manifests' = manifests \cup {<<t, job[p].tree[t]>>}
      BY <1>4 DEF PutManifest
    <2>2. Sound(job[p], manifests) /\ job[p].emit \subseteq chunks /\ t \in job[p].fresh
      BY <1>4, <2>1 DEF PutManifest, ChunksStored, Unstored, ClosedInv, JobsSound
    <2>3. ManifestReadable(t, job[p].tree[t])
      BY <2>2 DEF Sound, ManifestReadable
    <2>4. \A n, chain : ManifestReadable(n, chain) => ManifestReadable(n, chain)'
      BY <1>4, <2>1 DEF PutManifest, ManifestReadable
    <2>5. \A m \in manifests' : ManifestReadable(m[1], m[2])'
      <3>1. \A m \in manifests : ManifestReadable(m[1], m[2])'
        BY <2>4 DEF ClosedInv, StoreClosed
      <3>2. \A n, chain : n = t /\ chain = job[p].tree[t] => ManifestReadable(n, chain)'
        BY <2>3, <2>4
      <3>3. \A m \in manifests' : m \in manifests \/ (m[1] = t /\ m[2] = job[p].tree[t])
        BY <2>1
      <3>. QED
        BY ONLY <3>1, <3>2, <3>3
    <2>6. StoreClosed'
      BY <1>4, <2>1, <2>5 DEF PutManifest, ClosedInv, StoreClosed, Commits, Documents
    <2>7. JobsSound'
      BY <1>4, <2>1 DEF PutManifest, ClosedInv, JobsSound, Sound
    <2>. QED
      BY <2>6, <2>7 DEF ClosedInv
  <1>5. CASE PutCheckpoint(p)
    <2>1. Sound(job[p], manifests) /\ Unstored(p) = {}
      BY <1>5 DEF PutCheckpoint, ManifestsStored, ClosedInv, JobsSound
    <2>2. \A t \in Present(job[p].tree) : <<t, job[p].tree[t]>> \in manifests
      BY <2>1 DEF Sound, Unstored
    <2>3. StoreClosed'
      BY <1>5, <2>2 DEF PutCheckpoint, ClosedInv, StoreClosed, ManifestReadable, Commits,
                        Documents
    <2>4. JobsSound'
      BY <1>5 DEF PutCheckpoint, ClosedInv, JobsSound, Sound
    <2>. QED
      BY <2>3, <2>4 DEF ClosedInv
  <1>6. CASE WriteCommit(p)
    <2>. DEFINE commit == [parents |-> job[p].parents, full |-> job[p].full,
                           tree |-> job[p].tree]
    <2>1. UNCHANGED <<chunks, manifests, checkpoints>> /\ job[p].tree \in checkpoints
      BY <1>6 DEF WriteCommit
    <2>2. commits' \in {commits, Append(commits, commit)}
      BY <1>6 DEF WriteCommit
    <2>3. \A c \in Commits' : commits'[c].tree \in checkpoints
      <3>1. CASE commits' = commits
        BY <3>1 DEF ClosedInv, StoreClosed, Commits, Documents
      <3>2. CASE commits' = Append(commits, commit)
        <4>1. /\ commits \in Seq([parents : Seq(Nat), full : BOOLEAN, tree : Trees])
              /\ commit \in [parents : Seq(Nat), full : BOOLEAN, tree : Trees]
          BY <1>1 DEF TypeInv, TypeOK, JobType
        <4>2. commit.tree = job[p].tree
          OBVIOUS
        <4>3. /\ DOMAIN commits' = 1..Len(commits) + 1
              /\ \A c \in 1..Len(commits) : commits'[c] = commits[c]
              /\ commits'[Len(commits) + 1] = commit
              /\ DOMAIN commits = 1..Len(commits) /\ Len(commits) \in Nat
          <5>. HIDE DEF commit
          <5>. QED
            BY <3>2, <4>1, AppendProperties, LenProperties
        <4>4. Commits' \subseteq Commits \cup {Len(commits) + 1} /\ Commits \subseteq 1..Len(commits)
          BY <4>3 DEF Commits, Documents
        <4>. HIDE DEF commit
        <4>. QED
          BY <2>1, <4>2, <4>3, <4>4 DEF ClosedInv, StoreClosed
      <3>. QED
        BY <2>2, <3>1, <3>2
    <2>4. StoreClosed'
      BY <2>1, <2>3 DEF ClosedInv, StoreClosed, ManifestReadable
    <2>5. \E j : j.pc # "write" /\ Set(p, j)
      BY <1>6 DEF WriteCommit, Idle
    <2>6. JobsSound'
      BY <1>1, <2>1, <2>5 DEF Set, ClosedInv, JobsSound, Sound
    <2>. QED
      BY <2>4, <2>6 DEF ClosedInv
  <1>7. CASE PutConfig(p)
    <2>1. commits = <<>> /\ Commits' = {} /\ UNCHANGED <<chunks, manifests, checkpoints, job>>
      BY <1>7 DEF PutConfig, ConfigStored, Commits, Documents
    <2>. QED
      BY <2>1 DEF ClosedInv, StoreClosed, ManifestReadable, JobsSound, Sound
  <1>. QED
    BY <1>3, <1>4, <1>5, <1>6, <1>7 DEF Put

LEMMA OtherClosed ==
    ASSUME TypeInv, ClosedInv, NEW p \in Procs,
           UpdateRef(p) \/ Branch(p) \/ Rename(p) \/ Checkout(p) \/ Stop(p)
    PROVE  ClosedInv'
  <1>1. job[p] \in JobType
    BY DEF TypeInv, TypeOK
  <1>2. Idle.pc # "write"
    BY DEF Idle
  <1>3. CASE UpdateRef(p) \/ DeleteRef(p) \/ RenameHead(p) \/ CheckoutHead(p) \/ Stop(p)
    BY <1>2, <1>3, NoWrite DEF UpdateRef, DeleteRef, RenameHead, CheckoutHead, Stop, Done
  <1>4. ASSUME NEW j, j.pc # "write", Set(p, j), UNCHANGED objects
        PROVE  ClosedInv'
    BY <1>4, NoWrite
  <1>5. CASE CreateStart(p) \/ DeleteStart(p) \/ RenameStart(p) \/ CheckoutStart(p)
    <2>1. PICK j : j.pc # "write" /\ Set(p, j)
      BY <1>5 DEF CreateStart, DeleteStart, RenameStart, CheckoutStart, Idle
    <2>. QED
      BY <1>4, <1>5, <2>1 DEF CreateStart, DeleteStart, RenameStart, CheckoutStart
  <1>6. CASE \/ CreateResolve(p) \/ RenameNew(p) \/ RenameRead(p) \/ RenameRef(p)
             \/ RenameUnlink(p) \/ RenameReadHead(p)
    <2>1. PICK j : j.pc # "write" /\ Set(p, j)
      BY <1>1, <1>6 DEF CreateResolve, RenameNew, RenameRead, RenameRef, RenameUnlink,
                        RenameReadHead, Done, Goto, Idle, JobType
    <2>. QED
      BY <1>4, <1>6, <2>1 DEF CreateResolve, RenameNew, RenameRead, RenameRef, RenameUnlink,
                              RenameReadHead
  <1>. QED
    BY <1>3, <1>5, <1>6 DEF Branch, Rename, Checkout

\* ClosedInv is inductive, given TypeInv.
LEMMA ClosedInit == Init => ClosedInv
  <1>. SUFFICES ASSUME Init PROVE ClosedInv
    OBVIOUS
  <1>1. Commits = {} /\ \A p \in Procs : job[p].pc # "write"
    BY DEF Init, Commits, Documents, Idle
  <1>. QED
    BY <1>1 DEF Init, ClosedInv, StoreClosed, JobsSound, At

LEMMA ClosedStep == NoTies /\ TypeInv /\ ClosedInv /\ [Next]_vars => ClosedInv'
  <1>. SUFFICES ASSUME NoTies, TypeInv, ClosedInv, [Next]_vars PROVE ClosedInv'
    OBVIOUS
  <1>1. CASE UNCHANGED vars
    BY <1>1 DEF vars, objects, ClosedInv, StoreClosed, ManifestReadable, JobsSound, Sound, At,
                Commits, Documents
  <1>. QED
    BY <1>1, CommitClosed, MergeClosed, PutClosed, OtherClosed DEF Next

\* Every object in the store can be read back, in every reachable state,
\* however commits and merges interleave and wherever they die: what the
\* write order of commit.py:207-217 is for.  Under the adaptive policy it
\* needs files in which no two tensors are equal.
THEOREM Closed ==
    ASSUME NoTies
    PROVE  Spec => []StoreClosed
  <1>1. TypeInv /\ ClosedInv /\ [Next]_vars => ClosedInv'
    BY ClosedStep
  <1>2. ClosedInv => StoreClosed
    BY DEF ClosedInv
  <1>. QED
    BY <1>1, <1>2, TypeInit, TypeStep, ClosedInit, PTL DEF Spec
-----------------------------------------------------------------------------
(* The repository is a content store.                                      *)

\* The steps other than those of Put write no object.
LEMMA ObjectsKept ==
    ASSUME NEW p \in Procs,
           Commit(p) \/ Merge(p) \/ UpdateRef(p) \/ Branch(p) \/ Rename(p) \/ Checkout(p) \/ Stop(p)
    PROVE  UNCHANGED objects
  <1>1. CASE Commit(p)
    <2>1. CASE CommitStart(p) \/ CommitBase(p) \/ CommitReadHead(p)
      BY <2>1 DEF CommitStart, CommitBase, CommitReadHead
    <2>2. CASE CommitFull(p)
      BY <2>2 DEF CommitFull
    <2>3. CASE CommitResidual(p)
      BY <2>3, Zenon DEF CommitResidual
    <2>4. CASE CommitFails(p)
      BY <2>4 DEF CommitFails
    <2>. QED
      BY <1>1, <2>1, <2>2, <2>3, <2>4 DEF Commit
  <1>2. CASE Merge(p)
    <2>1. CASE MergeStart(p) \/ MergeTip(p)
      BY <2>1 DEF MergeStart, MergeTip
    <2>2. CASE MergeDecide(p)
      BY <2>2, Zenon DEF MergeDecide
    <2>. QED
      BY <1>2, <2>1, <2>2 DEF Merge
  <1>3. CASE UpdateRef(p) \/ Branch(p) \/ Checkout(p) \/ Stop(p)
    BY <1>3 DEF UpdateRef, Branch, CreateStart, CreateResolve, DeleteStart, DeleteRef,
                Checkout, CheckoutStart, CheckoutHead, Stop
  <1>4. CASE Rename(p)
    BY <1>4 DEF Rename, RenameStart, RenameNew, RenameRead, RenameRef, RenameUnlink,
                RenameReadHead, RenameHead
  <1>. QED
    BY <1>1, <1>2, <1>3, <1>4

\* No object goes, and a commit stays what it is.
LEMMA ObjectsGrow ==
    ASSUME TypeInv, [Next]_vars
    PROVE  /\ chunks \subseteq chunks' /\ manifests \subseteq manifests'
           /\ checkpoints \subseteq checkpoints' /\ Documents \subseteq Documents'
           /\ \A c \in Documents : commits'[c] = commits[c]
  <1>1. CASE UNCHANGED objects
    BY <1>1 DEF objects, Documents
  <1>2. ASSUME NEW p \in Procs, Put(p)
        PROVE  /\ chunks \subseteq chunks' /\ manifests \subseteq manifests'
               /\ checkpoints \subseteq checkpoints'
               /\ \/ commits' = commits \/ commits = <<>>
                  \/ \E commit : commits' = Append(commits, commit)
    <2>1. CASE PutChunk(p)
      BY <2>1 DEF PutChunk
    <2>2. CASE PutManifest(p)
      BY <2>2 DEF PutManifest
    <2>3. CASE PutCheckpoint(p)
      BY <2>3 DEF PutCheckpoint
    <2>4. CASE WriteCommit(p)
      BY <2>4, Zenon DEF WriteCommit
    <2>5. CASE PutConfig(p)
      BY <2>5 DEF PutConfig, ConfigStored
    <2>. QED
      BY <1>2, <2>1, <2>2, <2>3, <2>4, <2>5 DEF Put
  <1>3. ASSUME NEW commit, commits' = Append(commits, commit)
        PROVE  Documents \subseteq Documents' /\ \A c \in Documents : commits'[c] = commits[c]
    <2>. DEFINE Record == [parents : Seq(Nat), full : BOOLEAN, tree : Trees]
    <2>1. commits \in Seq(Record)
      BY DEF TypeInv, TypeOK
    <2>2. Documents = 1..Len(commits) /\ Len(commits) \in Nat
      BY <2>1, LenProperties DEF Documents
    <2>. HIDE DEF Record
    <2>3. /\ DOMAIN commits' = 1..(Len(commits) + 1)
          /\ \A c \in 1..Len(commits) : commits'[c] = commits[c]
      BY <1>3, <2>1
    <2>. QED
      BY <2>2, <2>3 DEF Documents
  <1>4. CASE \E p \in Procs : Put(p)
    BY <1>2, <1>3, <1>4 DEF Documents
  <1>. QED
    BY <1>1, <1>4, ObjectsKept DEF Next, vars

\* At most one ref moves, HEAD where it is detached among them.
LEMMA OneRefMoves ==
    ASSUME TypeInv, [Next]_vars, NEW b \in HeadBranches, NEW d \in HeadBranches,
           HeadTip(b)' # HeadTip(b), HeadTip(d)' # HeadTip(d)
    PROVE  b = d
  <1>. USE DEF HeadTip, HeadBranches
  <1>1. refs \in [Branches -> Nat]
    BY DEF TypeInv, TypeOK
  <1>2. CASE refs' = refs
    BY <1>2
  <1>3. ASSUME NEW e, NEW c, refs' = [refs EXCEPT ![e] = c], head' = head
        PROVE  b = d
    BY <1>1, <1>3
  <1>4. ASSUME NEW p \in Procs,
               UpdateRef(p) \/ DeleteRef(p) \/ RenameRef(p) \/ RenameUnlink(p)
        PROVE  b = d
    BY <1>3, <1>4 DEF UpdateRef, DeleteRef, RenameRef, RenameUnlink
  <1>5. ASSUME NEW p \in Procs, Commit(p) \/ Merge(p) \/ Put(p)
        PROVE  refs' = refs
    <2>1. CASE CommitStart(p) \/ CommitBase(p) \/ CommitReadHead(p) \/ CommitFull(p)
      BY <2>1 DEF CommitStart, CommitBase, CommitReadHead, CommitFull
    <2>2. CASE CommitResidual(p)
      BY <2>2, Zenon DEF CommitResidual
    <2>3. CASE MergeStart(p) \/ MergeTip(p)
      BY <2>3 DEF MergeStart, MergeTip
    <2>4. CASE MergeDecide(p)
      BY <2>4, Zenon DEF MergeDecide
    <2>5. CASE PutChunk(p) \/ PutConfig(p) \/ PutManifest(p) \/ PutCheckpoint(p) \/ CommitFails(p)
      BY <2>5 DEF PutChunk, PutConfig, PutManifest, PutCheckpoint, CommitFails
    <2>6. CASE WriteCommit(p)
      BY <2>6, Zenon DEF WriteCommit
    <2>. QED
      BY <1>5, <2>1, <2>2, <2>3, <2>4, <2>5, <2>6 DEF Commit, Merge, Put
  <1>6. ASSUME NEW p \in Procs,
               \/ CreateStart(p) \/ CreateResolve(p) \/ DeleteStart(p) \/ RenameStart(p)
               \/ RenameNew(p) \/ RenameRead(p) \/ RenameReadHead(p) \/ RenameHead(p) \/ Checkout(p) \/ Stop(p)
        PROVE  refs' = refs
    BY <1>6 DEF CreateStart, CreateResolve, DeleteStart, RenameStart, RenameNew, RenameRead,
                RenameReadHead, RenameHead, Checkout, CheckoutStart, CheckoutHead, Stop
  <1>. QED
    BY <1>2, <1>4, <1>5, <1>6 DEF Next, vars, Branch, Rename

\* What is stored.
LEMMA StoredKinds ==
    ASSUME NEW o \in StoredObjects
    PROVE  /\ o = <<o[1], o[2]>>
           /\ \/ o[1] = "chunk" /\ o[2] \in chunks
              \/ o[1] = "manifest" /\ o[2] \in manifests
              \/ o[1] = "checkpoint" /\ o[2] \in checkpoints
              \/ o[1] = "commit" /\ o[2] \in Documents
  BY DEF StoredObjects

LEMMA KindsStored ==
    /\ \A c \in chunks : <<"chunk", c>> \in StoredObjects
    /\ \A m \in manifests : <<"manifest", m>> \in StoredObjects
    /\ \A c \in checkpoints : <<"checkpoint", c>> \in StoredObjects
    /\ \A c \in Documents : <<"commit", c>> \in StoredObjects
  BY DEF StoredObjects

\* What an object of each kind names.
LEMMA NamesOfKinds ==
    ASSUME NEW o
    PROVE  /\ NamedBy("chunk", o) = {}
           /\ \A n \in NamedBy("manifest", o) :
                 \/ n = <<"chunk", Chunk(o[2])>>
                 \/ Len(o[2]) > 1 /\ n = <<"manifest", <<o[1], Tail(o[2])>>>>
           /\ \A n \in NamedBy("checkpoint", o) :
                 \E t \in Present(o) : n = <<"manifest", <<t, o[t]>>>>
           /\ \A n \in NamedBy("commit", o) :
                 \/ o # 1 /\ n = <<"checkpoint", commits[o].tree>>
                 \/ \E q \in Parents(o) : n = <<"commit", q>>
  BY DEF NamedBy

\* All that a stored object names is stored.
LEMMA NamesStored ==
    TypeInv /\ ClosedInv => \A o \in StoredObjects : NamedBy(o[1], o[2]) \subseteq StoredObjects
  <1>. SUFFICES ASSUME TypeInv, ClosedInv, NEW o \in StoredObjects, NEW n \in NamedBy(o[1], o[2])
                PROVE  n \in StoredObjects
    OBVIOUS
  <1>1. StoreClosed /\ RefsNameObjects
    BY DEF TypeInv, ClosedInv
  <1>2. CASE o[1] = "chunk"
    BY <1>2, NamesOfKinds
  <1>3. CASE o[1] = "manifest"
    <2>1. ManifestReadable(o[2][1], o[2][2])
      BY <1>1, <1>3, StoredKinds DEF StoreClosed
    <2>2. \/ n = <<"chunk", Chunk(o[2][2])>>
          \/ Len(o[2][2]) > 1 /\ n = <<"manifest", <<o[2][1], Tail(o[2][2])>>>>
      BY <1>3, NamesOfKinds
    <2>. QED
      BY <2>1, <2>2, KindsStored DEF ManifestReadable
  <1>4. CASE o[1] = "checkpoint"
    <2>1. \A t \in Present(o[2]) : <<t, o[2][t]>> \in manifests
      BY <1>1, <1>4, StoredKinds DEF StoreClosed
    <2>2. PICK t \in Present(o[2]) : n = <<"manifest", <<t, o[2][t]>>>>
      BY <1>4, NamesOfKinds
    <2>. QED
      BY <2>1, <2>2, KindsStored
  <1>5. CASE o[1] = "commit"
    <2>1. o[2] \in Documents /\ (o[2] # 1 => commits[o[2]].tree \in checkpoints)
      BY <1>1, <1>5, StoredKinds DEF StoreClosed, Commits
    <2>2. Parents(o[2]) \subseteq Documents
      <3>1. Documents = 1..Len(commits) /\ Len(commits) \in Nat
        BY LenProperties DEF TypeInv, TypeOK, Documents
      <3>2. Parents(o[2]) \subseteq 1..(o[2] - 1)
        BY <1>1, <2>1 DEF RefsNameObjects
      <3>. QED
        BY <2>1, <3>1, <3>2
    <2>3. \/ o[2] # 1 /\ n = <<"checkpoint", commits[o[2]].tree>>
          \/ \E q \in Parents(o[2]) : n = <<"commit", q>>
      BY <1>5, NamesOfKinds
    <2>. QED
      BY <2>1, <2>2, <2>3, KindsStored
  <1>. QED
    BY <1>2, <1>3, <1>4, <1>5, StoredKinds

\* The refs name what is stored.
LEMMA TipsStored ==
    TypeInv => \A b \in HeadBranches :
                  <<"commit", HeadTip(b)>> \in StoredObjects \cup {<<"commit", 0>>}
  <1>. SUFFICES ASSUME TypeInv, NEW b \in HeadBranches
                PROVE  <<"commit", HeadTip(b)>> \in StoredObjects \cup {<<"commit", 0>>}
    OBVIOUS
  <1>1. HeadTip(b) \in Documents \cup {0}
    BY DEF HeadTip, HeadBranches, TypeInv, RefsNameObjects
  <1>. QED
    BY <1>1, KindsStored

LEMMA StoreInit == TypeInv /\ ClosedInv => Store!Init
  <1>. SUFFICES ASSUME TypeInv, ClosedInv PROVE Store!Init
    OBVIOUS
  <1>1. Store!Closed
    BY NamesStored DEF Store!Closed, Store!Stored
  <1>2. \A b \in HeadBranches : Store!Named(b)
    BY TipsStored DEF Store!Named, Store!Stored
  <1>. QED
    BY <1>1, <1>2 DEF Store!Init

LEMMA StoreStep ==
    ASSUME TypeInv, ClosedInv, TypeInv', ClosedInv', [Next]_vars
    PROVE  Store!Next
  <1>1. ASSUME NEW o \in StoredObjects
        PROVE  o \in StoredObjects'
    BY ObjectsGrow, StoredKinds DEF StoredObjects
  <1>2. ASSUME NEW o \in StoredObjects
        PROVE  NamedBy(o[1], o[2])' = NamedBy(o[1], o[2])
    <2>1. CASE o[1] # "commit"
      BY <2>1, StoredKinds DEF NamedBy
    <2>2. CASE o[1] = "commit"
      <3>1. commits'[o[2]] = commits[o[2]]
        BY <2>2, ObjectsGrow, StoredKinds
      <3>2. NamedBy("commit", o[2])' =
               (IF o[2] = 1 THEN {} ELSE {<<"checkpoint", commits'[o[2]].tree>>})
               \cup ({"commit"} \X Parents(o[2])')
        BY DEF NamedBy
      <3>3. NamedBy("commit", o[2]) =
               (IF o[2] = 1 THEN {} ELSE {<<"checkpoint", commits[o[2]].tree>>})
               \cup ({"commit"} \X Parents(o[2]))
        BY DEF NamedBy
      <3>4. Parents(o[2])' = Parents(o[2])
        BY <3>1 DEF Parents
      <3>. QED
        BY <2>2, <3>1, <3>2, <3>3, <3>4
    <2>. QED
      BY <2>1, <2>2
  <1>3. Store!Grow
    BY <1>1, <1>2 DEF Store!Grow, Store!Stored
  <1>4. (\A o \in StoredObjects : NamedBy(o[1], o[2]) \subseteq StoredObjects)'
    BY NamesStored, PTL
  <1>5. (Store!Closed)'
    BY <1>4 DEF Store!Closed, Store!Stored
  <1>6. (\A b \in HeadBranches :
            <<"commit", HeadTip(b)>> \in StoredObjects \cup {<<"commit", 0>>})'
    BY TipsStored, PTL
  <1>7. Store!Move
    BY <1>6, OneRefMoves DEF Store!Move, Store!Named, Store!Stored
  <1>. QED
    BY <1>3, <1>5, <1>7 DEF Store!Next

\* The repository under its own commands implements ContentStore: its graph of
\* objects only grows and is closed at every step, and one ref at a time,
\* HEAD where it is detached among them, moves to a commit that is there.
\* Under the adaptive policy it needs files without equal tensors, as Closed.
THEOREM RepositoryImplementsStore ==
    ASSUME NoTies
    PROVE  Spec => RefinesStore
  <1>1. TypeInv /\ ClosedInv /\ [Next]_vars => ClosedInv'
    BY ClosedStep
  <1>2. Spec => [](TypeInv /\ ClosedInv)
    BY <1>1, TypeInit, TypeStep, ClosedInit, PTL DEF Spec
  <1>3. (TypeInv /\ ClosedInv) /\ (TypeInv /\ ClosedInv)' /\ [Next]_vars => Store!Next
    BY StoreStep
  <1>4. Init => Store!Init
    BY StoreInit, TypeInit, ClosedInit
  <1>. QED
    BY <1>2, <1>3, <1>4, PTL DEF Spec, RefinesStore, Store!Spec
=============================================================================
