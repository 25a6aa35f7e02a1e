------------------------ MODULE RepositoryWalkProof ------------------------
(***************************************************************************)
(* What Repository's walks over the commit graph compute, and what follows *)
(* for the rebase interval, the depth of chains and what branches reach,   *)
(* for any number of processes, branches, tensors and commits.             *)
(*                                                                         *)
(* The walks are recursive functions on commit numbers.  Parents are older *)
(* than their children, so induction on numbers (UpTo) shows that they     *)
(* satisfy their equations, and that a new commit changes none of them for *)
(* an old one.                                                             *)
(***************************************************************************)
EXTENDS RepositoryProof, NumberInduction

-----------------------------------------------------------------------------
(* The walks of the model satisfy their equations.                         *)

\* A commit the walk goes on from has an older first parent.
LEMMA FirstParent ==
    ASSUME TypeInv, NEW c \in 0..Len(commits), ~WalkEnds(c)
    PROVE  c \in Documents /\ commits[c].parents[1] \in 0..(c - 1)
  <1>1. Documents = 1..Len(commits) /\ Len(commits) \in Nat
    BY LenProperties DEF TypeInv, TypeOK, Documents
  <1>2. c \in Documents /\ commits[c].parents # <<>>
    BY <1>1 DEF WalkEnds
  <1>3. commits[c].parents \in Seq(Nat)
    BY <1>2, CommitRecord
  <1>4. 1 \in DOMAIN commits[c].parents
    BY <1>2, <1>3, EmptySeq, LenProperties
  <1>5. commits[c].parents[1] \in 1..(c - 1)
    BY <1>2, <1>4 DEF TypeInv, RefsNameObjects, Parents
  <1>. QED
    BY <1>2, <1>5

SinceFacts ==
    \A c \in 0..Len(commits) :
        /\ SinceFull(c) \in Nat
        /\ SinceFull(c) = IF WalkEnds(c) THEN 0 ELSE 1 + SinceFull(commits[c].parents[1])

LEMMA SinceFullWalks == TypeInv => SinceFacts
  <1>. SUFFICES ASSUME TypeInv PROVE SinceFacts
    OBVIOUS
  <1>. DEFINE n == Len(commits)
              Since(f) == f = [x \in 0..n |-> IF WalkEnds(x) THEN 0
                                              ELSE 1 + f[commits[x].parents[1]]]
              Ends == {c \in 0..n : WalkEnds(c)}
              next == [c \in 0..n |-> commits[c].parents[1]]
              last == [c \in 0..n |-> 0]
              step == [k \in Nat |-> 1 + k]
  <1>1. n \in Nat
    BY LenProperties DEF TypeInv, TypeOK
  <1>2. \A x \in 0..n : x \notin Ends => next[x] \in 0..(x - 1)
    BY FirstParent
  <1>3. step \in [Nat -> Nat] /\ \A x \in 0..n : x \in Ends => last[x] \in Nat
    OBVIOUS
  <1>4. \E f : Since(f)
    <2>1. PICK f \in [0..n -> Nat] :
              \A x \in 0..n : f[x] = IF x \in Ends THEN last[x] ELSE step[f[next[x]]]
      <3>. HIDE DEF Ends, next, last, step, n
      <3>1. Walkable(n, Nat, Ends, next, last, step)
        BY <1>1, <1>2, <1>3 DEF Walkable
      <3>. QED
        BY <3>1, WalkExists DEF Walks
    <2>2. \A x \in 0..n : x \notin Ends => f[next[x]] \in Nat
      BY <1>1, <1>2, <2>1
    <2>3. \A x \in 0..n : f[x] = IF WalkEnds(x) THEN 0 ELSE 1 + f[commits[x].parents[1]]
      BY <2>1, <2>2
    <2>. QED
      BY <2>3
  <1>5. PICK g : Since(g) /\ \A c : SinceFull(c) = g[c]
    <2>1. \A c : SinceFull(c) = (CHOOSE f : Since(f))[c]
      BY DEF SinceFull
    <2>2. Since(CHOOSE f : Since(f))
      <3>. HIDE DEF Since
      <3>. QED
        BY <1>4
    <2>. HIDE DEF Since
    <2>. QED
      BY <2>1, <2>2
  <1>6. \A c \in 0..n : g[c] = IF WalkEnds(c) THEN 0 ELSE 1 + g[commits[c].parents[1]]
    BY <1>5
  <1>7. \A c \in 0..n : g[c] \in Nat
    <2>. DEFINE S == {c \in 0..n : g[c] \in Nat}
    <2>1. ASSUME NEW x \in 0..n, \A y \in 0..(x - 1) : y \in S
          PROVE  x \in S
      BY <1>2, <1>6, <2>1
    <2>2. \A x \in 0..n : x \in S
      <3>. HIDE DEF S, n
      <3>. QED
        BY <1>1, <2>1, UpTo
    <2>. QED
      BY <2>2
  <1>8. ASSUME NEW c \in 0..n
        PROVE  /\ SinceFull(c) \in Nat
               /\ SinceFull(c) = IF WalkEnds(c) THEN 0
                                 ELSE 1 + SinceFull(commits[c].parents[1])
    BY <1>5, <1>6, <1>7
  <1>. QED
    BY <1>8 DEF SinceFacts

\* The anchor walk ends at a commit that is full or a root.
LEMMA AnchorWalks ==
    ASSUME TypeInv, NEW c \in 0..Len(commits)
    PROVE  WalkEnds(NearestFullAncestor(c))
  <1>. DEFINE n == Len(commits)
              Hub(f) == f = [x \in 0..n |-> IF WalkEnds(x) THEN x
                                            ELSE f[commits[x].parents[1]]]
              Ends == {x \in 0..n : WalkEnds(x)}
              next == [x \in 0..n |-> commits[x].parents[1]]
              last == [x \in 0..n |-> x]
              step == [k \in Nat |-> k]
  <1>1. n \in Nat
    BY LenProperties DEF TypeInv, TypeOK
  <1>2. \A x \in 0..n : x \notin Ends => next[x] \in 0..(x - 1)
    BY FirstParent
  <1>3. step \in [Nat -> Nat] /\ \A x \in 0..n : x \in Ends => last[x] \in Nat
    OBVIOUS
  <1>4. \E f : Hub(f)
    <2>1. PICK f \in [0..n -> Nat] :
              \A x \in 0..n : f[x] = IF x \in Ends THEN last[x] ELSE step[f[next[x]]]
      <3>. HIDE DEF Ends, next, last, step, n
      <3>1. Walkable(n, Nat, Ends, next, last, step)
        BY <1>1, <1>2, <1>3 DEF Walkable
      <3>. QED
        BY <3>1, WalkExists DEF Walks
    <2>2. \A x \in 0..n : x \notin Ends => f[next[x]] \in Nat
      BY <1>1, <1>2, <2>1
    <2>3. \A x \in 0..n : f[x] = IF WalkEnds(x) THEN x ELSE f[commits[x].parents[1]]
      BY <2>1, <2>2
    <2>. QED
      BY <2>3
  <1>5. PICK g : Hub(g) /\ \A x : NearestFullAncestor(x) = g[x]
    <2>1. \A x : NearestFullAncestor(x) = (CHOOSE f : Hub(f))[x]
      BY DEF NearestFullAncestor
    <2>2. Hub(CHOOSE f : Hub(f))
      <3>. HIDE DEF Hub
      <3>. QED
        BY <1>4
    <2>. HIDE DEF Hub
    <2>. QED
      BY <2>1, <2>2
  <1>6. \A x \in 0..n : g[x] = IF WalkEnds(x) THEN x ELSE g[commits[x].parents[1]]
    BY <1>5
  <1>. DEFINE S == {x \in 0..n : WalkEnds(g[x])}
  <1>7. ASSUME NEW x \in 0..n, \A y \in 0..(x - 1) : y \in S
        PROVE  x \in S
    BY <1>2, <1>6, <1>7
  <1>8. \A x \in 0..n : x \in S
    <2>. HIDE DEF S, n
    <2>. QED
      BY <1>1, <1>7, UpTo
  <1>. QED
    BY <1>5, <1>8

-----------------------------------------------------------------------------
(* Steps and the walks: commits are only appended.                         *)

Grows == /\ Len(commits) <= Len(commits')
         /\ \A c \in Documents : c \in Documents' /\ commits'[c] = commits[c]

\* What a step does to the commits: nothing, or a process writes config.json,
\* or it appends its own.
Configures == /\ commits = <<>>
              /\ commits' = <<[parents |-> <<>>, full |-> FALSE, tree |-> NoTree]>>

Appends(p) == /\ At(p, "write") /\ WriteCommit(p)
              /\ Documents' = Documents \cup {Len(commits) + 1}
              /\ commits'[Len(commits) + 1] =
                    [parents |-> job[p].parents, full |-> job[p].full, tree |-> job[p].tree]

LEMMA StepGrows ==
    ASSUME TypeInv, [Next]_vars
    PROVE  Grows /\ (commits' = commits \/ Configures \/ \E p \in Procs : Appends(p))
  <1>1. commits \in Seq([parents : Seq(Nat), full : BOOLEAN, tree : Trees])
    BY DEF TypeInv, TypeOK
  <1>2. CASE commits' = commits
    BY <1>1, <1>2, LenProperties DEF Grows, Documents
  <1>3. CASE \E p \in Procs : WriteCommit(p) /\ commits' # commits
    <2>1. PICK p \in Procs : WriteCommit(p) /\ commits' # commits
      BY <1>3
    <2>. DEFINE commit == [parents |-> job[p].parents, full |-> job[p].full,
                           tree |-> job[p].tree]
                Record == [parents : Seq(Nat), full : BOOLEAN, tree : Trees]
    <2>2. commits' = Append(commits, commit)
      BY <2>1 DEF WriteCommit
    <2>3. commit \in Record
      BY DEF TypeInv, TypeOK, JobType
    <2>4. /\ commits' \in Seq(Record) /\ Len(commits') = Len(commits) + 1
          /\ \A c \in 1..Len(commits) : commits'[c] = commits[c]
          /\ commits'[Len(commits) + 1] = commit
      <3>. HIDE DEF commit, Record
      <3>1. commits \in Seq(Record)
        BY <1>1 DEF Record
      <3>. QED
        BY <2>2, <2>3, <3>1, AppendProperties
    <2>5. Documents = 1..Len(commits) /\ Documents' = 1..Len(commits') /\ Len(commits) \in Nat
      <3>. HIDE DEF commit, Record
      <3>1. commits \in Seq(Record)
        BY <1>1 DEF Record
      <3>. QED
        BY <2>4, <3>1, LenProperties DEF Documents
    <2>6. Documents' = Documents \cup {Len(commits) + 1}
      BY ONLY <2>4, <2>5
    <2>7. Grows
      <3>. HIDE DEF commit, Record
      <3>. QED
        BY <2>4, <2>5, <2>6 DEF Grows
    <2>8. Appends(p)
      <3>1. At(p, "write")
        BY <2>1 DEF WriteCommit
      <3>. QED
        BY <2>1, <2>4, <2>6, <3>1 DEF Appends
    <2>. QED
      BY <2>7, <2>8
  <1>4. CASE UNCHANGED vars
    BY <1>2, <1>4 DEF vars, objects
  <1>5. CASE \E p \in Procs : PutConfig(p)
    <2>1. Configures
      BY <1>5 DEF PutConfig, ConfigStored, Configures
    <2>2. Documents = {} /\ Len(commits) = 0 /\ Len(commits') = 1
      BY <2>1 DEF Configures, Documents
    <2>. QED
      BY <2>1, <2>2 DEF Grows
  <1>6. ASSUME NEW p \in Procs, ~WriteCommit(p), ~PutConfig(p),
               \/ Commit(p) \/ Merge(p) \/ Put(p) \/ UpdateRef(p)
               \/ Branch(p) \/ Rename(p) \/ Checkout(p) \/ Stop(p)
        PROVE  commits' = commits
    BY <1>6 DEF Commit, Merge, Put, UpdateRef, Branch, Rename, Checkout, Stop, objects,
         CommitStart, CommitBase, CommitReadHead, CommitFull, CommitResidual, CommitFails,
         MergeStart, MergeTip, MergeDecide, PutChunk, PutManifest, PutCheckpoint, CreateStart,
         CreateResolve, DeleteStart, DeleteRef, RenameStart, RenameNew, RenameRead, RenameRef,
         RenameUnlink, RenameReadHead, RenameHead, CheckoutStart, CheckoutHead
  <1>. QED
    BY <1>2, <1>3, <1>4, <1>6, <1>5 DEF Next

\* A new commit does not change how far an old one is from a full one.
LEMMA SinceStable ==
    ASSUME TypeInv, TypeInv', Grows
    PROVE  \A c \in 0..Len(commits) : SinceFull(c)' = SinceFull(c)
  <1>1. SinceFacts
    BY SinceFullWalks
  <1>2. SinceFacts'
    BY SinceFullWalks, PTL
  <1>. DEFINE n == Len(commits)
              S == {c \in 0..n : SinceFull(c)' = SinceFull(c)}
  <1>3. n \in Nat /\ Documents = 1..n
    BY LenProperties DEF TypeInv, TypeOK, Documents
  <1>4. Len(commits)' \in Nat /\ n <= Len(commits)'
    BY LenProperties DEF TypeInv, TypeOK, Grows
  <1>5. ASSUME NEW c \in 0..n, \A y \in 0..(c - 1) : y \in S
        PROVE  c \in S
    <2>1. WalkEnds(c)' = WalkEnds(c)
      BY <1>3 DEF WalkEnds, Grows
    <2>2. c \in 0..Len(commits)'
      BY <1>3, <1>4
    <2>3. CASE WalkEnds(c)
      BY <1>1, <1>2, <2>1, <2>2, <2>3 DEF SinceFacts
    <2>4. CASE ~WalkEnds(c)
      <3>1. PICK y \in 0..(c - 1) : y = commits[c].parents[1]
        BY <2>4, FirstParent
      <3>2. c \in Documents /\ y \in 0..n
        BY <1>3, <2>4, FirstParent
      <3>3. commits'[c].parents[1] = y
        BY <3>1, <3>2 DEF Grows
      <3>4. SinceFull(y)' = SinceFull(y)
        BY <1>5
      <3>5. SinceFull(c) = 1 + SinceFull(y)
        BY <1>1, <2>4, <3>1 DEF SinceFacts
      <3>6. SinceFull(c)' = 1 + SinceFull(y)'
        BY <1>2, <2>1, <2>2, <2>4, <3>3 DEF SinceFacts
      <3>. QED
        BY <3>4, <3>5, <3>6
    <2>. QED
      BY <2>3, <2>4
  <1>6. \A c \in 0..n : c \in S
    <2>. HIDE DEF S, n
    <2>. QED
      BY <1>3, <1>5, UpTo
  <1>. QED
    BY <1>6

\* Who is about to write either was before the step or has just planned it.
Decides(q) == CommitFull(q) \/ CommitResidual(q) \/ MergeDecide(q)

LEMMA Planned ==
    ASSUME TypeInv, [Next]_vars, NEW q \in Procs, At(q, "write")'
    PROVE  job'[q] = job[q] \/ Decides(q)
  <1>1. job \in [Procs -> JobType]
    BY DEF TypeInv, TypeOK
  <1>2. CASE UNCHANGED vars
    BY <1>2 DEF vars
  <1>3. ASSUME NEW p \in Procs, ~Decides(p),
               \/ Commit(p) \/ Merge(p) \/ UpdateRef(p) \/ Branch(p) \/ Rename(p)
               \/ Checkout(p) \/ Stop(p) \/ WriteCommit(p)
        PROVE  job'[q] = job[q]
    <2>1. PICK j : j.pc # "write" /\ Set(p, j)
      BY <1>1, <1>3 DEF Decides, Commit, Merge, UpdateRef, Branch, Rename, Checkout, Stop,
         CommitStart, CommitBase, CommitReadHead, CommitFails, MergeStart, MergeTip,
         CreateStart, CreateResolve, DeleteStart, DeleteRef, RenameStart, RenameNew,
         RenameRead, RenameRef, RenameUnlink, RenameReadHead, RenameHead, CheckoutStart,
         CheckoutHead, WriteCommit, Done, Goto, Idle, JobType
    <2>. QED
      BY <1>1, <2>1 DEF Set, At
  <1>4. ASSUME NEW p \in Procs, p # q, Decides(p)
        PROVE  job'[q] = job[q]
    <2>1. PICK j : Set(p, j)
      BY <1>4 DEF Decides, CommitFull, CommitResidual, MergeDecide, CommitPlan, Write, Done
    <2>. QED
      BY <1>1, <1>4, <2>1 DEF Set
  <1>5. ASSUME NEW p \in Procs, Put(p), ~WriteCommit(p)
        PROVE  job'[q] = job[q]
    BY <1>5 DEF Put, PutChunk, PutConfig, PutManifest, PutCheckpoint
  <1>. QED
    BY <1>2, <1>3, <1>4, <1>5 DEF Next, Put

\* What the record of a process that has just planned says.
LEMMA WriteRecord ==
    ASSUME TypeInv, NEW q \in Procs, NEW plan, NEW tip, NEW parents,
           Write(q, plan, tip, parents)
    PROVE  /\ job'[q].tree = plan.tree /\ job'[q].full = plan.full
           /\ job'[q].parents = parents /\ job'[q].tip = tip /\ job'[q].br = job[q].br
  BY DEF Write, Set, Idle, TypeInv, TypeOK

-----------------------------------------------------------------------------
(* The rebase interval.                                                    *)

\* A residual commit in the making leaves room below the interval.
RoomLeft(j) == ~j.full /\ j.parents # <<>> => SinceFull(j.parents[1]) < RebaseInterval - 1

DriftInv == DriftBounded /\ \A p \in Procs : At(p, "write") => RoomLeft(job[p])

LEMMA DriftInit == Init => DriftInv
  BY DEF Init, DriftInv, DriftBounded, Commits, Documents, At, Idle

LEMMA DriftStep == TypeInv /\ TypeInv' /\ DriftInv /\ [Next]_vars => DriftInv'
  <1>. SUFFICES ASSUME TypeInv, TypeInv', DriftInv, [Next]_vars PROVE DriftInv'
    OBVIOUS
  <1>1. Grows /\ \A c \in 0..Len(commits) : SinceFull(c)' = SinceFull(c)
    BY StepGrows, SinceStable
  <1>2. SinceFacts /\ SinceFacts'
    BY SinceFullWalks, PTL
  <1>3. /\ Documents = 1..Len(commits) /\ Len(commits) \in Nat
        /\ Documents' = 1..Len(commits)' /\ Len(commits)' \in Nat
        /\ RebaseInterval \in Nat \ {0}
    BY BoundsAssumption, LenProperties DEF TypeInv, TypeOK, Documents
  <1>4. ASSUME NEW q \in Procs, At(q, "write")'
        PROVE  RoomLeft(job[q])'
    <2>0. ASSUME NEW y \in Documents, job'[q].parents[1] = y, SinceFull(y) < RebaseInterval - 1
          PROVE  RoomLeft(job[q])'
      <3>1. SinceFull(y)' = SinceFull(y)
        BY <1>1, <1>3
      <3>2. SinceFull(job[q].parents[1])' = SinceFull(y)'
        BY <2>0
      <3>. QED
        BY <2>0, <3>1, <3>2 DEF RoomLeft
    <2>1. CASE job'[q] = job[q]
      <3>1. RoomLeft(job[q]) /\ job[q] \in JobType /\ JobNames(job[q])
        BY <1>4, <2>1 DEF DriftInv, At, TypeInv, TypeOK, JobsName
      <3>2. CASE job[q].full \/ job[q].parents = <<>>
        BY <2>1, <3>2 DEF RoomLeft
      <3>3. CASE ~job[q].full /\ job[q].parents # <<>>
        <4>1. job[q].parents \in Seq(Nat) /\ job[q].full \in BOOLEAN
          BY <3>1 DEF JobType
        <4>2. 1 \in DOMAIN job[q].parents
          BY <3>3, <4>1, EmptySeq, LenProperties
        <4>3. PICK y \in Documents : job[q].parents[1] = y
          BY <3>1, <4>2 DEF JobNames
        <4>. QED
          BY <2>0, <2>1, <3>1, <3>3, <4>3 DEF RoomLeft
      <3>. QED
        BY <3>2, <3>3
    <2>2. CASE CommitFull(q)
      <3>1. PICK data \in Inputs : Write(q, FullPlan(data), Tip(q), TipAsParents(q))
        BY <2>2 DEF CommitFull, CommitPlan
      <3>2. job'[q].full = TRUE
        BY <3>1, WriteRecord DEF FullPlan
      <3>. QED
        BY <3>2 DEF RoomLeft
    <2>3. CASE CommitResidual(q)
      <3>1. PICK plan : Write(q, plan, Tip(q), TipAsParents(q))
        BY <2>3 DEF CommitResidual, CommitPlan
      <3>2. job'[q].parents = TipAsParents(q)
        BY <3>1, WriteRecord
      <3>3. Tip(q) \in {0} \cup Documents
        BY <2>3 DEF CommitResidual, Tip, At, TypeInv, RefsNameObjects, JobsName, JobNames
      <3>4. SinceFull(Tip(q)) < RebaseInterval - 1
        BY <2>3 DEF CommitResidual, IntervalLeft
      <3>5. CASE Tip(q) = 0
        BY <3>2, <3>5 DEF TipAsParents, RoomLeft
      <3>6. CASE Tip(q) # 0
        <4>1. PICK y \in Documents : y = Tip(q)
          BY <3>3, <3>6
        <4>2. job'[q].parents[1] = y
          BY <3>2, <3>6, <4>1 DEF TipAsParents
        <4>. QED
          BY <2>0, <3>4, <4>1, <4>2
      <3>. QED
        BY <3>5, <3>6
    <2>4. CASE MergeDecide(q)
      <3>1. PICK data, parents : Write(q, FullPlan(data), job[q].tip, parents)
        <4>1. job \in [Procs -> JobType] /\ job[q] \in JobType
          BY DEF TypeInv, TypeOK
        <4>2. ~ Set(q, Idle)
          BY <1>4, <4>1 DEF Set, Idle, At
        <4>3. \A theirs : ~ Set(q, [job[q] EXCEPT !.pc = "ref", !.new = theirs])
          BY <1>4, <4>1 DEF Set, JobType, At
        <4>. QED
          BY <2>4, <4>2, <4>3 DEF MergeDecide, Done
      <3>2. job'[q].full = TRUE
        BY <3>1, WriteRecord DEF FullPlan
      <3>. QED
        BY <3>2 DEF RoomLeft
    <2>. QED
      BY <1>4, <2>1, <2>2, <2>3, <2>4, Planned DEF Decides
  <1>5. ASSUME NEW c \in Commits'
        PROVE  SinceFull(c)' <= RebaseInterval - 1
    <2>0. c \in Documents' /\ c # 1
      BY DEF Commits
    <2>1. CASE c \in Documents
      BY <1>1, <1>3, <2>0, <2>1 DEF DriftInv, DriftBounded, Commits
    <2>2. CASE c \notin Documents
      <3>1. PICK p \in Procs : Appends(p)
        BY <2>0, <2>2, StepGrows DEF Documents, Configures
      <3>2. /\ c = Len(commits) + 1 /\ c \in 0..Len(commits)' /\ c # 0
            /\ commits'[c].parents = job[p].parents /\ commits'[c].full = job[p].full
        BY <1>3, <2>0, <2>2, <3>1 DEF Appends
      <3>3. RoomLeft(job[p]) /\ job[p] \in JobType /\ JobNames(job[p])
        BY <3>1 DEF DriftInv, Appends, TypeInv, TypeOK, JobsName
      <3>4. CASE job[p].full \/ job[p].parents = <<>>
        <4>1. WalkEnds(c)'
          BY <3>2, <3>4 DEF WalkEnds
        <4>2. SinceFull(c)' = 0
          BY <1>2, <3>2, <4>1 DEF SinceFacts
        <4>. QED
          BY <1>3, <4>2
      <3>5. CASE ~job[p].full /\ job[p].parents # <<>>
        <4>1. job[p].parents \in Seq(Nat)
          BY <3>3 DEF JobType
        <4>2. 1 \in DOMAIN job[p].parents
          BY <3>5, <4>1, EmptySeq, LenProperties
        <4>3. PICK y \in Documents : job[p].parents[1] = y
          BY <3>3, <4>2 DEF JobNames
        <4>4. SinceFull(y) < RebaseInterval - 1 /\ SinceFull(y)' = SinceFull(y)
          BY <1>1, <1>3, <3>3, <3>5, <4>3 DEF RoomLeft
        <4>5. ~WalkEnds(c)' /\ commits'[c].parents[1] = y
          BY <3>2, <3>5, <4>3 DEF WalkEnds
        <4>6. SinceFull(c)' = 1 + SinceFull(y)'
          BY <1>2, <3>2, <4>5 DEF SinceFacts
        <4>7. SinceFull(y) \in Nat
          BY <1>2, <1>3 DEF SinceFacts
        <4>. QED
          BY <1>3, <4>4, <4>6, <4>7
      <3>. QED
        BY <3>4, <3>5
    <2>. QED
      BY <2>1, <2>2
  <1>. QED
    BY <1>4, <1>5 DEF DriftInv, DriftBounded

\* At most RebaseInterval - 1 commits follow a full one on any first-parent
\* line, however the writers of a branch interleave: the interval commit
\* counts from the tip it read (commit.py:265-273) is the one its new commit
\* gets, though the branch may have moved on before the ref is written.
THEOREM Drift == Spec => []DriftBounded
  <1>1. DriftInv => DriftBounded
    BY DEF DriftInv
  <1>. QED
    BY <1>1, TypeInit, TypeStep, DriftInit, DriftStep, PTL DEF Spec

-----------------------------------------------------------------------------
(* The depth of chains.                                                    *)

\* How many residuals a read of the chain decodes.
Depth(chain) == Len(chain) - 1

Within(tree, depth) == \A t \in Present(tree) : Depth(tree[t]) <= depth

LEMMA ChainDepth ==
    ASSUME NEW chain \in Chains, chain # <<>>
    PROVE  Depth(chain) \in Nat /\ (Depth(chain) <= 0 <=> Len(chain) = 1)
  <1>1. Len(chain) \in Nat \ {0}
    BY ChainFacts
  <1>2. \A n \in Nat \ {0} : n - 1 \in Nat /\ (n - 1 <= 0 <=> n = 1)
    OBVIOUS
  <1>. QED
    BY <1>1, <1>2 DEF Depth

LEMMA GrownDepth ==
    ASSUME NEW x \in Values
    PROVE  /\ Depth(<<x>>) = 0
           /\ \A chain \in Chains : Depth(<<x>> \o chain) = Depth(chain) + 1
  <1>1. Len(<<x>>) = 1
    BY ShortChain
  <1>2. ASSUME NEW chain \in Chains
        PROVE  Depth(<<x>> \o chain) = Depth(chain) + 1
    <2>1. Len(<<x>> \o chain) = Len(chain) + 1
      BY LongChain
    <2>2. Len(chain) \in Nat
      BY LenProperties DEF Chains
    <2>. QED
      BY <2>1, <2>2 DEF Depth
  <1>. QED
    BY <1>1, <1>2 DEF Depth

LEMMA DeepestFacts ==
    /\ Deepest \in Nat \ {0} /\ MaxDepth \in Nat \ {0}
    /\ "adaptive" \in Policies => MaxDepth - 1 <= Deepest
  BY BoundsAssumption DEF Deepest

LEMMA FlatIsWithin ==
    ASSUME NEW tree \in Trees, Within(tree, 0)
    PROVE  Within(tree, Deepest)
  <1>1. \A t \in Present(tree) : Depth(tree[t]) \in Nat
    BY ChainDepth DEF Present, Trees
  <1>. QED
    BY <1>1, DeepestFacts DEF Within

\* A tree stored in full is flat.
LEMMA FullPlanFlat ==
    ASSUME NEW data, Contents(data)
    PROVE  FullPlan(data).full = TRUE /\ Within(FullPlan(data).tree, 0)
  <1>1. FullPlan(data).tree = Tree(data)
    BY DEF FullPlan
  <1>2. \A t \in Present(Tree(data)) : Tree(data)[t] = <<data[t]>> /\ data[t] \in Values
    BY DEF Present, Tree, Contents
  <1>3. \A t \in Present(Tree(data)) : Depth(Tree(data)[t]) = 0
    BY <1>2, GrownDepth
  <1>. QED
    BY <1>1, <1>3 DEF Within, FullPlan

\* A residual is one deeper than what it rests on.
RestsOn(plan, base) ==
    /\ plan.full = FALSE /\ plan.fresh \subseteq Tensors /\ plan.tree \in Trees
    /\ \A t \in Present(plan.tree) \ plan.fresh :
          t \in Present(base) /\ plan.tree[t] = base[t]
    /\ \A t \in Present(plan.tree) :
          \/ Depth(plan.tree[t]) = 0
          \/ /\ t \in Present(base)
             /\ Depth(plan.tree[t]) \in {Depth(base[t]), Depth(base[t]) + 1}

LEMMA ResidualPlanDepth ==
    ASSUME NEW data, Contents(data), NEW base \in Trees,
           NEW plan \in ResidualPlans(data, base)
    PROVE  RestsOn(plan, base)
  <1>1. PICK fresh \in SUBSET DOMAIN data : plan \in PlansOf(data, base, fresh)
    BY DEF ResidualPlans
  <1>2. PICK residual \in SUBSET (fresh \cap Present(base)) :
            plan = [tree |-> ResidualTree(data, base, fresh, residual), full |-> FALSE,
                    emit |-> Chunks(ResidualTree(data, base, fresh, residual), fresh),
                    fresh |-> fresh]
    BY <1>1 DEF PlansOf
  <1>. DEFINE tree == ResidualTree(data, base, fresh, residual)
  <1>3. plan \in Plans /\ plan.tree = tree /\ plan.fresh = fresh /\ plan.full = FALSE
    BY <1>2, ResidualPlanSound
  <1>4. fresh \subseteq DOMAIN data /\ DOMAIN data \subseteq Tensors
        /\ \A t \in DOMAIN data : data[t] \in Values
    BY DEF Contents
  <1>5. \A t \in Tensors : base[t] \in Chains
    BY DEF Trees
  <1>6. \A t \in residual : Depth(tree[t]) = Depth(base[t]) + 1
    <2>. SUFFICES ASSUME NEW t \in residual
                  PROVE  Depth(tree[t]) = Depth(base[t]) + 1
      OBVIOUS
    <2>1. t \in Tensors /\ data[t] \in Values /\ base[t] \in Chains
      BY <1>2, <1>4, <1>5
    <2>2. tree[t] = <<data[t]>> \o base[t]
      BY <2>1 DEF ResidualTree
    <2>. HIDE DEF tree
    <2>. QED
      BY <2>1, <2>2, GrownDepth
  <1>7. \A t \in fresh \ residual : Depth(tree[t]) = 0
    <2>1. \A t \in fresh \ residual : tree[t] = <<data[t]>>
      BY <1>2, <1>4 DEF ResidualTree
    <2>. QED
      BY <1>4, <2>1, GrownDepth
  <1>8. \A t \in Present(tree) \ fresh : tree[t] = base[t] /\ t \in Present(base)
    BY <1>2 DEF ResidualTree, Present
  <1>. HIDE DEF tree
  <1>. QED
    BY <1>2, <1>3, <1>6, <1>7, <1>8 DEF Plans, RestsOn

\* The second pass of the adaptive policy keeps every chain below the cap
\* that was within bounds before.
LEMMA AdaptivePlanDepth ==
    ASSUME NEW data, Contents(data), NEW base \in Trees,
           "adaptive" \in Policies, NEW plan \in AdaptivePlans(data, base)
    PROVE  /\ plan.full => Within(plan.tree, 0)
           /\ Within(base, Deepest) => Within(plan.tree, Deepest)
  <1>1. PICK first \in ResidualPlans(data, base) : plan \in Promotions(data, first)
    BY DEF AdaptivePlans
  <1>2. /\ first.full = FALSE /\ first.fresh \subseteq Tensors /\ first.tree \in Trees
        /\ \A t \in Present(first.tree) \ first.fresh :
              t \in Present(base) /\ first.tree[t] = base[t]
    <2>1. RestsOn(first, base)
      BY <1>1, ResidualPlanDepth
    <2>. QED
      BY <2>1 DEF RestsOn
  <1>3. first \in Plans
    BY <1>1, ResidualPlanSound
  <1>4. FullPlan(data).full = TRUE /\ Within(FullPlan(data).tree, 0)
        /\ FullPlan(data) \in Plans
    BY FullPlanFlat, FullPlanSound
  <1>5. CASE plan = WholePlan(data, first)
    <2>1. plan.tree = FullPlan(data).tree
      BY <1>4, <1>5 DEF WholePlan, Plans
    <2>2. Within(plan.tree, 0)
      BY <1>4, <2>1
    <2>3. plan.tree \in Trees
      BY <1>4, <2>1 DEF Plans
    <2>. QED
      BY <2>2, <2>3, FlatIsWithin
  <1>6. ASSUME NEW promote \in SUBSET first.fresh, plan = MixedPlan(data, first, promote),
               \A t \in first.fresh \ promote :
                  Len(first.tree[t]) > 1 => ~AtCap(first.tree[t])
        PROVE  plan.full = FALSE /\ (Within(base, Deepest) => Within(plan.tree, Deepest))
    <2>1. /\ plan.tree = [t \in Tensors |->
                            IF t \in promote THEN <<data[t]>> ELSE first.tree[t]]
          /\ plan.full = FALSE
      BY <1>2, <1>3, <1>6 DEF MixedPlan, Plans
    <2>2. first.fresh \subseteq DOMAIN data
      BY <1>1, FreshOfData
    <2>3. ASSUME Within(base, Deepest), NEW t \in Present(plan.tree)
          PROVE  Depth(plan.tree[t]) <= Deepest
      <3>1. t \in Tensors
        BY DEF Present
      <3>2. CASE t \in promote
        <4>1. plan.tree[t] = <<data[t]>> /\ data[t] \in Values
          BY <2>1, <2>2, <3>1, <3>2 DEF Contents
        <4>2. Depth(plan.tree[t]) = 0
          BY <4>1, GrownDepth
        <4>. QED
          BY <4>2, DeepestFacts
      <3>3. CASE t \notin promote
        <4>1. /\ plan.tree[t] = first.tree[t] /\ t \in Present(first.tree)
              /\ first.tree[t] \in Chains /\ first.tree[t] # <<>>
          BY <1>2, <2>1, <3>1, <3>3 DEF Present, Trees
        <4>2. CASE t \notin first.fresh
          BY <1>2, <2>3, <4>1, <4>2 DEF Within
        <4>3. CASE t \in first.fresh
          <5>1. Depth(first.tree[t]) \in Nat
            BY <4>1, ChainDepth
          <5>2. CASE Len(first.tree[t]) > 1
            <6>1. ~(Depth(first.tree[t]) >= MaxDepth)
              BY <1>6, <3>3, <4>3, <5>2 DEF AtCap, Depth
            <6>. QED
              BY <4>1, <5>1, <6>1, DeepestFacts
          <5>3. CASE ~(Len(first.tree[t]) > 1)
            <6>1. Len(first.tree[t]) \in Nat \ {0}
              BY <4>1, ChainFacts
            <6>2. \A n \in Nat \ {0} : ~(n > 1) => n = 1
              OBVIOUS
            <6>3. Depth(first.tree[t]) <= 0
              BY <4>1, <5>3, <6>1, <6>2, ChainDepth
            <6>. QED
              BY <4>1, <5>1, <6>3, DeepestFacts
          <5>. QED
            BY <5>2, <5>3
        <4>. QED
          BY <4>2, <4>3
      <3>. QED
        BY <3>2, <3>3
    <2>. QED
      BY <2>1, <2>3 DEF Within
  <1>7. \/ plan = WholePlan(data, first)
        \/ \E promote \in SUBSET first.fresh :
              /\ plan = MixedPlan(data, first, promote)
              /\ \A t \in first.fresh \ promote :
                    Len(first.tree[t]) > 1 => ~AtCap(first.tree[t])
    BY <1>1 DEF Promotions
  <1>. QED
    BY <1>5, <1>6, <1>7

Shallow(j) == /\ j.full => Within(j.tree, 0)
              /\ RootsAreFull => Within(j.tree, Deepest)

ShallowInv == /\ \A c \in Commits : Shallow(commits[c])
              /\ \A p \in Procs : At(p, "write") => Shallow(job[p])

LEMMA ShallowInit == Init => ShallowInv
  BY DEF Init, ShallowInv, Commits, Documents, At, Idle

\* What a process plans is within bounds if all it can rest on is.
LEMMA ShallowPlan ==
    ASSUME TypeInv, ShallowInv, NEW q \in Procs, At(q, "write")', Decides(q)
    PROVE  /\ job'[q].full => Within(job'[q].tree, 0)
           /\ RootsAreFull => Within(job'[q].tree, Deepest)
  <1>1. job \in [Procs -> JobType] /\ job[q] \in JobType /\ JobNames(job[q])
    BY DEF TypeInv, TypeOK, JobsName
  <1>2. \A data \in Inputs : Contents(data)
    BY InputsAssumption DEF Contents
  <1>3. ASSUME NEW data, Contents(data), NEW tip, NEW parents,
               Write(q, FullPlan(data), tip, parents)
        PROVE  Within(job'[q].tree, 0) /\ Within(job'[q].tree, Deepest)
    <2>1. job'[q].tree = FullPlan(data).tree
      BY <1>3, WriteRecord
    <2>2. Within(FullPlan(data).tree, 0) /\ FullPlan(data).tree \in Trees
      BY <1>3, FullPlanFlat, FullPlanSound DEF Plans
    <2>. QED
      BY <2>1, <2>2, FlatIsWithin
  <1>4. CASE CommitFull(q)
    BY <1>2, <1>3, <1>4 DEF CommitFull, CommitPlan
  <1>5. CASE MergeDecide(q)
    <2>1. ~ Set(q, Idle)
      BY <1>1 DEF Set, Idle, At
    <2>2. \A theirs : ~ Set(q, [job[q] EXCEPT !.pc = "ref", !.new = theirs])
      BY <1>1 DEF Set, JobType, At
    <2>3. PICK theirs, base :
              \E data \in MergedContents(job[q].tip, theirs, base) :
                 Write(q, FullPlan(data), job[q].tip, <<job[q].tip, theirs>>)
      BY <1>5, <2>1, <2>2 DEF MergeDecide, Done
    <2>4. \A data \in MergedContents(job[q].tip, theirs, base) : Contents(data)
      BY DEF MergedContents, Contents, Present
    <2>. QED
      BY <1>3, <2>3, <2>4
  <1>6. CASE CommitResidual(q)
    <2>1. PICK policy \in Policies, data \in Inputs :
              /\ job[q].base # 0 /\ DiffBase(q, policy) \in Commits
              /\ \E plan \in IF policy = "flat"
                            THEN ResidualPlans(data, commits[DiffBase(q, policy)].tree)
                            ELSE AdaptivePlans(data, commits[DiffBase(q, policy)].tree) :
                    CommitPlan(q, plan)
      BY <1>6 DEF CommitResidual
    <2>2. /\ job[q].base \in Documents /\ Documents = 1..Len(commits)
          /\ Len(commits) \in Nat
      BY <1>1, <2>1, LenProperties DEF JobNames, Documents, TypeInv, TypeOK
    <2>. DEFINE base == commits[DiffBase(q, policy)].tree
    <2>3. base \in Trees
      BY <2>1, CommitRecord DEF Commits
    <2>4. CASE policy = "flat"
      <3>1. PICK plan \in ResidualPlans(data, base) : CommitPlan(q, plan)
        BY <2>1, <2>4
      <3>2. job'[q].tree = plan.tree /\ job'[q].full = plan.full
        BY <3>1, WriteRecord DEF CommitPlan
      <3>3. /\ plan.full = FALSE
            /\ \A t \in Present(plan.tree) :
                 \/ Depth(plan.tree[t]) = 0
                 \/ /\ t \in Present(base)
                    /\ Depth(plan.tree[t]) \in {Depth(base[t]), Depth(base[t]) + 1}
        <4>1. RestsOn(plan, base)
          BY <1>2, <2>3, <3>1, ResidualPlanDepth
        <4>. QED
          BY <4>1 DEF RestsOn
      <3>4. ASSUME RootsAreFull
            PROVE  Within(plan.tree, Deepest)
        <4>1. PICK anchor \in Commits : anchor = DiffBase(q, policy)
          BY <2>1
        <4>2. WalkEnds(anchor) /\ anchor # 0
          <5>1. job[q].base \in 0..Len(commits)
            BY <2>2
          <5>2. anchor = NearestFullAncestor(job[q].base) /\ anchor # 0
            BY <2>2, <2>4, <4>1 DEF DiffBase, Commits
          <5>. QED
            BY <5>1, <5>2, AnchorWalks
        <4>3. Within(base, 0)
          BY <3>4, <4>1, <4>2 DEF WalkEnds, RootsAreFull, ShallowInv, Shallow
        <4>. HIDE DEF base
        <4>4. \A t \in Present(base) : Depth(base[t]) = 0
          <5>1. \A t \in Present(base) : Depth(base[t]) \in Nat
            BY <2>3, ChainDepth DEF Present, Trees
          <5>. QED
            BY <4>3, <5>1 DEF Within
        <4>. QED
          BY <3>3, <4>4, DeepestFacts DEF Within
      <3>. QED
        BY <3>2, <3>3, <3>4
    <2>5. CASE policy # "flat"
      <3>1. PICK plan \in AdaptivePlans(data, base) : CommitPlan(q, plan)
        BY <2>1, <2>5
      <3>2. job'[q].tree = plan.tree /\ job'[q].full = plan.full
        BY <3>1, WriteRecord DEF CommitPlan
      <3>3. RootsAreFull => Within(base, Deepest)
        BY <2>1 DEF ShallowInv, Shallow
      <3>4. "adaptive" \in Policies
        BY <2>5, PolicyAssumption
      <3>. HIDE DEF base
      <3>. QED
        BY <1>2, <2>3, <3>1, <3>2, <3>3, <3>4, AdaptivePlanDepth
    <2>. QED
      BY <2>4, <2>5
  <1>. QED
    BY <1>4, <1>5, <1>6 DEF Decides

LEMMA ShallowStep == TypeInv /\ ShallowInv /\ [Next]_vars => ShallowInv'
  <1>. SUFFICES ASSUME TypeInv, ShallowInv, [Next]_vars PROVE ShallowInv'
    OBVIOUS
  <1>1. Grows
    BY StepGrows
  <1>2. RootsAreFull' => RootsAreFull
    BY <1>1 DEF RootsAreFull, Grows, Commits
  <1>3. ASSUME NEW q \in Procs, At(q, "write")'
        PROVE  Shallow(job[q])'
    <2>1. CASE job'[q] = job[q]
      <3>1. Shallow(job[q])
        BY <1>3, <2>1 DEF ShallowInv, At
      <3>. QED
        BY <1>2, <2>1, <3>1 DEF Shallow, Within, Deepest
    <2>2. CASE Decides(q)
      BY <1>2, <1>3, <2>2, ShallowPlan DEF Shallow, Within, Deepest
    <2>. QED
      BY <1>3, <2>1, <2>2, Planned
  <1>4. ASSUME NEW c \in Commits'
        PROVE  Shallow(commits[c])'
    <2>0. c \in Documents' /\ c # 1
      BY DEF Commits
    <2>1. CASE c \in Documents
      <3>1. Shallow(commits[c]) /\ commits'[c] = commits[c]
        BY <1>1, <2>0, <2>1 DEF ShallowInv, Grows, Commits
      <3>. QED
        BY <1>2, <3>1 DEF Shallow, Within, Deepest
    <2>2. CASE c \notin Documents
      <3>1. PICK p \in Procs : Appends(p)
        BY <2>0, <2>2, StepGrows DEF Documents, Configures
      <3>2. commits'[c].tree = job[p].tree /\ commits'[c].full = job[p].full
        BY <2>0, <2>2, <3>1 DEF Appends
      <3>3. Shallow(job[p])
        BY <3>1 DEF ShallowInv, Appends
      <3>. QED
        BY <1>2, <3>2, <3>3 DEF Shallow, Within, Deepest
    <2>. QED
      BY <2>1, <2>2
  <1>. QED
    BY <1>3, <1>4 DEF ShallowInv

\* No read of a tensor goes through more decodes than the anchor policies
\* allow, whatever --base names and however commits interleave, as long as
\* every root is full: nearest_full_ancestor (graph.py:246-262) then always
\* ends at a full commit, and decide (anchor.py:80) caps the others.
THEOREM DepthIsBounded == Spec => []DepthBounded
  <1>1. TypeInv /\ ShallowInv => DepthBounded
    <2>. SUFFICES ASSUME TypeInv, ShallowInv PROVE DepthBounded
      OBVIOUS
    <2>1. ASSUME NEW c \in Commits, NEW t \in Present(commits[c].tree)
          PROVE  /\ commits[c].full => Len(commits[c].tree[t]) = 1
                 /\ RootsAreFull => Len(commits[c].tree[t]) - 1 <= Deepest
      <3>1. commits[c].tree[t] \in Chains /\ commits[c].tree[t] # <<>>
        BY CommitRecord DEF Present, Trees, Commits
      <3>2. Shallow(commits[c])
        BY DEF ShallowInv
      <3>3. commits[c].full => Depth(commits[c].tree[t]) <= 0
        BY <3>2 DEF Shallow, Within
      <3>4. RootsAreFull => Depth(commits[c].tree[t]) <= Deepest
        BY <3>2 DEF Shallow, Within
      <3>. QED
        BY <3>1, <3>3, <3>4, ChainDepth DEF Depth
    <2>. QED
      BY <2>1 DEF DepthBounded
  <1>. QED
    BY <1>1, TypeInit, TypeStep, ShallowInit, ShallowStep, PTL DEF Spec
=============================================================================
