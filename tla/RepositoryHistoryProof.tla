----------------------- MODULE RepositoryHistoryProof -----------------------
(***************************************************************************)
(* No commit is forgotten by accident, for any number of processes,        *)
(* branches and commits: what the ancestor walk of graph.py computes, and  *)
(* why each write of a ref keeps what the ref reached before.  And what    *)
(* holds besides when commands run one at a time.                          *)
(***************************************************************************)
EXTENDS RepositoryWalkProof

-----------------------------------------------------------------------------
(* Ancestors.                                                              *)

\* A function that looks up any set of smaller numbers exists.
Sweeps(f, n, parents) ==
    f = [x \in 0..n |-> IF x = 0 THEN {} ELSE {x} \cup UNION {f[y] : y \in parents[x]}]

LEMMA SweepExists ==
    ASSUME NEW n \in Nat, NEW parents,
           \A x \in 0..n : x # 0 => parents[x] \subseteq 0..(x - 1)
    PROVE  \E f : Sweeps(f, n, parents)
  <1>. DEFINE Sweep(f, k) == f = [x \in 0..k |-> IF x = 0 THEN {}
                                                 ELSE {x} \cup UNION {f[y] : y \in parents[x]}]
              S == {k \in 0..n : \E f : Sweep(f, k)}
  <1>1. ASSUME NEW k \in 0..n, \A y \in 0..(k - 1) : y \in S
        PROVE  k \in S
    <2>1. CASE k = 0
      <3>1. 0..k = {0}
        BY <2>1
      <3>2. Sweep([x \in 0..k |-> {}], k)
        BY <3>1
      <3>. QED
        BY <3>2
    <2>2. CASE k # 0
      <3>1. k - 1 \in 0..(k - 1)
        BY <2>2
      <3>2. PICK f : Sweep(f, k - 1)
        BY <1>1, <3>1
      <3>. DEFINE v == {k} \cup UNION {f[y] : y \in parents[k]}
                  g == [x \in 0..k |-> IF x = k THEN v ELSE f[x]]
      <3>3. \A x \in 0..k : x # k => x \in 0..(k - 1)
        OBVIOUS
      <3>4. \A x \in 0..k : x # 0 => \A y \in parents[x] : y \in 0..k /\ y # k
        OBVIOUS
      <3>5. \A x \in 0..k : x # 0 => {g[y] : y \in parents[x]} = {f[y] : y \in parents[x]}
        BY <3>4
      <3>6. \A x \in 0..k : g[x] = IF x = 0 THEN {}
                                   ELSE {x} \cup UNION {f[y] : y \in parents[x]}
        BY <2>2, <3>2, <3>3
      <3>7. \A x \in 0..k : g[x] = IF x = 0 THEN {}
                                   ELSE {x} \cup UNION {g[y] : y \in parents[x]}
        <4>. HIDE DEF g
        <4>. QED
          BY <3>5, <3>6
      <3>8. g = [x \in 0..k |-> g[x]]
        OBVIOUS
      <3>9. Sweep(g, k)
        <4>. HIDE DEF g
        <4>. QED
          BY <3>7, <3>8
      <3>. HIDE DEF g
      <3>. QED
        BY <3>9
    <2>. QED
      BY <2>1, <2>2
  <1>2. n \in S
    <2>1. \A x \in 0..n : x \in S
      <3>. HIDE DEF S
      <3>. QED
        BY <1>1, UpTo
    <2>2. n \in 0..n
      OBVIOUS
    <2>. HIDE DEF S
    <2>. QED
      BY <2>1, <2>2
  <1>3. PICK f : Sweep(f, n)
    BY <1>2
  <1>. QED
    BY <1>3 DEF Sweeps

AncestorFacts ==
    \A c \in 0..Len(commits) :
        Ancestors(c) = IF c = 0 THEN {} ELSE {c} \cup UNION {Ancestors(y) : y \in Parents(c)}

LEMMA AncestorsSweep == TypeInv => AncestorFacts
  <1>. SUFFICES ASSUME TypeInv PROVE AncestorFacts
    OBVIOUS
  <1>. DEFINE n == Len(commits)
              Anc(f) == f = [x \in 0..n |-> IF x = 0 THEN {}
                                            ELSE {x} \cup UNION {f[y] : y \in Parents(x)}]
              parents == [x \in 0..n |-> Parents(x)]
  <1>1. n \in Nat /\ Documents = 1..n
    BY LenProperties DEF TypeInv, TypeOK, Documents
  <1>2. \A x \in 0..n : x # 0 => Parents(x) \subseteq 0..(x - 1)
    BY <1>1 DEF TypeInv, RefsNameObjects
  <1>3. \E f : Anc(f)
    <2>1. \A x \in 0..n : x # 0 => parents[x] \subseteq 0..(x - 1)
      BY <1>2
    <2>2. PICK f : Sweeps(f, n, parents)
      <3>. HIDE DEF parents, n
      <3>. QED
        BY <1>1, <2>1, SweepExists
    <2>3. \A x \in 0..n : parents[x] = Parents(x)
      OBVIOUS
    <2>4. Anc(f)
      <3>. HIDE DEF parents
      <3>. QED
        BY <2>2, <2>3 DEF Sweeps
    <2>. QED
      BY <2>4
  <1>4. PICK g : Anc(g) /\ \A c : Ancestors(c) = g[c]
    <2>1. \A c : Ancestors(c) = (CHOOSE f : Anc(f))[c]
      BY DEF Ancestors
    <2>2. Anc(CHOOSE f : Anc(f))
      <3>. HIDE DEF Anc
      <3>. QED
        BY <1>3
    <2>. HIDE DEF Anc
    <2>. QED
      BY <2>1, <2>2
  <1>5. \A c \in 0..n : g[c] = IF c = 0 THEN {} ELSE {c} \cup UNION {g[y] : y \in Parents(c)}
    BY <1>4
  <1>. QED
    BY <1>4, <1>5 DEF AncestorFacts

\* A parent, and what it descends from, are ancestors.
Descent ==
    /\ Ancestors(0) = {}
    /\ \A c \in Documents : c \in Ancestors(c)
    /\ \A c \in Documents : \A y \in Parents(c) : Ancestors(y) \subseteq Ancestors(c)
    /\ \A c \in 0..Len(commits) : \A a \in Ancestors(c) : Ancestors(a) \subseteq Ancestors(c)

LEMMA AncestorsDescend == TypeInv => Descent
  <1>. SUFFICES ASSUME TypeInv PROVE Descent
    OBVIOUS
  <1>1. AncestorFacts
    BY AncestorsSweep
  <1>2. Len(commits) \in Nat /\ Documents = 1..Len(commits)
    BY LenProperties DEF TypeInv, TypeOK, Documents
  <1>3. Ancestors(0) = {}
    BY <1>1, <1>2 DEF AncestorFacts
  <1>4. \A c \in Documents : Ancestors(c) = {c} \cup UNION {Ancestors(y) : y \in Parents(c)}
    BY <1>1, <1>2 DEF AncestorFacts
  <1>. DEFINE n == Len(commits)
              S == {c \in 0..n : \A a \in Ancestors(c) : Ancestors(a) \subseteq Ancestors(c)}
  <1>5. ASSUME NEW c \in 0..n, \A y \in 0..(c - 1) : y \in S
        PROVE  c \in S
    <2>1. CASE c = 0
      BY <1>3, <2>1
    <2>2. CASE c # 0
      <3>1. c \in Documents /\ \A y \in Parents(c) : y \in S
        BY <1>2, <1>5, <2>2 DEF TypeInv, RefsNameObjects
      <3>2. ASSUME NEW a \in Ancestors(c)
            PROVE  Ancestors(a) \subseteq Ancestors(c)
        <4>1. CASE a = c
          BY <4>1
        <4>2. CASE a # c
          <5>1. PICK y \in Parents(c) : a \in Ancestors(y)
            BY <1>4, <3>1, <3>2, <4>2
          <5>2. Ancestors(a) \subseteq Ancestors(y)
            BY <3>1, <5>1
          <5>. QED
            BY <1>4, <3>1, <5>2
        <4>. QED
          BY <4>1, <4>2
      <3>. QED
        BY <3>2
    <2>. QED
      BY <2>1, <2>2
  <1>6. n \in Nat
    BY <1>2
  <1>7. \A c \in 0..n : c \in S
    <2>. HIDE DEF S, n
    <2>. QED
      BY <1>6, <1>5, UpTo
  <1>. QED
    BY <1>3, <1>4, <1>7 DEF Descent

\* A new commit does not change what an old one descends from.
LEMMA AncestorsStable ==
    ASSUME TypeInv, TypeInv', Grows
    PROVE  \A c \in 0..Len(commits) : Ancestors(c)' = Ancestors(c)
  <1>1. AncestorFacts
    BY AncestorsSweep
  <1>2. AncestorFacts'
    BY AncestorsSweep, PTL
  <1>. DEFINE n == Len(commits)
              S == {c \in 0..n : Ancestors(c)' = Ancestors(c)}
  <1>3. n \in Nat /\ Documents = 1..n
    BY LenProperties DEF TypeInv, TypeOK, Documents
  <1>4. Len(commits)' \in Nat /\ n <= Len(commits)'
    BY LenProperties DEF TypeInv, TypeOK, Grows
  <1>5. ASSUME NEW c \in 0..n, \A y \in 0..(c - 1) : y \in S
        PROVE  c \in S
    <2>1. c \in 0..Len(commits)'
      BY <1>3, <1>4
    <2>2. CASE c = 0
      BY <1>1, <1>2, <2>1, <2>2 DEF AncestorFacts
    <2>3. CASE c # 0
      <3>1. c \in Documents
        BY <1>3, <2>3
      <3>2. Parents(c)' = Parents(c)
        BY <3>1 DEF Grows, Parents
      <3>3. \A y \in Parents(c) : Ancestors(y)' = Ancestors(y)
        BY <1>3, <1>5, <3>1 DEF TypeInv, RefsNameObjects
      <3>4. Ancestors(c) = {c} \cup UNION {Ancestors(y) : y \in Parents(c)}
        BY <1>1, <2>3 DEF AncestorFacts
      <3>5. Ancestors(c)' = {c} \cup UNION {Ancestors(y)' : y \in Parents(c)'}
        BY <1>2, <2>1, <2>3 DEF AncestorFacts
      <3>6. {Ancestors(y)' : y \in Parents(c)'} = {Ancestors(y) : y \in Parents(c)}
        BY <3>2, <3>3
      <3>. QED
        BY <3>4, <3>5, <3>6
    <2>. QED
      BY <2>2, <2>3
  <1>6. \A c \in 0..n : c \in S
    <2>. HIDE DEF S, n
    <2>. QED
      BY <1>3, <1>5, UpTo
  <1>. QED
    BY <1>6

-----------------------------------------------------------------------------
(* What a command about to write a ref has read.                           *)

\* The commit a command moves a branch to descends from the tip it read.
Keeps(j) ==
    /\ j.pc = "create" => j.tip = 0
    /\ j.pc = "write" => j.tip = 0 \/ \E i \in DOMAIN j.parents : j.parents[i] = j.tip
    /\ j.pc = "ref" => j.tip = 0 \/ j.tip \in Ancestors(j.new)
    /\ j.pc = "unlink" => j.to # j.br

KeepsInv == \A p \in Procs : Keeps(job[p])

LEMMA KeepsInit == Init => KeepsInv
  BY DEF Init, KeepsInv, Keeps, Idle

\* A record that kept its promise keeps it when commits are appended.
LEMMA KeepsStable ==
    ASSUME TypeInv, TypeInv', Grows, NEW j, JobNames(j), Keeps(j)
    PROVE  Keeps(j)'
  <1>1. \A c \in Documents : Ancestors(c)' = Ancestors(c)
    <2>1. Documents = 1..Len(commits)
      BY LenProperties DEF TypeInv, TypeOK, Documents
    <2>2. Documents \subseteq 0..Len(commits)
      BY <2>1
    <2>. QED
      BY <2>2, AncestorsStable
  <1>. QED
    BY <1>1 DEF Keeps, JobNames

\* A step of p that leaves the other jobs alone and p's own in order.
LEMMA KeepsOne ==
    ASSUME TypeInv, TypeInv', Grows, KeepsInv, NEW p \in Procs,
           \A q \in Procs \ {p} : job'[q] = job[q], Keeps(job[p])'
    PROVE  KeepsInv'
  <1>1. \A q \in Procs : JobNames(job[q]) /\ Keeps(job[q])
    BY DEF TypeInv, JobsName, KeepsInv
  <1>2. ASSUME NEW q \in Procs, q # p
        PROVE  Keeps(job[q])'
    <2>1. PICK k : k = job[q]
      OBVIOUS
    <2>2. Keeps(k)'
      BY <1>1, <2>1, KeepsStable
    <2>3. job'[q] = k
      BY <1>2, <2>1
    <2>. QED
      BY <2>2, <2>3 DEF Keeps
  <1>. QED
    BY <1>2 DEF KeepsInv

LEMMA KeepsStep ==
    ASSUME TypeInv, TypeInv', Grows, KeepsInv, NEW p \in Procs, NEW j, Set(p, j), Keeps(j)'
    PROVE  KeepsInv'
  <1>1. job'[p] = j /\ \A q \in Procs \ {p} : job'[q] = job[q]
    BY DEF Set, TypeInv, TypeOK
  <1>2. Keeps(job[p])'
    BY <1>1 DEF Keeps
  <1>. QED
    BY <1>1, <1>2, KeepsOne

LEMMA KeepsNext == TypeInv /\ TypeInv' /\ KeepsInv /\ [Next]_vars => KeepsInv'
  <1>. SUFFICES ASSUME TypeInv, TypeInv', KeepsInv, [Next]_vars PROVE KeepsInv'
    OBVIOUS
  <1>1. Grows
    BY StepGrows
  <1>2. /\ job \in [Procs -> JobType] /\ \A p \in Procs : job[p] \in JobType
        /\ \A p \in Procs : JobNames(job[p]) /\ Keeps(job[p])
    BY DEF TypeInv, TypeOK, JobsName, KeepsInv
  <1>3. Descent'
    BY AncestorsDescend, PTL
  <1>4. CASE job' = job
    BY <1>1, <1>2, <1>4, KeepsStable DEF KeepsInv
  <1>5. ASSUME NEW p \in Procs,
               \/ CommitStart(p) \/ CommitBase(p) \/ CommitReadHead(p) \/ CommitFails(p)
               \/ MergeStart(p) \/ MergeTip(p) \/ UpdateRef(p) \/ DeleteStart(p)
               \/ DeleteRef(p) \/ RenameStart(p) \/ RenameNew(p) \/ RenameRead(p)
               \/ RenameUnlink(p) \/ RenameReadHead(p) \/ RenameHead(p)
               \/ Checkout(p) \/ Stop(p)
        PROVE  KeepsInv'
    <2>1. ASSUME NEW pc \in {"create", "write", "ref", "unlink"}
          PROVE  job'[p].pc # pc
      <3>1. PICK j : j.pc # pc /\ Set(p, j)
        BY <1>2, <1>5 DEF CommitStart, CommitBase, CommitReadHead, CommitFails, MergeStart,
           MergeTip, UpdateRef, Stop, DeleteStart, DeleteRef, RenameStart, RenameNew,
           RenameRead, Checkout, CheckoutStart, CheckoutHead, RenameUnlink, RenameReadHead, RenameHead, Done, Goto, Idle, JobType
      <3>. QED
        BY <1>2, <3>1 DEF Set
    <2>2. PICK j : Set(p, j)
      BY <1>5 DEF CommitStart, CommitBase, CommitReadHead, CommitFails, MergeStart, MergeTip,
         UpdateRef, Stop, DeleteStart, DeleteRef, RenameStart, RenameNew, RenameRead,
         Checkout, CheckoutStart, CheckoutHead,
         RenameUnlink, RenameReadHead, RenameHead, Done, Goto
    <2>3. \A q \in Procs \ {p} : job'[q] = job[q]
      BY <1>2, <2>2 DEF Set
    <2>4. Keeps(job[p])'
      BY <2>1 DEF Keeps
    <2>. QED
      BY <1>1, <2>3, <2>4, KeepsOne
  <1>6. ASSUME NEW p \in Procs, CommitFull(p) \/ CommitResidual(p)
        PROVE  KeepsInv'
    <2>1. PICK plan : Write(p, plan, Tip(p), TipAsParents(p))
      BY <1>6 DEF CommitFull, CommitResidual, CommitPlan
    <2>. DEFINE j == [Idle EXCEPT !.pc = "write", !.br = job[p].br, !.tip = Tip(p),
                          !.parents = TipAsParents(p), !.tree = plan.tree,
                          !.full = plan.full, !.emit = plan.emit, !.fresh = plan.fresh]
    <2>2. j.pc = "write" /\ j.tip = Tip(p) /\ j.parents = TipAsParents(p)
      BY DEF Idle
    <2>3. Tip(p) = 0 \/ \E i \in DOMAIN TipAsParents(p) : TipAsParents(p)[i] = Tip(p)
      BY DEF TipAsParents
    <2>4. PICK k : k = j
      OBVIOUS
    <2>5. Keeps(k)'
      BY <2>2, <2>3, <2>4 DEF Keeps
    <2>6. Set(p, k)
      BY <2>1, <2>4 DEF Write
    <2>. QED
      BY <1>1, <2>5, <2>6, KeepsStep
  <1>7. ASSUME NEW p \in Procs, MergeDecide(p)
        PROVE  KeepsInv'
    <2>1. CASE Done(p)
      <3>1. PICK k : k = Idle
        OBVIOUS
      <3>2. Set(p, k) /\ k.pc = "idle"
        BY <2>1, <3>1 DEF Done, Idle
      <3>3. Keeps(k)'
        BY <3>2 DEF Keeps
      <3>. QED
        BY <1>1, <3>2, <3>3, KeepsStep
    <2>2. ASSUME NEW theirs \in Documents,
                 job[p].tip \in MergeBases(job[p].tip, theirs),
                 Set(p, [job[p] EXCEPT !.pc = "ref", !.new = theirs])
          PROVE  KeepsInv'
      <3>1. PICK k : k = [job[p] EXCEPT !.pc = "ref", !.new = theirs]
        OBVIOUS
      <3>2. k.pc = "ref" /\ k.new = theirs /\ k.tip = job[p].tip
        BY <1>2, <3>1 DEF JobType
      <3>3. k.tip \in Ancestors(k.new)
        BY <2>2, <3>2 DEF MergeBases
      <3>4. Ancestors(theirs)' = Ancestors(theirs)
        <4>1. theirs \in 0..Len(commits)
          BY LenProperties DEF TypeInv, TypeOK, Documents
        <4>. QED
          BY <1>1, <4>1, AncestorsStable
      <3>5. k.tip \in Ancestors(k.new)'
        BY <3>2, <3>3, <3>4
      <3>6. Keeps(k)'
        BY <3>2, <3>5 DEF Keeps
      <3>. QED
        BY <1>1, <2>2, <3>1, <3>6, KeepsStep
    <2>3. ASSUME NEW theirs \in Documents, NEW data,
                 Write(p, FullPlan(data), job[p].tip, <<job[p].tip, theirs>>)
          PROVE  KeepsInv'
      <3>. DEFINE plan == FullPlan(data)
                  j == [Idle EXCEPT !.pc = "write", !.br = job[p].br, !.tip = job[p].tip,
                            !.parents = <<job[p].tip, theirs>>, !.tree = plan.tree,
                            !.full = plan.full, !.emit = plan.emit, !.fresh = plan.fresh]
      <3>1. PICK k : k = j
        OBVIOUS
      <3>2. k.pc = "write" /\ k.tip = job[p].tip /\ k.parents = <<job[p].tip, theirs>>
        BY <3>1 DEF Idle
      <3>3. \E i \in DOMAIN k.parents : k.parents[i] = k.tip
        <4>1. 1 \in DOMAIN k.parents /\ k.parents[1] = k.tip
          BY <3>2
        <4>. QED
          BY <4>1
      <3>4. Keeps(k)'
        BY <3>2, <3>3 DEF Keeps
      <3>5. Set(p, k)
        BY <2>3, <3>1 DEF Write
      <3>. QED
        BY <1>1, <3>4, <3>5, KeepsStep
    <2>. QED
      BY <1>7, <2>1, <2>2, <2>3 DEF MergeDecide
  <1>8. ASSUME NEW p \in Procs, WriteCommit(p)
        PROVE  KeepsInv'
    <2>1. /\ At(p, "write") /\ Documents' = 1..Len(commits)'
          /\ \A c \in Documents : c \in Documents' /\ commits'[c] = commits[c]
      BY <1>1, <1>8, LenProperties DEF WriteCommit, Grows, Documents, TypeInv, TypeOK
    <2>2. job[p].tip \in {0} \cup Documents
          /\ (job[p].tip = 0 \/ \E i \in DOMAIN job[p].parents : job[p].parents[i] = job[p].tip)
      BY <1>2, <2>1 DEF Keeps, JobNames, At
    <2>3. ASSUME NEW n \in Documents', commits'[n].parents = job[p].parents,
                 Set(p, [Idle EXCEPT !.pc = "ref", !.br = job[p].br, !.tip = job[p].tip,
                                     !.new = n])
          PROVE  KeepsInv'
      <3>1. PICK k : k = [Idle EXCEPT !.pc = "ref", !.br = job[p].br, !.tip = job[p].tip,
                                      !.new = n]
        OBVIOUS
      <3>2. k.pc = "ref" /\ k.tip = job[p].tip /\ k.new = n
        BY <3>1 DEF Idle
      <3>3. CASE k.tip = 0
        BY <1>1, <2>3, <3>1, <3>2, <3>3, KeepsStep DEF Keeps
      <3>4. CASE k.tip # 0
        <4>1. k.tip \in Documents' /\ k.tip \in Parents(n)'
          BY <2>1, <2>2, <2>3, <3>2, <3>4 DEF Parents
        <4>2. k.tip \in Ancestors(k.tip)' /\ Ancestors(k.tip)' \subseteq Ancestors(n)'
          BY <1>3, <4>1 DEF Descent
        <4>3. Keeps(k)'
          BY <3>2, <4>2 DEF Keeps
        <4>. QED
          BY <1>1, <2>3, <3>1, <4>3, KeepsStep
      <3>. QED
        BY <3>3, <3>4
    <2>. DEFINE commit == [parents |-> job[p].parents, full |-> job[p].full,
                           tree |-> job[p].tree]
                Record == [parents : Seq(Nat), full : BOOLEAN, tree : Trees]
                n == Len(commits) + 1
    <2>4. commits' = Append(commits, commit) => n \in Documents' /\ commits'[n] = commit
      <3>1. commit \in Record /\ commits \in Seq(Record)
        BY <1>2 DEF JobType, TypeInv, TypeOK
      <3>2. commits' = Append(commits, commit) => Len(commits') = n /\ commits'[n] = commit
        <4>. HIDE DEF commit, Record
        <4>. QED
          BY <3>1, AppendProperties
      <3>3. n \in 1..n
        BY LenProperties DEF TypeInv, TypeOK
      <3>. QED
        BY <2>1, <3>2, <3>3
    <2>5. \A c \in Commits : commits[c] = commit => c \in Documents' /\ commits'[c] = commit
      BY <2>1 DEF Commits
    <2>6. commit.parents = job[p].parents
      OBVIOUS
    <2>7. \/ /\ commits' = Append(commits, commit)
             /\ Set(p, [Idle EXCEPT !.pc = "ref", !.br = job[p].br, !.tip = job[p].tip,
                                    !.new = n])
          \/ \E c \in Commits :
                /\ commits[c] = commit
                /\ Set(p, [Idle EXCEPT !.pc = "ref", !.br = job[p].br, !.tip = job[p].tip,
                                       !.new = c])
      BY <1>8 DEF WriteCommit
    <2>. HIDE DEF commit, n
    <2>. QED
      BY <2>3, <2>4, <2>5, <2>6, <2>7
  <1>9. ASSUME NEW p \in Procs, CreateStart(p) \/ CreateResolve(p)
        PROVE  KeepsInv'
    <2>1. job'[p].tip = 0 /\ job'[p].pc \notin {"write", "unlink"}
      <3>0. job[p] \in JobType /\ \A j : Set(p, j) => job'[p] = j
        BY <1>2 DEF Set
      <3>1. CASE CreateStart(p)
        BY <3>0, <3>1 DEF CreateStart, Idle
      <3>2. CASE CreateResolve(p)
        <4>1. job[p].tip = 0
          BY <1>2, <3>2 DEF CreateResolve, Keeps, At
        <4>2. ASSUME NEW c, Set(p, [job[p] EXCEPT !.pc = "ref", !.new = c])
              PROVE  job'[p].tip = 0 /\ job'[p].pc = "ref"
          BY <3>0, <4>1, <4>2 DEF JobType
        <4>3. CASE Done(p)
          BY <3>0, <4>3 DEF Done, Idle
        <4>. QED
          BY <3>2, <4>2, <4>3 DEF CreateResolve
      <3>. QED
        BY <1>9, <3>1, <3>2
    <2>2. \A q \in Procs \ {p} : job'[q] = job[q]
      BY <1>2, <1>9 DEF CreateStart, CreateResolve, Done, Set
    <2>3. Keeps(job[p])'
      BY <2>1 DEF Keeps
    <2>. QED
      BY <1>1, <2>2, <2>3, KeepsOne
  <1>10. ASSUME NEW p \in Procs, RenameRef(p)
         PROVE  KeepsInv'
    <2>1. /\ job'[p].pc \notin {"create", "write", "ref"}
          /\ job'[p].pc = "unlink" => job'[p].to # job'[p].br
      <3>1. job[p] \in JobType /\ \A j : Set(p, j) => job'[p] = j
        BY <1>2 DEF Set
      <3>. QED
        BY <1>10, <3>1 DEF RenameRef, Done, Goto, Idle, JobType
    <2>2. \A q \in Procs \ {p} : job'[q] = job[q]
      BY <1>2, <1>10 DEF RenameRef, Done, Goto, Set
    <2>3. Keeps(job[p])'
      BY <2>1 DEF Keeps
    <2>. QED
      BY <1>1, <2>2, <2>3, KeepsOne
  <1>11. ASSUME NEW p \in Procs,
                PutChunk(p) \/ PutConfig(p) \/ PutManifest(p) \/ PutCheckpoint(p)
         PROVE  job' = job
    BY <1>11 DEF PutChunk, PutConfig, PutManifest, PutCheckpoint
  <1>. QED
    BY <1>4, <1>5, <1>6, <1>7, <1>8, <1>9, <1>10, <1>11
       DEF Next, Commit, Merge, Put, Branch, Rename, vars

-----------------------------------------------------------------------------
(* Every step keeps what branches reach, or is one of the excused ones.    *)

Excused == \E p \in Procs : job[p] # job'[p] /\ (At(p, "delete") \/ Overwrites(p))

LEMMA ReachableKept ==
    ASSUME TypeInv, TypeInv', KeepsInv, [Next]_vars
    PROVE  Reachable \subseteq Reachable' \/ Excused
  <1>1. Grows
    BY StepGrows
  <1>2. /\ job \in [Procs -> JobType] /\ \A p \in Procs : job[p] \in JobType
        /\ \A p \in Procs : JobNames(job[p]) /\ Keeps(job[p])
        /\ refs \in [Branches -> Nat]
    BY DEF TypeInv, TypeOK, JobsName, KeepsInv
  <1>3. \A b \in Branches : refs[b] \in 0..Len(commits)
    <2>1. Documents = 1..Len(commits) /\ Len(commits) \in Nat
      BY LenProperties DEF TypeInv, TypeOK, Documents
    <2>2. {0} \cup Documents = 0..Len(commits)
      BY <2>1
    <2>. QED
      BY <2>2 DEF TypeInv, RefsNameObjects
  <1>4. Descent
    BY AncestorsDescend
  <1>5. 0 \in 0..Len(commits) /\ Documents \subseteq 0..Len(commits)
    <2>1. Documents = 1..Len(commits) /\ Len(commits) \in Nat
      BY LenProperties DEF TypeInv, TypeOK, Documents
    <2>. QED
      BY <2>1
  <1>6. ASSUME \A b \in Branches : refs'[b] \in 0..Len(commits),
               \A b \in Branches : \E d \in Branches :
                  Ancestors(refs[b]) \subseteq Ancestors(refs'[d])
        PROVE  Reachable \subseteq Reachable'
    <2>1. ASSUME NEW d \in Branches
          PROVE  Ancestors(refs[d])' = Ancestors(refs'[d])
      <3>1. PICK c \in 0..Len(commits) : c = refs'[d]
        BY <1>6
      <3>2. Ancestors(c)' = Ancestors(c)
        BY <1>1, AncestorsStable
      <3>. QED
        BY <3>1, <3>2
    <2>2. Reachable' = UNION {Ancestors(refs[d])' : d \in Branches}
      BY DEF Reachable
    <2>. QED
      BY <1>6, <2>1, <2>2 DEF Reachable
  <1>7. CASE refs' = refs
    BY <1>3, <1>6, <1>7
  <1>8. ASSUME NEW p \in Procs, UpdateRef(p)
        PROVE  Reachable \subseteq Reachable' \/ Excused
    <2>1. /\ At(p, "ref") /\ job[p].br \in Branches /\ job[p].new \in 0..Len(commits)
          /\ refs' = [refs EXCEPT ![job[p].br] = job[p].new]
          /\ job[p].tip = 0 \/ job[p].tip \in Ancestors(job[p].new)
      BY <1>2, <1>8, <1>5 DEF UpdateRef, At, JobNames, Keeps
    <2>2. job'[p].pc # job[p].pc
      BY <1>2, <1>8 DEF UpdateRef, Done, Set, Idle, At
    <2>3. CASE Tip(p) # job[p].tip
      BY <2>1, <2>2, <2>3 DEF Excused, Overwrites
    <2>4. CASE Tip(p) = job[p].tip
      <3>1. Ancestors(refs[job[p].br]) \subseteq Ancestors(job[p].new)
        BY <1>4, <2>1, <2>4 DEF Descent, Tip
      <3>2. \A b \in Branches : refs'[b] = IF b = job[p].br THEN job[p].new ELSE refs[b]
        BY <1>2, <2>1
      <3>. QED
        BY <1>3, <1>6, <2>1, <3>1, <3>2
    <2>. QED
      BY <2>3, <2>4
  <1>9. ASSUME NEW p \in Procs, DeleteRef(p)
        PROVE  Excused
    <2>1. At(p, "delete") /\ job'[p].pc # job[p].pc
      BY <1>2, <1>9 DEF DeleteRef, Done, Set, Idle, At
    <2>. QED
      BY <2>1 DEF Excused
  <1>10. ASSUME NEW p \in Procs, RenameRef(p)
        PROVE  Reachable \subseteq Reachable' \/ Excused
    <2>1. /\ At(p, "rename") /\ job[p].br \in Branches /\ job[p].to \in Branches
          /\ job[p].new \in 0..Len(commits)
          /\ refs' = [refs EXCEPT ![job[p].to] = job[p].new]
      BY <1>2, <1>10, <1>5 DEF RenameRef, At, JobNames
    <2>2. job'[p].pc # job[p].pc
      BY <1>2, <1>10 DEF RenameRef, Done, Goto, Set, Idle, At, JobType
    <2>3. \A b \in Branches : refs'[b] = IF b = job[p].to THEN job[p].new ELSE refs[b]
      BY <1>2, <2>1
    <2>4. CASE Overwrites(p)
      BY <2>2, <2>4 DEF Excused
    <2>5. CASE ~Overwrites(p)
      <3>1. refs[job[p].to] = 0 \/ refs[job[p].to] = job[p].new
        BY <2>1, <2>5 DEF Overwrites, Tip
      <3>2. Ancestors(refs[job[p].to]) \subseteq Ancestors(job[p].new)
        BY <1>4, <3>1 DEF Descent
      <3>. QED
        BY <1>3, <1>6, <2>1, <2>3, <3>2
    <2>. QED
      BY <2>4, <2>5
  <1>11. ASSUME NEW p \in Procs, RenameUnlink(p)
         PROVE  Reachable \subseteq Reachable' \/ Excused
    <2>1. /\ At(p, "unlink") /\ job[p].br \in Branches /\ job[p].to \in Branches
          /\ job[p].to # job[p].br
          /\ refs' = [refs EXCEPT ![job[p].br] = 0]
      BY <1>2, <1>11 DEF RenameUnlink, At, JobNames, Keeps
    <2>2. job'[p].pc # job[p].pc
      BY <1>2, <1>11 DEF RenameUnlink, Done, Goto, Set, Idle, At, JobType
    <2>3. \A b \in Branches : refs'[b] = IF b = job[p].br THEN 0 ELSE refs[b]
      BY <1>2, <2>1
    <2>4. CASE Overwrites(p)
      BY <2>2, <2>4 DEF Excused
    <2>5. CASE ~Overwrites(p)
      <3>1. refs[job[p].br] = refs'[job[p].to]
        BY <2>1, <2>3, <2>5 DEF Overwrites, Tip
      <3>2. \A b \in Branches : refs'[b] \in 0..Len(commits)
        BY <1>3, <1>5, <2>3
      <3>. QED
        BY <1>6, <2>1, <2>3, <3>1, <3>2
    <2>. QED
      BY <2>4, <2>5
  <1>12. ASSUME NEW p \in Procs, ~UpdateRef(p), ~DeleteRef(p), ~RenameRef(p), ~RenameUnlink(p),
                \/ Commit(p) \/ Merge(p) \/ Put(p) \/ UpdateRef(p)
                \/ Branch(p) \/ Rename(p) \/ Checkout(p) \/ Stop(p)
         PROVE  refs' = refs
    BY <1>12 DEF Commit, Merge, Put, Branch, Rename, Checkout, Stop,
       CommitStart, CommitBase, CommitReadHead, CommitFull, CommitResidual, CommitFails,
       MergeStart, MergeTip, MergeDecide, PutChunk, PutConfig, PutManifest, PutCheckpoint,
       WriteCommit, CreateStart, CreateResolve, DeleteStart, RenameStart, RenameNew,
       RenameRead, RenameReadHead, RenameHead, CheckoutStart, CheckoutHead
  <1>. QED
    BY <1>7, <1>8, <1>9, <1>10, <1>11, <1>12 DEF Next, vars

\* Whatever commands interleave and wherever they die, a commit that a branch
\* reaches is forgotten only by a delete on request, or by a write of a ref
\* that changed after the command read it (commit.py:400, merge.py:149,
\* branch.py:85 and rename_branch, repo.py:363-368).
THEOREM Forgotten == Spec => NothingForgotten
  <1>1. TypeInv /\ TypeInv' /\ KeepsInv /\ [Next]_vars
           => [ \/ Reachable \subseteq Reachable'
                \/ \E p \in Procs : job[p] # job'[p] /\ (At(p, "delete") \/ Overwrites(p)) ]_vars
    BY ReachableKept DEF Excused
  <1>. QED
    BY <1>1, TypeInit, TypeStep, KeepsInit, KeepsNext, PTL DEF Spec, NothingForgotten

-----------------------------------------------------------------------------
(* One command at a time.  With two, a rename or a delete between a        *)
(* command's reads breaks both of what follows; with one, only the death   *)
(* of a command in the middle is left.                                     *)

Alone == \A p, q \in Procs : p = q

\* No commit is given its parent by the caller.
NoBase == "commit --base" \notin Commands

\* The record of the process after its step.
LEMMA JobAfter ==
    ASSUME TypeInv, NEW p \in Procs
    PROVE  /\ \A j : Set(p, j) => job'[p] = j
           /\ Done(p) => job'[p] = Idle
           /\ \A pc : Goto(p, pc) => job'[p] = [job[p] EXCEPT !.pc = pc]
           /\ \A plan, tip, parents : Write(p, plan, tip, parents) =>
                 /\ job'[p].pc = "write" /\ job'[p].parents = parents
                 /\ job'[p].full = plan.full
           /\ Idle \in JobType /\ Idle.pc = "idle" /\ Idle.base = 0
  <1>1. job \in [Procs -> JobType]
    BY DEF TypeInv, TypeOK
  <1>2. \A j : Set(p, j) => job'[p] = j
    BY <1>1 DEF Set
  <1>3. Idle \in JobType /\ Idle.pc = "idle" /\ Idle.base = 0
    BY IdleOK DEF Idle
  <1>4. ASSUME NEW plan, NEW tip, NEW parents, Write(p, plan, tip, parents)
        PROVE  job'[p].pc = "write" /\ job'[p].parents = parents /\ job'[p].full = plan.full
    BY <1>2, <1>3, <1>4 DEF Write, JobType
  <1>. QED
    BY <1>2, <1>3, <1>4 DEF Done, Goto

\* Where the steps that write neither refs nor HEAD take their process.
LEMMA QuietSteps ==
    ASSUME TypeInv, NEW p \in Procs
    PROVE  /\ Commit(p) => /\ UNCHANGED <<head, refs, objects>>
                           /\ job'[p].pc \in {"base", "readHead", "plan", "write", "idle"}
           /\ Merge(p) => /\ UNCHANGED <<head, refs, objects>>
                          /\ job'[p].pc \in {"mergeTip", "merge", "ref", "idle", "write"}
                          /\ job'[p].pc = "write" => job'[p].parents # <<>>
           /\ Put(p) => /\ UNCHANGED <<head, refs>>
                        /\ (job'[p] = job[p] /\ At(p, "write")) \/ job'[p].pc = "ref"
           /\ WriteCommit(p) => job'[p].pc = "ref"
           /\ CreateStart(p) \/ CreateResolve(p) =>
                 UNCHANGED <<head, refs, objects>> /\ job'[p].pc \in {"create", "ref", "idle"}
           /\ Stop(p) => UNCHANGED <<head, refs, objects>> /\ job'[p].pc = "idle"
  <1>1. /\ job[p] \in JobType /\ job \in [Procs -> JobType] /\ Idle \in JobType
        /\ Idle.pc = "idle" /\ \A j : Set(p, j) => job'[p] = j
    BY JobAfter DEF TypeInv, TypeOK
  <1>2. \A plan, tip, parents : Write(p, plan, tip, parents) =>
           job'[p].pc = "write" /\ job'[p].parents = parents
    BY JobAfter
  <1>3. Commit(p) => UNCHANGED <<head, refs, objects>>
    BY DEF Commit, CommitStart, CommitBase, CommitReadHead, CommitFull, CommitResidual,
           CommitFails
  <1>4. ASSUME CommitStart(p)
        PROVE  job'[p].pc \in {"base", "readHead"}
    <2>1. PICK c : \/ Set(p, [Idle EXCEPT !.pc = "readHead", !.base = c])
                   \/ Set(p, [Idle EXCEPT !.pc = "base", !.br = c])
      BY <1>4 DEF CommitStart
    <2>. QED
      BY <1>1, <2>1 DEF JobType
  <1>5. ASSUME CommitBase(p) \/ CommitReadHead(p)
        PROVE  job'[p].pc \in {"readHead", "plan", "idle"}
    <2>1. PICK c : \/ Set(p, Idle)
                   \/ Set(p, [job[p] EXCEPT !.pc = "readHead", !.base = c])
                   \/ Set(p, [job[p] EXCEPT !.pc = "plan", !.br = c])
      BY <1>5 DEF CommitBase, CommitReadHead, Done
    <2>. QED
      BY <1>1, <2>1 DEF JobType
  <1>6. ASSUME CommitFull(p) \/ CommitResidual(p)
        PROVE  job'[p].pc = "write"
    BY <1>2, <1>6 DEF CommitFull, CommitResidual, CommitPlan
  <1>7. ASSUME CommitFails(p)
         PROVE  job'[p].pc = "idle"
    BY <1>1, <1>7 DEF CommitFails, Done
  <1>8. Merge(p) => UNCHANGED <<head, refs, objects>>
    BY DEF Merge, MergeStart, MergeTip, MergeDecide
  <1>9. ASSUME MergeStart(p) \/ MergeTip(p)
        PROVE  job'[p].pc \in {"mergeTip", "merge", "idle"}
    <2>1. PICK c : \/ Set(p, Idle)
                   \/ Set(p, [Idle EXCEPT !.pc = "mergeTip", !.br = c])
                   \/ Set(p, [job[p] EXCEPT !.pc = "merge", !.tip = c])
      BY <1>9 DEF MergeStart, MergeTip, Done
    <2>. QED
      BY <1>1, <2>1 DEF JobType
  <1>10. ASSUME MergeDecide(p)
         PROVE  \/ job'[p].pc \in {"ref", "idle"}
                \/ job'[p].pc = "write" /\ job'[p].parents # <<>>
    <2>1. CASE Done(p)
      BY <1>1, <2>1 DEF Done
    <2>2. CASE \E c \in Documents : Set(p, [job[p] EXCEPT !.pc = "ref", !.new = c])
      <3>1. PICK c \in Documents : Set(p, [job[p] EXCEPT !.pc = "ref", !.new = c])
        BY <2>2
      <3>. QED
        BY <1>1, <3>1 DEF JobType
    <2>3. CASE \E c \in Documents : \E data : Write(p, FullPlan(data), job[p].tip, <<job[p].tip, c>>)
      <3>1. PICK c \in Documents : \E data : Write(p, FullPlan(data), job[p].tip, <<job[p].tip, c>>)
        BY <2>3
      <3>2. <<job[p].tip, c>> # <<>>
        OBVIOUS
      <3>. QED
        BY <1>2, <3>1, <3>2
    <2>. QED
      BY <1>10, <2>1, <2>2, <2>3 DEF MergeDecide
  <1>11. Put(p) => UNCHANGED <<head, refs>>
    BY DEF Put, PutChunk, PutConfig, PutManifest, PutCheckpoint, WriteCommit
  <1>12. ASSUME PutChunk(p) \/ PutConfig(p) \/ PutManifest(p) \/ PutCheckpoint(p)
         PROVE  job'[p] = job[p] /\ At(p, "write")
    BY <1>12 DEF PutChunk, PutConfig, PutManifest, PutCheckpoint
  <1>13. ASSUME WriteCommit(p)
         PROVE  job'[p].pc = "ref"
    <2>1. PICK n : Set(p, [Idle EXCEPT !.pc = "ref", !.br = job[p].br, !.tip = job[p].tip,
                                       !.new = n])
      BY <1>13 DEF WriteCommit
    <2>. QED
      BY <1>1, <2>1 DEF JobType
  <1>14. ASSUME CreateStart(p) \/ CreateResolve(p)
         PROVE  UNCHANGED <<head, refs, objects>> /\ job'[p].pc \in {"create", "ref", "idle"}
    <2>1. PICK c : \/ Set(p, Idle)
                   \/ Set(p, [Idle EXCEPT !.pc = "create", !.br = c])
                   \/ Set(p, [job[p] EXCEPT !.pc = "ref", !.new = c])
      BY <1>14 DEF CreateStart, CreateResolve, Done
    <2>2. UNCHANGED <<head, refs, objects>>
      BY <1>14 DEF CreateStart, CreateResolve
    <2>. QED
      BY <1>1, <2>1, <2>2 DEF JobType
  <1>15. ASSUME Stop(p)
         PROVE  UNCHANGED <<head, refs, objects>> /\ job'[p].pc = "idle"
    BY <1>1, <1>15 DEF Stop, Done
  <1>16. Commit(p) => job'[p].pc \in {"base", "readHead", "plan", "write", "idle"}
    BY <1>4, <1>5, <1>6, <1>7 DEF Commit
  <1>17. Merge(p) => /\ job'[p].pc \in {"mergeTip", "merge", "ref", "idle", "write"}
                     /\ job'[p].pc = "write" => job'[p].parents # <<>>
    BY <1>9, <1>10 DEF Merge
  <1>18. Put(p) => (job'[p] = job[p] /\ At(p, "write")) \/ job'[p].pc = "ref"
    BY <1>12, <1>13 DEF Put
  <1>. QED
    BY <1>3, <1>8, <1>11, <1>13, <1>14, <1>15, <1>16, <1>17, <1>18

\* A rename looks before it writes.
LEMMA RenameLooks ==
    ASSUME TypeInv, NEW p \in Procs, RenameStart(p) \/ RenameNew(p) \/ RenameRead(p)
    PROVE  /\ UNCHANGED <<head, refs, objects>>
           /\ job'[p].pc \in {"renameNew", "renameRead", "rename", "idle"}
  <1>1. /\ job[p] \in JobType /\ Idle \in JobType /\ Idle.pc = "idle"
        /\ \A j : Set(p, j) => job'[p] = j
    BY JobAfter DEF TypeInv, TypeOK
  <1>2. CASE RenameStart(p)
    <2>1. PICK b \in Branches, c \in Branches, pc \in {"renameRead", "renameNew"} :
              Set(p, [Idle EXCEPT !.pc = pc, !.br = b, !.to = c])
      BY <1>2 DEF RenameStart
    <2>2. job'[p].pc = pc
      BY <1>1, <2>1 DEF JobType
    <2>. QED
      BY <1>2, <2>2 DEF RenameStart
  <1>3. CASE RenameNew(p)
    <2>1. job'[p] \in {Idle, [job[p] EXCEPT !.pc = "renameRead"]}
      BY <1>1, <1>3 DEF RenameNew, Done, Goto
    <2>. QED
      BY <1>1, <1>3, <2>1 DEF RenameNew, JobType
  <1>4. CASE RenameRead(p)
    <2>1. job'[p] \in {Idle, [job[p] EXCEPT !.pc = "rename", !.new = Tip(p)]}
      BY <1>1, <1>4 DEF RenameRead, Done
    <2>. QED
      BY <1>1, <1>4, <2>1 DEF RenameRead, JobType
  <1>. QED
    BY <1>2, <1>3, <1>4

\* What the only command knows of the branch it is about to move or leave.
RefSerial(p) ==
    /\ At(p, "delete") => job[p].br # head.branch
    /\ job[p].pc \in {"unlink", "rereadHead", "reattach"} =>
          job[p].to # job[p].br /\ refs[job[p].to] # 0
    /\ At(p, "checkout") /\ job[p].br # NoBranch => refs[job[p].br] # 0
RefSerialInv == \A p \in Procs : RefSerial(p)

LEMMA RefSerialNext ==
    ASSUME Alone, TypeInv, RefSerialInv, [Next]_vars
    PROVE  RefSerialInv' /\ [ \/ HeadBorn => HeadBorn'
                              \/ \E p \in Procs : At(p, "unlink") /\ job'[p].pc = "rereadHead" ]_vars
  <1>1. CASE UNCHANGED vars
    BY <1>1 DEF vars, RefSerialInv, RefSerial, At
  <1>2. ASSUME NEW p \in Procs,
               \/ Commit(p) \/ Merge(p) \/ Put(p) \/ UpdateRef(p)
               \/ Branch(p) \/ Rename(p) \/ Checkout(p) \/ Stop(p)
        PROVE  RefSerial(p)' /\ (\/ HeadBorn => HeadBorn'
                                 \/ At(p, "unlink") /\ job'[p].pc = "rereadHead")
    <2>1. /\ job[p] \in JobType /\ JobNames(job[p]) /\ job \in [Procs -> JobType]
          /\ refs \in [Branches -> Nat] /\ NoBranch \notin Branches
          /\ RefSerial(p) /\ 0 \notin Documents
          /\ head \in [branch : HeadBranches, commit : Nat]
      <3>1. 0 \notin Documents
        BY LenProperties DEF TypeInv, TypeOK, Documents
      <3>. QED
        BY <3>1, BranchAssumption DEF TypeInv, TypeOK, JobsName, RefSerialInv
    <2>0. /\ \A j : Set(p, j) => job'[p] = j
          /\ Done(p) => job'[p] = Idle
          /\ \A pc : Goto(p, pc) => job'[p] = [job[p] EXCEPT !.pc = pc]
          /\ \A plan, tip, parents : Write(p, plan, tip, parents) =>
                /\ job'[p].pc = "write" /\ job'[p].parents = parents
                /\ job'[p].full = plan.full
          /\ Idle \in JobType /\ Idle.pc = "idle" /\ Idle.base = 0
      BY JobAfter
    <2>. USE <2>0 DEF At, Begin, JobType
    <2>2. CASE /\ UNCHANGED <<head, refs>>
               /\ job'[p].pc \notin {"delete", "unlink", "rereadHead", "reattach", "checkout"}
      BY <2>2 DEF RefSerial, HeadBorn
    <2>3. CASE Commit(p)
      BY <2>2, <2>3, QuietSteps
    <2>4. CASE Merge(p)
      BY <2>2, <2>4, QuietSteps
    <2>5. CASE Put(p)
      BY <2>2, <2>5, QuietSteps
    <2>6. CASE UpdateRef(p)
      BY <2>1, <2>6 DEF UpdateRef, RefSerial, HeadBorn, JobNames
    <2>7. CASE Branch(p)
      <3>1. CASE CreateStart(p) \/ CreateResolve(p)
        BY <2>2, <3>1, QuietSteps
      <3>2. CASE DeleteStart(p)
        BY <2>1, <3>2 DEF DeleteStart, RefSerial, HeadBorn
      <3>3. CASE DeleteRef(p)
        BY <2>1, <3>3 DEF DeleteRef, RefSerial, HeadBorn
      <3>. QED
        BY <2>7, <3>1, <3>2, <3>3 DEF Branch
    <2>8. CASE Rename(p)
      <3>1. CASE RenameStart(p) \/ RenameNew(p) \/ RenameRead(p)
        BY <2>2, <3>1, RenameLooks
      <3>2. CASE RenameRef(p)
        <4>1. job[p].to \in Branches /\ job[p].new # 0
          BY <2>1, <3>2 DEF RenameRef, JobNames
        <4>2. /\ head' = head /\ refs' = [refs EXCEPT ![job[p].to] = job[p].new]
              /\ \/ job'[p] = Idle
                 \/ job[p].to # job[p].br /\ job'[p] = [job[p] EXCEPT !.pc = "unlink"]
          BY <2>1, <3>2 DEF RenameRef
        <4>3. HeadBorn => HeadBorn'
          BY <2>1, <4>1, <4>2 DEF HeadBorn
        <4>4. RefSerial(p)'
          BY <2>1, <4>1, <4>2 DEF RefSerial
        <4>. QED
          BY <4>3, <4>4
      <3>3. CASE RenameUnlink(p)
        <4>1. /\ job[p].br \in Branches /\ job[p].to \in Branches /\ At(p, "unlink")
              /\ job[p].to # job[p].br /\ refs[job[p].to] # 0
          BY <2>1, <3>3 DEF RenameUnlink, JobNames, RefSerial
        <4>2. /\ head' = head /\ refs' = [refs EXCEPT ![job[p].br] = 0]
              /\ \/ job'[p] = Idle /\ refs[job[p].br] = 0
                 \/ job'[p] = [job[p] EXCEPT !.pc = "rereadHead"]
          BY <2>1, <3>3 DEF RenameUnlink, Tip
        <4>3. HeadBorn => HeadBorn' \/ job'[p].pc = "rereadHead"
          BY <2>1, <4>1, <4>2 DEF HeadBorn
        <4>4. RefSerial(p)'
          BY <2>1, <4>1, <4>2 DEF RefSerial
        <4>. QED
          BY <4>1, <4>3, <4>4
      <3>4. CASE RenameReadHead(p)
        <4>1. /\ UNCHANGED <<head, refs>> /\ At(p, "rereadHead")
              /\ \/ job'[p] = Idle
                 \/ job'[p] = [job[p] EXCEPT !.pc = "reattach"]
          BY <2>1, <3>4 DEF RenameReadHead
        <4>. QED
          BY <2>1, <4>1 DEF RefSerial, HeadBorn
      <3>5. CASE RenameHead(p)
        BY <2>1, <3>5 DEF RenameHead, RefSerial, HeadBorn
      <3>. QED
        BY <2>8, <3>1, <3>2, <3>3, <3>4, <3>5 DEF Rename
    <2>9. CASE Checkout(p)
      <3>1. CASE CheckoutStart(p)
        <4>1. UNCHANGED <<head, refs>>
          BY <3>1 DEF CheckoutStart
        <4>2. \/ \E b \in Branches : refs[b] # 0 /\ Set(p, [Idle EXCEPT !.pc = "checkout", !.br = b])
              \/ \E c \in Documents : Set(p, [Idle EXCEPT !.pc = "checkout", !.new = c])
          BY <3>1 DEF CheckoutStart
        <4>3. job'[p].pc = "checkout" /\ (job'[p].br = NoBranch \/ refs[job'[p].br] # 0)
          <5>1. Idle \in JobType /\ Idle.br = NoBranch
            BY <2>1, JobAfter DEF Idle
          <5>2. CASE \E c \in Documents : Set(p, [Idle EXCEPT !.pc = "checkout", !.new = c])
            <6>1. PICK c : Set(p, [Idle EXCEPT !.pc = "checkout", !.new = c])
              BY <5>2
            <6>. QED
              BY <5>1, <6>1
          <5>3. CASE \E b \in Branches :
                        refs[b] # 0 /\ Set(p, [Idle EXCEPT !.pc = "checkout", !.br = b])
            <6>1. PICK b : refs[b] # 0 /\ Set(p, [Idle EXCEPT !.pc = "checkout", !.br = b])
              BY <5>3
            <6>. QED
              BY <5>1, <6>1
          <5>. QED
            BY <4>2, <5>2, <5>3
        <4>. QED
          BY <4>1, <4>3 DEF RefSerial, HeadBorn
      <3>2. CASE CheckoutHead(p)
        BY <2>1, <3>2 DEF CheckoutHead, RefSerial, HeadBorn
      <3>. QED
        BY <2>9, <3>1, <3>2 DEF Checkout
    <2>10. CASE Stop(p)
      BY <2>2, <2>10, QuietSteps
    <2>. QED
      BY <1>2, <2>3, <2>4, <2>5, <2>6, <2>7, <2>8, <2>9, <2>10
  <1>. QED
    BY <1>1, <1>2 DEF Next, Alone, RefSerialInv

\* With one command at a time, wherever it dies, HEAD's branch loses its ref
\* only in the window of a rename of it (repo.py:368-371).
THEOREM SerialHeadStaysBorn ==
    ASSUME Alone
    PROVE  Spec => HeadStaysBorn
  <1>1. Init => RefSerialInv
    BY DEF Init, RefSerialInv, RefSerial, At, Idle
  <1>2. TypeInv /\ RefSerialInv /\ [Next]_vars => RefSerialInv'
    BY RefSerialNext
  <1>3. TypeInv /\ RefSerialInv /\ [Next]_vars
           => [ HeadBorn => \/ HeadBorn'
                            \/ \E p \in Procs : At(p, "unlink") /\ job'[p].pc = "rereadHead" ]_vars
    BY RefSerialNext
  <1>. QED
    BY <1>1, <1>2, <1>3, TypeInit, TypeStep, PTL DEF Spec, HeadStaysBorn

\* A commit that has a base and no --base has HEAD's commit for it, and so a
\* parent: between the two reads of HEAD nobody moves it.
RootSerial(p) ==
    /\ At(p, "base") => job[p].br = head.branch
    /\ At(p, "readHead") /\ job[p].base # 0 /\ head.branch # NoBranch => refs[head.branch] # 0
    /\ At(p, "plan") /\ job[p].base # 0 => refs[job[p].br] # 0
    /\ At(p, "write") => job[p].full \/ job[p].parents # <<>>
RootSerialInv == RootsAreFull /\ \A p \in Procs : RootSerial(p)

LEMMA RootSerialNext ==
    ASSUME Alone, NoBase, TypeInv, RootSerialInv, [Next]_vars
    PROVE  RootSerialInv'
  <1>1. CASE UNCHANGED vars
    BY <1>1 DEF vars, objects, RootSerialInv, RootSerial, RootsAreFull, Commits, Documents, At
  <1>2. ASSUME NEW p \in Procs,
               \/ Commit(p) \/ Merge(p) \/ Put(p) \/ UpdateRef(p)
               \/ Branch(p) \/ Rename(p) \/ Checkout(p) \/ Stop(p)
        PROVE  RootSerial(p)' /\ RootsAreFull'
    <2>1. /\ job[p] \in JobType /\ JobNames(job[p]) /\ job \in [Procs -> JobType]
          /\ RootSerial(p) /\ RootsAreFull /\ NoBranch \notin Branches
      BY BranchAssumption DEF TypeInv, TypeOK, JobsName, RootSerialInv
    <2>2. commits' = commits => RootsAreFull'
      BY <2>1 DEF RootsAreFull, Commits, Documents
    <2>0. /\ \A j : Set(p, j) => job'[p] = j
          /\ Done(p) => job'[p] = Idle
          /\ \A pc : Goto(p, pc) => job'[p] = [job[p] EXCEPT !.pc = pc]
          /\ \A plan, tip, parents : Write(p, plan, tip, parents) =>
                /\ job'[p].pc = "write" /\ job'[p].parents = parents
                /\ job'[p].full = plan.full
          /\ Idle \in JobType /\ Idle.pc = "idle" /\ Idle.base = 0
      BY JobAfter
    <2>. USE <2>0 DEF At, Begin, JobType
    <2>3. CASE commits' = commits /\ job'[p].pc \notin {"base", "readHead", "plan", "write"}
      BY <2>2, <2>3 DEF RootSerial
    <2>4. CASE Commit(p)
      <3>0. commits' = commits /\ UNCHANGED <<head, refs>>
        BY <2>4 DEF Commit, CommitStart, CommitBase, CommitReadHead, CommitFull,
           CommitResidual, CommitFails, objects
      <3>1. CASE CommitStart(p)
        <4>1. \/ /\ head.branch # NoBranch
                 /\ job'[p].pc = "base" /\ job'[p].br = head.branch
              \/ job'[p].pc = "readHead" /\ head.branch = NoBranch
          BY <2>1, <3>1 DEF CommitStart, NoBase
        <4>. QED
          BY <2>2, <3>0, <4>1 DEF RootSerial
      <3>2. CASE CommitBase(p)
        <4>1. /\ job'[p].pc = "readHead" /\ job'[p].base = refs[job[p].br]
              /\ job[p].br = head.branch
          BY <2>1, <3>2 DEF CommitBase, RootSerial
        <4>. QED
          BY <2>2, <3>0, <4>1 DEF RootSerial
      <3>3. CASE CommitReadHead(p)
        <4>1. \/ job'[p].pc = "idle"
              \/ /\ job'[p].pc = "plan" /\ job'[p].br = head.branch
                 /\ job'[p].base = job[p].base /\ head.branch # NoBranch /\ At(p, "readHead")
          <5>1. CASE head.branch = NoBranch
            <6>1. job'[p] = Idle
              BY <3>3, <5>1 DEF CommitReadHead
            <6>. QED
              BY <6>1
          <5>2. CASE head.branch # NoBranch
            <6>1. job'[p] = [job[p] EXCEPT !.pc = "plan", !.br = head.branch] /\ At(p, "readHead")
              BY <3>3, <5>2 DEF CommitReadHead
            <6>. QED
              BY <2>1, <5>2, <6>1
          <5>. QED
            BY <5>1, <5>2
        <4>. QED
          BY <2>1, <2>2, <3>0, <4>1 DEF RootSerial
      <3>4. CASE CommitFull(p)
        <4>1. job'[p].pc = "write" /\ job'[p].full
          <5>1. PICK data \in Inputs : Write(p, FullPlan(data), Tip(p), TipAsParents(p))
            BY <3>4 DEF CommitFull, CommitPlan
          <5>2. FullPlan(data).full
            BY DEF FullPlan
          <5>. QED
            BY <5>1, <5>2
        <4>. QED
          BY <2>2, <3>0, <4>1 DEF RootSerial
      <3>5. CASE CommitResidual(p)
        <4>1. Tip(p) # 0
          BY <2>1, <3>5 DEF CommitResidual, RootSerial, Tip
        <4>2. TipAsParents(p) # <<>>
          BY <4>1 DEF TipAsParents
        <4>3. job'[p].pc = "write" /\ job'[p].parents = TipAsParents(p)
          <5>1. PICK plan : Write(p, plan, Tip(p), TipAsParents(p))
            BY <3>5 DEF CommitResidual, CommitPlan
          <5>. QED
            BY <5>1
        <4>. QED
          BY <2>2, <3>0, <4>2, <4>3 DEF RootSerial
      <3>6. CASE CommitFails(p)
        BY <2>3, <3>0, <3>6 DEF CommitFails
      <3>. QED
        BY <2>4, <3>1, <3>2, <3>3, <3>4, <3>5, <3>6 DEF Commit
    <2>5. CASE Merge(p)
      BY <2>2, <2>5, QuietSteps DEF RootSerial, objects
    <2>6. CASE Put(p)
      <3>1. CASE PutChunk(p) \/ PutManifest(p) \/ PutCheckpoint(p)
        BY <2>1, <2>2, <3>1 DEF PutChunk, PutManifest, PutCheckpoint, RootSerial
      <3>3. CASE PutConfig(p)
        <4>1. Commits' = {}
          BY <3>3 DEF PutConfig, Commits, Documents
        <4>. QED
          BY <2>1, <3>3, <4>1 DEF PutConfig, RootSerial, RootsAreFull
      <3>2. CASE WriteCommit(p)
        <4>1. job'[p].pc = "ref"
          BY <3>2, QuietSteps
        <4>2. CASE commits' = commits
          BY <2>3, <4>1, <4>2
        <4>3. CASE commits' = Append(commits, [parents |-> job[p].parents,
                                               full |-> job[p].full, tree |-> job[p].tree])
          <5>1. commits \in Seq([parents : Seq(Nat), full : BOOLEAN, tree : Trees])
            BY DEF TypeInv, TypeOK
          <5>2. job[p].full \/ job[p].parents # <<>>
            BY <2>1, <3>2 DEF WriteCommit, RootSerial
          <5>3. /\ Len(commits) \in Nat /\ DOMAIN commits = 1..Len(commits)
                /\ Len(commits') = Len(commits) + 1 /\ DOMAIN commits' = 1..Len(commits')
                /\ \A c \in 1..Len(commits) : commits'[c] = commits[c]
                /\ commits'[Len(commits) + 1].parents = job[p].parents
                /\ commits'[Len(commits) + 1].full = job[p].full
            <6>. DEFINE record == [parents |-> job[p].parents,
                                   full |-> job[p].full, tree |-> job[p].tree]
            <6>1. record \in [parents : Seq(Nat), full : BOOLEAN, tree : Trees]
              BY <2>1
            <6>2. record.parents = job[p].parents /\ record.full = job[p].full
              OBVIOUS
            <6>3. commits' = Append(commits, record)
              BY <4>3
            <6>. HIDE DEF record
            <6>. DEFINE R == [parents : Seq(Nat), full : BOOLEAN, tree : Trees]
            <6>0. commits \in Seq(R) /\ record \in R
              BY <5>1, <6>1
            <6>. HIDE DEF R
            <6>4. /\ Append(commits, record) \in Seq(R)
                  /\ Len(Append(commits, record)) = Len(commits) + 1
                  /\ \A c \in 1..Len(commits) : Append(commits, record)[c] = commits[c]
                  /\ Append(commits, record)[Len(commits) + 1] = record
              BY <6>0, AppendProperties
            <6>5. Len(commits) \in Nat /\ DOMAIN commits = 1..Len(commits)
              BY <6>0, LenProperties
            <6>6. DOMAIN Append(commits, record) = 1..Len(Append(commits, record))
              BY <6>4, LenProperties
            <6>. QED
              BY <6>2, <6>3, <6>4, <6>5, <6>6
          <5>4. RootsAreFull'
            <6>0. Len(commits) \in Nat
              BY <5>3
            <6>1. \A c \in 1..(Len(commits) + 1) : c \in 1..Len(commits) \/ c = Len(commits) + 1
              BY ONLY <6>0
            <6>. QED
              BY <2>1, <5>2, <5>3, <6>1 DEF RootsAreFull, Commits, Documents
          <5>. QED
            BY <4>1, <5>4 DEF RootSerial
        <4>. QED
          BY <3>2, <4>2, <4>3 DEF WriteCommit
      <3>. QED
        BY <2>6, <3>1, <3>2, <3>3 DEF Put
    <2>7. CASE UpdateRef(p) \/ DeleteRef(p) \/ RenameHead(p) \/ CheckoutHead(p)
      BY <2>3, <2>7 DEF UpdateRef, DeleteRef, RenameHead, CheckoutHead, objects
    <2>8. CASE CreateStart(p) \/ CreateResolve(p) \/ Stop(p)
      BY <2>3, <2>8, QuietSteps DEF objects
    <2>9. CASE DeleteStart(p)
      BY <2>1, <2>3, <2>9 DEF DeleteStart, objects
    <2>10. CASE CheckoutStart(p)
      <3>1. commits' = commits
        BY <2>10 DEF CheckoutStart, objects
      <3>2. PICK c : \/ Set(p, [Idle EXCEPT !.pc = "checkout", !.br = c])
                     \/ Set(p, [Idle EXCEPT !.pc = "checkout", !.new = c])
        BY <2>10 DEF CheckoutStart
      <3>3. job'[p].pc = "checkout"
        BY <3>2
      <3>. QED
        BY <2>3, <3>1, <3>3
    <2>12. CASE RenameStart(p) \/ RenameNew(p) \/ RenameRead(p)
      BY <2>3, <2>12, RenameLooks DEF objects
    <2>11. CASE RenameRef(p) \/ RenameUnlink(p) \/ RenameReadHead(p)
      <3>1. commits' = commits
        BY <2>11 DEF RenameRef, RenameUnlink, RenameReadHead, objects
      <3>2. Done(p) \/ \E pc \in {"unlink", "rereadHead", "reattach"} : Goto(p, pc)
        BY <2>11 DEF RenameRef, RenameUnlink, RenameReadHead
      <3>3. job'[p].pc \in {"idle", "unlink", "rereadHead", "reattach"}
        <4>1. CASE Done(p)
          BY <4>1
        <4>2. ASSUME NEW pc \in {"unlink", "rereadHead", "reattach"}, Goto(p, pc)
              PROVE  job'[p].pc = pc
          <5>1. job'[p] = [job[p] EXCEPT !.pc = pc]
            BY <4>2
          <5>. QED
            BY <2>1, <5>1
        <4>. QED
          BY <3>2, <4>1, <4>2
      <3>. QED
        BY <2>3, <3>1, <3>3
    <2>. QED
      BY <1>2, <2>4, <2>5, <2>6, <2>7, <2>8, <2>9, <2>10, <2>11, <2>12
         DEF Branch, Rename, Checkout
  <1>3. CASE Next
    <2>1. PICK p \in Procs : \/ Commit(p) \/ Merge(p) \/ Put(p) \/ UpdateRef(p)
                             \/ Branch(p) \/ Rename(p) \/ Checkout(p) \/ Stop(p)
      BY <1>3 DEF Next
    <2>2. \A q \in Procs : q = p
      BY DEF Alone
    <2>. QED
      BY <1>2, <2>1, <2>2 DEF RootSerialInv
  <1>. QED
    BY <1>1, <1>3

\* With one command at a time, wherever it dies, and no --base, every root is
\* full, which the anchor walk takes for granted (graph.py:246).
THEOREM SerialRootsAreFull ==
    ASSUME Alone, NoBase
    PROVE  Spec => []RootsAreFull
  <1>1. Init => RootSerialInv
    <2>. SUFFICES ASSUME Init PROVE RootSerialInv
      OBVIOUS
    <2>1. commits = <<>> /\ Commits = {}
      BY DEF Init, Commits, Documents
    <2>2. \A p \in Procs : job[p].pc = "idle"
      BY DEF Init, Idle
    <2>. QED
      BY <2>1, <2>2 DEF RootSerialInv, RootSerial, RootsAreFull, At
  <1>2. TypeInv /\ RootSerialInv /\ [Next]_vars => RootSerialInv'
    BY RootSerialNext
  <1>. QED
    BY <1>1, <1>2, TypeInit, TypeStep, PTL DEF Spec, RootSerialInv
=============================================================================
