--------------------------- MODULE TransferProof ---------------------------
(***************************************************************************)
(* Proofs about Transfer, for any repositories, clients, objects, bounds   *)
(* and faults: the type invariant, StoresClosed, and that every repository *)
(* implements ContentStore; ReadOnlyKept; and, where one process at most   *)
(* receives in each repository (SoleReceiver), FilesWhole, NothingResent   *)
(* and PushLands.                                                          *)
(*                                                                         *)
(* StoresClosed is not inductive.  A receiver installs the i-th object of  *)
(* its list, and what that object names is present because it is in the    *)
(* list before it: so the invariant has to say that a receiver's list is a *)
(* listing, that everything before its place in it is present, and that    *)
(* what it takes for present is.  A temporary ref file may have been       *)
(* written by another process, so these name present commits too.          *)
(*                                                                         *)
(* The rest needs to know what the bytes on their way are.  No length says *)
(* which file it is of: sender and receiver each go through the list, and  *)
(* leave out what the flags say is present.  The invariant Sessions says   *)
(* that the two ends of a connection agree: which stage of the protocol    *)
(* each is at, that both hold one list and one set of flags, and that each *)
(* message in the stream belongs to the next place of the list that is     *)
(* wanted (Carries), up to the place the sender has come to (UpTo) as long *)
(* as nothing was cut.  FilesInv says what the receiver has written.       *)
(***************************************************************************)
EXTENDS Transfer, TLAPS

Receiving == {"recv", "data", "rename", "refWrite", "refRename"}
Working == Receiving \cup {"flags", "send", "check"}
Taking == {"status", "list", "check", "recv", "data", "rename"}
Busy == Working \cup {"status", "walk", "list"}

\* What holds of a process that is doing j where the objects in present are.
Fits(j, present) ==
    /\ j.pc \in Busy => j.peer \in Clients /\ j.br \in Branches
    /\ j.pc \in Working => j.list \in Items(Listing)
    /\ j.pc \in Taking => j.have \subseteq present
    /\ j.pc \in Receiving =>
          \A k \in DOMAIN j.list : k < j.i => j.list[k] \in present
    /\ j.pc \in {"data", "rename"} => j.i \in DOMAIN j.list
    /\ j.pc \in {"refWrite", "refRename"} => j.i > Len(j.list)
    /\ j.at # "none" => j.pc \in {"data", "refWrite"}

JobsOK == \A p \in Procs : Fits(job[p], Present(Place(p)))
PartsNamed == \A r \in Repos, b \in Branches : part[r][b] \in {NoFile, Empty} \cup Present(r)

IInv == TypeOK /\ StoresClosed /\ PartsNamed /\ JobsOK

WireType == wire \in [Ends -> Seq(Messages)] /\ ends \subseteq Ends
ResultType == /\ result \in [Clients -> {"none", "ok", "failed"}]
              /\ runs \in [Clients -> Nat] /\ faults \in Nat

-----------------------------------------------------------------------------
(* Streams.                                                                *)

\* Reading a message leaves a stream of messages.
LEMMA TakeType ==
    ASSUME WireType, NEW p \in Procs, wire[In(p)] # <<>>, Take(p)
    PROVE  wire' \in [Ends -> Seq(Messages)]
  <1>1. CASE In(p) \in Ends
    <2>1. wire[In(p)] \in Seq(Messages)
      BY <1>1 DEF WireType
    <2>2. Tail(wire[In(p)]) \in Seq(Messages)
      BY <2>1
    <2>. QED
      BY <1>1, <2>2 DEF WireType, Take
  <1>2. CASE In(p) \notin Ends
    BY <1>2 DEF WireType, Take
  <1>. QED
    BY <1>1, <1>2

\* So does cutting it off, and so does closing an end.
LEMMA CutType ==
    ASSUME NEW s \in Seq(Messages), NEW n \in 0..Len(s)
    PROVE  SubSeq(s, 1, n) \in Seq(Messages)
  OBVIOUS

LEMMA NilType == <<>> \in Seq(Messages)
  OBVIOUS

LEMMA ResetType ==
    ASSUME WireType, NEW p \in Procs, Reset(p)
    PROVE  WireType'
  <1>1. PICK n \in 0..Len(wire[Out(p)]) :
            wire' = [wire EXCEPT ![In(p)] = <<>>, ![Out(p)] = SubSeq(@, 1, n)]
    BY DEF Reset
  <1>2. In(p) # Out(p)
    BY ProcsAssumption DEF In, Out, Procs
  <1>3. wire' = [wire EXCEPT ![In(p)] = <<>>, ![Out(p)] = SubSeq(wire[Out(p)], 1, n)]
    BY <1>1, <1>2
  <1>4. Out(p) \in Ends => SubSeq(wire[Out(p)], 1, n) \in Seq(Messages)
    BY <1>1, CutType DEF WireType
  <1>5. wire' \in [Ends -> Seq(Messages)]
    BY <1>3, <1>4, NilType DEF WireType
  <1>6. ends' \subseteq Ends
    BY DEF Reset, WireType
  <1>. QED
    BY <1>5, <1>6 DEF WireType

LEMMA CloseType ==
    ASSUME WireType, NEW p \in Procs, Close(p)
    PROVE  WireType'
  BY NilType DEF WireType, Close

\* Appending messages to a stream.
LEMMA AfterType ==
    ASSUME WireType, NEW p \in Procs, NEW m \in Seq(Messages), Out(p) \in Ends
    PROVE  After(p, m) \in Seq(Messages)
  <1>1. wire[Out(p)] \in Seq(Messages)
    BY DEF WireType
  <1>2. wire[Out(p)] \o m \in Seq(Messages)
    BY <1>1
  <1>. QED
    BY <1>1, <1>2 DEF After

LEMMA SendType ==
    ASSUME WireType, NEW p \in Procs, NEW m \in Seq(Messages),
           wire' = [wire EXCEPT ![Out(p)] = After(p, m)]
    PROVE  wire' \in [Ends -> Seq(Messages)]
  <1>1. CASE Out(p) \in Ends
    BY <1>1, AfterType DEF WireType
  <1>2. CASE Out(p) \notin Ends
    BY <1>2 DEF WireType
  <1>. QED
    BY <1>1, <1>2

LEMMA ClosingType ==
    ASSUME WireType, NEW p \in Procs, NEW m \in Seq(Messages), Closing(p, m)
    PROVE  WireType'
  <1>1. wire' \in [Ends -> Seq(Messages)]
    <2>1. Out(p) \in Ends => After(p, m) \in Seq(Messages)
      BY AfterType
    <2>2. wire' = [wire EXCEPT ![In(p)] = <<>>, ![Out(p)] = After(p, m)]
      BY DEF Closing
    <2>. QED
      BY <2>1, <2>2, NilType DEF WireType
  <1>2. ends' \subseteq Ends
    BY DEF Closing, WireType
  <1>. QED
    BY <1>1, <1>2 DEF WireType

\* What arrives is of its kind.
LEMMA ReceivedType ==
    ASSUME WireType, NEW p \in Procs, In(p) \in Ends
    PROVE  /\ Arrived(p, "list") => Received(p) \in Items(Listing)
           /\ Arrived(p, "flags") => Received(p) \in SUBSET ObjectIds
           /\ Arrived(p, "data") => Received(p) \in Contents \ {NoFile}
  <1>1. wire[In(p)] \in Seq(Messages)
    BY DEF WireType
  <1>2. wire[In(p)] # <<>> => Head(wire[In(p)]) \in Messages
    BY <1>1
  <1>. DEFINE m == Head(wire[In(p)])
  <1>3. m \in Messages => /\ m.kind = "list" => m.of \in Items(Listing)
                          /\ m.kind = "flags" => m.of \in SUBSET ObjectIds
                          /\ m.kind = "data" => m.of \in Contents \ {NoFile}
    <2>. HIDE DEF m
    <2>. QED
      BY DEF Messages
  <1>. QED
    BY <1>2, <1>3 DEF Arrived, Received

-----------------------------------------------------------------------------
(* Steps of one process.                                                   *)

LEMMA PlaceType == ASSUME NEW p \in Procs PROVE Place(p) \in Repos
  BY ProcsAssumption DEF Place, Procs

LEMMA InType ==
    ASSUME NEW p \in Procs, job[p].peer \in Clients
    PROVE  In(p) \in Ends /\ Out(p) \in Ends
  BY DEF In, Out, Ends

\* A listing: its items are objects, what they name comes before them, and
\* the last is a commit.
LEMMA ListingFacts ==
    ASSUME NEW l \in Items(Listing)
    PROVE  /\ l \in Seq(ObjectIds) /\ Len(l) \in DOMAIN l
           /\ \A k \in DOMAIN l : l[k] \in ObjectIds
           /\ \A k \in DOMAIN l : Needs[l[k]] \subseteq {l[j] : j \in 1..(k - 1)}
  <1>1. PICK t \in Tips : l = Listing[t]
    BY ListingAssumption DEF Items
  <1>2. l \in Seq(ObjectIds) /\ l # <<>>
    BY <1>1, ListingAssumption
  <1>3. \A k \in DOMAIN l : Needs[l[k]] \subseteq {l[j] : j \in 1..(k - 1)}
    BY <1>1, ListingAssumption
  <1>. QED
    BY <1>2, <1>3

LEMMA JobFits ==
    ASSUME NEW pc \in {"idle", "accept", "down", "status", "walk", "list"},
           NEW op \in {"none", "push", "pull"}, NEW peer \in Procs,
           NEW br \in Branches \cup {NoFile}, NEW present,
           pc \in Busy => peer \in Clients /\ br \in Branches
    PROVE  Job(pc, op, peer, br) \in JobType /\ Fits(Job(pc, op, peer, br), present)
  <1>1. <<>> \in Seq(ObjectIds) /\ {} \in SUBSET ObjectIds /\ 1 \in Nat \ {0} /\ pc \in Steps
    BY DEF Steps
  <1>2. Job(pc, op, peer, br) \in JobType
    BY <1>1 DEF Job, JobType
  <1>3. Fits(Job(pc, op, peer, br), present)
    BY DEF Job, Fits, Busy, Working, Receiving
  <1>. QED
    BY <1>2, <1>3

LEMMA RestingFits ==
    ASSUME NEW p \in Procs, NEW present
    PROVE  Resting(p) \in JobType /\ Fits(Resting(p), present)
  <1>. DEFINE rest == IF p \in Clients THEN "idle" ELSE "accept"
  <1>1. rest \in {"idle", "accept"} /\ rest \notin Busy
    BY DEF Busy, Working, Receiving
  <1>. HIDE DEF rest
  <1>2. Job(rest, "none", p, NoFile) \in JobType /\ Fits(Job(rest, "none", p, NoFile), present)
    BY <1>1, JobFits
  <1>. QED
    BY <1>2 DEF Resting, rest

\* A step that changes no file and the work of one process alone.
LEMMA OneJob ==
    ASSUME IInv, NEW p \in Procs, NEW new \in JobType, Fits(new, Present(Place(p))),
           job' = [job EXCEPT ![p] = new], UNCHANGED files, WireType', ResultType'
    PROVE  IInv'
  <1>1. final' = final /\ part' = part
    BY DEF files
  <1>2. \A r : Present(r)' = Present(r)
    BY <1>1 DEF Present
  <1>3. job' \in [Procs -> JobType]
    BY DEF IInv, TypeOK
  <1>4. TypeOK'
    BY <1>1, <1>3 DEF IInv, TypeOK, WireType, ResultType
  <1>5. StoresClosed' /\ PartsNamed'
    BY <1>1, <1>2 DEF IInv, StoresClosed, PartsNamed
  <1>6. ASSUME NEW q \in Procs PROVE Fits(job'[q], Present(Place(q))')
    <2>1. Place(q)' = Place(q)
      BY DEF Place
    <2>2. job'[q] = IF q = p THEN new ELSE job[q]
      BY DEF IInv, TypeOK
    <2>3. Fits(job'[q], Present(Place(q)))
      BY <2>2 DEF IInv, JobsOK
    <2>. QED
      BY <1>2, <2>1, <2>3 DEF Fits
  <1>. QED
    BY <1>4, <1>5, <1>6 DEF IInv, JobsOK

LEMMA TypeParts ==
    ASSUME IInv
    PROVE  /\ WireType /\ ResultType
           /\ job \in [Procs -> JobType]
           /\ \A p \in Procs : /\ job[p] \in JobType
                               /\ Fits(job[p], Present(Place(p)))
                               /\ job[p].pc \in Busy => In(p) \in Ends /\ Out(p) \in Ends
  <1>1. WireType /\ ResultType /\ job \in [Procs -> JobType]
    BY DEF IInv, TypeOK, WireType, ResultType
  <1>2. ASSUME NEW p \in Procs PROVE Fits(job[p], Present(Place(p))) /\ job[p] \in JobType
    BY <1>1, <1>2 DEF IInv, JobsOK
  <1>3. ASSUME NEW p \in Procs, job[p].pc \in Busy PROVE In(p) \in Ends /\ Out(p) \in Ends
    BY <1>2, <1>3, InType DEF Fits
  <1>. QED
    BY <1>1, <1>2, <1>3

\* A process that is done with its connection.
LEMMA RestStep ==
    ASSUME IInv, NEW p \in Procs, NEW how \in {"ok", "failed"}, Rest(p, how),
           UNCHANGED files, WireType', runs' \in [Clients -> Nat], faults' \in Nat
    PROVE  IInv'
  <1>1. ResultType'
    BY TypeParts DEF Rest, ResultType
  <1>2. job' = [job EXCEPT ![p] = Resting(p)]
    BY DEF Rest, Become
  <1>. QED
    BY <1>1, <1>2, OneJob, RestingFits

\* A process that gets on with its work without touching a file.
LEMMA WorkStep ==
    ASSUME IInv, NEW p \in Procs, NEW new \in JobType, Fits(new, Present(Place(p))),
           job' = [job EXCEPT ![p] = new], UNCHANGED <<files, ends, result, counts>>,
           wire' \in [Ends -> Seq(Messages)]
    PROVE  IInv'
  <1>1. WireType' /\ ResultType'
    BY TypeParts DEF WireType, ResultType, counts
  <1>. QED
    BY <1>1, OneJob

-----------------------------------------------------------------------------
(* Steps that touch files.                                                 *)

\* Changing one entry of a function of functions.
LEMMA EntryType ==
    ASSUME NEW S, NEW T, NEW V, NEW f \in [S -> [T -> V]],
           NEW r \in S, NEW x \in T, NEW v \in V
    PROVE  /\ [f EXCEPT ![r][x] = v] \in [S -> [T -> V]]
           /\ \A s \in S, y \in T :
                 [f EXCEPT ![r][x] = v][s][y] = IF s = r /\ y = x THEN v ELSE f[s][y]
  <1>1. [f[r] EXCEPT ![x] = v] \in [T -> V]
    OBVIOUS
  <1>2. [f EXCEPT ![r][x] = v] = [f EXCEPT ![r] = [f[r] EXCEPT ![x] = v]]
    OBVIOUS
  <1>. QED
    BY <1>1, <1>2

\* What is written at a name does no harm: an object comes after what it
\* names, and a ref is empty or names an object that is present.
LEMMA FilesStep ==
    ASSUME IInv, NEW r \in Repos, NEW x \in Paths,
           NEW u \in Contents, x \in Branches => u \in {NoFile, Empty} \cup Present(r),
           NEW v \in Contents \ {NoFile},
           final' = final \/ /\ final' = [final EXCEPT ![r][x] = v]
                             /\ x \in ObjectIds => Needs[x] \subseteq Present(r)
                             /\ x \in Branches => v \in {Empty} \cup Present(r),
           part' = part \/ part' = [part EXCEPT ![r][x] = u]
    PROVE  /\ final' \in [Repos -> [Paths -> Contents]]
           /\ part' \in [Repos -> [Paths -> Contents]]
           /\ \A s \in Repos : Present(s) \subseteq Present(s)'
           /\ final' # final /\ x \in ObjectIds => x \in Present(r)'
           /\ StoresClosed' /\ PartsNamed'
  <1>1. /\ final \in [Repos -> [Paths -> Contents]]
        /\ part \in [Repos -> [Paths -> Contents]]
        /\ StoresClosed /\ PartsNamed
    BY DEF IInv, TypeOK
  <1>2. ObjectIds \subseteq Paths /\ Branches \subseteq Paths
    BY DEF Paths
  <1>. DEFINE newPart == [part EXCEPT ![r][x] = u]
              newFinal == [final EXCEPT ![r][x] = v]
  <1>3. /\ newPart \in [Repos -> [Paths -> Contents]]
        /\ \A s \in Repos, y \in Paths :
              newPart[s][y] = IF s = r /\ y = x THEN u ELSE part[s][y]
    BY <1>1, EntryType
  <1>4. /\ newFinal \in [Repos -> [Paths -> Contents]]
        /\ \A s \in Repos, y \in Paths :
              newFinal[s][y] = IF s = r /\ y = x THEN v ELSE final[s][y]
    BY <1>1, EntryType
  <1>. HIDE DEF newPart, newFinal
  <1>10. (final' = final \/ final' = newFinal) /\ (part' = part \/ part' = newPart)
    BY DEF newPart, newFinal
  <1>11. /\ final' \in [Repos -> [Paths -> Contents]]
         /\ \A s \in Repos, y \in Paths :
               final'[s][y] = IF final' # final /\ s = r /\ y = x THEN v ELSE final[s][y]
    <2>1. CASE final' = final
      BY <1>1, <2>1
    <2>2. CASE final' = newFinal /\ final' # final
      BY <1>4, <2>2
    <2>. QED
      BY <1>10, <2>1, <2>2
  <1>12. /\ part' \in [Repos -> [Paths -> Contents]]
         /\ \A s \in Repos, y \in Paths :
               part'[s][y] = IF part' # part /\ s = r /\ y = x THEN u ELSE part[s][y]
    <2>1. CASE part' = part
      BY <1>1, <2>1
    <2>2. CASE part' = newPart /\ part' # part
      BY <1>3, <2>2
    <2>. QED
      BY <1>10, <2>1, <2>2
  <1>5. /\ \A s \in Repos, y \in Paths :
              /\ final'[s][y] = IF final' # final /\ s = r /\ y = x THEN v ELSE final[s][y]
              /\ part'[s][y] = IF part' # part /\ s = r /\ y = x THEN u ELSE part[s][y]
        /\ part' \in [Repos -> [Paths -> Contents]]
        /\ final' \in [Repos -> [Paths -> Contents]]
    BY <1>11, <1>12
  <1>6. \A s \in Repos : Present(s) \subseteq Present(s)'
    BY <1>2, <1>5 DEF Present
  <1>7. final' # final /\ x \in ObjectIds => x \in Present(r)'
    BY <1>5 DEF Present
  <1>8. PartsNamed'
    <2>. SUFFICES ASSUME NEW s \in Repos, NEW b \in Branches
                  PROVE  part'[s][b] \in {NoFile, Empty} \cup Present(s)'
      BY DEF PartsNamed
    <2>1. part[s][b] \in {NoFile, Empty} \cup Present(s)
      BY <1>1 DEF PartsNamed
    <2>. QED
      BY <2>1, <1>2, <1>5, <1>6
  <1>9. StoresClosed'
    <2>1. ASSUME NEW s \in Repos, NEW o \in Present(s)'
          PROVE  Needs[o] \subseteq Present(s)'
      <3>1. o \in ObjectIds /\ (o \in Present(s) \/ (s = r /\ o = x /\ final' # final))
        BY <2>1, <1>2, <1>5 DEF Present
      <3>2. Needs[o] \subseteq Present(s)
        BY <3>1, <1>1 DEF StoresClosed
      <3>. QED
        BY <3>2, <1>6
    <2>2. ASSUME NEW s \in Repos, NEW b \in Branches
          PROVE  final'[s][b] \in {NoFile, Empty} \cup Present(s)'
      <3>1. final[s][b] \in {NoFile, Empty} \cup Present(s)
        BY <1>1 DEF StoresClosed
      <3>. QED
        BY <3>1, <1>2, <1>5, <1>6
    <2>. QED
      BY <2>1, <2>2 DEF StoresClosed
  <1>. QED
    BY <1>5, <1>6, <1>7, <1>8, <1>9

\* More objects do not make a process's work wrong.
LEMMA FitsGrows ==
    ASSUME NEW j, NEW few, NEW many, Fits(j, few), few \subseteq many
    PROVE  Fits(j, many)
  BY DEF Fits

\* Nor does it matter to a process where its open file went.
LEMMA MovedFits ==
    ASSUME IInv, NEW p \in Procs, NEW to \in {"final", "lost"}
    PROVE  /\ Moved(p, to) \in [Procs -> JobType]
           /\ \A q \in Procs : Fits(Moved(p, to)[q], Present(Place(q)))
  <1>1. \A q \in Procs : job[q] \in JobType /\ Fits(job[q], Present(Place(q)))
    BY TypeParts
  <1>2. ASSUME NEW q \in Procs
        PROVE  Moved(p, to)[q] \in JobType /\ Fits(Moved(p, to)[q], Present(Place(q)))
    <2>1. CASE Moved(p, to)[q] = job[q]
      BY <1>1, <2>1
    <2>2. ASSUME NEW at \in {"final", "lost"}, job[q].at # "none",
                 Moved(p, to)[q] = [job[q] EXCEPT !.at = at]
          PROVE  Moved(p, to)[q] \in JobType /\ Fits(Moved(p, to)[q], Present(Place(q)))
      <3>. DEFINE j == [job[q] EXCEPT !.at = at]
      <3>1. j \in JobType
        BY <1>1 DEF JobType
      <3>2. /\ j.pc = job[q].pc /\ j.peer = job[q].peer /\ j.br = job[q].br
            /\ j.list = job[q].list /\ j.have = job[q].have /\ j.i = job[q].i
        BY <1>1 DEF JobType
      <3>3. job[q].pc \in {"data", "refWrite"}
        BY <1>1, <2>2 DEF Fits
      <3>. HIDE DEF j
      <3>4. Fits(j, Present(Place(q)))
        BY <1>1, <3>2, <3>3 DEF Fits
      <3>. QED
        BY <3>1, <3>4, <2>2 DEF j
    <2>3. \/ Moved(p, to)[q] = job[q]
          \/ \E at \in {"final", "lost"} : job[q].at # "none"
                                          /\ Moved(p, to)[q] = [job[q] EXCEPT !.at = at]
      BY DEF Moved, Sharing
    <2>. QED
      BY <2>1, <2>2, <2>3
  <1>3. DOMAIN Moved(p, to) = Procs /\ Moved(p, to) = [q \in Procs |-> Moved(p, to)[q]]
    BY DEF Moved
  <1>. QED
    BY <1>2, <1>3

\* A step that changes files and, in the work of the others, only where
\* their open file is.
LEMMA FileJob ==
    ASSUME IInv, NEW p \in Procs, NEW new \in JobType, Fits(new, Present(Place(p))'),
           NEW jobs \in [Procs -> JobType], \A q \in Procs : Fits(jobs[q], Present(Place(q))),
           job' = [jobs EXCEPT ![p] = new],
           final' \in [Repos -> [Paths -> Contents]],
           part' \in [Repos -> [Paths -> Contents]],
           \A s \in Repos : Present(s) \subseteq Present(s)',
           StoresClosed', PartsNamed', WireType', ResultType'
    PROVE  IInv'
  <1>1. job' \in [Procs -> JobType]
    OBVIOUS
  <1>2. TypeOK'
    BY <1>1 DEF TypeOK, WireType, ResultType
  <1>3. ASSUME NEW q \in Procs PROVE Fits(job'[q], Present(Place(q))')
    <2>1. Place(q)' = Place(q) /\ Place(q) \in Repos
      BY PlaceType DEF Place
    <2>2. Fits(jobs[q], Present(Place(q))')
      BY <2>1, FitsGrows
    <2>3. job'[q] = IF q = p THEN new ELSE jobs[q]
      OBVIOUS
    <2>. QED
      BY <2>1, <2>2, <2>3
  <1>. QED
    BY <1>2, <1>3 DEF IInv, JobsOK

-----------------------------------------------------------------------------
(* Every action keeps the invariant.                                       *)

LEMMA MessageTypes ==
    /\ \A l \in Items(Listing) : <<Message("list", l)>> \in Seq(Messages)
    /\ \A s \in SUBSET ObjectIds : <<Message("flags", s)>> \in Seq(Messages)
    /\ <<Message("error", {})>> \in Seq(Messages)
    /\ \A v \in Contents \ {NoFile} :
          <<Message("size", {}), Message("data", v)>> \in Seq(Messages)
    /\ \A k \in Commands : <<Message("request", k)>> \in Seq(Messages)
    /\ \A a \in BOOLEAN : Message("status", a) \in Messages
  <1>1. /\ \A l \in Items(Listing) : Message("list", l) \in Messages
        /\ \A s \in SUBSET ObjectIds : Message("flags", s) \in Messages
    BY DEF Message, Messages
  <1>2. /\ Message("error", {}) \in Messages /\ Message("size", {}) \in Messages
        /\ \A v \in Contents \ {NoFile} : Message("data", v) \in Messages
    BY DEF Message, Messages
  <1>3. /\ \A k \in Commands : Message("request", k) \in Messages
        /\ \A a \in BOOLEAN : Message("status", a) \in Messages
    BY DEF Message, Messages
  <1>. QED
    BY <1>1, <1>2, <1>3

LEMMA CountsType == ASSUME IInv PROVE runs \in [Clients -> Nat] /\ faults \in Nat
  BY DEF IInv, TypeOK

LEMMA StartKeeps == ASSUME IInv, NEW c \in Clients, Start(c) PROVE IInv'
  <1>1. PICK command \in Commands :
          /\ runs' = [runs EXCEPT ![c] = @ + 1]
          /\ IF At(command.to, "down")
             THEN /\ result' = [result EXCEPT ![c] = "failed"]
                  /\ UNCHANGED <<job, wire, ends>>
             ELSE /\ Become(c, Job("status", command.op, c, command.br))
                  /\ ends' = ends \cup {<<c, "client">>, <<c, "server">>}
                  /\ wire' = [wire EXCEPT ![<<c, "client">>] = <<>>,
                                          ![<<c, "server">>] = <<Message("request", command)>>]
                  /\ result' = [result EXCEPT ![c] = "none"]
    BY DEF Start, Become
  <1>2. c \in Procs /\ UNCHANGED files /\ faults' = faults
    BY DEF Start, Procs
  <1>3. runs' \in [Clients -> Nat] /\ faults' \in Nat
    BY <1>1, <1>2, CountsType
  <1>4. ResultType'
    <2>1. result' \in [Clients -> {"none", "ok", "failed"}]
      BY <1>1, TypeParts DEF ResultType
    <2>. QED
      BY <2>1, <1>3 DEF ResultType
  <1>5. WireType'
    <2>1. <<Message("request", command)>> \in Seq(Messages)
      BY MessageTypes
    <2>2. wire' \in [Ends -> Seq(Messages)]
      BY <1>1, <2>1, NilType, TypeParts DEF WireType
    <2>3. ends' \subseteq Ends
      BY <1>1, TypeParts DEF WireType, Ends
    <2>. QED
      BY <2>2, <2>3 DEF WireType
  <1>6. CASE At(command.to, "down")
    <2>1. job' = [job EXCEPT ![c] = job[c]]
      BY <1>1, <1>6, TypeParts
    <2>. QED
      BY <2>1, <1>2, <1>4, <1>5, OneJob, TypeParts
  <1>7. CASE ~At(command.to, "down")
    <2>1. command.op \in {"none", "push", "pull"} /\ command.br \in Branches
      BY CommandsAssumption
    <2>. DEFINE new == Job("status", command.op, c, command.br)
    <2>2. new \in JobType /\ Fits(new, Present(Place(c)))
      BY <1>2, <2>1, JobFits
    <2>. HIDE DEF new
    <2>3. job' = [job EXCEPT ![c] = new]
      BY <1>1, <1>7 DEF new, Become
    <2>. QED
      BY <2>2, <2>3, <1>2, <1>4, <1>5, OneJob
  <1>. QED
    BY <1>6, <1>7

LEMMA AcceptKeeps == ASSUME IInv, NEW r \in Repos, Accept(r) PROVE IInv'
  <1>1. PICK c \in Clients :
          /\ Request(r, c)
          /\ LET command == Head(wire[<<c, "server">>]).of
                 reply == Message("status", Accepts(r, command))
             IN  /\ wire' = [wire EXCEPT ![<<c, "server">>] = <<>>,
                               ![<<c, "client">>] =
                                   IF <<c, "client">> \in ends THEN Append(@, reply) ELSE @]
                 /\ IF Accepts(r, command)
                    THEN /\ Become(r, Job(IF command.op = "push" THEN "list" ELSE "walk",
                                       command.op, c, command.br))
                         /\ ends' = ends
                    ELSE /\ job' = job
                         /\ ends' = ends \ {<<c, "server">>}
    BY DEF Accept, Become
  <1>. DEFINE command == Head(wire[<<c, "server">>]).of
  <1>2. /\ r \in Procs /\ UNCHANGED files /\ UNCHANGED <<result, counts>>
    BY DEF Accept, Procs
  <1>3. command \in Commands
    <2>1. wire[<<c, "server">>] \in Seq(Messages) /\ wire[<<c, "server">>] # <<>>
      BY <1>1, TypeParts DEF WireType, Ends, Request
    <2>2. Head(wire[<<c, "server">>]) \in Messages
      BY <2>1
    <2>3. Head(wire[<<c, "server">>]).kind = "request"
      BY <1>1 DEF Request
    <2>. QED
      BY <2>2, <2>3 DEF Messages
  <1>. HIDE DEF command
  <1>4. Accepts(r, command) \in BOOLEAN
    BY DEF Accepts
  <1>5. WireType'
    <2>1. Message("status", Accepts(r, command)) \in Messages
      BY <1>4, MessageTypes
    <2>. DEFINE reply == Message("status", Accepts(r, command))
                more == IF <<c, "client">> \in ends THEN Append(wire[<<c, "client">>], reply)
                        ELSE wire[<<c, "client">>]
    <2>2. <<c, "client">> \in Ends /\ <<c, "server">> \in Ends /\ <<c, "client">> # <<c, "server">>
      BY DEF Ends
    <2>3. wire[<<c, "client">>] \in Seq(Messages)
      BY <2>2, TypeParts DEF WireType
    <2>4. more \in Seq(Messages)
      BY <2>1, <2>3
    <2>5. wire' = [wire EXCEPT ![<<c, "server">>] = <<>>, ![<<c, "client">>] = more]
      BY <1>1, <2>2 DEF command
    <2>. HIDE DEF more
    <2>6. wire' \in [Ends -> Seq(Messages)]
      BY <2>4, <2>5, NilType, TypeParts DEF WireType
    <2>7. ends' \subseteq Ends
      BY <1>1, TypeParts DEF WireType
    <2>. QED
      BY <2>6, <2>7 DEF WireType
  <1>6. ResultType'
    BY <1>2, TypeParts DEF ResultType, counts
  <1>7. CASE Accepts(r, command)
    <2>1. command.op \in {"none", "push", "pull"} /\ command.br \in Branches
      BY <1>3, CommandsAssumption
    <2>. DEFINE pc == IF command.op = "push" THEN "list" ELSE "walk"
                new == Job(pc, command.op, c, command.br)
    <2>2. pc \in {"list", "walk"} /\ c \in Procs
      BY DEF Procs
    <2>. HIDE DEF pc
    <2>3. new \in JobType /\ Fits(new, Present(Place(r)))
      BY <2>1, <2>2, JobFits
    <2>4. job' = [job EXCEPT ![r] = new]
      BY <1>1, <1>7 DEF command, pc, Become
    <2>. HIDE DEF new
    <2>. QED
      BY <2>3, <2>4, <1>2, <1>5, <1>6, OneJob
  <1>8. CASE ~Accepts(r, command)
    <2>1. job' = [job EXCEPT ![r] = job[r]]
      BY <1>1, <1>8, TypeParts DEF command
    <2>. QED
      BY <2>1, <1>2, <1>5, <1>6, OneJob, TypeParts
  <1>. QED
    BY <1>7, <1>8

\* A step that gives process p's record new values for some of its fields.
LEMMA JobFields ==
    ASSUME IInv, NEW p \in Procs
    PROVE  /\ job[p].pc \in Steps /\ job[p].op \in {"none", "push", "pull"}
           /\ job[p].peer \in Procs /\ job[p].br \in Branches \cup {NoFile}
           /\ job[p].list \in Seq(ObjectIds) /\ job[p].have \in SUBSET ObjectIds
           /\ job[p].i \in Nat \ {0} /\ job[p].at \in {"none", "part", "final", "lost"}
  BY TypeParts DEF JobType

LEMMA StepNames ==
    /\ "walk" \in Steps /\ "flags" \in Steps /\ "send" \in Steps /\ "list" \in Steps
    /\ "check" \in Steps /\ "recv" \in Steps /\ "data" \in Steps /\ "rename" \in Steps
    /\ "refWrite" \in Steps /\ "refRename" \in Steps /\ 1 \in Nat \ {0}
  BY DEF Steps

LEMMA StatusKeeps == ASSUME IInv, NEW c \in Clients, Status(c) PROVE IInv'
  <1>. DEFINE j == job[c]
  <1>1. /\ c \in Procs /\ j.pc = "status" /\ Arrived(c, "status")
        /\ UNCHANGED <<files, counts>>
    BY DEF Status, At, Procs
  <1>2. j \in JobType /\ Fits(j, Present(Place(c))) /\ WireType
    BY <1>1, TypeParts
  <1>3. CASE Received(c)
    <2>1. PICK pc \in {"walk", "list"} : Goto(c, pc)
      BY <1>3 DEF Status
    <2>2. Take(c) /\ UNCHANGED <<ends, result>>
      BY <1>3 DEF Status
    <2>. DEFINE k == [j EXCEPT !.pc = pc]
    <2>3. k \in JobType
      BY <1>2, StepNames DEF JobType
    <2>4. k.pc = pc /\ k.peer = j.peer /\ k.br = j.br /\ k.have = j.have /\ k.at = j.at
      BY <1>2 DEF JobType
    <2>5. job' = [job EXCEPT ![c] = k]
      BY <2>1 DEF Goto, Become
    <2>. HIDE DEF k
    <2>6. Fits(k, Present(Place(c)))
      BY <1>1, <1>2, <2>4 DEF Fits, Busy, Working, Receiving, Taking
    <2>7. wire' \in [Ends -> Seq(Messages)]
      BY <1>1, <1>2, <2>2, TakeType DEF Arrived
    <2>. QED
      BY <1>1, <2>2, <2>3, <2>5, <2>6, <2>7, WorkStep
  <1>4. CASE ~Received(c)
    <2>1. Rest(c, "failed") /\ Close(c)
      BY <1>4 DEF Status
    <2>. QED
      BY <1>1, <1>2, <2>1, CloseType, CountsType, RestStep DEF counts
  <1>. QED
    BY <1>3, <1>4

LEMMA SendListKeeps == ASSUME IInv, NEW p \in Procs, SendList(p) PROVE IInv'
  <1>. DEFINE j == job[p]
  <1>1. j.pc = "walk" /\ UNCHANGED <<files, counts>>
    BY DEF SendList, At
  <1>2. /\ j \in JobType /\ Fits(j, Present(Place(p))) /\ WireType
        /\ In(p) \in Ends /\ Out(p) \in Ends
    BY <1>1, TypeParts DEF Busy
  <1>3. CASE Walkable(p)
    <2>1. PICK l \in Items(Listing) : l = Listing[Tip(p)]
      BY <1>3, ListingAssumption DEF Walkable, Items
    <2>. DEFINE k == [j EXCEPT !.pc = "flags", !.list = l]
    <2>2. /\ job' = [job EXCEPT ![p] = k]
          /\ wire' = [wire EXCEPT ![Out(p)] = After(p, <<Message("list", l)>>)]
          /\ UNCHANGED <<ends, result>>
      BY <1>3, <2>1 DEF SendList, Become
    <2>3. l \in Seq(ObjectIds)
      BY ListingFacts
    <2>4. k \in JobType
      BY <1>2, <2>3, StepNames DEF JobType
    <2>5. k.pc = "flags" /\ k.peer = j.peer /\ k.br = j.br /\ k.list = l /\ k.at = j.at
      BY <1>2 DEF JobType
    <2>. HIDE DEF k
    <2>6. Fits(k, Present(Place(p)))
      BY <1>1, <1>2, <2>5 DEF Fits, Busy, Working, Receiving, Taking
    <2>7. wire' \in [Ends -> Seq(Messages)]
      BY <1>2, <2>2, SendType, MessageTypes
    <2>. QED
      BY <1>1, <2>2, <2>4, <2>6, <2>7, WorkStep
  <1>4. CASE ~Walkable(p)
    <2>1. Rest(p, "failed") /\ Closing(p, <<Message("error", {})>>)
      BY <1>4 DEF SendList
    <2>. QED
      BY <1>1, <1>2, <2>1, ClosingType, MessageTypes, CountsType, RestStep DEF counts
  <1>. QED
    BY <1>3, <1>4

LEMMA RecvFlagsKeeps == ASSUME IInv, NEW p \in Procs, RecvFlags(p) PROVE IInv'
  <1>. DEFINE j == job[p]
  <1>1. /\ j.pc = "flags" /\ Arrived(p, "flags") /\ Take(p)
        /\ UNCHANGED <<files, ends, result, counts>>
    BY DEF RecvFlags, At
  <1>2. j \in JobType /\ Fits(j, Present(Place(p))) /\ In(p) \in Ends
    BY <1>1, TypeParts DEF Busy, Working
  <1>3. PICK h \in SUBSET ObjectIds : h = Received(p)
    BY <1>1, <1>2, ReceivedType, TypeParts
  <1>. DEFINE k == [j EXCEPT !.pc = "send", !.have = h, !.i = 1]
  <1>4. k \in JobType
    BY <1>2, StepNames DEF JobType
  <1>5. k.pc = "send" /\ k.peer = j.peer /\ k.br = j.br /\ k.list = j.list /\ k.at = j.at
    BY <1>2 DEF JobType
  <1>6. job' = [job EXCEPT ![p] = k]
    BY <1>3 DEF RecvFlags, Become
  <1>. HIDE DEF k
  <1>7. Fits(k, Present(Place(p)))
    BY <1>1, <1>2, <1>4, <1>5 DEF Fits, Busy, Working, Receiving, Taking
  <1>8. wire' \in [Ends -> Seq(Messages)]
    BY <1>1, TakeType, TypeParts DEF Arrived
  <1>. QED
    BY <1>1, <1>4, <1>6, <1>7, <1>8, WorkStep

\* The next object of the list.
LEMMA WantedFacts ==
    ASSUME IInv, NEW p \in Procs, ~AtEnd(p), job[p].pc \in Working
    PROVE  /\ job[p].i \in DOMAIN job[p].list /\ job[p].i + 1 \in Nat \ {0}
           /\ Wanted(p) \in ObjectIds /\ Wanted(p) \in Paths
           /\ job[p].pc \in Receiving => Needs[Wanted(p)] \subseteq Present(Place(p))
  <1>. DEFINE j == job[p]
  <1>1. /\ j.i \in Nat \ {0} /\ j.list \in Seq(ObjectIds) /\ j.list \in Items(Listing)
        /\ Fits(j, Present(Place(p)))
    BY JobFields, TypeParts DEF Fits
  <1>2. j.i \in DOMAIN j.list /\ j.i + 1 \in Nat \ {0}
    BY <1>1 DEF AtEnd
  <1>3. Wanted(p) \in ObjectIds
    BY <1>1, <1>2 DEF Wanted
  <1>4. ASSUME j.pc \in Receiving PROVE Needs[Wanted(p)] \subseteq Present(Place(p))
    <2>1. Needs[j.list[j.i]] \subseteq {j.list[n] : n \in 1..(j.i - 1)}
      BY <1>1, <1>2, ListingFacts
    <2>2. \A n \in 1..(j.i - 1) : n \in DOMAIN j.list /\ n < j.i
      BY <1>1, <1>2
    <2>3. \A n \in 1..(j.i - 1) : j.list[n] \in Present(Place(p))
      BY <1>1, <1>4, <2>2 DEF Fits
    <2>. QED
      BY <2>1, <2>3 DEF Wanted
  <1>. QED
    BY <1>2, <1>3, <1>4 DEF Paths

LEMMA SkipKeeps == ASSUME IInv, NEW p \in Procs, Skip(p) PROVE IInv'
  <1>. DEFINE j == job[p]
              k == [j EXCEPT !.i = j.i + 1]
  <1>1. /\ j.pc \in {"send", "recv"} /\ ~AtEnd(p) /\ j.list[j.i] \in j.have
        /\ job' = [job EXCEPT ![p] = k] /\ UNCHANGED <<files, wire, ends, result, counts>>
    BY DEF Skip, Become, Wanted
  <1>2. j \in JobType /\ Fits(j, Present(Place(p))) /\ WireType
    BY TypeParts
  <1>3. j.i + 1 \in Nat \ {0} /\ j.i \in Nat
    BY <1>1, <1>2, WantedFacts, JobFields DEF Working, Receiving
  <1>4. k \in JobType
    BY <1>2, <1>3 DEF JobType
  <1>5. /\ k.pc = j.pc /\ k.peer = j.peer /\ k.br = j.br /\ k.list = j.list
        /\ k.have = j.have /\ k.at = j.at /\ k.i = j.i + 1
    BY <1>2 DEF JobType
  <1>. HIDE DEF k
  <1>6. ASSUME j.pc = "recv"
        PROVE  \A n \in DOMAIN k.list : n < k.i => k.list[n] \in Present(Place(p))
    <2>. SUFFICES ASSUME NEW n \in DOMAIN j.list, n < j.i + 1
                  PROVE  j.list[n] \in Present(Place(p))
      BY <1>5
    <2>1. n \in Nat /\ (n < j.i \/ n = j.i)
      BY <1>3, JobFields
    <2>2. CASE n < j.i
      BY <1>2, <1>6, <2>2 DEF Fits, Receiving
    <2>3. CASE n = j.i
      BY <1>1, <1>2, <1>6, <2>3 DEF Fits, Taking
    <2>. QED
      BY <2>1, <2>2, <2>3
  <1>7. Fits(k, Present(Place(p)))
    BY <1>1, <1>2, <1>5, <1>6 DEF Fits, Busy, Working, Receiving, Taking
  <1>. QED
    BY <1>1, <1>2, <1>4, <1>7, WorkStep DEF WireType

LEMMA SendFileKeeps == ASSUME IInv, NEW p \in Procs, SendFile(p) PROVE IInv'
  <1>. DEFINE j == job[p]
              content == final[Place(p)][Wanted(p)]
  <1>1. j.pc = "send" /\ ~AtEnd(p) /\ UNCHANGED <<files, counts>>
    BY DEF SendFile, At
  <1>2. /\ j \in JobType /\ Fits(j, Present(Place(p))) /\ WireType
        /\ In(p) \in Ends /\ Out(p) \in Ends
    BY <1>1, TypeParts DEF Busy, Working
  <1>3. CASE content = NoFile
    <2>1. Rest(p, "failed") /\ Closing(p, <<Message("error", {})>>)
      BY <1>3 DEF SendFile
    <2>. QED
      BY <1>1, <1>2, <2>1, ClosingType, MessageTypes, CountsType, RestStep DEF counts
  <1>4. CASE content # NoFile
    <2>. DEFINE k == [j EXCEPT !.i = j.i + 1]
    <2>1. /\ job' = [job EXCEPT ![p] = k]
          /\ wire' = [wire EXCEPT ![Out(p)] =
                         After(p, <<Message("size", {}), Message("data", content)>>)]
          /\ UNCHANGED <<ends, result>>
      BY <1>4 DEF SendFile, Become
    <2>2. Wanted(p) \in Paths /\ j.i + 1 \in Nat \ {0}
      BY <1>1, WantedFacts DEF Working, Receiving
    <2>3. content \in Contents \ {NoFile}
      BY <1>4, <2>2, PlaceType DEF IInv, TypeOK
    <2>. HIDE DEF content
    <2>4. k \in JobType
      BY <1>2, <2>2 DEF JobType
    <2>5. k.pc = "send" /\ k.peer = j.peer /\ k.br = j.br /\ k.list = j.list /\ k.at = j.at
      BY <1>1, <1>2 DEF JobType
    <2>. HIDE DEF k
    <2>6. Fits(k, Present(Place(p)))
      BY <1>1, <1>2, <2>5 DEF Fits, Busy, Working, Receiving, Taking
    <2>7. <<Message("size", {}), Message("data", content)>> \in Seq(Messages)
      BY <2>3, MessageTypes
    <2>8. wire' \in [Ends -> Seq(Messages)]
      BY <1>2, <2>1, <2>7, SendType
    <2>. QED
      BY <1>1, <2>1, <2>4, <2>6, <2>8, WorkStep
  <1>. QED
    BY <1>3, <1>4

LEMMA SendEndsKeeps ==
    ASSUME IInv, NEW p \in Procs, SendDone(p) \/ SendFails(p) \/ RecvError(p)
    PROVE  IInv'
  <1>1. PICK how \in {"ok", "failed"} : Rest(p, how) /\ (Close(p) \/ Reset(p))
    BY DEF SendDone, SendFails, RecvError
  <1>2. UNCHANGED <<files, counts>>
    BY DEF SendDone, SendFails, RecvError
  <1>3. WireType'
    BY <1>1, TypeParts, CloseType, ResetType
  <1>. QED
    BY <1>1, <1>2, <1>3, CountsType, RestStep DEF counts

LEMMA RecvListKeeps == ASSUME IInv, NEW p \in Procs, RecvList(p) PROVE IInv'
  <1>. DEFINE j == job[p]
  <1>1. /\ j.pc = "list" /\ Arrived(p, "list") /\ Take(p)
        /\ UNCHANGED <<files, ends, result, counts>>
    BY DEF RecvList, At
  <1>2. j \in JobType /\ Fits(j, Present(Place(p))) /\ In(p) \in Ends /\ WireType
    BY <1>1, TypeParts DEF Busy
  <1>3. PICK l \in Items(Listing) : l = Received(p)
    BY <1>1, <1>2, ReceivedType
  <1>. DEFINE k == [j EXCEPT !.pc = "check", !.list = l, !.i = 1]
  <1>4. k \in JobType
    BY <1>2, ListingFacts, StepNames DEF JobType
  <1>5. /\ k.pc = "check" /\ k.peer = j.peer /\ k.br = j.br /\ k.list = l
        /\ k.have = j.have /\ k.at = j.at
    BY <1>2 DEF JobType
  <1>6. job' = [job EXCEPT ![p] = k]
    BY <1>3 DEF RecvList, Become
  <1>. HIDE DEF k
  <1>7. Fits(k, Present(Place(p)))
    BY <1>1, <1>2, <1>5 DEF Fits, Busy, Working, Receiving, Taking
  <1>8. wire' \in [Ends -> Seq(Messages)]
    BY <1>1, <1>2, TakeType DEF Arrived
  <1>. QED
    BY <1>1, <1>4, <1>6, <1>7, <1>8, WorkStep

LEMMA CheckKeeps == ASSUME IInv, NEW p \in Procs, Check(p) PROVE IInv'
  <1>. DEFINE j == job[p]
  <1>1. /\ j.pc = "check" /\ ~AtEnd(p) /\ UNCHANGED <<files, wire, ends, result, counts>>
    BY DEF Check, At
  <1>2. j \in JobType /\ Fits(j, Present(Place(p))) /\ WireType
    BY TypeParts
  <1>3. Wanted(p) \in ObjectIds /\ j.i + 1 \in Nat \ {0}
    BY <1>1, WantedFacts DEF Working
  <1>4. j.have \subseteq Present(Place(p)) /\ j.have \in SUBSET ObjectIds
    BY <1>1, <1>2, JobFields DEF Fits, Taking
  <1>5. PICK h \in SUBSET ObjectIds : h = IF HasHash(p) THEN j.have \cup {Wanted(p)} ELSE j.have
    BY <1>3, <1>4
  <1>6. h \subseteq Present(Place(p))
    BY <1>3, <1>4, <1>5 DEF HasHash, Present
  <1>. DEFINE k == [j EXCEPT !.i = j.i + 1, !.have = h]
  <1>7. job' = [job EXCEPT ![p] = k]
    BY <1>5 DEF Check, Become
  <1>8. k \in JobType
    BY <1>2, <1>3 DEF JobType
  <1>9. /\ k.pc = "check" /\ k.peer = j.peer /\ k.br = j.br /\ k.list = j.list
        /\ k.have = h /\ k.at = j.at
    BY <1>1, <1>2 DEF JobType
  <1>. HIDE DEF k
  <1>10. Fits(k, Present(Place(p)))
    BY <1>1, <1>2, <1>6, <1>9 DEF Fits, Busy, Working, Receiving, Taking
  <1>. QED
    BY <1>1, <1>2, <1>7, <1>8, <1>10, WorkStep DEF WireType

LEMMA SendFlagsKeeps == ASSUME IInv, NEW p \in Procs, SendFlags(p) PROVE IInv'
  <1>. DEFINE j == job[p]
              k == [j EXCEPT !.pc = "recv", !.i = 1]
  <1>1. /\ j.pc = "check" /\ job' = [job EXCEPT ![p] = k]
        /\ wire' = [wire EXCEPT ![Out(p)] = After(p, <<Message("flags", j.have)>>)]
        /\ UNCHANGED <<files, ends, result, counts>>
    BY DEF SendFlags, At, Become
  <1>2. /\ j \in JobType /\ Fits(j, Present(Place(p))) /\ WireType /\ Out(p) \in Ends
        /\ j.have \in SUBSET ObjectIds /\ j.list \in Seq(ObjectIds)
    BY <1>1, TypeParts, JobFields DEF Busy, Working
  <1>3. k \in JobType
    BY <1>2, StepNames DEF JobType
  <1>4. /\ k.pc = "recv" /\ k.peer = j.peer /\ k.br = j.br /\ k.list = j.list
        /\ k.have = j.have /\ k.at = j.at /\ k.i = 1
    BY <1>2 DEF JobType
  <1>. HIDE DEF k
  <1>5. \A n \in DOMAIN k.list : ~(n < k.i)
    BY <1>2, <1>4
  <1>6. Fits(k, Present(Place(p)))
    BY <1>1, <1>2, <1>4, <1>5 DEF Fits, Busy, Working, Receiving, Taking
  <1>7. wire' \in [Ends -> Seq(Messages)]
    BY <1>1, <1>2, SendType, MessageTypes
  <1>. QED
    BY <1>1, <1>3, <1>6, <1>7, WorkStep

-----------------------------------------------------------------------------
(* The actions that touch files.                                           *)

\* A file step of a process that keeps its connection, and of a process that
\* gives up.
LEMMA OwnStep ==
    ASSUME IInv, NEW p \in Procs, NEW new \in JobType, Fits(new, Present(Place(p))'),
           job' = [job EXCEPT ![p] = new],
           final' \in [Repos -> [Paths -> Contents]],
           part' \in [Repos -> [Paths -> Contents]],
           \A s \in Repos : Present(s) \subseteq Present(s)',
           StoresClosed', PartsNamed', WireType', ResultType'
    PROVE  IInv'
  <1>1. job \in [Procs -> JobType] /\ \A q \in Procs : Fits(job[q], Present(Place(q)))
    BY TypeParts
  <1>. QED
    BY <1>1, FileJob

LEMMA AbandonKeeps ==
    ASSUME IInv, NEW p \in Procs, Abandon(p), Path(p) \in Paths,
           runs' \in [Clients -> Nat], faults' \in Nat
    PROVE  IInv'
  <1>1. /\ part' = [part EXCEPT ![Place(p)][Path(p)] = NoFile]
        /\ job' = [Moved(p, "lost") EXCEPT ![p] = Resting(p)]
        /\ result' = IF p \in Clients THEN [result EXCEPT ![p] = "failed"] ELSE result
        /\ Reset(p) /\ final' = final
    BY DEF Abandon
  <1>2. WireType' /\ ResultType'
    BY <1>1, ResetType, TypeParts DEF ResultType
  <1>3. NoFile \in Contents /\ Empty \in Contents \ {NoFile} /\ Place(p) \in Repos
    BY PathsAssumption, PlaceType DEF Contents
  <1>4. /\ final' \in [Repos -> [Paths -> Contents]]
        /\ part' \in [Repos -> [Paths -> Contents]]
        /\ \A s \in Repos : Present(s) \subseteq Present(s)'
        /\ StoresClosed' /\ PartsNamed'
    BY <1>1, <1>3, FilesStep
  <1>5. Moved(p, "lost") \in [Procs -> JobType]
    BY MovedFits
  <1>6. \A q \in Procs : Fits(Moved(p, "lost")[q], Present(Place(q)))
    BY MovedFits
  <1>7. Resting(p) \in JobType /\ Fits(Resting(p), Present(Place(p))')
    BY RestingFits
  <1>. HIDE DEF IInv
  <1>. QED
    BY <1>1, <1>2, <1>4, <1>5, <1>6, <1>7, FileJob

\* The path a receiver works on.
LEMMA PathFacts ==
    ASSUME IInv, NEW p \in Procs
    PROVE  /\ job[p].pc \in {"data", "rename"} =>
                 Path(p) = Wanted(p) /\ ~AtEnd(p) /\ Path(p) \in ObjectIds
           /\ job[p].pc = "recv" /\ ~AtEnd(p) => Path(p) = Wanted(p) /\ Path(p) \in ObjectIds
           /\ job[p].pc = "recv" /\ AtEnd(p) => Path(p) \in Branches
           /\ job[p].pc \in {"refWrite", "refRename"} => Path(p) \in Branches
  <1>1. Fits(job[p], Present(Place(p))) /\ job[p].i \in Nat /\ job[p].list \in Seq(ObjectIds)
    BY TypeParts, JobFields
  <1>2. job[p].pc \in {"data", "rename"} => ~AtEnd(p)
    BY <1>1 DEF Fits, AtEnd
  <1>3. ~AtEnd(p) /\ job[p].pc \in Working => Wanted(p) \in ObjectIds
    BY WantedFacts
  <1>4. job[p].pc \in Receiving => job[p].br \in Branches
    BY <1>1 DEF Fits, Busy, Working
  <1>. QED
    BY <1>2, <1>3, <1>4 DEF Path, InRef, At, Working, Receiving

LEMMA RecvSizeKeeps == ASSUME IInv, NEW p \in Procs, RecvSize(p) PROVE IInv'
  <1>. DEFINE j == job[p]
              k == [j EXCEPT !.pc = "data", !.at = "part"]
  <1>1. /\ j.pc = "recv" /\ ~AtEnd(p) /\ Arrived(p, "size") /\ Take(p)
        /\ part' = [part EXCEPT ![Place(p)][Path(p)] = Empty]
        /\ job' = [job EXCEPT ![p] = k] /\ UNCHANGED <<final, ends, result, counts>>
    BY DEF RecvSize, At, Open, Become
  <1>2. j \in JobType /\ Fits(j, Present(Place(p))) /\ WireType /\ ResultType
    BY TypeParts
  <1>3. Path(p) \in Paths /\ Path(p) \notin Branches
    BY <1>1, PathFacts, PathsAssumption DEF Paths
  <1>4. Empty \in Contents /\ Empty \in Contents \ {NoFile} /\ Place(p) \in Repos
    BY PathsAssumption, PlaceType DEF Contents
  <1>5. /\ final' \in [Repos -> [Paths -> Contents]]
        /\ part' \in [Repos -> [Paths -> Contents]]
        /\ \A s \in Repos : Present(s) \subseteq Present(s)'
        /\ StoresClosed' /\ PartsNamed'
    BY <1>1, <1>3, <1>4, FilesStep
  <1>6. k \in JobType
    BY <1>2, StepNames DEF JobType
  <1>7. /\ k.pc = "data" /\ k.peer = j.peer /\ k.br = j.br /\ k.list = j.list
        /\ k.have = j.have /\ k.i = j.i
    BY <1>2 DEF JobType
  <1>8. j.i \in DOMAIN j.list
    BY <1>1, WantedFacts DEF Working, Receiving
  <1>. HIDE DEF k
  <1>9. Fits(k, Present(Place(p)))
    BY <1>1, <1>2, <1>7, <1>8 DEF Fits, Busy, Working, Receiving, Taking
  <1>10. Fits(k, Present(Place(p))')
    BY <1>1, <1>9 DEF Present, Place
  <1>11. WireType' /\ ResultType'
    BY <1>1, <1>2, TakeType DEF Arrived, WireType, ResultType, counts
  <1>. QED
    BY <1>1, <1>5, <1>6, <1>10, <1>11, OwnStep

\* Writing what the stream or the list gave.
LEMMA FillKeeps ==
    ASSUME IInv, NEW p \in Procs, NEW content \in Contents \ {NoFile},
           NEW pc \in {"rename", "refRename"}, Fill(p, content, pc),
           pc = "rename" => job[p].pc = "data",
           pc = "refRename" => job[p].pc = "refWrite" /\ content \in Present(Place(p)),
           wire' \in [Ends -> Seq(Messages)], UNCHANGED <<ends, result, counts>>
    PROVE  IInv'
  <1>. DEFINE j == job[p]
              k == [j EXCEPT !.pc = pc, !.at = "none"]
  <1>1. job' = [job EXCEPT ![p] = k]
    BY DEF Fill, Become
  <1>2. /\ j \in JobType /\ Fits(j, Present(Place(p))) /\ WireType /\ ResultType
        /\ j.pc \in {"data", "refWrite"} /\ Place(p) \in Repos
    BY TypeParts, PlaceType
  <1>3. /\ j.pc = "data" => ~AtEnd(p) /\ Path(p) = Wanted(p) /\ Path(p) \in ObjectIds
        /\ j.pc = "refWrite" => Path(p) \in Branches
    BY PathFacts
  <1>4. Path(p) \in ObjectIds => Needs[Path(p)] \subseteq Present(Place(p))
    BY <1>2, <1>3, WantedFacts, PathsAssumption DEF Working, Receiving
  <1>5. Path(p) \in Branches => content \in Present(Place(p))
    BY <1>2, <1>3, PathsAssumption
  <1>6. /\ part' = part \/ part' = [part EXCEPT ![Place(p)][Path(p)] = content]
        /\ final' = final \/ final' = [final EXCEPT ![Place(p)][Path(p)] = content]
    BY DEF Fill
  <1>7. Path(p) \in Paths /\ content \in Contents
    BY <1>2, <1>3 DEF Paths
  <1>8. /\ final' \in [Repos -> [Paths -> Contents]]
        /\ part' \in [Repos -> [Paths -> Contents]]
        /\ \A s \in Repos : Present(s) \subseteq Present(s)'
        /\ StoresClosed' /\ PartsNamed'
    BY <1>2, <1>4, <1>5, <1>6, <1>7, FilesStep
  <1>9. k \in JobType
    BY <1>2, StepNames DEF JobType
  <1>10. /\ k.pc = pc /\ k.peer = j.peer /\ k.br = j.br /\ k.list = j.list
         /\ k.have = j.have /\ k.i = j.i /\ k.at = "none"
    BY <1>2 DEF JobType
  <1>. HIDE DEF k
  <1>11. Fits(k, Present(Place(p)))
    BY <1>2, <1>10 DEF Fits, Busy, Working, Receiving, Taking
  <1>12. Place(p)' = Place(p) /\ Present(Place(p)) \subseteq Present(Place(p))'
    BY <1>2, <1>8 DEF Place
  <1>13. Fits(k, Present(Place(p))')
    BY <1>11, <1>12, FitsGrows
  <1>14. WireType' /\ ResultType'
    BY <1>2 DEF WireType, ResultType, counts
  <1>. QED
    BY <1>1, <1>8, <1>9, <1>13, <1>14, OwnStep

LEMMA RecvDataKeeps == ASSUME IInv, NEW p \in Procs, RecvData(p) PROVE IInv'
  <1>1. /\ job[p].pc = "data" /\ Arrived(p, "data") /\ Take(p)
        /\ Fill(p, Received(p), "rename") /\ UNCHANGED <<ends, result, counts>>
    BY DEF RecvData, At
  <1>2. In(p) \in Ends /\ WireType
    BY <1>1, TypeParts DEF Busy, Working, Receiving
  <1>3. Received(p) \in Contents \ {NoFile}
    BY <1>1, <1>2, ReceivedType
  <1>4. wire' \in [Ends -> Seq(Messages)]
    BY <1>1, <1>2, TakeType DEF Arrived
  <1>. QED
    BY <1>1, <1>3, <1>4, FillKeeps

LEMMA RefWriteKeeps == ASSUME IInv, NEW p \in Procs, RefWrite(p) PROVE IInv'
  <1>. DEFINE tip == job[p].list[Len(job[p].list)]
  <1>1. job[p].pc = "refWrite" /\ Fill(p, tip, "refRename") /\ UNCHANGED <<wire, ends, result, counts>>
    BY DEF RefWrite, At
  <1>2. Fits(job[p], Present(Place(p))) /\ WireType /\ job[p].list \in Items(Listing)
    BY <1>1, TypeParts DEF Fits, Working, Receiving
  <1>3. Len(job[p].list) \in DOMAIN job[p].list
    BY <1>2, ListingFacts
  <1>4. tip \in Present(Place(p))
    BY <1>1, <1>2, <1>3 DEF Fits, Receiving
  <1>. HIDE DEF tip
  <1>5. tip \in Contents \ {NoFile} /\ wire' \in [Ends -> Seq(Messages)]
    BY <1>1, <1>2, <1>4, PathsAssumption DEF Present, Contents, WireType
  <1>. QED
    BY <1>1, <1>4, <1>5, FillKeeps

LEMMA RefOpenKeeps == ASSUME IInv, NEW p \in Procs, RefOpen(p) PROVE IInv'
  <1>. DEFINE j == job[p]
              k == [j EXCEPT !.pc = "refWrite", !.at = "part"]
  <1>1. /\ j.pc = "recv" /\ AtEnd(p)
        /\ part' = [part EXCEPT ![Place(p)][Path(p)] = Empty]
        /\ job' = [job EXCEPT ![p] = k] /\ UNCHANGED <<final, wire, ends, result, counts>>
    BY DEF RefOpen, At, Open, Become
  <1>2. j \in JobType /\ Fits(j, Present(Place(p))) /\ WireType /\ ResultType
    BY TypeParts
  <1>3. Path(p) \in Paths
    BY <1>1, PathFacts DEF Paths
  <1>4. Empty \in Contents /\ Empty \in Contents \ {NoFile} /\ Place(p) \in Repos
    BY PathsAssumption, PlaceType DEF Contents
  <1>5. /\ final' \in [Repos -> [Paths -> Contents]]
        /\ part' \in [Repos -> [Paths -> Contents]]
        /\ \A s \in Repos : Present(s) \subseteq Present(s)'
        /\ StoresClosed' /\ PartsNamed'
    BY <1>1, <1>3, <1>4, FilesStep
  <1>6. k \in JobType
    BY <1>2, StepNames DEF JobType
  <1>7. /\ k.pc = "refWrite" /\ k.peer = j.peer /\ k.br = j.br /\ k.list = j.list
        /\ k.have = j.have /\ k.i = j.i
    BY <1>2 DEF JobType
  <1>8. j.i > Len(j.list)
    BY <1>1 DEF AtEnd
  <1>. HIDE DEF k
  <1>9. Fits(k, Present(Place(p)))
    BY <1>1, <1>2, <1>7, <1>8 DEF Fits, Busy, Working, Receiving, Taking
  <1>10. Fits(k, Present(Place(p))')
    BY <1>1, <1>9 DEF Present, Place
  <1>11. WireType' /\ ResultType'
    BY <1>1, <1>2 DEF WireType, ResultType, counts
  <1>. QED
    BY <1>1, <1>5, <1>6, <1>10, <1>11, OwnStep

\* A rename puts in place what the temporary file holds.
LEMMA RenameFiles ==
    ASSUME IInv, NEW p \in Procs, job[p].pc \in {"rename", "refRename"},
           part[Place(p)][Path(p)] # NoFile,
           final' = [final EXCEPT ![Place(p)][Path(p)] = part[Place(p)][Path(p)]],
           part' = [part EXCEPT ![Place(p)][Path(p)] = NoFile]
    PROVE  /\ final' \in [Repos -> [Paths -> Contents]]
           /\ part' \in [Repos -> [Paths -> Contents]]
           /\ \A s \in Repos : Present(s) \subseteq Present(s)'
           /\ StoresClosed' /\ PartsNamed'
           /\ job[p].pc = "rename" => Path(p) \in Present(Place(p))'
  <1>. DEFINE v == part[Place(p)][Path(p)]
  <1>1. /\ job[p].pc = "rename" => ~AtEnd(p) /\ Path(p) = Wanted(p) /\ Path(p) \in ObjectIds
        /\ job[p].pc = "refRename" => Path(p) \in Branches
        /\ Place(p) \in Repos
    BY PathFacts, PlaceType
  <1>2. Path(p) \in ObjectIds => Needs[Path(p)] \subseteq Present(Place(p))
    BY <1>1, WantedFacts, PathsAssumption DEF Working, Receiving
  <1>3. Path(p) \in Paths
    BY <1>1 DEF Paths
  <1>4. v \in Contents \ {NoFile}
    BY <1>1, <1>3 DEF IInv, TypeOK
  <1>5. Path(p) \in Branches => v \in {Empty} \cup Present(Place(p))
    BY <1>1, <1>4 DEF IInv, PartsNamed
  <1>6. NoFile \in Contents
    BY DEF Contents
  <1>. HIDE DEF v
  <1>7. final' = [final EXCEPT ![Place(p)][Path(p)] = v]
    BY DEF v
  <1>8. /\ final' \in [Repos -> [Paths -> Contents]]
        /\ part' \in [Repos -> [Paths -> Contents]]
        /\ \A s \in Repos : Present(s) \subseteq Present(s)'
        /\ StoresClosed' /\ PartsNamed'
    BY <1>1, <1>2, <1>3, <1>4, <1>5, <1>6, <1>7, FilesStep
  <1>9. ASSUME job[p].pc = "rename" PROVE Path(p) \in Present(Place(p))'
    <2>1. final \in [Repos -> [Paths -> Contents]]
      BY DEF IInv, TypeOK
    <2>. DEFINE f == [final EXCEPT ![Place(p)][Path(p)] = v]
    <2>2. f[Place(p)][Path(p)] = v
      BY <2>1, <1>1, <1>3, <1>4, EntryType
    <2>3. final'[Place(p)][Path(p)] = v
      BY <2>2, <1>7
    <2>4. PICK r \in Repos, x \in ObjectIds : r = Place(p) /\ x = Path(p)
      BY <1>1, <1>9
    <2>5. x \in Present(r)'
      BY <2>3, <2>4, <1>4 DEF Present
    <2>6. Place(p)' = Place(p)
      BY DEF Place
    <2>. QED
      BY <2>4, <2>5, <2>6 DEF Present
  <1>. QED
    BY <1>8, <1>9

LEMMA RenameKeeps == ASSUME IInv, NEW p \in Procs, Rename(p) PROVE IInv'
  <1>. DEFINE j == job[p]
              k == [j EXCEPT !.pc = "recv", !.i = j.i + 1]
  <1>1. j.pc = "rename" /\ UNCHANGED counts
    BY DEF Rename, At
  <1>2. /\ j \in JobType /\ Fits(j, Present(Place(p))) /\ WireType /\ ResultType
        /\ Path(p) \in ObjectIds /\ Path(p) \in Paths /\ Path(p) = Wanted(p) /\ ~AtEnd(p)
    BY <1>1, TypeParts, PathFacts DEF Paths
  <1>3. CASE part[Place(p)][Path(p)] = NoFile
    <2>1. Abandon(p) /\ runs' \in [Clients -> Nat] /\ faults' \in Nat
      BY <1>1, <1>3, CountsType DEF Rename, counts
    <2>. QED
      BY <1>2, <2>1, AbandonKeeps
  <1>4. CASE part[Place(p)][Path(p)] # NoFile
    <2>1. /\ final' = [final EXCEPT ![Place(p)][Path(p)] = part[Place(p)][Path(p)]]
          /\ part' = [part EXCEPT ![Place(p)][Path(p)] = NoFile]
          /\ job' = [Moved(p, "final") EXCEPT ![p] = k]
          /\ UNCHANGED <<wire, ends, result>>
      BY <1>4 DEF Rename
    <2>2. /\ final' \in [Repos -> [Paths -> Contents]]
          /\ part' \in [Repos -> [Paths -> Contents]]
          /\ \A s \in Repos : Present(s) \subseteq Present(s)'
          /\ StoresClosed' /\ PartsNamed'
          /\ Path(p) \in Present(Place(p))'
      BY <1>1, <1>4, <2>1, RenameFiles
    <2>3. j.i \in DOMAIN j.list /\ j.i + 1 \in Nat \ {0} /\ j.i \in Nat /\ j.list \in Seq(ObjectIds)
      BY <1>1, <1>2, WantedFacts, JobFields DEF Working, Receiving
    <2>4. k \in JobType
      BY <1>2, <2>3, StepNames DEF JobType
    <2>5. /\ k.pc = "recv" /\ k.peer = j.peer /\ k.br = j.br /\ k.list = j.list
          /\ k.have = j.have /\ k.at = j.at /\ k.i = j.i + 1
      BY <1>2 DEF JobType
    <2>. HIDE DEF k
    <2>6. Place(p)' = Place(p) /\ Present(Place(p)) \subseteq Present(Place(p))'
      BY <2>2, PlaceType DEF Place
    <2>7. Fits(j, Present(Place(p))')
      BY <1>2, <2>6, FitsGrows
    <2>8. \A n \in DOMAIN k.list : n < k.i => k.list[n] \in Present(Place(p))'
      <3>. SUFFICES ASSUME NEW n \in DOMAIN j.list, n < j.i + 1
                    PROVE  j.list[n] \in Present(Place(p))'
        BY <2>5
      <3>1. n \in Nat /\ (n < j.i \/ n = j.i)
        BY <2>3
      <3>2. CASE n < j.i
        BY <1>1, <2>7, <3>2 DEF Fits, Receiving
      <3>3. CASE n = j.i
        BY <1>2, <2>2, <3>3 DEF Wanted
      <3>. QED
        BY <3>1, <3>2, <3>3
    <2>9. Fits(k, Present(Place(p))')
      BY <1>1, <2>5, <2>7, <2>8 DEF Fits, Busy, Working, Receiving, Taking
    <2>10. /\ Moved(p, "final") \in [Procs -> JobType]
           /\ \A q \in Procs : Fits(Moved(p, "final")[q], Present(Place(q)))
      BY MovedFits
    <2>11. WireType' /\ ResultType'
      BY <1>1, <1>2, <2>1 DEF WireType, ResultType, counts
    <2>. QED
      BY <2>1, <2>2, <2>4, <2>9, <2>10, <2>11, FileJob
  <1>. QED
    BY <1>3, <1>4

LEMMA RefRenameKeeps == ASSUME IInv, NEW p \in Procs, RefRename(p) PROVE IInv'
  <1>1. job[p].pc = "refRename" /\ UNCHANGED counts
    BY DEF RefRename, At
  <1>2. WireType /\ ResultType /\ Path(p) \in Paths
    BY <1>1, TypeParts, PathFacts DEF Paths
  <1>3. CASE part[Place(p)][Path(p)] = NoFile
    <2>1. Abandon(p) /\ runs' \in [Clients -> Nat] /\ faults' \in Nat
      BY <1>1, <1>3, CountsType DEF RefRename, counts
    <2>. QED
      BY <1>2, <2>1, AbandonKeeps
  <1>4. CASE part[Place(p)][Path(p)] # NoFile
    <2>1. /\ final' = [final EXCEPT ![Place(p)][Path(p)] = part[Place(p)][Path(p)]]
          /\ part' = [part EXCEPT ![Place(p)][Path(p)] = NoFile]
          /\ job' = [Moved(p, "final") EXCEPT ![p] = Resting(p)]
          /\ result' = IF p \in Clients THEN [result EXCEPT ![p] = "ok"] ELSE result
          /\ Close(p)
      BY <1>4 DEF RefRename
    <2>2. /\ final' \in [Repos -> [Paths -> Contents]]
          /\ part' \in [Repos -> [Paths -> Contents]]
          /\ \A s \in Repos : Present(s) \subseteq Present(s)'
          /\ StoresClosed' /\ PartsNamed'
      BY <1>1, <1>4, <2>1, RenameFiles
    <2>3. Resting(p) \in JobType /\ Fits(Resting(p), Present(Place(p))')
      BY RestingFits
    <2>4. /\ Moved(p, "final") \in [Procs -> JobType]
          /\ \A q \in Procs : Fits(Moved(p, "final")[q], Present(Place(q)))
      BY MovedFits
    <2>5. WireType' /\ ResultType'
      BY <1>1, <1>2, <2>1, CloseType DEF ResultType, counts
    <2>. QED
      BY <2>1, <2>2, <2>3, <2>4, <2>5, FileJob
  <1>. QED
    BY <1>3, <1>4

\* A transfer that breaks off, before a file or in the middle of one.
LEMMA BreakOff ==
    ASSUME IInv, NEW p \in Procs, runs' \in [Clients -> Nat], faults' \in Nat,
           \/ Abandon(p) /\ At(p, "data")
           \/ Rest(p, "failed") /\ Reset(p) /\ UNCHANGED files
    PROVE  IInv'
  <1>1. CASE Abandon(p) /\ At(p, "data")
    <2>1. Path(p) \in Paths
      BY <1>1, PathFacts DEF At, Paths
    <2>. QED
      BY <1>1, <2>1, AbandonKeeps
  <1>2. CASE Rest(p, "failed") /\ Reset(p) /\ UNCHANGED files
    BY <1>2, TypeParts, ResetType, RestStep
  <1>. QED
    BY <1>1, <1>2

LEMMA RecvFailsKeeps == ASSUME IInv, NEW p \in Procs, RecvFails(p) PROVE IInv'
  <1>1. /\ \/ Abandon(p) /\ At(p, "data")
           \/ Rest(p, "failed") /\ Reset(p) /\ UNCHANGED files
        /\ UNCHANGED counts
    BY DEF RecvFails
  <1>. QED
    BY <1>1, CountsType, BreakOff DEF counts

LEMMA DiskFullKeeps == ASSUME IInv, NEW p \in Procs, DiskFull(p) PROVE IInv'
  <1>1. /\ \/ Abandon(p) /\ At(p, "data")
           \/ Rest(p, "failed") /\ Reset(p) /\ UNCHANGED files
        /\ runs' = runs /\ faults' = faults + 1
    BY DEF DiskFull, Fault
  <1>. QED
    BY <1>1, CountsType, BreakOff

LEMMA CutKeeps == ASSUME IInv, NEW c \in Clients, Cut(c) PROVE IInv'
  <1>1. PICK m \in 0..Len(wire[<<c, "client">>]), n \in 0..Len(wire[<<c, "server">>]) :
            wire' = [wire EXCEPT ![<<c, "client">>] = SubSeq(@, 1, m),
                                 ![<<c, "server">>] = SubSeq(@, 1, n)]
    BY DEF Cut
  <1>2. /\ ends' \subseteq ends /\ UNCHANGED <<files, job, result, runs>>
        /\ faults' = faults + 1 /\ c \in Procs
    BY DEF Cut, Fault, Procs
  <1>3. <<c, "client">> \in Ends /\ <<c, "server">> \in Ends /\ <<c, "client">> # <<c, "server">>
    BY DEF Ends
  <1>4. wire[<<c, "client">>] \in Seq(Messages) /\ wire[<<c, "server">>] \in Seq(Messages)
    BY <1>3, TypeParts DEF WireType
  <1>5. /\ SubSeq(wire[<<c, "client">>], 1, m) \in Seq(Messages)
        /\ SubSeq(wire[<<c, "server">>], 1, n) \in Seq(Messages)
    BY <1>4, CutType
  <1>6. wire' = [wire EXCEPT ![<<c, "client">>] = SubSeq(wire[<<c, "client">>], 1, m),
                             ![<<c, "server">>] = SubSeq(wire[<<c, "server">>], 1, n)]
    BY <1>1, <1>3
  <1>7. WireType' /\ ResultType'
    <2>1. wire' \in [Ends -> Seq(Messages)]
      BY <1>3, <1>5, <1>6, TypeParts DEF WireType
    <2>2. ends' \subseteq Ends
      BY <1>2, TypeParts DEF WireType
    <2>3. ResultType'
      BY <1>2, CountsType, TypeParts DEF ResultType
    <2>. QED
      BY <2>1, <2>2, <2>3 DEF WireType
  <1>8. job' = [job EXCEPT ![c] = job[c]]
    BY <1>2, TypeParts
  <1>. QED
    BY <1>2, <1>7, <1>8, OneJob, TypeParts

LEMMA DownKeeps ==
    ASSUME IInv, NEW r \in Repos, Down(r), UNCHANGED <<files, result>>,
           runs' \in [Clients -> Nat], faults' \in Nat
    PROVE  IInv'
  <1>. DEFINE gone == {In(r)} \cup {<<c, "server">> : c \in {d \in Clients : Request(r, d)}}
              down == Job("down", "none", r, NoFile)
  <1>1. PICK n \in 0..Len(wire[Out(r)]) :
            wire' = [e \in Ends |-> IF e \in gone THEN <<>>
                                    ELSE IF e = Out(r) THEN SubSeq(wire[e], 1, n)
                                    ELSE wire[e]]
    BY DEF Down
  <1>2. job' = [job EXCEPT ![r] = down] /\ ends' = ends \ gone /\ r \in Procs
    BY DEF Down, Become, Procs
  <1>. HIDE DEF gone
  <1>3. ASSUME NEW e \in Ends PROVE wire'[e] \in Seq(Messages)
    <2>1. wire[e] \in Seq(Messages)
      BY TypeParts DEF WireType
    <2>2. e = Out(r) => SubSeq(wire[e], 1, n) \in Seq(Messages)
      BY <2>1, CutType
    <2>. QED
      BY <1>1, <2>1, <2>2, NilType
  <1>4. WireType'
    <2>1. wire' \in [Ends -> Seq(Messages)]
      BY <1>1, <1>3
    <2>. QED
      BY <1>2, <2>1, TypeParts DEF WireType
  <1>5. ResultType'
    BY TypeParts DEF ResultType
  <1>6. down \in JobType /\ Fits(down, Present(Place(r)))
    BY <1>2, JobFits DEF Busy, Working, Receiving
  <1>. HIDE DEF down
  <1>. QED
    BY <1>2, <1>4, <1>5, <1>6, OneJob

LEMMA KillKeeps == ASSUME IInv, NEW p \in Procs, Kill(p) PROVE IInv'
  <1>1. UNCHANGED <<files, runs>> /\ runs' \in [Clients -> Nat] /\ faults' \in Nat
    BY CountsType DEF Kill, Fault
  <1>2. CASE p \in Clients
    BY <1>1, <1>2, BreakOff DEF Kill
  <1>3. CASE p \notin Clients
    <2>1. p \in Repos /\ Down(p) /\ UNCHANGED result
      BY <1>3 DEF Kill, Procs
    <2>. QED
      BY <1>1, <2>1, DownKeeps
  <1>. QED
    BY <1>2, <1>3

LEMMA ServerKeeps == ASSUME IInv, NEW r \in Repos, BrokenPipe(r) \/ Serve(r) PROVE IInv'
  <1>1. CASE BrokenPipe(r)
    BY <1>1, CountsType, DownKeeps DEF BrokenPipe, counts
  <1>2. CASE Serve(r)
    <2>1. /\ job' = [job EXCEPT ![r] = Resting(r)] /\ r \in Procs
          /\ UNCHANGED <<files, wire, ends, result, counts>>
      BY <1>2 DEF Serve, Become, Procs
    <2>2. wire' \in [Ends -> Seq(Messages)]
      BY <2>1, TypeParts DEF WireType
    <2>. QED
      BY <2>1, <2>2, RestingFits, WorkStep
  <1>. QED
    BY <1>1, <1>2

\* A commit made in the repository brings a whole listing and its tip's ref.
LEMMA CommitFiles ==
    ASSUME IInv, NEW r \in Repos, NEW b \in Branches, NEW t \in Tips, LocalCommit(r, b, t)
    PROVE  /\ final' \in [Repos -> [Paths -> Contents]]
           /\ \A s \in Repos : Present(s) \subseteq Present(s)'
           /\ \A s \in Repos, d \in Branches :
                 final'[s][d] = IF s = r /\ d = b THEN t ELSE final[s][d]
           /\ StoresClosed' /\ PartsNamed'
  <1>. DEFINE fetched == Items(Listing[t])
              new == [x \in Paths |-> IF x = b THEN t
                                      ELSE IF x \in fetched /\ final[r][x] = NoFile THEN x
                                      ELSE final[r][x]]
  <1>1. final' = [final EXCEPT ![r] = new] /\ part' = part
    BY DEF LocalCommit
  <1>2. /\ final \in [Repos -> [Paths -> Contents]] /\ StoresClosed /\ PartsNamed
        /\ ObjectIds \subseteq Paths /\ Branches \subseteq Paths
        /\ ObjectIds \cap Branches = {} /\ t \in ObjectIds /\ NoFile \notin ObjectIds
        /\ ObjectIds \subseteq Contents
    BY PathsAssumption DEF IInv, TypeOK, Paths, Contents
  <1>3. Listing[t] \in Items(Listing)
    BY ListingAssumption DEF Items
  <1>4. /\ fetched \subseteq ObjectIds /\ t \in fetched
        /\ \A o \in fetched : Needs[o] \subseteq fetched
    <2>1. /\ Listing[t] \in Seq(ObjectIds)
          /\ \A k \in DOMAIN Listing[t] : Listing[t][k] \in ObjectIds
          /\ \A k \in DOMAIN Listing[t] :
                Needs[Listing[t][k]] \subseteq {Listing[t][n] : n \in 1..(k - 1)}
      BY <1>3, ListingFacts
    <2>2. t \in fetched
      BY <1>3, ListingFacts, ListingAssumption DEF Items
    <2>3. ASSUME NEW o \in fetched PROVE Needs[o] \subseteq fetched
      <3>1. PICK k \in DOMAIN Listing[t] : o = Listing[t][k]
        BY DEF Items
      <3>2. \A n \in 1..(k - 1) : n \in DOMAIN Listing[t]
        BY <2>1
      <3>. QED
        BY <2>1, <3>1, <3>2 DEF Items
    <2>. QED
      BY <2>1, <2>2, <2>3 DEF Items
  <1>. HIDE DEF fetched
  <1>5. \A x \in Paths : new[x] = IF x = b THEN t
                                  ELSE IF x \in fetched /\ final[r][x] = NoFile THEN x
                                  ELSE final[r][x]
    OBVIOUS
  <1>6. new \in [Paths -> Contents]
    <2>1. ASSUME NEW x \in Paths PROVE new[x] \in Contents
      <3>1. final[r][x] \in Contents
        BY <1>2
      <3>. QED
        BY <3>1, <1>2, <1>4
    <2>. QED
      BY <2>1
  <1>. HIDE DEF new
  <1>7. final' \in [Repos -> [Paths -> Contents]]
    BY <1>1, <1>2, <1>6
  <1>8. \A s \in Repos, x \in Paths : final'[s][x] = IF s = r THEN new[x] ELSE final[s][x]
    BY <1>1, <1>2
  <1>9. \A s \in Repos : Present(s)' = IF s = r THEN Present(r) \cup fetched ELSE Present(s)
    <2>1. ASSUME NEW s \in Repos, NEW o \in ObjectIds
          PROVE  (o \in Present(s)') <=> (o \in Present(s) \/ (s = r /\ o \in fetched))
      <3>1. o \in Paths /\ o # b /\ o # NoFile
        BY <1>2
      <3>2. o \in Present(s) <=> final[s][o] # NoFile
        BY DEF Present
      <3>3. o \in Present(s)' <=> final'[s][o] # NoFile
        BY DEF Present
      <3>. QED
        BY <3>1, <3>2, <3>3, <1>5, <1>8
    <2>2. ASSUME NEW s \in Repos PROVE Present(s) \subseteq ObjectIds /\ Present(s)' \subseteq ObjectIds
      BY DEF Present
    <2>. QED
      BY <1>4, <2>1, <2>2
  <1>10. \A s \in Repos, d \in Branches :
            final'[s][d] = IF s = r /\ d = b THEN t ELSE final[s][d]
    BY <1>2, <1>4, <1>5, <1>8
  <1>11. StoresClosed'
    <2>1. ASSUME NEW s \in Repos, NEW o \in Present(s)' PROVE Needs[o] \subseteq Present(s)'
      BY <1>2, <1>4, <1>9 DEF StoresClosed
    <2>2. ASSUME NEW s \in Repos, NEW d \in Branches
          PROVE  final'[s][d] \in {NoFile, Empty} \cup Present(s)'
      BY <1>2, <1>4, <1>9, <1>10 DEF StoresClosed
    <2>. QED
      BY <2>1, <2>2 DEF StoresClosed
  <1>12. PartsNamed'
    BY <1>1, <1>2, <1>9 DEF PartsNamed
  <1>. QED
    BY <1>7, <1>9, <1>10, <1>11, <1>12

LEMMA LocalCommitKeeps ==
    ASSUME IInv, NEW r \in Repos, NEW b \in Branches, NEW t \in Tips, LocalCommit(r, b, t)
    PROVE  IInv'
  <1>1. UNCHANGED <<part, job, wire, ends, result, counts>>
    BY DEF LocalCommit
  <1>2. /\ final' \in [Repos -> [Paths -> Contents]]
        /\ \A s \in Repos : Present(s) \subseteq Present(s)'
        /\ StoresClosed' /\ PartsNamed'
    BY CommitFiles
  <1>3. part' \in [Repos -> [Paths -> Contents]] /\ WireType' /\ ResultType' /\ r \in Procs
    BY <1>1, TypeParts DEF IInv, TypeOK, WireType, ResultType, counts, Procs
  <1>4. job' = [job EXCEPT ![r] = job[r]] /\ job[r] \in JobType
    BY <1>1, <1>3, TypeParts
  <1>5. Fits(job[r], Present(Place(r))')
    <2>1. Place(r)' = Place(r) /\ Place(r) \in Repos
      BY <1>3, PlaceType DEF Place
    <2>2. Present(Place(r)) \subseteq Present(Place(r))'
      BY <1>2, <2>1
    <2>. QED
      BY <1>3, <2>2, TypeParts, FitsGrows
  <1>. QED
    BY <1>2, <1>3, <1>4, <1>5, OwnStep

-----------------------------------------------------------------------------
(* The invariant.                                                          *)

\* Every process starts at rest, in a repository whose refs, where there are
\* any, name listings that are all there.
LEMMA InitOK == Init => IInv
  <1>. SUFFICES ASSUME Init PROVE IInv
    OBVIOUS
  <1>1. PICK seed \in Seeds :
          final = [r \in Repos |-> [x \in Paths |->
                      IF x \in Branches THEN seed[r][x]
                      ELSE IF \E b \in Branches : /\ seed[r][b] # NoFile
                                                  /\ x \in Items(Listing[seed[r][b]])
                      THEN x ELSE NoFile]]
    BY DEF Init
  <1>2. /\ part = [r \in Repos |-> [x \in Paths |-> NoFile]]
        /\ job = [p \in Procs |-> Resting(p)] /\ wire = [e \in Ends |-> <<>>] /\ ends = {}
        /\ result = [c \in Clients |-> "none"] /\ runs = [c \in Clients |-> 0] /\ faults = 0
    BY DEF Init
  <1>3. \A r \in Repos, b \in Branches : seed[r][b] \in Tips \cup {NoFile}
    BY SeedsAssumption
  <1>4. /\ ObjectIds \cap Branches = {} /\ Tips \subseteq ObjectIds /\ NoFile \notin ObjectIds
        /\ NoFile \in Contents /\ ObjectIds \subseteq Contents
        /\ \A x \in Paths : x \in Branches \/ x \in ObjectIds
        /\ ObjectIds \subseteq Paths /\ Branches \subseteq Paths
    BY PathsAssumption DEF Paths, Contents
  <1>5. ASSUME NEW t \in Tips
        PROVE  /\ t \in Items(Listing[t]) /\ Items(Listing[t]) \subseteq ObjectIds
               /\ \A o \in Items(Listing[t]) : Needs[o] \subseteq Items(Listing[t])
    <2>1. Listing[t] \in Items(Listing)
      BY ListingAssumption DEF Items
    <2>2. /\ Listing[t] \in Seq(ObjectIds)
          /\ \A k \in DOMAIN Listing[t] : Listing[t][k] \in ObjectIds
          /\ \A k \in DOMAIN Listing[t] :
                Needs[Listing[t][k]] \subseteq {Listing[t][n] : n \in 1..(k - 1)}
      BY <2>1, ListingFacts
    <2>3. t \in Items(Listing[t])
      BY <2>1, ListingFacts, ListingAssumption DEF Items
    <2>4. ASSUME NEW o \in Items(Listing[t]) PROVE Needs[o] \subseteq Items(Listing[t])
      <3>1. PICK k \in DOMAIN Listing[t] : o = Listing[t][k]
        BY DEF Items
      <3>2. \A n \in 1..(k - 1) : n \in DOMAIN Listing[t]
        BY <2>2
      <3>. QED
        BY <2>2, <3>1, <3>2 DEF Items
    <2>. QED
      BY <2>2, <2>3, <2>4 DEF Items
  <1>. DEFINE In0(r, x) == \E b \in Branches : /\ seed[r][b] # NoFile
                                               /\ x \in Items(Listing[seed[r][b]])
  <1>6. \A r \in Repos, x \in Paths :
           final[r][x] = IF x \in Branches THEN seed[r][x] ELSE IF In0(r, x) THEN x ELSE NoFile
    BY <1>1
  <1>7. \A r \in Repos, o \in ObjectIds : o \in Present(r) <=> In0(r, o)
    BY <1>4, <1>6 DEF Present
  <1>. HIDE DEF In0
  <1>8. ASSUME NEW r \in Repos, NEW b \in Branches
        PROVE  final[r][b] \in {NoFile, Empty} \cup Present(r)
    <2>1. final[r][b] = seed[r][b] /\ seed[r][b] \in Tips \cup {NoFile}
      BY <1>3, <1>4, <1>6
    <2>2. CASE seed[r][b] # NoFile
      <3>1. In0(r, seed[r][b]) /\ seed[r][b] \in ObjectIds
        BY <2>1, <2>2, <1>4, <1>5 DEF In0
      <3>. QED
        BY <2>1, <3>1, <1>7
    <2>. QED
      BY <2>1, <2>2
  <1>9. ASSUME NEW r \in Repos, NEW o \in Present(r) PROVE Needs[o] \subseteq Present(r)
    <2>1. o \in ObjectIds /\ In0(r, o)
      BY <1>7 DEF Present
    <2>2. PICK b \in Branches : seed[r][b] # NoFile /\ o \in Items(Listing[seed[r][b]])
      BY <2>1 DEF In0
    <2>3. seed[r][b] \in Tips
      BY <1>3, <2>2
    <2>4. /\ Needs[o] \subseteq Items(Listing[seed[r][b]])
          /\ Items(Listing[seed[r][b]]) \subseteq ObjectIds
      BY <1>5, <2>2, <2>3
    <2>5. \A x \in Needs[o] : x \in ObjectIds /\ In0(r, x)
      BY <2>2, <2>4 DEF In0
    <2>. QED
      BY <2>5, <1>7
  <1>10. StoresClosed
    BY <1>8, <1>9 DEF StoresClosed
  <1>11. PartsNamed
    BY <1>2, <1>4 DEF PartsNamed
  <1>12. final \in [Repos -> [Paths -> Contents]]
    <2>1. ASSUME NEW r \in Repos, NEW x \in Paths PROVE final[r][x] \in Contents
      BY <1>3, <1>4, <1>6
    <2>2. final = [r \in Repos |-> [x \in Paths |-> final[r][x]]]
      BY <1>1
    <2>. QED
      BY <2>1, <2>2
  <1>13. ASSUME NEW p \in Procs
         PROVE  job[p] \in JobType /\ Fits(job[p], Present(Place(p)))
    BY <1>2, RestingFits
  <1>14. JobsOK /\ job \in [Procs -> JobType]
    BY <1>2, <1>13 DEF JobsOK
  <1>15. TypeOK
    <2>1. part \in [Repos -> [Paths -> Contents]]
      BY <1>2, <1>4
    <2>2. wire \in [Ends -> Seq(Messages)] /\ ends \subseteq Ends
      BY <1>2, NilType
    <2>3. ResultType
      BY <1>2 DEF ResultType
    <2>. QED
      BY <1>12, <1>14, <2>1, <2>2, <2>3 DEF TypeOK, ResultType
  <1>. QED
    BY <1>10, <1>11, <1>14, <1>15 DEF IInv

LEMMA StepKeeps == ASSUME IInv, NEW p \in Procs, Step(p) PROVE IInv'
  <1>1. CASE Sender(p)
    BY <1>1, SendListKeeps, RecvFlagsKeeps, SendFileKeeps, SendEndsKeeps DEF Sender
  <1>2. CASE Receiver(p)
    BY <1>2, RecvListKeeps, SendEndsKeeps, CheckKeeps, SendFlagsKeeps, RecvSizeKeeps,
       RecvDataKeeps, RenameKeeps, RefOpenKeeps, RefWriteKeeps, RefRenameKeeps DEF Receiver
  <1>. QED
    BY <1>1, <1>2, SkipKeeps, SendEndsKeeps, RecvFailsKeeps DEF Step

LEMMA NextKeeps == IInv /\ [Next]_vars => IInv'
  <1>. SUFFICES ASSUME IInv, [Next]_vars PROVE IInv'
    OBVIOUS
  <1>1. CASE UNCHANGED vars
    BY <1>1 DEF vars, IInv, TypeOK, StoresClosed, PartsNamed, JobsOK, Present, Place
  <1>2. CASE \E p \in Procs : Step(p) \/ DiskFull(p) \/ Kill(p)
    BY <1>2, StepKeeps, DiskFullKeeps, KillKeeps
  <1>3. CASE \E c \in Clients : Start(c) \/ Status(c) \/ Cut(c)
    BY <1>3, StartKeeps, StatusKeeps, CutKeeps
  <1>4. CASE \E r \in Repos : Accept(r) \/ BrokenPipe(r) \/ Serve(r)
    BY <1>4, AcceptKeeps, ServerKeeps
  <1>5. CASE \E r \in Repos, b \in Branches, t \in Tips : LocalCommit(r, b, t)
    BY <1>5, LocalCommitKeeps
  <1>. QED
    BY <1>1, <1>2, <1>3, <1>4, <1>5 DEF Next

LEMMA Invariance == Spec => []IInv
  BY InitOK, NextKeeps, PTL DEF Spec

\* Every variable holds a value of its kind, whatever fails and whoever else
\* works in the repository.
THEOREM TypesOK == Spec => []TypeOK
  <1>1. IInv => TypeOK
    BY DEF IInv
  <1>. QED
    BY <1>1, Invariance, PTL

\* Wherever push or pull is cut off (push.cpp, pull.cpp, recv_file), with any
\* number of them at work in a repository and its users committing, what an
\* object names is there and a ref names a commit that is there.
THEOREM TransfersKeepStoresClosed == Spec => []StoresClosed
  <1>1. IInv => StoresClosed
    BY DEF IInv
  <1>. QED
    BY <1>1, Invariance, PTL

-----------------------------------------------------------------------------
(* Every repository is a content store.                                    *)

\* What a step can do to the files at their own names.
LEMMA FilesChange ==
    ASSUME IInv, [Next]_vars
    PROVE  \/ final' = final
           \/ \E r \in Repos, x \in Paths, v \in Contents \ {NoFile} :
                 final' = [final EXCEPT ![r][x] = v]
           \/ \E r \in Repos, b \in Branches, t \in Tips : LocalCommit(r, b, t)
  <1>1. CASE UNCHANGED vars
    BY <1>1 DEF vars, files
  <1>. DEFINE Write == \E r \in Repos, x \in Paths, v \in Contents \ {NoFile} :
                          final' = [final EXCEPT ![r][x] = v]
  <1>2. ASSUME NEW p \in Procs, NEW v \in Contents \ {NoFile}, Path(p) \in Paths,
               final' = final \/ final' = [final EXCEPT ![Place(p)][Path(p)] = v]
        PROVE  final' = final \/ Write
    BY <1>2, PlaceType
  <1>. HIDE DEF Write
  <1>3. ASSUME NEW p \in Procs, RecvData(p) PROVE final' = final \/ Write
    <2>1. /\ job[p].pc = "data" /\ Arrived(p, "data")
          /\ Fill(p, Received(p), "rename")
      BY <1>3 DEF RecvData, At
    <2>2. In(p) \in Ends /\ WireType
      BY <2>1, TypeParts DEF Busy, Working, Receiving
    <2>3. Received(p) \in Contents \ {NoFile} /\ Path(p) \in Paths
      BY <2>1, <2>2, ReceivedType, PathFacts DEF Paths
    <2>4. final' = final \/ final' = [final EXCEPT ![Place(p)][Path(p)] = Received(p)]
      BY <2>1 DEF Fill
    <2>. QED
      BY <1>2, <2>3, <2>4
  <1>4. ASSUME NEW p \in Procs, RefWrite(p) PROVE final' = final \/ Write
    <2>. DEFINE tip == job[p].list[Len(job[p].list)]
    <2>1. job[p].pc = "refWrite" /\ Fill(p, tip, "refRename")
      BY <1>4 DEF RefWrite, At
    <2>2. job[p].list \in Items(Listing)
      BY <2>1, TypeParts DEF Fits, Working, Receiving
    <2>3. tip \in Contents \ {NoFile} /\ Path(p) \in Paths
      BY <2>1, <2>2, ListingFacts, PathFacts, PathsAssumption DEF Paths, Contents
    <2>. HIDE DEF tip
    <2>4. final' = final \/ final' = [final EXCEPT ![Place(p)][Path(p)] = tip]
      BY <2>1 DEF Fill
    <2>. QED
      BY <1>2, <2>3, <2>4
  <1>5. ASSUME NEW p \in Procs, Rename(p) \/ RefRename(p) PROVE final' = final \/ Write
    <2>. DEFINE v == part[Place(p)][Path(p)]
    <2>1. job[p].pc \in {"rename", "refRename"}
      BY <1>5 DEF Rename, RefRename, At
    <2>2. Path(p) \in Paths /\ Place(p) \in Repos
      BY <2>1, PathFacts, PlaceType DEF Paths
    <2>3. v \in Contents
      BY <2>2 DEF IInv, TypeOK
    <2>4. final' = final \/ (v # NoFile /\ final' = [final EXCEPT ![Place(p)][Path(p)] = v])
      BY <1>5 DEF Rename, RefRename, Abandon
    <2>. HIDE DEF v
    <2>. QED
      BY <1>2, <2>2, <2>3, <2>4
  <1>6. ASSUME NEW p \in Procs, Step(p) PROVE final' = final \/ Write
    <2>1. CASE Sender(p) \/ Skip(p) \/ SendFails(p) \/ RecvFails(p)
      BY <2>1 DEF Sender, SendList, RecvFlags, SendFile, SendDone, Skip, SendFails, RecvFails,
                  Abandon, files
    <2>2. CASE RecvList(p) \/ RecvError(p) \/ Check(p) \/ SendFlags(p) \/ RecvSize(p) \/ RefOpen(p)
      BY <2>2 DEF RecvList, RecvError, Check, SendFlags, RecvSize, RefOpen, files
    <2>. QED
      BY <1>3, <1>4, <1>5, <1>6, <2>1, <2>2 DEF Step, Receiver
  <1>7. ASSUME NEW p \in Procs, DiskFull(p) \/ Kill(p) PROVE final' = final
    BY <1>7 DEF DiskFull, Kill, Abandon, files
  <1>8. ASSUME NEW c \in Clients, Start(c) \/ Status(c) \/ Cut(c) PROVE final' = final
    BY <1>8 DEF Start, Status, Cut, files
  <1>9. ASSUME NEW r \in Repos, Accept(r) \/ BrokenPipe(r) \/ Serve(r) PROVE final' = final
    BY <1>9 DEF Accept, BrokenPipe, Serve, files
  <1>. QED
    BY <1>1, <1>6, <1>7, <1>8, <1>9 DEF Next, Write

\* No object goes, and at most one ref of one repository moves.
LEMMA StoresGrow ==
    ASSUME IInv, [Next]_vars
    PROVE  /\ \A s \in Repos : Present(s) \subseteq Present(s)'
           /\ \A s \in Repos, b \in Branches, d \in Branches :
                 final'[s][b] # final[s][b] /\ final'[s][d] # final[s][d] => b = d
  <1>1. CASE final' = final
    BY <1>1 DEF Present
  <1>2. ASSUME NEW r \in Repos, NEW x \in Paths, NEW v \in Contents \ {NoFile},
               final' = [final EXCEPT ![r][x] = v]
        PROVE  \A s \in Repos, y \in Paths :
                  final'[s][y] = IF s = r /\ y = x THEN v ELSE final[s][y]
    <2>1. final \in [Repos -> [Paths -> Contents]]
      BY DEF IInv, TypeOK
    <2>. DEFINE new == [final EXCEPT ![r][x] = v]
    <2>2. \A s \in Repos, y \in Paths : new[s][y] = IF s = r /\ y = x THEN v ELSE final[s][y]
      BY <2>1, EntryType
    <2>. QED
      BY <1>2, <2>2
  <1>3. ASSUME NEW r \in Repos, NEW x \in Paths, NEW v \in Contents \ {NoFile},
               final' = [final EXCEPT ![r][x] = v]
        PROVE  /\ \A s \in Repos : Present(s) \subseteq Present(s)'
               /\ \A s \in Repos, b \in Branches, d \in Branches :
                     final'[s][b] # final[s][b] /\ final'[s][d] # final[s][d] => b = d
    BY <1>2, <1>3 DEF Present, Paths
  <1>4. CASE \E r \in Repos, b \in Branches, t \in Tips : LocalCommit(r, b, t)
    BY <1>4, CommitFiles
  <1>. QED
    BY <1>1, <1>3, <1>4, FilesChange

LEMMA StoreInit == ASSUME IInv, NEW r \in Repos PROVE Store(r)!Init
  <1>1. StoresClosed
    BY DEF IInv
  <1>. QED
    BY <1>1 DEF Store!Init, Store!Closed, Store!Named, Store!Stored, StoresClosed

LEMMA StoreStep == ASSUME IInv, IInv', [Next]_vars, NEW r \in Repos PROVE Store(r)!Step
  <1>. DEFINE tip(b) == IF final[r][b] = Empty THEN NoFile ELSE final[r][b]
  <1>1. Present(r) \subseteq Present(r)'
    BY StoresGrow
  <1>2. Store(r)!Grow
    BY <1>1 DEF Store!Grow, Store!Stored
  <1>3. StoresClosed'
    BY DEF IInv
  <1>4. (Store(r)!Closed)'
    BY <1>3 DEF Store!Closed, Store!Stored, StoresClosed
  <1>5. ASSUME NEW b \in Branches, tip(b)' # tip(b)
        PROVE  /\ tip(b)' \in Present(r)' \cup {NoFile}
               /\ \A d \in Branches \ {b} : tip(d)' = tip(d)
    <2>1. tip(b)' \in Present(r)' \cup {NoFile}
      BY <1>3 DEF StoresClosed
    <2>2. final'[r][b] # final[r][b]
      BY <1>5
    <2>3. ASSUME NEW d \in Branches \ {b} PROVE tip(d)' = tip(d)
      <3>1. final'[r][d] = final[r][d]
        BY <2>2, StoresGrow
      <3>. QED
        BY <3>1
    <2>. QED
      BY <2>1, <2>3
  <1>6. Store(r)!Move
    BY <1>5 DEF Store!Move, Store!Named, Store!Stored
  <1>. QED
    BY <1>2, <1>4, <1>6 DEF Store!Step, Store!Next

\* Each repository implements ContentStore whatever the processes do to it and
\* wherever they are stopped: to who reads it, the graph of objects only grows,
\* is closed at every step, and one ref at a time moves to an object of it.
THEOREM TransfersImplementStores == Spec => RefinesStore
  <1>1. Init => \A r \in Repos : Store(r)!Init
    BY InitOK, StoreInit
  <1>2. IInv /\ IInv' /\ [Next]_vars => [\A r \in Repos : Store(r)!Step]_vars
    BY StoreStep
  <1>. QED
    BY <1>1, <1>2, Invariance, PTL DEF Spec, RefinesStore

-----------------------------------------------------------------------------
(* Who sends and who receives.                                             *)

SendSteps == {"walk", "flags", "send"}
RecvSteps == {"list", "check"} \cup Receiving

\* A process at work carries out a command: a pushing client and a server that
\* is pulled from send, the others receive; a read-only server only sends.
PlaysRole(p, j) ==
    /\ p \in Clients \/ j.pc \notin Busy => j.peer = p
    /\ j.pc \notin Busy => j.op = "none"
    /\ j.pc \in Busy => /\ \E m \in Commands : /\ m.op = j.op
                                               /\ p = IF p \in Clients THEN m.from ELSE m.to
                        /\ p \in ReadOnly => j.op = "pull"
    /\ j.pc = "status" => p \in Clients
    /\ j.pc \in SendSteps => (j.op = "push" <=> p \in Clients)
    /\ j.pc \in RecvSteps => (j.op = "pull" <=> p \in Clients)

Roles == \A p \in Procs : PlaysRole(p, job[p])

LEMMA RoleFacts ==
    ASSUME Roles, NEW p \in Procs
    PROVE  /\ job[p].pc \in Busy => job[p].op \in {"push", "pull"}
           /\ job[p].pc \in RecvSteps =>
                 /\ \E m \in Commands : Target(m) = p
                 /\ p \in ReadOnly => FALSE
  <1>1. PlaysRole(p, job[p])
    BY DEF Roles
  <1>2. \A m \in Commands : m.op \in {"push", "pull"}
    BY CommandsAssumption
  <1>3. RecvSteps \subseteq Busy /\ ReadOnly \cap Clients = {}
    BY ProcsAssumption DEF RecvSteps, Busy, Working
  <1>. QED
    BY <1>1, <1>2, <1>3 DEF PlaysRole, Target

\* What a step does to the work of one process.
Continues(j, k) == /\ k.op = j.op /\ k.peer = j.peer /\ k.br = j.br
                   /\ \/ k.pc = j.pc
                      \/ j.pc \in SendSteps /\ k.pc \in SendSteps
                      \/ j.pc \in RecvSteps /\ k.pc \in RecvSteps
                      \/ j.pc = "status" /\ k.pc = IF j.op = "push" THEN "walk" ELSE "list"
Retires(p, k) == k.pc \in {"idle", "accept", "down"} /\ k.peer = p /\ k.op = "none"
Begins(p, k) == \E m \in Commands :
    /\ k.op = m.op
    /\ \/ p \in Clients /\ m.from = p /\ k.pc = "status" /\ k.peer = p
       \/ /\ p \in Repos /\ m.to = p /\ Accepts(p, m)
          /\ k.pc = IF m.op = "push" THEN "list" ELSE "walk"
Develops(p, j, k) == Continues(j, k) \/ Retires(p, k) \/ Begins(p, k)

LEMMA RestDevelops ==
    ASSUME IInv, NEW p \in Procs, job' = [job EXCEPT ![p] = Resting(p)]
    PROVE  \A q \in Procs : Develops(q, job[q], job'[q])
  <1>1. job \in [Procs -> JobType]
    BY TypeParts
  <1>2. Retires(p, Resting(p))
    BY DEF Retires, Resting, Job
  <1>. QED
    BY <1>1, <1>2 DEF Develops, Continues

LEMMA MovedDevelops ==
    ASSUME IInv, NEW p \in Procs, NEW to \in {"final", "lost"}, NEW new,
           Develops(p, job[p], new), job' = [Moved(p, to) EXCEPT ![p] = new]
    PROVE  \A q \in Procs : Develops(q, job[q], job'[q])
  <1>1. job \in [Procs -> JobType] /\ DOMAIN Moved(p, to) = Procs
    BY TypeParts DEF Moved
  <1>2. ASSUME NEW q \in Procs, q # p PROVE Develops(q, job[q], job'[q])
    <2>1. job'[q] = Moved(p, to)[q]
      BY <1>1, <1>2
    <2>2. \/ Moved(p, to)[q] = job[q]
          \/ \E at \in {"final", "lost"} : Moved(p, to)[q] = [job[q] EXCEPT !.at = at]
      BY DEF Moved, Sharing
    <2>3. job[q] \in JobType
      BY <1>1
    <2>4. \A at \in {"final", "lost"} : Continues(job[q], [job[q] EXCEPT !.at = at])
      BY <2>3 DEF JobType, Continues
    <2>5. Continues(job[q], job[q])
      BY DEF Continues
    <2>. QED
      BY <2>1, <2>2, <2>4, <2>5 DEF Develops
  <1>. QED
    BY <1>1, <1>2

LEMMA OwnDevelops ==
    ASSUME IInv, NEW p \in Procs, NEW new, Develops(p, job[p], new),
           job' = [job EXCEPT ![p] = new]
    PROVE  \A q \in Procs : Develops(q, job[q], job'[q])
  <1>1. job \in [Procs -> JobType]
    BY TypeParts
  <1>. QED
    BY <1>1 DEF Develops, Continues

\* Every step develops the work of every process so.
LEMMA ActionDevelops ==
    ASSUME IInv, NEW p \in Procs,
           Sender(p) \/ Receiver(p) \/ Skip(p) \/ SendFails(p) \/ RecvFails(p) \/ DiskFull(p) \/ Kill(p)
    PROVE  \A q \in Procs : Develops(q, job[q], job'[q])
  <1>. DEFINE j == job[p]
              Goal == \A q \in Procs : Develops(q, job[q], job'[q])
  <1>1. j \in JobType
    BY TypeParts
  <1>2. ASSUME NEW k, Continues(j, k), job' = [job EXCEPT ![p] = k] PROVE Goal
    BY <1>2, OwnDevelops DEF Develops
  <1>3. ASSUME job' = [job EXCEPT ![p] = Resting(p)] PROVE Goal
    BY <1>3, RestDevelops
  <1>4. ASSUME NEW to \in {"final", "lost"}, NEW k, Continues(j, k) \/ k = Resting(p),
               job' = [Moved(p, to) EXCEPT ![p] = k]
        PROVE  Goal
    <2>1. Develops(p, j, k)
      BY <1>4 DEF Develops, Retires, Resting, Job
    <2>. QED
      BY <1>4, <2>1, MovedDevelops
  <1>. HIDE DEF Goal
  <1>5. ASSUME SendFails(p) \/ SendDone(p) \/ RecvError(p) \/ (SendList(p) /\ ~Walkable(p))
               \/ (SendFile(p) /\ final[Place(p)][Wanted(p)] = NoFile)
        PROVE  Goal
    BY <1>3, <1>5 DEF SendFails, SendDone, RecvError, SendList, SendFile, Rest, Become
  <1>6. ASSUME Abandon(p) PROVE Goal
    BY <1>4, <1>6 DEF Abandon
  <1>7. ASSUME RecvFails(p) \/ DiskFull(p) PROVE Goal
    BY <1>3, <1>6, <1>7 DEF RecvFails, DiskFull, Rest, Become
  <1>8. ASSUME Kill(p) PROVE Goal
    <2>1. CASE p \in Clients
      BY <1>3, <1>8, <2>1 DEF Kill, Rest, Become
    <2>2. CASE p \notin Clients
      <3>1. job' = [job EXCEPT ![p] = Job("down", "none", p, NoFile)]
        BY <1>8, <2>2 DEF Kill, Down, Become
      <3>2. Develops(p, j, Job("down", "none", p, NoFile))
        BY DEF Develops, Retires, Job
      <3>. QED
        BY <3>1, <3>2, OwnDevelops DEF Goal
    <2>. QED
      BY <2>1, <2>2
  <1>9. ASSUME SendList(p) /\ Walkable(p) PROVE Goal
    <2>. DEFINE k == [j EXCEPT !.pc = "flags", !.list = Listing[Tip(p)]]
    <2>1. job' = [job EXCEPT ![p] = k] /\ j.pc = "walk"
      BY <1>9 DEF SendList, Become, At
    <2>2. Continues(j, k)
      BY <1>1, <2>1 DEF JobType, Continues, SendSteps
    <2>. QED
      BY <1>2, <2>1, <2>2
  <1>10. ASSUME RecvFlags(p) PROVE Goal
    <2>. DEFINE k == [j EXCEPT !.pc = "send", !.have = Received(p), !.i = 1]
    <2>1. job' = [job EXCEPT ![p] = k] /\ j.pc = "flags"
      BY <1>10 DEF RecvFlags, Become, At
    <2>2. Continues(j, k)
      BY <1>1, <2>1 DEF JobType, Continues, SendSteps
    <2>. QED
      BY <1>2, <2>1, <2>2
  <1>11. ASSUME Skip(p) \/ (SendFile(p) /\ final[Place(p)][Wanted(p)] # NoFile) PROVE Goal
    <2>. DEFINE k == [j EXCEPT !.i = j.i + 1]
    <2>1. job' = [job EXCEPT ![p] = k]
      BY <1>11 DEF Skip, SendFile, Become
    <2>2. Continues(j, k)
      BY <1>1 DEF JobType, Continues
    <2>. QED
      BY <1>2, <2>1, <2>2
  <1>12. ASSUME RecvList(p) PROVE Goal
    <2>. DEFINE k == [j EXCEPT !.pc = "check", !.list = Received(p), !.i = 1]
    <2>1. job' = [job EXCEPT ![p] = k] /\ j.pc = "list"
      BY <1>12 DEF RecvList, Become, At
    <2>2. Continues(j, k)
      BY <1>1, <2>1 DEF JobType, Continues, RecvSteps
    <2>. QED
      BY <1>2, <2>1, <2>2
  <1>13. ASSUME Check(p) PROVE Goal
    <2>. DEFINE k == [j EXCEPT !.i = j.i + 1,
                               !.have = IF HasHash(p) THEN j.have \cup {Wanted(p)} ELSE j.have]
    <2>1. job' = [job EXCEPT ![p] = k]
      BY <1>13 DEF Check, Become
    <2>2. Continues(j, k)
      BY <1>1 DEF JobType, Continues
    <2>. QED
      BY <1>2, <2>1, <2>2
  <1>14. ASSUME SendFlags(p) PROVE Goal
    <2>. DEFINE k == [j EXCEPT !.pc = "recv", !.i = 1]
    <2>1. job' = [job EXCEPT ![p] = k] /\ j.pc = "check"
      BY <1>14 DEF SendFlags, Become, At
    <2>2. Continues(j, k)
      BY <1>1, <2>1 DEF JobType, Continues, RecvSteps, Receiving
    <2>. QED
      BY <1>2, <2>1, <2>2
  <1>15. ASSUME NEW pc \in Receiving, NEW at, j.pc \in Receiving,
                job' = [job EXCEPT ![p] = [j EXCEPT !.pc = pc, !.at = at]]
         PROVE  Goal
    <2>. DEFINE k == [j EXCEPT !.pc = pc, !.at = at]
    <2>1. Continues(j, k)
      BY <1>1, <1>15 DEF JobType, Continues, RecvSteps, Receiving
    <2>. QED
      BY <1>2, <1>15, <2>1
  <1>16. ASSUME RecvSize(p) \/ RefOpen(p) PROVE Goal
    <2>1. \/ job' = [job EXCEPT ![p] = [j EXCEPT !.pc = "data", !.at = "part"]]
          \/ job' = [job EXCEPT ![p] = [j EXCEPT !.pc = "refWrite", !.at = "part"]]
      BY <1>16 DEF RecvSize, RefOpen, Open, Become
    <2>2. j.pc \in Receiving /\ "data" \in Receiving /\ "refWrite" \in Receiving
      BY <1>16 DEF RecvSize, RefOpen, At, Receiving
    <2>. QED
      BY <1>15, <2>1, <2>2
  <1>17. ASSUME RecvData(p) \/ RefWrite(p) PROVE Goal
    <2>1. \/ job' = [job EXCEPT ![p] = [j EXCEPT !.pc = "rename", !.at = "none"]]
          \/ job' = [job EXCEPT ![p] = [j EXCEPT !.pc = "refRename", !.at = "none"]]
      BY <1>17 DEF RecvData, RefWrite, Fill, Become
    <2>2. j.pc \in Receiving /\ "rename" \in Receiving /\ "refRename" \in Receiving
      BY <1>17 DEF RecvData, RefWrite, At, Receiving
    <2>. QED
      BY <1>15, <2>1, <2>2
  <1>18. ASSUME Rename(p) PROVE Goal
    <2>. DEFINE k == [j EXCEPT !.pc = "recv", !.i = j.i + 1]
    <2>1. Abandon(p) \/ job' = [Moved(p, "final") EXCEPT ![p] = k]
      BY <1>18 DEF Rename
    <2>2. j.pc = "rename"
      BY <1>18 DEF Rename, At
    <2>3. Continues(j, k)
      BY <1>1, <2>2 DEF JobType, Continues, RecvSteps, Receiving
    <2>. QED
      BY <1>4, <1>6, <2>1, <2>3
  <1>19. ASSUME RefRename(p) PROVE Goal
    BY <1>4, <1>6, <1>19 DEF RefRename
  <1>. QED
    BY <1>5, <1>7, <1>8, <1>9, <1>10, <1>11, <1>12, <1>13, <1>14, <1>16, <1>17, <1>18, <1>19
    DEF Sender, Receiver, Goal

LEMMA NextDevelops ==
    ASSUME IInv, [Next]_vars
    PROVE  \A q \in Procs : Develops(q, job[q], job'[q])
  <1>. DEFINE Goal == \A q \in Procs : Develops(q, job[q], job'[q])
  <1>1. job \in [Procs -> JobType] /\ Clients \subseteq Procs /\ Repos \subseteq Procs
    BY TypeParts DEF Procs
  <1>2. ASSUME job' = job PROVE Goal
    BY <1>2 DEF Develops, Continues
  <1>3. ASSUME NEW p \in Procs, NEW k, Develops(p, job[p], k), job' = [job EXCEPT ![p] = k]
        PROVE  Goal
    BY <1>3, OwnDevelops
  <1>. HIDE DEF Goal
  <1>4. ASSUME NEW p \in Procs, Step(p) \/ DiskFull(p) \/ Kill(p) PROVE Goal
    BY <1>4, ActionDevelops DEF Step, Goal
  <1>5. ASSUME NEW c \in Clients, Start(c) PROVE Goal
    <2>1. PICK m \in Commands :
             /\ m.from = c
             /\ job' = job \/ job' = [job EXCEPT ![c] = Job("status", m.op, c, m.br)]
      BY <1>5 DEF Start, Become
    <2>2. Develops(c, job[c], Job("status", m.op, c, m.br))
      BY <2>1 DEF Develops, Begins, Job
    <2>. QED
      BY <1>1, <1>2, <1>3, <2>1, <2>2
  <1>6. ASSUME NEW c \in Clients, Status(c) PROVE Goal
    <2>. DEFINE pc == IF job[c].op = "push" THEN "walk" ELSE "list"
                k == [job[c] EXCEPT !.pc = pc]
    <2>1. job[c].pc = "status"
          /\ (job' = [job EXCEPT ![c] = k] \/ job' = [job EXCEPT ![c] = Resting(c)])
      BY <1>6 DEF Status, Goto, Rest, Become, At
    <2>2. Develops(c, job[c], k)
      BY <1>1, <2>1 DEF JobType, Develops, Continues
    <2>. QED
      BY <1>1, <1>3, <2>1, <2>2, RestDevelops DEF Goal
  <1>7. ASSUME NEW r \in Repos, Accept(r) PROVE Goal
    <2>1. PICK c \in Clients :
          /\ Request(r, c)
          /\ LET command == Head(wire[<<c, "server">>]).of
             IN  \/ job' = job
                 \/ /\ Accepts(r, command)
                    /\ job' = [job EXCEPT ![r] = Job(IF command.op = "push" THEN "list" ELSE "walk",
                                                     command.op, c, command.br)]
      BY <1>7 DEF Accept, Become
    <2>. DEFINE m == Head(wire[<<c, "server">>]).of
    <2>2. m \in Commands /\ m.to = r
      <3>1. wire[<<c, "server">>] \in Seq(Messages) /\ wire[<<c, "server">>] # <<>>
        BY <2>1, TypeParts DEF WireType, Ends, Request
      <3>2. Head(wire[<<c, "server">>]) \in Messages
        BY <3>1
      <3>. QED
        BY <2>1, <3>2 DEF Messages, Request
    <2>. HIDE DEF m
    <2>. DEFINE k == Job(IF m.op = "push" THEN "list" ELSE "walk", m.op, c, m.br)
    <2>3. job' = job \/ (Accepts(r, m) /\ job' = [job EXCEPT ![r] = k])
      BY <2>1 DEF m
    <2>4. k.pc = (IF m.op = "push" THEN "list" ELSE "walk") /\ k.op = m.op
      BY DEF Job
    <2>5. Accepts(r, m) => Develops(r, job[r], k)
      BY <2>2, <2>4 DEF Develops, Begins
    <2>. HIDE DEF k
    <2>. QED
      BY <1>1, <1>2, <1>3, <2>3, <2>5
  <1>8. ASSUME NEW r \in Repos, BrokenPipe(r) PROVE Goal
    <2>1. job' = [job EXCEPT ![r] = Job("down", "none", r, NoFile)]
      BY <1>8 DEF BrokenPipe, Down, Become
    <2>2. Develops(r, job[r], Job("down", "none", r, NoFile))
      BY DEF Develops, Retires, Job
    <2>. QED
      BY <1>1, <1>3, <2>1, <2>2
  <1>9. ASSUME NEW r \in Repos, Serve(r) PROVE Goal
    BY <1>1, <1>9, RestDevelops DEF Serve, Become, Goal
  <1>10. ASSUME NEW c \in Clients, Cut(c) PROVE Goal
    BY <1>2, <1>10 DEF Cut
  <1>11. ASSUME NEW r \in Repos, NEW b \in Branches, NEW t \in Tips, LocalCommit(r, b, t) PROVE Goal
    BY <1>2, <1>11 DEF LocalCommit
  <1>12. CASE UNCHANGED vars
    BY <1>2, <1>12 DEF vars, Goal
  <1>. QED
    BY <1>4, <1>5, <1>6, <1>7, <1>8, <1>9, <1>10, <1>11, <1>12 DEF Next, Goal

LEMMA RolesKeep == IInv /\ Roles /\ [Next]_vars => Roles'
  <1>. SUFFICES ASSUME IInv, Roles, [Next]_vars, NEW p \in Procs PROVE PlaysRole(p, job'[p])
    BY DEF Roles
  <1>1. Develops(p, job[p], job'[p]) /\ PlaysRole(p, job[p])
    BY NextDevelops DEF Roles
  <1>2. p \in Clients => p \notin Repos /\ p \notin ReadOnly
    BY ProcsAssumption
  <1>3. \A m \in Commands : m.op \in {"push", "pull"}
    BY CommandsAssumption
  <1>4. CASE Continues(job[p], job'[p])
    BY <1>1, <1>3, <1>4 DEF Continues, PlaysRole, SendSteps, RecvSteps, Busy, Working, Receiving
  <1>5. CASE Retires(p, job'[p])
    BY <1>5 DEF Retires, PlaysRole, SendSteps, RecvSteps, Busy, Working, Receiving
  <1>6. CASE Begins(p, job'[p])
    <2>1. PICK m \in Commands :
            /\ job'[p].op = m.op
            /\ \/ p \in Clients /\ m.from = p /\ job'[p].pc = "status" /\ job'[p].peer = p
               \/ /\ p \in Repos /\ m.to = p /\ Accepts(p, m)
                  /\ job'[p].pc = IF m.op = "push" THEN "list" ELSE "walk"
      BY <1>6 DEF Begins
    <2>2. p \in Repos => p \notin Clients
      BY ProcsAssumption
    <2>. QED
      BY <1>2, <1>3, <2>1, <2>2
      DEF PlaysRole, SendSteps, RecvSteps, Busy, Working, Receiving, Accepts
  <1>. QED
    BY <1>1, <1>4, <1>5, <1>6 DEF Develops

LEMMA RolesInit == Init => Roles
  BY DEF Init, Roles, PlaysRole, Resting, Job, SendSteps, RecvSteps, Busy, Working, Receiving

\* Files change where a user commits or at the hands of a receiver.
LEMMA FilesAuthor ==
    ASSUME IInv, [Next]_vars, NEW r \in Repos, ~(part'[r] = part[r] /\ final'[r] = final[r])
    PROVE  \/ \E b \in Branches, t \in Tips : LocalCommit(r, b, t)
           \/ \E p \in Procs : Place(p) = r /\ job[p].pc \in RecvSteps /\ job'[p] # job[p]
  <1>. DEFINE Goal == \E p \in Procs : Place(p) = r /\ job[p].pc \in RecvSteps /\ job'[p] # job[p]
  <1>1. ~ UNCHANGED files
    BY DEF files
  <1>2. ASSUME NEW p \in Procs, job[p].pc \in RecvSteps, job'[p] # job[p],
               \E x, v : part' = part \/ part' = [part EXCEPT ![Place(p)][x] = v],
               \E x, v : final' = final \/ final' = [final EXCEPT ![Place(p)][x] = v]
        PROVE  Goal
    <2>1. Place(p) = r
      BY <1>2 DEF IInv, TypeOK
    <2>. QED
      BY <1>2, <2>1
  <1>. HIDE DEF Goal
  <1>3. job \in [Procs -> JobType]
    BY TypeParts
  <1>4. ASSUME NEW p \in Procs, Abandon(p), job[p].pc \in RecvSteps PROVE Goal
    <2>1. job'[p] = Resting(p)
      BY <1>4 DEF Abandon, Moved
    <2>2. job'[p] # job[p]
      BY <1>4, <2>1 DEF Resting, Job, RecvSteps, Receiving
    <2>. QED
      BY <1>2, <1>4, <2>2 DEF Abandon
  <1>5. ASSUME NEW p \in Procs, RecvSize(p) \/ RefOpen(p) \/ RecvData(p) \/ RefWrite(p) PROVE Goal
    <2>1. job[p].pc \in Receiving
      BY <1>5 DEF RecvSize, RefOpen, RecvData, RefWrite, At, Receiving
    <2>2. job'[p].pc # job[p].pc
      <3>1. CASE RecvSize(p)
        BY <1>3, <3>1 DEF RecvSize, Open, Become, At, JobType
      <3>2. CASE RefOpen(p)
        BY <1>3, <3>2 DEF RefOpen, Open, Become, At, JobType
      <3>3. CASE RecvData(p)
        BY <1>3, <3>3 DEF RecvData, Fill, Become, At, JobType
      <3>4. CASE RefWrite(p)
        BY <1>3, <3>4 DEF RefWrite, Fill, Become, At, JobType
      <3>. QED
        BY <1>5, <3>1, <3>2, <3>3, <3>4
    <2>3. /\ \E x, v : part' = part \/ part' = [part EXCEPT ![Place(p)][x] = v]
          /\ \E x, v : final' = final \/ final' = [final EXCEPT ![Place(p)][x] = v]
      <3>1. CASE RecvSize(p) \/ RefOpen(p)
        BY <3>1 DEF RecvSize, RefOpen, Open
      <3>2. CASE RecvData(p) \/ RefWrite(p)
        BY <3>2 DEF RecvData, RefWrite, Fill
      <3>. QED
        BY <1>5, <3>1, <3>2
    <2>. QED
      BY <1>2, <2>1, <2>2, <2>3 DEF RecvSteps
  <1>6. ASSUME NEW p \in Procs, Rename(p) \/ RefRename(p) PROVE Goal
    <2>1. job[p].pc \in {"rename", "refRename"}
      BY <1>6 DEF Rename, RefRename, At
    <2>2. CASE Abandon(p)
      BY <1>4, <2>1, <2>2 DEF RecvSteps, Receiving
    <2>3. CASE ~Abandon(p)
      <3>1. job'[p] = Resting(p) \/ job'[p] = [job[p] EXCEPT !.pc = "recv", !.i = @ + 1]
        BY <1>6, <2>3 DEF Rename, RefRename, Moved
      <3>3. Resting(p).pc \in {"idle", "accept"}
        BY DEF Resting, Job
      <3>4. [job[p] EXCEPT !.pc = "recv", !.i = @ + 1].pc = "recv"
        BY <1>3 DEF JobType
      <3>2. job'[p].pc # job[p].pc
        BY <2>1, <3>1, <3>3, <3>4
      <3>. QED
        BY <1>2, <1>6, <2>1, <2>3, <3>2 DEF Rename, RefRename, RecvSteps, Receiving
    <2>. QED
      BY <2>2, <2>3
  <1>7. ASSUME NEW p \in Procs, RecvFails(p) \/ DiskFull(p) PROVE Goal
    BY <1>1, <1>4, <1>7 DEF RecvFails, DiskFull, At, RecvSteps, Receiving
  <1>8. ASSUME NEW p \in Procs, Step(p) PROVE Goal
    <2>1. CASE Sender(p) \/ Skip(p) \/ SendFails(p)
      BY <1>1, <2>1 DEF Sender, SendList, RecvFlags, SendFile, SendDone, Skip, SendFails
    <2>2. CASE RecvList(p) \/ RecvError(p) \/ Check(p) \/ SendFlags(p)
      BY <1>1, <2>2 DEF RecvList, RecvError, Check, SendFlags
    <2>. QED
      BY <1>5, <1>6, <1>7, <1>8, <2>1, <2>2 DEF Step, Receiver
  <1>9. ASSUME NEW p \in Procs PROVE ~Kill(p)
    BY <1>1 DEF Kill
  <1>10. ASSUME NEW c \in Clients PROVE ~(Start(c) \/ Status(c) \/ Cut(c))
    BY <1>1 DEF Start, Status, Cut
  <1>11. ASSUME NEW q \in Repos PROVE ~(Accept(q) \/ BrokenPipe(q) \/ Serve(q))
    BY <1>1 DEF Accept, BrokenPipe, Serve
  <1>12. ASSUME NEW q \in Repos, NEW b \in Branches, NEW t \in Tips, LocalCommit(q, b, t)
         PROVE  q = r
    BY <1>12 DEF LocalCommit, IInv, TypeOK
  <1>13. ~ UNCHANGED vars
    BY <1>1 DEF vars
  <1>. QED
    BY <1>7, <1>8, <1>9, <1>10, <1>11, <1>12, <1>13 DEF Next, Goal

LEMMA RolesInvariance == Spec => [](IInv /\ Roles)
  <1>1. Init => IInv /\ Roles
    BY InitOK, RolesInit
  <1>2. (IInv /\ Roles) /\ [Next]_vars => (IInv /\ Roles)'
    BY NextKeeps, RolesKeep
  <1>. QED
    BY <1>1, <1>2, PTL DEF Spec

\* A server started with ro=1 (serve.cpp) never writes a file, whatever clients
\* send: its repository changes when its users commit or pull, and not else.
THEOREM ReadOnlyIsKept == Spec => ReadOnlyKept
  <1>1. IInv /\ Roles /\ [Next]_vars =>
           [\A r \in ReadOnly : \/ part'[r] = part[r] /\ (final'[r] = final[r] \/ job' = job)
                                \/ PullsInto(r)]_vars
    <2>. SUFFICES ASSUME IInv, Roles, [Next]_vars, NEW r \in ReadOnly,
                         ~(part'[r] = part[r] /\ (final'[r] = final[r] \/ job' = job))
                  PROVE  PullsInto(r)
      OBVIOUS
    <2>1. r \in Repos
      BY ProcsAssumption
    <2>2. PICK p \in Procs : Place(p) = r /\ job[p].pc \in RecvSteps /\ job'[p] # job[p]
      BY <2>1, FilesAuthor DEF LocalCommit
    <2>3. p \in Clients
      BY <2>2, RoleFacts, ProcsAssumption DEF Place
    <2>4. job[p].op = "pull"
      BY <2>2, <2>3 DEF Roles, PlaysRole
    <2>. QED
      BY <2>2, <2>3, <2>4 DEF PullsInto
  <1>. QED
    BY <1>1, RolesInvariance, PTL DEF Spec, ReadOnlyKept

-----------------------------------------------------------------------------
(* What is on its way to a receiver.                                       *)

LEMMA TailFacts ==
    ASSUME NEW S, NEW w \in Seq(S), w # <<>>
    PROVE  /\ Tail(w) \in Seq(S) /\ Len(Tail(w)) = Len(w) - 1 /\ Len(w) \in Nat \ {0}
           /\ Head(w) = w[1] /\ w[1] \in S
           /\ \A k \in 1..(Len(w) - 1) : Tail(w)[k] = w[k + 1]
  OBVIOUS

LEMMA CutFacts ==
    ASSUME NEW S, NEW w \in Seq(S), NEW n \in 0..Len(w)
    PROVE  /\ SubSeq(w, 1, n) \in Seq(S) /\ Len(SubSeq(w, 1, n)) = n
           /\ \A k \in 1..n : SubSeq(w, 1, n)[k] = w[k]
  OBVIOUS

LEMMA OneMoreFacts ==
    ASSUME NEW S, NEW w \in Seq(S), NEW a \in S
    PROVE  /\ w \o <<a>> \in Seq(S) /\ Len(w \o <<a>>) = Len(w) + 1
           /\ (w \o <<a>>)[Len(w) + 1] = a
           /\ \A k \in 1..Len(w) : (w \o <<a>>)[k] = w[k]
  OBVIOUS

LEMMA TwoMoreFacts ==
    ASSUME NEW S, NEW w \in Seq(S), NEW a \in S, NEW b \in S
    PROVE  /\ w \o <<a, b>> \in Seq(S) /\ Len(w \o <<a, b>>) = Len(w) + 2
           /\ (w \o <<a, b>>)[Len(w) + 1] = a /\ (w \o <<a, b>>)[Len(w) + 2] = b
           /\ \A k \in 1..Len(w) : (w \o <<a, b>>)[k] = w[k]
  OBVIOUS

LEMMA EmptyFacts == ASSUME NEW S, NEW w \in Seq(S) PROVE w = <<>> <=> Len(w) = 0
  OBVIOUS

\* The place in its list a receiver has come to.
Ahead(j) == IF j.pc = "rename" THEN j.i + 1 ELSE j.i

\* m is the first place from n on of an object that is wanted.
FirstWanted(j, n, m) ==
    /\ n <= m /\ m \in DOMAIN j.list /\ j.list[m] \notin j.have
    /\ \A k \in DOMAIN j.list : n <= k /\ k < m => j.list[k] \in j.have

\* w is the rest of a stream of files: at says to which place in the list each
\* message belongs.
InFile(j, w, k) == IF k = 1 THEN j.pc = "data" ELSE w[k - 1].kind = "size"
Follows(j, w, at, k) ==
    /\ w[k].kind \in {"size", "data", "error"}
    /\ w[k].kind = "data" <=> InFile(j, w, k)
    /\ w[k].kind = "error" => k = Len(w)
    /\ w[k].kind = "data" => w[k].of = j.list[at[k]]
    /\ FirstWanted(j, IF k = 1 THEN Ahead(j)
                      ELSE IF w[k].kind = "data" THEN at[k - 1] ELSE at[k - 1] + 1, at[k])
Placed(j, w, at) == /\ at \in [1..Len(w) -> DOMAIN j.list]
                    /\ \A k \in 1..Len(w) : Follows(j, w, at, k)
Carries(j, w) == \E at \in [1..Len(w) -> DOMAIN j.list] : Placed(j, w, at)

\* The stream ends after a whole file, and the next one the sender comes to
\* from n on is the next one after the stream.
Whither(j, w, at) == IF w = <<>> THEN Ahead(j) ELSE at[Len(w)] + 1
Level(j, m, n) == \A k \in DOMAIN j.list :
                     (m <= k /\ k < n) \/ (n <= k /\ k < m) => j.list[k] \in j.have
EndsWhole(j, w) == IF w = <<>> THEN j.pc # "data" ELSE w[Len(w)].kind = "data"
UpTo(j, w, n) == /\ j.pc \in Receiving /\ EndsWhole(j, w)
                 /\ \E at \in [1..Len(w) -> DOMAIN j.list] :
                       Placed(j, w, at) /\ Level(j, Whither(j, w, at), n)

\* A receiver in the middle of a file is at a place that is wanted.
AtWanted(j) == j.pc \in {"data", "rename"} => j.i \in DOMAIN j.list /\ j.list[j.i] \notin j.have

\* The first message belongs to the place the receiver is at, if that is wanted.
LEMMA FirstPlace ==
    ASSUME NEW j \in JobType, NEW w \in Seq(Messages), w # <<>>, NEW at, Placed(j, w, at),
           j.pc # "rename", j.i \in DOMAIN j.list, j.list[j.i] \notin j.have
    PROVE  at[1] = j.i
  <1>1. Len(w) \in Nat /\ 1 \in 1..Len(w)
    BY TailFacts
  <1>2. FirstWanted(j, j.i, at[1])
    BY <1>1 DEF Placed, Follows, Ahead
  <1>3. j.i \in Nat /\ j.list \in Seq(ObjectIds)
    BY DEF JobType
  <1>. QED
    BY <1>2, <1>3 DEF FirstWanted

\* Reading the length, or the bytes, of a file.
LEMMA TailPlaced ==
    ASSUME NEW j \in JobType, NEW k \in JobType, NEW w \in Seq(Messages), w # <<>>,
           NEW at, Placed(j, w, at), k.list = j.list, k.have = j.have, k.i = j.i,
           j.i \in DOMAIN j.list, j.list[j.i] \notin j.have,
           \/ j.pc = "recv" /\ k.pc = "data" /\ w[1].kind = "size"
           \/ j.pc = "data" /\ k.pc = "rename" /\ w[1].kind = "data"
    PROVE  LET v == Tail(w)
               bt == [n \in 1..Len(v) |-> at[n + 1]]
           IN  /\ Placed(k, v, bt) /\ bt \in [1..Len(v) -> DOMAIN j.list]
               /\ EndsWhole(j, w) => EndsWhole(k, v) /\ Whither(k, v, bt) = Whither(j, w, at)
  <1>. DEFINE v == Tail(w)
              bt == [n \in 1..Len(v) |-> at[n + 1]]
  <1>1. /\ v \in Seq(Messages) /\ Len(v) = Len(w) - 1 /\ Len(w) \in Nat \ {0} /\ Len(v) \in Nat
        /\ \A n \in 1..Len(v) : v[n] = w[n + 1] /\ n + 1 \in 1..Len(w) /\ n \in 1..Len(w)
    BY TailFacts
  <1>2. at[1] = j.i
    BY FirstPlace
  <1>3. at \in [1..Len(w) -> DOMAIN j.list] /\ \A n \in 1..Len(w) : Follows(j, w, at, n)
    BY DEF Placed
  <1>4. /\ bt \in [1..Len(v) -> DOMAIN j.list]
        /\ \A n \in 1..Len(v) : bt[n] = at[n + 1]
    BY <1>1, <1>3
  <1>5. w = <<>> <=> Len(w) = 0
    BY EmptyFacts
  <1>6. v = <<>> <=> Len(v) = 0
    BY <1>1, EmptyFacts
  <1>. HIDE DEF v, bt
  <1>7. ASSUME NEW n \in 1..Len(v) PROVE Follows(k, v, bt, n)
    <2>1. Follows(j, w, at, n + 1) /\ v[n] = w[n + 1] /\ n + 1 # 1 /\ n \in Nat /\ n + 1 - 1 = n
      BY <1>1, <1>3
    <2>2. /\ v[n].kind \in {"size", "data", "error"}
          /\ v[n].kind = "data" <=> w[n].kind = "size"
          /\ v[n].kind = "error" => n = Len(v)
          /\ v[n].kind = "data" => v[n].of = k.list[bt[n]]
      BY <2>1, <1>1, <1>4 DEF Follows, InFile
    <2>3. FirstWanted(k, IF v[n].kind = "data" THEN at[n] ELSE at[n] + 1, bt[n])
      <3>1. FirstWanted(j, IF w[n + 1].kind = "data" THEN at[n] ELSE at[n] + 1, at[n + 1])
        BY <2>1 DEF Follows
      <3>. QED
        BY <3>1, <2>1, <1>4 DEF FirstWanted
    <2>4. CASE n = 1
      BY <2>2, <2>3, <2>4, <1>2 DEF Follows, InFile, Ahead
    <2>5. CASE n # 1
      <3>1. n - 1 \in 1..Len(v) /\ n - 1 + 1 = n
        BY <2>5, <2>1, <1>1
      <3>2. bt[n - 1] = at[n] /\ v[n - 1] = w[n]
        BY <3>1, <1>1, <1>4
      <3>. QED
        BY <2>2, <2>3, <2>5, <3>2 DEF Follows, InFile
    <2>. QED
      BY <2>4, <2>5
  <1>8. Placed(k, v, bt)
    BY <1>4, <1>7 DEF Placed
  <1>9. ASSUME EndsWhole(j, w)
        PROVE  EndsWhole(k, v) /\ Whither(k, v, bt) = Whither(j, w, at)
    <2>1. w[Len(w)].kind = "data" /\ Whither(j, w, at) = at[Len(w)] + 1
      BY <1>9 DEF EndsWhole, Whither
    <2>2. CASE v = <<>>
      <3>1. Len(w) = 1
        BY <2>2, <1>1, <1>6
      <3>2. k.pc = "rename"
        BY <3>1, <2>1
      <3>. QED
        BY <2>1, <2>2, <3>1, <3>2, <1>2 DEF EndsWhole, Whither, Ahead
    <2>3. CASE v # <<>>
      <3>1. Len(v) \in 1..Len(v) /\ Len(v) + 1 = Len(w)
        BY <2>3, <1>1, <1>6
      <3>2. v[Len(v)] = w[Len(w)] /\ bt[Len(v)] = at[Len(w)]
        BY <3>1, <1>1, <1>4
      <3>. QED
        BY <2>1, <2>3, <3>2 DEF EndsWhole, Whither
    <2>. QED
      BY <2>2, <2>3
  <1>. QED
    BY <1>4, <1>8, <1>9 DEF v, bt

\* A step of the receiver that reads nothing.
LEMMA StillPlaced ==
    ASSUME NEW j \in JobType, NEW k \in JobType, NEW w \in Seq(Messages),
           NEW at, Placed(j, w, at), k.list = j.list, k.have = j.have,
           j.pc = "data" <=> k.pc = "data",
           \/ Ahead(k) = Ahead(j)
           \/ /\ Ahead(k) = Ahead(j) + 1 /\ Ahead(j) \in DOMAIN j.list
              /\ j.list[Ahead(j)] \in j.have
    PROVE  /\ Placed(k, w, at)
           /\ EndsWhole(j, w) => EndsWhole(k, w)
           /\ \A n \in Nat : Level(j, Whither(j, w, at), n) => Level(k, Whither(k, w, at), n)
  <1>1. /\ j.list \in Seq(ObjectIds) /\ \A n \in DOMAIN j.list : n \in Nat
        /\ Ahead(j) \in Nat /\ Ahead(k) \in Nat
    BY DEF JobType, Ahead
  <1>2. \A m \in Nat : FirstWanted(j, Ahead(j), m) => FirstWanted(k, Ahead(k), m)
    <2>. SUFFICES ASSUME NEW m \in Nat, FirstWanted(j, Ahead(j), m)
                  PROVE  FirstWanted(k, Ahead(k), m)
      OBVIOUS
    <2>1. CASE Ahead(k) = Ahead(j)
      BY <2>1 DEF FirstWanted
    <2>2. CASE Ahead(k) = Ahead(j) + 1 /\ j.list[Ahead(j)] \in j.have
      BY <2>2, <1>1 DEF FirstWanted
    <2>. QED
      BY <2>1, <2>2
  <1>3. ASSUME NEW n \in 1..Len(w) PROVE Follows(k, w, at, n)
    <2>1. Follows(j, w, at, n) /\ at[n] \in Nat
      BY <1>1 DEF Placed
    <2>2. CASE n = 1
      BY <2>1, <2>2, <1>2 DEF Follows, InFile
    <2>3. CASE n # 1
      BY <2>1, <2>3 DEF Follows, InFile, FirstWanted
    <2>. QED
      BY <2>2, <2>3
  <1>4. ASSUME NEW n \in Nat, Level(j, Whither(j, w, at), n)
        PROVE  Level(k, Whither(k, w, at), n)
    <2>1. CASE w # <<>>
      BY <1>4, <2>1 DEF Level, Whither
    <2>2. CASE w = <<>> /\ Ahead(k) = Ahead(j)
      BY <1>4, <2>2 DEF Level, Whither
    <2>3. CASE w = <<>> /\ Ahead(k) = Ahead(j) + 1 /\ j.list[Ahead(j)] \in j.have
      BY <1>1, <1>4, <2>3 DEF Level, Whither
    <2>. QED
      BY <2>1, <2>2, <2>3
  <1>. QED
    BY <1>3, <1>4 DEF Placed, EndsWhole

\* A stream that is cut off.
LEMMA CutPlaced ==
    ASSUME NEW j \in JobType, NEW w \in Seq(Messages), NEW n \in 0..Len(w), Carries(j, w)
    PROVE  Carries(j, SubSeq(w, 1, n))
  <1>. DEFINE v == SubSeq(w, 1, n)
  <1>1. PICK at \in [1..Len(w) -> DOMAIN j.list] : Placed(j, w, at)
    BY DEF Carries
  <1>. DEFINE bt == [m \in 1..n |-> at[m]]
  <1>2. Len(v) = n /\ \A m \in 1..n : v[m] = w[m]
    BY CutFacts
  <1>3. Len(w) \in Nat /\ \A m \in 1..n : m \in 1..Len(w) /\ bt[m] = at[m]
    OBVIOUS
  <1>4. bt \in [1..Len(v) -> DOMAIN j.list]
    BY <1>2, <1>3
  <1>. HIDE DEF v, bt
  <1>5. ASSUME NEW m \in 1..Len(v) PROVE Follows(j, v, bt, m)
    <2>1. Follows(j, w, at, m) /\ v[m] = w[m] /\ bt[m] = at[m] /\ m \in 1..n
      BY <1>1, <1>2, <1>3 DEF Placed
    <2>2. m # 1 => m - 1 \in 1..n
      BY <2>1
    <2>3. m # 1 => v[m - 1] = w[m - 1] /\ bt[m - 1] = at[m - 1]
      BY <2>2, <1>2, <1>3
    <2>4. v[m].kind = "error" => m = Len(v)
      BY <2>1, <1>2, <1>3 DEF Follows
    <2>. QED
      BY <2>1, <2>3, <2>4 DEF Follows, InFile
  <1>. QED
    BY <1>4, <1>5 DEF Carries, Placed, v

\* The place the sender has come to is the first wanted one after the stream.
LEMMA SenderPlace ==
    ASSUME NEW j \in JobType, NEW w \in Seq(Messages), NEW at, Placed(j, w, at),
           NEW m \in DOMAIN j.list, j.list[m] \notin j.have, Level(j, Whither(j, w, at), m)
    PROVE  FirstWanted(j, Whither(j, w, at), m)
  <1>1. j.list \in Seq(ObjectIds) /\ \A n \in DOMAIN j.list : n \in Nat
    BY DEF JobType
  <1>2. Whither(j, w, at) \in Nat
    <2>1. Ahead(j) \in Nat
      BY DEF JobType, Ahead
    <2>2. w # <<>> => Len(w) \in 1..Len(w)
      BY TailFacts
    <2>3. w # <<>> => at[Len(w)] \in DOMAIN j.list
      BY <2>2 DEF Placed
    <2>. QED
      BY <2>1, <2>3, <1>1 DEF Whither
  <1>. DEFINE p == Whither(j, w, at)
  <1>. HIDE DEF p
  <1>3. p <= m
    BY <1>1, <1>2 DEF Level, p
  <1>4. \A k \in DOMAIN j.list : p <= k /\ k < m => j.list[k] \in j.have
    BY <1>1 DEF Level, p
  <1>. QED
    BY <1>3, <1>4 DEF FirstWanted, p

\* The sender puts the marker of an error in place of a file.
LEMMA ErrorPlaced ==
    ASSUME NEW j \in JobType, NEW w \in Seq(Messages), NEW e \in Messages, e.kind = "error",
           NEW m \in DOMAIN j.list, j.list[m] \notin j.have, UpTo(j, w, m)
    PROVE  Carries(j, w \o <<e>>)
  <1>1. PICK at \in [1..Len(w) -> DOMAIN j.list] :
           Placed(j, w, at) /\ Level(j, Whither(j, w, at), m)
    BY DEF UpTo
  <1>. DEFINE v == w \o <<e>>
              bt == [n \in 1..(Len(w) + 1) |-> IF n = Len(w) + 1 THEN m ELSE at[n]]
  <1>2. Len(w) \in Nat /\ Len(v) = Len(w) + 1 /\ v[Len(w) + 1] = e /\ \A n \in 1..Len(w) : v[n] = w[n]
    BY OneMoreFacts
  <1>3. /\ bt \in [1..Len(v) -> DOMAIN j.list]
        /\ bt[Len(w) + 1] = m /\ \A n \in 1..Len(w) : bt[n] = at[n]
    BY <1>2
  <1>4. FirstWanted(j, Whither(j, w, at), m)
    BY <1>1, SenderPlace
  <1>5. w = <<>> <=> Len(w) = 0
    BY EmptyFacts
  <1>. HIDE DEF v, bt
  <1>6. ASSUME NEW n \in 1..Len(w) PROVE Follows(j, v, bt, n)
    <2>1. Follows(j, w, at, n) /\ v[n] = w[n] /\ bt[n] = at[n]
      BY <1>1, <1>2, <1>3 DEF Placed
    <2>2. n # 1 => n - 1 \in 1..Len(w)
      BY <1>2
    <2>3. n # 1 => v[n - 1] = w[n - 1] /\ bt[n - 1] = at[n - 1]
      BY <2>2, <1>2, <1>3
    <2>4. w[n].kind # "error"
      BY <2>1, <1>5 DEF UpTo, EndsWhole, Follows
    <2>. QED
      BY <2>1, <2>3, <2>4 DEF Follows, InFile
  <1>7. Follows(j, v, bt, Len(w) + 1)
    <2>1. CASE w = <<>>
      BY <2>1, <1>2, <1>3, <1>4, <1>5 DEF Follows, InFile, Whither, UpTo, EndsWhole
    <2>2. CASE w # <<>>
      <3>1. Len(w) \in 1..Len(w) /\ Len(w) + 1 - 1 = Len(w) /\ Len(w) + 1 # 1
        BY <2>2, <1>2, <1>5
      <3>2. v[Len(w)] = w[Len(w)] /\ bt[Len(w)] = at[Len(w)] /\ w[Len(w)].kind = "data"
        BY <2>2, <3>1, <1>2, <1>3 DEF UpTo, EndsWhole
      <3>. QED
        BY <2>2, <3>1, <3>2, <1>2, <1>3, <1>4 DEF Follows, InFile, Whither
    <2>. QED
      BY <2>1, <2>2
  <1>8. \A n \in 1..Len(v) : n \in 1..Len(w) \/ n = Len(w) + 1
    BY <1>2
  <1>. QED
    BY <1>3, <1>6, <1>7, <1>8 DEF Carries, Placed, v

\* The sender sends the file it has come to.
LEMMA FilePlaced ==
    ASSUME NEW j \in JobType, NEW w \in Seq(Messages),
           NEW a \in Messages, NEW b \in Messages, a.kind = "size", b.kind = "data",
           NEW m \in DOMAIN j.list, j.list[m] \notin j.have, UpTo(j, w, m), b.of = j.list[m]
    PROVE  UpTo(j, w \o <<a, b>>, m + 1)
  <1>1. PICK at \in [1..Len(w) -> DOMAIN j.list] :
           Placed(j, w, at) /\ Level(j, Whither(j, w, at), m)
    BY DEF UpTo
  <1>. DEFINE v == w \o <<a, b>>
              l == Len(w)
              bt == [n \in 1..(l + 2) |-> IF n > l THEN m ELSE at[n]]
  <1>2. /\ l \in Nat /\ Len(v) = l + 2 /\ v[l + 1] = a /\ v[l + 2] = b
        /\ \A n \in 1..l : v[n] = w[n]
    BY TwoMoreFacts
  <1>3. /\ bt \in [1..Len(v) -> DOMAIN j.list]
        /\ bt[l + 1] = m /\ bt[l + 2] = m /\ \A n \in 1..l : bt[n] = at[n]
    BY <1>2
  <1>4. FirstWanted(j, Whither(j, w, at), m)
    BY <1>1, SenderPlace
  <1>5. (w = <<>> <=> l = 0) /\ m \in Nat
    BY EmptyFacts DEF JobType
  <1>. HIDE DEF v, bt, l
  <1>6. ASSUME NEW n \in 1..l PROVE Follows(j, v, bt, n)
    <2>1. Follows(j, w, at, n) /\ v[n] = w[n] /\ bt[n] = at[n]
      BY <1>1, <1>2, <1>3 DEF Placed, l
    <2>2. n # 1 => n - 1 \in 1..l
      BY <1>2
    <2>3. n # 1 => v[n - 1] = w[n - 1] /\ bt[n - 1] = at[n - 1]
      BY <2>2, <1>2, <1>3
    <2>4. w[n].kind # "error"
      BY <2>1, <1>5 DEF UpTo, EndsWhole, Follows, l
    <2>. QED
      BY <2>1, <2>3, <2>4 DEF Follows, InFile
  <1>7. Follows(j, v, bt, l + 1)
    <2>1. CASE w = <<>>
      BY <2>1, <1>2, <1>3, <1>4, <1>5 DEF Follows, InFile, Whither, UpTo, EndsWhole
    <2>2. CASE w # <<>>
      <3>1. l \in 1..l /\ l + 1 - 1 = l /\ l + 1 # 1
        BY <2>2, <1>2, <1>5
      <3>2. v[l] = w[l] /\ bt[l] = at[l] /\ w[l].kind = "data"
        BY <2>2, <3>1, <1>2, <1>3 DEF UpTo, EndsWhole, l
      <3>. QED
        BY <2>2, <3>1, <3>2, <1>2, <1>3, <1>4 DEF Follows, InFile, Whither, l
    <2>. QED
      BY <2>1, <2>2
  <1>8. Follows(j, v, bt, l + 2)
    <2>1. l + 2 # 1 /\ l + 2 - 1 = l + 1 /\ l + 2 = Len(v)
      BY <1>2
    <2>2. FirstWanted(j, m, m)
      <3>1. j.list \in Seq(ObjectIds) /\ \A k \in DOMAIN j.list : k \in Nat
        BY DEF JobType
      <3>. QED
        BY <1>5, <3>1 DEF FirstWanted
    <2>. QED
      BY <2>1, <2>2, <1>2, <1>3 DEF Follows, InFile
  <1>9. \A n \in 1..Len(v) : n \in 1..l \/ n = l + 1 \/ n = l + 2
    BY <1>2
  <1>10. Placed(j, v, bt)
    BY <1>3, <1>6, <1>7, <1>8, <1>9 DEF Placed
  <1>11. v # <<>> /\ Whither(j, v, bt) = m + 1 /\ EndsWhole(j, v)
    BY <1>2, <1>3 DEF Whither, EndsWhole
  <1>12. Level(j, m + 1, m + 1)
    BY <1>5 DEF Level, JobType
  <1>. QED
    BY <1>3, <1>10, <1>11, <1>12 DEF UpTo, v

\* The sender passes over what is not wanted.
LEMMA SkipLevel ==
    ASSUME NEW j \in JobType, NEW w, NEW m \in DOMAIN j.list, j.list[m] \in j.have, UpTo(j, w, m)
    PROVE  UpTo(j, w, m + 1)
  <1>1. j.list \in Seq(ObjectIds) /\ \A n \in DOMAIN j.list : n \in Nat
    BY DEF JobType
  <1>2. ASSUME NEW p, Level(j, p, m) PROVE Level(j, p, m + 1)
    <2>. SUFFICES ASSUME NEW k \in DOMAIN j.list, (p <= k /\ k < m + 1) \/ (m + 1 <= k /\ k < p)
                  PROVE  j.list[k] \in j.have
      BY DEF Level
    <2>1. k = m \/ (p <= k /\ k < m) \/ (m <= k /\ k < p)
      BY <1>1
    <2>. QED
      BY <1>2, <2>1 DEF Level
  <1>. QED
    BY <1>2 DEF UpTo

-----------------------------------------------------------------------------
(* Both ends of a connection agree.                                        *)

\* What may be on its way to a process that does j.
Fresh(w, n) == /\ Len(w) <= n
               /\ \A k \in 1..Len(w) : IF n = 2 /\ k = 1 THEN w[k].kind = "status"
                                       ELSE w[k].kind \in {"list", "error"}
Awaits(j, w) ==
    /\ j.pc = "status" => Fresh(w, 2) /\ (j.op = "push" => Len(w) <= 1)
    /\ j.pc = "list" => Fresh(w, 1)
    /\ j.pc \in {"walk", "send", "check"} => w = <<>>
    /\ j.pc = "flags" => Len(w) <= 1 /\ \A k \in 1..Len(w) : w[k].kind = "flags"
    /\ j.pc \in Receiving => Carries(j, w)
    /\ AtWanted(j)

\* A sender that does s and a receiver that does t, with ws and wt on their way
\* to them, are at matching places.
Agree(s, t, ws, wt) ==
    /\ s.pc = "status" => t.pc = "list" /\ wt = <<>>
    /\ s.pc = "walk" => \/ t.pc = "list" /\ wt = <<>>
                        \/ t.pc = "status" /\ wt = <<Message("status", TRUE)>>
    /\ s.pc = "flags" =>
          \/ /\ ws = <<>>
             /\ \/ t.pc = "list" /\ wt = <<Message("list", s.list)>>
                \/ t.pc = "status" /\ wt = <<Message("status", TRUE), Message("list", s.list)>>
                \/ t.pc = "check" /\ t.list = s.list
          \/ /\ ws = <<Message("flags", t.have)>> /\ wt = <<>>
             /\ t.list = s.list /\ UpTo(t, wt, 1)
    /\ s.pc = "send" => t.list = s.list /\ t.have = s.have /\ UpTo(t, wt, s.i)

Sends(j) == j.pc \in SendSteps \/ (j.pc = "status" /\ j.op = "push")
Linked(p, q) == job[p].pc \in Busy /\ job[q].pc \in Busy /\ In(q) = Out(p)
Asks(w) == w # <<>> /\ w[1].kind = "request"
Pending(c) == Asks(wire[<<c, "server">>])

OneServer == \A r \in Repos, s \in Repos : job[r].peer = job[s].peer => r = s
Streams == \A p \in Procs : job[p].pc \in Busy => Awaits(job[p], wire[In(p)])
Pairs == \A p \in Procs, q \in Procs : Linked(p, q) =>
            /\ job[p].op = job[q].op /\ job[p].br = job[q].br
            /\ In(p) \in ends <=> In(q) \in ends
            /\ In(q) \in ends /\ Sends(job[p]) => Agree(job[p], job[q], wire[In(p)], wire[In(q)])
\* A request that no server has accepted: the client waits, or has gone.
Waits(c) == /\ \A r \in Repos : job[r].peer # c
            /\ job[c].pc \in {"status", "idle"} /\ wire[<<c, "client">>] = <<>>
            /\ result[c] # "ok"
            /\ job[c].pc = "status" => /\ wire[<<c, "server">>][1].of.op = job[c].op
                                       /\ wire[<<c, "server">>][1].of.br = job[c].br
                                       /\ <<c, "client">> \in ends <=> <<c, "server">> \in ends
            /\ faults = 0 => job[c].pc = "status" /\ <<c, "server">> \in ends
Requests == \A c \in Clients : Pending(c) => Waits(c)
Idlers == \A c \in Clients : IF job[c].pc = "idle" THEN <<c, "client">> \notin ends
                             ELSE result[c] # "ok"
Unbroken == faults = 0 => \A p \in Procs : job[p].pc \in Busy => In(p) \in ends
\* What a push that reported success has sent is all there is to receive.
Delivered(r) == job[r].pc \in Busy /\ job[r].op = "push" /\ result[job[r].peer] = "ok"
                => UpTo(job[r], wire[In(r)], Len(job[r].list) + 1)
Deliveries == faults = 0 => \A r \in Repos : Delivered(r)

Sessions == /\ Roles /\ OneServer /\ Streams /\ Pairs
            /\ Requests /\ Idlers /\ Unbroken /\ Deliveries

\* The two ends of each connection are in the hands of two processes.
LEMMA TwoEnds ==
    ASSUME IInv, Sessions, NEW p \in Procs, job[p].pc \in Busy
    PROVE  /\ In(p) \in Ends /\ Out(p) \in Ends /\ In(p) # Out(p)
           /\ job[p].peer \in Clients
           /\ p \in Clients => In(p) = <<p, "client">> /\ Out(p) = <<p, "server">>
           /\ p \notin Clients => p \in Repos /\ In(p) = <<job[p].peer, "server">>
                                             /\ Out(p) = <<job[p].peer, "client">>
           /\ \A q \in Procs : job[q].pc \in Busy =>
                 /\ In(p) = In(q) => p = q
                 /\ In(q) = Out(p) <=> In(p) = Out(q)
                 /\ In(q) = Out(p) <=> \/ p \in Clients /\ q \in Repos /\ job[q].peer = p
                                       \/ q \in Clients /\ p \in Repos /\ job[p].peer = q
  <1>1. \A q \in Procs : job[q].pc \in Busy =>
           /\ In(q) \in Ends /\ Out(q) \in Ends /\ job[q].peer \in Clients
           /\ q \in Clients => job[q].peer = q
           /\ q \notin Clients => q \in Repos
    BY TypeParts DEF Fits, Sessions, Roles, PlaysRole, Procs
  <1>2. Clients \cap Repos = {}
    BY ProcsAssumption
  <1>3. \A r \in Repos, s \in Repos : job[r].peer = job[s].peer => r = s
    BY DEF Sessions, OneServer
  <1>. QED
    BY <1>1, <1>2, <1>3 DEF In, Out

\* A process goes on with its work: what has to be shown is about it and the
\* process at the other end.
LEMMA WorkSessions ==
    ASSUME IInv, IInv', Sessions, Roles', NEW p \in Procs, NEW new,
           job[p].pc \in Busy, new.pc \in Busy \ {"status"},
           new.op = job[p].op, new.peer = job[p].peer, new.br = job[p].br,
           job' = [job EXCEPT ![p] = new], UNCHANGED <<ends, result, faults>>,
           \A e \in Ends : e # In(p) /\ e # Out(p) => wire'[e] = wire[e],
           Awaits(new, wire'[In(p)]),
           Asks(wire'[Out(p)]) => Asks(wire[Out(p)]),
           ~Asks(wire'[In(p)]),
           p \in Clients => ~Pending(p),
           \A q \in Procs : Linked(p, q) =>
              /\ Awaits(job[q], wire'[Out(p)])
              /\ In(q) \in ends /\ Sends(new) => Agree(new, job[q], wire'[In(p)], wire'[Out(p)])
              /\ In(p) \in ends /\ Sends(job[q]) => Agree(job[q], new, wire'[Out(p)], wire'[In(p)]),
           faults = 0 /\ p \in Repos /\ new.op = "push" /\ result[new.peer] = "ok"
              => UpTo(new, wire'[In(p)], Len(new.list) + 1)
    PROVE  Sessions'
  <1>1. job \in [Procs -> JobType] /\ Clients \subseteq Procs /\ Repos \subseteq Procs
    BY TypeParts DEF Procs
  <1>2. /\ job'[p] = new /\ \A q \in Procs : q # p => job'[q] = job[q]
        /\ \A q \in Procs : /\ job'[q].peer = job[q].peer /\ job'[q].op = job[q].op
                            /\ job'[q].br = job[q].br
                            /\ job'[q].pc \in Busy <=> job[q].pc \in Busy
                            /\ In(q)' = In(q) /\ Out(q)' = Out(q)
    BY <1>1 DEF In, Out
  <1>3. ends' = ends /\ result' = result /\ faults' = faults
    OBVIOUS
  <1>4. \A q \in Procs : job[q].pc \in Busy =>
           /\ In(q) \in Ends /\ Out(q) \in Ends /\ In(q) # Out(q)
           /\ In(p) = In(q) => p = q
           /\ In(q) = Out(p) <=> In(p) = Out(q)
    BY TwoEnds
  <1>5. OneServer'
    BY <1>1, <1>2 DEF Sessions, OneServer
  <1>6. \A q \in Procs : job[q].pc \in Busy /\ q # p /\ In(q) # Out(p) => wire'[In(q)] = wire[In(q)]
    BY <1>4
  <1>7. Streams'
    <2>. SUFFICES ASSUME NEW q \in Procs, job'[q].pc \in Busy PROVE Awaits(job'[q], wire'[In(q)'])
      BY DEF Streams
    <2>1. CASE q = p
      BY <2>1, <1>2
    <2>2. CASE q # p /\ In(q) = Out(p)
      BY <2>2, <1>2 DEF Linked
    <2>3. CASE q # p /\ In(q) # Out(p)
      BY <2>3, <1>2, <1>6 DEF Sessions, Streams
    <2>. QED
      BY <2>1, <2>2, <2>3
  <1>8. Pairs'
    <2>. SUFFICES ASSUME NEW a \in Procs, NEW b \in Procs, Linked(a, b)'
                  PROVE  /\ job'[a].op = job'[b].op /\ job'[a].br = job'[b].br
                         /\ In(a)' \in ends' <=> In(b)' \in ends'
                         /\ In(b)' \in ends' /\ Sends(job'[a])
                               => Agree(job'[a], job'[b], wire'[In(a)'], wire'[In(b)'])
      BY DEF Pairs
    <2>1. Linked(a, b)
      BY <1>2 DEF Linked
    <2>2. /\ job[a].op = job[b].op /\ job[a].br = job[b].br
          /\ In(a) \in ends <=> In(b) \in ends
          /\ In(b) \in ends /\ Sends(job[a]) => Agree(job[a], job[b], wire[In(a)], wire[In(b)])
      BY <2>1 DEF Sessions, Pairs
    <2>3. a # b
      BY <2>1, <1>4 DEF Linked
    <2>4. CASE a = p
      BY <2>1, <2>2, <2>3, <2>4, <1>2, <1>3 DEF Linked
    <2>5. CASE b = p
      <3>1. Linked(p, a) /\ In(a) = Out(p)
        BY <2>1, <2>5, <1>4 DEF Linked
      <3>. QED
        BY <2>2, <2>3, <2>5, <3>1, <1>2, <1>3
    <2>6. CASE a # p /\ b # p
      <3>3. job[a].pc \in Busy /\ job[b].pc \in Busy /\ In(b) = Out(a) /\ In(a) = Out(b)
        BY <2>1, TwoEnds DEF Linked
      <3>1. In(a) # Out(p) /\ In(b) # Out(p)
        BY <3>3, <2>6, <1>4
      <3>2. wire'[In(a)] = wire[In(a)] /\ wire'[In(b)] = wire[In(b)]
        BY <2>1, <2>6, <3>1, <1>6 DEF Linked
      <3>. QED
        BY <2>2, <2>6, <3>2, <1>2, <1>3
    <2>. QED
      BY <2>4, <2>5, <2>6
  <1>9. Requests'
    <2>. SUFFICES ASSUME NEW c \in Clients, Pending(c)' PROVE Waits(c)'
      BY DEF Requests
    <2>1. <<c, "server">> \in Ends /\ <<c, "client">> \in Ends
      BY DEF Ends
    <2>2. /\ p \in Clients => In(p) = <<p, "client">> /\ Out(p) = <<p, "server">>
          /\ p \notin Clients => p \in Repos /\ In(p) = <<job[p].peer, "server">>
                                            /\ Out(p) = <<job[p].peer, "client">>
      BY TwoEnds
    <2>3. Asks(wire'[<<c, "server">>])
      BY DEF Pending
    <2>4. <<c, "server">> # In(p)
      BY <2>3
    <2>5. Pending(c)
      BY <2>1, <2>3, <2>4 DEF Pending
    <2>6. c # p /\ Waits(c)
      BY <2>5 DEF Sessions, Requests
    <2>7. p \notin Clients => job[p].peer # c
      BY <2>2, <2>6 DEF Waits
    <2>8. <<c, "server">> # Out(p) /\ <<c, "client">> # In(p) /\ <<c, "client">> # Out(p)
      BY <2>2, <2>6, <2>7
    <2>9. wire'[<<c, "server">>] = wire[<<c, "server">>] /\ wire'[<<c, "client">>] = wire[<<c, "client">>]
      BY <2>1, <2>4, <2>8
    <2>. QED
      BY <2>6, <2>9, <1>1, <1>2, <1>3 DEF Waits
  <1>10. Idlers'
    <2>1. new.pc # "idle" /\ job[p].pc # "idle"
      BY DEF Busy, Working, Receiving
    <2>2. ASSUME NEW c \in Clients PROVE job'[c].pc = "idle" <=> job[c].pc = "idle"
      BY <2>1, <1>1, <1>2
    <2>. QED
      BY <2>2, <1>3 DEF Sessions, Idlers
  <1>11. Unbroken'
    BY <1>2, <1>3 DEF Sessions, Unbroken
  <1>12. Deliveries'
    <2>. SUFFICES ASSUME faults' = 0, NEW r \in Repos, job'[r].pc \in Busy, job'[r].op = "push",
                         result'[job'[r].peer] = "ok"
                  PROVE  UpTo(job'[r], wire'[In(r)'], Len(job'[r].list) + 1)
      BY DEF Deliveries, Delivered
    <2>1. CASE r = p
      BY <2>1, <1>2, <1>3
    <2>2. CASE r # p
      <3>1. job[r].pc \in Busy /\ job[r].op = "push" /\ result[job[r].peer] = "ok" /\ job'[r] = job[r]
        BY <2>2, <1>1, <1>2, <1>3
      <3>2. UpTo(job[r], wire[In(r)], Len(job[r].list) + 1)
        BY <3>1, <1>3 DEF Sessions, Deliveries, Delivered
      <3>3. In(r) # Out(p)
        <4>. SUFFICES ASSUME In(r) = Out(p) PROVE FALSE
          OBVIOUS
        <4>1. p \in Clients /\ job[r].peer = p
          BY <3>1, <1>1, TwoEnds, ProcsAssumption
        <4>2. job[p].pc # "idle"
          BY DEF Busy, Working, Receiving
        <4>. QED
          BY <3>1, <4>1, <4>2 DEF Sessions, Idlers
      <3>4. wire'[In(r)] = wire[In(r)]
        BY <3>1, <3>3, <2>2, <1>1, <1>6
      <3>. QED
        BY <3>1, <3>2, <3>4, <1>1, <1>2
    <2>. QED
      BY <2>1, <2>2
  <1>. QED
    BY <1>5, <1>7, <1>8, <1>9, <1>10, <1>11, <1>12 DEF Sessions

\* A process ends its connection, in order or not; a server that dies takes the
\* requests that wait for it along.
LEMMA LeaveSessions ==
    ASSUME IInv, IInv', Sessions, Roles', NEW p \in Procs, NEW gone,
           job[p].pc \in Busy, job'[p].pc \notin Busy,
           p \in Clients => job'[p].pc = "idle",
           \A q \in Procs : q # p => job'[q] = job[q],
           ends' = ends \ gone, In(p) \in gone,
           \A e \in gone : e = In(p) \/ \E d \in Clients : Pending(d) /\ e = <<d, "server">>,
           \A e \in Ends : e # In(p) /\ e # Out(p)
                               => wire'[e] = IF e \in gone THEN <<>> ELSE wire[e],
           wire'[In(p)] = <<>>,
           Asks(wire'[Out(p)]) => Asks(wire[Out(p)]) /\ wire'[Out(p)][1] = wire[Out(p)][1],
           \A q \in Procs : Linked(p, q) => Awaits(job[q], wire'[Out(p)]),
           \A c \in Clients : c # p => result'[c] = result[c],
           p \in Clients /\ Pending(p) => result'[p] # "ok" /\ faults' # 0,
           faults' = 0 => faults = 0,
           \A r \in Repos : Linked(p, r) /\ job[r].op = "push" /\ result'[p] = "ok" /\ faults' = 0
              => UpTo(job[r], wire'[Out(p)], Len(job[r].list) + 1)
    PROVE  Sessions'
  <1>1. job \in [Procs -> JobType] /\ Clients \subseteq Procs /\ Repos \subseteq Procs
        /\ Clients \cap Repos = {} /\ job' \in [Procs -> JobType]
    BY TypeParts, ProcsAssumption DEF Procs, IInv, TypeOK
  <1>2. /\ \A q \in Procs : q # p => In(q)' = In(q) /\ Out(q)' = Out(q)
        /\ job'[p].peer = p
    BY <1>1 DEF In, Out, Roles, PlaysRole
  <1>3. \A q \in Procs : job[q].pc \in Busy =>
           /\ In(q) \in Ends /\ Out(q) \in Ends /\ In(q) # Out(q)
           /\ In(p) = In(q) => p = q
           /\ In(q) = Out(p) <=> In(p) = Out(q)
    BY TwoEnds
  <1>4. \A q \in Procs : job'[q].pc \in Busy => q # p /\ job[q].pc \in Busy
    OBVIOUS
  <1>5. \A q \in Procs : job[q].pc \in Busy /\ q # p => In(q) \notin gone
    <2>. SUFFICES ASSUME NEW q \in Procs, job[q].pc \in Busy, q # p, In(q) \in gone PROVE FALSE
      OBVIOUS
    <2>1. PICK d \in Clients : Pending(d) /\ In(q) = <<d, "server">>
      BY <1>3
    <2>2. q \in Repos /\ job[q].peer = d
      BY <2>1, TwoEnds
    <2>3. Waits(d)
      BY <2>1 DEF Sessions, Requests
    <2>. QED
      BY <2>2, <2>3 DEF Waits
  <1>6. \A q \in Procs : job[q].pc \in Busy /\ q # p /\ In(q) # Out(p) => wire'[In(q)] = wire[In(q)]
    BY <1>3, <1>5
  <1>7. OneServer'
    <2>. SUFFICES ASSUME NEW r \in Repos, NEW s \in Repos, job'[r].peer = job'[s].peer PROVE r = s
      BY DEF OneServer
    <2>1. \A q \in Repos : job[q].peer \in Repos => job[q].peer = q
      <3>1. \A q \in Procs : job[q].pc \in Busy => job[q].peer \in Clients
        BY TwoEnds
      <3>. QED
        BY <3>1, <1>1 DEF Sessions, Roles, PlaysRole
    <2>2. r # p => job'[r] = job[r]
      BY <1>1
    <2>3. s # p => job'[s] = job[s]
      BY <1>1
    <2>. QED
      BY <2>1, <2>2, <2>3, <1>2 DEF Sessions, OneServer
  <1>8. Streams'
    <2>. SUFFICES ASSUME NEW q \in Procs, job'[q].pc \in Busy PROVE Awaits(job'[q], wire'[In(q)'])
      BY DEF Streams
    <2>1. q # p /\ job[q].pc \in Busy /\ job'[q] = job[q] /\ In(q)' = In(q)
      BY <1>2, <1>4
    <2>2. CASE In(q) = Out(p)
      BY <2>1, <2>2 DEF Linked
    <2>3. CASE In(q) # Out(p)
      BY <2>1, <2>3, <1>6 DEF Sessions, Streams
    <2>. QED
      BY <2>2, <2>3
  <1>9. Pairs'
    <2>. SUFFICES ASSUME NEW a \in Procs, NEW b \in Procs, Linked(a, b)'
                  PROVE  /\ job'[a].op = job'[b].op /\ job'[a].br = job'[b].br
                         /\ In(a)' \in ends' <=> In(b)' \in ends'
                         /\ In(b)' \in ends' /\ Sends(job'[a])
                               => Agree(job'[a], job'[b], wire'[In(a)'], wire'[In(b)'])
      BY DEF Pairs
    <2>1. /\ a # p /\ job[a].pc \in Busy /\ job'[a] = job[a] /\ In(a)' = In(a) /\ Out(a)' = Out(a)
          /\ b # p /\ job[b].pc \in Busy /\ job'[b] = job[b] /\ In(b)' = In(b)
      BY <1>2, <1>4 DEF Linked
    <2>2. Linked(a, b) /\ In(b) = Out(a)
      BY <2>1 DEF Linked
    <2>3. /\ job[a].op = job[b].op /\ job[a].br = job[b].br
          /\ In(a) \in ends <=> In(b) \in ends
          /\ In(b) \in ends /\ Sends(job[a]) => Agree(job[a], job[b], wire[In(a)], wire[In(b)])
      BY <2>2 DEF Sessions, Pairs
    <2>4. In(a) = Out(b)
      BY <2>1, <2>2, TwoEnds
    <2>5. In(a) # Out(p) /\ In(b) # Out(p)
      BY <2>1, <2>2, <2>4, <1>3
    <2>6. wire'[In(a)] = wire[In(a)] /\ wire'[In(b)] = wire[In(b)]
      BY <2>1, <2>5, <1>6
    <2>7. In(a) \notin gone /\ In(b) \notin gone
      BY <2>1, <1>5
    <2>. QED
      BY <2>1, <2>3, <2>6, <2>7
  <1>10. Requests'
    <2>. SUFFICES ASSUME NEW c \in Clients, Pending(c)' PROVE Waits(c)'
      BY DEF Requests
    <2>1. <<c, "server">> \in Ends /\ <<c, "client">> \in Ends /\ <<c, "server">> # <<c, "client">>
      BY DEF Ends
    <2>2. /\ p \in Clients => In(p) = <<p, "client">> /\ Out(p) = <<p, "server">>
          /\ p \notin Clients => p \in Repos /\ In(p) = <<job[p].peer, "server">>
                                            /\ Out(p) = <<job[p].peer, "client">>
      BY TwoEnds
    <2>3. Asks(wire'[<<c, "server">>])
      BY DEF Pending
    <2>4. <<c, "server">> # In(p)
      BY <2>3 DEF Asks
    <2>5. <<c, "server">> # Out(p) => wire'[<<c, "server">>] = wire[<<c, "server">>] /\ <<c, "server">> \notin gone
      <3>1. wire'[<<c, "server">>] # <<>>
        BY <2>3 DEF Asks
      <3>. QED
        BY <3>1, <2>1, <2>4
    <2>6. Pending(c) /\ wire'[<<c, "server">>][1] = wire[<<c, "server">>][1]
      BY <2>3, <2>5 DEF Pending
    <2>7. Waits(c)
      BY <2>6 DEF Sessions, Requests
    <2>8. p \notin Clients => job[p].peer # c
      BY <2>2, <2>7 DEF Waits
    <2>9. <<c, "client">> # Out(p)
      BY <2>2, <2>8
    <2>10. wire'[<<c, "client">>] = <<>>
      BY <2>1, <2>7, <2>9 DEF Waits
    <2>11. \A r \in Repos : job'[r].peer # c
      BY <1>1, <1>2, <2>7 DEF Waits
    <2>12. CASE c = p
      <3>1. job'[c].pc = "idle" /\ result'[c] # "ok" /\ faults' # 0
        BY <2>6, <2>12
      <3>. QED
        BY <3>1, <2>10, <2>11 DEF Waits
    <2>13. CASE c # p
      <3>1. job'[c] = job[c] /\ result'[c] = result[c]
        BY <2>13, <1>1
      <3>2. <<c, "server">> \notin gone
        BY <2>2, <2>5, <2>13
      <3>3. <<c, "client">> \notin gone
        <4>1. <<c, "client">> # In(p)
          BY <2>2, <2>13
        <4>. QED
          BY <4>1
      <3>. QED
        BY <3>1, <3>2, <3>3, <2>6, <2>7, <2>10, <2>11 DEF Waits
    <2>. QED
      BY <2>12, <2>13
  <1>11. Idlers'
    <2>. SUFFICES ASSUME NEW c \in Clients
                  PROVE  IF job'[c].pc = "idle" THEN <<c, "client">> \notin ends' ELSE result'[c] # "ok"
      BY DEF Idlers
    <2>1. CASE c = p
      <3>1. In(p) = <<p, "client">>
        BY <2>1, TwoEnds
      <3>. QED
        BY <2>1, <3>1
    <2>2. CASE c # p
      <3>1. job'[c] = job[c] /\ result'[c] = result[c]
        BY <2>2, <1>1
      <3>. QED
        BY <3>1 DEF Sessions, Idlers
    <2>. QED
      BY <2>1, <2>2
  <1>12. Unbroken'
    <2>. SUFFICES ASSUME faults' = 0, NEW q \in Procs, job'[q].pc \in Busy PROVE In(q)' \in ends'
      BY DEF Unbroken
    <2>. QED
      BY <1>2, <1>4, <1>5 DEF Sessions, Unbroken
  <1>13. Deliveries'
    <2>. SUFFICES ASSUME faults' = 0, NEW r \in Repos, job'[r].pc \in Busy, job'[r].op = "push",
                         result'[job'[r].peer] = "ok"
                  PROVE  UpTo(job'[r], wire'[In(r)'], Len(job'[r].list) + 1)
      BY DEF Deliveries, Delivered
    <2>1. r # p /\ job[r].pc \in Busy /\ job'[r] = job[r] /\ In(r)' = In(r) /\ r \in Procs
      BY <1>1, <1>2, <1>4
    <2>2. CASE In(r) = Out(p)
      <3>1. p \in Clients /\ job[r].peer = p
        BY <2>1, <2>2, <1>1, TwoEnds
      <3>. QED
        BY <2>1, <2>2, <3>1 DEF Linked
    <2>3. CASE In(r) # Out(p)
      <3>1. job[r].peer # p
        <4>1. p \in Clients => Out(p) = <<p, "server">>
          BY TwoEnds
        <4>2. In(r) = <<job[r].peer, "server">> /\ job[r].peer \in Clients
          BY <2>1, <1>1, TwoEnds
        <4>. QED
          BY <2>3, <4>1, <4>2
      <3>2. job[r].peer \in Clients
        BY <2>1, TwoEnds
      <3>3. result[job[r].peer] = "ok"
        BY <2>1, <3>1, <3>2
      <3>4. UpTo(job[r], wire[In(r)], Len(job[r].list) + 1)
        BY <2>1, <3>3 DEF Sessions, Deliveries, Delivered
      <3>. QED
        BY <2>1, <2>3, <3>4, <1>6
    <2>. QED
      BY <2>2, <2>3
  <1>. QED
    BY <1>7, <1>8, <1>9, <1>10, <1>11, <1>12, <1>13 DEF Sessions

-----------------------------------------------------------------------------
(* What the streams and the other end say of one step.                     *)

LEMMA PcKinds ==
    /\ Busy = SendSteps \cup RecvSteps \cup {"status"}
    /\ RecvSteps = Receiving \cup {"list", "check"}
    /\ Receiving \subseteq Busy /\ Working \subseteq Busy /\ RecvSteps \cap SendSteps = {}
    /\ "status" \notin RecvSteps /\ "status" \notin SendSteps
    /\ "idle" \notin Busy /\ "accept" \notin Busy /\ "down" \notin Busy
  BY DEF Busy, Working, Receiving, SendSteps, RecvSteps

\* Nothing that waits for an accepted process is a request.
LEMMA NoRequest ==
    ASSUME NEW j, j.pc \in Busy, NEW w \in Seq(Messages), Awaits(j, w)
    PROVE  ~Asks(w)
  <1>. SUFFICES ASSUME w # <<>>, w[1].kind = "request" PROVE FALSE
    BY DEF Asks
  <1>1. Len(w) \in Nat /\ 1 \in 1..Len(w)
    BY TailFacts
  <1>2. j.pc \notin {"walk", "send", "check"}
    BY DEF Awaits
  <1>3. j.pc # "status" /\ j.pc # "list" /\ j.pc # "flags"
    BY <1>1 DEF Awaits, Fresh
  <1>4. j.pc \in Receiving
    BY <1>2, <1>3 DEF Busy, Working
  <1>5. PICK at : Placed(j, w, at)
    BY <1>4 DEF Awaits, Carries
  <1>6. Follows(j, w, at, 1)
    BY <1>1, <1>5 DEF Placed
  <1>. QED
    BY <1>6 DEF Follows

\* Of two processes that talk to each other one sends.
LEMMA OneSends ==
    ASSUME IInv, Sessions, NEW p \in Procs, NEW q \in Procs, Linked(p, q)
    PROVE  /\ Linked(q, p) /\ p # q /\ (p \in Clients <=> q \in Repos) /\ (q \in Clients <=> p \in Repos)
           /\ Sends(job[p]) <=> ~Sends(job[q])
           /\ job[p].op = job[q].op /\ job[p].br = job[q].br
           /\ In(p) \in ends <=> In(q) \in ends
           /\ In(q) = Out(p) /\ In(p) = Out(q)
           /\ p \in Repos => job[p].peer = q
           /\ q \in Repos => job[q].peer = p
  <1>1. In(q) = Out(p) /\ job[p].pc \in Busy /\ job[q].pc \in Busy
    BY DEF Linked
  <1>2. In(p) = Out(q) /\ \/ p \in Clients /\ q \in Repos /\ job[q].peer = p
                          \/ q \in Clients /\ p \in Repos /\ job[p].peer = q
    BY <1>1, TwoEnds
  <1>3. job[p].op = job[q].op /\ job[p].br = job[q].br /\ (In(p) \in ends <=> In(q) \in ends)
    BY DEF Sessions, Pairs
  <1>4. PlaysRole(p, job[p]) /\ PlaysRole(q, job[q])
    BY DEF Sessions, Roles
  <1>5. /\ job[p].op \in {"push", "pull"} /\ Clients \cap Repos = {}
    BY <1>1, RoleFacts, ProcsAssumption DEF Sessions
  <1>6. Sends(job[p]) <=> (job[p].op = "push" <=> p \in Clients)
    BY <1>1, <1>4, <1>5, PcKinds DEF PlaysRole, Sends
  <1>7. Sends(job[q]) <=> (job[q].op = "push" <=> q \in Clients)
    BY <1>1, <1>3, <1>4, <1>5, PcKinds DEF PlaysRole, Sends
  <1>. QED
    BY <1>1, <1>2, <1>3, <1>5, <1>6, <1>7 DEF Linked

\* What the other end is at, while the connection is open.
LEMMA OtherEnd ==
    ASSUME IInv, Sessions, NEW p \in Procs, NEW q \in Procs, Linked(p, q)
    PROVE  /\ Awaits(job[q], wire[Out(p)])
           /\ Out(p) \in ends /\ Sends(job[p]) => Agree(job[p], job[q], wire[In(p)], wire[Out(p)])
           /\ Out(p) \in ends /\ Sends(job[q]) => Agree(job[q], job[p], wire[Out(p)], wire[In(p)])
           /\ Out(p) \in ends <=> In(p) \in ends
  <1>1. /\ Linked(q, p) /\ In(q) = Out(p) /\ In(p) = Out(q)
        /\ In(p) \in ends <=> In(q) \in ends
    BY OneSends
  <1>. QED
    BY <1>1 DEF Sessions, Streams, Pairs, Linked

\* A client whose request has not been accepted has not been answered.
LEMMA NotPending ==
    ASSUME Sessions, NEW c \in Clients,
           job[c].pc \notin {"status", "idle"} \/ wire[<<c, "client">>] # <<>>
    PROVE  ~Pending(c)
  BY DEF Sessions, Requests, Waits

\* What stands where one process writes.
LEMMA WireFacts ==
    ASSUME IInv, Sessions, NEW p \in Procs, job[p].pc \in Busy
    PROVE  /\ wire \in [Ends -> Seq(Messages)]
           /\ wire[In(p)] \in Seq(Messages) /\ wire[Out(p)] \in Seq(Messages)
           /\ Awaits(job[p], wire[In(p)]) /\ ~Asks(wire[In(p)])
           /\ In(p) \in Ends /\ Out(p) \in Ends /\ In(p) # Out(p)
           /\ job[p] \in JobType /\ job \in [Procs -> JobType]
  <1>1. /\ wire \in [Ends -> Seq(Messages)] /\ job \in [Procs -> JobType]
        /\ In(p) \in Ends /\ Out(p) \in Ends /\ In(p) # Out(p)
    BY TypeParts, TwoEnds DEF WireType
  <1>2. Awaits(job[p], wire[In(p)])
    BY DEF Sessions, Streams
  <1>3. wire[In(p)] \in Seq(Messages)
    BY <1>1
  <1>4. ~Asks(wire[In(p)])
    BY <1>2, <1>3, NoRequest
  <1>. QED
    BY <1>1, <1>2, <1>3, <1>4

\* Sending does not put a request in a stream, reading and cutting neither.
LEMMA AfterAsks ==
    ASSUME NEW w \in Seq(Messages), NEW m \in Seq(Messages), m # <<>>, m[1].kind # "request",
           Asks(w \o m)
    PROVE  Asks(w) /\ (w \o m)[1] = w[1]
  <1>1. CASE w = <<>>
    <2>1. (w \o m)[1] = m[1]
      BY <1>1
    <2>. QED
      BY <2>1 DEF Asks
  <1>2. CASE w # <<>>
    <2>1. (w \o m)[1] = w[1]
      BY <1>2
    <2>. QED
      BY <2>1, <1>2 DEF Asks
  <1>. QED
    BY <1>1, <1>2

LEMMA CutAsks ==
    ASSUME NEW w \in Seq(Messages), NEW n \in 0..Len(w), Asks(SubSeq(w, 1, n))
    PROVE  Asks(w) /\ SubSeq(w, 1, n)[1] = w[1]
  <1>1. Len(SubSeq(w, 1, n)) = n /\ SubSeq(w, 1, n) \in Seq(Messages) /\ \A k \in 1..n : SubSeq(w, 1, n)[k] = w[k]
    BY CutFacts
  <1>2. SubSeq(w, 1, n) # <<>> => n # 0
    BY <1>1, EmptyFacts
  <1>3. n # 0 /\ 1 \in 1..n
    BY <1>2 DEF Asks
  <1>4. w # <<>>
    BY <1>3
  <1>. QED
    BY <1>1, <1>3, <1>4 DEF Asks

\* A stream that ends early is still one that its reader can be waiting for.
LEMMA CutAwaits ==
    ASSUME NEW j \in JobType, NEW w \in Seq(Messages), NEW n \in 0..Len(w), Awaits(j, w)
    PROVE  Awaits(j, SubSeq(w, 1, n))
  <1>. DEFINE v == SubSeq(w, 1, n)
  <1>1. Len(v) = n /\ v \in Seq(Messages) /\ \A k \in 1..n : v[k] = w[k]
    BY CutFacts
  <1>2. Len(w) \in Nat /\ n \in Nat /\ n <= Len(w) /\ \A k \in 1..n : k \in 1..Len(w)
    OBVIOUS
  <1>3. w = <<>> => v = <<>>
    BY <1>1, <1>2, EmptyFacts
  <1>4. \A m \in Nat : Fresh(w, m) => Fresh(v, m)
    BY <1>1, <1>2 DEF Fresh
  <1>5. Carries(j, w) => Carries(j, v)
    BY CutPlaced
  <1>. HIDE DEF v
  <1>6. j.pc = "flags" => Len(v) <= 1 /\ \A k \in 1..Len(v) : v[k].kind = "flags"
    BY <1>1, <1>2 DEF Awaits
  <1>7. j.pc = "status" => Fresh(v, 2) /\ (j.op = "push" => Len(v) <= 1)
    BY <1>1, <1>2, <1>4 DEF Awaits
  <1>8. j.pc = "list" => Fresh(v, 1)
    BY <1>4 DEF Awaits
  <1>9. j.pc \in {"walk", "send", "check"} => v = <<>>
    BY <1>3 DEF Awaits
  <1>. QED
    BY <1>5, <1>6, <1>7, <1>8, <1>9 DEF Awaits, v

\* Nothing on its way.
LEMMA EmptyPlaced ==
    ASSUME NEW j \in JobType
    PROVE  /\ Carries(j, <<>>)
           /\ j.pc \in Receiving /\ j.pc # "data" => UpTo(j, <<>>, Ahead(j))
  <1>. DEFINE at == [k \in 1..Len(<<>>) |-> 1]
  <1>1. at \in [1..Len(<<>>) -> DOMAIN j.list] /\ \A k \in 1..Len(<<>>) : FALSE
    OBVIOUS
  <1>2. Placed(j, <<>>, at)
    BY <1>1 DEF Placed
  <1>3. Whither(j, <<>>, at) = Ahead(j)
    BY DEF Whither
  <1>4. Ahead(j) \in Nat /\ \A k \in DOMAIN j.list : k \in Nat
    BY DEF JobType, Ahead
  <1>5. Level(j, Ahead(j), Ahead(j))
    BY <1>4 DEF Level
  <1>6. at \in [1..Len(<<>>) -> DOMAIN j.list]
    BY <1>1
  <1>. HIDE DEF at
  <1>7. Carries(j, <<>>)
    BY <1>2, <1>6 DEF Carries
  <1>8. ASSUME j.pc \in Receiving, j.pc # "data" PROVE UpTo(j, <<>>, Ahead(j))
    BY <1>8, <1>2, <1>3, <1>5, <1>6 DEF UpTo, EndsWhole
  <1>. QED
    BY <1>7, <1>8

\* Where the receiver has come to changes, what is on its way does not.
LEMMA StillUpTo ==
    ASSUME NEW j \in JobType, NEW k \in JobType, NEW w \in Seq(Messages),
           j.pc \in Receiving, k.pc \in Receiving, k.list = j.list, k.have = j.have,
           j.pc = "data" <=> k.pc = "data",
           \/ Ahead(k) = Ahead(j)
           \/ /\ Ahead(k) = Ahead(j) + 1 /\ Ahead(j) \in DOMAIN j.list
              /\ j.list[Ahead(j)] \in j.have
    PROVE  /\ Carries(j, w) => Carries(k, w)
           /\ \A n \in Nat : UpTo(j, w, n) => UpTo(k, w, n)
  <1>1. ASSUME NEW at, Placed(j, w, at)
        PROVE  /\ Placed(k, w, at)
               /\ EndsWhole(j, w) => EndsWhole(k, w)
               /\ \A n \in Nat : Level(j, Whither(j, w, at), n) => Level(k, Whither(k, w, at), n)
    BY <1>1, StillPlaced
  <1>. QED
    BY <1>1 DEF Carries, UpTo

\* Reading the length, or the bytes, of a file.
LEMMA TailUpTo ==
    ASSUME NEW j \in JobType, NEW k \in JobType, NEW w \in Seq(Messages), w # <<>>,
           k.list = j.list, k.have = j.have, k.i = j.i,
           j.i \in DOMAIN j.list, j.list[j.i] \notin j.have,
           \/ j.pc = "recv" /\ k.pc = "data" /\ w[1].kind = "size"
           \/ j.pc = "data" /\ k.pc = "rename" /\ w[1].kind = "data"
    PROVE  /\ Carries(j, w) => Carries(k, Tail(w))
           /\ \A n \in Nat : UpTo(j, w, n) => UpTo(k, Tail(w), n)
  <1>. DEFINE bt(at) == [n \in 1..Len(Tail(w)) |-> at[n + 1]]
  <1>1. ASSUME NEW at, Placed(j, w, at)
        PROVE  /\ Placed(k, Tail(w), bt(at)) /\ bt(at) \in [1..Len(Tail(w)) -> DOMAIN j.list]
               /\ EndsWhole(j, w) => EndsWhole(k, Tail(w)) /\ Whither(k, Tail(w), bt(at)) = Whither(j, w, at)
    BY <1>1, TailPlaced
  <1>. HIDE DEF bt
  <1>2. ASSUME Carries(j, w) PROVE Carries(k, Tail(w))
    BY <1>1, <1>2 DEF Carries
  <1>3. ASSUME NEW n \in Nat, UpTo(j, w, n) PROVE UpTo(k, Tail(w), n)
    <2>1. PICK at : Placed(j, w, at) /\ Level(j, Whither(j, w, at), n) /\ EndsWhole(j, w)
      BY <1>3 DEF UpTo
    <2>2. Level(k, Whither(k, Tail(w), bt(at)), n)
      BY <1>1, <2>1 DEF Level
    <2>3. k.pc \in Receiving
      BY DEF Receiving
    <2>. QED
      BY <1>1, <2>1, <2>2, <2>3 DEF UpTo
  <1>. QED
    BY <1>2, <1>3

-----------------------------------------------------------------------------
(* Steps of a process that goes on.                                        *)

LEMMA SenderGoesOn ==
    ASSUME IInv, IInv', Sessions, Roles', NEW p \in Procs, NEW new \in JobType,
           job[p].pc \in Busy, new.pc \in SendSteps,
           new.op = job[p].op, new.peer = job[p].peer, new.br = job[p].br,
           job' = [job EXCEPT ![p] = new], UNCHANGED <<ends, result, faults>>,
           NEW in \in Seq(Messages), NEW out,
           wire' = [wire EXCEPT ![In(p)] = in, ![Out(p)] = out],
           p \in Clients => ~Pending(p),
           Awaits(new, in), Asks(out) => Asks(wire[Out(p)]),
           \A q \in Procs : Linked(p, q) =>
              Awaits(job[q], out) /\ (Out(p) \in ends => Agree(new, job[q], in, out))
    PROVE  Sessions'
  <1>1. /\ wire \in [Ends -> Seq(Messages)] /\ In(p) \in Ends /\ Out(p) \in Ends /\ In(p) # Out(p)
        /\ job \in [Procs -> JobType]
    BY WireFacts
  <1>2. /\ wire'[In(p)] = in /\ wire'[Out(p)] = out
        /\ \A e \in Ends : e # In(p) /\ e # Out(p) => wire'[e] = wire[e]
    BY <1>1
  <1>3. new.pc \in Busy \ {"status"}
    BY PcKinds
  <1>4. ~Asks(in)
    BY <1>3, NoRequest
  <1>5. PlaysRole(p, new)
    BY <1>1 DEF Roles
  <1>6. ASSUME NEW q \in Procs, Linked(p, q)
        PROVE  /\ Awaits(job[q], wire'[Out(p)])
               /\ In(q) \in ends /\ Sends(new) => Agree(new, job[q], wire'[In(p)], wire'[Out(p)])
               /\ In(p) \in ends /\ Sends(job[q]) => Agree(job[q], new, wire'[Out(p)], wire'[In(p)])
    <2>1. In(q) = Out(p) /\ (Sends(job[p]) <=> ~Sends(job[q]))
      BY <1>6, OneSends
    <2>2. Sends(job[p])
      <3>1. PlaysRole(p, job[p]) /\ job[p].op \in {"push", "pull"}
        BY RoleFacts DEF Sessions, Roles
      <3>. QED
        BY <3>1, <1>5, PcKinds DEF PlaysRole, Sends
    <2>. QED
      BY <2>1, <2>2, <1>2, <1>6
  <1>7. ~(p \in Repos /\ new.op = "push")
    BY <1>5, ProcsAssumption DEF PlaysRole
  <1>. QED
    BY <1>2, <1>3, <1>4, <1>6, <1>7, WorkSessions

LEMMA ReceiverGoesOn ==
    ASSUME IInv, IInv', Sessions, Roles', NEW p \in Procs, NEW new \in JobType,
           job[p].pc \in Busy, new.pc \in RecvSteps,
           new.op = job[p].op, new.peer = job[p].peer, new.br = job[p].br,
           job' = [job EXCEPT ![p] = new], UNCHANGED <<ends, result, faults>>,
           NEW in \in Seq(Messages), NEW out,
           wire' = [wire EXCEPT ![In(p)] = in, ![Out(p)] = out],
           p \in Clients => ~Pending(p),
           Awaits(new, in), Asks(out) => Asks(wire[Out(p)]),
           \A q \in Procs : Linked(p, q) =>
              Awaits(job[q], out) /\ (Out(p) \in ends => Agree(job[q], new, out, in)),
           UpTo(job[p], wire[In(p)], Len(job[p].list) + 1) => UpTo(new, in, Len(new.list) + 1)
    PROVE  Sessions'
  <1>1. /\ wire \in [Ends -> Seq(Messages)] /\ In(p) \in Ends /\ Out(p) \in Ends /\ In(p) # Out(p)
        /\ job \in [Procs -> JobType]
    BY WireFacts
  <1>2. /\ wire'[In(p)] = in /\ wire'[Out(p)] = out
        /\ \A e \in Ends : e # In(p) /\ e # Out(p) => wire'[e] = wire[e]
    BY <1>1
  <1>3. new.pc \in Busy \ {"status"}
    BY PcKinds
  <1>4. ~Asks(in)
    BY <1>3, NoRequest
  <1>6. ASSUME NEW q \in Procs, Linked(p, q)
        PROVE  /\ Awaits(job[q], wire'[Out(p)])
               /\ In(q) \in ends /\ Sends(new) => Agree(new, job[q], wire'[In(p)], wire'[Out(p)])
               /\ In(p) \in ends /\ Sends(job[q]) => Agree(job[q], new, wire'[Out(p)], wire'[In(p)])
    <2>1. In(q) = Out(p) /\ (In(p) \in ends <=> In(q) \in ends)
      BY <1>6, OneSends
    <2>2. ~Sends(new)
      BY PcKinds DEF Sends
    <2>. QED
      BY <2>1, <2>2, <1>2, <1>6
  <1>7. ASSUME faults = 0, p \in Repos, new.op = "push", result[new.peer] = "ok"
        PROVE  UpTo(new, in, Len(new.list) + 1)
    BY <1>7 DEF Sessions, Deliveries, Delivered
  <1>. QED
    BY <1>2, <1>3, <1>4, <1>6, <1>7, WorkSessions

\* The effects on the streams, written alike.
LEMMA TakeWire ==
    ASSUME IInv, Sessions, NEW p \in Procs, job[p].pc \in Busy, Take(p), wire[In(p)] # <<>>
    PROVE  /\ wire' = [wire EXCEPT ![In(p)] = Tail(wire[In(p)]), ![Out(p)] = wire[Out(p)]]
           /\ Tail(wire[In(p)]) \in Seq(Messages) /\ Len(Tail(wire[In(p)])) = Len(wire[In(p)]) - 1
           /\ Len(wire[In(p)]) \in Nat \ {0} /\ Received(p) = wire[In(p)][1].of
           /\ \A k \in 1..(Len(wire[In(p)]) - 1) : Tail(wire[In(p)])[k] = wire[In(p)][k + 1]
           /\ Tail(wire[In(p)]) = <<>> <=> Len(wire[In(p)]) = 1
  <1>1. /\ wire \in [Ends -> Seq(Messages)] /\ In(p) \in Ends /\ Out(p) \in Ends /\ In(p) # Out(p)
        /\ wire[In(p)] \in Seq(Messages)
    BY WireFacts
  <1>. DEFINE w == wire[In(p)]
  <1>2. /\ Tail(w) \in Seq(Messages) /\ Len(Tail(w)) = Len(w) - 1 /\ Len(w) \in Nat \ {0}
        /\ Head(w) = w[1]
        /\ \A k \in 1..(Len(w) - 1) : Tail(w)[k] = w[k + 1]
    BY <1>1, TailFacts
  <1>3. Tail(w) = <<>> <=> Len(Tail(w)) = 0
    BY <1>2, EmptyFacts
  <1>4. wire' = [wire EXCEPT ![In(p)] = Tail(w), ![Out(p)] = wire[Out(p)]]
    BY <1>1 DEF Take
  <1>. QED
    BY <1>2, <1>3, <1>4 DEF Received

LEMMA SendWire ==
    ASSUME IInv, Sessions, NEW p \in Procs, job[p].pc \in Busy,
           NEW m \in Seq(Messages), m # <<>>, m[1].kind # "request",
           wire' = [wire EXCEPT ![Out(p)] = After(p, m)]
    PROVE  /\ wire' = [wire EXCEPT ![In(p)] = wire[In(p)], ![Out(p)] = After(p, m)]
           /\ Asks(After(p, m)) => Asks(wire[Out(p)])
           /\ Out(p) \in ends => After(p, m) = wire[Out(p)] \o m
           /\ Out(p) \notin ends => After(p, m) = wire[Out(p)]
           /\ <<>> \o m = m
  <1>1. /\ wire \in [Ends -> Seq(Messages)] /\ In(p) \in Ends /\ Out(p) \in Ends /\ In(p) # Out(p)
        /\ wire[Out(p)] \in Seq(Messages)
    BY WireFacts
  <1>2. wire' = [wire EXCEPT ![In(p)] = wire[In(p)], ![Out(p)] = After(p, m)]
    BY <1>1
  <1>3. Asks(After(p, m)) => Asks(wire[Out(p)])
    BY <1>1, AfterAsks DEF After
  <1>4. <<>> \o m = m
    OBVIOUS
  <1>. QED
    BY <1>2, <1>3, <1>4 DEF After

LEMMA SameWire ==
    ASSUME IInv, Sessions, NEW p \in Procs, job[p].pc \in Busy, wire' = wire
    PROVE  wire' = [wire EXCEPT ![In(p)] = wire[In(p)], ![Out(p)] = wire[Out(p)]]
  <1>1. wire \in [Ends -> Seq(Messages)] /\ In(p) \in Ends /\ Out(p) \in Ends
    BY WireFacts
  <1>. QED
    BY <1>1

LEMMA StatusSessions ==
    ASSUME IInv, IInv', Sessions, Roles', NEW c \in Clients, Status(c), Received(c)
    PROVE  Sessions'
  <1>. DEFINE j == job[c]
              w == wire[In(c)]
              k == [j EXCEPT !.pc = IF j.op = "push" THEN "walk" ELSE "list"]
  <1>1. /\ c \in Procs /\ j.pc = "status" /\ w # <<>> /\ job' = [job EXCEPT ![c] = k]
        /\ Take(c) /\ UNCHANGED <<ends, result, faults>>
    BY DEF Status, At, Procs, Arrived, Goto, Become, counts
  <1>2. j.pc \in Busy /\ j \in JobType /\ Awaits(j, w) /\ In(c) = <<c, "client">>
    BY <1>1, WireFacts, TwoEnds, PcKinds
  <1>3. /\ wire' = [wire EXCEPT ![In(c)] = Tail(w), ![Out(c)] = wire[Out(c)]]
        /\ Tail(w) \in Seq(Messages) /\ Len(Tail(w)) = Len(w) - 1 /\ Len(w) \in Nat \ {0}
        /\ \A n \in 1..(Len(w) - 1) : Tail(w)[n] = w[n + 1]
        /\ Tail(w) = <<>> <=> Len(w) = 1
    BY <1>1, <1>2, TakeWire
  <1>4. ~Pending(c)
    BY <1>1, <1>2, NotPending
  <1>5. /\ k \in JobType /\ k.op = j.op /\ k.peer = j.peer /\ k.br = j.br
        /\ k.pc = IF j.op = "push" THEN "walk" ELSE "list"
    BY <1>2, StepNames DEF JobType
  <1>6. Fresh(w, 2) /\ (j.op = "push" => Len(w) <= 1)
    BY <1>1, <1>2 DEF Awaits
  <1>. HIDE DEF k
  <1>7. CASE j.op = "push"
    <2>1. Tail(w) = <<>>
      BY <1>3, <1>6, <1>7
    <2>2. k.pc = "walk" /\ Awaits(k, Tail(w))
      BY <1>5, <1>7, <2>1 DEF Awaits, AtWanted, Receiving
    <2>3. ASSUME NEW q \in Procs, Linked(c, q)
          PROVE  /\ Awaits(job[q], wire[Out(c)])
                 /\ Out(c) \in ends => Agree(k, job[q], Tail(w), wire[Out(c)])
      <3>1. Awaits(job[q], wire[Out(c)]) /\ (Out(c) \in ends => Agree(j, job[q], w, wire[Out(c)]))
        BY <1>1, <1>7, <2>3, OtherEnd DEF Sends
      <3>. QED
        BY <3>1, <1>1, <2>2 DEF Agree
    <2>4. k.pc \in SendSteps
      BY <2>2 DEF SendSteps
    <2>. QED
      BY <1>1, <1>2, <1>3, <1>4, <1>5, <2>2, <2>3, <2>4, SenderGoesOn
  <1>8. CASE j.op # "push"
    <2>1. k.pc = "list"
      BY <1>5, <1>8
    <2>2. Fresh(Tail(w), 1)
      <3>1. Len(Tail(w)) <= 1
        BY <1>3, <1>6 DEF Fresh
      <3>2. ASSUME NEW n \in 1..Len(Tail(w)) PROVE Tail(w)[n].kind \in {"list", "error"}
        <4>1. n \in 1..(Len(w) - 1) /\ n + 1 \in 1..Len(w) /\ n + 1 # 1
          BY <1>3
        <4>. QED
          BY <4>1, <1>3, <1>6 DEF Fresh
      <3>. QED
        BY <3>1, <3>2 DEF Fresh
    <2>3. Awaits(k, Tail(w))
      BY <2>1, <2>2 DEF Awaits, AtWanted, Receiving
    <2>4. ASSUME NEW q \in Procs, Linked(c, q)
          PROVE  /\ Awaits(job[q], wire[Out(c)])
                 /\ Out(c) \in ends => Agree(job[q], k, wire[Out(c)], Tail(w))
      <3>1. Sends(job[q])
        BY <1>1, <1>8, <2>4, OneSends DEF Sends, SendSteps
      <3>2. /\ Awaits(job[q], wire[Out(c)])
            /\ Out(c) \in ends => Agree(job[q], j, wire[Out(c)], w)
        BY <1>1, <2>4, <3>1, OtherEnd
      <3>3. /\ \A m : Tail(<<m>>) = <<>>
            /\ \A m, n : Tail(<<m, n>>) = <<n>>
        OBVIOUS
      <3>4. ASSUME Agree(job[q], j, wire[Out(c)], w) PROVE Agree(job[q], k, wire[Out(c)], Tail(w))
        <4>1. \A n : ~UpTo(j, w, n)
          BY <1>1, PcKinds DEF UpTo
        <4>2. job[q].pc \notin {"status", "send"}
          BY <1>1, <3>4, <4>1 DEF Agree
        <4>3. job[q].pc = "walk" => w = <<Message("status", TRUE)>>
          BY <1>1, <3>4 DEF Agree
        <4>4. job[q].pc = "flags" => /\ wire[Out(c)] = <<>>
                                     /\ w = <<Message("status", TRUE), Message("list", job[q].list)>>
          BY <1>1, <3>4, <4>1 DEF Agree
        <4>5. job[q].pc = "walk" => Tail(w) = <<>>
          BY <4>3, <3>3
        <4>6. job[q].pc = "flags" => Tail(w) = <<Message("list", job[q].list)>>
          BY <4>4, <3>3
        <4>. QED
          BY <2>1, <4>2, <4>4, <4>5, <4>6 DEF Agree
      <3>. QED
        BY <3>2, <3>4
    <2>5. k.pc \in RecvSteps /\ ~UpTo(j, w, Len(j.list) + 1)
      BY <1>1, <2>1, PcKinds DEF RecvSteps, UpTo
    <2>. QED
      BY <1>1, <1>2, <1>3, <1>4, <1>5, <2>3, <2>4, <2>5, ReceiverGoesOn
  <1>. QED
    BY <1>7, <1>8

LEMMA TwoMessages ==
    ASSUME NEW a, NEW b
    PROVE  /\ <<a>> \o <<b>> = <<a, b>>
           /\ a.kind = "status" /\ b.kind \in {"list", "error"} => Fresh(<<a, b>>, 2)
  <1>1. <<a>> \o <<b>> = <<a, b>>
    <2>. DEFINE l == <<a>> \o <<b>>
                m == <<a, b>>
    <2>1. l \in Seq({a, b}) /\ m \in Seq({a, b})
      OBVIOUS
    <2>2. /\ Len(l) = 2 /\ l[1] = a /\ l[2] = b
          /\ Len(m) = 2 /\ m[1] = a /\ m[2] = b
      OBVIOUS
    <2>3. l = [i \in 1..2 |-> l[i]] /\ m = [i \in 1..2 |-> m[i]]
      BY <2>1, <2>2
    <2>4. \A i \in 1..2 : l[i] = m[i]
      BY <2>2
    <2>. HIDE DEF l, m
    <2>5. l = m
      BY <2>3, <2>4
    <2>. QED
      BY <2>5 DEF l, m
  <1>2. /\ Len(<<a, b>>) = 2 /\ <<a, b>>[1] = a /\ <<a, b>>[2] = b
        /\ \A n \in 1..2 : n = 1 \/ n = 2
    OBVIOUS
  <1>. QED
    BY <1>1, <1>2 DEF Fresh

LEMMA SendListSessions ==
    ASSUME IInv, IInv', Sessions, Roles', NEW p \in Procs, SendList(p), Walkable(p)
    PROVE  Sessions'
  <1>. DEFINE j == job[p]
              k == [j EXCEPT !.pc = "flags", !.list = Listing[Tip(p)]]
              m == <<Message("list", Listing[Tip(p)])>>
  <1>1. /\ j.pc = "walk" /\ job' = [job EXCEPT ![p] = k]
        /\ wire' = [wire EXCEPT ![Out(p)] = After(p, m)] /\ UNCHANGED <<ends, result, faults>>
    BY DEF SendList, At, Become, counts
  <1>2. j.pc \in Busy /\ j \in JobType /\ Awaits(j, wire[In(p)]) /\ wire[In(p)] \in Seq(Messages)
    BY <1>1, WireFacts, PcKinds DEF SendSteps
  <1>3. Listing[Tip(p)] \in Items(Listing) /\ Listing[Tip(p)] \in Seq(ObjectIds)
    BY ListingAssumption DEF Walkable, Items
  <1>4. m \in Seq(Messages) /\ m # <<>> /\ m[1].kind = "list" /\ Len(m) = 1
    BY <1>3, MessageTypes DEF Message
  <1>5. /\ wire' = [wire EXCEPT ![In(p)] = wire[In(p)], ![Out(p)] = After(p, m)]
        /\ Asks(After(p, m)) => Asks(wire[Out(p)])
        /\ Out(p) \in ends => After(p, m) = wire[Out(p)] \o m
        /\ Out(p) \notin ends => After(p, m) = wire[Out(p)]
        /\ <<>> \o m = m
    BY <1>1, <1>2, <1>4, SendWire
  <1>6. /\ k \in JobType /\ k.op = j.op /\ k.peer = j.peer /\ k.br = j.br
        /\ k.pc = "flags" /\ k.list = Listing[Tip(p)]
    BY <1>2, <1>3, StepNames DEF JobType
  <1>. HIDE DEF k
  <1>7. wire[In(p)] = <<>>
    BY <1>1, <1>2 DEF Awaits
  <1>8. Awaits(k, wire[In(p)])
    BY <1>6, <1>7 DEF Awaits, AtWanted, Receiving
  <1>9. p \in Clients => ~Pending(p)
    BY <1>1, NotPending
  <1>10. ASSUME NEW q \in Procs, Linked(p, q)
         PROVE  /\ Awaits(job[q], After(p, m))
                /\ Out(p) \in ends => Agree(k, job[q], wire[In(p)], After(p, m))
    <2>1. /\ Awaits(job[q], wire[Out(p)])
          /\ Out(p) \in ends => Agree(j, job[q], wire[In(p)], wire[Out(p)])
      BY <1>1, <1>10, OtherEnd DEF Sends, SendSteps
    <2>2. CASE Out(p) \notin ends
      BY <2>1, <2>2, <1>5
    <2>3. CASE Out(p) \in ends
      <3>1. \/ job[q].pc = "list" /\ wire[Out(p)] = <<>>
            \/ job[q].pc = "status" /\ wire[Out(p)] = <<Message("status", TRUE)>>
        BY <2>1, <2>3, <1>1 DEF Agree
      <3>2. CASE job[q].pc = "list" /\ wire[Out(p)] = <<>>
        <4>1. After(p, m) = m
          BY <3>2, <2>3, <1>5
        <4>2. Fresh(m, 1)
          BY <1>4 DEF Fresh
        <4>. QED
          BY <3>2, <4>1, <4>2, <1>6, <1>7 DEF Agree, Awaits, AtWanted, Receiving
      <3>3. CASE job[q].pc = "status" /\ wire[Out(p)] = <<Message("status", TRUE)>>
        <4>1. After(p, m) = <<Message("status", TRUE), Message("list", Listing[Tip(p)])>>
          BY <3>3, <2>3, <1>5, TwoMessages
        <4>2. /\ Message("status", TRUE).kind = "status"
              /\ Message("list", Listing[Tip(p)]).kind = "list"
          BY DEF Message
        <4>3. Fresh(After(p, m), 2)
          BY <4>1, <4>2, TwoMessages
        <4>4. job[q].op # "push"
          <5>1. q \in Clients /\ ~Sends(job[q]) /\ job[q].pc \in Busy
            BY <3>3, <1>1, <1>10, OneSends DEF Sends, SendSteps, Sessions, Roles, PlaysRole, Linked
          <5>. QED
            BY <5>1, <3>3 DEF Sends
        <4>. QED
          BY <3>3, <4>1, <4>3, <4>4, <1>6, <1>7 DEF Agree, Awaits, AtWanted, Receiving
      <3>. QED
        BY <3>1, <3>2, <3>3
    <2>. QED
      BY <2>2, <2>3
  <1>11. k.pc \in SendSteps
    BY <1>6 DEF SendSteps
  <1>. QED
    BY <1>1, <1>2, <1>5, <1>6, <1>8, <1>9, <1>10, <1>11, SenderGoesOn

LEMMA RecvFlagsSessions ==
    ASSUME IInv, IInv', Sessions, Roles', NEW p \in Procs, RecvFlags(p)
    PROVE  Sessions'
  <1>. DEFINE j == job[p]
              w == wire[In(p)]
              k == [j EXCEPT !.pc = "send", !.have = Received(p), !.i = 1]
  <1>1. /\ j.pc = "flags" /\ Arrived(p, "flags") /\ w # <<>> /\ Take(p)
        /\ job' = [job EXCEPT ![p] = k] /\ UNCHANGED <<ends, result, faults>>
    BY DEF RecvFlags, At, Become, Arrived, counts
  <1>2. /\ j.pc \in Busy /\ j \in JobType /\ Awaits(j, w) /\ WireType /\ In(p) \in Ends
    BY <1>1, WireFacts, TypeParts, PcKinds DEF SendSteps
  <1>3. /\ wire' = [wire EXCEPT ![In(p)] = Tail(w), ![Out(p)] = wire[Out(p)]]
        /\ Tail(w) \in Seq(Messages) /\ Len(w) \in Nat \ {0} /\ Received(p) = w[1].of
        /\ Tail(w) = <<>> <=> Len(w) = 1
    BY <1>1, <1>2, TakeWire
  <1>4. Received(p) \in SUBSET ObjectIds
    BY <1>1, <1>2, ReceivedType
  <1>5. /\ k \in JobType /\ k.op = j.op /\ k.peer = j.peer /\ k.br = j.br
        /\ k.pc = "send" /\ k.list = j.list /\ k.have = Received(p) /\ k.i = 1
    BY <1>2, <1>4, StepNames DEF JobType
  <1>. HIDE DEF k
  <1>6. Tail(w) = <<>>
    BY <1>1, <1>2, <1>3 DEF Awaits
  <1>7. Awaits(k, Tail(w))
    BY <1>5, <1>6 DEF Awaits, AtWanted, Receiving
  <1>8. p \in Clients => ~Pending(p)
    BY <1>1, NotPending
  <1>9. ASSUME NEW q \in Procs, Linked(p, q)
        PROVE  /\ Awaits(job[q], wire[Out(p)])
               /\ Out(p) \in ends => Agree(k, job[q], Tail(w), wire[Out(p)])
    <2>1. /\ Awaits(job[q], wire[Out(p)])
          /\ Out(p) \in ends => Agree(j, job[q], w, wire[Out(p)])
      BY <1>1, <1>9, OtherEnd DEF Sends, SendSteps
    <2>2. ASSUME Out(p) \in ends PROVE Agree(k, job[q], Tail(w), wire[Out(p)])
      <3>1. /\ w = <<Message("flags", job[q].have)>> /\ wire[Out(p)] = <<>>
            /\ job[q].list = j.list /\ UpTo(job[q], wire[Out(p)], 1)
        BY <2>1, <2>2, <1>1 DEF Agree
      <3>2. w[1] = Message("flags", job[q].have)
        BY <3>1
      <3>3. k.have = job[q].have
        BY <3>2, <1>3, <1>5 DEF Message
      <3>. QED
        BY <3>1, <3>3, <1>5 DEF Agree
    <2>. QED
      BY <2>1, <2>2
  <1>10. k.pc \in SendSteps
    BY <1>5 DEF SendSteps
  <1>. QED
    BY <1>1, <1>2, <1>3, <1>5, <1>7, <1>8, <1>9, <1>10, SenderGoesOn

LEMMA SkipSessions ==
    ASSUME IInv, IInv', Sessions, Roles', NEW p \in Procs, Skip(p)
    PROVE  Sessions'
  <1>. DEFINE j == job[p]
              w == wire[In(p)]
              k == [j EXCEPT !.i = j.i + 1]
  <1>1. /\ j.pc \in {"send", "recv"} /\ ~AtEnd(p) /\ j.list[j.i] \in j.have
        /\ job' = [job EXCEPT ![p] = k] /\ wire' = wire /\ UNCHANGED <<ends, result, faults>>
    BY DEF Skip, Become, Wanted, counts
  <1>2. /\ j.pc \in Busy /\ j.pc \in Working /\ "send" \in SendSteps /\ "recv" \in Receiving
        /\ "send" # "recv"
    BY <1>1 DEF Busy, Working, Receiving, SendSteps
  <1>3. j \in JobType /\ Awaits(j, w) /\ w \in Seq(Messages)
    BY <1>2, WireFacts
  <1>4. j.i \in DOMAIN j.list /\ j.i + 1 \in Nat \ {0} /\ j.i \in Nat
    BY <1>1, <1>2, <1>3, WantedFacts DEF JobType
  <1>5. /\ k \in JobType /\ k.op = j.op /\ k.peer = j.peer /\ k.br = j.br /\ k.pc = j.pc
        /\ k.list = j.list /\ k.have = j.have /\ k.i = j.i + 1
    BY <1>3, <1>4 DEF JobType
  <1>. HIDE DEF k
  <1>6. wire' = [wire EXCEPT ![In(p)] = w, ![Out(p)] = wire[Out(p)]]
    BY <1>1, <1>2, SameWire
  <1>7. p \in Clients => ~Pending(p)
    BY <1>1, NotPending
  <1>8. CASE j.pc = "send"
    <2>1. Awaits(k, w)
      BY <1>3, <1>5, <1>8 DEF Awaits, AtWanted, Receiving
    <2>2. ASSUME NEW q \in Procs, Linked(p, q)
          PROVE  /\ Awaits(job[q], wire[Out(p)])
                 /\ Out(p) \in ends => Agree(k, job[q], w, wire[Out(p)])
      <3>1. /\ Awaits(job[q], wire[Out(p)])
            /\ Out(p) \in ends => Agree(j, job[q], w, wire[Out(p)])
        BY <1>2, <1>8, <2>2, OtherEnd DEF Sends
      <3>2. ASSUME Out(p) \in ends PROVE Agree(k, job[q], w, wire[Out(p)])
        <4>1. job[q].list = j.list /\ job[q].have = j.have /\ UpTo(job[q], wire[Out(p)], j.i)
          BY <3>1, <3>2, <1>8 DEF Agree
        <4>2. UpTo(job[q], wire[Out(p)], j.i + 1)
          BY <4>1, <1>1, <1>4, SkipLevel, TypeParts
        <4>. QED
          BY <4>1, <4>2, <1>5, <1>8 DEF Agree
      <3>. QED
        BY <3>1, <3>2
    <2>3. k.pc \in SendSteps
      BY <1>2, <1>5, <1>8
    <2>. QED
      BY <1>1, <1>2, <1>3, <1>5, <1>6, <1>7, <2>1, <2>2, <2>3, SenderGoesOn
  <1>9. CASE j.pc = "recv"
    <2>1. /\ Carries(j, w) => Carries(k, w)
          /\ \A n \in Nat : UpTo(j, w, n) => UpTo(k, w, n)
      <3>1. Ahead(k) = Ahead(j) + 1 /\ Ahead(j) = j.i
        BY <1>5, <1>9 DEF Ahead
      <3>. QED
        BY <3>1, <1>1, <1>2, <1>3, <1>4, <1>5, <1>9, StillUpTo
    <2>2. Awaits(k, w)
      BY <1>2, <1>3, <1>5, <1>9, <2>1 DEF Awaits, AtWanted
    <2>3. ASSUME NEW q \in Procs, Linked(p, q)
          PROVE  /\ Awaits(job[q], wire[Out(p)])
                 /\ Out(p) \in ends => Agree(job[q], k, wire[Out(p)], w)
      <3>1. ~Sends(j)
        BY <1>2, <1>9, PcKinds DEF Sends
      <3>2. /\ Awaits(job[q], wire[Out(p)])
            /\ Out(p) \in ends => Agree(job[q], j, wire[Out(p)], w)
        BY <2>3, <3>1, OneSends, OtherEnd
      <3>3. ASSUME Agree(job[q], j, wire[Out(p)], w) PROVE Agree(job[q], k, wire[Out(p)], w)
        <4>1. job[q].i \in Nat
          BY TypeParts DEF JobType
        <4>. QED
          BY <3>3, <4>1, <1>5, <1>9, <2>1 DEF Agree
      <3>. QED
        BY <3>2, <3>3
    <2>4. k.pc \in RecvSteps /\ Len(j.list) + 1 \in Nat
      BY <1>2, <1>3, <1>5, <1>9, PcKinds DEF JobType
    <2>. QED
      BY <1>1, <1>2, <1>3, <1>5, <1>6, <1>7, <2>1, <2>2, <2>3, <2>4, ReceiverGoesOn
  <1>. QED
    BY <1>1, <1>8, <1>9

LEMMA SendFileSessions ==
    ASSUME IInv, IInv', Sessions, Roles', FilesWhole, NEW p \in Procs, SendFile(p),
           final[Place(p)][Wanted(p)] # NoFile
    PROVE  Sessions'
  <1>. DEFINE j == job[p]
              c == final[Place(p)][Wanted(p)]
              a == Message("size", {})
              b == Message("data", c)
              m == <<a, b>>
              k == [j EXCEPT !.i = j.i + 1]
  <1>1. /\ j.pc = "send" /\ ~AtEnd(p) /\ j.list[j.i] \notin j.have
        /\ job' = [job EXCEPT ![p] = k]
        /\ wire' = [wire EXCEPT ![Out(p)] = After(p, m)] /\ UNCHANGED <<ends, result, faults>>
    BY DEF SendFile, At, Become, Wanted, counts
  <1>2. j.pc \in Busy /\ j.pc \in Working /\ j.pc \in SendSteps
    BY <1>1 DEF Busy, Working, SendSteps
  <1>3. j \in JobType /\ Awaits(j, wire[In(p)]) /\ wire[In(p)] \in Seq(Messages)
        /\ wire[Out(p)] \in Seq(Messages)
    BY <1>2, WireFacts
  <1>4. /\ j.i \in DOMAIN j.list /\ j.i + 1 \in Nat \ {0} /\ j.i \in Nat
        /\ Wanted(p) \in ObjectIds
    BY <1>1, <1>2, <1>3, WantedFacts DEF JobType
  <1>5. c = Wanted(p) /\ c = j.list[j.i]
    BY <1>4, PlaceType DEF FilesWhole, Whole, Present, Wanted
  <1>6. /\ m \in Seq(Messages) /\ m # <<>> /\ m[1] = a /\ a.kind = "size" /\ b.kind = "data" /\ b.of = c
        /\ a \in Messages /\ b \in Messages
    <2>1. c \in Contents \ {NoFile}
      BY <1>4, <1>5, PathsAssumption DEF Contents
    <2>2. /\ a \in Messages /\ b \in Messages
          /\ a.kind = "size" /\ b.kind = "data" /\ b.of = c
      BY <2>1 DEF Message, Messages
    <2>3. m \in Seq(Messages)
      BY <2>1, MessageTypes
    <2>. HIDE DEF a, b
    <2>. QED
      BY <2>2, <2>3
  <1>7. /\ wire' = [wire EXCEPT ![In(p)] = wire[In(p)], ![Out(p)] = After(p, m)]
        /\ Asks(After(p, m)) => Asks(wire[Out(p)])
        /\ Out(p) \in ends => After(p, m) = wire[Out(p)] \o m
        /\ Out(p) \notin ends => After(p, m) = wire[Out(p)]
    <2>1. m[1].kind # "request"
      BY <1>6
    <2>. HIDE DEF m
    <2>. QED
      BY <1>1, <1>2, <1>6, <2>1, SendWire
  <1>8. /\ k \in JobType /\ k.op = j.op /\ k.peer = j.peer /\ k.br = j.br /\ k.pc = "send"
        /\ k.list = j.list /\ k.have = j.have /\ k.i = j.i + 1
    BY <1>1, <1>3, <1>4 DEF JobType
  <1>. HIDE DEF k
  <1>9. Awaits(k, wire[In(p)])
    BY <1>1, <1>3, <1>8 DEF Awaits, AtWanted, Receiving
  <1>10. p \in Clients => ~Pending(p)
    BY <1>1, NotPending
  <1>11. ASSUME NEW q \in Procs, Linked(p, q)
         PROVE  /\ Awaits(job[q], After(p, m))
                /\ Out(p) \in ends => Agree(k, job[q], wire[In(p)], After(p, m))
    <2>1. /\ Awaits(job[q], wire[Out(p)])
          /\ Out(p) \in ends => Agree(j, job[q], wire[In(p)], wire[Out(p)])
      BY <1>2, <1>11, OtherEnd DEF Sends
    <2>2. CASE Out(p) \notin ends
      BY <2>1, <2>2, <1>7
    <2>3. CASE Out(p) \in ends
      <3>1. job[q].list = j.list /\ job[q].have = j.have /\ UpTo(job[q], wire[Out(p)], j.i)
        BY <2>1, <2>3, <1>1 DEF Agree
      <3>2. job[q] \in JobType
        BY TypeParts
      <3>3. UpTo(job[q], wire[Out(p)] \o m, j.i + 1)
        <4>. HIDE DEF a, b
        <4>. QED
          BY <3>1, <3>2, <1>1, <1>3, <1>4, <1>5, <1>6, FilePlaced
      <3>4. After(p, m) = wire[Out(p)] \o m
        BY <2>3, <1>7
      <3>. HIDE DEF m
      <3>5. Agree(k, job[q], wire[In(p)], After(p, m))
        BY <3>1, <3>3, <3>4, <1>8 DEF Agree
      <3>6. job[q].pc \in Receiving /\ Carries(job[q], After(p, m))
        BY <3>3, <3>4 DEF UpTo, Carries
      <3>7. Awaits(job[q], After(p, m))
        <4>1. AtWanted(job[q])
          BY <2>1 DEF Awaits
        <4>. QED
          BY <3>6, <4>1 DEF Awaits, Receiving
      <3>. QED
        BY <3>5, <3>7
    <2>. QED
      BY <2>2, <2>3
  <1>. HIDE DEF m
  <1>. QED
    BY <1>1, <1>2, <1>3, <1>7, <1>8, <1>9, <1>10, <1>11, SenderGoesOn

LEMMA RecvListSessions ==
    ASSUME IInv, IInv', Sessions, Roles', NEW p \in Procs, RecvList(p)
    PROVE  Sessions'
  <1>. DEFINE j == job[p]
              w == wire[In(p)]
              k == [j EXCEPT !.pc = "check", !.list = Received(p), !.i = 1]
  <1>1. /\ j.pc = "list" /\ Arrived(p, "list") /\ w # <<>> /\ Take(p)
        /\ job' = [job EXCEPT ![p] = k] /\ UNCHANGED <<ends, result, faults>>
    BY DEF RecvList, At, Become, Arrived, counts
  <1>2. /\ j.pc \in Busy /\ j \in JobType /\ Awaits(j, w) /\ WireType /\ In(p) \in Ends
    BY <1>1, WireFacts, TypeParts, PcKinds DEF RecvSteps
  <1>3. /\ wire' = [wire EXCEPT ![In(p)] = Tail(w), ![Out(p)] = wire[Out(p)]]
        /\ Tail(w) \in Seq(Messages) /\ Len(w) \in Nat \ {0} /\ Received(p) = w[1].of
        /\ Tail(w) = <<>> <=> Len(w) = 1
    BY <1>1, <1>2, TakeWire
  <1>4. Received(p) \in Seq(ObjectIds)
    BY <1>1, <1>2, ReceivedType, ListingFacts
  <1>5. /\ k \in JobType /\ k.op = j.op /\ k.peer = j.peer /\ k.br = j.br
        /\ k.pc = "check" /\ k.list = Received(p)
    BY <1>2, <1>4, StepNames DEF JobType
  <1>. HIDE DEF k
  <1>6. Tail(w) = <<>>
    BY <1>1, <1>2, <1>3 DEF Awaits, Fresh
  <1>7. Awaits(k, Tail(w))
    BY <1>5, <1>6 DEF Awaits, AtWanted, Receiving
  <1>8. p \in Clients => ~Pending(p)
    BY <1>1, NotPending
  <1>9. \A n : ~UpTo(j, w, n)
    BY <1>1 DEF UpTo, Receiving
  <1>10. ASSUME NEW q \in Procs, Linked(p, q)
         PROVE  /\ Awaits(job[q], wire[Out(p)])
                /\ Out(p) \in ends => Agree(job[q], k, wire[Out(p)], Tail(w))
    <2>1. ~Sends(j)
      BY <1>1, PcKinds DEF Sends, SendSteps
    <2>2. /\ Awaits(job[q], wire[Out(p)])
          /\ Out(p) \in ends => Agree(job[q], j, wire[Out(p)], w)
      BY <1>10, <2>1, OneSends, OtherEnd
    <2>3. ASSUME Agree(job[q], j, wire[Out(p)], w) PROVE Agree(job[q], k, wire[Out(p)], Tail(w))
      <3>1. job[q].pc \notin {"status", "walk", "send"}
        BY <1>1, <1>9, <2>3 DEF Agree
      <3>2. job[q].pc = "flags" => wire[Out(p)] = <<>> /\ w = <<Message("list", job[q].list)>>
        BY <1>1, <1>9, <2>3 DEF Agree
      <3>3. w = <<Message("list", job[q].list)>> => w[1].of = job[q].list
        BY DEF Message
      <3>. QED
        BY <3>1, <3>2, <3>3, <1>3, <1>5 DEF Agree
    <2>. QED
      BY <2>2, <2>3
  <1>11. k.pc \in RecvSteps
    BY <1>5 DEF RecvSteps
  <1>. QED
    BY <1>1, <1>2, <1>3, <1>5, <1>7, <1>8, <1>9, <1>10, <1>11, ReceiverGoesOn

LEMMA CheckSessions ==
    ASSUME IInv, IInv', Sessions, Roles', NEW p \in Procs, Check(p)
    PROVE  Sessions'
  <1>. DEFINE j == job[p]
              w == wire[In(p)]
              have == IF HasHash(p) THEN j.have \cup {Wanted(p)} ELSE j.have
              k == [j EXCEPT !.i = j.i + 1, !.have = have]
  <1>1. /\ j.pc = "check" /\ ~AtEnd(p)
        /\ job' = [job EXCEPT ![p] = k] /\ wire' = wire /\ UNCHANGED <<ends, result, faults>>
    BY DEF Check, At, Become, counts
  <1>2. j.pc \in Busy /\ j.pc \in Working
    BY <1>1 DEF Busy, Working
  <1>3. j \in JobType /\ Awaits(j, w) /\ w \in Seq(Messages)
    BY <1>2, WireFacts
  <1>4. j.i + 1 \in Nat \ {0} /\ have \in SUBSET ObjectIds
    BY <1>1, <1>2, <1>3, WantedFacts DEF JobType
  <1>. HIDE DEF have
  <1>5. /\ k \in JobType /\ k.op = j.op /\ k.peer = j.peer /\ k.br = j.br /\ k.pc = "check"
        /\ k.list = j.list
    BY <1>1, <1>3, <1>4 DEF JobType
  <1>. HIDE DEF k
  <1>6. wire' = [wire EXCEPT ![In(p)] = w, ![Out(p)] = wire[Out(p)]]
    BY <1>1, <1>2, SameWire
  <1>7. p \in Clients => ~Pending(p)
    BY <1>1, NotPending
  <1>8. Awaits(k, w)
    BY <1>1, <1>3, <1>5 DEF Awaits, AtWanted, Receiving
  <1>9. \A n : ~UpTo(j, w, n)
    BY <1>1 DEF UpTo, Receiving
  <1>10. ASSUME NEW q \in Procs, Linked(p, q)
         PROVE  /\ Awaits(job[q], wire[Out(p)])
                /\ Out(p) \in ends => Agree(job[q], k, wire[Out(p)], w)
    <2>1. ~Sends(j)
      BY <1>1, PcKinds DEF Sends, SendSteps
    <2>2. /\ Awaits(job[q], wire[Out(p)])
          /\ Out(p) \in ends => Agree(job[q], j, wire[Out(p)], w)
      BY <1>10, <2>1, OneSends, OtherEnd
    <2>. QED
      BY <2>2, <1>1, <1>5, <1>9 DEF Agree
  <1>11. k.pc \in RecvSteps
    BY <1>5 DEF RecvSteps
  <1>. QED
    BY <1>1, <1>2, <1>3, <1>5, <1>6, <1>7, <1>8, <1>9, <1>10, <1>11, ReceiverGoesOn

LEMMA SendFlagsSessions ==
    ASSUME IInv, IInv', Sessions, Roles', NEW p \in Procs, SendFlags(p)
    PROVE  Sessions'
  <1>. DEFINE j == job[p]
              m == <<Message("flags", j.have)>>
              k == [j EXCEPT !.pc = "recv", !.i = 1]
  <1>1. /\ j.pc = "check" /\ job' = [job EXCEPT ![p] = k]
        /\ wire' = [wire EXCEPT ![Out(p)] = After(p, m)] /\ UNCHANGED <<ends, result, faults>>
    BY DEF SendFlags, At, Become, counts
  <1>2. j.pc \in Busy
    BY <1>1 DEF Busy, Working
  <1>3. j \in JobType /\ Awaits(j, wire[In(p)]) /\ wire[In(p)] \in Seq(Messages)
    BY <1>2, WireFacts
  <1>4. m \in Seq(Messages) /\ m # <<>> /\ m[1].kind = "flags" /\ Len(m) = 1
    BY <1>3, MessageTypes DEF Message, JobType
  <1>5. /\ wire' = [wire EXCEPT ![In(p)] = wire[In(p)], ![Out(p)] = After(p, m)]
        /\ Asks(After(p, m)) => Asks(wire[Out(p)])
        /\ Out(p) \in ends => After(p, m) = wire[Out(p)] \o m
        /\ Out(p) \notin ends => After(p, m) = wire[Out(p)]
        /\ <<>> \o m = m
    BY <1>1, <1>2, <1>4, SendWire
  <1>6. /\ k \in JobType /\ k.op = j.op /\ k.peer = j.peer /\ k.br = j.br
        /\ k.pc = "recv" /\ k.list = j.list /\ k.have = j.have /\ k.i = 1
    BY <1>3, StepNames DEF JobType
  <1>. HIDE DEF k
  <1>7. wire[In(p)] = <<>>
    BY <1>1, <1>3 DEF Awaits
  <1>8. Carries(k, <<>>) /\ UpTo(k, <<>>, 1)
    BY <1>6, EmptyPlaced DEF Ahead, Receiving
  <1>9. Awaits(k, wire[In(p)])
    BY <1>6, <1>7, <1>8 DEF Awaits, AtWanted
  <1>10. p \in Clients => ~Pending(p)
    BY <1>1, NotPending
  <1>11. ASSUME NEW q \in Procs, Linked(p, q)
         PROVE  /\ Awaits(job[q], After(p, m))
                /\ Out(p) \in ends => Agree(job[q], k, After(p, m), wire[In(p)])
    <2>1. ~Sends(j)
      BY <1>1, PcKinds DEF Sends, SendSteps
    <2>2. /\ Awaits(job[q], wire[Out(p)])
          /\ Out(p) \in ends => Agree(job[q], j, wire[Out(p)], wire[In(p)])
          /\ Sends(job[q]) /\ job[q].pc \in Busy
      BY <1>11, <2>1, OneSends, OtherEnd DEF Linked
    <2>3. CASE Out(p) \notin ends
      BY <2>2, <2>3, <1>5
    <2>4. CASE Out(p) \in ends
      <3>1. job[q].pc \in {"status", "walk", "flags", "send"}
        BY <2>2 DEF Sends, SendSteps
      <3>2. job[q].pc = "flags" /\ wire[Out(p)] = <<>> /\ job[q].list = j.list
        <4>1. \A n : ~UpTo(j, wire[In(p)], n)
          BY <1>1 DEF UpTo, Receiving
        <4>. QED
          BY <3>1, <4>1, <2>2, <2>4, <1>1 DEF Agree
      <3>3. After(p, m) = m
        BY <3>2, <2>4, <1>5
      <3>4. Awaits(job[q], m)
        BY <3>2, <1>4 DEF Awaits, AtWanted, Receiving
      <3>5. Agree(job[q], k, m, wire[In(p)])
        BY <3>2, <1>6, <1>7, <1>8 DEF Agree
      <3>. QED
        BY <3>3, <3>4, <3>5
    <2>. QED
      BY <2>3, <2>4
  <1>12. k.pc \in RecvSteps /\ ~UpTo(j, wire[In(p)], Len(j.list) + 1)
    BY <1>1, <1>6 DEF RecvSteps, Receiving, UpTo
  <1>. QED
    BY <1>1, <1>2, <1>3, <1>5, <1>6, <1>9, <1>10, <1>11, <1>12, ReceiverGoesOn

-----------------------------------------------------------------------------
(* The files of a receiver.                                                *)

\* Where one process at most receives in a repository, it has its files open
\* for itself.
LEMMA Alone ==
    ASSUME SoleReceiver, IInv, Roles, NEW p \in Procs, job[p].pc \in RecvSteps
    PROVE  /\ \A q \in Procs : job[q].pc \in RecvSteps /\ Place(q) = Place(p) => q = p
           /\ \A q \in Procs : ~Sharing(p, q)
           /\ \A to : Moved(p, to) = job
  <1>1. ASSUME NEW q \in Procs, job[q].pc \in RecvSteps, Place(q) = Place(p) PROVE q = p
    <2>1. PICK m \in Commands : Target(m) = p
      BY RoleFacts
    <2>2. PICK n \in Commands : Target(n) = q
      BY <1>1, RoleFacts
    <2>. QED
      BY <2>1, <2>2, <1>1 DEF SoleReceiver
  <1>2. ASSUME NEW q \in Procs, Sharing(p, q) PROVE FALSE
    <2>1. q # p /\ Place(q) = Place(p) /\ job[q].at # "none"
      BY <1>2 DEF Sharing
    <2>2. job[q].pc \in RecvSteps
      BY <2>1, TypeParts DEF Fits, RecvSteps, Receiving
    <2>. QED
      BY <2>1, <2>2, <1>1
  <1>3. job = [q \in Procs |-> job[q]]
    BY TypeParts
  <1>4. ASSUME NEW to PROVE Moved(p, to) = job
    BY <1>2, <1>3 DEF Moved
  <1>. QED
    BY <1>1, <1>2, <1>4

\* A receiver at work on its files.
LEMMA FileSessions ==
    ASSUME IInv, IInv', Sessions, Roles', NEW p \in Procs, NEW k \in JobType,
           job[p].pc \in Receiving, k.pc \in Receiving,
           NEW in \in Seq(Messages), wire' = [wire EXCEPT ![In(p)] = in, ![Out(p)] = wire[Out(p)]],
           k.op = job[p].op, k.peer = job[p].peer, k.br = job[p].br,
           k.list = job[p].list, k.have = job[p].have, AtWanted(k),
           job' = [job EXCEPT ![p] = k], UNCHANGED <<ends, result, faults>>,
           Carries(job[p], wire[In(p)]) => Carries(k, in),
           \A n \in Nat : UpTo(job[p], wire[In(p)], n) => UpTo(k, in, n),
           wire[In(p)] = <<>> => in = <<>>
    PROVE  Sessions'
  <1>. DEFINE j == job[p]
              w == wire[In(p)]
  <1>1. j.pc \in Busy /\ "status" \notin Receiving /\ "idle" \notin Receiving /\ k.pc \in RecvSteps
    BY PcKinds DEF Receiving, RecvSteps
  <1>2. j \in JobType /\ Awaits(j, w) /\ w \in Seq(Messages)
    BY <1>1, WireFacts
  <1>3. p \in Clients => ~Pending(p)
    BY <1>1, NotPending
  <1>4. Awaits(k, in)
    <2>1. Carries(k, in)
      BY <1>2 DEF Awaits
    <2>. QED
      BY <2>1 DEF Awaits, Receiving
  <1>5. ASSUME NEW q \in Procs, Linked(p, q)
        PROVE  /\ Awaits(job[q], wire[Out(p)])
               /\ Out(p) \in ends => Agree(job[q], k, wire[Out(p)], in)
    <2>1. ~Sends(j)
      BY <1>1, PcKinds DEF Sends
    <2>2. /\ Awaits(job[q], wire[Out(p)])
          /\ Out(p) \in ends => Agree(job[q], j, wire[Out(p)], w)
      BY <1>5, <2>1, OneSends, OtherEnd
    <2>3. ASSUME Agree(job[q], j, wire[Out(p)], w) PROVE Agree(job[q], k, wire[Out(p)], in)
      <3>1. job[q].i \in Nat
        BY TypeParts DEF JobType
      <3>2. job[q].pc \notin {"status", "walk"}
        BY <1>1, <2>3 DEF Agree, Receiving
      <3>3. job[q].pc = "send" => j.list = job[q].list /\ j.have = job[q].have /\ UpTo(k, in, job[q].i)
        BY <2>3, <3>1 DEF Agree
      <3>4. job[q].pc = "flags" =>
               /\ wire[Out(p)] = <<Message("flags", j.have)>> /\ w = <<>>
               /\ j.list = job[q].list /\ UpTo(j, w, 1)
        BY <2>3 DEF Agree, Receiving
      <3>5. job[q].pc = "flags" => UpTo(k, in, 1)
        BY <3>4
      <3>. QED
        BY <3>2, <3>3, <3>4, <3>5 DEF Agree
    <2>. QED
      BY <2>2, <2>3
  <1>6. Len(j.list) + 1 \in Nat
    BY <1>2 DEF JobType
  <1>. QED
    BY <1>1, <1>3, <1>4, <1>5, <1>6, ReceiverGoesOn

LEMMA RecvSizeSessions ==
    ASSUME IInv, IInv', Sessions, Roles', NEW p \in Procs, RecvSize(p)
    PROVE  Sessions'
  <1>. DEFINE j == job[p]
              w == wire[In(p)]
              k == [j EXCEPT !.pc = "data", !.at = "part"]
  <1>1. /\ j.pc = "recv" /\ ~AtEnd(p) /\ j.list[j.i] \notin j.have
        /\ Arrived(p, "size") /\ w # <<>> /\ Take(p)
        /\ job' = [job EXCEPT ![p] = k] /\ UNCHANGED <<ends, result, faults>>
    BY DEF RecvSize, At, Open, Become, Arrived, Wanted, counts
  <1>2. j.pc \in Busy /\ j.pc \in Working /\ j.pc \in Receiving /\ "data" \in Receiving
    BY <1>1 DEF Busy, Working, Receiving
  <1>3. j \in JobType /\ w \in Seq(Messages)
    BY <1>2, WireFacts
  <1>4. j.i \in DOMAIN j.list
    BY <1>1, <1>2, WantedFacts
  <1>5. /\ wire' = [wire EXCEPT ![In(p)] = Tail(w), ![Out(p)] = wire[Out(p)]]
        /\ Tail(w) \in Seq(Messages)
    BY <1>1, <1>2, TakeWire
  <1>6. w[1].kind = "size"
    BY <1>1, <1>3, TailFacts DEF Arrived
  <1>7. /\ k \in JobType /\ k.op = j.op /\ k.peer = j.peer /\ k.br = j.br
        /\ k.pc = "data" /\ k.list = j.list /\ k.have = j.have /\ k.i = j.i
    BY <1>3, StepNames DEF JobType
  <1>. HIDE DEF k
  <1>8. /\ Carries(j, w) => Carries(k, Tail(w))
        /\ \A n \in Nat : UpTo(j, w, n) => UpTo(k, Tail(w), n)
    BY <1>1, <1>3, <1>4, <1>6, <1>7, TailUpTo
  <1>9. AtWanted(k)
    BY <1>1, <1>4, <1>7 DEF AtWanted
  <1>. QED
    BY <1>1, <1>2, <1>5, <1>7, <1>8, <1>9, FileSessions

LEMMA RecvDataSessions ==
    ASSUME IInv, IInv', Sessions, Roles', NEW p \in Procs, RecvData(p)
    PROVE  Sessions'
  <1>. DEFINE j == job[p]
              w == wire[In(p)]
              k == [j EXCEPT !.pc = "rename", !.at = "none"]
  <1>1. /\ j.pc = "data" /\ Arrived(p, "data") /\ w # <<>> /\ Take(p)
        /\ job' = [job EXCEPT ![p] = k] /\ UNCHANGED <<ends, result, faults>>
    BY DEF RecvData, At, Fill, Become, Arrived, counts
  <1>2. j.pc \in Busy /\ j.pc \in Receiving /\ "rename" \in Receiving
    BY <1>1 DEF Busy, Working, Receiving
  <1>3. j \in JobType /\ w \in Seq(Messages) /\ Awaits(j, w)
    BY <1>2, WireFacts
  <1>4. j.i \in DOMAIN j.list /\ j.list[j.i] \notin j.have
    BY <1>1, <1>3 DEF Awaits, AtWanted
  <1>5. /\ wire' = [wire EXCEPT ![In(p)] = Tail(w), ![Out(p)] = wire[Out(p)]]
        /\ Tail(w) \in Seq(Messages)
    BY <1>1, <1>2, TakeWire
  <1>6. w[1].kind = "data"
    BY <1>1, <1>3, TailFacts DEF Arrived
  <1>7. /\ k \in JobType /\ k.op = j.op /\ k.peer = j.peer /\ k.br = j.br
        /\ k.pc = "rename" /\ k.list = j.list /\ k.have = j.have /\ k.i = j.i
    BY <1>3, StepNames DEF JobType
  <1>. HIDE DEF k
  <1>8. /\ Carries(j, w) => Carries(k, Tail(w))
        /\ \A n \in Nat : UpTo(j, w, n) => UpTo(k, Tail(w), n)
    BY <1>1, <1>3, <1>4, <1>6, <1>7, TailUpTo
  <1>9. AtWanted(k)
    BY <1>4, <1>7 DEF AtWanted
  <1>. QED
    BY <1>1, <1>2, <1>5, <1>7, <1>8, <1>9, FileSessions

\* The steps between messages.
LEMMA RefSessions ==
    ASSUME IInv, IInv', Sessions, Roles', NEW p \in Procs, NEW k \in JobType,
           job[p].pc \in Receiving \ {"data"}, k.pc \in Receiving \ {"data", "rename"},
           k.op = job[p].op, k.peer = job[p].peer, k.br = job[p].br,
           k.list = job[p].list, k.have = job[p].have, k.i = Ahead(job[p]),
           job' = [job EXCEPT ![p] = k], UNCHANGED <<wire, ends, result, faults>>
    PROVE  Sessions'
  <1>. DEFINE j == job[p]
              w == wire[In(p)]
  <1>1. j.pc \in Busy
    BY PcKinds
  <1>2. j \in JobType /\ w \in Seq(Messages)
    BY <1>1, WireFacts
  <1>3. Ahead(k) = Ahead(j)
    BY DEF Ahead
  <1>4. /\ Carries(j, w) => Carries(k, w)
        /\ \A n \in Nat : UpTo(j, w, n) => UpTo(k, w, n)
    BY <1>2, <1>3, StillUpTo
  <1>5. AtWanted(k)
    BY DEF AtWanted
  <1>6. wire' = [wire EXCEPT ![In(p)] = w, ![Out(p)] = wire[Out(p)]]
    BY <1>1, SameWire
  <1>. QED
    BY <1>2, <1>4, <1>5, <1>6, FileSessions

LEMMA RenameSessions ==
    ASSUME SoleReceiver, IInv, IInv', Sessions, Roles', NEW p \in Procs, Rename(p),
           part[Place(p)][Path(p)] # NoFile
    PROVE  Sessions'
  <1>. DEFINE j == job[p]
              k == [j EXCEPT !.pc = "recv", !.i = j.i + 1]
  <1>1. /\ j.pc = "rename" /\ job' = [Moved(p, "final") EXCEPT ![p] = k]
        /\ UNCHANGED <<wire, ends, result, faults>>
    BY DEF Rename, At, counts
  <1>2. j.pc \in RecvSteps /\ j.pc \in Receiving \ {"data"} /\ "recv" \in Receiving \ {"data", "rename"}
        /\ j \in JobType /\ Roles
    BY <1>1, TypeParts DEF RecvSteps, Receiving, Sessions
  <1>3. job' = [job EXCEPT ![p] = k]
    BY <1>1, <1>2, Alone
  <1>4. /\ k \in JobType /\ k.op = j.op /\ k.peer = j.peer /\ k.br = j.br
        /\ k.pc = "recv" /\ k.list = j.list /\ k.have = j.have /\ k.i = Ahead(j)
    <2>1. j.i + 1 \in Nat \ {0} /\ Ahead(j) = j.i + 1
      BY <1>1, <1>2 DEF JobType, Ahead
    <2>. QED
      BY <1>2, <2>1, StepNames DEF JobType
  <1>. HIDE DEF k
  <1>. QED
    BY <1>1, <1>2, <1>3, <1>4, RefSessions

LEMMA RefStepSessions ==
    ASSUME IInv, IInv', Sessions, Roles', NEW p \in Procs, RefOpen(p) \/ RefWrite(p)
    PROVE  Sessions'
  <1>. DEFINE j == job[p]
  <1>1. PICK pc \in {"refWrite", "refRename"}, at \in {"part", "none"} :
           /\ j.pc \in {"recv", "refWrite"} /\ job' = [job EXCEPT ![p] = [j EXCEPT !.pc = pc, !.at = at]]
           /\ UNCHANGED <<wire, ends, result, faults>>
    <2>1. CASE RefOpen(p)
      BY <2>1 DEF RefOpen, At, Open, Become, counts
    <2>2. CASE RefWrite(p)
      BY <2>2 DEF RefWrite, At, Fill, Become, counts
    <2>. QED
      BY <2>1, <2>2
  <1>. DEFINE k == [j EXCEPT !.pc = pc, !.at = at]
  <1>2. j.pc \in Receiving \ {"data"} /\ pc \in Receiving \ {"data", "rename"} /\ j \in JobType
    BY <1>1, TypeParts DEF Receiving
  <1>4. /\ k \in JobType /\ k.op = j.op /\ k.peer = j.peer /\ k.br = j.br
        /\ k.pc = pc /\ k.list = j.list /\ k.have = j.have /\ k.i = Ahead(j)
    BY <1>1, <1>2, StepNames DEF JobType, Ahead
  <1>5. job' = [job EXCEPT ![p] = k]
    BY <1>1
  <1>. HIDE DEF k
  <1>. QED
    BY <1>1, <1>2, <1>4, <1>5, RefSessions

-----------------------------------------------------------------------------
(* Steps of a process that is done, one way or the other.                  *)

LEMMA LeaveAlone ==
    ASSUME IInv, IInv', Sessions, Roles', NEW p \in Procs,
           job[p].pc \in Busy, job'[p].pc \notin Busy,
           p \in Clients => job'[p].pc = "idle",
           \A q \in Procs : q # p => job'[q] = job[q],
           ends' = ends \ {In(p)},
           \A e \in Ends : e # In(p) /\ e # Out(p) => wire'[e] = wire[e],
           wire'[In(p)] = <<>>,
           Asks(wire'[Out(p)]) => Asks(wire[Out(p)]) /\ wire'[Out(p)][1] = wire[Out(p)][1],
           \A q \in Procs : Linked(p, q) => Awaits(job[q], wire'[Out(p)]),
           \A c \in Clients : c # p => result'[c] = result[c],
           p \in Clients /\ Pending(p) => result'[p] # "ok" /\ faults' # 0,
           faults' = 0 => faults = 0,
           \A r \in Repos : Linked(p, r) /\ job[r].op = "push" /\ result'[p] = "ok" /\ faults' = 0
              => UpTo(job[r], wire'[Out(p)], Len(job[r].list) + 1)
    PROVE  Sessions'
  <1>. DEFINE gone == {In(p)}
  <1>1. /\ ends' = ends \ gone /\ In(p) \in gone
        /\ \A e \in gone : e = In(p) \/ \E d \in Clients : Pending(d) /\ e = <<d, "server">>
        /\ \A e \in Ends : e # In(p) /\ e # Out(p)
                               => wire'[e] = IF e \in gone THEN <<>> ELSE wire[e]
    OBVIOUS
  <1>. HIDE DEF gone
  <1>. QED
    BY <1>1, LeaveSessions

LEMMA EndSessions ==
    ASSUME IInv, IInv', Sessions, Roles', NEW p \in Procs, job[p].pc \in Busy,
           NEW how \in {"ok", "failed"}, NEW out,
           job' = [job EXCEPT ![p] = Resting(p)],
           result' = IF p \in Clients THEN [result EXCEPT ![p] = how] ELSE result,
           ends' = ends \ {In(p)}, wire' = [wire EXCEPT ![In(p)] = <<>>, ![Out(p)] = out],
           Asks(out) => Asks(wire[Out(p)]) /\ out[1] = wire[Out(p)][1],
           \A q \in Procs : Linked(p, q) => Awaits(job[q], out),
           p \in Clients /\ Pending(p) => how = "failed" /\ faults' # 0,
           faults' = 0 => faults = 0,
           how = "ok" /\ faults' = 0 =>
              \A r \in Repos : Linked(p, r) /\ job[r].op = "push"
                                  => UpTo(job[r], out, Len(job[r].list) + 1)
    PROVE  Sessions'
  <1>1. /\ wire \in [Ends -> Seq(Messages)] /\ In(p) \in Ends /\ Out(p) \in Ends /\ In(p) # Out(p)
        /\ job \in [Procs -> JobType]
    BY WireFacts
  <1>2. /\ wire'[In(p)] = <<>> /\ wire'[Out(p)] = out
        /\ \A e \in Ends : e # In(p) /\ e # Out(p) => wire'[e] = wire[e]
    BY <1>1
  <1>3. /\ job'[p] = Resting(p) /\ job'[p].pc \notin Busy
        /\ p \in Clients => job'[p].pc = "idle"
        /\ \A q \in Procs : q # p => job'[q] = job[q]
    <2>1. Resting(p).pc = IF p \in Clients THEN "idle" ELSE "accept"
      BY DEF Resting, Job
    <2>. QED
      BY <1>1, <2>1, PcKinds
  <1>4. result \in [Clients -> {"none", "ok", "failed"}]
    BY TypeParts DEF ResultType
  <1>5. /\ \A c \in Clients : c # p => result'[c] = result[c]
        /\ p \in Clients => result'[p] = how
    BY <1>4
  <1>6. \A r \in Repos : Linked(p, r) => p \in Clients
    <2>1. \A r \in Repos : r \in Procs /\ r \notin Clients
      BY ProcsAssumption DEF Procs
    <2>. QED
      BY <2>1, OneSends DEF Procs
  <1>8. \A r \in Repos : Linked(p, r) /\ job[r].op = "push" /\ result'[p] = "ok" /\ faults' = 0
              => UpTo(job[r], wire'[Out(p)], Len(job[r].list) + 1)
    BY <1>2, <1>5, <1>6
  <1>9. p \in Clients /\ Pending(p) => result'[p] # "ok" /\ faults' # 0
    BY <1>5
  <1>10. /\ Asks(wire'[Out(p)]) => Asks(wire[Out(p)]) /\ wire'[Out(p)][1] = wire[Out(p)][1]
         /\ \A q \in Procs : Linked(p, q) => Awaits(job[q], wire'[Out(p)])
    BY <1>2
  <1>. QED
    <2>1. job'[p].pc \notin Busy /\ (p \in Clients => job'[p].pc = "idle")
      BY <1>3
    <2>2. \A q \in Procs : q # p => job'[q] = job[q]
      BY <1>3
    <2>3. wire'[In(p)] = <<>>
      BY <1>2
    <2>4. \A c \in Clients : c # p => result'[c] = result[c]
      BY <1>5
    <2>. QED
      BY <1>2, <2>1, <2>2, <2>3, <2>4, <1>8, <1>9, <1>10, LeaveAlone

\* In disorder: what is on its way to the other end may be lost.
LEMMA ResetSessions ==
    ASSUME IInv, IInv', Sessions, Roles', NEW p \in Procs, job[p].pc \in Busy, Reset(p),
           job' = [job EXCEPT ![p] = Resting(p)],
           result' = IF p \in Clients THEN [result EXCEPT ![p] = "failed"] ELSE result,
           p \in Clients /\ Pending(p) => faults' # 0, faults' = 0 => faults = 0
    PROVE  Sessions'
  <1>1. PICK n \in 0..Len(wire[Out(p)]) :
            wire' = [wire EXCEPT ![In(p)] = <<>>, ![Out(p)] = SubSeq(@, 1, n)]
    BY DEF Reset
  <1>. DEFINE out == SubSeq(wire[Out(p)], 1, n)
  <1>2. In(p) # Out(p) /\ wire[Out(p)] \in Seq(Messages) /\ ends' = ends \ {In(p)}
    BY WireFacts DEF Reset
  <1>3. wire' = [wire EXCEPT ![In(p)] = <<>>, ![Out(p)] = out]
    BY <1>1, <1>2
  <1>4. Asks(out) => Asks(wire[Out(p)]) /\ out[1] = wire[Out(p)][1]
    BY <1>2, CutAsks
  <1>5. ASSUME NEW q \in Procs, Linked(p, q) PROVE Awaits(job[q], out)
    <2>1. Awaits(job[q], wire[Out(p)])
      BY <1>5, OtherEnd
    <2>. QED
      BY <2>1, <1>2, CutAwaits, TypeParts
  <1>. HIDE DEF out
  <1>. QED
    BY <1>2, <1>3, <1>4, <1>5, EndSessions

\* In order.
LEMMA CloseSessions ==
    ASSUME IInv, IInv', Sessions, Roles', NEW p \in Procs, job[p].pc \in Busy, Close(p),
           NEW how \in {"ok", "failed"}, job' = [job EXCEPT ![p] = Resting(p)],
           result' = IF p \in Clients THEN [result EXCEPT ![p] = how] ELSE result,
           p \in Clients => ~Pending(p), faults' = faults,
           how = "ok" /\ faults = 0 =>
              \A r \in Repos : Linked(p, r) /\ job[r].op = "push"
                                  => UpTo(job[r], wire[Out(p)], Len(job[r].list) + 1)
    PROVE  Sessions'
  <1>1. /\ wire \in [Ends -> Seq(Messages)] /\ In(p) \in Ends /\ Out(p) \in Ends /\ In(p) # Out(p)
    BY WireFacts
  <1>2. wire' = [wire EXCEPT ![In(p)] = <<>>, ![Out(p)] = wire[Out(p)]] /\ ends' = ends \ {In(p)}
    BY <1>1 DEF Close
  <1>3. \A q \in Procs : Linked(p, q) => Awaits(job[q], wire[Out(p)])
    BY OtherEnd
  <1>. QED
    BY <1>2, <1>3, EndSessions

\* With an error for the other end.
LEMMA ErrorSessions ==
    ASSUME IInv, IInv', Sessions, Roles', NEW p \in Procs,
           \/ SendList(p) /\ ~Walkable(p)
           \/ SendFile(p) /\ final[Place(p)][Wanted(p)] = NoFile
    PROVE  Sessions'
  <1>. DEFINE e == Message("error", {})
              j == job[p]
              w == wire[Out(p)]
              out == After(p, <<e>>)
  <1>1. /\ j.pc = "walk" \/ (j.pc = "send" /\ ~AtEnd(p) /\ j.list[j.i] \notin j.have)
        /\ Rest(p, "failed") /\ Closing(p, <<e>>) /\ faults' = faults
    BY DEF SendList, SendFile, At, Wanted, counts
  <1>2. j.pc \in Busy /\ Sends(j)
    BY <1>1 DEF Busy, Working, Sends, SendSteps
  <1>3. w \in Seq(Messages) /\ j \in JobType /\ In(p) # Out(p)
    BY <1>2, WireFacts
  <1>4. /\ e \in Messages /\ e.kind = "error" /\ <<e>> \in Seq(Messages) /\ <<e>> # <<>> /\ <<e>>[1] = e
        /\ Len(<<e>>) = 1
    BY DEF Message, Messages
  <1>. HIDE DEF e
  <1>5. /\ Out(p) \in ends => out = w \o <<e>>
        /\ Out(p) \notin ends => out = w
        /\ <<>> \o <<e>> = <<e>>
    BY <1>4 DEF After
  <1>6. Asks(out) => Asks(w) /\ out[1] = w[1]
    <2>1. Asks(w \o <<e>>) => Asks(w) /\ (w \o <<e>>)[1] = w[1]
      BY <1>3, <1>4, AfterAsks
    <2>. HIDE DEF out
    <2>2. out = w \o <<e>> \/ out = w
      BY <1>5
    <2>. QED
      BY <2>1, <2>2
  <1>7. ASSUME NEW q \in Procs, Linked(p, q) PROVE Awaits(job[q], out)
    <2>1. Awaits(job[q], w) /\ (Out(p) \in ends => Agree(j, job[q], wire[In(p)], w))
      BY <1>2, <1>7, OtherEnd
    <2>2. CASE Out(p) \notin ends
      BY <2>1, <2>2, <1>5
    <2>3. CASE Out(p) \in ends /\ j.pc = "walk"
      <3>1. \/ job[q].pc = "list" /\ w = <<>>
            \/ job[q].pc = "status" /\ w = <<Message("status", TRUE)>>
        BY <2>1, <2>3 DEF Agree
      <3>2. CASE job[q].pc = "list" /\ w = <<>>
        <4>1. out = <<e>>
          BY <3>2, <2>3, <1>5
        <4>2. Fresh(<<e>>, 1)
          BY <1>4 DEF Fresh
        <4>. QED
          BY <3>2, <4>1, <4>2 DEF Awaits, AtWanted, Receiving
      <3>3. CASE job[q].pc = "status" /\ w = <<Message("status", TRUE)>>
        <4>1. out = <<Message("status", TRUE), e>> /\ Message("status", TRUE).kind = "status"
          BY <3>3, <2>3, <1>5, TwoMessages DEF Message
        <4>2. Fresh(out, 2)
          BY <4>1, <1>4, TwoMessages
        <4>3. job[q].op # "push"
          <5>1. ~Sends(job[q])
            BY <1>2, <1>7, OneSends
          <5>. QED
            BY <5>1, <3>3 DEF Sends
        <4>. QED
          BY <3>3, <4>2, <4>3 DEF Awaits, AtWanted, Receiving
      <3>. QED
        BY <3>1, <3>2, <3>3
    <2>4. CASE Out(p) \in ends /\ j.pc = "send"
      <3>1. job[q].list = j.list /\ job[q].have = j.have /\ UpTo(job[q], w, j.i)
        BY <2>1, <2>4 DEF Agree
      <3>2. j.i \in DOMAIN j.list /\ j.list[j.i] \notin j.have
        BY <1>1, <2>4, WantedFacts DEF Working
      <3>3. Carries(job[q], out)
        BY <3>1, <3>2, <2>4, <1>3, <1>4, <1>5, ErrorPlaced, TypeParts
      <3>4. job[q].pc \in Receiving /\ AtWanted(job[q])
        BY <2>1, <3>1 DEF UpTo, Awaits
      <3>. QED
        BY <3>3, <3>4 DEF Awaits, Receiving
    <2>. QED
      BY <2>2, <2>3, <2>4, <1>1
  <1>8. /\ job' = [job EXCEPT ![p] = Resting(p)]
        /\ result' = IF p \in Clients THEN [result EXCEPT ![p] = "failed"] ELSE result
        /\ ends' = ends \ {In(p)} /\ wire' = [wire EXCEPT ![In(p)] = <<>>, ![Out(p)] = out]
    BY <1>1 DEF Rest, Become, Closing
  <1>9. p \in Clients => ~Pending(p)
    BY <1>1, NotPending
  <1>. HIDE DEF out
  <1>. QED
    BY <1>1, <1>2, <1>6, <1>7, <1>8, <1>9, EndSessions

\* push is done when all that the list holds is sent.
LEMMA SendDoneSessions ==
    ASSUME IInv, IInv', Sessions, Roles', NEW p \in Procs, SendDone(p)
    PROVE  Sessions'
  <1>. DEFINE j == job[p]
              w == wire[Out(p)]
  <1>1. j.pc = "send" /\ AtEnd(p) /\ Rest(p, "ok") /\ Close(p) /\ faults' = faults
    BY DEF SendDone, At, counts
  <1>2. j.pc \in Busy /\ Sends(j)
    BY <1>1 DEF Busy, Working, Sends, SendSteps
  <1>3. ASSUME faults = 0, NEW r \in Repos, Linked(p, r)
        PROVE  UpTo(job[r], w, Len(job[r].list) + 1)
    <2>1. r \in Procs
      BY DEF Procs
    <2>2. Out(p) \in ends
      BY <1>2, <1>3, <2>1, OtherEnd DEF Sessions, Unbroken
    <2>3. job[r].list = j.list /\ UpTo(job[r], w, j.i)
      BY <1>1, <1>2, <1>3, <2>1, <2>2, OtherEnd DEF Agree
    <2>4. /\ j.i \in Nat /\ j.i >= Len(j.list) + 1 /\ Len(j.list) \in Nat
          /\ \A k \in DOMAIN j.list : k \in Nat /\ k < Len(j.list) + 1
      BY <1>1, TypeParts DEF JobType, AtEnd
    <2>5. ASSUME NEW m, Level(job[r], m, j.i) PROVE Level(job[r], m, Len(j.list) + 1)
      BY <2>3, <2>4, <2>5 DEF Level
    <2>. QED
      BY <2>3, <2>5 DEF UpTo
  <1>4. p \in Clients => ~Pending(p)
    BY <1>1, NotPending
  <1>. QED
    BY <1>1, <1>2, <1>3, <1>4, CloseSessions DEF Rest, Become

LEMMA SendFailsSessions ==
    ASSUME IInv, IInv', Sessions, Roles', NEW p \in Procs, SendFails(p)
    PROVE  Sessions'
  <1>1. job[p].pc \in {"walk", "check", "send"} /\ Rest(p, "failed") /\ Reset(p) /\ faults' = faults
    BY DEF SendFails, Sending, At, counts
  <1>2. job[p].pc \in Busy
    BY <1>1 DEF Busy, Working
  <1>3. p \in Clients => ~Pending(p)
    BY <1>1, NotPending
  <1>. QED
    BY <1>1, <1>2, <1>3, ResetSessions DEF Rest, Become

LEMMA RecvErrorSessions ==
    ASSUME IInv, IInv', Sessions, Roles', NEW p \in Procs, RecvError(p)
    PROVE  Sessions'
  <1>1. job[p].pc \in {"list", "recv"} /\ Rest(p, "failed") /\ Close(p) /\ faults' = faults
    BY DEF RecvError, counts
  <1>2. job[p].pc \in Busy
    BY <1>1 DEF Busy, Working, Receiving
  <1>3. p \in Clients => ~Pending(p)
    BY <1>1, NotPending
  <1>. QED
    BY <1>1, <1>2, <1>3, CloseSessions DEF Rest, Become

LEMMA RefusedSessions ==
    ASSUME IInv, IInv', Sessions, Roles', NEW c \in Clients, Status(c), ~Received(c)
    PROVE  Sessions'
  <1>1. /\ c \in Procs /\ job[c].pc = "status" /\ wire[In(c)] # <<>>
        /\ Rest(c, "failed") /\ Close(c) /\ faults' = faults
    BY DEF Status, At, Procs, Arrived, counts
  <1>2. job[c].pc \in Busy /\ In(c) = <<c, "client">>
    BY <1>1, PcKinds, TwoEnds
  <1>3. ~Pending(c)
    BY <1>1, <1>2, NotPending
  <1>. QED
    BY <1>1, <1>2, <1>3, CloseSessions DEF Rest, Become

LEMMA AbandonSessions ==
    ASSUME SoleReceiver, IInv, IInv', Sessions, Roles', NEW p \in Procs, job[p].pc \in Receiving,
           Abandon(p), faults' = 0 => faults = 0
    PROVE  Sessions'
  <1>1. job[p].pc \in Busy /\ job[p].pc \in RecvSteps /\ job[p].pc \notin {"status", "idle"} /\ Roles
    BY PcKinds DEF Receiving, Sessions
  <1>2. job' = [job EXCEPT ![p] = Resting(p)]
    BY <1>1, Alone DEF Abandon
  <1>3. p \in Clients => ~Pending(p)
    BY <1>1, NotPending
  <1>. QED
    BY <1>1, <1>2, <1>3, ResetSessions DEF Abandon

LEMMA RecvFailsSessions ==
    ASSUME SoleReceiver, IInv, IInv', Sessions, Roles', NEW p \in Procs, RecvFails(p)
    PROVE  Sessions'
  <1>1. /\ job[p].pc \in {"status", "flags", "list", "data", "recv"} /\ faults' = faults
        /\ Out(p) \notin ends
    BY DEF RecvFails, At, Hangup, counts
  <1>2. job[p].pc \in Busy
    BY <1>1 DEF Busy, Working, Receiving
  <1>3. CASE job[p].pc = "data"
    BY <1>1, <1>3, AbandonSessions DEF RecvFails, At, Receiving
  <1>4. CASE job[p].pc # "data"
    <2>1. Rest(p, "failed") /\ Reset(p)
      BY <1>4 DEF RecvFails, At
    <2>2. ASSUME p \in Clients, Pending(p) PROVE faults' # 0
      <3>1. Out(p) = <<p, "server">> /\ Waits(p)
        BY <2>2, <1>2, TwoEnds DEF Sessions, Requests
      <3>. QED
        BY <3>1, <1>1 DEF Waits
    <2>. QED
      BY <1>1, <1>2, <2>1, <2>2, ResetSessions DEF Rest, Become
  <1>. QED
    BY <1>3, <1>4

LEMMA DiskFullSessions ==
    ASSUME SoleReceiver, IInv, IInv', Sessions, Roles', NEW p \in Procs, DiskFull(p)
    PROVE  Sessions'
  <1>1. job[p].pc \in {"data", "refWrite"} /\ faults' # 0
    BY CountsType DEF DiskFull, At, Fault
  <1>2. job[p].pc \in Busy /\ job[p].pc \in Receiving
    BY <1>1 DEF Busy, Working, Receiving
  <1>3. CASE Abandon(p)
    BY <1>1, <1>2, <1>3, AbandonSessions
  <1>4. CASE ~Abandon(p)
    <2>1. Rest(p, "failed") /\ Reset(p)
      BY <1>4 DEF DiskFull
    <2>. QED
      BY <1>1, <1>2, <2>1, ResetSessions DEF Rest, Become
  <1>. QED
    BY <1>3, <1>4

LEMMA RefRenameSessions ==
    ASSUME SoleReceiver, IInv, IInv', Sessions, Roles', NEW p \in Procs, RefRename(p)
    PROVE  Sessions'
  <1>1. job[p].pc = "refRename" /\ faults' = faults
    BY DEF RefRename, At, counts
  <1>2. /\ job[p].pc \in Busy /\ job[p].pc \in Receiving /\ job[p].pc \in RecvSteps
        /\ job[p].pc \notin SendSteps /\ Roles
    BY <1>1, PcKinds DEF Receiving, SendSteps, Sessions
  <1>3. CASE Abandon(p)
    BY <1>1, <1>2, <1>3, AbandonSessions
  <1>4. CASE ~Abandon(p)
    <2>1. /\ job' = [Moved(p, "final") EXCEPT ![p] = Resting(p)] /\ Close(p)
          /\ result' = IF p \in Clients THEN [result EXCEPT ![p] = "ok"] ELSE result
      BY <1>4 DEF RefRename
    <2>2. job' = [job EXCEPT ![p] = Resting(p)]
      BY <1>2, <2>1, Alone
    <2>3. p \in Clients => ~Pending(p)
      BY <1>1, NotPending
    <2>4. ASSUME NEW r \in Repos, Linked(p, r), job[r].op = "push" PROVE FALSE
      <3>1. p \in Clients /\ job[p].op = "push"
        BY <2>4, OneSends DEF Procs
      <3>2. PlaysRole(p, job[p])
        BY <1>2 DEF Roles
      <3>. QED
        BY <3>1, <3>2, <1>2 DEF PlaysRole
    <2>. QED
      BY <1>1, <1>2, <2>1, <2>2, <2>3, <2>4, CloseSessions
  <1>. QED
    BY <1>3, <1>4

\* A server that dies.
LEMMA DownSessions ==
    ASSUME IInv, IInv', Sessions, Roles', NEW r \in Repos, job[r].pc \in Busy, Down(r),
           result' = result, faults' = 0 => faults = 0
    PROVE  Sessions'
  <1>. DEFINE gone == {In(r)} \cup {<<c, "server">> : c \in {d \in Clients : Request(r, d)}}
  <1>1. PICK n \in 0..Len(wire[Out(r)]) :
           wire' = [e \in Ends |-> IF e \in gone THEN <<>>
                                   ELSE IF e = Out(r) THEN SubSeq(wire[e], 1, n)
                                   ELSE wire[e]]
    BY DEF Down
  <1>2. ends' = ends \ gone /\ job' = [job EXCEPT ![r] = Job("down", "none", r, NoFile)]
    BY DEF Down, Become
  <1>3. r \in Procs /\ r \notin Clients
    BY ProcsAssumption DEF Procs
  <1>4. /\ wire \in [Ends -> Seq(Messages)] /\ In(r) \in Ends /\ Out(r) \in Ends /\ In(r) # Out(r)
        /\ job \in [Procs -> JobType] /\ wire[Out(r)] \in Seq(Messages)
        /\ Out(r) = <<job[r].peer, "client">>
    BY <1>3, WireFacts, TwoEnds
  <1>5. In(r) \in gone /\ Out(r) \notin gone
    <2>1. \A c : <<c, "server">> # <<job[r].peer, "client">>
      OBVIOUS
    <2>. QED
      BY <2>1, <1>4
  <1>6. \A e \in gone : e = In(r) \/ \E d \in Clients : Pending(d) /\ e = <<d, "server">>
    <2>1. ASSUME NEW d \in Clients, Request(r, d) PROVE Pending(d)
      <3>1. wire[<<d, "server">>] \in Seq(Messages) /\ wire[<<d, "server">>] # <<>>
        BY <2>1, <1>4 DEF Ends, Request
      <3>2. Head(wire[<<d, "server">>]) = wire[<<d, "server">>][1]
        BY <3>1, TailFacts
      <3>. QED
        BY <3>1, <3>2, <2>1 DEF Request, Pending, Asks
    <2>. QED
      BY <2>1
  <1>. DEFINE out == SubSeq(wire[Out(r)], 1, n)
  <1>. HIDE DEF gone
  <1>7. /\ wire'[In(r)] = <<>> /\ wire'[Out(r)] = out
        /\ \A e \in Ends : e # In(r) /\ e # Out(r)
                               => wire'[e] = IF e \in gone THEN <<>> ELSE wire[e]
    BY <1>1, <1>4, <1>5
  <1>8. Asks(out) => Asks(wire[Out(r)]) /\ out[1] = wire[Out(r)][1]
    BY <1>4, CutAsks
  <1>9. ASSUME NEW q \in Procs, Linked(r, q) PROVE Awaits(job[q], out)
    <2>1. Awaits(job[q], wire[Out(r)])
      BY <1>3, <1>9, OtherEnd
    <2>. QED
      BY <2>1, <1>4, CutAwaits, TypeParts
  <1>. HIDE DEF out
  <1>10. job'[r].pc = "down" /\ \A q \in Procs : q # r => job'[q] = job[q]
    BY <1>2, <1>3, <1>4 DEF Job
  <1>11. \A s \in Repos : ~Linked(r, s)
    <2>1. \A s \in Repos : s \in Procs /\ s \notin Clients
      BY ProcsAssumption DEF Procs
    <2>. QED
      BY <2>1, <1>3, OneSends
  <1>. QED
    BY <1>2, <1>3, <1>5, <1>6, <1>7, <1>8, <1>9, <1>10, <1>11, PcKinds, LeaveSessions

LEMMA KillSessions ==
    ASSUME IInv, IInv', Sessions, Roles', NEW p \in Procs, Kill(p)
    PROVE  Sessions'
  <1>1. job[p].pc \notin {"idle", "accept", "down"} /\ faults' # 0
    BY CountsType DEF Kill, Fault
  <1>2. job[p].pc \in Busy
    BY <1>1, TypeParts DEF JobType, Steps, Busy, Working, Receiving
  <1>3. CASE p \in Clients
    <2>1. Rest(p, "failed") /\ Reset(p)
      BY <1>3 DEF Kill
    <2>. QED
      BY <1>1, <1>2, <2>1, ResetSessions DEF Rest, Become
  <1>4. CASE p \notin Clients
    BY <1>1, <1>2, <1>4, DownSessions DEF Kill, Procs
  <1>. QED
    BY <1>3, <1>4

LEMMA BrokenPipeSessions ==
    ASSUME IInv, IInv', Sessions, Roles', NEW r \in Repos, BrokenPipe(r)
    PROVE  Sessions'
  <1>1. job[r].pc \in {"walk", "check", "send"} /\ Down(r) /\ result' = result /\ faults' = faults
    BY DEF BrokenPipe, Sending, At, counts
  <1>2. job[r].pc \in Busy
    BY <1>1 DEF Busy, Working
  <1>. QED
    BY <1>1, <1>2, DownSessions

-----------------------------------------------------------------------------
(* Steps at the start of a connection, and faults of the network.          *)

LEMMA SameSessions ==
    ASSUME Sessions, UNCHANGED <<job, wire, ends, result, faults>>
    PROVE  Sessions'
  <1>1. \A p : In(p)' = In(p) /\ Out(p)' = Out(p)
    BY DEF In, Out
  <1>2. Roles' /\ OneServer' /\ Unbroken' /\ Idlers'
    BY <1>1 DEF Sessions, Roles, OneServer, Unbroken, Idlers
  <1>3. Streams' /\ Deliveries'
    BY <1>1 DEF Sessions, Streams, Deliveries, Delivered
  <1>4. \A p, q : Linked(p, q)' <=> Linked(p, q)
    BY <1>1 DEF Linked
  <1>5. Pairs'
    BY <1>1, <1>4 DEF Sessions, Pairs
  <1>6. Requests'
    BY DEF Sessions, Requests, Pending, Waits
  <1>. QED
    BY <1>2, <1>3, <1>5, <1>6 DEF Sessions

\* The ends of a client's connection are its own or those of its server.
LEMMA WhoseEnd ==
    ASSUME IInv, Sessions, NEW c \in Clients, NEW q \in Procs, job[q].pc \in Busy,
           In(q) \in {<<c, "client">>, <<c, "server">>}
    PROVE  q = c \/ (q \in Repos /\ job[q].peer = c)
  <1>1. /\ q \in Clients => In(q) = <<q, "client">>
        /\ q \notin Clients => q \in Repos /\ In(q) = <<job[q].peer, "server">>
    BY TwoEnds
  <1>. QED
    BY <1>1

\* What a step does not touch of the others: its connection is its own.
LEMMA OthersSessions ==
    ASSUME IInv, Sessions, NEW c \in Clients,
           \A e \in Ends : e \notin {<<c, "client">>, <<c, "server">>} =>
              wire'[e] = wire[e] /\ (e \in ends' <=> e \in ends),
           NEW q \in Procs, job[q].pc \in Busy, q # c, q \in Repos => job[q].peer # c
    PROVE  wire'[In(q)] = wire[In(q)] /\ (In(q) \in ends' <=> In(q) \in ends)
  <1>1. In(q) \in Ends /\ In(q) \notin {<<c, "client">>, <<c, "server">>}
    BY WhoseEnd, TwoEnds
  <1>. QED
    BY <1>1

LEMMA ServeSessions ==
    ASSUME IInv, IInv', Sessions, Roles', NEW r \in Repos, Serve(r)
    PROVE  Sessions'
  <1>1. /\ job[r].pc = "down" /\ job' = [job EXCEPT ![r] = Resting(r)]
        /\ UNCHANGED <<wire, ends, result, faults>> /\ r \in Procs /\ r \notin Clients
        /\ job \in [Procs -> JobType] /\ Clients \subseteq Procs /\ Repos \subseteq Procs
    BY TypeParts, ProcsAssumption DEF Serve, At, Become, Procs, counts
  <1>2. /\ job'[r].pc = "accept" /\ job'[r].peer = r /\ job[r].peer = r
        /\ job'[r].pc \notin Busy /\ job[r].pc \notin Busy
    <2>1. Resting(r).pc = "accept" /\ Resting(r).peer = r
      BY <1>1 DEF Resting, Job
    <2>2. PlaysRole(r, job[r])
      BY <1>1 DEF Sessions, Roles
    <2>. QED
      BY <1>1, <2>1, <2>2, PcKinds DEF PlaysRole
  <1>3. /\ \A q \in Procs : q # r => job'[q] = job[q]
        /\ \A q \in Procs : /\ job'[q].peer = job[q].peer
                            /\ job'[q].pc \in Busy => q # r
                            /\ job'[q].pc \in Busy <=> job[q].pc \in Busy
                            /\ In(q)' = In(q) /\ Out(q)' = Out(q)
    BY <1>1, <1>2 DEF In, Out
  <1>4. OneServer' /\ Unbroken'
    BY <1>1, <1>3 DEF Sessions, OneServer, Unbroken
  <1>5. Streams'
    BY <1>1, <1>3 DEF Sessions, Streams
  <1>6. Deliveries'
    <2>. SUFFICES ASSUME faults' = 0, NEW s \in Repos, Delivered(s) PROVE Delivered(s)'
      BY <1>1 DEF Sessions, Deliveries
    <2>1. job'[s].pc \in Busy => job'[s] = job[s] /\ In(s)' = In(s)
      BY <1>1, <1>3
    <2>. QED
      BY <2>1, <1>1 DEF Delivered
  <1>7. Pairs'
    <2>. SUFFICES ASSUME NEW a \in Procs, NEW b \in Procs, Linked(a, b)'
                  PROVE  /\ job'[a].op = job'[b].op /\ job'[a].br = job'[b].br
                         /\ In(a)' \in ends' <=> In(b)' \in ends'
                         /\ In(b)' \in ends' /\ Sends(job'[a])
                               => Agree(job'[a], job'[b], wire'[In(a)'], wire'[In(b)'])
      BY DEF Pairs
    <2>1. Linked(a, b) /\ job'[a] = job[a] /\ job'[b] = job[b]
      BY <1>3 DEF Linked
    <2>. QED
      BY <2>1, <1>1, <1>3 DEF Sessions, Pairs
  <1>8. Requests'
    <2>. SUFFICES ASSUME NEW c \in Clients, Pending(c)' PROVE Waits(c)'
      BY DEF Requests
    <2>1. Waits(c) /\ c # r
      BY <1>1 DEF Sessions, Requests, Pending
    <2>. QED
      BY <2>1, <1>1, <1>3 DEF Waits
  <1>9. Idlers'
    BY <1>1, <1>3 DEF Sessions, Idlers
  <1>. QED
    BY <1>4, <1>5, <1>6, <1>7, <1>8, <1>9 DEF Sessions

LEMMA CutSessions ==
    ASSUME IInv, IInv', Sessions, Roles', NEW c \in Clients, Cut(c)
    PROVE  Sessions'
  <1>. DEFINE ce == <<c, "client">>
              se == <<c, "server">>
  <1>1. PICK m \in 0..Len(wire[ce]), n \in 0..Len(wire[se]) :
          wire' = [wire EXCEPT ![ce] = SubSeq(@, 1, m), ![se] = SubSeq(@, 1, n)]
    BY DEF Cut
  <1>2. /\ faults' # 0 /\ ends' = ends \ {ce, se} /\ job' = job /\ result' = result
    BY CountsType DEF Cut, Fault
  <1>3. wire \in [Ends -> Seq(Messages)] /\ ce \in Ends /\ se \in Ends /\ ce # se
    BY TypeParts DEF WireType, Ends
  <1>4. /\ wire'[ce] = SubSeq(wire[ce], 1, m) /\ wire'[se] = SubSeq(wire[se], 1, n)
        /\ \A e \in Ends : e \notin {ce, se} => wire'[e] = wire[e] /\ (e \in ends' <=> e \in ends)
        /\ wire[ce] \in Seq(Messages) /\ wire[se] \in Seq(Messages)
    <2>1. wire' = [wire EXCEPT ![ce] = SubSeq(wire[ce], 1, m), ![se] = SubSeq(wire[se], 1, n)]
      BY <1>1, <1>3
    <2>. HIDE DEF ce, se
    <2>. QED
      BY <2>1, <1>2, <1>3
  <1>. HIDE DEF ce, se
  <1>5. \A q : In(q)' = In(q) /\ Out(q)' = Out(q)
    BY <1>2 DEF In, Out
  <1>6. OneServer'
    BY <1>2 DEF Sessions, OneServer
  <1>7. Streams'
    <2>. SUFFICES ASSUME NEW q \in Procs, job[q].pc \in Busy PROVE Awaits(job[q], wire'[In(q)])
      BY <1>2, <1>5 DEF Streams
    <2>1. Awaits(job[q], wire[In(q)]) /\ In(q) \in Ends /\ job[q] \in JobType
      BY WireFacts
    <2>2. CASE In(q) = ce
      BY <2>1, <2>2, <1>4, CutAwaits
    <2>3. CASE In(q) = se
      BY <2>1, <2>3, <1>4, CutAwaits
    <2>4. CASE In(q) \notin {ce, se}
      BY <2>1, <2>4, <1>4
    <2>. QED
      BY <2>2, <2>3, <2>4
  <1>8. Pairs'
    <2>. SUFFICES ASSUME NEW a \in Procs, NEW b \in Procs, Linked(a, b)
                  PROVE  /\ job[a].op = job[b].op /\ job[a].br = job[b].br
                         /\ In(a) \in ends' <=> In(b) \in ends'
                         /\ In(b) \in ends' /\ Sends(job[a])
                               => Agree(job[a], job[b], wire'[In(a)], wire'[In(b)])
      BY <1>2, <1>5 DEF Pairs, Linked
    <2>1. /\ job[a].op = job[b].op /\ job[a].br = job[b].br
          /\ In(a) \in ends <=> In(b) \in ends
          /\ In(b) \in ends /\ Sends(job[a]) => Agree(job[a], job[b], wire[In(a)], wire[In(b)])
      BY DEF Sessions, Pairs
    <2>2. In(a) \in {ce, se} <=> In(b) \in {ce, se}
      <3>1. /\ a \in Clients => In(a) = <<a, "client">>
            /\ b \in Clients => In(b) = <<b, "client">>
            /\ a \in Repos => In(a) = <<job[a].peer, "server">>
            /\ b \in Repos => In(b) = <<job[b].peer, "server">>
        BY TwoEnds, ProcsAssumption DEF Linked
      <3>2. \/ a \in Clients /\ b \in Repos /\ job[b].peer = a
            \/ b \in Clients /\ a \in Repos /\ job[a].peer = b
        BY OneSends DEF Procs
      <3>. QED
        BY <3>1, <3>2 DEF ce, se
    <2>3. In(a) \in Ends /\ In(b) \in Ends
      BY WireFacts DEF Linked
    <2>4. CASE In(a) \in {ce, se}
      BY <2>1, <2>2, <2>4, <1>2
    <2>5. CASE In(a) \notin {ce, se}
      BY <2>1, <2>2, <2>3, <2>5, <1>4
    <2>. QED
      BY <2>4, <2>5
  <1>9. Requests'
    <2>. SUFFICES ASSUME NEW d \in Clients, Pending(d)' PROVE Waits(d)'
      BY DEF Requests
    <2>. DEFINE dc == <<d, "client">>
                ds == <<d, "server">>
    <2>1. Asks(wire'[ds]) /\ ds \in Ends /\ dc \in Ends
      BY DEF Pending, Ends
    <2>2. CASE d # c
      <3>1. dc \notin {ce, se} /\ ds \notin {ce, se}
        BY <2>2 DEF ce, se
      <3>2. /\ wire'[ds] = wire[ds] /\ wire'[dc] = wire[dc]
            /\ ds \in ends' <=> ds \in ends
            /\ dc \in ends' <=> dc \in ends
        BY <3>1, <2>1, <1>4
      <3>3. Waits(d)
        BY <2>1, <3>2 DEF Sessions, Requests, Pending
      <3>. QED
        BY <3>2, <3>3, <1>2 DEF Waits
    <2>3. CASE d = c
      <3>1. ds = se /\ dc = ce
        BY <2>3 DEF ce, se
      <3>2. Asks(wire[ds]) /\ wire'[ds][1] = wire[ds][1]
        <4>1. Asks(SubSeq(wire[se], 1, n)) => Asks(wire[se]) /\ SubSeq(wire[se], 1, n)[1] = wire[se][1]
          BY <1>4, CutAsks
        <4>2. Asks(SubSeq(wire[se], 1, n)) /\ wire'[ds] = SubSeq(wire[se], 1, n) /\ wire[ds] = wire[se]
          BY <2>1, <3>1, <1>4
        <4>. QED
          BY <4>1, <4>2
      <3>3. Waits(d)
        BY <3>2 DEF Sessions, Requests, Pending
      <3>4. wire'[dc] = <<>>
        <4>1. wire[ce] = <<>>
          BY <3>1, <3>3 DEF Waits
        <4>2. SubSeq(<<>>, 1, 0) = <<>> /\ Len(<<>>) = 0
          OBVIOUS
        <4>3. m = 0
          BY <4>1
        <4>4. wire'[ce] = SubSeq(<<>>, 1, 0)
          BY <4>1, <4>3, <1>4
        <4>. QED
          BY <4>2, <4>4, <3>1
      <3>5. ds \notin ends' /\ dc \notin ends'
        BY <3>1, <1>2
      <3>. QED
        BY <3>2, <3>3, <3>4, <3>5, <1>2 DEF Waits
    <2>. QED
      BY <2>2, <2>3
  <1>10. Idlers'
    BY <1>2 DEF Sessions, Idlers
  <1>11. Unbroken' /\ Deliveries'
    BY <1>2 DEF Unbroken, Deliveries
  <1>. QED
    BY <1>6, <1>7, <1>8, <1>9, <1>10, <1>11 DEF Sessions

-----------------------------------------------------------------------------
(* A new connection.                                                       *)

LEMMA StartSessions ==
    ASSUME IInv, IInv', Sessions, Roles', NEW c \in Clients, Start(c)
    PROVE  Sessions'
  <1>. DEFINE ce == <<c, "client">>
              se == <<c, "server">>
  <1>1. PICK command \in Commands :
           /\ command.from = c
           /\ IF At(command.to, "down")
              THEN /\ result' = [result EXCEPT ![c] = "failed"]
                   /\ UNCHANGED <<job, wire, ends>>
              ELSE /\ Become(c, Job("status", command.op, c, command.br))
                   /\ ends' = ends \cup {ce, se}
                   /\ wire' = [wire EXCEPT ![ce] = <<>>, ![se] = <<Message("request", command)>>]
                   /\ result' = [result EXCEPT ![c] = "none"]
    BY DEF Start
  <1>2. /\ job[c].pc = "idle" /\ faults' = faults /\ \A r \in Repos : job[r].peer # c
        /\ c \in Procs /\ Clients \subseteq Procs /\ Repos \subseteq Procs
    BY DEF Start, At, Procs
  <1>3. /\ result \in [Clients -> {"none", "ok", "failed"}] /\ job \in [Procs -> JobType]
        /\ wire \in [Ends -> Seq(Messages)] /\ ce \in Ends /\ se \in Ends /\ ce # se
    BY TypeParts DEF ResultType, WireType, Ends
  <1>4. \A d \in Clients : d # c => result'[d] = result[d]
    BY <1>1, <1>3
  <1>5. Clients \cap Repos = {}
    BY ProcsAssumption
  <1>6. job[c].pc \notin Busy
    BY <1>2, PcKinds
  <1>7. CASE At(command.to, "down")
    <2>1. result'[c] = "failed" /\ UNCHANGED <<job, wire, ends>>
      BY <1>1, <1>3, <1>7
    <2>2. \A p : In(p)' = In(p) /\ Out(p)' = Out(p)
      BY <2>1 DEF In, Out
    <2>3. OneServer' /\ Unbroken'
      BY <2>1, <2>2, <1>2 DEF Sessions, OneServer, Unbroken
    <2>4. Streams'
      BY <2>1, <2>2 DEF Sessions, Streams
    <2>5. Idlers'
      BY <2>1, <1>2, <1>4 DEF Sessions, Idlers
    <2>6. Pairs'
      <3>1. \A p, q : Linked(p, q)' <=> Linked(p, q)
        BY <2>1, <2>2 DEF Linked
      <3>. QED
        BY <2>1, <2>2, <3>1 DEF Sessions, Pairs
    <2>7. Requests'
      <3>. SUFFICES ASSUME NEW d \in Clients, Pending(d)' PROVE Waits(d)'
        BY DEF Requests
      <3>1. Waits(d)
        BY <2>1 DEF Sessions, Requests, Pending
      <3>2. result'[d] # "ok"
        BY <2>1, <1>4, <3>1 DEF Waits
      <3>. QED
        BY <2>1, <3>1, <3>2, <1>2 DEF Waits
    <2>8. Deliveries'
      <3>. SUFFICES ASSUME faults' = 0, NEW r \in Repos, Delivered(r) PROVE Delivered(r)'
        BY <1>2 DEF Sessions, Deliveries
      <3>1. job[r].pc \in Busy => job[r].peer \in Clients
        BY <1>2, TypeParts DEF Fits
      <3>2. job[r].pc \in Busy => result'[job[r].peer] = result[job[r].peer]
        BY <3>1, <1>2, <1>4
      <3>. QED
        BY <2>1, <2>2, <3>2 DEF Delivered
    <2>. QED
      BY <2>3, <2>4, <2>5, <2>6, <2>7, <2>8 DEF Sessions
  <1>8. CASE ~At(command.to, "down")
    <2>. DEFINE new == Job("status", command.op, c, command.br)
    <2>1. /\ job' = [job EXCEPT ![c] = new] /\ ends' = ends \cup {ce, se} /\ result'[c] = "none"
          /\ wire' = [wire EXCEPT ![ce] = <<>>, ![se] = <<Message("request", command)>>]
      BY <1>1, <1>3, <1>8 DEF Become
    <2>2. /\ wire'[ce] = <<>> /\ wire'[se] = <<Message("request", command)>>
          /\ \A e \in Ends : e \notin {ce, se} => wire'[e] = wire[e] /\ (e \in ends' <=> e \in ends)
          /\ ce \in ends' /\ se \in ends'
      <3>. HIDE DEF ce, se
      <3>. QED
        BY <2>1, <1>3
    <2>3. /\ new.pc = "status" /\ new.op = command.op /\ new.peer = c /\ new.br = command.br
      BY DEF Job
    <2>4. job'[c] = new /\ \A q \in Procs : q # c => job'[q] = job[q]
      BY <2>1, <1>2, <1>3
    <2>. HIDE DEF new
    <2>5. /\ In(c)' = ce /\ Out(c)' = se
          /\ \A q \in Procs : q # c => In(q)' = In(q) /\ Out(q)' = Out(q)
          /\ \A r \in Repos : r # c
      BY <2>3, <2>4, <1>5 DEF In, Out
    <2>6. ASSUME NEW q \in Procs, job[q].pc \in Busy
          PROVE  q # c /\ wire'[In(q)] = wire[In(q)] /\ (In(q) \in ends' <=> In(q) \in ends)
      BY <2>2, <2>6, <1>2, <1>6, OthersSessions
    <2>7. OneServer'
      BY <2>4, <2>5, <1>2 DEF Sessions, OneServer
    <2>8. Streams'
      <3>1. Awaits(new, <<>>)
        <4>1. Len(<<>>) = 0
          OBVIOUS
        <4>. QED
          BY <4>1, <2>3 DEF Awaits, Fresh, AtWanted, Receiving
      <3>2. ASSUME NEW q \in Procs, job'[q].pc \in Busy PROVE Awaits(job'[q], wire'[In(q)'])
        <4>1. CASE q = c
          BY <4>1, <3>1, <2>2, <2>4, <2>5
        <4>2. CASE q # c
          BY <4>2, <3>2, <2>4, <2>5, <2>6 DEF Sessions, Streams
        <4>. QED
          BY <4>1, <4>2
      <3>. QED
        BY <3>2 DEF Streams
    <2>9. Pairs'
      <3>. SUFFICES ASSUME NEW a \in Procs, NEW b \in Procs, Linked(a, b)'
                    PROVE  /\ job'[a].op = job'[b].op /\ job'[a].br = job'[b].br
                           /\ In(a)' \in ends' <=> In(b)' \in ends'
                           /\ In(b)' \in ends' /\ Sends(job'[a])
                                 => Agree(job'[a], job'[b], wire'[In(a)'], wire'[In(b)'])
        BY DEF Pairs
      <3>1. a # c /\ b # c
        <4>1. CASE a = c
          <5>1. In(b)' = <<c, "server">>
            BY <4>1, <2>5 DEF Linked
          <5>2. b # c
            BY <5>1, <2>5
          <5>3. In(b) = <<c, "server">>
            BY <5>1, <5>2, <2>5
          <5>4. b \in Repos /\ job[b].peer = c
            BY <5>3 DEF In, Procs
          <5>. QED
            BY <5>4, <1>2
        <4>2. CASE b = c
          <5>1. Out(a)' = <<c, "client">>
            BY <4>2, <2>5 DEF Linked
          <5>2. a # c
            BY <5>1, <2>5
          <5>3. Out(a) = <<c, "client">>
            BY <5>1, <5>2, <2>5
          <5>4. a \in Repos /\ job[a].peer = c
            BY <5>3 DEF Out, Procs
          <5>. QED
            BY <5>4, <1>2
        <4>. QED
          BY <4>1, <4>2
      <3>2. Linked(a, b) /\ job'[a] = job[a] /\ job'[b] = job[b] /\ In(a)' = In(a) /\ In(b)' = In(b)
        BY <3>1, <2>4, <2>5 DEF Linked
      <3>3. /\ wire'[In(a)] = wire[In(a)] /\ wire'[In(b)] = wire[In(b)]
            /\ In(a) \in ends' <=> In(a) \in ends
            /\ In(b) \in ends' <=> In(b) \in ends
        BY <3>2, <2>6 DEF Linked
      <3>. QED
        BY <3>2, <3>3 DEF Sessions, Pairs
    <2>10. Requests'
      <3>. SUFFICES ASSUME NEW d \in Clients, Pending(d)' PROVE Waits(d)'
        BY DEF Requests
      <3>0. \A r \in Repos : job'[r] = job[r]
        BY <2>4, <2>5, <1>2
      <3>1. CASE d = c
        <4>1. wire'[se][1].of = command
          BY <2>2 DEF Message
        <4>. QED
          BY <3>0, <3>1, <4>1, <2>1, <2>2, <2>3, <2>4, <1>2 DEF Waits
      <3>2. CASE d # c
        <4>1. <<d, "client">> \in Ends \ {ce, se} /\ <<d, "server">> \in Ends \ {ce, se}
          BY <3>2 DEF Ends
        <4>2. /\ wire'[<<d, "client">>] = wire[<<d, "client">>]
              /\ wire'[<<d, "server">>] = wire[<<d, "server">>]
              /\ <<d, "client">> \in ends' <=> <<d, "client">> \in ends
              /\ <<d, "server">> \in ends' <=> <<d, "server">> \in ends
          BY <4>1, <2>2
        <4>3. Waits(d)
          BY <4>2 DEF Sessions, Requests, Pending
        <4>4. job'[d] = job[d] /\ result'[d] = result[d]
          BY <3>2, <2>4, <1>2, <1>4
        <4>. QED
          BY <3>0, <4>2, <4>3, <4>4, <1>2 DEF Waits
      <3>. QED
        BY <3>1, <3>2
    <2>11. Idlers'
      <3>. SUFFICES ASSUME NEW d \in Clients
                    PROVE  IF job'[d].pc = "idle" THEN <<d, "client">> \notin ends' ELSE result'[d] # "ok"
        BY DEF Idlers
      <3>1. CASE d = c
        BY <3>1, <2>1, <2>3, <2>4
      <3>2. CASE d # c
        <4>1. <<d, "client">> \in Ends \ {ce, se}
          BY <3>2 DEF Ends
        <4>. QED
          BY <4>1, <3>2, <2>2, <2>4, <1>2, <1>4 DEF Sessions, Idlers
      <3>. QED
        BY <3>1, <3>2
    <2>12. Unbroken'
      <3>. SUFFICES ASSUME faults = 0, NEW q \in Procs, job'[q].pc \in Busy PROVE In(q)' \in ends'
        BY <1>2 DEF Unbroken
      <3>1. CASE q = c
        BY <3>1, <2>2, <2>5
      <3>2. CASE q # c
        BY <3>2, <2>4, <2>5, <2>6 DEF Sessions, Unbroken
      <3>. QED
        BY <3>1, <3>2
    <2>13. Deliveries'
      <3>. SUFFICES ASSUME faults' = 0, NEW r \in Repos, Delivered(r) PROVE Delivered(r)'
        BY <1>2 DEF Sessions, Deliveries
      <3>1. job'[r] = job[r] /\ In(r)' = In(r) /\ r \in Procs
        BY <2>4, <2>5, <1>2
      <3>2. job[r].pc \in Busy => /\ wire'[In(r)] = wire[In(r)]
                                  /\ result'[job[r].peer] = result[job[r].peer]
        <4>1. job[r].pc \in Busy => job[r].peer \in Clients
          BY <1>2, TypeParts DEF Fits
        <4>. QED
          BY <4>1, <3>1, <2>6, <1>2, <1>4
      <3>. QED
        BY <3>1, <3>2 DEF Delivered
    <2>. QED
      BY <2>7, <2>8, <2>9, <2>10, <2>11, <2>12, <2>13 DEF Sessions
  <1>. QED
    BY <1>7, <1>8

LEMMA AcceptSessions ==
    ASSUME IInv, IInv', Sessions, Roles', NEW r \in Repos, Accept(r)
    PROVE  Sessions'
  <1>1. PICK c \in Clients :
          /\ Request(r, c)
          /\ LET command == Head(wire[<<c, "server">>]).of
                 reply == Message("status", Accepts(r, command))
             IN  /\ wire' = [wire EXCEPT ![<<c, "server">>] = <<>>,
                               ![<<c, "client">>] =
                                   IF <<c, "client">> \in ends THEN Append(@, reply) ELSE @]
                 /\ IF Accepts(r, command)
                    THEN /\ Become(r, Job(IF command.op = "push" THEN "list" ELSE "walk",
                                       command.op, c, command.br))
                         /\ ends' = ends
                    ELSE /\ job' = job
                         /\ ends' = ends \ {<<c, "server">>}
    BY DEF Accept
  <1>. DEFINE ce == <<c, "client">>
              se == <<c, "server">>
              command == Head(wire[se]).of
              reply == Message("status", Accepts(r, command))
              answer == IF ce \in ends THEN <<reply>> ELSE <<>>
  <1>2. /\ wire \in [Ends -> Seq(Messages)] /\ job \in [Procs -> JobType] /\ ce \in Ends /\ se \in Ends
        /\ ce # se /\ wire[se] \in Seq(Messages) /\ wire[ce] \in Seq(Messages)
    <2>1. wire \in [Ends -> Seq(Messages)] /\ job \in [Procs -> JobType] /\ ce \in Ends /\ se \in Ends
      BY TypeParts DEF WireType, Ends
    <2>. QED
      BY <2>1
  <1>3. /\ r \in Procs /\ c \in Procs /\ r # c /\ r \notin Clients /\ c \notin Repos
        /\ Clients \subseteq Procs /\ Repos \subseteq Procs
        /\ job[r].pc = "accept" /\ result' = result /\ faults' = faults
    BY ProcsAssumption DEF Accept, At, Procs, counts
  <1>4. wire[se] # <<>> /\ Head(wire[se]).kind = "request" /\ Head(wire[se]) = wire[se][1]
    BY <1>1, <1>2, TailFacts DEF Request
  <1>5. Waits(c)
    BY <1>4 DEF Sessions, Requests, Pending, Asks
  <1>6. /\ \A s \in Repos : job[s].peer # c
        /\ job[c].pc \in {"status", "idle"} /\ wire[ce] = <<>> /\ result[c] # "ok"
        /\ job[c].pc = "status" => command.op = job[c].op /\ command.br = job[c].br
                                   /\ (ce \in ends <=> se \in ends)
        /\ faults = 0 => job[c].pc = "status" /\ se \in ends
    BY <1>4, <1>5 DEF Waits
  <1>7. /\ wire'[se] = <<>> /\ wire'[ce] = answer
        /\ \A e \in Ends : e \notin {ce, se} => wire'[e] = wire[e]
    <2>1. Append(<<>>, reply) = <<reply>>
      OBVIOUS
    <2>2. wire' = [wire EXCEPT ![se] = <<>>, ![ce] = IF ce \in ends THEN Append(wire[ce], reply) ELSE wire[ce]]
      BY <1>1, <1>2
    <2>3. wire'[se] = <<>> /\ wire'[ce] = (IF ce \in ends THEN Append(wire[ce], reply) ELSE wire[ce])
          /\ \A e \in Ends : e \notin {ce, se} => wire'[e] = wire[e]
      <3>. HIDE DEF ce, se, reply
      <3>. QED
        BY <2>2, <1>2
    <2>. QED
      BY <2>1, <2>3, <1>6
  <1>8. /\ Len(answer) \in 0..1 /\ \A k \in 1..Len(answer) : k = 1 /\ answer[k].kind = "status"
        /\ reply.kind = "status" /\ ~Asks(<<>>) /\ Len(<<>>) = 0
    <2>1. reply.kind = "status" /\ ~Asks(<<>>) /\ Len(<<>>) = 0
      BY DEF Message, Asks
    <2>2. Len(<<reply>>) = 1 /\ <<reply>>[1] = reply
      OBVIOUS
    <2>. HIDE DEF reply
    <2>. QED
      BY <2>1, <2>2
  <1>9. command \in Commands /\ command.op \in {"push", "pull"}
    <2>1. Head(wire[se]) \in Messages
      BY <1>2, <1>4, TailFacts
    <2>2. command \in Commands
      BY <2>1, <1>4 DEF Messages
    <2>. QED
      BY <2>2, CommandsAssumption
  <1>. HIDE DEF answer, reply, command
  <1>10. job[c].pc = "status" => Awaits(job[c], answer)
    BY <1>8 DEF Awaits, Fresh, AtWanted, Receiving
  <1>11. ASSUME NEW q \in Procs, job[q].pc \in Busy, q # c
         PROVE  wire'[In(q)] = wire[In(q)] /\ In(q) \notin {ce, se} /\ In(q) \in Ends /\ q # r
    <2>1. In(q) \notin {ce, se} /\ In(q) \in Ends
      BY <1>6, <1>11, WhoseEnd, TwoEnds
    <2>2. q # r
      BY <1>3, <1>11, PcKinds
    <2>. QED
      BY <2>1, <2>2, <1>7
  <1>12. CASE Accepts(r, command)
    <2>. DEFINE new == Job(IF command.op = "push" THEN "list" ELSE "walk", command.op, c, command.br)
    <2>1. job' = [job EXCEPT ![r] = new] /\ ends' = ends
      BY <1>1, <1>12 DEF command, Become
    <2>2. /\ new.pc = (IF command.op = "push" THEN "list" ELSE "walk")
          /\ new.op = command.op /\ new.peer = c /\ new.br = command.br
      BY DEF Job
    <2>3. job'[r] = new /\ \A q \in Procs : q # r => job'[q] = job[q]
      BY <2>1, <1>2, <1>3
    <2>. HIDE DEF new
    <2>4. /\ In(r)' = se /\ Out(r)' = ce
          /\ \A q \in Procs : q # r => In(q)' = In(q) /\ Out(q)' = Out(q)
          /\ \A d \in Clients : d # r
      BY <2>2, <2>3, <1>3 DEF In, Out
    <2>5. OneServer'
      BY <2>2, <2>3, <1>3, <1>6 DEF Sessions, OneServer
    <2>6. Streams'
      <3>1. Awaits(new, <<>>)
        BY <1>8, <2>2 DEF Awaits, Fresh, AtWanted, Receiving
      <3>. SUFFICES ASSUME NEW q \in Procs, job'[q].pc \in Busy PROVE Awaits(job'[q], wire'[In(q)'])
        BY DEF Streams
      <3>2. CASE q = r
        BY <3>1, <3>2, <2>3, <2>4, <1>7
      <3>3. CASE q = c
        <4>1. job'[q] = job[c] /\ In(q)' = ce /\ job[c].pc = "status"
          <5>1. job'[q] = job[c]
            BY <3>3, <2>3, <1>3
          <5>2. In(c) = ce
            BY <5>1, <1>6, <1>3, PcKinds, TwoEnds
          <5>. QED
            BY <5>1, <5>2, <3>3, <2>4, <1>3, <1>6, PcKinds
        <4>. QED
          BY <4>1, <1>7, <1>10
      <3>4. CASE q # r /\ q # c
        BY <3>4, <2>3, <2>4, <1>11 DEF Sessions, Streams
      <3>. QED
        BY <3>2, <3>3, <3>4
    <2>7. Pairs'
      <3>. SUFFICES ASSUME NEW a \in Procs, NEW b \in Procs, Linked(a, b)'
                    PROVE  /\ job'[a].op = job'[b].op /\ job'[a].br = job'[b].br
                           /\ In(a)' \in ends' <=> In(b)' \in ends'
                           /\ In(b)' \in ends' /\ Sends(job'[a])
                                 => Agree(job'[a], job'[b], wire'[In(a)'], wire'[In(b)'])
        BY DEF Pairs
      <3>0. job'[a].pc \in Busy /\ job'[b].pc \in Busy /\ In(b)' = Out(a)'
        BY DEF Linked
      <3>1. CASE a = r
        <4>1. In(b)' = <<c, "client">>
          BY <3>0, <3>1, <2>4
        <4>2. b # r
          BY <4>1, <2>4
        <4>3. In(b) = <<c, "client">>
          BY <4>1, <4>2, <2>4
        <4>4. b \in Clients /\ job[b].pc \in Busy
          BY <3>0, <4>2, <4>3, <2>3 DEF In
        <4>5. b = c
          BY <4>3, <4>4, TwoEnds
        <4>6. job'[b] = job[c] /\ In(b)' = ce /\ job[c].pc = "status"
          BY <4>1, <4>2, <4>4, <4>5, <2>3, <1>6, PcKinds
        <4>7. Sends(new) /\ ce \in ends => Agree(new, job[c], <<>>, answer)
          <5>. SUFFICES ASSUME Sends(new), ce \in ends PROVE Agree(new, job[c], <<>>, answer)
            OBVIOUS
          <5>1. command.op = "pull" /\ new.pc = "walk"
            BY <2>2, <1>9, PcKinds DEF Sends, SendSteps
          <5>2. answer = <<Message("status", TRUE)>>
            BY <1>12 DEF answer, reply
          <5>. QED
            BY <5>1, <5>2, <4>6 DEF Agree
        <4>. QED
          BY <3>1, <4>6, <4>7, <2>1, <2>2, <2>3, <2>4, <1>6, <1>7
      <3>2. CASE b = r
        <4>1. Out(a)' = <<c, "server">>
          BY <3>0, <3>2, <2>4
        <4>2. a # r
          BY <4>1, <2>4
        <4>3. Out(a) = <<c, "server">>
          BY <4>1, <4>2, <2>4
        <4>4. a \in Clients /\ job[a].pc \in Busy
          BY <3>0, <4>2, <4>3, <2>3 DEF Out
        <4>5. a = c /\ In(a) = ce
          BY <4>3, <4>4, TwoEnds
        <4>6. job'[a] = job[c] /\ In(a)' = ce /\ job[c].pc = "status"
          BY <4>2, <4>4, <4>5, <2>3, <2>4, <1>6, PcKinds
        <4>7. Sends(job[c]) => Agree(job[c], new, answer, <<>>)
          <5>. SUFFICES ASSUME Sends(job[c]) PROVE Agree(job[c], new, answer, <<>>)
            OBVIOUS
          <5>1. new.pc = "list"
            BY <4>6, <2>2, <1>6, PcKinds DEF Sends, SendSteps
          <5>. QED
            BY <5>1, <4>6 DEF Agree
        <4>. QED
          BY <3>2, <4>6, <4>7, <2>1, <2>2, <2>3, <2>4, <1>6, <1>7
      <3>3. CASE a # r /\ b # r
        <4>1. Linked(a, b) /\ job'[a] = job[a] /\ job'[b] = job[b] /\ In(a)' = In(a) /\ In(b)' = In(b)
          BY <3>0, <3>3, <2>3, <2>4 DEF Linked
        <4>2. a # c /\ b # c
          BY <4>1, <1>3, <1>6, OneSends
        <4>3. wire'[In(a)] = wire[In(a)] /\ wire'[In(b)] = wire[In(b)]
          BY <4>1, <4>2, <1>11 DEF Linked
        <4>. QED
          BY <4>1, <4>3, <2>1 DEF Sessions, Pairs
      <3>. QED
        BY <3>1, <3>2, <3>3
    <2>8. Requests'
      <3>. SUFFICES ASSUME NEW d \in Clients, Pending(d)' PROVE Waits(d)'
        BY DEF Requests
      <3>1. Asks(wire'[<<d, "server">>])
        BY DEF Pending
      <3>2. d # c
        BY <3>1, <1>7, <1>8
      <3>3. <<d, "client">> \in Ends \ {ce, se} /\ <<d, "server">> \in Ends \ {ce, se}
        BY <3>2 DEF Ends
      <3>4. wire'[<<d, "client">>] = wire[<<d, "client">>] /\ wire'[<<d, "server">>] = wire[<<d, "server">>]
        BY <3>3, <1>7
      <3>5. Waits(d)
        BY <3>1, <3>4 DEF Sessions, Requests, Pending
      <3>6. job'[d] = job[d] /\ \A s \in Repos : job'[s].peer # d
        BY <3>2, <3>5, <2>2, <2>3, <2>4, <1>3 DEF Waits
      <3>. QED
        BY <3>4, <3>5, <3>6, <2>1, <1>3 DEF Waits
    <2>9. Idlers'
      <3>1. \A d \in Clients : job'[d] = job[d]
        BY <2>3, <2>4, <1>3
      <3>. QED
        BY <3>1, <2>1, <1>3 DEF Sessions, Idlers
    <2>10. Unbroken'
      <3>. SUFFICES ASSUME faults = 0, NEW q \in Procs, job'[q].pc \in Busy PROVE In(q)' \in ends'
        BY <1>3 DEF Unbroken
      <3>1. CASE q = r
        BY <3>1, <2>1, <2>4, <1>6
      <3>2. CASE q # r
        BY <3>2, <2>1, <2>3, <2>4 DEF Sessions, Unbroken
      <3>. QED
        BY <3>1, <3>2
    <2>11. Deliveries'
      <3>. SUFFICES ASSUME faults' = 0, NEW s \in Repos, Delivered(s) PROVE Delivered(s)'
        BY <1>3 DEF Sessions, Deliveries
      <3>1. CASE s = r
        BY <3>1, <2>2, <2>3, <1>3, <1>6 DEF Delivered
      <3>2. CASE s # r
        <4>1. job'[s] = job[s] /\ In(s)' = In(s) /\ s \in Procs /\ s # c
          BY <3>2, <2>3, <2>4, <1>3
        <4>2. job[s].pc \in Busy => wire'[In(s)] = wire[In(s)]
          BY <4>1, <1>11
        <4>. QED
          BY <4>1, <4>2, <1>3 DEF Delivered
      <3>. QED
        BY <3>1, <3>2
    <2>. QED
      BY <2>5, <2>6, <2>7, <2>8, <2>9, <2>10, <2>11 DEF Sessions
  <1>13. CASE ~Accepts(r, command)
    <2>1. job' = job /\ ends' = ends \ {se}
      BY <1>1, <1>13 DEF command
    <2>2. \A q : In(q)' = In(q) /\ Out(q)' = Out(q)
      BY <2>1 DEF In, Out
    <2>3. OneServer'
      BY <2>1 DEF Sessions, OneServer
    <2>4. job[c].pc \in Busy => In(c) = ce /\ job[c].pc = "status"
      BY <1>3, <1>6, TwoEnds, PcKinds
    <2>5. Streams'
      <3>. SUFFICES ASSUME NEW q \in Procs, job[q].pc \in Busy PROVE Awaits(job[q], wire'[In(q)])
        BY <2>1, <2>2 DEF Streams
      <3>1. CASE q = c
        BY <3>1, <2>4, <1>7, <1>10
      <3>2. CASE q # c
        BY <3>2, <1>11 DEF Sessions, Streams
      <3>. QED
        BY <3>1, <3>2
    <2>6. Pairs'
      <3>. SUFFICES ASSUME NEW a \in Procs, NEW b \in Procs, Linked(a, b)
                    PROVE  /\ job[a].op = job[b].op /\ job[a].br = job[b].br
                           /\ In(a) \in ends' <=> In(b) \in ends'
                           /\ In(b) \in ends' /\ Sends(job[a])
                                 => Agree(job[a], job[b], wire'[In(a)], wire'[In(b)])
        BY <2>1, <2>2 DEF Pairs, Linked
      <3>1. a # c /\ b # c
        BY <1>3, <1>6, OneSends
      <3>2. /\ wire'[In(a)] = wire[In(a)] /\ wire'[In(b)] = wire[In(b)]
            /\ In(a) \in ends' <=> In(a) \in ends
            /\ In(b) \in ends' <=> In(b) \in ends
        BY <3>1, <2>1, <1>11 DEF Linked
      <3>. QED
        BY <3>2 DEF Sessions, Pairs
    <2>7. Requests'
      <3>. SUFFICES ASSUME NEW d \in Clients, Pending(d)' PROVE Waits(d)'
        BY DEF Requests
      <3>1. Asks(wire'[<<d, "server">>])
        BY DEF Pending
      <3>2. d # c
        BY <3>1, <1>7, <1>8
      <3>3. <<d, "client">> \in Ends \ {ce, se} /\ <<d, "server">> \in Ends \ {ce, se}
        BY <3>2 DEF Ends
      <3>4. /\ wire'[<<d, "client">>] = wire[<<d, "client">>]
            /\ wire'[<<d, "server">>] = wire[<<d, "server">>]
            /\ <<d, "client">> \in ends' <=> <<d, "client">> \in ends
            /\ <<d, "server">> \in ends' <=> <<d, "server">> \in ends
        BY <3>3, <2>1, <1>7
      <3>5. Waits(d)
        BY <3>1, <3>4 DEF Sessions, Requests, Pending
      <3>. QED
        BY <3>4, <3>5, <2>1, <1>3 DEF Waits
    <2>8. Idlers'
      BY <2>1, <1>3 DEF Sessions, Idlers
    <2>9. Unbroken'
      <3>. SUFFICES ASSUME faults = 0, NEW q \in Procs, job[q].pc \in Busy PROVE In(q) \in ends'
        BY <2>1, <2>2, <1>3 DEF Unbroken
      <3>1. In(q) # se
        <4>1. CASE q = c
          BY <4>1, <2>4, <1>2
        <4>2. CASE q # c
          BY <4>2, <1>11
        <4>. QED
          BY <4>1, <4>2
      <3>. QED
        BY <3>1, <2>1 DEF Sessions, Unbroken
    <2>10. Deliveries'
      <3>. SUFFICES ASSUME faults' = 0, NEW s \in Repos, Delivered(s) PROVE Delivered(s)'
        BY <1>3 DEF Sessions, Deliveries
      <3>1. job[s].pc \in Busy => wire'[In(s)] = wire[In(s)]
        BY <1>3, <1>11
      <3>. QED
        BY <3>1, <2>1, <2>2, <1>3 DEF Delivered
    <2>. QED
      BY <2>3, <2>5, <2>6, <2>7, <2>8, <2>9, <2>10 DEF Sessions
  <1>. QED
    BY <1>12, <1>13

-----------------------------------------------------------------------------
(* What a receiver's files hold.                                           *)

\* The temporary file a receiver is at work on is its own, and holds what the
\* place in the list or the ref asks for once it is written; what a receiver
\* has not taken for present is not, unless someone commits there.
Holds(p) ==
    /\ job[p].pc \in {"data", "refWrite"} => job[p].at = "part"
    /\ job[p].pc = "rename" => part[Place(p)][Wanted(p)] = Wanted(p)
    /\ job[p].pc = "refRename" => part[Place(p)][job[p].br] = job[p].list[Len(job[p].list)]
Unseen(p) == ~CommittedTo(Place(p)) =>
    /\ job[p].pc = "check" => \A k \in DOMAIN job[p].list :
          k < job[p].i /\ job[p].list[k] \in Present(Place(p)) => job[p].list[k] \in job[p].have
    /\ job[p].pc \in Receiving => \A k \in DOMAIN job[p].list :
          k >= job[p].i /\ job[p].list[k] \notin job[p].have => job[p].list[k] \notin Present(Place(p))

Own(p) == Whole(Place(p)) /\ Holds(p) /\ Unseen(p)
FilesInv == \A p \in Procs : Own(p)

LEMMA OwnWhole == FilesInv => FilesWhole
  <1>1. \A r \in Repos : r \in Procs /\ Place(r) = r
    BY ProcsAssumption DEF Procs, Place
  <1>. QED
    BY <1>1 DEF FilesInv, Own, FilesWhole

\* Files that stay, of a process that goes on or is not at work on them.
LEMMA StayOwn ==
    ASSUME NEW p, Own(p), final'[Place(p)] = final[Place(p)], part'[Place(p)] = part[Place(p)],
           job'[p] = job[p] \/ job'[p].pc \notin Receiving \cup {"check"}
    PROVE  Own(p)'
  <1>1. Place(p)' = Place(p) /\ Present(Place(p))' = Present(Place(p))
    BY DEF Place, Present
  <1>2. Whole(Place(p))'
    BY <1>1 DEF Own, Whole
  <1>3. CASE job'[p] = job[p]
    <2>1. Wanted(p)' = Wanted(p)
      BY <1>3 DEF Wanted
    <2>. QED
      BY <1>1, <1>2, <1>3, <2>1 DEF Own, Holds, Unseen
  <1>4. CASE job'[p].pc \notin Receiving \cup {"check"}
    BY <1>2, <1>4 DEF Own, Holds, Unseen, Receiving
  <1>. QED
    BY <1>3, <1>4

\* A step of one process: only it changes files of the place it receives in.
LEMMA OneOwn ==
    ASSUME SoleReceiver, IInv, Roles, FilesInv, NEW p \in Procs, Own(p)',
           \A q \in Procs : q # p => job'[q] = job[q],
           job[p].pc \in RecvSteps \/ UNCHANGED files,
           \A r \in Repos : r # Place(p) => final'[r] = final[r] /\ part'[r] = part[r]
    PROVE  FilesInv'
  <1>. SUFFICES ASSUME NEW q \in Procs, q # p PROVE Own(q)'
    BY DEF FilesInv
  <1>1. Own(q) /\ job'[q] = job[q] /\ Place(q)' = Place(q) /\ Place(q) \in Repos
    BY PlaceType DEF FilesInv, Place
  <1>2. CASE final'[Place(q)] = final[Place(q)] /\ part'[Place(q)] = part[Place(q)]
    BY <1>1, <1>2, StayOwn
  <1>3. CASE ~(final'[Place(q)] = final[Place(q)] /\ part'[Place(q)] = part[Place(q)])
    <2>1. Place(q) = Place(p) /\ job[p].pc \in RecvSteps
      BY <1>1, <1>3 DEF files
    <2>2. job[q].pc \notin RecvSteps
      BY <2>1, Alone
    <2>3. Whole(Place(q))'
      <3>1. Whole(Place(p))' /\ Place(p)' = Place(p)
        BY DEF Own, Place
      <3>. QED
        BY <2>1, <3>1, <1>1 DEF Whole
    <2>. QED
      BY <1>1, <2>2, <2>3 DEF Own, Holds, Unseen, RecvSteps, Receiving
  <1>. QED
    BY <1>2, <1>3

\* The steps that leave all files alone.
LEMMA QuietOwn ==
    ASSUME SoleReceiver, IInv, Roles, FilesInv, UNCHANGED files, NEW p \in Procs,
           job' = job \/ \E new : /\ job' = [job EXCEPT ![p] = new]
                                  /\ new.pc \notin Receiving \cup {"check"}
    PROVE  FilesInv'
  <1>1. final' = final /\ part' = part /\ job \in [Procs -> JobType]
    BY TypeParts DEF files
  <1>2. Own(p)'
    BY <1>1, StayOwn DEF FilesInv
  <1>3. \A q \in Procs : q # p => job'[q] = job[q]
    BY <1>1
  <1>. QED
    BY <1>1, <1>2, <1>3, OneOwn

LEMMA RestOwn ==
    ASSUME SoleReceiver, IInv, Roles, FilesInv, UNCHANGED files, NEW p \in Procs,
           job' = [job EXCEPT ![p] = Resting(p)]
    PROVE  FilesInv'
  <1>1. Resting(p).pc \in {"idle", "accept"}
    BY DEF Resting, Job
  <1>2. Resting(p).pc \notin Receiving \cup {"check"}
    BY <1>1 DEF Receiving
  <1>. QED
    BY <1>2, QuietOwn

LEMMA AbandonOwn ==
    ASSUME SoleReceiver, IInv, Roles, FilesInv, NEW p \in Procs, Abandon(p), job[p].pc \in RecvSteps
    PROVE  FilesInv'
  <1>1. /\ part' = [part EXCEPT ![Place(p)][Path(p)] = NoFile] /\ final' = final
        /\ job' = [Moved(p, "lost") EXCEPT ![p] = Resting(p)]
    BY DEF Abandon
  <1>2. job' = [job EXCEPT ![p] = Resting(p)] /\ job \in [Procs -> JobType]
    BY <1>1, Alone, TypeParts
  <1>3. Resting(p).pc \in {"idle", "accept"}
    BY DEF Resting, Job
  <1>4. Resting(p).pc \notin Receiving \cup {"check"}
    BY <1>3 DEF Receiving
  <1>5. Own(p)'
    <2>1. Place(p)' = Place(p) /\ job'[p] = Resting(p) /\ Own(p)
      BY <1>2 DEF Place, FilesInv
    <2>2. Whole(Place(p))'
      BY <1>1, <2>1 DEF Own, Whole, Present
    <2>. QED
      BY <1>4, <2>1, <2>2 DEF Own, Holds, Unseen, Receiving
  <1>6. \A r \in Repos : r # Place(p) => final'[r] = final[r] /\ part'[r] = part[r]
    BY <1>1 DEF IInv, TypeOK
  <1>. QED
    BY <1>2, <1>5, <1>6, OneOwn

\* A receiver that makes its way through the list.
LEMMA GoOnOwn ==
    ASSUME SoleReceiver, IInv, Roles, FilesInv, UNCHANGED files, NEW p \in Procs,
           NEW new, job' = [job EXCEPT ![p] = new], new.pc \in {"check", "recv"},
           ~CommittedTo(Place(p)) =>
              /\ new.pc = "check" => \A k \in DOMAIN new.list :
                    k < new.i /\ new.list[k] \in Present(Place(p)) => new.list[k] \in new.have
              /\ new.pc = "recv" => \A k \in DOMAIN new.list :
                    k >= new.i /\ new.list[k] \notin new.have => new.list[k] \notin Present(Place(p))
    PROVE  FilesInv'
  <1>1. final' = final /\ part' = part /\ job \in [Procs -> JobType]
    BY TypeParts DEF files
  <1>2. job'[p] = new /\ \A q \in Procs : q # p => job'[q] = job[q]
    BY <1>1
  <1>3. Place(p)' = Place(p) /\ Present(Place(p))' = Present(Place(p)) /\ Whole(Place(p))
    BY <1>1 DEF Place, Present, FilesInv, Own
  <1>4. Whole(Place(p))'
    BY <1>1, <1>3 DEF Whole
  <1>5. Holds(p)'
    BY <1>2 DEF Holds
  <1>6. Unseen(p)'
    BY <1>2, <1>3 DEF Unseen, Receiving
  <1>7. Own(p)'
    BY <1>4, <1>5, <1>6 DEF Own
  <1>. QED
    BY <1>1, <1>2, <1>7, OneOwn

LEMMA RecvListOwn ==
    ASSUME SoleReceiver, IInv, Roles, FilesInv, NEW p \in Procs, RecvList(p)
    PROVE  FilesInv'
  <1>. DEFINE new == [job[p] EXCEPT !.pc = "check", !.list = Received(p), !.i = 1]
  <1>1. job' = [job EXCEPT ![p] = new] /\ UNCHANGED files /\ WireType /\ In(p) \in Ends /\ job[p] \in JobType
    BY TypeParts DEF RecvList, Become, At, Busy
  <1>2. Received(p) \in Items(Listing)
    BY <1>1, ReceivedType DEF RecvList
  <1>3. \A k \in DOMAIN Received(p) : ~(k < 1)
    BY <1>2, ListingFacts
  <1>4. new.pc = "check" /\ new.list = Received(p) /\ new.i = 1
    BY <1>1 DEF JobType
  <1>. HIDE DEF new
  <1>. QED
    BY <1>1, <1>3, <1>4, GoOnOwn

LEMMA CheckOwn ==
    ASSUME SoleReceiver, IInv, Roles, FilesInv, NEW p \in Procs, Check(p)
    PROVE  FilesInv'
  <1>. DEFINE have == IF HasHash(p) THEN job[p].have \cup {Wanted(p)} ELSE job[p].have
              new == [job[p] EXCEPT !.i = @ + 1, !.have = have]
  <1>1. /\ UNCHANGED files /\ job[p].pc = "check" /\ job[p] \in JobType
        /\ job' = [job EXCEPT ![p] = new]
    BY TypeParts DEF Check, Become, At
  <1>2. /\ new.pc = "check" /\ new.list = job[p].list /\ new.i = job[p].i + 1 /\ new.have = have
        /\ job[p].i \in Nat /\ job[p].list \in Seq(ObjectIds)
    BY <1>1 DEF JobType
  <1>. HIDE DEF new
  <1>3. ASSUME ~CommittedTo(Place(p)), NEW k \in DOMAIN new.list, k < new.i,
               new.list[k] \in Present(Place(p))
        PROVE  new.list[k] \in have
    <2>1. CASE k < job[p].i
      BY <2>1, <1>1, <1>2, <1>3 DEF FilesInv, Own, Unseen
    <2>2. CASE k = job[p].i
      <3>1. new.list[k] = Wanted(p) /\ HasHash(p)
        BY <2>2, <1>2, <1>3 DEF Wanted, HasHash, Present
      <3>. QED
        BY <3>1
    <2>. QED
      BY <2>1, <2>2, <1>2, <1>3
  <1>. HIDE DEF have
  <1>. QED
    BY <1>1, <1>2, <1>3, GoOnOwn

LEMMA SendFlagsOwn ==
    ASSUME SoleReceiver, IInv, Roles, FilesInv, NEW p \in Procs, SendFlags(p)
    PROVE  FilesInv'
  <1>. DEFINE new == [job[p] EXCEPT !.pc = "recv", !.i = 1]
  <1>1. /\ UNCHANGED files /\ job[p].pc = "check" /\ job[p] \in JobType /\ AtEnd(p)
        /\ job' = [job EXCEPT ![p] = new]
    BY TypeParts DEF SendFlags, Become, At
  <1>2. /\ new.pc = "recv" /\ new.list = job[p].list /\ new.have = job[p].have
        /\ job[p].i \in Nat /\ job[p].list \in Seq(ObjectIds)
    BY <1>1 DEF JobType
  <1>. HIDE DEF new
  <1>3. \A k \in DOMAIN new.list : k < job[p].i
    BY <1>1, <1>2 DEF AtEnd
  <1>4. ~CommittedTo(Place(p)) => \A k \in DOMAIN new.list :
           new.list[k] \notin new.have => new.list[k] \notin Present(Place(p))
    BY <1>1, <1>2, <1>3 DEF FilesInv, Own, Unseen
  <1>. QED
    BY <1>1, <1>2, <1>4, GoOnOwn

LEMMA SkipOwn ==
    ASSUME SoleReceiver, IInv, Roles, FilesInv, NEW p \in Procs, Skip(p)
    PROVE  FilesInv'
  <1>. DEFINE new == [job[p] EXCEPT !.i = @ + 1]
  <1>1. /\ UNCHANGED files /\ job[p].pc \in {"send", "recv"} /\ job[p] \in JobType
        /\ job' = [job EXCEPT ![p] = new]
    BY TypeParts DEF Skip, Become
  <1>2. /\ new.pc = job[p].pc /\ new.list = job[p].list /\ new.have = job[p].have
        /\ new.i = job[p].i + 1 /\ job[p].i \in Nat /\ job[p].list \in Seq(ObjectIds)
    BY <1>1 DEF JobType
  <1>. HIDE DEF new
  <1>3. CASE job[p].pc = "send"
    BY <1>1, <1>2, <1>3, QuietOwn DEF Receiving
  <1>4. CASE job[p].pc = "recv"
    <2>1. ASSUME ~CommittedTo(Place(p)), NEW k \in DOMAIN new.list, k >= new.i,
                 new.list[k] \notin new.have
          PROVE  new.list[k] \notin Present(Place(p))
      <3>1. k >= job[p].i
        BY <1>2, <2>1
      <3>. QED
        BY <1>2, <1>4, <2>1, <3>1 DEF FilesInv, Own, Unseen, Receiving
    <2>. QED
      BY <1>1, <1>2, <1>4, <2>1, GoOnOwn
  <1>. QED
    BY <1>1, <1>3, <1>4

\* A receiver that writes to its temporary file.
LEMMA PartOwn ==
    ASSUME SoleReceiver, IInv, Roles, FilesInv, NEW p \in Procs, job[p].pc \in Receiving,
           Path(p) \in Paths, NEW u \in Contents,
           part' = [part EXCEPT ![Place(p)][Path(p)] = u], final' = final,
           NEW new, job' = [job EXCEPT ![p] = new], new.pc \in Receiving,
           new.list = job[p].list, new.have = job[p].have, new.i = job[p].i, new.br = job[p].br,
           new.pc \in {"data", "refWrite"} => new.at = "part",
           new.pc = "rename" => Path(p) = Wanted(p) /\ u = Wanted(p),
           new.pc = "refRename" => Path(p) = job[p].br /\ u = job[p].list[Len(job[p].list)]
    PROVE  FilesInv'
  <1>1. part \in [Repos -> [Paths -> Contents]] /\ Place(p) \in Repos /\ job \in [Procs -> JobType]
    BY PlaceType DEF IInv, TypeOK
  <1>2. \A r \in Repos, x \in Paths : part'[r][x] = IF r = Place(p) /\ x = Path(p) THEN u ELSE part[r][x]
    BY <1>1, EntryType
  <1>3. \A r \in Repos : r # Place(p) => final'[r] = final[r] /\ part'[r] = part[r]
    BY <1>1
  <1>4. job'[p] = new /\ \A q \in Procs : q # p => job'[q] = job[q]
    BY <1>1
  <1>5. Place(p)' = Place(p) /\ Present(Place(p))' = Present(Place(p)) /\ Own(p)
    BY DEF Place, Present, FilesInv
  <1>6. Whole(Place(p))'
    BY <1>5 DEF Own, Whole
  <1>7. Holds(p)'
    <2>1. part'[Place(p)][Path(p)] = u
      BY <1>1, <1>2
    <2>2. Wanted(p)' = Wanted(p)
      BY <1>4 DEF Wanted
    <2>. QED
      BY <1>4, <1>5, <2>1, <2>2 DEF Holds
  <1>8. Unseen(p)'
    BY <1>4, <1>5 DEF Own, Unseen, Receiving
  <1>9. Own(p)'
    BY <1>6, <1>7, <1>8 DEF Own
  <1>. QED
    BY <1>3, <1>4, <1>9, OneOwn DEF RecvSteps

LEMMA OpenOwn ==
    ASSUME SoleReceiver, IInv, Roles, FilesInv, NEW p \in Procs, RecvSize(p) \/ RefOpen(p)
    PROVE  FilesInv'
  <1>. DEFINE pc == IF RecvSize(p) THEN "data" ELSE "refWrite"
              new == [job[p] EXCEPT !.pc = pc, !.at = "part"]
  <1>1. /\ job[p].pc = "recv" /\ final' = final /\ Open(p, pc) /\ job[p] \in JobType
        /\ RecvSize(p) <=> ~AtEnd(p)
    BY TypeParts DEF RecvSize, RefOpen, At
  <1>2. part' = [part EXCEPT ![Place(p)][Path(p)] = Empty] /\ job' = [job EXCEPT ![p] = new]
    BY <1>1 DEF Open, Become
  <1>3. pc \in {"data", "refWrite"}
    OBVIOUS
  <1>. HIDE DEF pc
  <1>4. /\ new.pc = pc /\ new.list = job[p].list /\ new.have = job[p].have /\ new.i = job[p].i
        /\ new.br = job[p].br /\ new.at = "part"
    BY <1>1 DEF JobType
  <1>5. Path(p) \in Paths
    BY <1>1, PathFacts DEF Paths
  <1>6. Empty \in Contents /\ job[p].pc \in Receiving /\ new.pc \in Receiving
    BY <1>1, <1>3, <1>4 DEF Contents, Receiving
  <1>. HIDE DEF new
  <1>. QED
    BY <1>1, <1>2, <1>3, <1>4, <1>5, <1>6, PartOwn

\* The bytes that arrive are those of the object the receiver is at.
LEMMA ReceivedIsWanted ==
    ASSUME IInv, Sessions, NEW p \in Procs, job[p].pc = "data", Arrived(p, "data")
    PROVE  Received(p) = Wanted(p)
  <1>. DEFINE j == job[p]
              w == wire[In(p)]
  <1>1. j \in JobType /\ w \in Seq(Messages) /\ Awaits(j, w) /\ j.pc \in Receiving
    BY WireFacts DEF Busy, Working, Receiving
  <1>2. w # <<>> /\ Head(w).kind = "data" /\ Received(p) = Head(w).of
    BY DEF Arrived, Received
  <1>3. Head(w) = w[1] /\ 1 \in 1..Len(w)
    BY <1>1, <1>2, TailFacts
  <1>. HIDE DEF j, w
  <1>4. PICK at \in [1..Len(w) -> DOMAIN j.list] : Placed(j, w, at)
    BY <1>1 DEF Awaits, Carries
  <1>5. j.i \in DOMAIN j.list /\ j.list[j.i] \notin j.have /\ j.pc = "data"
    BY <1>1 DEF Awaits, AtWanted, j
  <1>6. at[1] = j.i
    BY <1>1, <1>2, <1>4, <1>5, FirstPlace
  <1>7. w[1].of = j.list[at[1]]
    BY <1>2, <1>3, <1>4 DEF Placed, Follows
  <1>. QED
    BY <1>2, <1>3, <1>6, <1>7 DEF Wanted, j

LEMMA FillOwn ==
    ASSUME SoleReceiver, IInv, Sessions, FilesInv, NEW p \in Procs, RecvData(p) \/ RefWrite(p)
    PROVE  FilesInv'
  <1>. DEFINE last == job[p].list[Len(job[p].list)]
              pc == IF RecvData(p) THEN "rename" ELSE "refRename"
              u == IF RecvData(p) THEN Wanted(p) ELSE last
              new == [job[p] EXCEPT !.pc = pc, !.at = "none"]
  <1>1. job[p].pc \in {"data", "refWrite"} /\ job[p] \in JobType /\ (RecvData(p) <=> job[p].pc = "data")
    BY TypeParts DEF RecvData, RefWrite, At
  <1>2. Fill(p, u, pc)
    <2>1. CASE RecvData(p)
      BY <2>1, <1>1, ReceivedIsWanted DEF RecvData
    <2>2. CASE ~RecvData(p)
      BY <2>2 DEF RefWrite
    <2>. QED
      BY <2>1, <2>2
  <1>3. job[p].at = "part"
    BY <1>1 DEF FilesInv, Own, Holds
  <1>4. /\ part' = [part EXCEPT ![Place(p)][Path(p)] = u] /\ final' = final
        /\ job' = [job EXCEPT ![p] = new]
    BY <1>2, <1>3 DEF Fill, Become
  <1>5. pc = (IF job[p].pc = "data" THEN "rename" ELSE "refRename") /\ u = (IF job[p].pc = "data" THEN Wanted(p) ELSE last)
    BY <1>1
  <1>6. u \in Contents /\ Path(p) \in Paths
    <2>1. Fits(job[p], Present(Place(p)))
      BY TypeParts
    <2>2. job[p].pc = "data" => Wanted(p) \in ObjectIds
      BY <1>1, WantedFacts, PathFacts DEF Working, Receiving
    <2>3. last \in ObjectIds
      BY <1>1, <2>1, ListingFacts DEF Fits, Working, Receiving
    <2>. QED
      BY <1>1, <1>5, <2>2, <2>3, PathFacts DEF Contents, Paths
  <1>. HIDE DEF pc, u
  <1>7. /\ new.pc = pc /\ new.list = job[p].list /\ new.have = job[p].have /\ new.i = job[p].i
        /\ new.br = job[p].br
    BY <1>1 DEF JobType
  <1>. HIDE DEF new
  <1>8. /\ job[p].pc \in Receiving /\ new.pc \in Receiving
        /\ new.pc \notin {"data", "refWrite"}
        /\ new.pc = "rename" => Path(p) = Wanted(p) /\ u = Wanted(p)
        /\ new.pc = "refRename" => Path(p) = job[p].br /\ u = last
    BY <1>1, <1>5, <1>7, PathFacts DEF Receiving, Path, InRef
  <1>. QED
    BY <1>4, <1>6, <1>7, <1>8, PartOwn DEF Sessions

\* The temporary file of a receiver that has closed it is as it wrote it.
LEMMA ClosedHolds ==
    ASSUME IInv, FilesInv, NEW p \in Procs, job[p].pc \in {"rename", "refRename"}
    PROVE  /\ part[Place(p)][Path(p)] \in ObjectIds /\ part[Place(p)][Path(p)] # NoFile
           /\ job[p].pc = "rename" => part[Place(p)][Path(p)] = Wanted(p) /\ Path(p) = Wanted(p)
           /\ job[p].pc = "refRename" => /\ part[Place(p)][Path(p)] = job[p].list[Len(job[p].list)]
                                         /\ Path(p) = job[p].br
  <1>1. Fits(job[p], Present(Place(p))) /\ Holds(p)
    BY TypeParts DEF FilesInv, Own
  <1>2. job[p].pc = "rename" => Path(p) = Wanted(p) /\ Wanted(p) \in ObjectIds
    BY PathFacts
  <1>3. job[p].pc = "refRename" => Path(p) = job[p].br
    BY DEF Path, InRef
  <1>4. job[p].list[Len(job[p].list)] \in ObjectIds
    BY <1>1, ListingFacts DEF Fits, Working, Receiving
  <1>. QED
    BY <1>1, <1>2, <1>3, <1>4, PathsAssumption DEF Holds

\* No object is twice in a list.
LEMMA ListedOnce ==
    ASSUME NEW l \in Items(Listing), NEW i \in DOMAIN l, NEW k \in DOMAIN l, l[i] = l[k]
    PROVE  i = k
  <1>1. PICK t \in Tips : l = Listing[t]
    BY ListingAssumption DEF Items
  <1>. QED
    BY <1>1, ListingAssumption

LEMMA InstallOwn ==
    ASSUME SoleReceiver, IInv, Roles, FilesInv, NEW p \in Procs, Rename(p) \/ RefRename(p)
    PROVE  FilesInv'
  <1>. DEFINE v == part[Place(p)][Path(p)]
              new == IF Rename(p) THEN [job[p] EXCEPT !.pc = "recv", !.i = @ + 1] ELSE Resting(p)
  <1>1. /\ job[p].pc \in {"rename", "refRename"} /\ (Rename(p) => job[p].pc = "rename")
        /\ ~Rename(p) => job[p].pc = "refRename"
    BY DEF Rename, RefRename, At
  <1>2. v # NoFile /\ v \in ObjectIds
    BY <1>1, ClosedHolds
  <1>3. /\ final' = [final EXCEPT ![Place(p)][Path(p)] = v]
        /\ part' = [part EXCEPT ![Place(p)][Path(p)] = NoFile]
        /\ job' = [Moved(p, "final") EXCEPT ![p] = new]
    BY <1>2 DEF Rename, RefRename
  <1>4. /\ final \in [Repos -> [Paths -> Contents]] /\ part \in [Repos -> [Paths -> Contents]]
        /\ job \in [Procs -> JobType] /\ job[p] \in JobType /\ Place(p) \in Repos /\ Path(p) \in Paths
        /\ v \in Contents
    BY <1>1, <1>2, TypeParts, PlaceType, PathFacts DEF IInv, TypeOK, Paths, Contents
  <1>5. \A r \in Repos, x \in Paths : final'[r][x] = IF r = Place(p) /\ x = Path(p) THEN v ELSE final[r][x]
    <2>. HIDE DEF v
    <2>. QED
      BY <1>3, <1>4, EntryType
  <1>6. job' = [job EXCEPT ![p] = new] /\ job[p].pc \in RecvSteps
    BY <1>1, <1>3, Alone DEF RecvSteps, Receiving
  <1>7. \A r \in Repos : r # Place(p) => final'[r] = final[r] /\ part'[r] = part[r]
    BY <1>3, <1>4
  <1>8. job'[p] = new /\ \A q \in Procs : q # p => job'[q] = job[q]
    BY <1>4, <1>6
  <1>9. Place(p)' = Place(p) /\ Own(p)
    BY DEF Place, FilesInv
  <1>10. Whole(Place(p))'
    <2>1. \A x \in ObjectIds : x = Path(p) => v = x
      BY <1>1, ClosedHolds, PathFacts, PathsAssumption
    <2>2. \A o \in ObjectIds : final'[Place(p)][o] # NoFile => final'[Place(p)][o] = o
      BY <1>4, <1>5, <1>9, <2>1 DEF Own, Whole, Present, Paths
    <2>3. \A b \in Branches : final'[Place(p)][b] # Empty
      BY <1>2, <1>4, <1>5, <1>9, PathsAssumption DEF Own, Whole, Paths
    <2>. QED
      BY <1>9, <2>2, <2>3 DEF Whole, Present
  <1>11. CASE Rename(p)
    <2>1. /\ new.pc = "recv" /\ new.list = job[p].list /\ new.have = job[p].have /\ new.i = job[p].i + 1
          /\ job[p].i \in Nat /\ job[p].list \in Seq(ObjectIds)
      BY <1>4, <1>11 DEF JobType
    <2>. HIDE DEF new
    <2>2. /\ job[p].i \in DOMAIN job[p].list /\ job[p].list \in Items(Listing)
          /\ Path(p) = job[p].list[job[p].i]
      BY <1>1, <1>11, TypeParts, PathFacts DEF Fits, Working, Receiving, Wanted
    <2>3. ASSUME ~CommittedTo(Place(p)), NEW k \in DOMAIN job[p].list, k >= job[p].i + 1,
                 job[p].list[k] \notin job[p].have
          PROVE  job[p].list[k] \notin Present(Place(p))'
      <3>1. k >= job[p].i /\ k # job[p].i
        BY <2>1, <2>3
      <3>2. job[p].list[k] \notin Present(Place(p))
        BY <1>1, <1>9, <1>11, <2>3, <3>1 DEF Own, Unseen, Receiving
      <3>3. job[p].list[k] # Path(p)
        BY <2>2, <2>3, <3>1, ListedOnce
      <3>4. job[p].list[k] \in ObjectIds /\ job[p].list[k] \in Paths
        BY <2>1 DEF Paths
      <3>. QED
        BY <1>4, <1>5, <1>9, <3>2, <3>3, <3>4 DEF Present
    <2>4. Holds(p)' /\ Unseen(p)'
      BY <1>8, <1>9, <2>1, <2>3 DEF Holds, Unseen, Receiving
    <2>5. Own(p)'
      BY <1>10, <2>4 DEF Own
    <2>. QED
      BY <1>6, <1>7, <1>8, <2>5, OneOwn
  <1>12. CASE ~Rename(p)
    <2>1. new.pc \in {"idle", "accept"}
      BY <1>12 DEF Resting, Job
    <2>. HIDE DEF new
    <2>2. Own(p)'
      BY <1>8, <1>10, <2>1 DEF Own, Holds, Unseen, Receiving
    <2>. QED
      BY <1>6, <1>7, <1>8, <2>2, OneOwn
  <1>. QED
    BY <1>11, <1>12

LEMMA LocalCommitOwn ==
    ASSUME FilesInv, NEW r \in Repos, NEW b \in Branches, NEW t \in Tips, LocalCommit(r, b, t), IInv
    PROVE  FilesInv'
  <1>1. /\ CommittedTo(r) /\ part' = part /\ job' = job
        /\ final' = [final EXCEPT ![r] = [x \in Paths |->
                    IF x = b THEN t
                    ELSE IF x \in Items(Listing[t]) /\ final[r][x] = NoFile THEN x
                    ELSE final[r][x]]]
    <2>1. <<r, b, t>>[1] = r /\ <<r, b, t>> \in LocalCommits
      BY DEF LocalCommit
    <2>. QED
      BY <2>1 DEF LocalCommit, CommittedTo
  <1>2. final \in [Repos -> [Paths -> Contents]]
    BY DEF IInv, TypeOK
  <1>. SUFFICES ASSUME NEW p \in Procs PROVE Own(p)'
    BY DEF FilesInv
  <1>3. Own(p) /\ Place(p)' = Place(p) /\ Place(p) \in Repos
    BY PlaceType DEF FilesInv, Place
  <1>4. CASE Place(p) # r
    BY <1>1, <1>2, <1>3, <1>4, StayOwn
  <1>5. CASE Place(p) = r
    <2>1. \A x \in Paths : final'[r][x] = IF x = b THEN t
                              ELSE IF x \in Items(Listing[t]) /\ final[r][x] = NoFile THEN x
                              ELSE final[r][x]
      BY <1>1, <1>2
    <2>2. t # Empty /\ \A o \in ObjectIds : o # b /\ o \in Paths
      BY PathsAssumption DEF Paths
    <2>3. Whole(Place(p))'
      <3>1. \A x \in Branches : x \notin Items(Listing[t]) /\ x \in Paths
        <4>1. Listing[t] \in Seq(ObjectIds)
          BY ListingAssumption
        <4>. QED
          BY <4>1, PathsAssumption DEF Items, Paths
      <3>. QED
        BY <1>3, <1>5, <2>1, <2>2, <3>1 DEF Own, Whole, Present
    <2>4. Holds(p)'
      <3>1. Wanted(p)' = Wanted(p)
        BY <1>1 DEF Wanted
      <3>. QED
        BY <1>1, <1>3, <3>1 DEF Own, Holds
    <2>5. Unseen(p)'
      BY <1>1, <1>3, <1>5 DEF Unseen, CommittedTo
    <2>. QED
      BY <2>3, <2>4, <2>5 DEF Own
  <1>. QED
    BY <1>4, <1>5

LEMMA FilesInit == Init => FilesInv
  <1>. SUFFICES ASSUME Init, NEW p \in Procs PROVE Own(p)
    BY DEF FilesInv
  <1>1. Place(p) \in Repos
    BY PlaceType
  <1>2. PICK seed \in Seeds :
          final = [r \in Repos |-> [x \in Paths |->
                      IF x \in Branches THEN seed[r][x]
                      ELSE IF \E b \in Branches : /\ seed[r][b] # NoFile
                                                  /\ x \in Items(Listing[seed[r][b]])
                      THEN x ELSE NoFile]]
    BY DEF Init
  <1>3. seed \in [Repos -> [Branches -> Tips \cup {NoFile}]]
    BY SeedsAssumption
  <1>4. \A b \in Branches : b \in Paths /\ final[Place(p)][b] \in Tips \cup {NoFile}
    BY <1>1, <1>2, <1>3 DEF Paths
  <1>5. \A o \in ObjectIds : o \in Paths /\ final[Place(p)][o] \in {o, NoFile}
    BY <1>1, <1>2, PathsAssumption DEF Paths
  <1>6. Whole(Place(p))
    BY <1>4, <1>5, PathsAssumption DEF Whole, Present
  <1>7. job[p].pc \in {"idle", "accept"}
    BY DEF Init, Resting, Job
  <1>. QED
    BY <1>6, <1>7 DEF Own, Holds, Unseen, Receiving

-----------------------------------------------------------------------------
(* The invariant of the sessions, and what follows from it.                *)

SInv == IInv /\ Sessions /\ FilesInv

LEMMA SessionsInit == Init => Sessions
  <1>. SUFFICES ASSUME Init PROVE Sessions
    OBVIOUS
  <1>1. job = [p \in Procs |-> Resting(p)] /\ wire = [e \in Ends |-> <<>>] /\ ends = {}
        /\ result = [c \in Clients |-> "none"]
    BY DEF Init
  <1>2. \A p \in Procs : job[p].pc \in {"idle", "accept"} /\ job[p].pc \notin Busy /\ job[p].peer = p
    <2>1. \A p \in Procs : Resting(p).pc \in {"idle", "accept"} /\ Resting(p).peer = p
      BY DEF Resting, Job
    <2>. QED
      BY <1>1, <2>1, PcKinds
  <1>3. Roles
    BY RolesInit
  <1>4. OneServer
    BY <1>2 DEF OneServer, Procs
  <1>5. Streams /\ Pairs /\ Unbroken
    BY <1>2 DEF Streams, Pairs, Linked, Unbroken
  <1>6. Requests
    BY <1>1 DEF Requests, Pending, Asks, Ends
  <1>7. Idlers
    BY <1>1 DEF Idlers
  <1>8. Deliveries
    BY <1>2 DEF Deliveries, Delivered, Procs
  <1>. QED
    BY <1>3, <1>4, <1>5, <1>6, <1>7, <1>8 DEF Sessions

LEMMA SessionsStep ==
    ASSUME SoleReceiver, SInv, IInv', Roles', NEW p \in Procs, Step(p)
    PROVE  Sessions'
  <1>0. IInv /\ Sessions /\ FilesWhole /\ FilesInv
    BY OwnWhole DEF SInv
  <1>1. CASE SendList(p)
    BY <1>0, <1>1, SendListSessions, ErrorSessions
  <1>2. CASE SendFile(p)
    BY <1>0, <1>2, SendFileSessions, ErrorSessions
  <1>3. CASE RecvFlags(p) \/ SendDone(p) \/ Skip(p) \/ SendFails(p) \/ RecvFails(p)
    BY <1>0, <1>3, RecvFlagsSessions, SendDoneSessions, SkipSessions, SendFailsSessions, RecvFailsSessions
  <1>4. CASE RecvList(p) \/ RecvError(p) \/ Check(p) \/ SendFlags(p)
    BY <1>0, <1>4, RecvListSessions, RecvErrorSessions, CheckSessions, SendFlagsSessions
  <1>5. CASE RecvSize(p) \/ RecvData(p) \/ RefOpen(p) \/ RefWrite(p) \/ RefRename(p)
    BY <1>0, <1>5, RecvSizeSessions, RecvDataSessions, RefStepSessions, RefRenameSessions
  <1>6. CASE Rename(p)
    <2>1. part[Place(p)][Path(p)] # NoFile
      BY <1>0, <1>6, ClosedHolds DEF Rename, At
    <2>. QED
      BY <1>0, <1>6, <2>1, RenameSessions
  <1>. QED
    BY <1>1, <1>2, <1>3, <1>4, <1>5, <1>6 DEF Step, Sender, Receiver

LEMMA SessionsKeep ==
    ASSUME SoleReceiver, SInv, [Next]_vars
    PROVE  Sessions'
  <1>0. IInv /\ Sessions /\ FilesInv /\ IInv' /\ Roles'
    BY NextKeeps, RolesKeep DEF SInv, Sessions
  <1>1. CASE UNCHANGED vars
    BY <1>0, <1>1, SameSessions DEF vars
  <1>2. CASE \E p \in Procs : Step(p) \/ DiskFull(p) \/ Kill(p)
    BY <1>0, <1>2, SessionsStep, DiskFullSessions, KillSessions
  <1>3. CASE \E c \in Clients : Start(c) \/ Status(c) \/ Cut(c)
    BY <1>0, <1>3, StartSessions, StatusSessions, RefusedSessions, CutSessions
  <1>4. CASE \E r \in Repos : Accept(r) \/ BrokenPipe(r) \/ Serve(r)
    BY <1>0, <1>4, AcceptSessions, BrokenPipeSessions, ServeSessions
  <1>5. CASE \E r \in Repos, b \in Branches, t \in Tips : LocalCommit(r, b, t)
    BY <1>0, <1>5, SameSessions DEF LocalCommit, counts
  <1>. QED
    BY <1>1, <1>2, <1>3, <1>4, <1>5 DEF Next

\* A sender's steps, and all that end a connection, leave the files alone, and
\* so do the steps at its start.
LEMMA FilesStepKeeps ==
    ASSUME SoleReceiver, SInv, NEW p \in Procs, Step(p)
    PROVE  FilesInv'
  <1>0. IInv /\ Roles /\ Sessions /\ FilesInv /\ job[p] \in JobType
    BY TypeParts DEF SInv, Sessions
  <1>1. CASE SendList(p) /\ Walkable(p)
    <2>. DEFINE new == [job[p] EXCEPT !.pc = "flags", !.list = Listing[Tip(p)]]
    <2>1. UNCHANGED files /\ job' = [job EXCEPT ![p] = new]
      BY <1>1 DEF SendList, Become
    <2>2. new.pc \notin Receiving \cup {"check"}
      BY <1>0 DEF JobType, Receiving
    <2>. QED
      BY <1>0, <2>1, <2>2, QuietOwn
  <1>2. CASE RecvFlags(p)
    <2>. DEFINE new == [job[p] EXCEPT !.pc = "send", !.have = Received(p), !.i = 1]
    <2>1. UNCHANGED files /\ job' = [job EXCEPT ![p] = new]
      BY <1>2 DEF RecvFlags, Become
    <2>2. new.pc \notin Receiving \cup {"check"}
      BY <1>0 DEF JobType, Receiving
    <2>. QED
      BY <1>0, <2>1, <2>2, QuietOwn
  <1>3. CASE SendFile(p) /\ final[Place(p)][Wanted(p)] # NoFile
    <2>. DEFINE new == [job[p] EXCEPT !.i = @ + 1]
    <2>1. UNCHANGED files /\ job' = [job EXCEPT ![p] = new] /\ job[p].pc = "send"
      BY <1>3 DEF SendFile, Become, At
    <2>2. new.pc \notin Receiving \cup {"check"}
      BY <1>0, <2>1 DEF JobType, Receiving
    <2>. QED
      BY <1>0, <2>1, <2>2, QuietOwn
  <1>4. ASSUME \/ SendDone(p) \/ SendFails(p) \/ RecvError(p)
               \/ SendList(p) /\ ~Walkable(p)
               \/ SendFile(p) /\ final[Place(p)][Wanted(p)] = NoFile
               \/ RecvFails(p) /\ ~At(p, "data")
        PROVE  FilesInv'
    <2>1. UNCHANGED files /\ job' = [job EXCEPT ![p] = Resting(p)]
      BY <1>4 DEF SendDone, SendFails, RecvError, SendList, SendFile, RecvFails, Rest, Become
    <2>. QED
      BY <1>0, <2>1, RestOwn
  <1>5. CASE RecvFails(p) /\ At(p, "data")
    BY <1>0, <1>5, AbandonOwn DEF RecvFails, At, RecvSteps, Receiving
  <1>6. CASE RecvList(p) \/ Check(p) \/ SendFlags(p) \/ Skip(p)
    BY <1>0, <1>6, RecvListOwn, CheckOwn, SendFlagsOwn, SkipOwn
  <1>7. CASE RecvSize(p) \/ RefOpen(p) \/ RecvData(p) \/ RefWrite(p) \/ Rename(p) \/ RefRename(p)
    BY <1>0, <1>7, OpenOwn, FillOwn, InstallOwn
  <1>. QED
    BY <1>1, <1>2, <1>3, <1>4, <1>5, <1>6, <1>7 DEF Step, Sender, Receiver

LEMMA FilesKeep ==
    ASSUME SoleReceiver, SInv, [Next]_vars
    PROVE  FilesInv'
  <1>0. IInv /\ Roles /\ Sessions /\ FilesInv /\ Clients \subseteq Procs /\ Repos \subseteq Procs
    BY DEF SInv, Sessions, Procs
  <1>1. CASE UNCHANGED vars
    BY <1>0, <1>1, StayOwn DEF vars, FilesInv
  <1>2. ASSUME NEW p \in Procs, Step(p) PROVE FilesInv'
    BY <1>2, FilesStepKeeps
  <1>3. ASSUME NEW p \in Procs, DiskFull(p) PROVE FilesInv'
    <2>1. job[p].pc \in RecvSteps
      BY <1>3 DEF DiskFull, At, RecvSteps, Receiving
    <2>. QED
      BY <1>0, <1>3, <2>1, AbandonOwn, RestOwn DEF DiskFull, Rest, Become
  <1>4. ASSUME NEW r \in Procs, Down(r), UNCHANGED files PROVE FilesInv'
    <2>1. job' = [job EXCEPT ![r] = Job("down", "none", r, NoFile)]
      BY <1>4 DEF Down, Become
    <2>2. Job("down", "none", r, NoFile).pc \notin Receiving \cup {"check"}
      BY DEF Job, Receiving
    <2>. QED
      BY <1>0, <1>4, <2>1, <2>2, QuietOwn
  <1>5. ASSUME NEW p \in Procs, Kill(p) PROVE FilesInv'
    <2>1. CASE p \in Clients
      BY <1>0, <1>5, <2>1, RestOwn DEF Kill, Rest, Become
    <2>2. CASE p \notin Clients
      BY <1>4, <1>5, <2>2 DEF Kill
    <2>. QED
      BY <2>1, <2>2
  <1>6. ASSUME NEW c \in Clients, Start(c) PROVE FilesInv'
    <2>1. UNCHANGED files
      BY <1>6 DEF Start
    <2>2. \/ job' = job
          \/ \E command \in Commands : job' = [job EXCEPT ![c] = Job("status", command.op, c, command.br)]
      BY <1>6 DEF Start, Become
    <2>3. \A op, br : Job("status", op, c, br).pc \notin Receiving \cup {"check"}
      BY DEF Job, Receiving
    <2>. QED
      BY <1>0, <2>1, <2>2, <2>3, QuietOwn
  <1>7. ASSUME NEW c \in Clients, Status(c) PROVE FilesInv'
    <2>1. UNCHANGED files
      BY <1>7 DEF Status
    <2>2. CASE Received(c)
      <3>. DEFINE pc == IF job[c].op = "push" THEN "walk" ELSE "list"
                  new == [job[c] EXCEPT !.pc = pc]
      <3>1. job' = [job EXCEPT ![c] = new] /\ job[c] \in JobType
        BY <1>0, <1>7, <2>2, TypeParts DEF Status, Goto, Become
      <3>2. pc \notin Receiving \cup {"check"}
        BY DEF Receiving
      <3>. HIDE DEF pc
      <3>3. new.pc = pc
        BY <3>1 DEF JobType
      <3>. QED
        BY <1>0, <2>1, <3>1, <3>2, <3>3, QuietOwn
    <2>3. CASE ~Received(c)
      BY <1>0, <1>7, <2>1, <2>3, RestOwn DEF Status, Rest, Become
    <2>. QED
      BY <2>2, <2>3
  <1>8. ASSUME NEW c \in Clients, Cut(c) PROVE FilesInv'
    <2>1. UNCHANGED files /\ job' = job
      BY <1>8 DEF Cut
    <2>. QED
      BY <1>0, <2>1, <1>8, QuietOwn
  <1>9. ASSUME NEW r \in Repos, Accept(r) PROVE FilesInv'
    <2>1. UNCHANGED files
      BY <1>9 DEF Accept
    <2>2. \/ job' = job
          \/ \E pc \in {"list", "walk"} : \E op, c, br : job' = [job EXCEPT ![r] = Job(pc, op, c, br)]
      BY <1>9 DEF Accept, Become
    <2>3. \A pc \in {"list", "walk"} : \A op, c, br : Job(pc, op, c, br).pc \notin Receiving \cup {"check"}
      BY DEF Job, Receiving
    <2>. QED
      BY <1>0, <2>1, <2>2, <2>3, QuietOwn
  <1>10. ASSUME NEW r \in Repos, BrokenPipe(r) PROVE FilesInv'
    BY <1>0, <1>4, <1>10 DEF BrokenPipe
  <1>11. ASSUME NEW r \in Repos, Serve(r) PROVE FilesInv'
    BY <1>0, <1>11, RestOwn DEF Serve, Become
  <1>12. ASSUME NEW r \in Repos, NEW b \in Branches, NEW t \in Tips, LocalCommit(r, b, t) PROVE FilesInv'
    BY <1>0, <1>12, LocalCommitOwn
  <1>. QED
    BY <1>1, <1>2, <1>3, <1>5, <1>6, <1>7, <1>8, <1>9, <1>10, <1>11, <1>12 DEF Next

LEMMA SessionsInvariance ==
    ASSUME SoleReceiver
    PROVE  Spec => []SInv
  <1>1. Init => SInv
    BY InitOK, SessionsInit, FilesInit DEF SInv
  <1>2. SInv /\ [Next]_vars => SInv'
    BY NextKeeps, SessionsKeep, FilesKeep DEF SInv
  <1>. QED
    BY <1>1, <1>2, PTL DEF Spec

\* Where one process at most receives in each repository, "an interrupted
\* transfer leaves a complete object or none" (recv_file, pull.cpp, push.cpp):
\* whatever is cut, killed or full, no reader finds part of a file, and every
\* object holds the bytes of the hash it is named for.
THEOREM FilesAreWhole ==
    ASSUME SoleReceiver
    PROVE  Spec => []FilesWhole
  <1>1. SInv => FilesWhole
    BY OwnWhole DEF SInv
  <1>. QED
    BY <1>1, SessionsInvariance, PTL

\* And no object that is in place is written again (has_hash, recv_flags): what
\* an interrupted transfer delivered, the next one skips.
THEOREM NothingIsResent ==
    ASSUME SoleReceiver
    PROVE  Spec => NothingResent
  <1>1. SInv /\ [Next]_vars =>
           [\A p \in Procs : Installing(p) => ~HasHash(p) \/ CommittedTo(Place(p))]_vars
    <2>. SUFFICES ASSUME SInv, NEW p \in Procs, job[p].pc = "rename", ~CommittedTo(Place(p))
                  PROVE  ~HasHash(p)
      BY DEF Installing, At
    <2>1. /\ job[p].i \in DOMAIN job[p].list /\ job[p].list[job[p].i] \notin job[p].have
          /\ job[p].list \in Seq(ObjectIds) /\ job[p].i \in Nat
      <3>1. job[p].pc \in Busy /\ job[p] \in JobType
        BY TypeParts DEF SInv, Busy, Working, Receiving
      <3>. QED
        BY <3>1 DEF SInv, Sessions, Streams, Awaits, AtWanted, JobType
    <2>2. Wanted(p) \notin Present(Place(p))
      BY <2>1 DEF SInv, FilesInv, Own, Unseen, Receiving, Wanted
    <2>. QED
      BY <2>1, <2>2 DEF HasHash, Present, Wanted
  <1>. QED
    BY <1>1, SessionsInvariance, PTL DEF Spec, NothingResent

\* The server of a push that reported success stops only once the ref is moved.
LEMMA PushStep ==
    ASSUME SoleReceiver, SInv, NEW r \in Repos, job[r].op = "push",
           result[job[r].peer] = "ok", faults = 0, job'[r].pc = "accept", Step(r)
    PROVE  final'[r][job[r].br] = job[r].list[Len(job[r].list)]
  <1>. DEFINE j == job[r]
              w == wire[In(r)]
  <1>0. IInv /\ Sessions /\ FilesInv /\ Roles /\ r \in Procs /\ Place(r) = r /\ r \notin Clients
    BY ProcsAssumption DEF SInv, Sessions, Procs, Place
  <1>1. j.pc \in Busy
    BY <1>0 DEF Roles, PlaysRole
  <1>2. j \in JobType /\ w \in Seq(Messages)
    BY <1>0, <1>1, WireFacts
  <1>3. /\ j.pc \in Receiving /\ EndsWhole(j, w)
        /\ \E at \in [1..Len(w) -> DOMAIN j.list] :
              Placed(j, w, at) /\ Level(j, Whither(j, w, at), Len(j.list) + 1)
    <2>1. UpTo(j, w, Len(j.list) + 1)
      BY <1>0, <1>1 DEF Sessions, Deliveries, Delivered
    <2>. QED
      BY <2>1 DEF UpTo
  <1>4. PICK at \in [1..Len(w) -> DOMAIN j.list] :
           Placed(j, w, at) /\ Level(j, Whither(j, w, at), Len(j.list) + 1)
    BY <1>3
  <1>5. job'[r].pc # j.pc
    BY <1>3 DEF Receiving
  <1>6. ~RecvError(r)
    <2>. SUFFICES ASSUME RecvError(r) PROVE FALSE
      OBVIOUS
    <2>1. w # <<>> /\ Head(w).kind = "error"
      BY DEF RecvError, Arrived
    <2>2. w[1].kind = "error" /\ 1 \in 1..Len(w)
      BY <2>1, <1>2, TailFacts
    <2>. HIDE DEF j, w
    <2>3. 1 = Len(w)
      BY <2>2, <1>4 DEF Placed, Follows
    <2>4. w[Len(w)].kind = "data"
      BY <2>1, <1>3 DEF EndsWhole
    <2>. QED
      BY <2>2, <2>3, <2>4
  <1>7. ~RecvFails(r)
    <2>. SUFFICES ASSUME RecvFails(r) PROVE FALSE
      OBVIOUS
    <2>1. w = <<>>
      BY DEF RecvFails, Hangup
    <2>2. j.pc # "data"
      BY <2>1, <1>3 DEF EndsWhole
    <2>3. j.pc = "recv" /\ ~AtEnd(r) /\ Wanted(r) \notin j.have
      BY <2>2, <1>3 DEF RecvFails, At, Receiving
    <2>4. j.i \in Nat \ {0} /\ j.list \in Seq(ObjectIds)
      BY <1>2 DEF JobType
    <2>5. j.i \in DOMAIN j.list /\ j.i < Len(j.list) + 1
      BY <2>3, <2>4 DEF AtEnd
    <2>6. Whither(j, w, at) = j.i
      BY <2>1, <2>3 DEF Whither, Ahead
    <2>. HIDE DEF j, w
    <2>7. j.list[j.i] \in j.have
      BY <2>4, <2>5, <2>6, <1>4 DEF Level
    <2>. QED
      BY <2>3, <2>7 DEF Wanted, j
  <1>8. ~Sender(r) /\ ~SendFails(r)
    <2>1. j.pc \notin {"walk", "flags", "send", "check", "list"}
      BY <1>3 DEF Receiving
    <2>. QED
      BY <2>1 DEF Sender, SendList, RecvFlags, SendFile, SendDone, SendFails, Sending, At
  <1>9. ~Skip(r) /\ ~RecvList(r) /\ ~Check(r) /\ ~SendFlags(r)
    <2>1. ~RecvList(r) /\ ~Check(r) /\ ~SendFlags(r)
      BY <1>3 DEF RecvList, Check, SendFlags, At, Receiving
    <2>2. ASSUME Skip(r) PROVE job'[r].pc = j.pc
      BY <1>0, <1>2, <2>2, TypeParts DEF Skip, Become, JobType
    <2>. QED
      BY <2>1, <2>2, <1>5
  <1>10. ~RecvSize(r) /\ ~RefOpen(r) /\ ~RecvData(r) /\ ~RefWrite(r)
    <2>1. ASSUME NEW pc \in {"data", "refWrite"}, Open(r, pc) PROVE FALSE
      BY <1>0, <1>2, <2>1, TypeParts DEF Open, Become, JobType
    <2>2. ASSUME NEW u, NEW pc \in {"rename", "refRename"}, Fill(r, u, pc) PROVE FALSE
      BY <1>0, <1>2, <2>2, TypeParts DEF Fill, Become, JobType
    <2>. QED
      BY <2>1, <2>2 DEF RecvSize, RefOpen, RecvData, RefWrite
  <1>11. ~Rename(r)
    <2>. SUFFICES ASSUME Rename(r) PROVE FALSE
      OBVIOUS
    <2>1. part[Place(r)][Path(r)] # NoFile
      BY <1>0, ClosedHolds DEF Rename, At
    <2>2. job' = [Moved(r, "final") EXCEPT ![r] = [job[r] EXCEPT !.pc = "recv", !.i = @ + 1]]
      BY <2>1 DEF Rename
    <2>3. job'[r] = [job[r] EXCEPT !.pc = "recv", !.i = @ + 1]
      BY <2>2, <1>0 DEF Moved
    <2>. QED
      BY <2>3, <1>2 DEF JobType
  <1>12. RefRename(r)
    BY <1>6, <1>7, <1>8, <1>9, <1>10, <1>11 DEF Step, Receiver
  <1>13. /\ part[r][j.br] = j.list[Len(j.list)] /\ part[r][j.br] # NoFile /\ Path(r) = j.br
    BY <1>0, <1>12, ClosedHolds DEF RefRename, At
  <1>14. final' = [final EXCEPT ![r][j.br] = part[r][j.br]]
    BY <1>0, <1>12, <1>13 DEF RefRename
  <1>15. final \in [Repos -> [Paths -> Contents]] /\ j.br \in Paths
    <2>1. j.br \in Branches
      BY <1>0, <1>1, TypeParts DEF Fits
    <2>. QED
      BY <2>1, <1>0 DEF IInv, TypeOK, Paths
  <1>. QED
    BY <1>13, <1>14, <1>15

\* The client of a push is told nothing (push.cpp returns once the last byte is
\* sent): where one process at most receives in each repository, "Remote 'main'
\* updated" is true by the time the server is done, unless something failed.
THEOREM PushesLand ==
    ASSUME SoleReceiver
    PROVE  Spec => PushLands
  <1>1. SInv /\ SInv' /\ [Next]_vars =>
          [\A r \in Repos :
              (/\ job[r].op = "push" /\ At(r, "accept")'
               /\ result[job[r].peer] = "ok" /\ faults' = 0)
              => final'[r][job[r].br] = job[r].list[Len(job[r].list)]]_vars
    <2>. SUFFICES ASSUME SInv, SInv', [Next]_vars, NEW r \in Repos, job[r].op = "push",
                         job'[r].pc = "accept", result[job[r].peer] = "ok", faults' = 0
                  PROVE  final'[r][job[r].br] = job[r].list[Len(job[r].list)]
      BY DEF At
    <2>0. IInv /\ Roles /\ IInv' /\ r \in Procs /\ r \notin Clients /\ job \in [Procs -> JobType]
      BY TypeParts, ProcsAssumption DEF SInv, Sessions, Procs
    <2>1. job[r].pc \in Busy /\ job[r].pc # "accept" /\ job[r].pc \notin {"idle", "down"}
      BY <2>0, PcKinds DEF Roles, PlaysRole
    <2>2. job'[r] # job[r]
      BY <2>1
    <2>3. ASSUME NEW p \in Procs, p # r, \E new : job' = [job EXCEPT ![p] = new] PROVE FALSE
      BY <2>0, <2>2, <2>3
    <2>4. ASSUME NEW p \in Procs, p # r, Abandon(p), job[p].pc \in RecvSteps PROVE FALSE
      BY <2>0, <2>3, <2>4, Alone DEF Abandon
    <2>5. ASSUME NEW p \in Procs, Step(p) PROVE p = r /\ faults = 0
      <3>. SUFFICES ASSUME p # r \/ faults # 0 PROVE FALSE
        OBVIOUS
      <3>1. faults' = faults
        BY <2>5 DEF Step, Sender, Receiver, SendList, RecvFlags, SendFile, SendDone, Skip, SendFails,
                    RecvFails, RecvList, RecvError, Check, SendFlags, RecvSize, RecvData, Rename,
                    RefOpen, RefWrite, RefRename, counts
      <3>2. p # r
        BY <3>1
      <3>3. CASE Sender(p) \/ Skip(p) \/ SendFails(p)
        BY <2>3, <3>2, <3>3 DEF Sender, SendList, RecvFlags, SendFile, SendDone, Skip, SendFails, Rest, Become
      <3>4. CASE RecvList(p) \/ RecvError(p) \/ Check(p) \/ SendFlags(p)
        BY <2>3, <3>2, <3>4 DEF RecvList, RecvError, Check, SendFlags, Rest, Become
      <3>5. CASE RecvSize(p) \/ RecvData(p) \/ RefOpen(p) \/ RefWrite(p)
        BY <2>3, <3>2, <3>5 DEF RecvSize, RecvData, RefOpen, RefWrite, Open, Fill, Become
      <3>6. CASE RecvFails(p)
        BY <2>3, <2>4, <3>2, <3>6 DEF RecvFails, Rest, Become, At, RecvSteps, Receiving
      <3>7. CASE Rename(p) \/ RefRename(p)
        <4>1. job[p].pc \in RecvSteps
          BY <3>7 DEF Rename, RefRename, At, RecvSteps, Receiving
        <4>. QED
          BY <2>0, <2>3, <2>4, <3>2, <3>7, <4>1, Alone DEF Rename, RefRename
      <3>. QED
        BY <2>5, <3>3, <3>4, <3>5, <3>6, <3>7 DEF Step, Receiver
    <2>6. ASSUME Fault PROVE FALSE
      BY <2>0, <2>6, CountsType DEF Fault
    <2>7. ASSUME NEW p \in Procs PROVE ~DiskFull(p) /\ ~Kill(p)
      BY <2>6 DEF DiskFull, Kill
    <2>8. ASSUME NEW c \in Clients PROVE ~Start(c) /\ ~Status(c) /\ ~Cut(c)
      <3>0. c \in Procs /\ c # r
        BY <2>0 DEF Procs
      <3>1. ~Cut(c)
        BY <2>6 DEF Cut
      <3>2. ~Start(c)
        BY <2>2, <2>3, <3>0 DEF Start, Become
      <3>3. ~Status(c)
        BY <2>3, <3>0 DEF Status, Goto, Rest, Become
      <3>. QED
        BY <3>1, <3>2, <3>3
    <2>9. ASSUME NEW q \in Repos PROVE ~Accept(q) /\ ~BrokenPipe(q) /\ ~Serve(q)
      <3>0. q \in Procs
        BY DEF Procs
      <3>1. CASE q = r
        <4>1. ~Accept(q) /\ ~Serve(q)
          BY <2>1, <3>1 DEF Accept, Serve, At
        <4>2. ASSUME BrokenPipe(q) PROVE FALSE
          <5>1. job' = [job EXCEPT ![r] = Job("down", "none", r, NoFile)]
            BY <3>1, <4>2 DEF BrokenPipe, Down, Become
          <5>2. job'[r].pc = "down"
            BY <5>1, <2>0 DEF Job
          <5>. QED
            BY <5>2
        <4>. QED
          BY <4>1, <4>2
      <3>2. CASE q # r
        <4>1. ~Accept(q)
          BY <2>2, <2>3, <3>0, <3>2 DEF Accept, Become
        <4>2. ~BrokenPipe(q) /\ ~Serve(q)
          BY <2>3, <3>0, <3>2 DEF BrokenPipe, Down, Serve, Become
        <4>. QED
          BY <4>1, <4>2
      <3>. QED
        BY <3>1, <3>2
    <2>10. ASSUME NEW q \in Repos, NEW b \in Branches, NEW t \in Tips PROVE ~LocalCommit(q, b, t)
      BY <2>2 DEF LocalCommit
    <2>11. ~UNCHANGED vars
      BY <2>2 DEF vars
    <2>12. \E p \in Procs : Step(p)
      BY <2>7, <2>8, <2>9, <2>10, <2>11 DEF Next
    <2>. QED
      BY <2>5, <2>12, PushStep
  <1>. QED
    BY <1>1, SessionsInvariance, PTL DEF Spec, PushLands
=============================================================================
