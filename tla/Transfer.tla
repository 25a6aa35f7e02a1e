------------------------------ MODULE Transfer ------------------------------
(***************************************************************************)
(* The transfer protocol of spp: `serve` in one repository, `push` and     *)
(* `pull` from others, each end a process with files of its own.           *)
(*                                                                         *)
(* Paths are object hashes and branch names.  A file holds nothing yet     *)
(* (Empty), the bytes of the object it is named for, or, for a ref, the    *)
(* hash of a commit.  A byte stream is a sequence of messages; the length  *)
(* and the bytes of a file are two, since the receiver acts in between.    *)
(* The receiver writes every file to a temporary name first: two processes *)
(* that open the same name have the same file open, wherever a rename has  *)
(* taken it since.                                                         *)
(***************************************************************************)
EXTENDS Naturals, Sequences, FiniteSets

CONSTANTS Repos,       \* the repositories; each runs at most one `serve`
          Clients,     \* the processes that run `push` or `pull`
          Home,        \* the repository a client works in
          ReadOnly,    \* the repositories served with ro=1
          ObjectIds,     \* the object hashes in play
          Opened,      \* those the sender parses: commits and manifests
          Tips,        \* the commits a ref may name
          Needs,       \* the objects an object names
          Listing,     \* for a tip, what the sender's walk collects, in order
          Branches, Commands, Seeds, NoFile, Empty,
          LocalCommits,  \* the commits the users make meanwhile: <<repo, branch, tip>>
          MaxRuns,     \* bound: the commands a client runs
          MaxFaults    \* bound: cut connections, killed processes, full disks

Paths == ObjectIds \cup Branches
Contents == {NoFile, Empty} \cup ObjectIds
Procs == Clients \cup Repos          \* a repository stands for its server
Items(s) == {s[i] : i \in DOMAIN s}

ASSUME ProcsAssumption == /\ Clients \cap Repos = {}
                          /\ Home \in [Clients -> Repos]
                          /\ ReadOnly \subseteq Repos
                          /\ MaxRuns \in Nat /\ MaxFaults \in Nat
ASSUME PathsAssumption == /\ ObjectIds \cap Branches = {}
                          /\ {NoFile, Empty} \cap (ObjectIds \cup Branches) = {}
                          /\ NoFile # Empty
                          /\ Opened \subseteq ObjectIds /\ Tips \subseteq Opened
ASSUME CommandsAssumption ==
    Commands \subseteq [op : {"push", "pull"}, from : Clients, to : Repos, br : Branches]
ASSUME SeedsAssumption ==
    /\ Seeds \subseteq [Repos -> [Branches -> Tips \cup {NoFile}]]
    /\ LocalCommits \subseteq Repos \X Branches \X Tips

\* What the walk of push.cpp has to provide; ObjectGraph checks that it does.
ASSUME ListingAssumption ==
    /\ Needs \in [ObjectIds -> SUBSET ObjectIds]
    /\ Listing \in [Tips -> Seq(ObjectIds)]
    /\ \A t \in Tips :
          /\ Listing[t] # <<>> /\ Listing[t][Len(Listing[t])] = t
          /\ \A i \in DOMAIN Listing[t] :
                /\ Needs[Listing[t][i]] \subseteq {Listing[t][j] : j \in 1..(i - 1)}
                /\ \A j \in DOMAIN Listing[t] : Listing[t][i] = Listing[t][j] => i = j

VARIABLES final,    \* the files at their own names: repo -> path -> contents
          part,     \* the temporary files, under the path they are meant for
          job,      \* what each process is doing
          wire,     \* the bytes on their way to each end of each connection
          ends,     \* the ends of connections that are open
          result,   \* how the last command of each client ended
          runs, faults

vars == <<final, part, job, wire, ends, result, runs, faults>>
files == <<final, part>>
counts == <<runs, faults>>

Ends == Clients \X {"client", "server"}
Present(r) == {o \in ObjectIds : final[r][o] # NoFile}

-----------------------------------------------------------------------------
(* Processes, connections and messages.                                    *)

Job(pc, op, peer, br) == [pc |-> pc, op |-> op, peer |-> peer, br |-> br,
                          list |-> <<>>, have |-> {}, i |-> 1, at |-> "none"]
Resting(p) == Job(IF p \in Clients THEN "idle" ELSE "accept", "none", p, NoFile)

At(p, pc) == job[p].pc = pc
Place(p) == IF p \in Clients THEN Home[p] ELSE p
In(p) == <<job[p].peer, IF p \in Clients THEN "client" ELSE "server">>
Out(p) == <<job[p].peer, IF p \in Clients THEN "server" ELSE "client">>
Become(p, j) == job' = [job EXCEPT ![p] = j]
Goto(p, pc) == Become(p, [job[p] EXCEPT !.pc = pc])

Message(kind, of) == [kind |-> kind, of |-> of]

\* recv_all: a message, or the end of the stream once the peer has gone.
Arrived(p, kind) == wire[In(p)] # <<>> /\ Head(wire[In(p)]).kind = kind
Received(p) == Head(wire[In(p)]).of
Take(p) == wire' = [wire EXCEPT ![In(p)] = Tail(@)]
\* Faulty: what came before the end is not read any more.
HangupEarly(p) == Out(p) \notin ends
Hangup(p) == wire[In(p)] = <<>> /\ Out(p) \notin ends

\* send_all: bytes for an end that is closed are accepted and go nowhere, or
\* the call fails (SendFails), or the signal SIGPIPE ends the process.
After(p, messages) == IF Out(p) \in ends THEN wire[Out(p)] \o messages ELSE wire[Out(p)]

\* close, after everything sent has been handed over ...
Close(p) == /\ ends' = ends \ {In(p)}
            /\ wire' = [wire EXCEPT ![In(p)] = <<>>]
Closing(p, messages) ==
    /\ ends' = ends \ {In(p)}
    /\ wire' = [wire EXCEPT ![In(p)] = <<>>, ![Out(p)] = After(p, messages)]
\* ... or with bytes unread or unsent: what is on its way may be lost.
Reset(p) ==
    /\ ends' = ends \ {In(p)}
    /\ \E n \in 0..Len(wire[Out(p)]) :
          wire' = [wire EXCEPT ![In(p)] = <<>>, ![Out(p)] = SubSeq(@, 1, n)]

\* The process is done with its connection: a client exits, a server goes
\* back to accept.
Rest(p, how) ==
    /\ Become(p, Resting(p))
    /\ result' = IF p \in Clients THEN [result EXCEPT ![p] = how] ELSE result

Init ==
    /\ \E seed \in Seeds :
          final = [r \in Repos |-> [x \in Paths |->
                      IF x \in Branches THEN seed[r][x]
                      ELSE IF \E b \in Branches : /\ seed[r][b] # NoFile
                                                  /\ x \in Items(Listing[seed[r][b]])
                      THEN x ELSE NoFile]]
    /\ part = [r \in Repos |-> [x \in Paths |-> NoFile]]
    /\ job = [p \in Procs |-> Resting(p)]
    /\ wire = [e \in Ends |-> <<>>]
    /\ ends = {}
    /\ result = [c \in Clients |-> "none"]
    /\ runs = [c \in Clients |-> 0]
    /\ faults = 0

-----------------------------------------------------------------------------
(* Connecting: connect_server and the loop of serve.                       *)

\* A server still busy with the client's last connection accepts no other,
\* so a client that retries may as well start when that one is closed.
Start(c) ==
    /\ At(c, "idle") /\ runs[c] < MaxRuns
    /\ \A r \in Repos : job[r].peer # c
    /\ \E command \in Commands :
          /\ command.from = c
          /\ runs' = [runs EXCEPT ![c] = @ + 1]
          /\ IF At(command.to, "down")
             THEN /\ result' = [result EXCEPT ![c] = "failed"]
                  /\ UNCHANGED <<job, wire, ends>>
             ELSE /\ Become(c, Job("status", command.op, c, command.br))
                  /\ ends' = ends \cup {<<c, "client">>, <<c, "server">>}
                  /\ wire' = [wire EXCEPT ![<<c, "client">>] = <<>>,
                                          ![<<c, "server">>] = <<Message("request", command)>>]
                  /\ result' = [result EXCEPT ![c] = "none"]
    /\ UNCHANGED <<files, faults>>

\* Faulty: the flag is tested for pulls.
AcceptsSwapped(r, command) == command.op = "push" \/ r \notin ReadOnly
Accepts(r, command) == command.op = "pull" \/ r \notin ReadOnly

Request(r, c) == /\ wire[<<c, "server">>] # <<>>
                 /\ Head(wire[<<c, "server">>]).kind = "request"
                 /\ Head(wire[<<c, "server">>]).of.to = r

\* accept, the operation, the branch, and the status sent back.
Accept(r) ==
    /\ At(r, "accept")
    /\ \E c \in Clients :
          /\ Request(r, c)
          /\ LET command == Head(wire[<<c, "server">>]).of
                 reply == Message("status", Accepts(r, command))
             IN  /\ wire' = [wire EXCEPT ![<<c, "server">>] = <<>>,
                               ![<<c, "client">>] =
                                   IF <<c, "client">> \in ends THEN Append(@, reply) ELSE @]
                 /\ IF Accepts(r, command)
                    THEN /\ Become(r, Job(IF command.op = "push" THEN "list" ELSE "walk",
                                       command.op, c, command.br))
                         /\ ends' = ends
                    ELSE /\ job' = job
                         /\ ends' = ends \ {<<c, "server">>}
    /\ UNCHANGED <<files, result, counts>>

\* The client reads the status.
Status(c) ==
    /\ At(c, "status")
    /\ Arrived(c, "status")
    /\ IF Received(c)
       THEN /\ Goto(c, IF job[c].op = "push" THEN "walk" ELSE "list")
            /\ Take(c)
            /\ UNCHANGED <<ends, result>>
       ELSE Rest(c, "failed") /\ Close(c)
    /\ UNCHANGED <<files, counts>>

-----------------------------------------------------------------------------
(* push: the sender.                                                       *)

\* The walk succeeds when the ref holds a hash and every commit and manifest
\* it leads to can be parsed; chunks and other leaves are listed unopened.
Tip(p) == final[Place(p)][job[p].br]
Walkable(p) == /\ Tip(p) \in Tips
               /\ \A o \in Items(Listing[Tip(p)]) \cap Opened : final[Place(p)][o] = o

SendList(p) ==
    /\ At(p, "walk")
    /\ IF Walkable(p)
       THEN /\ Become(p, [job[p] EXCEPT !.pc = "flags", !.list = Listing[Tip(p)]])
            /\ wire' = [wire EXCEPT ![Out(p)] =
                           After(p, <<Message("list", Listing[Tip(p)])>>)]
            /\ UNCHANGED <<ends, result>>
       ELSE Rest(p, "failed") /\ Closing(p, <<Message("error", {})>>)
    /\ UNCHANGED <<files, counts>>

\* Faulty: the loop starts before the list.
RecvFlagsBefore(p) ==
    /\ At(p, "flags") /\ Arrived(p, "flags")
    /\ Become(p, [job[p] EXCEPT !.pc = "send", !.have = Received(p), !.i = 0])
    /\ Take(p)
    /\ UNCHANGED <<files, ends, result, counts>>

RecvFlags(p) ==
    /\ At(p, "flags") /\ Arrived(p, "flags")
    /\ Become(p, [job[p] EXCEPT !.pc = "send", !.have = Received(p), !.i = 1])
    /\ Take(p)
    /\ UNCHANGED <<files, ends, result, counts>>

Wanted(p) == job[p].list[job[p].i]
AtEnd(p) == job[p].i > Len(job[p].list)

Skip(p) ==
    /\ job[p].pc \in {"send", "recv"} /\ ~AtEnd(p)
    /\ Wanted(p) \in job[p].have
    /\ Become(p, [job[p] EXCEPT !.i = @ + 1])
    /\ UNCHANGED <<files, wire, ends, result, counts>>

\* send_file of the next object the receiver lacks.
SendFile(p) ==
    /\ At(p, "send") /\ ~AtEnd(p) /\ Wanted(p) \notin job[p].have
    /\ LET content == final[Place(p)][Wanted(p)]
       IN  IF content = NoFile
           THEN Rest(p, "failed") /\ Closing(p, <<Message("error", {})>>)
           ELSE /\ Become(p, [job[p] EXCEPT !.i = @ + 1])
                /\ wire' = [wire EXCEPT ![Out(p)] =
                       After(p, <<Message("size", {}), Message("data", content)>>)]
                /\ UNCHANGED <<ends, result>>
    /\ UNCHANGED <<files, counts>>

\* push returns 0 as soon as its last byte is sent.
SendDone(p) ==
    /\ At(p, "send") /\ AtEnd(p)
    /\ Rest(p, "ok") /\ Close(p)
    /\ UNCHANGED <<files, counts>>

Sending(p) == \/ At(p, "walk")
              \/ At(p, "check") /\ AtEnd(p)
              \/ At(p, "send") /\ ~AtEnd(p) /\ Wanted(p) \notin job[p].have

SendFails(p) ==
    /\ Sending(p) /\ Out(p) \notin ends
    /\ Rest(p, "failed") /\ Reset(p)
    /\ UNCHANGED <<files, counts>>

-----------------------------------------------------------------------------
(* pull: the receiver.                                                     *)

RecvList(p) ==
    /\ At(p, "list") /\ Arrived(p, "list")
    /\ Become(p, [job[p] EXCEPT !.pc = "check", !.list = Received(p), !.i = 1])
    /\ Take(p)
    /\ UNCHANGED <<files, ends, result, counts>>

\* The marker a sender puts in place of the list's or a file's length.
RecvError(p) ==
    /\ job[p].pc \in {"list", "recv"} /\ Arrived(p, "error")
    /\ Rest(p, "failed") /\ Close(p)
    /\ UNCHANGED <<files, counts>>

\* has_hash, one object after the other.
\* Faulty: an object still under its temporary name counts as present.
HasHashPart(p) == <<final[Place(p)][Wanted(p)], part[Place(p)][Wanted(p)]>> # <<NoFile, NoFile>>
HasHash(p) == final[Place(p)][Wanted(p)] # NoFile

\* Faulty: nothing is ever reported as present.
CheckNothing(p) ==
    /\ At(p, "check") /\ ~AtEnd(p)
    /\ Become(p, [job[p] EXCEPT !.i = @ + 1])
    /\ UNCHANGED <<files, wire, ends, result, counts>>

Check(p) ==
    /\ At(p, "check") /\ ~AtEnd(p)
    /\ Become(p, [job[p] EXCEPT !.i = @ + 1,
                                !.have = IF HasHash(p) THEN @ \cup {Wanted(p)} ELSE @])
    /\ UNCHANGED <<files, wire, ends, result, counts>>

SendFlags(p) ==
    /\ At(p, "check") /\ AtEnd(p)
    /\ Become(p, [job[p] EXCEPT !.pc = "recv", !.i = 1])
    /\ wire' = [wire EXCEPT ![Out(p)] = After(p, <<Message("flags", job[p].have)>>)]
    /\ UNCHANGED <<files, ends, result, counts>>

\* The file a receiver is at work on, and the others that have it open.
InRef(p) == \/ job[p].pc \in {"refWrite", "refRename"}
            \/ At(p, "recv") /\ AtEnd(p)
Path(p) == IF InRef(p) THEN job[p].br ELSE Wanted(p)
Sharing(p, q) == /\ q # p /\ Place(q) = Place(p) /\ job[q].at # "none"
                 /\ Path(q) = Path(p)

\* The open files of the others after p renames or removes the temporary one.
Moved(p, to) ==
    [q \in Procs |->
        IF ~Sharing(p, q) THEN job[q]
        ELSE IF job[q].at = "part" THEN [job[q] EXCEPT !.at = to]
        ELSE IF to = "final" THEN [job[q] EXCEPT !.at = "lost"]
        ELSE job[q]]

\* The temporary file is created, or truncated if it is there.
Open(p, pc) ==
    /\ part' = [part EXCEPT ![Place(p)][Path(p)] = Empty]
    /\ Become(p, [job[p] EXCEPT !.pc = pc, !.at = "part"])

\* write and close
Fill(p, content, pc) ==
    /\ part' = IF job[p].at = "part"
               THEN [part EXCEPT ![Place(p)][Path(p)] = content] ELSE part
    /\ final' = IF job[p].at = "final"
                THEN [final EXCEPT ![Place(p)][Path(p)] = content] ELSE final
    /\ Become(p, [job[p] EXCEPT !.pc = pc, !.at = "none"])

\* remove the temporary file, whoever's it is, and fail.
Abandon(p) ==
    /\ part' = [part EXCEPT ![Place(p)][Path(p)] = NoFile]
    /\ job' = [Moved(p, "lost") EXCEPT ![p] = Resting(p)]
    /\ result' = IF p \in Clients THEN [result EXCEPT ![p] = "failed"] ELSE result
    /\ Reset(p)
    /\ UNCHANGED final

\* recv_file: the length, then the bytes, then the rename.
RecvSize(p) ==
    /\ At(p, "recv") /\ ~AtEnd(p) /\ Wanted(p) \notin job[p].have
    /\ Arrived(p, "size")
    /\ Take(p) /\ Open(p, "data")
    /\ UNCHANGED <<final, ends, result, counts>>

RecvData(p) ==
    /\ At(p, "data") /\ Arrived(p, "data")
    /\ Take(p) /\ Fill(p, Received(p), "rename")
    /\ UNCHANGED <<ends, result, counts>>

\* The rename fails when another process has renamed or removed the file.
Rename(p) ==
    /\ At(p, "rename")
    /\ IF part[Place(p)][Path(p)] = NoFile
       THEN Abandon(p)
       ELSE /\ final' = [final EXCEPT ![Place(p)][Path(p)] = part[Place(p)][Path(p)]]
            /\ part' = [part EXCEPT ![Place(p)][Path(p)] = NoFile]
            /\ job' = [Moved(p, "final") EXCEPT ![p] =
                           [job[p] EXCEPT !.pc = "recv", !.i = @ + 1]]
            /\ UNCHANGED <<wire, ends, result>>
    /\ UNCHANGED counts

\* The ref, once the whole list has been gone through: the last hash is the tip.
RefOpen(p) ==
    /\ At(p, "recv") /\ AtEnd(p)
    /\ Open(p, "refWrite")
    /\ UNCHANGED <<final, wire, ends, result, counts>>

RefWrite(p) ==
    /\ At(p, "refWrite")
    /\ Fill(p, job[p].list[Len(job[p].list)], "refRename")
    /\ UNCHANGED <<wire, ends, result, counts>>

RefRename(p) ==
    /\ At(p, "refRename")
    /\ IF part[Place(p)][Path(p)] = NoFile
       THEN Abandon(p)
       ELSE /\ final' = [final EXCEPT ![Place(p)][Path(p)] = part[Place(p)][Path(p)]]
            /\ part' = [part EXCEPT ![Place(p)][Path(p)] = NoFile]
            /\ job' = [Moved(p, "final") EXCEPT ![p] = Resting(p)]
            /\ result' = IF p \in Clients THEN [result EXCEPT ![p] = "ok"] ELSE result
            /\ Close(p)
    /\ UNCHANGED counts

-----------------------------------------------------------------------------
(* What goes wrong.                                                        *)

\* Faulty: bytes that do not come are not missed.
RecvFailsUnseen(p) ==
    /\ At(p, "data") /\ Hangup(p)
    /\ Fill(p, Empty, "rename")
    /\ UNCHANGED <<wire, ends, result, counts>>

\* The peer has gone: a receiver in the middle of a file removes it.
RecvFails(p) ==
    /\ \/ job[p].pc \in {"status", "flags", "list", "data"}
       \/ At(p, "recv") /\ ~AtEnd(p) /\ Wanted(p) \notin job[p].have
    /\ Hangup(p)
    /\ IF At(p, "data")
       THEN Abandon(p)
       ELSE Rest(p, "failed") /\ Reset(p) /\ UNCHANGED files
    /\ UNCHANGED counts

Fault == faults < MaxFaults /\ faults' = faults + 1

DiskFull(p) ==
    /\ Fault
    /\ \/ At(p, "data") /\ Arrived(p, "data") /\ Abandon(p)
       \/ /\ At(p, "refWrite")
          /\ Rest(p, "failed") /\ Reset(p) /\ UNCHANGED files
    /\ UNCHANGED runs

Cut(c) ==
    /\ Fault
    /\ {<<c, "client">>, <<c, "server">>} \subseteq ends
    /\ ends' = ends \ {<<c, "client">>, <<c, "server">>}
    /\ \E m \in 0..Len(wire[<<c, "client">>]), n \in 0..Len(wire[<<c, "server">>]) :
          wire' = [wire EXCEPT ![<<c, "client">>] = SubSeq(@, 1, m),
                               ![<<c, "server">>] = SubSeq(@, 1, n)]
    /\ UNCHANGED <<files, job, result, runs>>

\* A process that dies leaves its files as they are.  With a server goes
\* what waits to be accepted.
Down(r) ==
    /\ Become(r, Job("down", "none", r, NoFile))
    /\ LET gone == {In(r)} \cup {<<c, "server">> : c \in {d \in Clients : Request(r, d)}}
       IN  /\ ends' = ends \ gone
           /\ \E n \in 0..Len(wire[Out(r)]) :
                 wire' = [e \in Ends |-> IF e \in gone THEN <<>>
                                         ELSE IF e = Out(r) THEN SubSeq(wire[e], 1, n)
                                         ELSE wire[e]]

Kill(p) ==
    /\ Fault
    /\ job[p].pc \notin {"idle", "accept", "down"}
    /\ IF p \in Clients
       THEN Rest(p, "failed") /\ Reset(p)
       ELSE Down(p) /\ UNCHANGED result
    /\ UNCHANGED <<files, runs>>

\* A write to a connection its peer has closed raises SIGPIPE, which neither
\* spp nor the command that starts it ignores.
BrokenPipe(r) ==
    /\ Sending(r) /\ Out(r) \notin ends
    /\ Down(r)
    /\ UNCHANGED <<files, result, counts>>

Serve(r) ==
    /\ At(r, "down")
    /\ Become(r, Resting(r))
    /\ UNCHANGED <<files, wire, ends, result, counts>>

\* Someone commits in the repository, as module Repository has it: objects
\* that are there are left alone, and the ref moves last.
LocalCommit(r, b, t) ==
    /\ <<r, b, t>> \in LocalCommits
    /\ t \notin Present(r)
    /\ Needs[t] \cap Tips = {final[r][b]} \ {NoFile}
    /\ final' = [final EXCEPT ![r] = [x \in Paths |->
                    IF x = b THEN t
                    ELSE IF x \in Items(Listing[t]) /\ final[r][x] = NoFile THEN x
                    ELSE final[r][x]]]
    /\ UNCHANGED <<part, job, wire, ends, result, counts>>

Sender(p) == SendList(p) \/ RecvFlags(p) \/ SendFile(p) \/ SendDone(p)
Receiver(p) == \/ RecvList(p) \/ RecvError(p) \/ Check(p) \/ SendFlags(p) \/ RecvSize(p) \/ RecvData(p)
               \/ Rename(p) \/ RefOpen(p) \/ RefWrite(p) \/ RefRename(p)

\* The steps a process takes without anybody's asking.
Step(p) == Sender(p) \/ Receiver(p) \/ Skip(p) \/ SendFails(p) \/ RecvFails(p)

Next ==
    \/ \E p \in Procs : Step(p) \/ DiskFull(p) \/ Kill(p)
    \/ \E c \in Clients : Start(c) \/ Status(c) \/ Cut(c)
    \/ \E r \in Repos : Accept(r) \/ BrokenPipe(r) \/ Serve(r)
    \/ \E r \in Repos, b \in Branches, t \in Tips : LocalCommit(r, b, t)

Spec == Init /\ [][Next]_vars

\* Processes that are running keep running, and a server takes the next
\* connection when there is one.
Fairness == /\ \A p \in Procs : WF_vars(Step(p))
            /\ \A c \in Clients : WF_vars(Status(c))
            /\ \A r \in Repos : WF_vars(Accept(r))
FairSpec == Spec /\ Fairness

-----------------------------------------------------------------------------
(* What a transfer promises.                                               *)

Steps == {"idle", "accept", "down", "status", "walk", "flags", "send", "list", "check",
          "recv", "data", "rename", "refWrite", "refRename"}

JobType == [pc : Steps, op : {"none", "push", "pull"}, peer : Procs,
            br : Branches \cup {NoFile}, list : Seq(ObjectIds), have : SUBSET ObjectIds,
            i : Nat \ {0}, at : {"none", "part", "final", "lost"}]

Messages == [kind : {"request"}, of : Commands] \cup [kind : {"status"}, of : BOOLEAN]
            \cup [kind : {"list"}, of : Items(Listing)]
            \cup [kind : {"flags"}, of : SUBSET ObjectIds]
            \cup [kind : {"error", "size"}, of : {{}}]
            \cup [kind : {"data"}, of : Contents \ {NoFile}]

\* Every variable holds a value of its kind.
TypeOK ==
    /\ final \in [Repos -> [Paths -> Contents]]
    /\ part \in [Repos -> [Paths -> Contents]]
    /\ job \in [Procs -> JobType]
    /\ wire \in [Ends -> Seq(Messages)]
    /\ ends \subseteq Ends
    /\ result \in [Clients -> {"none", "ok", "failed"}]
    /\ runs \in [Clients -> Nat] /\ faults \in Nat

\* Wherever a transfer is cut off and whatever else runs, what an object
\* names is there when the object is, and a ref that names a commit names one
\* that is there: "Refs move last, so an interrupted sync can never corrupt
\* either peer's history" (PLAN.md:137).  has_hash relies on it to leave out
\* what a commit that is present leads to.
StoresClosed ==
    \A r \in Repos :
        /\ \A o \in Present(r) : Needs[o] \subseteq Present(r)
        /\ \A b \in Branches : final[r][b] \in {NoFile, Empty} \cup Present(r)

\* Each repository is, at every step, a closed store that only grows and whose
\* refs name commits of it; a ref left empty counts as none.  The walk of the
\* next transfer and every command of the repository take that for granted.
Store(r) == INSTANCE ContentStore
    WITH Refs <- Branches, NoObject <- NoFile,
         names <- [o \in Present(r) |-> Needs[o]],
         tip <- [b \in Branches |-> IF final[r][b] = Empty THEN NoFile ELSE final[r][b]]
RefinesStore == /\ \A r \in Repos : Store(r)!Init
                /\ [][\A r \in Repos : Store(r)!Step]_vars

\* Seen by who reads: every file at its own name is complete
\* ("an interrupted transfer leaves a complete object or none",
\* ARCHITECTURE.md:1736).
Whole(r) == /\ \A o \in Present(r) : final[r][o] = o
            /\ \A b \in Branches : final[r][b] # Empty
FilesWhole == \A r \in Repos : Whole(r)

\* It holds where one process at most receives in each repository: two that do
\* share its temporary files.
Target(command) == IF command.op = "push" THEN command.to ELSE command.from
SoleReceiver == \A m, n \in Commands :
                    Place(Target(m)) = Place(Target(n)) => Target(m) = Target(n)

\* An object once in place is never written again: what an interrupted
\* transfer delivered, the next one skips ("must not re-send already-received
\* objects", CLI.md:513-514), unless someone commits there meanwhile.
Installing(p) == At(p, "rename") /\ ~At(p, "rename")'
CommittedTo(r) == \E commit \in LocalCommits : commit[1] = r
NothingResent ==
    [][\A p \in Procs : Installing(p) => ~HasHash(p) \/ CommittedTo(Place(p))]_vars

\* A push that reported success has moved the server's ref by the time the
\* server is done with it ("Remote 'main' updated", CLI.md:507), unless
\* something failed: the server answers nothing, so all rests on what was sent
\* before the client closed its end being read to the last byte.
PushLands ==
    [][\A r \in Repos :
          (/\ job[r].op = "push" /\ At(r, "accept")'
           /\ result[job[r].peer] = "ok" /\ faults' = 0)
          => final'[r][job[r].br] = job[r].list[Len(job[r].list)]]_vars

\* A repository served read-only is changed by its own users alone, who commit
\* or pull (networking/README.md, "Read-only mode"), whatever is left over from
\* a connection that was accepted.
PullsInto(r) == \E c \in Clients : Place(c) = r /\ job[c].op = "pull" /\ job'[c] # job[c]
ReadOnlyKept ==
    [][\A r \in ReadOnly : \/ part'[r] = part[r] /\ (final'[r] = final[r] \/ job' = job)
                           \/ PullsInto(r)]_vars

\* No command hangs: a client that is not suspended ends, whichever end
\* fails and whoever waits for the one server loop.
CommandsEnd == \A c \in Clients : ~At(c, "idle") ~> At(c, "idle")
ServerReturns == \A r \in Repos : [](~At(r, "down")) => []<>At(r, "accept")
=============================================================================
