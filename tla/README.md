# SynapseFS in TLA+

SynapseFS keeps the history of a neural network's checkpoints the way a
version-control system keeps source: a content-addressed store of chunks and
manifests, commits, branches, merges, a FUSE mount and a transfer protocol.
This directory is its formal model.  `PROJECT.json` is the index: the
components, the runs, the source lines behind every definition, the findings,
the hazards and the theorems.

## 1. The system

Paths are below `src/synapsefs/`.

| Part | State it keeps | Operations | What makes it correct |
|---|---|---|---|
| Refs and HEAD (`store/repo.py`) | `.synapse/HEAD`, one file per branch in `refs/heads/` | `read_head`, `resolve_ref`, `update_ref`, `set_head_*`, `delete_branch`, `rename_branch`, `init_at` | a ref and a detached HEAD name what is stored, and a ref a commit; no commit is forgotten by accident; HEAD names a branch that exists |
| Object store (`store/objectstore.py`, `store/atomic.py`) | `objects/xx/<hash>`, `objects/tmp` | `put`, `put_at`, `get`, `atomic_write`, `gc_tmp_dir` | an object is all there or not there; a name never gets other bytes; what is renamed is durable |
| Commit graph (`graph.py`) | nothing of its own: commit objects and manifests in the store | `commits_since_full`, `nearest_full_ancestor`, `ancestors`, `merge_base`, `write_*` | every object can be read back; parents are older; the walks find a full commit |
| Encoder (`codec/checkpoint.py`, `codec/chunk.py`) | the chunks already offered in this call | `encode_checkpoint`, raw and residual encodings | decoding gives the encoded tensor; all chunks a manifest names were offered |
| `commit`, anchor policies (`cli/commands/commit.py`, `anchor.py`) | none between commands | resolve the base, read HEAD, plan, write objects, move the ref | objects before what names them; the rebase interval and the depth cap hold |
| `branch`, `checkout`, `merge` (`cli/commands/`, `merge.py`) | a staged file (`merge`) | see 2 | checks still hold when the write they guard happens |
| FUSE daemon (`fuse/`) | decoded-chunk cache, inodes, open files, mount record | `get_or_compute`, `lookup`/`forget`, `open`, `read`, start and stop | decoded once, no waiter stranded, bytes bounded; one open file is one checkpoint |
| Transfer (`networking/`) | object files and refs on both sides | `push`, `pull`, `serve` | an interrupted transfer leaves a readable store; closure before ref |
| Verifier (`verify.py`) | queue, memo tables and report of one run | one walk over commits, manifests and chunks; the pass of `--content` | "ok" only if all it answers for is whole; the report is all the damage and nothing else |
| Aligner (`align/`, `merge.py`) | none | permutation search, averaging | numerical; out of scope |

**How they interact.**  Commands are separate processes.  They share nothing
but the files of `.synapse/`, and *no command takes a lock*: the store and the
refs are read and written one file at a time while any other command does the
same.  A command reads HEAD, then the ref HEAD names, decides for seconds or
minutes (alignment), then writes objects and last a ref.  A FUSE daemon is a
further long-lived reader with threads of its own, and a transfer a further
writer.

**What is hard.**  Two commands between whose read and write a third one
writes; a process that dies in the middle (the leftovers are later
deduplicated against); counters over history (rebase interval, depth cap) that
are kept nowhere but recomputed from a graph others extend; a second encoding
pass that must offer the chunks the first one did not; in the daemon, single
flight, eviction and inodes under threads; in the transfer, partial and
concurrent downloads.  `PROJECT.json` lists each under `hazards`, at its line.

## 2. What is modelled

| Module | What it is |
|---|---|
| `Repository` | refs, HEAD, the object store, the commit graph, and `commit`, `merge`, `branch`, `checkout` as concurrent processes |
| `MCRepository` | the small instances TLC checks |
| `RepositoryProof` | TLAPS proofs about `Repository` for all values of its constants: types, what refs name, the store |
| `RepositoryWalkProof` | what the walks over the commit graph compute; the rebase interval and the depth cap |
| `RepositoryHistoryProof` | the ancestor walk; no commit is forgotten by accident; what holds besides for one command at a time |
| `ChunkCache` | the FUSE daemon's cache of decoded chunks under its event loop and worker threads |
| `MCChunkCache` | the small instances TLC checks |
| `ChunkCacheProof` | TLAPS proofs about `ChunkCache`: types, bytes, single flight, what readers get |
| `NumberInduction` | induction over numbers, for the recursive functions of all |
| `ContentStore` | what a repository is to whoever reads it: objects that only come, closed at every step, refs that name objects of it |
| `ObjectGraph`, `MCObjectGraph` | the objects as a graph, grown in the order the writers store them, and the walk of the sender that lists what a branch needs |
| `ObjectGraphProof` | TLAPS proofs about `ObjectGraph`: the walk lists all a commit leads to, once each, in post order |
| `Transfer`, `MCTransfer` | `serve`, `push` and `pull` between several repositories, message by message and file by file, with faults |
| `TransferProof` | TLAPS proofs about `Transfer`: types, closed stores, refinement of `ContentStore`, read-only servers; whole files, what is sent and what a reported push means for one receiver in a repository |
| `Verify`, `MCVerify` | the verifier's walk over a repository in which files were damaged |
| `VerifyProof` | TLAPS proofs about `Verify`: types, what "ok" means (also with `--content`), what is in the report |

How they fit together:

```
              ContentStore
              ^          ^                implements (checked and proved)
     Repository          Transfer <------ ObjectGraph ------> Verify
     (local commands)    (networking)     walk of the sender  what it walks over
                                          is the listing
     ChunkCache
     (reads object files, which never change under their names)
```

Local commands and transfers write to the same directory without a lock.  Both are
shown to implement `ContentStore`, and their interference is taken up where it can
do harm: `Transfer` has a step, `LocalCommit`, in which a user commits in a
repository that is being served, pulled into or pushed from.  `Transfer` assumes of
a list that it is complete, in post order and without duplicates (`ListingAssumption`);
`MCTransfer` makes its lists with the walk of `ObjectGraph`, and `ObjectGraphProof`
proves that the walk has the property on every graph the writers can grow
(`walk_graphs` checks it within bounds).  `Verify` walks over the graphs
`ObjectGraph` builds.  `ChunkCache` shares nothing with the rest but the object files.

### Repository

State: `head` (HEAD's text: a branch, or none and a commit), `refs` (a branch's
file, 0 if there is none), the four kinds of objects (`chunks`, `manifests`,
`checkpoints`, `commits`) and `job`, what each process holds in local variables.
A commit is numbered in the order its object is written.  `branch`, `checkout`,
`commit --base` and `merge` take the hash of any object (`_lookup_hash` looks for a
file and not into it), so refs name *documents*: document 1 is `config.json`, which
the first commit stores and which stands for every object that is no commit; the
others are the commits.  What a command does with such an object follows the code: the
walks take it for a root that is not full, a commit that would diff against it ends in
an error, a fast-forward does not look at it.

| Actions | Code |
|---|---|
| `CommitStart`, `CommitBase`, `CommitReadHead`, `CommitFull`, `CommitResidual`, `CommitFails` | `commit.run`: resolve `--base`, read HEAD, read the tip, decide full or residual, encode, second pass of the adaptive policy |
| `PutChunk`, `PutConfig`, `PutManifest`, `PutCheckpoint`, `WriteCommit` | one object each, in the order of `commit.run` and `write_checkpoint_objects`; common to commit and merge |
| `UpdateRef` | `repo.update_ref` at the end of commit, merge and `branch <name>` |
| `MergeStart`, `MergeTip`, `MergeDecide` | `merge.run`: the two reads of `read_head`, then the fast-forward or the three-way plan |
| `CreateStart`, `CreateResolve`, `DeleteStart`, `DeleteRef` | `branch <name> [<start>]`, `branch -d` |
| `RenameStart`, `RenameNew`, `RenameRead`, `RenameRef`, `RenameUnlink`, `RenameReadHead`, `RenameHead` | `rename_branch`, a step per file |
| `CheckoutStart`, `CheckoutHead` | resolve, reconstruct the file, move HEAD last |
| `Stop` | the process dies, or the command ends in an error |

A step that reads a file and only computes with what it read is one action with
that read; every file written is an action of its own.  A process keeps what it
read (`base`, `tip`, `br`, `new`) across its later steps: that is where stale
values come from.  `is_file` followed by `read_text` of the same ref is taken as
one read.

Data are cut down to what the properties tell apart:

* a tensor's content is a member of `Values`, and a tensor is one chunk;
* a manifest is a name and its chain of contents, newest first, so the depth of
  a tensor is the length of its chain; equal manifests are equal objects, which
  is what content addressing does;
* whether a residual or a raw chunk is smaller, whether alignment accepts the anchor
  or permutes a tensor (an unchanged one is then described anew), which of the tensors
  the first pass stored bytes for have a poor ratio, and what averaging yields, are
  free choices: whatever the numbers are, the control flow is covered.  A tensor whose
  chunk was there or came from an earlier tensor is charged nothing (`Charged`) and so
  is promoted only at the depth cap;
* two commits of equal content in one second are one object (`WriteCommit`);
* header and permutation objects are written where manifests are and named by them or
  by the checkpoint manifest; they are not told apart.  There is one config.

`atomic_write` is one step: an object is in the store or is not.  How that is
achieved, and what a power cut does to it, is not modelled (section 6).

### What the properties say

| Property | Meaning |
|---|---|
| `TypeOK` | types |
| `StoreClosed` | every object can be read back: the chunk and base manifest of a manifest, the manifests of a checkpoint manifest and the checkpoint manifest of a commit are in the store |
| `RefsNameObjects` | refs and a detached HEAD name what is stored, parents older documents |
| `NothingForgotten` | a step that makes a commit unreachable from all branches is a delete, or a write of a ref that changed after the command read it |
| `HeadStaysBorn` | HEAD's branch loses its ref only in the window of a rename of it |
| `DriftBounded` | fewer than `RebaseInterval` commits since the last full one, on every first-parent line |
| `RootsAreFull` | a commit with no parent is full |
| `DepthBounded` | one residual under the flat policy, fewer than `MaxDepth` under the adaptive, none for a full commit, provided roots are full |
| `RefinesStore` | refinement: seen as `ContentStore`, the store only grows, is closed at every step, and one ref or HEAD at a time moves, to an object that is there |
| `HeadNamesARef` | what `rename_branch`'s docstring says of HEAD; refuted, see 4 |

`NothingForgotten` is stated with its exception on purpose: refs are written
without compare-and-swap, so two concurrent commits on a branch lose one of
the two.  The property says that this, and a delete on request, are the *only*
ways.

### ChunkCache

State: `cache` (`_cache`, least recently used first), `bytes` (`current_bytes`),
`inflight`, `flights` (`_Flight`: the event, and the value or error), `worker` (the
threads of the read limiter: where each is in `get_or_compute`, the chunks of its
read and those it has), `loop` and `queue` (the event loop's inline probe, and the
reads that wait for a thread), `closed`.

| Actions | Code |
|---|---|
| `Request`, `ProbeHit`, `ProbeMiss` | `SynapseFSOperations.read` and `try_read_cached`: the loop asks for one chunk after the other and hands the read over at the first miss |
| `Take` | `to_thread.run_sync` gets a token of the limiter |
| `Hit`, `Join`, `Own` | the three outcomes of the first critical section of `get_or_compute` |
| `Decode` | `factory()`, without the lock; it may raise |
| `Put` (with `Store`) | `put`: replacement, eviction from the old end, oversized values |
| `Land`, `Wake` | the `finally`: the flight leaves the table under the lock; its event is set after that |
| `Resume` | `event.wait()` returns, with the value or the error |
| `Answer` | the pieces are joined |
| `Close` | `ops.close()` clears the cache at any moment; threads go on |

A critical section is one step, and so is all that a thread does between two of
them: it touches nothing shared.  A decoded array is named by its key, so a reader
that gets the wrong array, or an empty flight, is seen (`RightPieces`).  Only sizes
matter to eviction, and they are a constant.  A `_Flight` object is a number, used
again when no thread refers to it; there are as many as threads.  `put` with
`max_bytes` 0 returns at once; that is `Store`'s second disjunct, in which nothing
changes as nothing is cached.  Rows and byte ranges
within a chunk are left out; the inline probe is on, the default, not switched off by
`SYNAPSEFS_INLINE_HITS=0`.

### What the properties say

| Property | Meaning |
|---|---|
| `TypeOK` | types |
| `BytesExact` | `current_bytes` is the sum over what is cached, within the maximum; no chunk is there twice |
| `DecodedOnce` | a chunk is produced by one thread at a time, and is not cached while it is: `put` never replaces |
| `FlightsOwned` | who waits waits for a flight that has landed or has an owner; a listed flight has an owner |
| `RightPieces` | a read gets the chunks it covers, in order |
| `EveryReadEnds` | a read that a thread took ends, and a full queue moves |

### ObjectGraph

State: `nodes`, the manifests and commits in the order they were stored; chunks,
headers, permutations and configs are leaves, named by what names them.  `PutTensor`,
`PutCheckpoint` and `PutCommit` build every graph the writers can build.  `Walk` is
`branch_get_objects` with `commit_get_objects`, `checkpoint_get_objects` and
`tensor_get_objects` below it: a list that is extended in place, and `HashList`,
which leaves out what it has (`push.cpp`).

| Property | Meaning |
|---|---|
| `WalkIsComplete` | the list of a commit is exactly what the commit leads to, by *all* fields of the objects |
| `WalkIsPostOrder` | nothing comes twice, nothing before what it names, the commit last |

The receiver needs both: what is missing in the list is missing in every clone, and
what is out of order is a dangling name when the transfer is cut off there.

### Transfer

State: the files of every repository at their own names (`final`) and at their
temporary ones (`part`), the bytes on their way in each direction (`wire`) with the
ends still open (`ends`), and `job`, what each process holds: its list, the objects
reported present, its place in the list, the file it has open.

| Actions | Code |
|---|---|
| `Start`, `Accept`, `Status` | `connect_server` and the request; the loop of `serve`; the status that comes back |
| `SendList`, `RecvFlags`, `Skip`, `SendFile`, `SendDone` | the sender (`push.cpp`; a server that is pulled from runs the same code) |
| `RecvList`, `RecvError`, `Check`, `SendFlags` | the receiver (`pull.cpp`): the list, `has_hash` for each, the flags |
| `RecvSize`, `RecvData`, `Rename` | `recv_file`: the length and the opening of `<path>.tmp`, its bytes, the rename |
| `RefOpen`, `RefWrite`, `RefRename` | the ref, from the last hash of the list |
| `RecvFails`, `SendFails`, `BrokenPipe` | the peer has gone: at a read, at a write that returns an error, at a write that raises SIGPIPE |
| `Cut`, `Kill`, `DiskFull`, `Serve` | faults: the connection breaks and loses what is on its way; a process dies and leaves its files; a write fails; a server is started again |
| `LocalCommit` | a user commits in the repository meanwhile, as `Repository` has it |

An open file is not a name: when two receivers of one repository open the same
`.tmp`, the second truncates what the first is writing, and a rename takes the open
file along.  `at` says whether what a process has open is at the temporary name, at
the final one, or nowhere (`Moved`).  `SendFile`'s case of an object that is gone is
the code's; nothing removes objects, so it does not happen.  Hashing is not modelled
because there is none: the receiver trusts the name (section 4).

| Property | Meaning |
|---|---|
| `TypeOK` | types; in particular no process reads past its list |
| `StoresClosed` | what a present object names is present, and a ref names a present commit or is empty: `has_hash`, and the deduplication of every later commit, relies on it |
| `RefinesStore` | every repository implements `ContentStore` at every step of whoever works in it |
| `FilesWhole` | where one process at most receives in each repository (`SoleReceiver`): every file at its own name is complete |
| `NothingResent` | an object in place is not written again, unless a user put it there after the flags were made |
| `PushLands` | a push that reported success has moved the ref when the server is done with it, unless something failed: nothing is confirmed, so all rests on the server's reading what the client sent before it closed |
| `ReadOnlyKept` | in a read-only server's repository only a user's commit or a user's pull changes a file, temporary ones included |
| `CommandsEnd`, `ServerReturns` | every command ends; a server that lives goes back to `accept` |

### Verify

State: the graph (`nodes`), which version of the compressor wrote a chunk's file
(`payload`) and which one the checksums of a manifest are of (`recorded`), the damage
(`harm`), and the variables of one run: the queue of commits and those seen, what of
the current commit is still to follow (`todo`), the memo tables `okObjects`,
`okChunks`, `bad`, and the report.

| Actions | Code |
|---|---|
| `PutTensor`, `PutOther` | the history: commits are written, chunks deduplicated |
| `Damage` | a file is removed, is no JSON any more, has other contents and the same links, or other contents and the same short checksum |
| `Begin` | `verify <ref>` or `--all`, a tier, with or without `--content` |
| `VisitCommit`, `VisitObject`, `VisitChunk`, `EndWalk` | the walk: `load_object`, `fail` and its cap, the memo tables, the tiers |
| `RebuildCommit`, `RebuildTensor`, `EndRebuild` | `_verify_tensor_content_hashes` |

The damage is done before the run; it is what verify is for.  Seen parents are queued
and passed over, where the code leaves them out of the queue.  An object that parses
and lacks a field is left out: no writer makes one, and damage that leaves an object
readable keeps its links in the model.  Two tips stand for `--all`.

| Property | Meaning |
|---|---|
| `TypeOK` | types |
| `OkMeansWhole` | a run that says ok leaves no visible damage in anything the chain of trust leads to, whatever the memo tables and the cap left out |
| `FailuresExact` | the report has every damaged file that can be reached past whole ones, once; besides these at most chunks whose checksum is of another version's payload (`Stale`); a report that was cut says so |
| `RebuildIsSound` | with `--content`, ok means every tensor of the history can be read back, bases and permutations included |
| `NoFalseAlarm` | a repository nothing happened to is found whole, whatever compressors wrote it; refuted, see 4 |

## 3. The runs

| Run | Instance | Shows |
|---|---|---|
| `refs_concurrent` | 2 processes, 2 branches, one file, 2 commits, every command with any hash, a death at any ref or HEAD step | `RefsNameObjects`, `NothingForgotten`; no deadlock |
| `store_concurrent` | 2 processes that commit (`--base` too) and merge any commit and may die before any write; one file, 4 commits, interval 2 | `TypeOK`, `StoreClosed`, `DriftBounded`, `RefinesStore` |
| `history_serial` | 1 process, every command, deaths, 3 commits of three files of up to 2 tensors, both policies in any mixture, cap 2, interval 4 | `StoreClosed`, `RootsAreFull`, `DepthBounded`, `HeadStaysBorn`; no deadlock |
| `rename_head`, `root_residual`, `adaptive_dangling`, `verify_upgrade` | the smallest instance that shows the finding | one refuted claim each |
| `cache_readers` | 2 threads and the event loop, 3 chunks (two that do not fit together, and one that never fits), reads of one and of two chunks | `TypeOK`, `BytesExact`, `DecodedOnce`, `FlightsOwned`, `RightPieces`, and `EveryReadEnds` under fairness |
| `walk_graphs` | every graph of up to 2 tensor manifests, 2 checkpoints and 3 commits, with base, permutations, config and merges | `WalkIsComplete`, `WalkIsPostOrder` |
| `transfer_faults` | a pull and two pushes among 3 repositories, one served read-only, a commit by a user, a second try of each command, one fault anywhere | `TypeOK`, `FilesWhole`, `NothingResent`, `ReadOnlyKept`, `PushLands` |
| `transfer_shared` | 2 pulls into one repository, or a pull into it and a push from it, a commit made there meanwhile, one fault anywhere | `StoresClosed`, `RefinesStore`, and `CommandsEnd`, `ServerReturns` under fairness |
| `verify_walk` | every history of 2 commits, 1 checkpoint and 2 tensors that share a chunk or rest on each other; 1 or 2 tips; up to 2 damaged files, a cap of 1 failure, every tier, with and without `--content`; 2 versions of the compressor | `TypeOK`, `OkMeansWhole`, `FailuresExact`, `RebuildIsSound` |

**Bounds, repository.**  `MaxCommits` stops new commits and merges from being begun;
processes already past that test still finish, so there can be more.  Two commits are
enough for a base and a residual on it and for a lost update; `store_concurrent` has
four, so that two processes can make a divergence and merge it (the sides are named by
hash, so no second branch is needed), and a residual, its base and a process that dies
are there before that.  In `history_serial` a third commit lets the adaptive chain
reach its cap, and a full commit under it be anchored on or walked through.  One file
is enough where contents are not told apart: committed twice it is reused, or, under a
permutation, a residual of itself, and its chunks are found in the store; files in
which no two tensors share a content are what `NoTies` (section 5) allows, and one of
them lacks a tensor, so that merges of unlike checkpoints happen; equal contents are
the subject of `adaptive_dangling`.  Two processes are enough for a stale read and a write between; the properties mention one
stale process at a time.  Two branches give the current one and another.
`Stops` names the steps a command may die at: dying earlier leaves nothing behind
and equals not having begun.  `RebaseInterval` is 4 and `MaxDepth` 3 in the code;
where a run is about one of them it uses 2, so that the interval, or the cap, is
reached; `refs_concurrent` looks at neither, and its interval of 1 makes every commit
full.  The two processes are interchangeable, hence `SYMMETRY` in
`refs_concurrent.cfg` and `store_concurrent.cfg`.  `store_concurrent` has no checkout:
that HEAD moves like a ref is covered by the theorem `RepositoryImplementsStore`.

**Bounds, cache.**  Two threads are an owner and a waiter, or an owner and one that
evicts between its steps; the event loop looks up as a third.  The chunks make an
eviction, a hit and a refusal all happen.  The safety properties are proved for any
number of threads.  `MaxQueue` bounds the reads that wait, and the kernel's requests
while they do; the reads are not bounded in number.

**Bounds, walk and transfer.**  Three commits give a merge and a shared ancestor, two
tensors a base, two checkpoints a manifest that both use.  A transfer's instance has
a header, a checkpoint, a root and two commits on it: two branches of history that
share all but their tips, so that a part of each list is present and a part is sent.
Two clients are enough for a wait at the one server and for two processes with the
same temporary file; three repositories for one that is both pushed to and served.
`MaxFaults` 1 breaks one thing at any step; a second try (`MaxRuns` 2) meets what it
left.  With two faults `transfer_faults` finds nothing either (1.9 million states),
but takes more than five minutes.  `MaxRuns` is 1 in `transfer_shared`, where the
other client does what a second try would.

**Bounds, verify.**  A cap of one and two damaged files make the report be cut; two
damaged files also make one hide the other.  Two tips with the second reachable from
the first, or not, exercise the shared memo tables.  Two versions of the compressor
(interchangeable, hence `SYMMETRY`) make a chunk and the checksum of it differ.
Merges, a second checkpoint and configs appear in `walk_graphs` and in the theorem
`OkIsWhole`, which has no bounds.

**Fairness.**  Nothing in the repository part waits for anything, and all its
properties are safety properties.  `EveryReadEnds` assumes weak fairness of each
thread's next step and of its taking a queued read.  The threads are the system's,
preemptive; every step is a bounded piece of work on local files or under a lock held for a moment, and
`event.wait()`, which has no timeout, is the one that blocks.  Nothing is assumed of
the event loop, of requests or of `close()`.  What the property needs is thus what
the code has to provide: that somebody sets the event.
`FairSpec` of `Transfer` assumes weak fairness of each process's own steps and of
`Accept`: processes that run keep running, and a server takes a connection when there
is one.  Nothing is assumed of users, of faults or of a restart.  There is no timeout
in the code: a client that is suspended and stays connected would hold the server for
ever, and fairness excludes just that.

`CHECK_DEADLOCK FALSE` is set where the system may stop: where all commands of the
instance end with `MaxCommits` reached; a closed daemon whose threads are idle
(`EveryReadEnds` shows that they become idle); transfers when every client has had
its `MaxRuns` (`CommandsEnd` and `ServerReturns` show that nobody hangs before); a
graph of full size; a verify that has answered.

Each property of a passing run has a mutant in `PROJECT.json`: a definition of the
model changed the way a plausible bug would, which the run then finds.  The
mutated operators stand in the module, marked *Faulty*.

## 4. Findings

1. **`rename_head`**: `rename_branch` deletes the old ref before it re-attaches
   HEAD; its docstring claims HEAD "still names a ref that exists" until then.
   A rename that dies in between leaves the current branch unborn.
2. **`root_residual`**: with HEAD unborn, `commit --base <hash>` writes a root
   commit that is a residual; docs and `graph.py` say roots are full.
   `DepthBounded` is therefore stated under the condition that roots are full.
3. **`adaptive_dangling`**: under `--anchor-policy adaptive`, with two tensors that have
   different bases and become equal, and of which only the later is promoted, the
   promoted manifest names a chunk that was never stored: the first pass stored two
   different deltas, the second offers the raw chunk under the first tensor, where it
   is not let through.  `StoreClosed` is checked and proved without
   that case (`NoTies`, section 5).
4. **`verify_upgrade`**: the checksum in a manifest is of the payload just made; if the
   chunk was already there, written by another version or level of the compressor,
   `verify` reports a mismatch in an undamaged repository, though `README.md:106` calls
   deduplication "immune to compression level changes or library upgrades".
   `FailuresExact`, which holds, says that this is the only false alarm there is.

Seen while modelling.  The model has the steps, but no run of its own shows them, or a
property that holds has them as its condition:

* `resolve_ref` "Returns the resolved commit hash" (`repo.py:221`), and takes the hash
  of any object there is: `branch <name> <hash>` makes a branch that names a config, a
  manifest or a chunk, and `checkout --no-materialize` detaches HEAD there.  The format
  says that a ref never points at an inconsistent commit (`FORMAT.md:118`).  No
  property here says that a ref names a commit: what holds is `RefsNameObjects`, and
  what walks from such a branch meets an object that is no commit.
* `branch -d` looks at HEAD when it starts; a `checkout` of the branch before the
  unlink, and the current branch is deleted, which "fails with **2**" (`CLI.md:211`).
* `read_head` reads HEAD and then the ref; a rename between the two makes a branch with
  commits look unborn, "the state right after `init`" (`repo.py:151`), and `commit`
  writes a second root under the old name.  `HeadStaysBorn` is therefore checked with
  one command at a time.
* A tensor only *their* side has is missing from the merge commit (`merge.py:206`); the
  CLI reference says "take that side" (`CLI.md:416`).
* Two receivers in one repository share `<object>.tmp` (`network_common.hpp:316`): one
  may rename a file the other has just truncated.  `FilesWhole` fails in the instance
  of `transfer_shared`, and holds where one process receives in a repository (`SoleReceiver`:
  `transfer_faults` and the theorem `FilesAreWhole`).  The store stays closed all the same (`StoresClosed`): names
  are right, contents may be cut off or empty.
* A write to a connection whose client has gone raises SIGPIPE, which nothing
  ignores, and ends the server (`BrokenPipe`); `networking/README.md:76` says it
  accepts "until it is terminated".  `ServerReturns` is about servers that live.
* `push` reports success when its last byte is sent (`push.cpp:319`), before the
  receiver has installed anything.  `PushLands` is stated for runs without a fault.
* `CLI.md:516` promises exit code 4 "if a received object fails its hash check"; the
  receiver computes no hash.
* The default walk of `verify` follows chunks, not the base manifests and
  permutations of a residual (`verify.py:319`), though `kris_docs.md:829` speaks of
  every reachable object.  Hence `Links`, the chain of trust at the head of `verify.py`,
  in `OkMeansWhole`, and `RebuildIsSound` for `--content` only.
* `verify --content` ends with an exception, without its report, at a manifest that is
  missing or does not parse (`verify.py:475`; phases `refused` and `raised`); the
  properties speak of the runs that answer.

## 5. The proofs

The theorems hold for any sets of processes, branches, names, contents and
commands, any policies among the two and any bounds (assumptions: the named `ASSUME`s
of `Repository`).

`RepositoryProof`:

* `RepositoryImplementsStore`: `NoTies` implies `Spec => RefinesStore`.  A step of
  `Repository` appends at most one object, and what it names is there by the invariant
  of `Closed`; at most one of HEAD and the refs moves, to a document that is there by
  the invariant of `Named`.
* `Types`: `Spec => []TypeOK` and `Named`: `Spec => []RefsNameObjects`.  The
  inductive invariant is `TypeInv`: beside the two, `JobsName`, that whatever
  number a process holds names a stored document.  Without it `UpdateRef`
  could write a ref that names nothing.  Documents are only appended
  (`AppendCommit`), so a number that named one keeps naming it, whatever
  others do in between.
* `Closed`: `NoTies` implies `Spec => []StoreClosed`.  `NoTies` is the condition
  finding 3 makes necessary: the adaptive policy is not on offer, or no two
  tensors of a file are equal.  The inductive invariant is `ClosedInv`,
  `StoreClosed` and `JobsSound`: the plan of a process that is writing is
  *sound*, that is, each manifest it will write names a chunk the plan offers and
  a base manifest already in the store, and each manifest it reuses is in the
  store.  `FullPlanSound`, `ResidualPlanSound` and `AdaptivePlanSound` show
  this of the three ways to make a plan; since the store only grows, it survives
  the steps of all others.

`RepositoryWalkProof`:

* `Drift`: `Spec => []DriftBounded`.  The decision to write a residual is taken
  long before the commit is written, so the invariant `DriftInv` carries it
  over: the parent of a residual commit in the making still leaves room below the
  interval (`RoomLeft`), because what `commits_since_full` says of an old commit
  never changes (`SinceStable`).
* `DepthIsBounded`: `Spec => []DepthBounded`.  `ShallowInv` bounds the chains of
  every commit *and* of every tree a process is about to write.  A residual rests
  on the nearest full ancestor (`AnchorWalks`: with full roots the walk ends at a
  full commit) or, under the adaptive policy, on a chain that is below the cap.

`RepositoryHistoryProof`:

* `Forgotten`: `Spec => NothingForgotten`.  `KeepsInv`: the commit a command moves
  a branch to descends from the tip it read.  If the ref still holds that tip the
  write keeps all it reached; if not, the write is the exception the property
  names.  It needs that ancestors are closed under the relation (`Descent`)
  and that a new commit changes nobody's ancestors (`AncestorsStable`).

The shape is the same for all: lemmas about chains, plans and walks, one lemma
per group of actions, one per-step lemma that combines them, and a temporal step.
The walks are recursive functions on commit numbers.  `NumberInduction` derives
induction over a set of numbers (`UpTo`) from the well-foundedness of the naturals;
from it, `WalkExists` and `SweepExists` show that a function with the recursion's
equations exists, because parents are older than their children (a part of
`RefsNameObjects`), and `SinceStable` and `AncestorsStable` that it says the same
of an old commit after a new one is appended (`Grows`).

`ChunkCacheProof`, for any finite set of threads, any chunks, sizes, maximum and reads:

* `CacheTypes`: `Spec => []TypeOK` and `Bytes`: `Spec => []BytesExact`.  The inductive
  invariant is `TypeInv`, a part for each group of variables; the part about the
  cache is `Exact`, which is `BytesExact`.  The bytes of a sequence are a recursive
  function; `WeightsSum` shows that it exists, `PrefixWeight`, `SuffixWeight`,
  `AppendWeight` and `RemoveWeight` what becomes of it when chunks are evicted,
  appended or taken out of the middle.  `StoreFacts` puts these together: as no chunk
  is cached twice, taking off the size of the old entry and of the evicted ones
  leaves the sum of the rest.
* `Single`: `Spec => []DecodedOnce`, `Owned`: `Spec => []FlightsOwned` and `Pieces`:
  `Spec => []RightPieces`.  The three need each other and two more parts in
  `FlightInv`: `Owners` (an owner's flight is the one in the table until it lands, is
  nobody else's, and its event is set last) and `Outcomes` (a landed flight hands over
  the chunk its waiters want, or the failure).  The crucial case is `WakeFlights`: a
  waiter may only be woken with what *it* wants, and it wants what the owner wanted
  because its flight was not set and so, by `FlightsOwned`, has an owner that wants
  the same, and by `Owners` no other.

`TransferProof`, for any repositories, clients, objects and listings, any number of
commands and faults, and users who commit meanwhile:

* `TypesOK`: `Spec => []TypeOK` and `TransfersKeepStoresClosed`:
  `Spec => []StoresClosed`.  The receiver installs the i-th object of its list, and
  what that object names is present *because it is before it in the list*.  So the
  inductive invariant has, beside the two, `JobsOK`: a list is a listing, everything
  before a receiver's place in it is present, and so is all that was found present;
  and `PartsNamed`: a temporary ref file, which another process may have written,
  names a present commit or is empty.  Presence only grows, so these survive what
  others do, whoever renames or removes the shared temporary files.
* `TransfersImplementStores`: `Spec => RefinesStore`.  From the same invariant, and
  from `FilesChange`: a step changes one file, or is a user's commit.
* `ReadOnlyIsKept`: `Spec => ReadOnlyKept`.  `Roles`: a process that is at work carries
  out a command, a server that was pushed to is not read-only, and who sends does not
  receive.  `FilesAuthor`: only a receiver, or a user's commit, changes files.
* `FilesAreWhole`, `NothingIsResent`, `PushesLand`: under `SoleReceiver`, `FilesWhole`,
  `NothingResent` and `PushLands`.  `SoleReceiver` is a condition on the commands (no two
  clients' pushes and pulls end in the same repository); `transfer_faults` meets it, and
  without it the first fails (section 4).  Nothing in the stream says which file a
  length or the bytes after it are of: sender and receiver each go through their copy of
  the list and leave out what the flags say is present.  So the inductive invariant says
  that the two agree.  `Sessions`: a connection has one server (`OneServer`); what is on
  its way to a process is what it waits for (`Streams`: for a receiver, `Carries` maps
  each message to the next wanted place of the list, however often the stream is cut);
  while the connection is open both ends are at matching stages with equal lists and
  flags, and the stream ends where the sender is (`Pairs`, `UpTo`); an unaccepted request
  belongs to a client that waits or has gone (`Requests`); and without a fault, what a
  push that reported success has sent reaches to the end of the list (`Deliveries`).
  `FilesInv`: the receiver's temporary file holds what its place in the list asks for
  (`Holds`), and what it does not take for present is not (`Unseen`, which needs that no
  object is listed twice).  `PushesLand` is `Deliveries` read at the server's last step:
  it cannot meet the end of the stream, nor an error, before the ref is moved.

`VerifyProof`, for any graph, damage, cap and tier:

* `TypesOK`: `Spec => []TypeOK`.
* `OkIsWhole`: `Spec => []OkMeansWhole`.  The argument is the one of every graph
  search.  `CoverInv`: an accepted file leads only to files that were met (accepted, or
  found bad) or that still wait in the queue or among the references to follow, and no
  accepted file is damaged in a way the tier shows.  At the end nothing waits, so what
  was met is closed; if nothing failed, all of it is accepted, and what is reached from
  the tips in any number of steps is in it.  The memo tables are sound because they hold
  accepted files only; the cap because a failure that is not recorded follows one that was.
* `OkIsRebuilt`: `Spec => []RebuildIsSound`.  The walk follows chunks, never bases or
  permutations, so what it accepted is not all a reader needs.  `RebuildInv`: every
  commit the pass of `--content` has seen leads to commits it has seen or that wait, and
  every tensor of its checkpoint was read back or waits.  The pass passes over commits it
  cannot read, which is sound only because of `CoverInv`: there is none when nothing has
  failed.  Then (`RebuildMeansWhole`) what is k names away from a tip is a commit, a
  manifest or a leaf the walk accepted, or at most k names away from a tensor that was
  read back, by induction on k.
* `ReportExact`: `Spec => []FailuresExact`, for any number of versions of the
  compressor.  `put` leaves a chunk as it is when it is present, so with two versions a
  manifest may record the checksum of a payload nobody stored, and an undamaged chunk
  fails; that nothing else does is what the theorem adds to `OkIsWhole`.
  `ExactInv`: what waits is reached past whole files and what is bad is
  besides damaged in a way the tier shows, or a chunk with a stale checksum (`OnPath`,
  which needs `ChunkRefs`: a reference to a chunk that is followed is one of the
  manifest whose checksum is compared); the report lists what is bad, each
  once, or it is full and says that more is bad (`Report`).  That what is reached in
  `Len(nodes)` steps is closed under links (`PastWholeClosed`) needs `Ordered`: an object
  leads to older ones only.

`ObjectGraphProof`, for any leaves and any bounds:

* `PostOrder`: `Spec => []WalkIsPostOrder` and `Complete`: `Spec => []WalkIsComplete`.
  The inductive invariant is `GraphInv`: the fields of the objects are typed, and an
  object names older ones only, so the graph has no cycle.  From it the recursive
  functions `TensorWalk` and `CommitWalk` exist (`RecursionExists`) and are what their
  equations say, and so are the folds over the tensors of a checkpoint, the parents of
  a commit and the leaves of a tensor (`WalkEachSteps`, `InsertAllSteps`).  What is
  proved of a walk, by induction over the number of the object it starts from, has to
  speak of any list it is called with, for `HashList` is shared by all the calls
  (`Done`): a list that can be installed in order stays one, keeps what it has, gets
  the object, and gets no more than the object leads to.  An object that was not
  listed comes last, because what it leads to is older than itself and so cannot have
  listed it.  `ReachableWhole`: as names only fall, `Len(nodes)` steps reach everything.

Only model-checked: `EveryReadEnds`, `CommandsEnd` and `ServerReturns`.  Liveness is out
of the prover's reach and stays with TLC.  Every invariant and every action property
that a passing run checks is proved.

## 6. What is not modelled, and the plan

* `atomic.py` (`Durable`).  `Repository` and `Transfer` have crashes of processes, not
  of the machine.  What a model of fsync, rename and directory fsync is to decide:
  `put` passes over an object another process has renamed and not yet synced, and then
  syncs the ref that needs it; the parents of new shard directories are never synced;
  received files are not synced at all, though `atomic.py:6-11` describes one path for
  all writes; the cleaner takes a temporary file for abandoned after 15 minutes without
  a write, which a merge's staged file may outlive.
* `fuse/fs.py`, `fuse/daemon.py` (`Mount`): inodes and lookup counts, what an open
  file shows while branches move, the mount record and the pid.
* `codec/chunk.py` (`ChunkCodec`): zigzag, escapes and the modular delta at a small
  width, decoding against encoding over all inputs.

Left out for good: the alignment solver (numerical optimisation), the safetensors
parser and the command-line front end (sequential, stateless), log, restore and
materialization (they change nothing in the repository), the vendored JSON parser
(`nlohmann/json.hpp`), the C file Cython generates (`fast_chunk.c`), benchmarks and
notebooks.  Those two files are 61,602 of the 62,715 lines of C and C++; of the
1,113 lines that are the project's own, the networking code, all that changes state
is in `Transfer` and `ObjectGraph`.  In them, the branch names' syntax, an operation
byte that is neither push nor pull, the setup of sockets and the wording of errors
are left out.
