----------------------------- MODULE ChunkCache -----------------------------
(***************************************************************************)
(* The decoded-chunk cache of the FUSE daemon (fuse/cache.py) and the      *)
(* threads that use it: the event loop, which serves a read inline if      *)
(* every chunk of it is cached, and the worker threads it hands the other  *)
(* reads to, as many as the capacity limiter lets in.                      *)
(*                                                                         *)
(* One critical section of the cache's lock is one step, and so is one     *)
(* decode, which holds no lock.  A chunk is the key it is cached under, so *)
(* the array decoded from it needs no other name; Size gives its bytes.    *)
(*                                                                         *)
(* A _Flight object lives as long as a thread refers to it.  It is a       *)
(* number that may be used again after that, so there are no more of them  *)
(* than threads.                                                           *)
(***************************************************************************)
EXTENDS Naturals, Sequences, FiniteSets, SequencesExt

CONSTANTS
    Keys,       \* chunks: (commit, tensor, first row, last row)
    Size,       \* the bytes of each one decoded
    MaxBytes,   \* --cache-size
    Workers,    \* the threads of the read limiter
    Reads,      \* the chunks a read covers, in file order
    MaxQueue,   \* reads that wait for a worker, at most
    NoValue,    \* what a flight holds before its decode ends
    Failure     \* and after a decode that raised

ASSUME SizeAssumption == Size \in [Keys -> Nat] /\ MaxBytes \in Nat
ASSUME ReadsAssumption == Reads \subseteq Seq(Keys) \ {<<>>}
ASSUME QueueAssumption == MaxQueue \in Nat \ {0}
ASSUME WorkersAssumption == IsFiniteSet(Workers)
ASSUME OutcomeAssumption == NoValue # Failure /\ NoValue \notin Keys /\ Failure \notin Keys

VARIABLES
    cache,      \* _cache: the keys cached, least recently used first
    bytes,      \* current_bytes
    inflight,   \* _inflight: the flight of each key, 0 if there is none
    flights,    \* whether a flight's event is set, and what it hands over
    worker,     \* what each worker thread is doing
    loop,       \* the read the event loop is probing for, and how far it is
    queue,      \* reads waiting for a worker
    closed      \* whether the daemon is shutting down

vars == <<cache, bytes, inflight, flights, worker, loop, queue, closed>>

Flights == 1..Cardinality(Workers)

Idle == [pc |-> "idle", read |-> <<>>, got |-> <<>>, flight |-> 0]
NoProbe == [read |-> <<>>, seen |-> 0]

At(t, pc) == worker[t].pc = pc
Wanted(t) == worker[t].read[Len(worker[t].got) + 1]
Goto(t, pc) == worker' = [worker EXCEPT ![t].pc = pc]

Init ==
    /\ cache = <<>> /\ bytes = 0
    /\ inflight = [k \in Keys |-> 0]
    /\ flights = [f \in Flights |-> [set |-> FALSE, value |-> NoValue]]
    /\ worker = [t \in Workers |-> Idle]
    /\ loop = NoProbe /\ queue = <<>> /\ closed = FALSE

-----------------------------------------------------------------------------
(* The cache proper; every operator here is used under the lock.           *)

Cached(k) == \E i \in DOMAIN cache : cache[i] = k

\* OrderedDict.pop(k, None).
Others(k) ==
    IF Cached(k) THEN RemoveAt(cache, CHOOSE i \in DOMAIN cache : cache[i] = k) ELSE cache

\* OrderedDict.move_to_end(k).
Touch(k) == cache' = Append(Others(k), k)

\* The bytes of the first n chunks of s.
Weights(s) ==
    LET sum[n \in 0..Len(s)] == IF n = 0 THEN 0 ELSE sum[n - 1] + Size[s[n]]
    IN  sum
Weight(s) == Weights(s)[Len(s)]

\* Of the chunks s, of held bytes, the oldest n go to make room for more.
Evicts(s, held, more, n) ==
    /\ n = Len(s) \/ held + more <= MaxBytes + Weights(s)[n]
    /\ \A m \in 0..(n - 1) : held + more > MaxBytes + Weights(s)[m]

\* Faulty: put forgets to give back the bytes of what it evicts.
StoreUncounted(k) ==
    /\ MaxBytes > 0 /\ Size[k] <= MaxBytes
    /\ \E n \in 0..Len(Others(k)) :
          /\ Evicts(Others(k), bytes, Size[k], n)
          /\ cache' = Append(SubSeq(Others(k), n + 1, Len(Others(k))), k)
          /\ bytes' = bytes + Size[k]

\* Faulty: put takes off the bytes of an old entry even if there is none.
StoreReplacing(k) ==
    /\ cache' = IF Size[k] > MaxBytes THEN Others(k) ELSE Append(Others(k), k)
    /\ bytes' = IF Size[k] > MaxBytes THEN bytes - Size[k] ELSE bytes

\* put.  The code returns at once if MaxBytes is 0; nothing is ever cached
\* then, and the second disjunct changes nothing.
Store(k) ==
    LET others == Others(k)
        held == IF Cached(k) THEN bytes - Size[k] ELSE bytes
    IN  \/ /\ MaxBytes > 0 /\ Size[k] <= MaxBytes
           /\ \E n \in 0..Len(others) :
                 /\ Evicts(others, held, Size[k], n)
                 /\ cache' = Append(SubSeq(others, n + 1, Len(others)), k)
                 /\ bytes' = held - Weights(others)[n] + Size[k]
        \/ /\ MaxBytes = 0 \/ Size[k] > MaxBytes
           /\ cache' = others /\ bytes' = held

-----------------------------------------------------------------------------
(* The event loop.                                                         *)

\* A read of the kernel arrives.
Request(r) ==
    /\ ~closed /\ loop = NoProbe /\ Len(queue) < MaxQueue
    /\ loop' = [read |-> r, seen |-> 0]
    /\ UNCHANGED <<cache, bytes, inflight, flights, worker, queue, closed>>

\* try_read_cached asks for the chunks one by one and answers after the last.
ProbeHit ==
    /\ loop # NoProbe
    /\ LET k == loop.read[loop.seen + 1]
       IN  Cached(k) /\ Touch(k)
    /\ loop' = IF loop.seen + 1 = Len(loop.read) THEN NoProbe
                                                 ELSE [loop EXCEPT !.seen = @ + 1]
    /\ UNCHANGED <<bytes, inflight, flights, worker, queue, closed>>

\* A chunk is missing: the whole read goes to a worker.
ProbeMiss ==
    /\ loop # NoProbe
    /\ ~Cached(loop.read[loop.seen + 1])
    /\ queue' = Append(queue, loop.read)
    /\ loop' = NoProbe
    /\ UNCHANGED <<cache, bytes, inflight, flights, worker, closed>>

\* The loop ends, by a signal in the middle of anything or by an unmount, and
\* ops.close() clears the cache; reads in progress go on in their threads.
Close ==
    /\ ~closed
    /\ closed' = TRUE
    /\ cache' = <<>> /\ bytes' = 0
    /\ loop' = NoProbe /\ queue' = <<>>
    /\ UNCHANGED <<inflight, flights, worker>>

-----------------------------------------------------------------------------
(* get_or_compute.                                                         *)

\* The worker t has v for the chunk it wants.
Receive(t, v) ==
    LET got == Append(worker[t].got, v)
    IN  worker' = [worker EXCEPT ![t] =
            [pc |-> IF Len(got) = Len(worker[t].read) THEN "answer" ELSE "lookup",
             read |-> worker[t].read, got |-> got, flight |-> 0]]

\* A read ends when a decode it waits for raises.
Fail(t) == worker' = [worker EXCEPT ![t] = Idle]

Take(t) ==
    /\ At(t, "idle") /\ queue # <<>>
    /\ worker' = [worker EXCEPT ![t] = [pc |-> "lookup", read |-> Head(queue),
                                        got |-> <<>>, flight |-> 0]]
    /\ queue' = Tail(queue)
    /\ UNCHANGED <<cache, bytes, inflight, flights, loop, closed>>

Hit(t) ==
    /\ At(t, "lookup") /\ Cached(Wanted(t))
    /\ Touch(Wanted(t))
    /\ Receive(t, Wanted(t))
    /\ UNCHANGED <<bytes, inflight, flights, loop, queue, closed>>

\* Another thread is decoding the chunk.
Join(t) ==
    /\ At(t, "lookup") /\ ~Cached(Wanted(t))
    /\ inflight[Wanted(t)] # 0
    /\ worker' = [worker EXCEPT ![t].pc = "wait", ![t].flight = inflight[Wanted(t)]]
    /\ UNCHANGED <<cache, bytes, inflight, flights, loop, queue, closed>>

Unused == {f \in Flights : \A t \in Workers : worker[t].flight # f}

\* Nobody is: t owns the decode.
Own(t) ==
    /\ At(t, "lookup") /\ ~Cached(Wanted(t))
    /\ inflight[Wanted(t)] = 0
    /\ \E f \in Unused :
          /\ \A g \in Unused : f <= g
          /\ inflight' = [inflight EXCEPT ![Wanted(t)] = f]
          /\ flights' = [flights EXCEPT ![f] = [set |-> FALSE, value |-> NoValue]]
          /\ worker' = [worker EXCEPT ![t].pc = "decode", ![t].flight = f]
    /\ UNCHANGED <<cache, bytes, loop, queue, closed>>

\* Faulty: the flight leaves the table as soon as the decode is done.
DecodeUnlisted(t) ==
    /\ At(t, "decode")
    /\ flights' = [flights EXCEPT ![worker[t].flight].value = Wanted(t)]
    /\ inflight' = [inflight EXCEPT ![Wanted(t)] = 0]
    /\ Goto(t, "put")
    /\ UNCHANGED <<cache, bytes, loop, queue, closed>>

\* factory() returns, or raises.
Decode(t) ==
    /\ At(t, "decode")
    /\ \/ /\ flights' = [flights EXCEPT ![worker[t].flight].value = Wanted(t)]
          /\ Goto(t, "put")
       \/ /\ flights' = [flights EXCEPT ![worker[t].flight].value = Failure]
          /\ Goto(t, "land")
    /\ UNCHANGED <<cache, bytes, inflight, loop, queue, closed>>

Put(t) ==
    /\ At(t, "put")
    /\ Store(Wanted(t))
    /\ Goto(t, "land")
    /\ UNCHANGED <<inflight, flights, loop, queue, closed>>

\* Faulty: only a decode that succeeded takes its flight out of the table.
LandSuccess(t) ==
    /\ At(t, "land")
    /\ inflight' = IF flights[worker[t].flight].value = Failure
                   THEN inflight ELSE [inflight EXCEPT ![Wanted(t)] = 0]
    /\ Goto(t, "wake")
    /\ UNCHANGED <<cache, bytes, flights, loop, queue, closed>>

\* The finally clause: the flight leaves the table, then its waiters wake.
Land(t) ==
    /\ At(t, "land")
    /\ inflight' = [inflight EXCEPT ![Wanted(t)] = 0]
    /\ Goto(t, "wake")
    /\ UNCHANGED <<cache, bytes, flights, loop, queue, closed>>

\* Faulty: only a decode that succeeded sets its event.
WakeSuccess(t) ==
    /\ At(t, "wake")
    /\ \/ flights[worker[t].flight].value = Failure /\ Fail(t) /\ UNCHANGED flights
       \/ /\ flights[worker[t].flight].value # Failure /\ Receive(t, Wanted(t))
          /\ flights' = [flights EXCEPT ![worker[t].flight].set = TRUE]
    /\ UNCHANGED <<cache, bytes, inflight, loop, queue, closed>>

Wake(t) ==
    /\ At(t, "wake")
    /\ flights' = [flights EXCEPT ![worker[t].flight].set = TRUE]
    /\ \/ flights[worker[t].flight].value = Failure /\ Fail(t)
       \/ flights[worker[t].flight].value # Failure /\ Receive(t, Wanted(t))
    /\ UNCHANGED <<cache, bytes, inflight, loop, queue, closed>>

\* Faulty: a waiter looks for the chunk in the cache.
ResumeFromCache(t) ==
    /\ At(t, "wait") /\ flights[worker[t].flight].set
    /\ \/ flights[worker[t].flight].value = Failure /\ Fail(t)
       \/ /\ flights[worker[t].flight].value # Failure
          /\ Receive(t, IF Cached(Wanted(t)) THEN Wanted(t) ELSE NoValue)
    /\ UNCHANGED <<cache, bytes, inflight, flights, loop, queue, closed>>

\* event.wait() returns.
Resume(t) ==
    /\ At(t, "wait") /\ flights[worker[t].flight].set
    /\ \/ flights[worker[t].flight].value = Failure /\ Fail(t)
       \/ /\ flights[worker[t].flight].value # Failure
          /\ Receive(t, flights[worker[t].flight].value)
    /\ UNCHANGED <<cache, bytes, inflight, flights, loop, queue, closed>>

\* All chunks of the read are there; they are joined and cut to the request.
Answer(t) ==
    /\ At(t, "answer")
    /\ worker' = [worker EXCEPT ![t] = Idle]
    /\ UNCHANGED <<cache, bytes, inflight, flights, loop, queue, closed>>

-----------------------------------------------------------------------------

Work(t) ==
    \/ Hit(t) \/ Join(t) \/ Own(t)
    \/ Decode(t) \/ Put(t) \/ Land(t) \/ Wake(t)
    \/ Resume(t) \/ Answer(t)

Next ==
    \/ \E r \in Reads : Request(r)
    \/ ProbeHit \/ ProbeMiss \/ Close
    \/ \E t \in Workers : Take(t) \/ Work(t)

\* Threads are preemptive and no step of one blocks but event.wait(); a decode
\* reads local files and ends.
Fairness == \A t \in Workers : WF_vars(Take(t)) /\ WF_vars(Work(t))

Spec == Init /\ [][Next]_vars /\ Fairness

-----------------------------------------------------------------------------
(* Properties.                                                             *)

Owning == {"decode", "put", "land"}
Waiting == {"decode", "put", "land", "wake", "wait"}

WorkerType == [pc : Waiting \cup {"idle", "lookup", "answer"},
               read : Seq(Keys), got : Seq(Keys \cup {NoValue}), flight : Flights \cup {0}]

\* Every variable has its type.
TypeOK ==
    /\ cache \in Seq(Keys)
    /\ bytes \in Nat
    /\ inflight \in [Keys -> Flights \cup {0}]
    /\ flights \in [Flights -> [set : BOOLEAN, value : Keys \cup {NoValue, Failure}]]
    /\ worker \in [Workers -> WorkerType]
    /\ loop \in [read : Seq(Keys), seen : Nat]
    /\ queue \in Seq(Seq(Keys)) /\ Len(queue) <= MaxQueue
    /\ closed \in BOOLEAN

\* current_bytes is what the cached chunks take and stays within max_bytes,
\* through evictions, chunks that are too large, and a clear between any two
\* steps of the readers (cache.py:75-95, 157-161).
BytesExact ==
    /\ bytes = Weight(cache)
    /\ bytes <= MaxBytes
    /\ \A i, j \in DOMAIN cache : cache[i] = cache[j] => i = j

\* At any time at most one thread is producing a chunk, and while it does the
\* chunk is not cached: what is put is never there already, however chunks
\* are evicted and the cache is cleared (cache.py:98-161).
DecodedOnce ==
    \A t, u \in Workers :
       /\ worker[t].pc \in {"decode", "put"} => ~Cached(Wanted(t))
       /\ worker[t].pc \in Owning /\ worker[u].pc \in Owning /\ t # u
             => Wanted(t) # Wanted(u)

\* A thread waits for a flight that has landed, or that another thread is
\* about to land for the same chunk, and a flight in the table has an owner:
\* nobody joins a decode that is over (cache.py:128-161).
FlightsOwned ==
    /\ \A t \in Workers : At(t, "wait") =>
          \/ flights[worker[t].flight].set
          \/ \E u \in Workers : /\ worker[u].pc \in Owning \cup {"wake"}
                                /\ worker[u].flight = worker[t].flight
                                /\ Wanted(u) = Wanted(t)
    /\ \A k \in Keys : inflight[k] # 0 =>
          \E u \in Workers : /\ worker[u].pc \in Owning
                             /\ worker[u].flight = inflight[k]
                             /\ Wanted(u) = k

\* A reader gets the chunks it asked for, in order, and never the empty slot of
\* a flight, even if the chunk it waited for is evicted, or the cache cleared,
\* before it wakes (the reason cache.py:38-45 gives for _Flight).
RightPieces == \A t \in Workers : worker[t].got = SubSeq(worker[t].read, 1, Len(worker[t].got))

\* Every read a worker took ends, in an answer or an error, and a full queue
\* moves: the workers cannot all wait for each other, and a decode that raises
\* leaves nobody parked (cache.py:141-161, fs.py:517).
EveryReadEnds ==
    /\ \A t \in Workers : ~At(t, "idle") ~> At(t, "idle")
    /\ Len(queue) = MaxQueue ~> Len(queue) < MaxQueue
=============================================================================
