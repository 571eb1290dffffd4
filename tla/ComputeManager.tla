--------------------------- MODULE ComputeManager ---------------------------
(***************************************************************************)
(* HarnessComputeManager (algorithm_harness/compute_runtime.py): threads   *)
(* hand samples to one worker thread through an unbounded queue, a counter *)
(* under a lock says how many are not done, and an event is set while the  *)
(* counter is zero.  The owner may register algorithms, reset the manager  *)
(* and shut it down.                                                       *)
(***************************************************************************)
EXTENDS Naturals, Sequences, FiniteSets

CONSTANTS Producers,             \* threads that call ingest_sample
          Addresses,             \* sensor addresses
          None,                  \* no sample
          ShutdownToken,         \* _shutdown_token, never a sample
          MaxResults,            \* maxlen of a result buffer (1000)
          MaxSamples,            \* bound: samples each producer hands over
          MaxResets,             \* bound: calls of reset
          ErrorCallbackMayRaise  \* whether error_cb itself can fail

\* The n-th sample that thread "by" hands over, from the sensor at "address".
Samples == [by : Producers, n : 1..MaxSamples, address : Addresses]

ASSUME NotASample == None \notin Samples /\ ShutdownToken \notin Samples
ASSUME TokenIsSomething == ShutdownToken # None
ASSUME BoundsAreNatural ==
    /\ MaxResults \in Nat \ {0}
    /\ MaxSamples \in Nat
    /\ MaxResets \in Nat
ASSUME FlagIsBoolean == ErrorCallbackMayRaise \in BOOLEAN

VARIABLES
    pending,     \* _pending_count
    idle,        \* _idle_event
    queue,       \* _queue
    algorithms,  \* the keys of _algorithms
    results,     \* the IntermediateStage's result buffer of each address
    putting,     \* the sample a producer has counted and not yet queued
    current,     \* the sample the worker has taken and not yet counted off
    worker,      \* where the worker thread stands in _run
    owner,       \* where the owner stands: in no call, in reset, in shutdown
    issued,      \* history: samples each producer has counted
    emitted,     \* history: the samples whose results reached the listener
    resets,      \* history: calls of reset
    straddled,   \* history: samples that were outstanding when reset recounted
    renewed      \* history: samples each producer had counted at the last recount

work == <<pending, idle, queue, putting, current>>
vars == <<pending, idle, queue, algorithms, results, putting, current, worker,
          owner, issued, emitted, resets, straddled, renewed>>

Computing == {"taken", "running", "routing", "buffered", "done", "raised"}
WorkerStates == Computing \cup {"waiting", "stopped", "dead"}
OwnerStates == {"ready", "draining", "recounting", "joining", "joined",
                "abandoned"}

\* The samples counted by ingest_sample whose turn in _run is not over.
Queued(s) == \E i \in DOMAIN queue : queue[i] = s
Outstanding ==
    {s \in Samples : \/ \E p \in Producers : putting[p] = s
                     \/ Queued(s)
                     \/ current = s}

Init ==
    /\ pending = 0
    /\ idle = TRUE
    /\ queue = << >>
    /\ algorithms = {}
    /\ results = [a \in Addresses |-> << >>]
    /\ putting = [p \in Producers |-> None]
    /\ current = None
    /\ worker = "waiting"
    /\ owner = "ready"
    /\ issued = [p \in Producers |-> 0]
    /\ emitted = << >>
    /\ resets = 0
    /\ straddled = 0
    /\ renewed = [p \in Producers |-> 0]

-----------------------------------------------------------------------------
(* ingest_sample: the count and the put are two steps, for the put is made  *)
(* after _pending_lock is released.                                         *)

CountSample(p, a) ==
    /\ putting[p] = None
    /\ issued[p] < MaxSamples
    /\ putting' = [putting EXCEPT
                     ![p] = [by |-> p, n |-> issued[p] + 1, address |-> a]]
    /\ issued' = [issued EXCEPT ![p] = @ + 1]
    /\ pending' = pending + 1
    /\ idle' = FALSE
    /\ UNCHANGED <<queue, algorithms, results, current, worker, owner,
                   emitted, resets, straddled, renewed>>

PutSample(p) ==
    /\ putting[p] # None
    /\ queue' = Append(queue, putting[p])
    /\ putting' = [putting EXCEPT ![p] = None]
    /\ UNCHANGED <<pending, idle, algorithms, results, current, worker, owner,
                   issued, emitted, resets, straddled, renewed>>

-----------------------------------------------------------------------------
(* _run, the worker thread.                                                 *)

TakeSample ==
    /\ worker = "waiting"
    /\ queue # << >>
    /\ Head(queue) # ShutdownToken
    /\ queue' = Tail(queue)
    /\ current' = Head(queue)
    /\ worker' = "taken"
    /\ UNCHANGED <<pending, idle, algorithms, results, putting, owner, issued,
                   emitted, resets, straddled, renewed>>

TakeToken ==
    /\ worker = "waiting"
    /\ queue # << >>
    /\ Head(queue) = ShutdownToken
    /\ queue' = Tail(queue)
    /\ worker' = "stopped"
    /\ UNCHANGED <<pending, idle, algorithms, results, putting, current, owner,
                   issued, emitted, resets, straddled, renewed>>

\* _algorithms.get: a sample of an unknown address is dropped.
FindAlgorithm ==
    /\ worker = "taken"
    /\ worker' = IF current.address \in algorithms THEN "running" ELSE "done"
    /\ UNCHANGED <<work, algorithms, results, owner, issued, emitted, resets,
                   straddled, renewed>>

\* Mutant of KeepLast: a buffer that is one too short.
KeepFewer(s, max) == IF Len(s) < max THEN s ELSE SubSeq(s, Len(s) - max + 2, Len(s))

\* The last "max" elements of s, as a deque(maxlen=max) keeps them.
KeepLast(s, max) == IF Len(s) <= max THEN s ELSE SubSeq(s, Len(s) - max + 1, Len(s))

\* on_sample emits a result, and ResultRouter.handle_result takes it to the
\* result listener first ...
NotifyListener ==
    /\ worker = "running"
    /\ emitted' = Append(emitted, current)
    /\ worker' = "routing"
    /\ UNCHANGED <<work, algorithms, results, owner, issued, resets, straddled, renewed>>

\* ... and then to IntermediateStage.handle_result, which buffers it.
BufferResult ==
    /\ worker = "routing"
    /\ results' = [results EXCEPT
                     ![current.address] = KeepLast(Append(@, current), MaxResults)]
    /\ worker' = "buffered"
    /\ UNCHANGED <<work, algorithms, owner, issued, emitted, resets, straddled, renewed>>

\* on_sample returns, with a result or (its window is not full) without, or it
\* raises and error_cb reports it.
EndSample ==
    /\ worker \in {"running", "buffered"}
    /\ worker' = "done"
    /\ UNCHANGED <<work, algorithms, results, owner, issued, emitted, resets,
                   straddled, renewed>>

\* on_sample raises and so does error_cb: the exception leaves _run, through
\* the finally clause.
EscapeError ==
    /\ worker \in {"running", "buffered"}
    /\ ErrorCallbackMayRaise
    /\ worker' = "raised"
    /\ UNCHANGED <<work, algorithms, results, owner, issued, emitted, resets,
                   straddled, renewed>>

\* The finally clause: the count is clamped at zero ...
CountDown == IF pending > 0 THEN pending - 1 ELSE 0

\* Mutants of IdleAfter: the event is set after every turn, or never.
SetAfter(count) == TRUE
NeverSetAfter(count) == idle

\* ... and the event is set when it gets there.
IdleAfter(count) == IF count = 0 THEN TRUE ELSE idle

FinishSample ==
    /\ worker \in {"done", "raised"}
    /\ pending' = CountDown
    /\ idle' = IdleAfter(CountDown)
    /\ current' = None
    /\ worker' = IF worker = "done" THEN "waiting" ELSE "dead"
    /\ UNCHANGED <<queue, algorithms, results, putting, owner, issued, emitted,
                   resets, straddled, renewed>>

Worker == \/ TakeSample \/ TakeToken \/ FindAlgorithm
          \/ NotifyListener \/ BufferResult
          \/ EndSample \/ EscapeError \/ FinishSample

-----------------------------------------------------------------------------
(* The owner.                                                               *)

RegisterAlgorithm(a) ==
    /\ owner = "ready"
    /\ algorithms' = algorithms \cup {a}
    /\ UNCHANGED <<work, results, worker, owner, issued, emitted, resets,
                   straddled, renewed>>

\* Mutant of BeginReset: the registrations stay.
BeginResetOfResults ==
    /\ owner = "ready"
    /\ resets < MaxResets
    /\ results' = [a \in Addresses |-> << >>]
    /\ owner' = "draining"
    /\ resets' = resets + 1
    /\ UNCHANGED <<work, algorithms, worker, issued, emitted, straddled, renewed>>

\* reset: the registrations and buffers go, then the queue is drained one
\* get_nowait at a time, and only then is the count cleared.
BeginReset ==
    /\ owner = "ready"
    /\ resets < MaxResets
    /\ algorithms' = {}
    /\ results' = [a \in Addresses |-> << >>]
    /\ owner' = "draining"
    /\ resets' = resets + 1
    /\ UNCHANGED <<work, worker, issued, emitted, straddled, renewed>>

DrainOne ==
    /\ owner = "draining"
    /\ queue # << >>
    /\ queue' = Tail(queue)
    /\ UNCHANGED <<pending, idle, algorithms, results, putting, current, worker,
                   owner, issued, emitted, resets, straddled, renewed>>

FindEmpty ==
    /\ owner = "draining"
    /\ queue = << >>
    /\ owner' = "recounting"
    /\ UNCHANGED <<work, algorithms, results, worker, issued, emitted, resets,
                   straddled, renewed>>

\* Mutant of Recount: the event is set and the count is not cleared.
SetIdleOnly ==
    /\ owner = "recounting"
    /\ idle' = TRUE
    /\ owner' = "ready"
    /\ straddled' = straddled + Cardinality(Outstanding)
    /\ renewed' = issued
    /\ UNCHANGED <<pending, queue, algorithms, results, putting, current, worker,
                   issued, emitted, resets>>

Recount ==
    /\ owner = "recounting"
    /\ pending' = 0
    /\ idle' = TRUE
    /\ owner' = "ready"
    /\ straddled' = straddled + Cardinality(Outstanding)
    /\ renewed' = issued
    /\ UNCHANGED <<queue, algorithms, results, putting, current, worker, issued,
                   emitted, resets>>

\* Mutant of RequestShutdown: the token overtakes the queued samples.
RequestShutdownAtOnce ==
    /\ owner = "ready"
    /\ queue' = <<ShutdownToken>> \o queue
    /\ owner' = "joining"
    /\ UNCHANGED <<pending, idle, algorithms, results, putting, current, worker,
                   issued, emitted, resets, straddled, renewed>>

\* shutdown: the token goes behind every queued sample, and the join ends
\* when the worker does or after 2 s, whichever comes first.
RequestShutdown ==
    /\ owner = "ready"
    /\ queue' = Append(queue, ShutdownToken)
    /\ owner' = "joining"
    /\ UNCHANGED <<pending, idle, algorithms, results, putting, current, worker,
                   issued, emitted, resets, straddled, renewed>>

JoinWorker ==
    /\ owner = "joining"
    /\ \/ worker \in {"stopped", "dead"} /\ owner' = "joined"
       \/ worker \notin {"stopped", "dead"} /\ owner' = "abandoned"
    /\ UNCHANGED <<work, algorithms, results, worker, issued, emitted, resets,
                   straddled, renewed>>

Owner == \/ \E a \in Addresses : RegisterAlgorithm(a)
         \/ BeginReset \/ DrainOne \/ FindEmpty \/ Recount
         \/ RequestShutdown \/ JoinWorker

Next == \/ \E p \in Producers : \E a \in Addresses : CountSample(p, a)
        \/ \E p \in Producers : PutSample(p)
        \/ Worker
        \/ Owner

Spec == Init /\ [][Next]_vars

\* A thread inside ingest_sample and the worker are never stopped for good;
\* a reset or a join that has begun is carried on.
Fairness == /\ WF_vars(Worker)
            /\ \A p \in Producers : WF_vars(PutSample(p))
            /\ WF_vars(DrainOne \/ FindEmpty \/ Recount \/ JoinWorker)

FairSpec == Spec /\ Fairness
-----------------------------------------------------------------------------
(* Properties.                                                              *)

\* Type invariant: in particular the pending count never goes below zero,
\* which the clamp in the finally clause of _run is there for.
TypeOK ==
    /\ pending \in Nat
    /\ idle \in BOOLEAN
    /\ queue \in Seq(Samples \cup {ShutdownToken})
    /\ algorithms \subseteq Addresses
    /\ results \in [Addresses -> Seq(Samples)]
    /\ putting \in [Producers -> Samples \cup {None}]
    /\ current \in Samples \cup {None}
    /\ worker \in WorkerStates
    /\ owner \in OwnerStates
    /\ issued \in [Producers -> 0..MaxSamples]
    /\ emitted \in Seq(Samples)
    /\ resets \in Nat
    /\ straddled \in Nat
    /\ renewed \in [Producers -> 0..MaxSamples]

\* Until a first reset, _pending_count is the number of samples that are
\* between ingest_sample's lock and the end of their turn in _run: in a
\* producer's hands, queued, or with the worker, whatever error escapes.
CountExact == resets = 0 => pending = Cardinality(Outstanding)

\* reset drains the queue and clears the count without stopping producers
\* and worker.  Outside reset the count never exceeds what is outstanding, so
\* wait_until_idle cannot wait for samples that are gone, and it falls short
\* by no more than the samples that were outstanding when reset recounted.
ResetDriftBounded ==
    owner \notin {"draining", "recounting"} =>
        /\ pending <= Cardinality(Outstanding)
        /\ Cardinality(Outstanding) <= pending + straddled

Stale(s) == s.n <= renewed[s.by]

\* reset gives the next test empty buffers, but for the results of samples that
\* were under way: the one that the worker held when reset cleared them, and
\* those still outstanding when it ended.  A queued sample yields none, for its
\* algorithm went before the buffers did.
StaleResultsBounded ==
    owner \notin {"draining", "recounting"} =>
        Cardinality({s \in Samples : Stale(s) /\ resets > 0 /\
                        \E i \in DOMAIN results[s.address] :
                            results[s.address][i] = s}) <= straddled + 1

\* The event is set exactly while the count is zero, whoever changed it.
IdleIffNonePending == idle <=> pending = 0

\* Without resets the manager is a barrier over its samples: wait_until_idle
\* returns True only when every counted sample had its turn, and the samples
\* of one thread have their turns in the order of its calls.
Barrier == INSTANCE WorkBarrier WITH Items <- Samples,
                                     open <- Outstanding
BarrierSpec == Barrier!Spec

\* wait_until_idle is not left waiting for ever: while the worker lives and
\* no shutdown is requested, a cleared idle event is set again.
IdleReturns ==
    ~idle ~> \/ idle
             \/ owner \in {"joining", "joined", "abandoned"}
             \/ worker = "dead"
=============================================================================
