-------------------------- MODULE AlgorithmHarness --------------------------
(***************************************************************************)
(* run_algorithm_test (algorithm_harness/runner.py): the thread that owns  *)
(* the ComputeManager connects the sensors, lets them stream, waits until  *)
(* the manager is idle, disconnects, consolidates, shuts the manager down, *)
(* closes the capture files and reports.  The sensors' callbacks run in    *)
(* threads of the transport, the producers, and capture each sample before *)
(* they hand it over; the worker captures results as it computes them.     *)
(***************************************************************************)
EXTENDS ComputeManager, Functions

VARIABLES
    runner,        \* where run_algorithm_test stands
    subscribed,    \* whether the sensors' notify callbacks are in place
    inCallback,    \* the producers that run a callback they fetched
    sensorFile,    \* the error log of sensor_capture_writer: "open" or "closed"
    csvFile,       \* its CSV file, made by the first sample: "none", "open", "closed"
    computeFile,   \* compute_capture_writer: "open" or "closed"
    intermediate,  \* intermediate_results, the records on_intermediate_result kept
    woken,         \* whether the event was set while wait_until_idle waited for it
    waited,        \* what wait_until_idle returned: "none", "idle" or "timeout"
    atWait,        \* history: samples each producer had counted when it saw the event
    leaving,       \* whether an exception, or the 1 of a run without sensors, is on its way
    atShutdown,    \* history: samples ahead of the shutdown token
    consolidated,  \* the records handed to the consolidation executor
    reported       \* the result count that is printed, per address

harness == <<runner, subscribed, inCallback, sensorFile, csvFile, computeFile,
             intermediate, woken, waited, atWait, leaving, atShutdown, consolidated,
             reported>>
wait == <<woken, waited, atWait>>
files == <<sensorFile, csvFile, computeFile>>
outcome == <<leaving, atShutdown, consolidated, reported>>
hvars == <<vars, harness>>

RunnerStates == {"connecting", "registering", "streaming", "waiting", "awaiting",
                 "disconnecting", "consolidating", "finishing", "joining", "closing",
                 "reporting", "done", "failed"}

HInit ==
    /\ Init
    /\ runner = "connecting"
    /\ subscribed = FALSE
    /\ inCallback = {}
    /\ sensorFile = "open"
    /\ csvFile = "none"
    /\ computeFile = "open"
    /\ intermediate = << >>
    /\ woken = FALSE
    /\ waited = "none"
    /\ atWait = [p \in Producers |-> 0]
    /\ leaving = FALSE
    /\ atShutdown = {}
    /\ consolidated = << >>
    /\ reported = [a \in Addresses |-> 0]

-----------------------------------------------------------------------------
(* on_sensor_data, in a thread of the transport.  A thread that has fetched *)
(* the callback runs it even if the sensor is disconnected meanwhile.       *)

EnterCallback(p) ==
    /\ subscribed
    /\ p \notin inCallback
    /\ issued[p] < MaxSamples
    /\ inCallback' = inCallback \cup {p}
    /\ UNCHANGED <<vars, runner, subscribed, files, intermediate, wait, outcome>>

\* The sample is written to its CSV file and then counted.  A first sample makes
\* the file, even after the capture was closed.
CaptureSample(p, a) ==
    /\ p \in inCallback
    /\ csvFile # "closed"
    /\ csvFile' = "open"
    /\ CountSample(p, a)
    /\ UNCHANGED <<runner, subscribed, inCallback, sensorFile, computeFile, intermediate,
                   wait, outcome>>

\* The CSV file is closed: the write raises, and nothing is ingested.
LoseSample(p) ==
    /\ p \in inCallback
    /\ putting[p] = None
    /\ csvFile = "closed"
    /\ inCallback' = inCallback \ {p}
    /\ UNCHANGED <<vars, runner, subscribed, files, intermediate, wait, outcome>>

LeaveCallback(p) ==
    /\ PutSample(p)
    /\ inCallback' = inCallback \ {p}
    /\ UNCHANGED <<runner, subscribed, files, intermediate, wait, outcome>>

Callback(p) == \/ \E a \in Addresses : CaptureSample(p, a)
               \/ LoseSample(p)
               \/ LeaveCallback(p)

-----------------------------------------------------------------------------
(* The worker, with the listeners that the runner registers.                *)

\* on_compute_result writes to real_time.jsonl, which must be open.
CaptureResult ==
    /\ computeFile = "open"
    /\ NotifyListener
    /\ UNCHANGED harness

\* The algorithm raises, or a capture file is closed; error_cb writes to the
\* sensor capture's errors.log, and raises in its turn if that is closed.
FailSample ==
    /\ sensorFile = "closed"
    /\ EscapeError
    /\ UNCHANGED harness

\* on_intermediate_result keeps the executor's record and captures it.
CaptureRecord ==
    /\ worker = "buffered"
    /\ computeFile = "open"
    /\ EndSample
    /\ intermediate' = Append(intermediate, current)
    /\ UNCHANGED <<runner, subscribed, inCallback, files, wait, outcome>>

\* The record is kept before the capture file is found closed.
FailRecord ==
    /\ worker = "buffered"
    /\ computeFile = "closed"
    /\ EscapeError
    /\ intermediate' = Append(intermediate, current)
    /\ UNCHANGED <<runner, subscribed, inCallback, files, wait, outcome>>

\* The end of a turn, which may set the event: that wakes whoever waits for it, and
\* the wait then returns True even if a sample is counted before it does.
FinishTurn ==
    /\ FinishSample
    /\ IF runner = "awaiting" /\ ~woken /\ idle'
       THEN woken' = TRUE /\ atWait' = issued
       ELSE UNCHANGED <<woken, atWait>>
    /\ UNCHANGED <<runner, subscribed, inCallback, files, intermediate, waited, outcome>>

HWorker ==
    \/ (TakeSample \/ TakeToken \/ FindAlgorithm \/ BufferResult \/ EndSample)
          /\ UNCHANGED harness
    \/ CaptureResult \/ FailSample \/ CaptureRecord \/ FailRecord \/ FinishTurn

-----------------------------------------------------------------------------
(* run_algorithm_test itself.                                               *)

\* discover and connect_all: without sensors the run is over, through the outer
\* finally clause, as it is if one of them raises.
Connect ==
    /\ runner = "connecting"
    /\ runner' \in {"registering", "finishing"}
    /\ leaving' = (runner' = "finishing")
    /\ UNCHANGED <<vars, subscribed, inCallback, files, intermediate, wait, atShutdown,
                   consolidated, reported>>

RegisterSensor(a) ==
    /\ runner = "registering"
    /\ a \notin algorithms
    /\ RegisterAlgorithm(a)
    /\ UNCHANGED harness

\* The plugin's class raises; the links are left as they are.
RegisterRaises ==
    /\ runner = "registering"
    /\ runner' = "finishing"
    /\ leaving' = TRUE
    /\ UNCHANGED <<vars, subscribed, inCallback, files, intermediate, wait, atShutdown,
                   consolidated, reported>>

StartAll ==
    /\ runner = "registering"
    /\ algorithms = Addresses
    /\ runner' = "streaming"
    /\ subscribed' = TRUE
    /\ UNCHANGED <<vars, inCallback, files, intermediate, wait, outcome>>

\* The sleep is over and stop_all returns, or one of them raises.
StopAll ==
    /\ runner = "streaming"
    /\ runner' \in {"waiting", "disconnecting"}
    /\ leaving' = (runner' = "disconnecting")
    /\ UNCHANGED <<vars, subscribed, inCallback, files, intermediate, wait, atShutdown,
                   consolidated, reported>>

\* wait_until_idle returns at once while the event is set, else it waits for it.
WaitUntilIdle ==
    /\ runner = "waiting"
    /\ IF idle
       THEN waited' = "idle" /\ atWait' = issued /\ runner' = "disconnecting"
       ELSE UNCHANGED <<waited, atWait>> /\ runner' = "awaiting"
    /\ UNCHANGED <<vars, subscribed, inCallback, files, intermediate, woken, outcome>>

\* The wait returns what woke it, though the event may be cleared again by now.
WakeUp ==
    /\ runner = "awaiting"
    /\ woken
    /\ woken' = FALSE
    /\ waited' = "idle"
    /\ runner' = "disconnecting"
    /\ UNCHANGED <<vars, subscribed, inCallback, files, intermediate, atWait, outcome>>

\* At its deadline it returns False, even if the event is being set.  The runner
\* ignores what was returned.
PassDeadline ==
    /\ runner = "awaiting"
    /\ woken' = FALSE
    /\ waited' = "timeout"
    /\ runner' = "disconnecting"
    /\ UNCHANGED <<vars, subscribed, inCallback, files, intermediate, atWait, outcome>>

\* disconnect_all and shutdown of the sensor manager, in a finally clause.
DisconnectAll ==
    /\ runner = "disconnecting"
    /\ subscribed' = FALSE
    /\ runner' = IF leaving THEN "finishing" ELSE "consolidating"
    /\ UNCHANGED <<vars, inCallback, files, intermediate, wait, outcome>>

\* One of them raises: streams may stay up, and nothing is consolidated.
DisconnectRaises ==
    /\ runner = "disconnecting"
    /\ subscribed' \in BOOLEAN
    /\ leaving' = TRUE
    /\ runner' = "finishing"
    /\ UNCHANGED <<vars, inCallback, files, intermediate, wait, atShutdown, consolidated,
                   reported>>

\* run_consolidation_for_subject, on the records there are by now.  The write of
\* what comes of it may raise.
Consolidate ==
    /\ runner = "consolidating"
    /\ consolidated' = intermediate
    /\ leaving' \in BOOLEAN
    /\ runner' = "finishing"
    /\ UNCHANGED <<vars, subscribed, inCallback, files, intermediate, wait, atShutdown,
                   reported>>

Shutdown ==
    /\ runner = "finishing"
    /\ RequestShutdown
    /\ atShutdown' = {s \in Outstanding : \A p \in Producers : putting[p] # s}
    /\ runner' = "joining"
    /\ UNCHANGED <<subscribed, inCallback, files, intermediate, wait, leaving, consolidated,
                   reported>>

\* Mutant of Join: the worker is not waited for.
JoinNobody ==
    /\ runner = "joining"
    /\ runner' = "closing"
    /\ UNCHANGED <<vars, subscribed, inCallback, files, intermediate, wait, outcome>>

Join ==
    /\ runner = "joining"
    /\ JoinWorker
    /\ runner' = "closing"
    /\ UNCHANGED <<subscribed, inCallback, files, intermediate, wait, outcome>>

\* The sensor capture is closed first, then the compute capture.
CloseFile ==
    /\ runner = "closing"
    /\ sensorFile' = "closed"
    /\ csvFile' = IF sensorFile = "open" /\ csvFile = "open" THEN "closed" ELSE csvFile
    /\ computeFile' = IF sensorFile = "open" THEN "open" ELSE "closed"
    /\ runner' = IF sensorFile = "open" THEN "closing"
                 ELSE IF leaving THEN "failed" ELSE "reporting"
    /\ UNCHANGED <<vars, subscribed, inCallback, intermediate, wait, outcome>>

\* result_count, from get_results.
Report ==
    /\ runner = "reporting"
    /\ reported' = [a \in Addresses |-> Len(results[a])]
    /\ runner' = "done"
    /\ UNCHANGED <<vars, subscribed, inCallback, files, intermediate, wait, leaving,
                   atShutdown, consolidated>>

Runner == \/ Connect \/ (\E a \in Addresses : RegisterSensor(a)) \/ RegisterRaises
          \/ StartAll \/ StopAll \/ WaitUntilIdle \/ WakeUp \/ PassDeadline
          \/ DisconnectAll \/ DisconnectRaises \/ Consolidate
          \/ Shutdown \/ Join \/ CloseFile \/ Report

HNext == \/ \E p \in Producers : EnterCallback(p) \/ Callback(p)
         \/ HWorker
         \/ Runner

HSpec == HInit /\ [][HNext]_hvars

-----------------------------------------------------------------------------
(* Properties.                                                              *)

\* Type invariant of the runner's own variables.
HTypeOK ==
    /\ runner \in RunnerStates
    /\ subscribed \in BOOLEAN
    /\ inCallback \subseteq Producers
    /\ sensorFile \in {"open", "closed"}
    /\ csvFile \in {"none", "open", "closed"}
    /\ computeFile \in {"open", "closed"}
    /\ intermediate \in Seq(Samples)
    /\ woken \in BOOLEAN
    /\ leaving \in BOOLEAN
    /\ waited \in {"none", "idle", "timeout"}
    /\ atWait \in [Producers -> 0..MaxSamples]
    /\ atShutdown \subseteq Samples
    /\ consolidated \in Seq(Samples)
    /\ reported \in [Addresses -> Nat]

\* If wait_until_idle returned True, then unless an exception takes the run out of its
\* finally clauses, the consolidation executor gets every intermediate record that any
\* sample counted before the event was set ever yields, although the worker, the
\* transport and the runner go on concurrently.
ConsolidationComplete ==
    waited = "idle" /\ ~leaving
      /\ runner \in {"finishing", "joining", "closing", "reporting", "done"} =>
        \A s \in Range(intermediate) :
            s.n <= atWait[s.by] => s \in Range(consolidated)

\* A join that succeeds flushes the queue: every sample that was ahead of the
\* shutdown token had its turn before the capture files are closed.
ShutdownFlushes == owner = "joined" => atShutdown \cap Outstanding = {}

\* The worker is killed by a closed capture file only after a join that gave
\* up on it: the files outlive a worker that finishes in time.
WorkerOutlivesNoFile == worker \in {"raised", "dead"} => owner = "abandoned"

CapturedFrom(a) == {i \in DOMAIN emitted : emitted[i].address = a}

\* The printed result count agrees with real_time.jsonl, up to the length of
\* the result buffers, unless the join gave up on the worker.
ReportMatchesCapture ==
    runner = "done" /\ owner = "joined" =>
        \A a \in Addresses :
            reported[a] = IF Cardinality(CapturedFrom(a)) <= MaxResults
                          THEN Cardinality(CapturedFrom(a)) ELSE MaxResults

=============================================================================
