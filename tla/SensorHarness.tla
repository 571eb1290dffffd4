---------------------------- MODULE SensorHarness ----------------------------
(***************************************************************************)
(* run_sensor_test (sensor_harness/runner.py) with the services it drives: *)
(* SensorController, DiscoveryService, ConnectionService, StreamingService,*)
(* PollingStreamService and the shutdown of HarnessSensorManager.  The run *)
(* and one polling task per polled sensor share an event loop; the link of *)
(* a sensor may go down at any time, and every call of an adapter or of a  *)
(* sensor plugin may raise.                                                *)
(***************************************************************************)
EXTENDS Naturals, FiniteSets

CONSTANTS Sensors,   \* the sensor instances of the run
          Polled,    \* those with request_sample and no start_stream
          Stoppable  \* those with a stop_stream; it silences the sensor

ASSUME PolledAreSensors == Polled \subseteq Sensors /\ Stoppable \subseteq Sensors
ASSUME SensorsAreFinite == IsFiniteSet(Sensors)

VARIABLES
    backend,  \* ble_runtime_config.backend: "bleak" or "gateway"
    run,      \* where run_sensor_test stands
    todo,     \* the sensors its current loop has yet to handle
    raisedAt, \* where exceptions arose: if anywhere, one is on its way out
    code,     \* what the run returned: "ok" (0), "failed" (1), "no_data" (2),
              \* or "raised"
    found,    \* the sensors that discovery found a device for, in number
    status,   \* connection_status of each sensor
    asked,    \* history: the sensors the run asked the adapter to disconnect
    refused,  \* history: those it answered were not disconnected
    link,     \* external: whether the transport is connected to the sensor
    stream,   \* external: whether the sensor sends samples
    flight,   \* whether samples it sent are under way: frames the reader has yet
              \* to handle, callbacks the event loop has yet to run
    task,     \* the polling task of each sensor in _stream_tasks
    adapter,  \* the adapter of the pool: "unused", "open" or "closed"
    abandoned,\* whether its close gave up waiting for the reader thread
    capture,  \* the CSV capture: "open" or "closed"
    data,     \* whether an on_data event was recorded
    counted,  \* whether the summary of the run counts one
    loose,    \* history: the sensors that stop_all could not silence
    after,    \* history: those recorded after the summary, or after its place
    late      \* history: whether a sample met a closed capture

external == <<link, stream, flight>>
progress == <<run, todo, raisedAt, code, found>>
seen == <<data, after, late>>
records == <<seen, counted, loose>>
answers == <<backend, asked, refused>>
pool == <<adapter, abandoned>>
vars == <<progress, external, records, answers, status, task, pool, capture>>

Connected == {s \in Sensors : status[s] = "connected"}
Tasks == {s \in Sensors : task[s] # "none"}

\* The run is past the place where the summary is taken.
Leaving == run \in {"disconnect", "shutdown", "close", "ended"}

Init ==
    /\ backend \in {"bleak", "gateway"}
    /\ run = "discover"
    /\ todo = {}
    /\ raisedAt = {}
    /\ code = "none"
    /\ found = 0
    /\ status = [s \in Sensors |-> "unconnected"]
    /\ asked = {}
    /\ refused = {}
    /\ link = [s \in Sensors |-> FALSE]
    /\ stream = [s \in Sensors |-> FALSE]
    /\ task = [s \in Sensors |-> "none"]
    /\ flight = [s \in Sensors |-> FALSE]
    /\ adapter = "unused"
    /\ abandoned = FALSE
    /\ capture = "open"
    /\ data = FALSE
    /\ counted = FALSE
    /\ loose = {}
    /\ after = {}
    /\ late = FALSE

\* The run goes on at "next", where it loops over "sensors".
GoTo(next, sensors) == run' = next /\ todo' = sensors

-----------------------------------------------------------------------------
(* Discovery and connection.  An exception here leaves the run through the  *)
(* outer finally clause, which closes the capture and nothing else.         *)

\* init_sensor_manager refuses a location or a backend: no adapter was used yet.
SetUpRaises ==
    /\ run = "discover"
    /\ adapter = "unused"
    /\ raisedAt' = {run}
    /\ GoTo("close", {})
    /\ UNCHANGED <<code, found, external, status, answers, task, pool, capture,
                   records>>

\* discover_all, with one name for all sensors: each device whose name begins
\* with it is taken for one sensor.  If some sensor is left without, none gets
\* an address and the run returns; so does the adapter's exception.
Discover ==
    /\ run = "discover"
    /\ adapter' = "open"
    /\ \/ /\ found' \in 0..Cardinality(Sensors)
          /\ IF found' = Cardinality(Sensors)
             THEN GoTo("connect", Sensors) /\ UNCHANGED code
             ELSE GoTo("close", {}) /\ code' = "failed"
          /\ UNCHANGED raisedAt
       \/ GoTo("close", {}) /\ raisedAt' = {run} /\ UNCHANGED <<code, found>>
    /\ UNCHANGED <<external, status, answers, task, abandoned, capture, records>>

\* connect_to_device and set_up_sensor succeed.  The status is set when the run
\* resumes: the link may be down again by then.
ConnectSensor(s) ==
    /\ run = "connect"
    /\ s \in todo
    /\ \E up \in BOOLEAN : link' = [link EXCEPT ![s] = up]
    /\ status' = [status EXCEPT ![s] = "connected"]
    /\ GoTo("connect", todo \ {s})
    /\ UNCHANGED <<raisedAt, code, found, stream, flight, answers, task, pool,
                   capture, records>>

\* The adapter answers that the sensor is not connected: it is passed over.
PassOver(s) ==
    /\ run = "connect"
    /\ s \in todo
    /\ GoTo("connect", todo \ {s})
    /\ UNCHANGED <<raisedAt, code, found, external, status, answers, task,
                   pool, capture, records>>

\* connect_to_device raises (then the transport may get its link later all the
\* same), or set_up_sensor raises on a connected sensor.
ConnectRaises(s) ==
    /\ run = "connect"
    /\ s \in todo
    /\ \E up \in BOOLEAN : link' = [link EXCEPT ![s] = up]
    /\ \/ UNCHANGED status
       \/ link'[s] /\ status' = [status EXCEPT ![s] = "connected"]
    /\ raisedAt' = raisedAt \cup {run}
    /\ GoTo("close", {})
    /\ UNCHANGED <<code, found, stream, flight, answers, task, pool, capture,
                   records>>

\* If no sensor was connected the run shuts the manager down and returns 1; one
\* that was connected counts, though its link may have gone down since.
EndConnect ==
    /\ run = "connect"
    /\ todo = {}
    /\ IF \A s \in Sensors : status[s] = "unconnected"
       THEN GoTo("shutdown", Tasks) /\ code' = "failed"
       ELSE GoTo("identify", {}) /\ UNCHANGED code
    /\ UNCHANGED <<raisedAt, found, external, status, answers, task, pool,
                   capture, records>>

-----------------------------------------------------------------------------
(* Streaming, inside the try whose finally clause disconnects and shuts     *)
(* down.  start_all takes the sensors that are connected as it begins.      *)

StartAll ==
    /\ run = "identify"
    /\ GoTo("start", Connected)
    /\ UNCHANGED <<raisedAt, code, found, external, status, answers, task,
                   pool, capture, records>>

StartSensor(s) ==
    /\ run = "start"
    /\ s \in todo
    /\ IF s \in Polled
       THEN task' = [task EXCEPT ![s] = "polling"] /\ UNCHANGED stream
       ELSE stream' = [stream EXCEPT ![s] = link[s]] /\ UNCHANGED task
    /\ GoTo("start", todo \ {s})
    /\ UNCHANGED <<raisedAt, code, found, link, flight, status, answers, pool,
                   capture, records>>

EndStart ==
    /\ run = "start"
    /\ todo = {}
    /\ GoTo("sleep", {})
    /\ UNCHANGED <<raisedAt, code, found, external, status, answers, task,
                   pool, capture, records>>

\* stop_all passes over the sensors whose link has gone down.
EndSleep ==
    /\ run = "sleep"
    /\ GoTo("stop", Connected)
    /\ loose' = loose \cup (Sensors \ Connected)
    /\ UNCHANGED <<raisedAt, code, found, external, status, answers, task,
                   pool, capture, seen, counted>>

\* Whether stop_all leaves the sensor something to be recorded later: it has no
\* stop_stream, or samples of it are under way.
Escapes(s) == flight[s] \/ s \notin Stoppable \cup Polled

\* Mutant of StopSensor: the stream of the sensor goes on.
StopTaskOnly(s) ==
    /\ run = "stop"
    /\ s \in todo
    /\ task[s] # "failed"
    /\ task' = [task EXCEPT ![s] = "none"]
    /\ loose' = IF Escapes(s) THEN loose \cup {s} ELSE loose
    /\ GoTo("stop", todo \ {s})
    /\ UNCHANGED <<raisedAt, code, found, external, status, answers, pool,
                   capture, seen, counted>>

\* PollingStreamService.stop, and stop_stream of a sensor that has one: it sends
\* no more samples, those under way may still arrive.  A task that has failed is
\* not cancelled, its exception comes out of the await and the task stays in
\* _stream_tasks.
StopSensor(s) ==
    /\ run = "stop"
    /\ s \in todo
    /\ task[s] # "failed"
    /\ task' = [task EXCEPT ![s] = "none"]
    /\ stream' = [stream EXCEPT ![s] = stream[s] /\ s \notin Stoppable]
    /\ loose' = IF Escapes(s) THEN loose \cup {s} ELSE loose
    /\ GoTo("stop", todo \ {s})
    /\ UNCHANGED <<raisedAt, code, found, link, flight, status, answers, pool,
                   capture, seen, counted>>

StopRaises(s) ==
    /\ run = "stop"
    /\ s \in todo
    /\ task[s] = "failed"
    /\ raisedAt' = raisedAt \cup {run}
    /\ GoTo("disconnect", Connected)
    /\ UNCHANGED <<code, found, external, status, answers, task, pool,
                   capture, records>>

\* The summary takes what was observed so far.
EndStop ==
    /\ run = "stop"
    /\ todo = {}
    /\ counted' = data
    /\ GoTo("disconnect", Connected)
    /\ UNCHANGED <<raisedAt, code, found, external, status, answers, task,
                   pool, capture, seen, loose>>

\* Mutant of StreamRaises: past the inner finally clause.
StreamRaisesPast ==
    /\ run \in {"identify", "start", "stop"}
    /\ run = "start" => todo # {}
    /\ raisedAt' = raisedAt \cup {run}
    /\ GoTo("close", {})
    /\ UNCHANGED <<code, found, external, status, answers, task, pool, capture,
                   records>>

\* identify, start_stream, stop_stream or consume_input of a plugin raises: on
\* to the finally clause.
StreamRaises ==
    /\ run \in {"identify", "start", "stop"}
    /\ run = "start" => todo # {}
    /\ raisedAt' = raisedAt \cup {run}
    /\ GoTo("disconnect", Connected)
    /\ UNCHANGED <<code, found, external, status, answers, task, pool, capture,
                   records>>

-----------------------------------------------------------------------------
(* The finally clauses.                                                     *)

\* The adapter disconnects the sensor.  Bleak's may say that it did not; that of
\* the gateway then raises.
DisconnectSensor(s) ==
    /\ run = "disconnect"
    /\ s \in todo
    /\ asked' = asked \cup {s}
    /\ \/ /\ link' = [link EXCEPT ![s] = FALSE]
          /\ stream' = [stream EXCEPT ![s] = FALSE]
          /\ status' = [status EXCEPT ![s] = "disconnected"]
          /\ UNCHANGED <<flight, refused>>
       \/ /\ backend = "bleak"
          /\ refused' = refused \cup {s}
          /\ UNCHANGED <<external, status>>
    /\ GoTo("disconnect", todo \ {s})
    /\ UNCHANGED <<raisedAt, code, found, backend, task, pool, capture, records>>

\* The adapter's disconnect raises: neither the other sensors nor the shutdown
\* get their turn.
DisconnectRaises(s) ==
    /\ run = "disconnect"
    /\ s \in todo
    /\ asked' = asked \cup {s}
    /\ raisedAt' = raisedAt \cup {run}
    /\ GoTo("close", {})
    /\ UNCHANGED <<code, found, external, status, backend, refused, task, pool,
                   capture, records>>

\* Mutant of EndDisconnect: the manager is not shut down.
EndWithoutShutdown ==
    /\ run = "disconnect"
    /\ todo = {}
    /\ GoTo("close", {})
    /\ UNCHANGED <<raisedAt, code, found, external, status, answers, task,
                   pool, capture, records>>

EndDisconnect ==
    /\ run = "disconnect"
    /\ todo = {}
    /\ GoTo("shutdown", Tasks)
    /\ UNCHANGED <<raisedAt, code, found, external, status, answers, task,
                   pool, capture, records>>

\* HarnessSensorManager.shutdown: stop the polling tasks that are left ...
ShutdownTask(s) ==
    /\ run = "shutdown"
    /\ s \in todo
    /\ IF task[s] = "failed"
       THEN GoTo("close", {}) /\ raisedAt' = raisedAt \cup {run} /\ UNCHANGED task
       ELSE /\ GoTo("shutdown", todo \ {s})
            /\ task' = [task EXCEPT ![s] = "none"]
            /\ UNCHANGED raisedAt
    /\ UNCHANGED <<code, found, external, status, answers, pool, capture,
                   records>>

\* AdapterPool.close_all.  The adapter of the gateway closes its port, over which
\* all samples come, and waits a second for the reader, which hands them over: it
\* has ended, or it is left to the sample it is at.  Bleak's has nothing to close.
ClosePool ==
    /\ adapter' = "closed"
    /\ \/ /\ backend = "gateway"
          /\ stream' = [s \in Sensors |-> FALSE]
          /\ \/ flight' = [s \in Sensors |-> FALSE] /\ UNCHANGED abandoned
             \/ abandoned' = TRUE /\ UNCHANGED flight
       \/ backend = "bleak" /\ UNCHANGED <<stream, flight, abandoned>>

\* Mutant of CloseAdapters: the adapters are closed before the tasks are stopped.
CloseAdaptersFirst ==
    /\ run = "shutdown"
    /\ ClosePool
    /\ GoTo("close", {})
    /\ UNCHANGED <<raisedAt, code, found, link, status, answers, task, capture,
                   records>>

\* ... and only then close the adapters.
CloseAdapters ==
    /\ run = "shutdown"
    /\ todo = {}
    /\ ClosePool
    /\ GoTo("close", {})
    /\ UNCHANGED <<raisedAt, code, found, link, status, answers, task, capture,
                   records>>

\* The capture is closed and the run returns, or its exception goes on.
CloseCapture ==
    /\ run = "close"
    /\ capture' = "closed"
    /\ code' = IF raisedAt # {} THEN "raised"
               ELSE IF code = "failed" THEN "failed"
               ELSE IF counted THEN "ok" ELSE "no_data"
    /\ GoTo("ended", {})
    /\ UNCHANGED <<raisedAt, found, external, status, answers, task, pool, records>>

Run == \/ SetUpRaises \/ Discover
       \/ \E s \in Sensors :
             \/ ConnectSensor(s) \/ PassOver(s) \/ ConnectRaises(s)
             \/ StartSensor(s) \/ StopSensor(s) \/ StopRaises(s)
             \/ DisconnectSensor(s) \/ DisconnectRaises(s) \/ ShutdownTask(s)
       \/ EndConnect \/ StartAll \/ EndStart \/ EndSleep \/ EndStop \/ StreamRaises
       \/ EndDisconnect \/ CloseAdapters \/ CloseCapture

-----------------------------------------------------------------------------
(* What happens meanwhile.  A task is only run while the run is suspended.  *)

\* A sample is recorded, and then captured unless it comes after the capture is
\* closed.
Record(s) ==
    /\ data' = TRUE
    /\ after' = IF Leaving THEN after \cup {s} ELSE after
    /\ late' = (late \/ capture = "closed")
    /\ UNCHANGED <<counted, loose>>

\* request_sample of a polling task brings a sample, which may have been on its way
\* as the link went down.
PollReturns(s) ==
    /\ run # "ended"
    /\ task[s] = "polling"
    /\ task' = [task EXCEPT ![s] = "sleeping"]
    /\ Record(s)
    /\ UNCHANGED <<progress, external, status, answers, pool, capture>>

PollWakes(s) ==
    /\ run # "ended"
    /\ task[s] = "sleeping"
    /\ task' = [task EXCEPT ![s] = "polling"]
    /\ UNCHANGED <<progress, external, status, answers, pool, capture, records>>

\* request_sample raises: nobody awaits the task until it is stopped.
PollFails(s) ==
    /\ run # "ended"
    /\ task[s] = "polling"
    /\ task' = [task EXCEPT ![s] = "failed"]
    /\ UNCHANGED <<progress, external, status, answers, pool, capture, records>>

\* A sensor sends a sample: a notification, or a frame to the gateway.
SendSample(s) ==
    /\ stream[s]
    /\ flight' = [flight EXCEPT ![s] = TRUE]
    /\ UNCHANGED <<progress, link, stream, records, status, answers, task, pool,
                   capture>>

\* A sample that was under way is handed to the harness; others may follow.  The
\* event loop runs the callbacks of bleak, the reader thread those of the gateway.
Arrive(s) ==
    /\ flight[s]
    /\ \E more \in BOOLEAN : flight' = [flight EXCEPT ![s] = more]
    /\ Record(s)
    /\ UNCHANGED <<progress, link, stream, status, answers, task, pool, capture>>

\* A link goes down by itself: the disconnect callback marks the sensor, unless
\* the port over which the gateway would tell is closed.
LinkDown(s) ==
    /\ link[s]
    /\ run # "ended"
    /\ backend = "gateway" => adapter # "closed"
    /\ link' = [link EXCEPT ![s] = FALSE]
    /\ stream' = [stream EXCEPT ![s] = FALSE]
    /\ status' = [status EXCEPT ![s] = "disconnected"]
    /\ UNCHANGED <<progress, flight, answers, task, pool, capture, records>>

Next == \/ Run
        \/ \E s \in Sensors : \/ PollReturns(s) \/ PollWakes(s) \/ PollFails(s)
                              \/ SendSample(s) \/ Arrive(s) \/ LinkDown(s)

Spec == Init /\ [][Next]_vars

-----------------------------------------------------------------------------
(* Properties.                                                              *)

\* Type invariant: only the loops of the run have sensors left to handle.
TypeOK ==
    /\ run \in {"discover", "connect", "identify", "start", "sleep", "stop",
                "disconnect", "shutdown", "close", "ended"}
    /\ todo \subseteq Sensors
    /\ todo # {} => run \in {"connect", "start", "stop", "disconnect", "shutdown"}
    /\ backend \in {"bleak", "gateway"}
    /\ raisedAt \subseteq {"discover", "connect", "identify", "start", "stop",
                            "disconnect", "shutdown"}
    /\ found \in 0..Cardinality(Sensors)
    /\ refused \subseteq asked
    /\ code \in {"none", "raised", "ok", "failed", "no_data"}
    /\ status \in [Sensors -> {"unconnected", "connected", "disconnected"}]
    /\ asked \subseteq Sensors
    /\ link \in [Sensors -> BOOLEAN]
    /\ stream \in [Sensors -> BOOLEAN]
    /\ flight \in [Sensors -> BOOLEAN]
    /\ task \in [Sensors -> {"none", "polling", "sleeping", "failed"}]
    /\ adapter \in {"unused", "open", "closed"}
    /\ abandoned \in BOOLEAN
    /\ capture \in {"open", "closed"}
    /\ data \in BOOLEAN
    /\ counted \in BOOLEAN
    /\ loose \subseteq Sensors
    /\ after \subseteq Sensors
    /\ late \in BOOLEAN

\* A run that returned has let go of everything, whatever links went down and
\* polls failed on the way: no polling task is left, a link is up only if the
\* adapter said that it could not disconnect, and each sensor that was still
\* marked as connected was asked to.
ReturnMeansReleased ==
    run = "ended" /\ raisedAt = {} =>
        /\ Tasks = {}
        /\ \A s \in Sensors : link[s] => s \in refused
        /\ Connected \subseteq asked

\* The adapters (of the gateway, its serial port) stay open after a run only if
\* discovery raised or found too few sensors, where the run ends without a shutdown,
\* or connecting, disconnecting or the shutdown itself raised.  An exception while
\* streaming leaves them closed.
AdaptersLeftOpenOnlyThere ==
    run = "ended" /\ adapter = "open" =>
        \/ found < Cardinality(Sensors)
        \/ raisedAt \cap {"discover", "connect", "disconnect", "shutdown"} # {}

\* No polling task is left to call request_sample on a closed adapter: the
\* shutdown stops also the tasks of sensors that stop_all and disconnect_all
\* passed over because their link had gone down.
NoTaskOutlivesAdapters == adapter = "closed" => Tasks = {}

\* What a run returns agrees with what was recorded, but for the sensors that
\* stop_all could not silence: those it passed over because their link had gone
\* down, those without a stop_stream, and those with samples under way.  Only of
\* these is anything recorded behind the summary, so that only they can make a run
\* return 2, no data, though data came; and only behind bleak, or a reader that
\* was not waited for, do their samples meet the closed capture.
CaptureMatchesCode ==
    code \in {"ok", "failed", "no_data"} =>
        /\ after \subseteq loose
        /\ code = "no_data" /\ data => after # {}
        /\ late => backend = "bleak" \/ abandoned

=============================================================================
