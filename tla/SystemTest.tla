------------------------------ MODULE SystemTest ------------------------------
(***************************************************************************)
(* run_system_test (system_test/runner.py) over SystemTestClient: a        *)
(* sequence of commands to nexus-n3-core, each followed by a wait for the  *)
(* event that confirms it.  The receiver thread puts every event in one    *)
(* queue; a wait takes events from it, in order, and drops those that are  *)
(* not its own, and between the waits the operator is prompted while       *)
(* events pile up.  Commands and events go over PUB/SUB sockets, which may *)
(* lose them, and no event names the command that it answers.              *)
(***************************************************************************)
EXTENDS Naturals, Sequences, FiniteSets

CONSTANTS NumIdentify,  \* the locations with identify prompts
          MaxAttempts,  \* bound: is_server_ready commands before the deadline
          MaxSurprises  \* bound: events that no command asked for

ASSUME SystemTestBounds ==
    NumIdentify \in Nat /\ MaxAttempts \in Nat \ {0} /\ MaxSurprises \in Nat

\* Mutant of Expected: the stop is over when the core accepts it.
ExpectedAtAcceptance ==
            [readying      |-> "server_ready",
             initializing  |-> "system_initialized",
             discovering   |-> "sensors_discovered",
             connecting    |-> "sensor_connected",
             identifying   |-> "sensor_identified",
             starting      |-> "stream_official_started",
             stopping      |-> "stream_stopped",
             disconnecting |-> "sensor_disconnected"]

\* The step that waits for an event of some type.
Expected == [readying      |-> "server_ready",
             initializing  |-> "system_initialized",
             discovering   |-> "sensors_discovered",
             connecting    |-> "sensor_connected",
             identifying   |-> "sensor_identified",
             starting      |-> "stream_official_started",
             stopping      |-> "stream_drained",
             disconnecting |-> "sensor_disconnected"]

Waits == DOMAIN Expected
Prompts == {"planning", "identify", "start", "stop", "disconnect"}

VARIABLES
    step,       \* where the run stands
    code,       \* what it returned: "ok" (0), "failed" (1), or "raised"
    last,       \* history: the step at which it ended
    attempts,   \* is_server_ready commands sent
    location,   \* the location whose sensor is identified
    queue,      \* the events received
    commands,   \* external: the commands on their way to the core
    core,       \* external: "idle", "starting", "streaming" or "draining"
    surprises,  \* history: events that no command asked for
    alarms,     \* history: error events received since the core was ready
    timedout,   \* history: the locations whose identify timed out
    identified  \* history: pairs of a location and that of the event it took

history == <<alarms, timedout, identified>>
coreVars == <<commands, core, surprises>>
vars == <<step, code, last, attempts, location, queue, coreVars, history>>

Event(type) == [type |-> type, of |-> 0]
Errors(q) == {i \in DOMAIN q : q[i].type = "error"}

Init ==
    /\ step = "ready"
    /\ code = "none"
    /\ last = "none"
    /\ attempts = 0
    /\ location = 1
    /\ queue = << >>
    /\ commands = << >>
    /\ core = "idle"
    /\ surprises = 0
    /\ alarms = 0
    /\ timedout = {}
    /\ identified = {}

End(result) == step' = "ended" /\ code' = result /\ last' = step
Send(type) == commands' = Append(commands, [type |-> type, of |-> location])

-----------------------------------------------------------------------------
(* The run.                                                                 *)

\* _check_server_ready sends the command again after each wait of 2 s ...
SendReady ==
    /\ step = "ready"
    /\ attempts < MaxAttempts
    /\ attempts' = attempts + 1
    /\ Send("is_server_ready")
    /\ step' = "readying"
    /\ UNCHANGED <<code, last, location, queue, core, surprises, history>>

\* ... and raises at its deadline.
NeverReady ==
    /\ step = "ready"
    /\ attempts > 0
    /\ End("raised")
    /\ UNCHANGED <<attempts, location, queue, coreVars, history>>

\* The plan and the payload are made and the system is initialized.
Plan ==
    /\ step = "planning"
    /\ Send("init_system")
    /\ step' = "initializing"
    /\ UNCHANGED <<code, last, attempts, location, queue, core, surprises, history>>

\* No sensor is visible, or the wizard finds no algorithm or location for one.
PlanFails ==
    /\ step = "planning"
    /\ \E result \in {"failed", "raised"} : End(result)
    /\ UNCHANGED <<attempts, location, queue, coreVars, history>>

\* The identify prompts, which the operator may skip one by one or altogether.
Identify ==
    /\ step = "identify"
    /\ location <= NumIdentify
    /\ Send("identify_sensor")
    /\ step' = "identifying"
    /\ UNCHANGED <<code, last, attempts, location, queue, core, surprises, history>>

\* Mutant of SkipIdentify: the sensor is identified, and not waited for.
SkipWait ==
    /\ step = "identify"
    /\ location <= NumIdentify
    /\ Send("identify_sensor")
    /\ location' = location + 1
    /\ UNCHANGED <<step, code, last, attempts, queue, core, surprises, history>>

SkipIdentify ==
    /\ step = "identify"
    /\ location <= NumIdentify
    /\ location' = location + 1
    /\ UNCHANGED <<step, code, last, attempts, queue, coreVars, history>>

EndIdentify ==
    /\ step = "identify"
    /\ location > NumIdentify
    /\ step' = "start"
    /\ UNCHANGED <<code, last, attempts, location, queue, coreVars, history>>

\* "Press Enter to start streaming", to stop, to disconnect.
Command ==
    /\ \/ step = "start" /\ step' = "starting" /\ Send("start_stream")
       \/ step = "stop" /\ step' = "stopping" /\ Send("stop_stream")
       \/ step = "disconnect" /\ step' = "disconnecting" /\ Send("disconnect")
    /\ UNCHANGED <<code, last, attempts, location, queue, core, surprises, history>>

\* The operator interrupts a prompt: WizardCancelled.
Cancel ==
    /\ step \in Prompts
    /\ End("failed")
    /\ UNCHANGED <<attempts, location, queue, coreVars, history>>

-----------------------------------------------------------------------------
(* wait_for_event under the predicates of _check_server_ready,              *)
(* _wait_for_success and _wait_for_stream_start.                            *)

\* Mutant of Fatal: the wait for the official start overlooks error events.
FatalUnlessStarting(type) ==
    \/ type = "error" /\ step \notin {"readying", "starting"}
    \/ step = "starting" /\ type \in {"stream_startup_failed", "stream_drained"}

\* An error event raises in every wait but that for server_ready; so does, in
\* the wait for the official start, an event that there will be none.
Fatal(type) ==
    \/ type = "error" /\ step # "readying"
    \/ step = "starting" /\ type \in {"stream_startup_failed", "stream_drained"}

TakeFatal ==
    /\ step \in Waits
    /\ queue # << >>
    /\ Fatal(Head(queue).type)
    /\ queue' = Tail(queue)
    /\ End("raised")
    /\ UNCHANGED <<attempts, location, coreVars, history>>

TakeOther ==
    /\ step \in Waits
    /\ queue # << >>
    /\ ~Fatal(Head(queue).type)
    /\ Head(queue).type # Expected[step]
    /\ queue' = Tail(queue)
    /\ UNCHANGED <<step, code, last, attempts, location, coreVars, history>>

\* What follows the event that step waits for.
Proceed ==
    CASE step = "initializing"  -> step' = "discovering" /\ Send("discover")
      [] step = "discovering"   -> step' = "connecting" /\ Send("connect")
      [] step = "connecting"    -> step' = "identify" /\ UNCHANGED commands
      [] step = "identifying"   -> step' = "identify" /\ UNCHANGED commands
      [] step = "starting"      -> step' = "stop" /\ UNCHANGED commands
      [] step = "stopping"      -> step' = "disconnect" /\ UNCHANGED commands

TakeExpected ==
    /\ step \in Waits \ {"readying", "disconnecting"}
    /\ queue # << >>
    /\ Head(queue).type = Expected[step]
    /\ queue' = Tail(queue)
    /\ Proceed
    /\ IF step = "identifying"
       THEN /\ identified' = identified \cup {<<location, Head(queue).of>>}
            /\ location' = location + 1
       ELSE UNCHANGED <<identified, location>>
    /\ UNCHANGED <<code, last, attempts, core, surprises, alarms, timedout>>

\* server_ready, with the message that it is ready for testing or without it.
TakeReady ==
    /\ step = "readying"
    /\ queue # << >>
    /\ Head(queue).type = "server_ready"
    /\ queue' = Tail(queue)
    /\ \/ step' = "planning" /\ UNCHANGED <<code, last>>
       \/ End("raised")
    /\ alarms' = Cardinality(Errors(queue'))
    /\ UNCHANGED <<attempts, location, coreVars, timedout, identified>>

\* The disconnect is confirmed, or the wait for it times out: the run is over.
Finish ==
    /\ step = "disconnecting"
    /\ \/ UNCHANGED queue
       \/ /\ queue # << >>
          /\ Head(queue).type = "sensor_disconnected"
          /\ queue' = Tail(queue)
    /\ End("ok")
    /\ UNCHANGED <<attempts, location, coreVars, history>>

\* Mutant of TimeOut: the waits have no deadline.
TimeOutNever == FALSE

\* The deadline passes, also with events in the queue: the clock is read before
\* the queue is.
TimeOut ==
    /\ step \in Waits \ {"disconnecting"}
    /\ CASE step = "readying"    -> /\ step' = "ready"
                                    /\ UNCHANGED <<code, last, location, timedout>>
         [] step = "identifying" -> /\ step' = "identify"
                                    /\ location' = location + 1
                                    /\ timedout' = timedout \cup {location}
                                    /\ UNCHANGED <<code, last>>
         [] OTHER                -> End("raised") /\ UNCHANGED <<location, timedout>>
    /\ UNCHANGED <<attempts, queue, coreVars, alarms, identified>>

Run ==
    \/ SendReady \/ NeverReady \/ Plan \/ PlanFails
    \/ Identify \/ SkipIdentify \/ EndIdentify \/ Command \/ Cancel
    \/ TakeFatal \/ TakeOther \/ TakeExpected \/ TakeReady \/ Finish \/ TimeOut

-----------------------------------------------------------------------------
(* nexus-n3-core and the sockets.                                           *)

\* _recv_loop puts the event in the queue, unless the sockets lose it.
Emit(event) ==
    \/ /\ queue' = Append(queue, event)
       /\ alarms' = IF event.type = "error" THEN alarms + 1 ELSE alarms
    \/ UNCHANGED <<queue, alarms>>

Answers == [is_server_ready |-> "server_ready",
            init_system     |-> "system_initialized",
            discover        |-> "sensors_discovered",
            connect         |-> "sensor_connected",
            identify_sensor |-> "sensor_identified",
            disconnect      |-> "sensor_disconnected"]

\* The core carries a command out, or fails to; or the command is lost.
CoreActs ==
    /\ commands # << >>
    /\ commands' = Tail(commands)
    /\ LET c == Head(commands) IN
       \/ Emit(Event("error")) /\ UNCHANGED core
       \/ /\ c.type \in DOMAIN Answers
          /\ Emit([type |-> Answers[c.type], of |-> c.of])
          /\ UNCHANGED core
       \/ /\ c.type = "start_stream"
          /\ core' = "starting"
          /\ Emit(Event("stream_started"))
       \/ /\ c.type = "stop_stream"
          /\ core # "idle"
          /\ core' = "draining"
          /\ Emit(Event("stream_stopped"))
    /\ UNCHANGED <<step, code, last, attempts, location, surprises, timedout,
                   identified>>

\* The warmup succeeds or fails; the stream is drained, also of its own accord.
CoreStreams ==
    /\ \/ /\ core = "starting"
          /\ core' = "streaming"
          /\ Emit(Event("stream_official_started"))
       \/ /\ core = "starting"
          /\ core' = "idle"
          /\ Emit(Event("stream_startup_failed"))
       \/ /\ core # "idle"
          /\ core' = "idle"
          /\ Emit(Event("stream_drained"))
    /\ UNCHANGED <<step, code, last, attempts, location, commands, surprises,
                   timedout, identified>>

\* An error, or a sensor that disconnects by itself.
CoreSurprises ==
    /\ surprises < MaxSurprises
    /\ surprises' = surprises + 1
    /\ \E type \in {"error", "sensor_disconnected"} : Emit(Event(type))
    /\ UNCHANGED <<step, code, last, attempts, location, commands, core, timedout,
                   identified>>

Next == Run \/ CoreActs \/ CoreStreams \/ CoreSurprises

Spec == Init /\ [][Next]_vars

\* Every wait has a deadline, and the operator answers the prompts.  Nothing is
\* assumed of the core and the sockets.
FairSpec == Spec /\ WF_vars(Run)

-----------------------------------------------------------------------------
(* Properties.                                                              *)

Commands == [type : {"is_server_ready", "init_system", "discover", "connect",
                     "identify_sensor", "start_stream", "stop_stream", "disconnect"},
             of : 1..(NumIdentify + 1)]
Events == [type : {"server_ready", "system_initialized", "sensors_discovered",
                   "sensor_connected", "sensor_identified", "sensor_disconnected",
                   "stream_started", "stream_official_started",
                   "stream_startup_failed", "stream_stopped", "stream_drained",
                   "error"},
           of : 0..(NumIdentify + 1)]

\* Type invariant.
TypeOK ==
    /\ step \in {"ready", "ended"} \cup Prompts \cup Waits
    /\ code \in {"none", "ok", "failed", "raised"}
    /\ step = "ended" <=> code # "none"
    /\ last \in {"none", "ready"} \cup Prompts \cup Waits
    /\ attempts \in 0..MaxAttempts
    /\ location \in 1..(NumIdentify + 1)
    /\ queue \in Seq(Events)
    /\ commands \in Seq(Commands)
    /\ core \in {"idle", "starting", "streaming", "draining"}
    /\ surprises \in 0..MaxSurprises
    /\ alarms \in Nat
    /\ timedout \subseteq 1..NumIdentify
    /\ identified \subseteq (1..NumIdentify) \X (0..(NumIdentify + 1))

\* A run that returns 0 has ignored no error that the core reported since it was
\* ready, not even one that arrived during a prompt: what is left is in the
\* queue, behind the event that ended the last wait.
AlarmsAreFatal == code = "ok" => alarms = Cardinality(Errors(queue))

\* A run that is over leaves the core streaming, or a start on its way to it,
\* only if it ended between the start command and the confirmed stop: it was
\* cancelled at the prompt to stop, or a wait there raised.  Whatever events were
\* lost, late, or taken for the answer to another command, a run that returns 0
\* or that goes wrong anywhere else leaves none.
Streams == core # "idle" \/ \E i \in DOMAIN commands : commands[i].type = "start_stream"
StreamLeftOnlyUnstopped ==
    step = "ended" /\ Streams => last \in {"starting", "stop", "stopping"}

\* An identify is confirmed by its own event, or by that of an earlier location
\* after a wait there or before it had timed out: from then on the events may be
\* one behind.
IdentifyIsOwn ==
    \A pair \in identified :
        \/ pair[1] = pair[2]
        \/ pair[2] < pair[1] /\ \E l \in timedout : l <= pair[2]

\* The run ends, whatever the core does and the sockets lose.
RunEnds == <>(step = "ended")
=============================================================================
