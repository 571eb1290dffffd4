------------------------- MODULE SensorHarnessProofs -------------------------
(***************************************************************************)
(* What holds of run_sensor_test for every set of sensors.                 *)
(***************************************************************************)
EXTENDS SensorHarness, FiniteSetTheorems, TLAPS

-----------------------------------------------------------------------------
(* The inductive invariant.                                                 *)

\* The run has not yet connected, or has not yet started a stream.
BeforeConnect == run = "discover"
BeforeStart == run \in {"discover", "connect", "identify"}

\* An exception is on its way out only in the finally clauses, and one that
\* arose in a finally clause, or outside of the inner one, skips what is left.
RaisedLeaves ==
    /\ ~Leaving => raisedAt = {}
    /\ run \in {"disconnect", "shutdown"} => raisedAt \subseteq {"identify", "start", "stop"}

\* What the run returns is settled at its end.
CodeOfRun ==
    /\ run # "ended" => code \in {"none", "failed"}
    /\ run = "ended" => code # "none"
    /\ run = "ended" => (code = "raised" <=> raisedAt # {})
    /\ code = "failed" => run \in {"shutdown", "close", "ended"}
    /\ run = "ended" => capture = "closed"
    /\ run # "ended" => capture = "open"

\* The adapters are in use from discovery to the end of the shutdown, and those
\* that were not closed then belong to a run that found too few sensors or raised.
AdapterInUse ==
    /\ run \in {"connect", "identify", "start", "sleep", "stop", "disconnect", "shutdown"} =>
          adapter = "open"
    /\ BeforeConnect => adapter = "unused"
    /\ run \in {"close", "ended"} /\ adapter = "open" =>
          \/ found < Cardinality(Sensors)
          \/ raisedAt \cap {"discover", "connect", "disconnect", "shutdown"} # {}
    /\ run \in {"close", "ended"} /\ raisedAt = {} => adapter = "closed" \/ code = "failed"

\* Polling tasks exist from the start on; the shutdown stops all that are left.
TasksOfRun ==
    /\ BeforeStart => Tasks = {}
    /\ run = "shutdown" => Tasks \subseteq todo
    /\ adapter = "closed" => Tasks = {}
    /\ run \in {"close", "ended"} /\ raisedAt = {} => Tasks = {}

\* A sensor whose link is up is marked as connected, unless connecting it raised:
\* so disconnect_all reaches every link.
LinksAreMarked ==
    /\ BeforeConnect => \A s \in Sensors : ~link[s] /\ status[s] = "unconnected"
    /\ "connect" \notin raisedAt => \A s \in Sensors : link[s] => status[s] = "connected"

\* disconnect_all asks for each of them; what it leaves was refused.
LinksAreReleased ==
    /\ run = "disconnect" =>
          /\ Connected \subseteq todo \cup asked
          /\ \A s \in Sensors : link[s] => s \in todo \cup refused
    /\ run \in {"shutdown", "close", "ended"} /\ raisedAt = {} =>
          /\ Connected \subseteq asked
          /\ \A s \in Sensors : link[s] => s \in refused

\* Samples may still come from a sensor that streams, that is polled, or whose
\* samples are under way.  stop_all has reached all of these, or counts them loose;
\* behind the close of the gateway's port only an abandoned reader has any left.
Yields(s) == stream[s] \/ flight[s] \/ task[s] # "none"
StreamsAreStopped ==
    /\ \A s \in Sensors : s \in Polled => ~stream[s]
    /\ BeforeStart \/ code = "failed" => \A s \in Sensors : ~Yields(s)
    /\ raisedAt = {} =>
          \A s \in Sensors : Yields(s) =>
              run \in {"start", "sleep"} \/ (run = "stop" /\ s \in todo) \/ s \in loose
    /\ backend = "gateway" /\ adapter = "closed" /\ ~abandoned =>
          \A s \in Sensors : ~stream[s] /\ ~flight[s]

\* From the summary on it counts what was recorded before it; what is recorded
\* later comes from sensors that are loose.
SummaryIsFinal ==
    /\ ~Leaving \/ code = "failed" => after = {}
    /\ raisedAt = {} => after \subseteq loose
    /\ late => run = "ended"
    /\ late /\ raisedAt = {} => backend = "bleak" \/ abandoned
    /\ Leaving /\ raisedAt = {} /\ code = "none" /\ data => counted \/ after # {}
    /\ code = "no_data" /\ data => after # {}

IInv == /\ TypeOK
        /\ RaisedLeaves /\ CodeOfRun /\ AdapterInUse /\ TasksOfRun
        /\ LinksAreMarked /\ LinksAreReleased /\ StreamsAreStopped /\ SummaryIsFinal

-----------------------------------------------------------------------------
(* Type correctness.                                                        *)

\* The invariant holds before discovery.
LEMMA IInvInit == Init => IInv
<1> SUFFICES ASSUME Init PROVE IInv
  OBVIOUS
<1>1. Cardinality(Sensors) \in Nat
  BY SensorsAreFinite, FS_CardinalityType
<1>2. TypeOK
  <2>1. 0 \in 0..Cardinality(Sensors)
    BY <1>1
  <2> QED
    BY <2>1 DEF Init, TypeOK
<1>3. RaisedLeaves /\ CodeOfRun /\ AdapterInUse /\ LinksAreReleased
  BY DEF Init, RaisedLeaves, CodeOfRun, AdapterInUse, LinksAreReleased, BeforeConnect
<1>4. TasksOfRun /\ LinksAreMarked
  BY DEF Init, TasksOfRun, LinksAreMarked, Tasks
<1>5. StreamsAreStopped /\ SummaryIsFinal
  BY DEF Init, StreamsAreStopped, Yields, SummaryIsFinal, Leaving
<1> QED
  BY <1>2, <1>3, <1>4, <1>5 DEF IInv

\* Every variable keeps its type.
LEMMA TypeOKStep ==
    ASSUME TypeOK, [Next]_vars
    PROVE  TypeOK'
<1> USE DEF TypeOK, GoTo, progress, external, records, answers, seen, pool
<1>1. CASE SetUpRaises \/ Discover \/ EndConnect
  <2>1. Cardinality(Sensors) \in Nat
    BY SensorsAreFinite, FS_CardinalityType
  <2>2. CASE SetUpRaises
    BY <2>2 DEF SetUpRaises
  <2>3. CASE Discover
    <3>1. found' \in 0..Cardinality(Sensors)
      BY <2>1, <2>3 DEF Discover
    <3>2. /\ run' \in {"connect", "close"} /\ todo' \subseteq Sensors /\ adapter' = "open"
          /\ todo' # {} => run' = "connect"
          /\ code' \in {code, "failed"} /\ raisedAt' \in {raisedAt, {run}}
          /\ UNCHANGED <<external, status, answers, task, abandoned, capture, records>>
      BY <2>3 DEF Discover
    <3>3. run = "discover"
      BY <2>3 DEF Discover
    <3> QED
      BY <3>1, <3>2, <3>3
  <2>4. CASE EndConnect
    BY <2>4 DEF EndConnect, Tasks
  <2> QED
    BY <1>1, <2>2, <2>3, <2>4
<1>2. ASSUME NEW s \in Sensors, ConnectSensor(s)
      PROVE  TypeOK'
  BY <1>2 DEF ConnectSensor
<1>3. ASSUME NEW s \in Sensors, PassOver(s)
      PROVE  TypeOK'
  BY <1>3 DEF PassOver
<1>4. ASSUME NEW s \in Sensors, ConnectRaises(s)
      PROVE  TypeOK'
  BY <1>4 DEF ConnectRaises
<1>5. CASE StartAll \/ EndSleep
  <2>1. CASE StartAll
    BY <2>1 DEF StartAll, Connected
  <2>2. CASE EndSleep
    BY <2>2 DEF EndSleep, Connected
  <2> QED
    BY <1>5, <2>1, <2>2
<1>6. CASE EndStart \/ EndStop
  <2>1. CASE EndStart
    BY <2>1 DEF EndStart
  <2>2. CASE EndStop
    BY <2>2 DEF EndStop, Connected
  <2> QED
    BY <1>6, <2>1, <2>2
<1>7. CASE StreamRaises
  BY <1>7 DEF StreamRaises, Connected
<1>8. ASSUME NEW s \in Sensors, StartSensor(s)
      PROVE  TypeOK'
  BY <1>8 DEF StartSensor
<1>9. ASSUME NEW s \in Sensors, StopSensor(s)
      PROVE  TypeOK'
  <2>1. /\ run' = "stop" /\ todo' = todo \ {s} /\ run = "stop"
        /\ UNCHANGED <<raisedAt, code, found, link, flight, status, answers, pool,
                       capture, seen, counted>>
    BY <1>9 DEF StopSensor
  <2>2. /\ task' \in [Sensors -> {"none", "polling", "sleeping", "failed"}]
        /\ stream' \in [Sensors -> BOOLEAN]
    BY <1>9 DEF StopSensor
  <2>3. loose' \subseteq Sensors
    BY <1>9 DEF StopSensor
  <2> QED
    BY <2>1, <2>2, <2>3
<1>10. ASSUME NEW s \in Sensors, StopRaises(s)
      PROVE  TypeOK'
  BY <1>10 DEF StopRaises, Connected
<1>11. ASSUME NEW s \in Sensors, DisconnectSensor(s)
      PROVE  TypeOK'
  <2>1. /\ link' \in [Sensors -> BOOLEAN] /\ stream' \in [Sensors -> BOOLEAN]
        /\ flight' = flight
        /\ status' \in [Sensors -> {"unconnected", "connected", "disconnected"}]
    BY <1>11 DEF DisconnectSensor
  <2>2. asked' \subseteq Sensors /\ refused' \subseteq asked'
    BY <1>11 DEF DisconnectSensor
  <2>3. /\ run' = "disconnect" /\ todo' \subseteq Sensors
        /\ UNCHANGED <<raisedAt, code, found, backend, task, pool, capture, records>>
    BY <1>11 DEF DisconnectSensor
  <2> QED
    BY <2>1, <2>2, <2>3
<1>12. ASSUME NEW s \in Sensors, DisconnectRaises(s)
      PROVE  TypeOK'
  BY <1>12 DEF DisconnectRaises
<1>13. ASSUME NEW s \in Sensors, ShutdownTask(s)
      PROVE  TypeOK'
  <2>1. CASE task[s] = "failed"
    <3>1. /\ run' = "close" /\ todo' = {} /\ raisedAt' = raisedAt \cup {run} /\ run = "shutdown"
          /\ UNCHANGED <<code, found, external, status, task, answers, pool, capture, records>>
      BY <1>13, <2>1 DEF ShutdownTask
    <3> QED
      BY <3>1
  <2>2. CASE task[s] # "failed"
    <3>1. /\ GoTo("shutdown", todo \ {s})
          /\ task' = [task EXCEPT ![s] = "none"] /\ raisedAt' = raisedAt
          /\ UNCHANGED <<code, found, external, status, answers, pool, capture, records>>
      BY <1>13, <2>2 DEF ShutdownTask
    <3>2. task' \in [Sensors -> {"none", "polling", "sleeping", "failed"}]
      BY <3>1
    <3>3. /\ run' = "shutdown" /\ todo' \subseteq Sensors
          /\ UNCHANGED <<asked, refused, link, stream, flight, status, backend>>
      BY <3>1
    <3> QED
      BY <3>1, <3>2, <3>3
  <2> QED
    BY <2>1, <2>2
<1>14. CASE EndDisconnect \/ CloseAdapters
  <2>1. CASE EndDisconnect
    BY <2>1 DEF EndDisconnect, Tasks
  <2>2. CASE CloseAdapters
    <3>1. /\ run' = "close" /\ todo' = {} /\ adapter' = "closed"
          /\ UNCHANGED <<raisedAt, code, found, link, status, answers, task, capture, records>>
      BY <2>2 DEF CloseAdapters, ClosePool
    <3>2. /\ stream' \in [Sensors -> BOOLEAN] /\ flight' \in [Sensors -> BOOLEAN]
          /\ abandoned' \in BOOLEAN
      BY <2>2 DEF CloseAdapters, ClosePool
    <3> QED
      BY <3>1, <3>2
  <2> QED
    BY <1>14, <2>1, <2>2
<1>15. CASE CloseCapture
  BY <1>15 DEF CloseCapture
<1>16. ASSUME NEW s \in Sensors, PollReturns(s)
      PROVE  TypeOK'
  BY <1>16 DEF PollReturns, Record
<1>17. ASSUME NEW s \in Sensors, PollWakes(s) \/ PollFails(s)
      PROVE  TypeOK'
  <2>1. CASE PollWakes(s)
    BY <2>1 DEF PollWakes
  <2>2. CASE PollFails(s)
    BY <2>2 DEF PollFails
  <2> QED
    BY <1>17, <2>1, <2>2
<1>18. ASSUME NEW s \in Sensors, SendSample(s) \/ Arrive(s)
      PROVE  TypeOK'
  <2>1. CASE SendSample(s)
    BY <2>1 DEF SendSample
  <2>2. CASE Arrive(s)
    BY <2>2 DEF Arrive, Record
  <2> QED
    BY <1>18, <2>1, <2>2
<1>19. ASSUME NEW s \in Sensors, LinkDown(s)
      PROVE  TypeOK'
  BY <1>19 DEF LinkDown
<1>20. CASE UNCHANGED vars
  BY <1>20 DEF vars
<1> QED
  BY <1>1, <1>2, <1>3, <1>4, <1>5, <1>6, <1>7, <1>8, <1>9, <1>10, <1>11, <1>12,
     <1>13, <1>14, <1>15, <1>16, <1>17, <1>18, <1>19, <1>20
  DEF Next, Run

-----------------------------------------------------------------------------
(* Each part of the invariant is kept.                                      *)

\* An exception leaves by the finally clauses.
LEMMA RaisedLeavesStep ==
    ASSUME TypeOK, RaisedLeaves, [Next]_vars
    PROVE  RaisedLeaves'
<1> USE DEF RaisedLeaves, Leaving, GoTo, progress, external, records, answers, seen, pool
<1>1. CASE SetUpRaises \/ Discover \/ EndConnect
  BY <1>1 DEF SetUpRaises, Discover, EndConnect
<1>2. ASSUME NEW s \in Sensors, ConnectSensor(s) \/ PassOver(s) \/ ConnectRaises(s)
      PROVE  RaisedLeaves'
  BY <1>2 DEF ConnectSensor, PassOver, ConnectRaises
<1>3. CASE StartAll \/ EndStart \/ EndSleep
  BY <1>3 DEF StartAll, EndStart, EndSleep
<1>4. CASE EndStop \/ StreamRaises
  BY <1>4 DEF EndStop, StreamRaises
<1>5. ASSUME NEW s \in Sensors, StartSensor(s) \/ StopSensor(s) \/ StopRaises(s)
      PROVE  RaisedLeaves'
  BY <1>5 DEF StartSensor, StopSensor, StopRaises
<1>6. ASSUME NEW s \in Sensors, DisconnectSensor(s) \/ DisconnectRaises(s) \/ ShutdownTask(s)
      PROVE  RaisedLeaves'
  BY <1>6 DEF DisconnectSensor, DisconnectRaises, ShutdownTask
<1>7. CASE EndDisconnect \/ CloseAdapters \/ CloseCapture
  BY <1>7 DEF EndDisconnect, CloseAdapters, CloseCapture, ClosePool
<1>8. ASSUME NEW s \in Sensors, PollReturns(s) \/ PollWakes(s) \/ PollFails(s)
      PROVE  RaisedLeaves'
  BY <1>8 DEF PollReturns, PollWakes, PollFails
<1>9. ASSUME NEW s \in Sensors, SendSample(s) \/ Arrive(s) \/ LinkDown(s)
      PROVE  RaisedLeaves'
  BY <1>9 DEF SendSample, Arrive, Record, LinkDown
<1>10. CASE UNCHANGED vars
  BY <1>10 DEF vars
<1> QED
  BY <1>1, <1>2, <1>3, <1>4, <1>5, <1>6, <1>7, <1>8, <1>9, <1>10 DEF Next, Run

\* The code is settled as the capture is closed.
LEMMA CodeOfRunStep ==
    ASSUME TypeOK, RaisedLeaves, CodeOfRun, [Next]_vars
    PROVE  CodeOfRun'
<1> USE DEF CodeOfRun, GoTo, progress, external, records, answers, seen, pool
<1>1. CASE SetUpRaises \/ Discover \/ EndConnect
  BY <1>1 DEF SetUpRaises, Discover, EndConnect
<1>2. ASSUME NEW s \in Sensors, ConnectSensor(s) \/ PassOver(s) \/ ConnectRaises(s)
      PROVE  CodeOfRun'
  BY <1>2 DEF ConnectSensor, PassOver, ConnectRaises
<1>3. CASE StartAll \/ EndStart \/ EndSleep
  BY <1>3 DEF StartAll, EndStart, EndSleep
<1>4. CASE EndStop \/ StreamRaises
  BY <1>4 DEF EndStop, StreamRaises
<1>5. ASSUME NEW s \in Sensors, StartSensor(s) \/ StopSensor(s) \/ StopRaises(s)
      PROVE  CodeOfRun'
  BY <1>5 DEF StartSensor, StopSensor, StopRaises
<1>6. ASSUME NEW s \in Sensors, DisconnectSensor(s) \/ DisconnectRaises(s) \/ ShutdownTask(s)
      PROVE  CodeOfRun'
  BY <1>6 DEF DisconnectSensor, DisconnectRaises, ShutdownTask
<1>7. CASE EndDisconnect \/ CloseAdapters \/ CloseCapture
  BY <1>7 DEF EndDisconnect, CloseAdapters, CloseCapture, ClosePool
<1>8. ASSUME NEW s \in Sensors, PollReturns(s) \/ PollWakes(s) \/ PollFails(s)
      PROVE  CodeOfRun'
  BY <1>8 DEF PollReturns, PollWakes, PollFails
<1>9. ASSUME NEW s \in Sensors, SendSample(s) \/ Arrive(s) \/ LinkDown(s)
      PROVE  CodeOfRun'
  BY <1>9 DEF SendSample, Arrive, Record, LinkDown
<1>10. CASE UNCHANGED vars
  BY <1>10 DEF vars
<1> QED
  BY <1>1, <1>2, <1>3, <1>4, <1>5, <1>6, <1>7, <1>8, <1>9, <1>10 DEF Next, Run

\* Only a shutdown closes the adapters.
LEMMA AdapterInUseStep ==
    ASSUME TypeOK, RaisedLeaves, AdapterInUse, [Next]_vars
    PROVE  AdapterInUse'
<1> USE DEF AdapterInUse, BeforeConnect, Leaving, GoTo, progress, external, records, answers,
            seen, pool
<1>1. Cardinality(Sensors) \in Nat
  BY SensorsAreFinite, FS_CardinalityType
<1>2. CASE SetUpRaises \/ Discover \/ EndConnect
  BY <1>1, <1>2 DEF SetUpRaises, Discover, EndConnect
<1>3. ASSUME NEW s \in Sensors, ConnectSensor(s) \/ PassOver(s) \/ ConnectRaises(s)
      PROVE  AdapterInUse'
  BY <1>1, <1>3 DEF ConnectSensor, PassOver, ConnectRaises
<1>4. CASE StartAll \/ EndStart \/ EndSleep
  BY <1>1, <1>4 DEF StartAll, EndStart, EndSleep
<1>5. CASE EndStop \/ StreamRaises
  BY <1>1, <1>5 DEF EndStop, StreamRaises
<1>6. ASSUME NEW s \in Sensors, StartSensor(s) \/ StopSensor(s) \/ StopRaises(s)
      PROVE  AdapterInUse'
  BY <1>1, <1>6 DEF StartSensor, StopSensor, StopRaises
<1>7. ASSUME NEW s \in Sensors, DisconnectSensor(s) \/ DisconnectRaises(s) \/ ShutdownTask(s)
      PROVE  AdapterInUse'
  BY <1>1, <1>7 DEF DisconnectSensor, DisconnectRaises, ShutdownTask
<1>8. CASE EndDisconnect \/ CloseAdapters \/ CloseCapture
  BY <1>1, <1>8 DEF EndDisconnect, CloseAdapters, CloseCapture, ClosePool
<1>9. ASSUME NEW s \in Sensors, PollReturns(s) \/ PollWakes(s) \/ PollFails(s)
      PROVE  AdapterInUse'
  BY <1>1, <1>9 DEF PollReturns, PollWakes, PollFails
<1>10. ASSUME NEW s \in Sensors, SendSample(s) \/ Arrive(s) \/ LinkDown(s)
      PROVE  AdapterInUse'
  BY <1>1, <1>10 DEF SendSample, Arrive, Record, LinkDown
<1>11. CASE UNCHANGED vars
  BY <1>11 DEF vars
<1> QED
  BY <1>2, <1>3, <1>4, <1>5, <1>6, <1>7, <1>8, <1>9, <1>10, <1>11 DEF Next, Run

\* The shutdown stops the polling tasks that are left.
LEMMA TasksOfRunStep ==
    ASSUME TypeOK, RaisedLeaves, AdapterInUse, TasksOfRun, [Next]_vars
    PROVE  TasksOfRun'
<1> USE DEF TasksOfRun, BeforeStart, GoTo, progress, external, records, answers, seen, pool
<1>1. CASE SetUpRaises \/ Discover \/ EndConnect
  BY <1>1 DEF SetUpRaises, Discover, EndConnect, Tasks
<1>2. ASSUME NEW s \in Sensors, ConnectSensor(s) \/ PassOver(s) \/ ConnectRaises(s)
      PROVE  TasksOfRun'
  BY <1>2 DEF ConnectSensor, PassOver, ConnectRaises, Tasks
<1>3. CASE StartAll \/ EndStart \/ EndSleep
  BY <1>3 DEF StartAll, EndStart, EndSleep, Tasks
<1>4. CASE EndStop \/ StreamRaises
  BY <1>4 DEF EndStop, StreamRaises, Tasks
<1>5. ASSUME NEW s \in Sensors, StartSensor(s)
      PROVE  TasksOfRun'
  <2>1. adapter = "open" /\ run = "start" /\ run' = "start" /\ adapter' = adapter
    BY <1>5 DEF StartSensor, AdapterInUse
  <2> QED
    BY <2>1
<1>6. ASSUME NEW s \in Sensors, StopSensor(s)
      PROVE  TasksOfRun'
  BY <1>6 DEF StopSensor, Tasks
<1>7. ASSUME NEW s \in Sensors, StopRaises(s)
      PROVE  TasksOfRun'
  BY <1>7 DEF StopRaises, Tasks
<1>8. ASSUME NEW s \in Sensors, DisconnectSensor(s) \/ DisconnectRaises(s)
      PROVE  TasksOfRun'
  BY <1>8 DEF DisconnectSensor, DisconnectRaises, Tasks
<1>9. ASSUME NEW s \in Sensors, ShutdownTask(s)
      PROVE  TasksOfRun'
  <2>1. CASE task[s] = "failed"
    BY <1>9, <2>1 DEF ShutdownTask, Tasks, RaisedLeaves, Leaving
  <2>2. CASE task[s] # "failed"
    <3>1. /\ run = "shutdown" /\ run' = "shutdown" /\ adapter = "open" /\ adapter' = "open"
          /\ todo' = todo \ {s}
      BY <1>9, <2>2 DEF ShutdownTask, AdapterInUse
    <3>2. \A q \in Sensors : task'[q] = IF q = s THEN "none" ELSE task[q]
      BY <1>9, <2>2 DEF ShutdownTask, TypeOK
    <3>3. Tasks' \subseteq todo'
      BY <3>1, <3>2 DEF Tasks
    <3> QED
      BY <3>1, <3>3
  <2> QED
    BY <2>1, <2>2
<1>10. CASE EndDisconnect \/ CloseAdapters \/ CloseCapture
  BY <1>10 DEF EndDisconnect, CloseAdapters, CloseCapture, ClosePool, Tasks
<1>11. ASSUME NEW s \in Sensors, PollReturns(s) \/ PollWakes(s) \/ PollFails(s)
      PROVE  TasksOfRun'
  <2>1. /\ task[s] # "none" /\ task'[s] # "none"
        /\ \A q \in Sensors : q # s => task'[q] = task[q]
    BY <1>11 DEF PollReturns, PollWakes, PollFails, TypeOK
  <2>2. Tasks' = Tasks
    BY <2>1 DEF Tasks
  <2> QED
    BY <1>11, <2>2 DEF PollReturns, PollWakes, PollFails
<1>12. ASSUME NEW s \in Sensors, SendSample(s) \/ Arrive(s) \/ LinkDown(s)
      PROVE  TasksOfRun'
  BY <1>12 DEF SendSample, Arrive, Record, LinkDown, Tasks
<1>13. CASE UNCHANGED vars
  BY <1>13 DEF vars, Tasks
<1> QED
  BY <1>1, <1>2, <1>3, <1>4, <1>5, <1>6, <1>7, <1>8, <1>9, <1>10, <1>11, <1>12, <1>13 DEF Next, Run

\* What makes a link also marks the sensor, and what loses the mark ends the link.
LEMMA LinksAreMarkedStep ==
    ASSUME TypeOK, RaisedLeaves, LinksAreMarked, [Next]_vars
    PROVE  LinksAreMarked'
<1> USE DEF LinksAreMarked, BeforeConnect, GoTo, progress, external, records, answers, seen, pool
<1>1. CASE SetUpRaises \/ Discover \/ EndConnect
  BY <1>1 DEF SetUpRaises, Discover, EndConnect
<1>2. ASSUME NEW s \in Sensors, ConnectSensor(s)
      PROVE  LinksAreMarked'
  <2>1. /\ run' # "discover" /\ raisedAt' = raisedAt /\ status'[s] = "connected"
        /\ \A q \in Sensors : q # s => link'[q] = link[q] /\ status'[q] = status[q]
    BY <1>2 DEF ConnectSensor, TypeOK
  <2> QED
    BY <2>1
<1>3. ASSUME NEW s \in Sensors, PassOver(s) \/ ConnectRaises(s)
      PROVE  LinksAreMarked'
  BY <1>3 DEF PassOver, ConnectRaises
<1>4. CASE StartAll \/ EndStart \/ EndSleep \/ EndStop \/ StreamRaises
  BY <1>4 DEF StartAll, EndStart, EndSleep, EndStop, StreamRaises
<1>5. ASSUME NEW s \in Sensors, StartSensor(s) \/ StopSensor(s) \/ StopRaises(s)
      PROVE  LinksAreMarked'
  BY <1>5 DEF StartSensor, StopSensor, StopRaises
<1>6. ASSUME NEW s \in Sensors, DisconnectSensor(s) \/ LinkDown(s)
      PROVE  LinksAreMarked'
  <2>1. CASE UNCHANGED <<link, status>>
    BY <1>6, <2>1 DEF DisconnectSensor, LinkDown
  <2>2. CASE ~UNCHANGED <<link, status>>
    <3>1. /\ run' = run /\ raisedAt' = raisedAt
          /\ run # "discover"
          /\ ~link'[s]
          /\ \A q \in Sensors : q # s => link'[q] = link[q] /\ status'[q] = status[q]
      BY <1>6, <2>2 DEF DisconnectSensor, LinkDown, TypeOK
    <3> QED
      BY <3>1
  <2> QED
    BY <2>1, <2>2
<1>7. ASSUME NEW s \in Sensors, DisconnectRaises(s) \/ ShutdownTask(s)
      PROVE  LinksAreMarked'
  BY <1>7 DEF DisconnectRaises, ShutdownTask
<1>8. CASE EndDisconnect \/ CloseAdapters \/ CloseCapture
  BY <1>8 DEF EndDisconnect, CloseAdapters, CloseCapture, ClosePool
<1>9. ASSUME NEW s \in Sensors,
              PollReturns(s) \/ PollWakes(s) \/ PollFails(s) \/ SendSample(s) \/ Arrive(s)
      PROVE  LinksAreMarked'
  BY <1>9 DEF PollReturns, PollWakes, PollFails, SendSample, Arrive, Record
<1>10. CASE UNCHANGED vars
  BY <1>10 DEF vars
<1> QED
  BY <1>1, <1>2, <1>3, <1>4, <1>5, <1>6, <1>7, <1>8, <1>9, <1>10 DEF Next, Run

\* Every link of a run whose connections did not raise belongs to a connected sensor.
LEMMA MarkedLinks ==
    ASSUME TypeOK, LinksAreMarked, "connect" \notin raisedAt
    PROVE  \A s \in Sensors : link[s] => s \in Connected
BY DEF LinksAreMarked, Connected

\* disconnect_all takes each sensor that is connected as it begins, and no sensor
\* is connected meanwhile.
LEMMA LinksAreReleasedStep ==
    ASSUME TypeOK, RaisedLeaves, LinksAreMarked, LinksAreReleased, [Next]_vars
    PROVE  LinksAreReleased'
<1> USE DEF LinksAreReleased, GoTo, progress, external, records, answers, seen, pool
<1>1. CASE SetUpRaises \/ EndDisconnect \/ CloseAdapters \/ CloseCapture
  BY <1>1 DEF SetUpRaises, EndDisconnect, CloseAdapters, CloseCapture, ClosePool,
      RaisedLeaves, Leaving, Connected
<1>2. CASE Discover
  <2>1. \A s \in Sensors : ~link'[s] /\ status'[s] = "unconnected"
    BY <1>2 DEF Discover, LinksAreMarked, BeforeConnect
  <2> QED
    BY <1>2, <2>1 DEF Discover, Connected
<1>3. CASE EndConnect
  <2>1. raisedAt = {} /\ raisedAt' = raisedAt /\ link' = link /\ status' = status
    BY <1>3 DEF EndConnect, RaisedLeaves, Leaving
  <2>2. run' \in {"shutdown", "identify"}
    BY <1>3 DEF EndConnect
  <2>3. run' = "shutdown" => \A s \in Sensors : status[s] = "unconnected"
    BY <1>3 DEF EndConnect
  <2> QED
    BY <2>1, <2>2, <2>3 DEF Connected, LinksAreMarked
<1>4. CASE EndStop \/ StreamRaises \/ \E s \in Sensors : StopRaises(s)
  <2>1. run' = "disconnect" /\ todo' = Connected /\ link' = link /\ status' = status
    BY <1>4 DEF EndStop, StreamRaises, StopRaises
  <2>2. raisedAt = {}
    BY <1>4 DEF EndStop, StreamRaises, StopRaises, RaisedLeaves, Leaving
  <2> QED
    BY <2>1, <2>2, MarkedLinks DEF Connected
<1>5. ASSUME NEW s \in Sensors, DisconnectSensor(s)
      PROVE  LinksAreReleased'
  <2>1. /\ run = "disconnect" /\ run' = "disconnect"
        /\ todo' = todo \ {s} /\ asked' = asked \cup {s}
        /\ refused \subseteq refused'
        /\ ~link'[s] \/ s \in refused'
        /\ \A q \in Sensors : q # s => link'[q] = link[q] /\ status'[q] = status[q]
    BY <1>5 DEF DisconnectSensor, TypeOK
  <2> QED
    BY <2>1 DEF Connected
<1>6. ASSUME NEW s \in Sensors, LinkDown(s)
      PROVE  LinksAreReleased'
  <2>1. /\ run' = run /\ todo' = todo /\ raisedAt' = raisedAt
        /\ asked' = asked /\ refused' = refused
        /\ ~link'[s] /\ status'[s] # "connected"
        /\ \A q \in Sensors : q # s => link'[q] = link[q] /\ status'[q] = status[q]
    BY <1>6 DEF LinkDown, TypeOK
  <2> QED
    BY <2>1 DEF Connected
<1>7. ASSUME NEW s \in Sensors, ConnectSensor(s) \/ PassOver(s) \/ ConnectRaises(s)
      PROVE  LinksAreReleased'
  BY <1>7 DEF ConnectSensor, PassOver, ConnectRaises
<1>8. ASSUME NEW s \in Sensors, StartSensor(s) \/ StopSensor(s)
      PROVE  LinksAreReleased'
  BY <1>8 DEF StartSensor, StopSensor
<1>9. CASE StartAll \/ EndStart \/ EndSleep
  BY <1>9 DEF StartAll, EndStart, EndSleep
<1>10. ASSUME NEW s \in Sensors, DisconnectRaises(s) \/ ShutdownTask(s)
       PROVE  LinksAreReleased'
  BY <1>10 DEF DisconnectRaises, ShutdownTask, Connected
<1>11. ASSUME NEW s \in Sensors,
              PollReturns(s) \/ PollWakes(s) \/ PollFails(s) \/ SendSample(s) \/ Arrive(s)
       PROVE  LinksAreReleased'
  BY <1>11 DEF PollReturns, PollWakes, PollFails, SendSample, Arrive, Record, Connected
<1>12. CASE UNCHANGED vars
  BY <1>12 DEF vars, Connected
<1> QED
  BY <1>1, <1>2, <1>3, <1>4, <1>5, <1>6, <1>7, <1>8, <1>9, <1>10, <1>11, <1>12 DEF Next, Run

\* stop_all reaches every sensor that yields samples, and silences it or finds it
\* loose; before the streams start, and behind a run that fails early, none yields.
LEMMA StreamsAreStoppedStep ==
    ASSUME TypeOK, RaisedLeaves, CodeOfRun, AdapterInUse, TasksOfRun, StreamsAreStopped,
           [Next]_vars
    PROVE  StreamsAreStopped'
<1> USE DEF StreamsAreStopped, Yields, BeforeStart, GoTo, progress, external, records,
            answers, seen, pool
<1>1. CASE SetUpRaises \/ Discover \/ EndConnect \/ StartAll
  <2>1. /\ run \in {"discover", "connect", "identify"}
        /\ UNCHANGED <<stream, flight, task, loose>>
    BY <1>1 DEF SetUpRaises, Discover, EndConnect, StartAll
  <2>2. \A s \in Sensors : ~Yields(s)
    BY <2>1
  <2>3. \A s \in Sensors : ~Yields(s)'
    BY <2>1, <2>2
  <2> QED
    BY <2>3
<1>2. ASSUME NEW s \in Sensors, ConnectSensor(s) \/ PassOver(s) \/ ConnectRaises(s)
      PROVE  StreamsAreStopped'
  <2>1. run = "connect" /\ UNCHANGED <<stream, flight, task>>
    BY <1>2 DEF ConnectSensor, PassOver, ConnectRaises
  <2>2. \A q \in Sensors : ~Yields(q)'
    BY <2>1
  <2> QED
    BY <2>2
<1>3. ASSUME NEW s \in Sensors, StartSensor(s)
      PROVE  StreamsAreStopped'
  <2>1. /\ run' = "start" /\ code' # "failed" /\ adapter' # "closed"
        /\ \A q \in Sensors : q \in Polled => ~stream'[q]
    BY <1>3 DEF StartSensor, CodeOfRun, AdapterInUse, TypeOK
  <2> QED
    BY <2>1
<1>4. CASE EndSleep
  <2>1. /\ run' = "stop" /\ todo' = Connected /\ Sensors \ Connected \subseteq loose'
        /\ code' # "failed" /\ adapter' # "closed" /\ stream' = stream
    BY <1>4 DEF EndSleep, CodeOfRun, AdapterInUse
  <2> QED
    BY <2>1
<1>5. ASSUME NEW s \in Sensors, StopSensor(s)
      PROVE  StreamsAreStopped'
  <2>1. /\ run = "stop" /\ run' = "stop" /\ todo' = todo \ {s}
        /\ raisedAt' = raisedAt /\ code' # "failed" /\ adapter' # "closed"
        /\ flight' = flight /\ task'[s] = "none"
        /\ loose \subseteq loose'
        /\ \A q \in Sensors : /\ stream'[q] => stream[q]
                              /\ q # s => stream'[q] = stream[q] /\ task'[q] = task[q]
    BY <1>5 DEF StopSensor, TypeOK, CodeOfRun, AdapterInUse
  <2>2. Yields(s)' => s \in loose'
    <3>1. CASE flight[s]
      BY <1>5, <3>1 DEF StopSensor, Escapes
    <3>2. CASE ~flight[s] /\ s \in Stoppable
      <4>1. ~stream'[s]
        BY <1>5, <3>2 DEF StopSensor, TypeOK
      <4> QED
        BY <2>1, <3>2, <4>1
    <3>3. CASE ~flight[s] /\ s \notin Stoppable
      <4>1. CASE s \in Polled
        BY <1>5, <2>1, <3>3, <4>1 DEF StopSensor, TypeOK
      <4>2. CASE s \notin Polled
        BY <1>5, <3>3, <4>2 DEF StopSensor, Escapes
      <4> QED
        BY <4>1, <4>2
    <3> QED
      BY <3>1, <3>2, <3>3
  <2>3. \A q \in Sensors : q # s /\ Yields(q)' => Yields(q)
    BY <2>1
  <2> QED
    BY <2>1, <2>2, <2>3
<1>6. CASE EndStart \/ EndStop \/ StreamRaises \/ \E s \in Sensors : StopRaises(s)
  <2>1. /\ run \in {"identify", "start", "stop"} /\ code' # "failed" /\ adapter' # "closed"
        /\ UNCHANGED <<stream, flight, task, loose>>
        /\ raisedAt' = {} => \/ run' = "sleep"
                             \/ run = "stop" /\ todo = {} /\ raisedAt = {}
    BY <1>6 DEF EndStart, EndStop, StreamRaises, StopRaises, CodeOfRun, AdapterInUse
  <2>2. ~BeforeStart'
    BY <1>6 DEF EndStart, EndStop, StreamRaises, StopRaises
  <2> QED
    BY <2>1, <2>2
<1>7. ASSUME NEW s \in Sensors, DisconnectSensor(s) \/ LinkDown(s)
      PROVE  StreamsAreStopped'
  <2>1. /\ UNCHANGED <<run, raisedAt, code, task, flight, loose, backend, adapter, abandoned>>
        /\ run = "stop" => todo' = todo
        /\ \A q \in Sensors : stream'[q] => stream[q]
    BY <1>7 DEF DisconnectSensor, LinkDown, TypeOK
  <2>2. \A q \in Sensors : Yields(q)' => Yields(q)
    BY <2>1
  <2> QED
    BY <2>1, <2>2
<1>8. ASSUME NEW s \in Sensors, DisconnectRaises(s)
      PROVE  StreamsAreStopped'
  BY <1>8 DEF DisconnectRaises
<1>9. ASSUME NEW s \in Sensors, ShutdownTask(s)
      PROVE  StreamsAreStopped'
  <2>1. /\ run = "shutdown" /\ run' \in {"shutdown", "close"}
        /\ UNCHANGED <<stream, flight, code, loose, backend, adapter, abandoned>>
        /\ raisedAt' = {} => raisedAt = {}
        /\ \A q \in Sensors : task'[q] # "none" => task[q] # "none"
    BY <1>9 DEF ShutdownTask, TypeOK
  <2>2. \A q \in Sensors : Yields(q)' => Yields(q)
    BY <2>1
  <2> QED
    BY <2>1, <2>2
<1>10. CASE CloseAdapters
  <2>1. /\ run = "shutdown" /\ run' = "close" /\ UNCHANGED <<raisedAt, code, task, loose, backend>>
        /\ \A q \in Sensors : (stream'[q] => stream[q]) /\ (flight'[q] => flight[q])
        /\ backend = "gateway" /\ ~abandoned' => \A q \in Sensors : ~stream'[q] /\ ~flight'[q]
    BY <1>10 DEF CloseAdapters, ClosePool, TypeOK
  <2>2. \A q \in Sensors : Yields(q)' => Yields(q)
    BY <2>1
  <2> QED
    BY <2>1, <2>2
<1>11. CASE EndDisconnect \/ CloseCapture
  <2>1. /\ run \in {"disconnect", "close"} /\ run' \in {"shutdown", "ended"}
        /\ UNCHANGED <<raisedAt, stream, flight, task, loose, backend, adapter, abandoned>>
        /\ code' = "failed" => code = "failed"
    BY <1>11 DEF EndDisconnect, CloseCapture
  <2> QED
    BY <2>1
<1>12. ASSUME NEW s \in Sensors, PollReturns(s) \/ PollWakes(s) \/ PollFails(s)
       PROVE  StreamsAreStopped'
  <2>1. /\ UNCHANGED <<progress, stream, flight, loose, backend, adapter, abandoned>>
        /\ \A q \in Sensors : task'[q] # "none" => task[q] # "none"
    BY <1>12 DEF PollReturns, PollWakes, PollFails, Record, TypeOK
  <2>2. \A q \in Sensors : Yields(q)' => Yields(q)
    BY <2>1
  <2> QED
    BY <2>1, <2>2
<1>13. ASSUME NEW s \in Sensors, SendSample(s) \/ Arrive(s)
       PROVE  StreamsAreStopped'
  <2>1. /\ UNCHANGED <<progress, stream, task, loose, backend, adapter, abandoned>>
        /\ stream[s] \/ flight[s]
        /\ \A q \in Sensors : q # s => flight'[q] = flight[q]
    BY <1>13 DEF SendSample, Arrive, Record, TypeOK
  <2>2. \A q \in Sensors : Yields(q)' => Yields(q)
    BY <2>1
  <2> QED
    BY <2>1, <2>2
<1>14. CASE UNCHANGED vars
  BY <1>14 DEF vars
<1> QED
  BY <1>1, <1>2, <1>3, <1>4, <1>5, <1>6, <1>7, <1>8, <1>9, <1>10, <1>11, <1>12, <1>13, <1>14
  DEF Next, Run

\* After the summary only loose sensors are recorded, unless an exception is on its
\* way out.
LEMMA SummaryIsFinalStep ==
    ASSUME TypeOK, RaisedLeaves, CodeOfRun, AdapterInUse, TasksOfRun, StreamsAreStopped,
           SummaryIsFinal, [Next]_vars
    PROVE  SummaryIsFinal'
<1> USE DEF SummaryIsFinal, Leaving, GoTo, progress, external, records, answers, seen, pool
<1>1. CASE SetUpRaises \/ Discover \/ EndConnect
  <2>1. /\ run \in {"discover", "connect"} /\ after' = {} /\ ~late' /\ code' # "no_data"
        /\ Leaving' => code' = "failed" \/ raisedAt' # {}
    BY <1>1 DEF SetUpRaises, Discover, EndConnect, CodeOfRun
  <2> QED
    BY <2>1
<1>2. ASSUME NEW s \in Sensors, ConnectSensor(s) \/ PassOver(s) \/ ConnectRaises(s)
      PROVE  SummaryIsFinal'
  BY <1>2 DEF ConnectSensor, PassOver, ConnectRaises, CodeOfRun
<1>3. CASE StartAll \/ EndStart \/ EndSleep
  BY <1>3 DEF StartAll, EndStart, EndSleep, CodeOfRun
<1>4. CASE EndStop \/ StreamRaises
  BY <1>4 DEF EndStop, StreamRaises, CodeOfRun
<1>5. ASSUME NEW s \in Sensors, StartSensor(s) \/ StopSensor(s) \/ StopRaises(s)
      PROVE  SummaryIsFinal'
  BY <1>5 DEF StartSensor, StopSensor, StopRaises, CodeOfRun
<1>6. ASSUME NEW s \in Sensors, DisconnectSensor(s) \/ DisconnectRaises(s) \/ ShutdownTask(s)
      PROVE  SummaryIsFinal'
  BY <1>6 DEF DisconnectSensor, DisconnectRaises, ShutdownTask
<1>7. CASE EndDisconnect \/ CloseAdapters
  BY <1>7 DEF EndDisconnect, CloseAdapters, ClosePool, CodeOfRun
<1>8. CASE CloseCapture
  <2>1. /\ run = "close" /\ run' = "ended" /\ ~late /\ Leaving
        /\ UNCHANGED <<raisedAt, seen, counted, loose>>
    BY <1>8 DEF CloseCapture
  <2>2. code \in {"none", "failed"}
    BY <2>1 DEF CodeOfRun
  <2>3. code' = "no_data" => raisedAt = {} /\ code = "none" /\ ~counted
    BY <1>8, <2>2 DEF CloseCapture
  <2>4. code' = "failed" => code = "failed"
    BY <1>8, <2>2 DEF CloseCapture
  <2>5. code' # "none"
    BY <1>8, <2>2 DEF CloseCapture
  <2> QED
    BY <2>1, <2>3, <2>4, <2>5
<1>9. ASSUME NEW s \in Sensors, PollReturns(s) \/ Arrive(s)
      PROVE  SummaryIsFinal'
  <2>1. UNCHANGED <<run, raisedAt, code, counted, loose, backend, abandoned, capture>>
    BY <1>9 DEF PollReturns, Arrive, Record
  <2>2. /\ after' = IF Leaving THEN after \cup {s} ELSE after
        /\ late' = (late \/ capture = "closed")
    BY <1>9 DEF PollReturns, Arrive, Record
  <2>3. Yields(s)
    BY <1>9 DEF PollReturns, Arrive, Yields
  <2>4. code # "failed"
    BY <2>3 DEF StreamsAreStopped
  <2>5. Leaving /\ raisedAt = {} => s \in loose
    BY <2>3 DEF StreamsAreStopped
  <2>6. capture = "closed" => run = "ended"
    BY DEF CodeOfRun
  <2>7. run = "ended" /\ raisedAt = {} => backend = "bleak" \/ abandoned
    <3>1. SUFFICES ASSUME run = "ended", raisedAt = {}, backend = "gateway", ~abandoned
                   PROVE  FALSE
      BY DEF TypeOK
    <3>2. adapter = "closed"
      BY <2>4, <3>1 DEF AdapterInUse
    <3>3. ~stream[s] /\ ~flight[s] /\ task[s] = "none"
      BY <3>1, <3>2 DEF StreamsAreStopped, TasksOfRun, Tasks
    <3> QED
      BY <2>3, <3>3 DEF Yields
  <2>8. code = "no_data" => Leaving
    BY DEF CodeOfRun
  <2> QED
    BY <2>1, <2>2, <2>4, <2>5, <2>6, <2>7, <2>8
<1>10. ASSUME NEW s \in Sensors,
              PollWakes(s) \/ PollFails(s) \/ SendSample(s) \/ LinkDown(s)
       PROVE  SummaryIsFinal'
  BY <1>10 DEF PollWakes, PollFails, SendSample, LinkDown
<1>11. CASE UNCHANGED vars
  BY <1>11 DEF vars
<1> QED
  BY <1>1, <1>2, <1>3, <1>4, <1>5, <1>6, <1>7, <1>8, <1>9, <1>10, <1>11 DEF Next, Run

-----------------------------------------------------------------------------
(* The theorems.                                                            *)

\* The inductive invariant holds throughout every run.
LEMMA IInvInvariant == Spec => []IInv
<1>1. IInv /\ [Next]_vars => IInv'
  BY TypeOKStep, RaisedLeavesStep, CodeOfRunStep, AdapterInUseStep, TasksOfRunStep,
     LinksAreMarkedStep, LinksAreReleasedStep, StreamsAreStoppedStep, SummaryIsFinalStep
  DEF IInv
<1> QED
  BY <1>1, IInvInit, PTL DEF Spec

\* The type invariant of run_sensor_test.
THEOREM TypeCorrect == Spec => []TypeOK
<1>1. IInv => TypeOK
  BY DEF IInv
<1> QED
  BY <1>1, IInvInvariant, PTL

\* A run of run_sensor_test that returned has stopped every polling task, has
\* asked for every sensor it still marks as connected, and left no link up
\* except one that the adapter refused to disconnect: for any sensors, and
\* whatever links went down and polls failed meanwhile.
THEOREM ReturnReleases == Spec => []ReturnMeansReleased
<1>1. IInv => ReturnMeansReleased
  BY DEF IInv, TasksOfRun, LinksAreReleased, ReturnMeansReleased
<1> QED
  BY <1>1, IInvInvariant, PTL

\* The adapters stay open behind a run only if discovery found too few sensors,
\* or if discovery, connecting, disconnecting or the shutdown raised.
THEOREM AdaptersAreClosed == Spec => []AdaptersLeftOpenOnlyThere
<1>1. IInv => AdaptersLeftOpenOnlyThere
  BY DEF IInv, AdapterInUse, AdaptersLeftOpenOnlyThere
<1> QED
  BY <1>1, IInvInvariant, PTL

\* No polling task is left once the adapters are closed.
THEOREM TasksEndFirst == Spec => []NoTaskOutlivesAdapters
<1>1. IInv => NoTaskOutlivesAdapters
  BY DEF IInv, TasksOfRun, NoTaskOutlivesAdapters
<1> QED
  BY <1>1, IInvInvariant, PTL

\* What a run returns agrees with what was recorded, for any sensors: behind the
\* summary only those are recorded that stop_all passed over because their link had
\* gone down, that have no stop_stream, or that had samples under way; only they
\* make a run return 2 though data came; and their samples meet the closed capture
\* only behind bleak or a reader thread that was not waited for.
THEOREM CodeMatchesCapture == Spec => []CaptureMatchesCode
<1>1. IInv => CaptureMatchesCode
  <2> SUFFICES ASSUME IInv, code \in {"ok", "failed", "no_data"}
               PROVE  /\ after \subseteq loose
                      /\ code = "no_data" /\ data => after # {}
                      /\ late => backend = "bleak" \/ abandoned
    BY DEF CaptureMatchesCode
  <2> USE DEF IInv, CodeOfRun, SummaryIsFinal
  <2>1. CASE run = "ended"
    <3>1. raisedAt = {}
      BY <2>1
    <3> QED
      BY <3>1
  <2>2. CASE run # "ended"
    BY <2>2
  <2> QED
    BY <2>1, <2>2
<1> QED
  BY <1>1, IInvInvariant, PTL
=============================================================================
