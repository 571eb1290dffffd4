---------------------------- MODULE SystemTestProofs ----------------------------
(***************************************************************************)
(* What holds of run_system_test for any number of locations to identify,  *)
(* of readiness checks and of events that nobody asked for.                *)
(***************************************************************************)
EXTENDS SystemTest, Integers, FiniteSetTheorems, TLAPS

-----------------------------------------------------------------------------
(* The inductive invariant.                                                 *)

\* Where the run stands, or stood when it ended.
At == IF step = "ended" THEN last ELSE step

\* The core streams once.  Until the command it is idle, and nothing drained; while the
\* stream lasts no other start is on its way, and nothing has drained either.
BeforeStart == {"ready", "readying", "planning", "initializing", "discovering", "connecting",
                "identify", "identifying", "start"}
InStream == {"starting", "stop", "stopping"}
StartsOnLine == {i \in DOMAIN commands : commands[i].type = "start_stream"}
Drained == \E i \in DOMAIN queue : queue[i].type = "stream_drained"
NotYet == At \in BeforeStart => ~Drained
OneStart == /\ StartsOnLine # {} => core = "idle"
            /\ \A i, j \in StartsOnLine : i = j
DrainIsLast == Drained => ~Streams
StreamsOnlyThere == Streams => At \in InStream

\* From the moment the core was ready, the errors counted are those in the queue, for a
\* run that does not end in failure.
AlarmsAreQueued ==
    step \notin {"ready", "readying"} /\ code \in {"none", "ok"} =>
        alarms = Cardinality(Errors(queue))

\* Each location is asked to identify at most once: its command, or then its event, is
\* on its way once, and outlives its wait only if some wait before it had timed out.
Asked(i) == commands[i].type = "identify_sensor"
Shown(i) == queue[i].type = "sensor_identified"
Explained(l) == /\ l <= location
                /\ l = location => step \in {"identifying", "ended"}
                /\ l < location => \E t \in timedout : t <= l
AskedOnce ==
    /\ \A i, j \in DOMAIN commands :
          Asked(i) /\ Asked(j) /\ commands[i].of = commands[j].of => i = j
    /\ \A i, j \in DOMAIN queue :
          Shown(i) /\ Shown(j) /\ queue[i].of = queue[j].of => i = j
    /\ \A i \in DOMAIN commands, j \in DOMAIN queue :
          Asked(i) /\ Shown(j) => commands[i].of # queue[j].of
EventsExplained ==
    /\ \A i \in DOMAIN commands : Asked(i) => Explained(commands[i].of)
    /\ \A i \in DOMAIN queue : Shown(i) => Explained(queue[i].of)

\* A location is identified while there is one.
WithinLocations == step \in {"identifying"} => location <= NumIdentify

IInv == /\ TypeOK
        /\ NotYet /\ OneStart /\ DrainIsLast /\ StreamsOnlyThere
        /\ AlarmsAreQueued
        /\ AskedOnce /\ EventsExplained /\ WithinLocations /\ IdentifyIsOwn

-----------------------------------------------------------------------------
(* Queues.                                                                  *)

\* What leaves a queue was first, and the rest moves up by one.
LEMMA TailMovesUp ==
    ASSUME NEW S, NEW q \in Seq(S), q # << >>
    PROVE  /\ Tail(q) \in Seq(S) /\ Head(q) = q[1] /\ q[1] \in S
           /\ 1 \in DOMAIN q
           /\ \A i \in DOMAIN Tail(q) : /\ i \in Nat /\ i + 1 \in DOMAIN q /\ i + 1 # 1
                                        /\ Tail(q)[i] = q[i + 1]
           /\ \A i \in DOMAIN q : i \in Nat \ {0} /\ (i # 1 => /\ i - 1 \in DOMAIN Tail(q)
                                                               /\ Tail(q)[i - 1] = q[i])
<1>1. /\ Len(q) \in Nat /\ Len(q) > 0 /\ DOMAIN q = 1..Len(q)
      /\ Len(Tail(q)) = Len(q) - 1 /\ DOMAIN Tail(q) = 1..(Len(q) - 1)
      /\ \A i \in 1..(Len(q) - 1) : Tail(q)[i] = q[i + 1]
      /\ Head(q) = q[1] /\ Tail(q) \in Seq(S)
      /\ \A i \in 1..Len(q) : q[i] \in S
  OBVIOUS
<1>2. \A i \in 1..Len(q) : i # 1 => /\ i - 1 \in 1..(Len(q) - 1)
                                    /\ Tail(q)[i - 1] = q[(i - 1) + 1]
                                    /\ (i - 1) + 1 = i
  BY <1>1
<1> QED
  BY <1>1, <1>2

\* What is put in a queue is the last.
LEMMA AppendAddsLast ==
    ASSUME NEW S, NEW q \in Seq(S), NEW e \in S
    PROVE  /\ Append(q, e) \in Seq(S) /\ Len(q) + 1 \in Nat
           /\ DOMAIN Append(q, e) = DOMAIN q \cup {Len(q) + 1}
           /\ Append(q, e)[Len(q) + 1] = e
           /\ \A i \in DOMAIN q : Append(q, e)[i] = q[i] /\ i # Len(q) + 1
<1>1. /\ Len(q) \in Nat /\ DOMAIN q = 1..Len(q)
      /\ Append(q, e) \in Seq(S)
      /\ DOMAIN Append(q, e) = 1..(Len(q) + 1)
      /\ \A i \in 1..Len(q) : Append(q, e)[i] = q[i]
      /\ Append(q, e)[Len(q) + 1] = e
  OBVIOUS
<1> QED
  BY <1>1

\* The errors in a queue are finitely many.
LEMMA ErrorsFinite ==
    ASSUME NEW S, NEW q \in Seq(S)
    PROVE  IsFiniteSet(Errors(q)) /\ Cardinality(Errors(q)) \in Nat
<1>1. Len(q) \in Nat /\ Errors(q) \subseteq 1..Len(q)
  BY DEF Errors
<1>2. IsFiniteSet(1..Len(q))
  BY <1>1, FS_Interval
<1> QED
  BY <1>1, <1>2, FS_Subset, FS_CardinalityType

\* An event that is received counts if it is an error ...
LEMMA ErrorsAfterAppend ==
    ASSUME NEW S, NEW q \in Seq(S), NEW e \in S
    PROVE  Cardinality(Errors(Append(q, e))) =
               IF e.type = "error" THEN Cardinality(Errors(q)) + 1 ELSE Cardinality(Errors(q))
<1> DEFINE end == Len(q) + 1
<1>1. /\ DOMAIN Append(q, e) = DOMAIN q \cup {end} /\ Append(q, e)[end] = e
      /\ \A i \in DOMAIN q : Append(q, e)[i] = q[i] /\ i # end
  BY AppendAddsLast
<1>2. end \notin Errors(q)
  BY <1>1 DEF Errors
<1>3. CASE e.type = "error"
  <2>1. Errors(Append(q, e)) = Errors(q) \cup {end}
    BY <1>1, <1>3 DEF Errors
  <2> HIDE DEF end
  <2> QED
    BY <1>2, <1>3, <2>1, ErrorsFinite, FS_AddElement
<1>4. CASE e.type # "error"
  <2>1. Errors(Append(q, e)) = Errors(q)
    BY <1>1, <1>4 DEF Errors
  <2> QED
    BY <2>1, <1>4
<1> QED
  BY <1>3, <1>4

\* ... and none is lost with the first event if that is none.
LEMMA ErrorsAfterTail ==
    ASSUME NEW S, NEW q \in Seq(S), q # << >>, Head(q).type # "error"
    PROVE  Cardinality(Errors(Tail(q))) = Cardinality(Errors(q))
<1> DEFINE up == [i \in Errors(Tail(q)) |-> i + 1]
<1>1. /\ Head(q) = q[1]
      /\ \A i \in DOMAIN Tail(q) : /\ i \in Nat /\ i + 1 \in DOMAIN q
                                   /\ Tail(q)[i] = q[i + 1]
      /\ \A i \in DOMAIN q : i \in Nat \ {0} /\ (i # 1 => /\ i - 1 \in DOMAIN Tail(q)
                                                          /\ Tail(q)[i - 1] = q[i])
  BY TailMovesUp
<1>2. up \in [Errors(Tail(q)) -> Errors(q)]
  BY <1>1 DEF Errors
<1>3. \A i, j \in Errors(Tail(q)) : up[i] = up[j] => i = j
  BY <1>1 DEF Errors
<1>4. ASSUME NEW j \in Errors(q)
      PROVE  \E i \in Errors(Tail(q)) : up[i] = j
  <2>1. j \in Nat \ {0} /\ j # 1 /\ j \in DOMAIN q /\ q[j].type = "error"
    BY <1>1 DEF Errors
  <2>2. j - 1 \in Errors(Tail(q)) /\ (j - 1) + 1 = j
    BY <1>1, <2>1 DEF Errors
  <2> QED
    BY <2>2
<1>5. up \in Bijection(Errors(Tail(q)), Errors(q))
  <2> HIDE DEF up
  <2> QED
    BY <1>2, <1>3, <1>4 DEF Bijection, Injection, Surjection, IsInjective
<1>6. IsFiniteSet(Errors(q)) /\ IsFiniteSet(Errors(Tail(q)))
  BY ErrorsFinite, TailMovesUp
<1> QED
  BY <1>5, <1>6, FS_Bijection DEF ExistsBijection

-----------------------------------------------------------------------------
(* What the steps do to the queues.                                         *)

\* A step of the run takes at most one event, and sends at most one command: the start
\* at its prompt only, and an identify to the location at hand.
Takes == \/ queue' = queue
         \/ queue # << >> /\ queue' = Tail(queue)
Sends == \/ commands' = commands
         \/ \E c \in Commands :
               /\ commands' = Append(commands, c) /\ c.of = location
               /\ c.type = "start_stream" => step = "start" /\ step' = "starting"
               /\ c.type = "identify_sensor" =>
                     /\ step = "identify" /\ step' = "identifying"
                     /\ location' = location /\ location <= NumIdentify
Moves == \/ step' = "ended" /\ last' = step /\ step # "ended"
         \/ /\ step \in BeforeStart /\ step' \in BeforeStart
            /\ step' \in {"ready", "readying"} => step \in {"ready", "readying"}
         \/ step = "start" /\ step' = "starting" /\ commands' # commands
         \/ step \in InStream /\ step' \in InStream
         \/ /\ step = "stopping" /\ step' = "disconnect"
            /\ queue # << >> /\ Head(queue).type = "stream_drained"
         \/ step \in {"disconnect", "disconnecting"} /\ step' \in {"disconnect", "disconnecting"}

\* Every step of the run is of this kind.
LEMMA RunMoves ==
    ASSUME TypeOK, Run
    PROVE  Takes /\ Sends /\ Moves /\ core' = core
<1>0. \A t \in {"is_server_ready", "init_system", "discover", "connect",
                "identify_sensor", "start_stream", "stop_stream", "disconnect"} :
         Send(t) => \E c \in Commands : /\ commands' = Append(commands, c)
                                        /\ c.of = location /\ c.type = t
  <2> TAKE t \in {"is_server_ready", "init_system", "discover", "connect",
                  "identify_sensor", "start_stream", "stop_stream", "disconnect"}
  <2> HAVE Send(t)
  <2>1. location \in 1..(NumIdentify + 1)
    BY DEF TypeOK
  <2>2. [type |-> t, of |-> location] \in Commands
    BY <2>1 DEF Commands
  <2> WITNESS [type |-> t, of |-> location] \in Commands
  <2> QED
    BY DEF Send
<1>1. CASE SendReady
  BY <1>0, <1>1 DEF SendReady, End, Takes, Sends, Moves, BeforeStart, InStream, Prompts,
              coreVars
<1>2. CASE NeverReady
  BY <1>0, <1>2 DEF NeverReady, End, Takes, Sends, Moves, BeforeStart, InStream, Prompts,
              coreVars
<1>3. CASE Plan
  BY <1>0, <1>3 DEF Plan, End, Takes, Sends, Moves, BeforeStart, InStream, Prompts,
              coreVars
<1>4. CASE PlanFails
  BY <1>0, <1>4 DEF PlanFails, End, Takes, Sends, Moves, BeforeStart, InStream, Prompts,
              coreVars
<1>5. CASE Identify
  BY <1>0, <1>5 DEF Identify, End, Takes, Sends, Moves, BeforeStart, InStream, Prompts,
              coreVars
<1>6. CASE SkipIdentify
  BY <1>0, <1>6 DEF SkipIdentify, End, Takes, Sends, Moves, BeforeStart, InStream, Prompts,
              coreVars
<1>7. CASE EndIdentify
  BY <1>0, <1>7 DEF EndIdentify, End, Takes, Sends, Moves, BeforeStart, InStream, Prompts,
              coreVars
<1>8. CASE Command
  BY <1>0, <1>8 DEF Command, Takes, Sends, Moves, BeforeStart, InStream, Prompts,
              coreVars
<1>9. CASE Cancel
  BY <1>0, <1>9 DEF Cancel, End, Takes, Sends, Moves, BeforeStart, InStream, Prompts,
              coreVars
<1>10. CASE TakeFatal
  BY <1>0, <1>10 DEF TakeFatal, End, Waits, Expected, Takes, Sends, Moves, BeforeStart,
     InStream, Prompts,
              coreVars
<1>11. CASE TakeOther
  BY <1>0, <1>11 DEF TakeOther, Waits, Expected, Takes, Sends, Moves, BeforeStart, InStream,
     Prompts,
              coreVars
<1>12. CASE TakeExpected
  <2>1. Takes /\ core' = core /\ Proceed
    BY <1>12 DEF TakeExpected, Takes
  <2>2. /\ step \in {"initializing", "discovering", "connecting", "identifying", "starting",
                     "stopping"}
        /\ step = "stopping" => queue # << >> /\ Head(queue).type = "stream_drained"
    BY <1>12 DEF TakeExpected, Waits, Expected
  <2>3. CASE step = "initializing"
    BY <1>0, <2>1, <2>3 DEF Proceed, Sends, Moves, BeforeStart
  <2>4. CASE step = "discovering"
    BY <1>0, <2>1, <2>4 DEF Proceed, Sends, Moves, BeforeStart
  <2>5. CASE step \in {"connecting", "identifying", "starting", "stopping"}
    BY <2>1, <2>2, <2>5 DEF Proceed, Sends, Moves, BeforeStart, InStream
  <2> QED
    BY <2>1, <2>2, <2>3, <2>4, <2>5
<1>13. CASE TakeReady
  BY <1>0, <1>13 DEF TakeReady, End, Takes, Sends, Moves, BeforeStart, InStream, Prompts,
              coreVars
<1>14. CASE Finish
  BY <1>0, <1>14 DEF Finish, End, Takes, Sends, Moves, BeforeStart, InStream, Prompts,
              coreVars
<1>15. CASE TimeOut
  BY <1>0, <1>15 DEF TimeOut, End, Waits, Expected, Takes, Sends, Moves, BeforeStart, InStream,
     Prompts,
              coreVars
<1> QED
  BY <1>1, <1>2, <1>3, <1>4, <1>5, <1>6, <1>7, <1>8, <1>9, <1>10, <1>11, <1>12, <1>13, <1>14,
     <1>15 DEF Run

\* A step of the core emits one event: for a command that it takes, which may start or
\* end the stream; from the stream, which it may end; or unasked.
Stands == /\ step' = step /\ code' = code /\ last' = last /\ attempts' = attempts
          /\ location' = location /\ timedout' = timedout /\ identified' = identified
Acts(e) == /\ commands # << >> /\ commands' = Tail(commands)
           /\ e.type # "stream_drained"
           /\ e.type = "sensor_identified" => /\ Head(commands).type = "identify_sensor"
                                              /\ e.of = Head(commands).of
           /\ \/ core' = core
              \/ Head(commands).type = "start_stream" /\ core' = "starting"
              \/ core # "idle" /\ core' = "draining"
Streamed(e) == /\ commands' = commands /\ e.type # "sensor_identified"
               /\ core # "idle" /\ core' \in {"streaming", "idle"}
               /\ e.type = "stream_drained" => core' = "idle"
Surprised(e) == /\ commands' = commands /\ core' = core
                /\ e.type \in {"error", "sensor_disconnected"}

\* Every step of the core, the stream and the surroundings is of this kind.
LEMMA CoreMoves ==
    ASSUME TypeOK, CoreActs \/ CoreStreams \/ CoreSurprises
    PROVE  /\ Stands /\ surprises' \in 0..MaxSurprises
           /\ \E e \in Events : Emit(e) /\ (Acts(e) \/ Streamed(e) \/ Surprised(e))
<1>0. \A t \in {"server_ready", "system_initialized", "sensors_discovered",
                "sensor_connected", "sensor_identified", "sensor_disconnected",
                "stream_started", "stream_official_started", "stream_startup_failed",
                "stream_stopped", "stream_drained", "error"} :
         Event(t) \in Events /\ Event(t).type = t
  BY SystemTestBounds DEF Event, Events
<1>1. CASE CoreActs
  <2> DEFINE c == Head(commands)
  <2>1. /\ Stands /\ surprises' = surprises /\ commands # << >> /\ commands' = Tail(commands)
    BY <1>1 DEF CoreActs, Stands
  <2>2. c \in Commands
    BY <2>1, TailMovesUp DEF TypeOK
  <2>3. CASE Emit(Event("error")) /\ UNCHANGED core
    BY <1>0, <2>1, <2>3 DEF Acts, TypeOK
  <2>4. CASE c.type \in DOMAIN Answers /\ Emit([type |-> Answers[c.type], of |-> c.of])
             /\ UNCHANGED core
    <3> DEFINE e == [type |-> Answers[c.type], of |-> c.of]
    <3>1. c.of \in 1..(NumIdentify + 1)
      BY <2>2 DEF Commands
    <3>2. /\ Answers[c.type] \in {"server_ready", "system_initialized", "sensors_discovered",
                                  "sensor_connected", "sensor_identified",
                                  "sensor_disconnected"}
          /\ Answers[c.type] = "sensor_identified" => c.type = "identify_sensor"
      BY <2>4 DEF Answers
    <3>3. e \in Events
      BY <3>1, <3>2, SystemTestBounds DEF Events
    <3>4. Acts(e)
      BY <2>1, <2>4, <3>2 DEF Acts
    <3> QED
      BY <2>1, <2>4, <3>3, <3>4 DEF TypeOK
  <2>5. CASE c.type = "start_stream" /\ core' = "starting" /\ Emit(Event("stream_started"))
    BY <1>0, <2>1, <2>5 DEF Acts, TypeOK
  <2>6. CASE core # "idle" /\ core' = "draining" /\ Emit(Event("stream_stopped"))
    BY <1>0, <2>1, <2>6 DEF Acts, TypeOK
  <2> QED
    BY <1>1, <2>3, <2>4, <2>5, <2>6 DEF CoreActs
<1>2. CASE CoreStreams
  <2>1. Stands /\ surprises' = surprises /\ commands' = commands
    BY <1>2 DEF CoreStreams, Stands
  <2>2. \E t \in {"stream_official_started", "stream_startup_failed", "stream_drained"} :
           /\ Emit(Event(t)) /\ core # "idle" /\ core' \in {"streaming", "idle"}
           /\ t = "stream_drained" => core' = "idle"
    BY <1>2 DEF CoreStreams
  <2> QED
    BY <1>0, <2>1, <2>2 DEF Streamed, TypeOK
<1>3. CASE CoreSurprises
  <2>1. Stands /\ commands' = commands /\ core' = core /\ surprises' \in 0..MaxSurprises
    BY <1>3, SystemTestBounds DEF CoreSurprises, Stands, TypeOK
  <2>2. \E t \in {"error", "sensor_disconnected"} : Emit(Event(t))
    BY <1>3 DEF CoreSurprises
  <2> QED
    BY <1>0, <2>1, <2>2 DEF Surprised
<1> QED
  BY <1>1, <1>2, <1>3

\* The queues after a step.
LEMMA QueueAfter ==
    ASSUME TypeOK, Takes \/ \E e \in Events : Emit(e)
    PROVE  queue' \in Seq(Events)
<1>1. queue \in Seq(Events)
  BY DEF TypeOK
<1> QED
  <2>1. CASE queue' = queue
    BY <1>1, <2>1
  <2>2. CASE queue # << >> /\ queue' = Tail(queue)
    BY <1>1, <2>2, TailMovesUp
  <2>3. ASSUME NEW e \in Events, queue' = Append(queue, e)
        PROVE  queue' \in Seq(Events)
    BY <1>1, <2>3, AppendAddsLast
  <2> QED
    BY <2>1, <2>2, <2>3 DEF Takes, Emit

\* So with the commands.
LEMMA CommandsAfter ==
    ASSUME TypeOK, Sends \/ commands' = commands
                     \/ (commands # << >> /\ commands' = Tail(commands))
    PROVE  commands' \in Seq(Commands)
<1>1. commands \in Seq(Commands)
  BY DEF TypeOK
<1> QED
  <2>1. CASE commands' = commands
    BY <1>1, <2>1
  <2>2. CASE commands # << >> /\ commands' = Tail(commands)
    BY <1>1, <2>2, TailMovesUp
  <2>3. ASSUME NEW c \in Commands, commands' = Append(commands, c)
        PROVE  commands' \in Seq(Commands)
    BY <1>1, <2>3, AppendAddsLast
  <2> QED
    BY <2>1, <2>2, <2>3 DEF Sends

-----------------------------------------------------------------------------
(* The type invariant.                                                      *)

Steps == {"ready", "ended", "planning", "identify", "start", "stop", "disconnect", "readying",
          "initializing", "discovering", "connecting", "identifying", "starting", "stopping",
          "disconnecting"}

\* How far a step of the run takes the step, the result and the counters.
Control == /\ step' \in Steps /\ step # "ended"
           /\ \/ step' # "ended" /\ code' = code /\ last' = last
              \/ step' = "ended" /\ code' \in {"ok", "failed", "raised"} /\ last' = step
           /\ step' = "identifying" => location' = location /\ location <= NumIdentify
Counters == /\ \/ location' = location
               \/ location' = location + 1 /\ location <= NumIdentify
            /\ attempts' = attempts \/ (attempts' = attempts + 1 /\ attempts < MaxAttempts)
            /\ alarms' = alarms \/ alarms' = Cardinality(Errors(queue'))
            /\ surprises' = surprises
            /\ timedout' = timedout
               \/ (timedout' = timedout \cup {location} /\ location <= NumIdentify)
            /\ identified' = identified
               \/ /\ location <= NumIdentify /\ queue # << >>
                  /\ identified' = identified \cup {<<location, Head(queue).of>>}

\* Every step of the run goes that far.
LEMMA RunCounts ==
    ASSUME WithinLocations, Run
    PROVE  Control /\ Counters
<1>1. CASE SendReady
  <2>1. Control
    BY <1>1 DEF SendReady, End, Control, Steps, WithinLocations
  <2>2. Counters
    BY <1>1 DEF SendReady, End, Counters, WithinLocations, coreVars, history
  <2> QED
    BY <2>1, <2>2
<1>2. CASE NeverReady
  <2>1. Control
    BY <1>2 DEF NeverReady, End, Control, Steps, WithinLocations
  <2>2. Counters
    BY <1>2 DEF NeverReady, End, Counters, WithinLocations, coreVars, history
  <2> QED
    BY <2>1, <2>2
<1>3. CASE Plan
  <2>1. Control
    BY <1>3 DEF Plan, End, Control, Steps, WithinLocations
  <2>2. Counters
    BY <1>3 DEF Plan, End, Counters, WithinLocations, coreVars, history
  <2> QED
    BY <2>1, <2>2
<1>4. CASE PlanFails
  <2>1. Control
    BY <1>4 DEF PlanFails, End, Control, Steps, WithinLocations
  <2>2. Counters
    BY <1>4 DEF PlanFails, End, Counters, WithinLocations, coreVars, history
  <2> QED
    BY <2>1, <2>2
<1>5. CASE Identify
  <2>1. Control
    BY <1>5 DEF Identify, End, Control, Steps, WithinLocations
  <2>2. Counters
    BY <1>5 DEF Identify, End, Counters, WithinLocations, coreVars, history
  <2> QED
    BY <2>1, <2>2
<1>6. CASE SkipIdentify
  <2>1. Control
    BY <1>6 DEF SkipIdentify, End, Control, Steps, WithinLocations
  <2>2. Counters
    BY <1>6 DEF SkipIdentify, End, Counters, WithinLocations, coreVars, history
  <2> QED
    BY <2>1, <2>2
<1>7. CASE EndIdentify
  <2>1. Control
    BY <1>7 DEF EndIdentify, End, Control, Steps, WithinLocations
  <2>2. Counters
    BY <1>7 DEF EndIdentify, End, Counters, WithinLocations, coreVars, history
  <2> QED
    BY <2>1, <2>2
<1>8. CASE Command
  <2>1. Control
    BY <1>8 DEF Command, End, Control, Steps, WithinLocations
  <2>2. Counters
    BY <1>8 DEF Command, End, Counters, WithinLocations, coreVars, history
  <2> QED
    BY <2>1, <2>2
<1>9. CASE Cancel
  <2>1. Control
    BY <1>9 DEF Cancel, End, Prompts, Control, Steps, WithinLocations
  <2>2. Counters
    BY <1>9 DEF Cancel, End, Prompts, Counters, WithinLocations, coreVars, history
  <2> QED
    BY <2>1, <2>2
<1>10. CASE TakeFatal
  <2>1. Control
    BY <1>10 DEF TakeFatal, End, Waits, Expected, Control, Steps, WithinLocations
  <2>2. Counters
    BY <1>10 DEF TakeFatal, End, Waits, Expected, Counters, WithinLocations, coreVars, history
  <2> QED
    BY <2>1, <2>2
<1>11. CASE TakeOther
  <2>1. Control
    BY <1>11 DEF TakeOther, End, Waits, Expected, Control, Steps, WithinLocations
  <2>2. Counters
    BY <1>11 DEF TakeOther, End, Waits, Expected, Counters, WithinLocations, coreVars, history
  <2> QED
    BY <2>1, <2>2
<1>12. CASE TakeExpected
  <2>1. Control
    BY <1>12 DEF TakeExpected, End, Waits, Expected, Proceed, Control, Steps, WithinLocations
  <2>2. Counters
    BY <1>12 DEF TakeExpected, End, Waits, Expected, Proceed, Counters, WithinLocations,
       coreVars, history
  <2> QED
    BY <2>1, <2>2
<1>13. CASE TakeReady
  <2>1. Control
    BY <1>13 DEF TakeReady, End, Control, Steps, WithinLocations
  <2>2. Counters
    BY <1>13 DEF TakeReady, End, Counters, WithinLocations, coreVars, history
  <2> QED
    BY <2>1, <2>2
<1>14. CASE Finish
  <2>1. Control
    BY <1>14 DEF Finish, End, Control, Steps, WithinLocations
  <2>2. Counters
    BY <1>14 DEF Finish, End, Counters, WithinLocations, coreVars, history
  <2> QED
    BY <2>1, <2>2
<1>15. CASE TimeOut
  <2>1. Control
    BY <1>15 DEF TimeOut, End, Waits, Expected, Control, Steps, WithinLocations
  <2>2. Counters
    BY <1>15 DEF TimeOut, End, Waits, Expected, Counters, WithinLocations, coreVars, history
  <2> QED
    BY <2>1, <2>2
<1> QED
  BY <1>1, <1>2, <1>3, <1>4, <1>5, <1>6, <1>7, <1>8, <1>9, <1>10, <1>11, <1>12, <1>13, <1>14,
     <1>15 DEF Run

\* Every step keeps the types.
LEMMA TypeStep ==
    ASSUME TypeOK, WithinLocations, [Next]_vars
    PROVE  TypeOK' /\ WithinLocations'
<1>1. CASE Run
  <2>1. queue' \in Seq(Events) /\ commands' \in Seq(Commands) /\ core' = core
    BY <1>1, RunMoves, QueueAfter, CommandsAfter
  <2>2. Control /\ Counters
    BY <1>1, RunCounts
  <2>3. /\ step' \in {"ready", "ended"} \cup Prompts \cup Waits
        /\ code' \in {"none", "ok", "failed", "raised"}
        /\ step' = "ended" <=> code' # "none"
        /\ last' \in {"none", "ready"} \cup Prompts \cup Waits
        /\ WithinLocations'
    <3>1. step \in Steps /\ last \in (Steps \cup {"none"}) \ {"ended"}
      BY DEF TypeOK, Steps, Prompts, Waits, Expected
    <3>2. step' \in Steps /\ last' \in (Steps \cup {"none"}) \ {"ended"}
      BY <2>2, <3>1 DEF Control
    <3>3. /\ step' \in {"ready", "ended"} \cup Prompts \cup Waits
          /\ last' \in {"none", "ready"} \cup Prompts \cup Waits
      BY <3>2 DEF Steps, Prompts, Waits, Expected
    <3>4. /\ code' \in {"none", "ok", "failed", "raised"}
          /\ step' = "ended" <=> code' # "none"
      BY <2>2 DEF Control, TypeOK
    <3> QED
      BY <2>2, <3>3, <3>4 DEF Control, WithinLocations
  <2>4. /\ location' \in 1..(NumIdentify + 1) /\ attempts' \in 0..MaxAttempts
        /\ surprises' \in 0..MaxSurprises /\ timedout' \subseteq 1..NumIdentify
    <3>1. /\ NumIdentify \in Nat /\ location \in 1..(NumIdentify + 1)
          /\ timedout \subseteq 1..NumIdentify
          /\ \/ location' = location
             \/ location' = location + 1 /\ location <= NumIdentify
          /\ timedout' = timedout
             \/ (timedout' = timedout \cup {location} /\ location <= NumIdentify)
      BY <2>2, SystemTestBounds DEF Counters, TypeOK
    <3>2. location' \in 1..(NumIdentify + 1) /\ timedout' \subseteq 1..NumIdentify
      <4>1. location' \in 1..(NumIdentify + 1)
        BY <3>1
      <4>2. location <= NumIdentify => location \in 1..NumIdentify
        BY <3>1
      <4>3. timedout' \subseteq 1..NumIdentify
        BY <3>1, <4>2
      <4> QED
        BY <4>1, <4>3
    <3>3. /\ MaxAttempts \in Nat /\ attempts \in 0..MaxAttempts
          /\ attempts' = attempts \/ (attempts' = attempts + 1 /\ attempts < MaxAttempts)
          /\ surprises' \in 0..MaxSurprises
      BY <2>2, SystemTestBounds DEF Counters, TypeOK
    <3> QED
      BY <3>2, <3>3
  <2>5. alarms' \in Nat
    BY <2>1, <2>2, ErrorsFinite DEF Counters, TypeOK
  <2>6. identified' \subseteq (1..NumIdentify) \X (0..(NumIdentify + 1))
    <3>1. queue # << >> => Head(queue).of \in 0..(NumIdentify + 1)
      <4>1. queue # << >> => Head(queue) \in Events
        BY TailMovesUp DEF TypeOK
      <4> QED
        BY <4>1 DEF Events
    <3> QED
      BY <2>2, <3>1, SystemTestBounds DEF Counters, TypeOK
  <2> QED
    BY <2>1, <2>3, <2>4, <2>5, <2>6 DEF TypeOK
<1>2. CASE CoreActs \/ CoreStreams \/ CoreSurprises
  <2>1. PICK e \in Events : Emit(e) /\ (Acts(e) \/ Streamed(e) \/ Surprised(e))
    BY <1>2, CoreMoves
  <2>2. queue' \in Seq(Events) /\ commands' \in Seq(Commands)
    BY <2>1, QueueAfter, CommandsAfter DEF Acts, Streamed, Surprised
  <2>3. alarms' \in Nat
    BY <2>1 DEF Emit, TypeOK
  <2>4. core' \in {"idle", "starting", "streaming", "draining"}
    BY <2>1 DEF TypeOK, Acts, Streamed, Surprised
  <2>5. Stands /\ surprises' \in 0..MaxSurprises
    BY <1>2, CoreMoves
  <2> QED
    BY <2>2, <2>3, <2>4, <2>5 DEF Stands, TypeOK, WithinLocations
<1>3. CASE UNCHANGED vars
  BY <1>3 DEF vars, coreVars, history, TypeOK, WithinLocations
<1> QED
  BY <1>1, <1>2, <1>3 DEF Next

-----------------------------------------------------------------------------
(* The stream.                                                              *)

\* What was drained is known by the events left.
LEMMA DrainedAfter ==
    ASSUME TypeOK
    PROVE  /\ Takes /\ Drained' => Drained
           /\ queue # << >> /\ Head(queue).type = "stream_drained" => Drained
           /\ \A e \in Events : Emit(e) /\ Drained' => Drained \/ e.type = "stream_drained"
<1>1. queue \in Seq(Events)
  BY DEF TypeOK
<1>2. ASSUME queue # << >>, queue' = Tail(queue), Drained'
      PROVE  Drained
  BY <1>1, <1>2, TailMovesUp DEF Drained
<1>3. ASSUME queue # << >>, Head(queue).type = "stream_drained"
      PROVE  Drained
  BY <1>1, <1>3, TailMovesUp DEF Drained
<1>4. ASSUME NEW e \in Events, queue' = Append(queue, e), Drained'
      PROVE  Drained \/ e.type = "stream_drained"
  BY <1>1, <1>4, AppendAddsLast DEF Drained
<1>5. queue' = queue => (Drained' <=> Drained)
  BY DEF Drained
<1> QED
  BY <1>2, <1>3, <1>4, <1>5 DEF Takes, Emit

\* The start is on its way after it was sent, until the core takes it.
LEMMA StartsAfter ==
    ASSUME TypeOK
    PROVE  /\ commands' = commands => StartsOnLine' = StartsOnLine
           /\ \A c \in Commands : commands' = Append(commands, c) =>
                 StartsOnLine' = IF c.type = "start_stream"
                                 THEN StartsOnLine \cup {Len(commands) + 1} ELSE StartsOnLine
           /\ commands # << >> /\ commands' = Tail(commands) =>
                 /\ \A i \in StartsOnLine' : i \in Nat /\ i + 1 # 1 /\ i + 1 \in StartsOnLine
                 /\ Head(commands).type = "start_stream" => 1 \in StartsOnLine
<1>1. commands \in Seq(Commands)
  BY DEF TypeOK
<1>2. ASSUME NEW c \in Commands, commands' = Append(commands, c)
      PROVE  StartsOnLine' = IF c.type = "start_stream"
                             THEN StartsOnLine \cup {Len(commands) + 1} ELSE StartsOnLine
  BY <1>1, <1>2, AppendAddsLast DEF StartsOnLine
<1>3. ASSUME commands # << >>, commands' = Tail(commands)
      PROVE  /\ \A i \in StartsOnLine' : i \in Nat /\ i + 1 # 1 /\ i + 1 \in StartsOnLine
             /\ Head(commands).type = "start_stream" => 1 \in StartsOnLine
  BY <1>1, <1>3, TailMovesUp DEF StartsOnLine
<1> QED
  BY <1>2, <1>3 DEF StartsOnLine

StreamInv == NotYet /\ OneStart /\ DrainIsLast /\ StreamsOnlyThere

\* Whether the core streams or will.
LEMMA StreamsIs == Streams <=> core # "idle" \/ StartsOnLine # {}
BY DEF Streams, StartsOnLine

\* A step of the run starts the stream at its prompt, and passes the prompt to stop
\* only with the event that says it has drained.
LEMMA StreamAfterRun ==
    ASSUME TypeOK, StreamInv, Run
    PROVE  StreamInv'
<1>1. Takes /\ Sends /\ Moves /\ core' = core
  BY RunMoves
<1>2. (Drained' => Drained)
      /\ (queue # << >> /\ Head(queue).type = "stream_drained" => Drained)
  BY <1>1, DrainedAfter
<1>3. At' \in InStream \/ At' = At \/ (At \in BeforeStart /\ At' \in BeforeStart)
      \/ (At \in {"disconnect", "disconnecting"} /\ At' \in {"disconnect", "disconnecting"})
      \/ (Drained /\ At \in InStream)
  BY <1>1, <1>2 DEF Moves, At, BeforeStart, InStream
<1>4. At' \in BeforeStart => At \in BeforeStart
  BY <1>1 DEF Moves, At, BeforeStart, InStream
<1>5. CASE StartsOnLine' = StartsOnLine
  <2>1. Streams' <=> Streams
    BY <1>1, <1>5 DEF Streams, StartsOnLine
  <2>2. NotYet' /\ DrainIsLast'
    BY <1>2, <1>4, <2>1 DEF StreamInv, NotYet, DrainIsLast
  <2>3. OneStart'
    BY <1>1, <1>5 DEF StreamInv, OneStart
  <2>4. StreamsOnlyThere'
    BY <1>3, <2>1 DEF StreamInv, StreamsOnlyThere, DrainIsLast, BeforeStart, InStream
  <2> QED
    BY <2>2, <2>3, <2>4 DEF StreamInv
<1>6. ASSUME NEW n \in Nat, StartsOnLine' = StartsOnLine \cup {n}, step = "start",
             step' = "starting"
      PROVE  StreamInv'
  <2>1. At = "start" /\ At' = "starting"
    BY <1>6 DEF At
  <2>2. ~Streams /\ ~Drained
    BY <2>1 DEF StreamInv, StreamsOnlyThere, NotYet, BeforeStart, InStream
  <2>3. StartsOnLine = {} /\ core = "idle"
    BY <2>2, StreamsIs
  <2> QED
    BY <1>1, <1>2, <1>6, <2>1, <2>2, <2>3
       DEF StreamInv, NotYet, OneStart, DrainIsLast, StreamsOnlyThere, BeforeStart, InStream
<1>7. \/ StartsOnLine' = StartsOnLine
      \/ /\ step = "start" /\ step' = "starting"
         /\ \E n \in Nat : StartsOnLine' = StartsOnLine \cup {n}
  <2>1. Len(commands) + 1 \in Nat
    BY DEF TypeOK
  <2>2. CASE commands' = commands
    BY <2>2, StartsAfter
  <2>3. ASSUME NEW c \in Commands, commands' = Append(commands, c),
               c.type = "start_stream" => step = "start" /\ step' = "starting"
        PROVE  \/ StartsOnLine' = StartsOnLine
               \/ /\ step = "start" /\ step' = "starting"
                  /\ \E n \in Nat : StartsOnLine' = StartsOnLine \cup {n}
    BY <2>1, <2>3, StartsAfter
  <2> QED
    BY <1>1, <2>2, <2>3 DEF Sends
<1> QED
  BY <1>5, <1>6, <1>7

\* A step of the core: the stream begins with the only start, and when it has drained
\* there is none.
LEMMA StreamAfterCore ==
    ASSUME TypeOK, StreamInv, CoreActs \/ CoreStreams \/ CoreSurprises
    PROVE  StreamInv'
<1>1. PICK e \in Events : Emit(e) /\ (Acts(e) \/ Streamed(e) \/ Surprised(e))
  BY CoreMoves
<1>2. At' = At
  BY CoreMoves DEF Stands, At
<1>3. Drained' => Drained \/ e.type = "stream_drained"
  BY <1>1, DrainedAfter
<1>4. CASE Acts(e)
  <2>1. /\ \A i \in StartsOnLine' : i \in Nat /\ i + 1 # 1 /\ i + 1 \in StartsOnLine
        /\ Head(commands).type = "start_stream" => 1 \in StartsOnLine
    BY <1>4, StartsAfter DEF Acts
  <2>2. \A i, j \in StartsOnLine' : i = j
    <3>1. ASSUME NEW i \in StartsOnLine', NEW j \in StartsOnLine'
          PROVE  i + 1 = j + 1 /\ i \in Nat /\ j \in Nat
      BY <2>1 DEF StreamInv, OneStart
    <3> QED
      BY <3>1
  <2>3. StartsOnLine' # {} => StartsOnLine # {} /\ Head(commands).type # "start_stream"
    <3>1. ASSUME NEW i \in StartsOnLine', Head(commands).type = "start_stream"
          PROVE  FALSE
      BY <2>1, <3>1 DEF StreamInv, OneStart
    <3> QED
      BY <2>1, <3>1
  <2>4. StartsOnLine' # {} => core' = "idle"
    BY <1>4, <2>3 DEF Acts, StreamInv, OneStart
  <2>5. core' # "idle" => Streams
    BY <1>4, <2>1, StreamsIs DEF Acts
  <2>6. Streams' => Streams
    BY <2>3, <2>5, StreamsIs DEF Streams, StartsOnLine
  <2>7. Drained' => Drained
    BY <1>3, <1>4 DEF Acts
  <2> QED
    BY <1>2, <2>2, <2>4, <2>6, <2>7
       DEF StreamInv, NotYet, OneStart, DrainIsLast, StreamsOnlyThere
<1>5. CASE Streamed(e)
  <2>1. StartsOnLine = {} /\ StartsOnLine' = {} /\ Streams /\ ~Drained /\ At \in InStream
    BY <1>5, StartsAfter, StreamsIs
       DEF Streamed, StreamInv, OneStart, DrainIsLast, StreamsOnlyThere
  <2>2. Drained' => core' = "idle"
    BY <1>3, <1>5, <2>1 DEF Streamed
  <2>3. Drained' => ~Streams'
    BY <2>1, <2>2 DEF Streams, StartsOnLine
  <2> QED
    BY <1>2, <2>1, <2>3
       DEF StreamInv, NotYet, OneStart, DrainIsLast, StreamsOnlyThere, BeforeStart, InStream
<1>6. CASE Surprised(e)
  <2>1. StartsOnLine' = StartsOnLine /\ core' = core
    BY <1>6, StartsAfter DEF Surprised
  <2>2. (Streams' <=> Streams) /\ (Drained' => Drained)
    BY <1>3, <1>6, <2>1 DEF Surprised, Streams, StartsOnLine
  <2> QED
    BY <1>2, <2>1, <2>2 DEF StreamInv, NotYet, OneStart, DrainIsLast, StreamsOnlyThere
<1> QED
  BY <1>1, <1>4, <1>5, <1>6

-----------------------------------------------------------------------------
(* The alarms.                                                              *)

\* An error is taken from the queue only by a run that then fails, or before the core was
\* ready.
LEMMA AlarmsStep ==
    ASSUME TypeOK, WithinLocations, AlarmsAreQueued, [Next]_vars
    PROVE  AlarmsAreQueued'
<1>0. queue \in Seq(Events)
  BY DEF TypeOK
<1>1. CASE Run
  <2>0. step # "ended" /\ code = "none"
    <3>1. step # "ended"
      BY <1>1, RunCounts DEF Control
    <3> QED
      BY <3>1 DEF TypeOK
  <2>1. CASE /\ queue' = queue /\ alarms' = alarms
             /\ step \in {"ready", "readying"} => \/ step' \in {"ready", "readying"}
                                                  \/ code' = "raised"
    BY <2>0, <2>1 DEF AlarmsAreQueued
  <2>2. CASE /\ queue # << >> /\ queue' = Tail(queue) /\ alarms' = alarms
             /\ Head(queue).type # "error" /\ step \notin {"ready", "readying"}
    <3>1. Cardinality(Errors(queue')) = Cardinality(Errors(queue))
      BY <1>0, <2>2, ErrorsAfterTail
    <3> QED
      BY <2>0, <2>2, <3>1 DEF AlarmsAreQueued
  <2>3. CASE SendReady \/ NeverReady \/ Plan \/ PlanFails \/ Identify \/ SkipIdentify
    BY <2>1, <2>3 DEF SendReady, NeverReady, Plan, PlanFails, Identify, SkipIdentify, End,
                      history
  <2>4. CASE EndIdentify \/ Command \/ Cancel
    BY <2>1, <2>4 DEF EndIdentify, Command, Cancel, End, Prompts, history
  <2>5. CASE TakeFatal
    BY <2>5 DEF TakeFatal, End, AlarmsAreQueued
  <2>6. CASE TakeOther /\ step = "readying"
    BY <2>6 DEF TakeOther, AlarmsAreQueued
  <2>7. CASE TakeOther /\ step # "readying"
    BY <2>2, <2>7 DEF TakeOther, Fatal, Waits, Expected, history
  <2>8. CASE TakeExpected
    BY <2>2, <2>8 DEF TakeExpected, Waits, Expected
  <2>9. CASE TakeReady
    BY <2>9 DEF TakeReady, AlarmsAreQueued
  <2>10. CASE Finish
    BY <2>1, <2>2, <2>10 DEF Finish, End, history
  <2>11. CASE TimeOut
    BY <2>1, <2>11 DEF TimeOut, End, Waits, Expected
  <2> QED
    BY <1>1, <2>3, <2>4, <2>5, <2>6, <2>7, <2>8, <2>9, <2>10, <2>11 DEF Run
<1>2. CASE CoreActs \/ CoreStreams \/ CoreSurprises
  <2>1. Stands /\ \E e \in Events : Emit(e)
    BY <1>2, CoreMoves
  <2>2. ASSUME NEW e \in Events, queue' = Append(queue, e),
               alarms' = IF e.type = "error" THEN alarms + 1 ELSE alarms
        PROVE  AlarmsAreQueued'
    BY <1>0, <2>1, <2>2, ErrorsAfterAppend DEF AlarmsAreQueued, Stands
  <2>3. CASE queue' = queue /\ alarms' = alarms
    BY <2>1, <2>3 DEF AlarmsAreQueued, Stands
  <2> QED
    BY <2>1, <2>2, <2>3 DEF Emit
<1>3. CASE UNCHANGED vars
  BY <1>3 DEF vars, history, AlarmsAreQueued
<1> QED
  BY <1>1, <1>2, <1>3 DEF Next

-----------------------------------------------------------------------------
(* The identifies.                                                          *)

\* A queue that lost its first element, or none, holds the others in their order.
LEMMA QueueShifts ==
    ASSUME TypeOK, Takes
    PROVE  \E d \in {0, 1} : \A i \in DOMAIN queue' :
               /\ i \in Nat /\ i + d \in DOMAIN queue /\ queue'[i] = queue[i + d]
               /\ d = 1 => i + d # 1
<1>1. queue \in Seq(Events) /\ \A i \in DOMAIN queue : i \in Nat /\ i + 0 = i
  BY DEF TypeOK
<1>2. CASE queue' = queue
  BY <1>1, <1>2
<1>3. CASE queue # << >> /\ queue' = Tail(queue)
  BY <1>1, <1>3, TailMovesUp
<1> QED
  BY <1>2, <1>3 DEF Takes

\* So do the commands, of which the first may be gone.
LEMMA CommandsShift ==
    ASSUME TypeOK, commands' = commands \/ (commands # << >> /\ commands' = Tail(commands))
    PROVE  \E d \in {0, 1} : \A i \in DOMAIN commands' :
               /\ i \in Nat /\ i + d \in DOMAIN commands /\ commands'[i] = commands[i + d]
               /\ commands' # commands => i + d # 1
<1>1. commands \in Seq(Commands) /\ \A i \in DOMAIN commands : i \in Nat /\ i + 0 = i
  BY DEF TypeOK
<1>2. CASE commands' = commands
  BY <1>1, <1>2
<1>3. CASE commands # << >> /\ commands' = Tail(commands)
  BY <1>1, <1>3, TailMovesUp
<1> QED
  BY <1>2, <1>3

\* What a step of the run does to the location at hand.
Onward == \/ /\ location' = location /\ timedout' = timedout /\ identified' = identified
             /\ step = "identifying" => step' \in {"identifying", "ended"}
             /\ step # "ended"
          \/ /\ step = "identify" /\ location' = location + 1
             /\ timedout' = timedout /\ identified' = identified
          \/ /\ step = "identifying" /\ location' = location + 1
             /\ timedout' = timedout \cup {location} /\ identified' = identified
          \/ /\ step = "identifying" /\ location' = location + 1 /\ timedout' = timedout
             /\ queue # << >> /\ queue' = Tail(queue)
             /\ Head(queue).type = "sensor_identified"
             /\ identified' = identified \cup {<<location, Head(queue).of>>}

\* Every step of the run does one of these.
LEMMA RunGoesOnward ==
    ASSUME Run
    PROVE  Onward
<1>1. CASE SendReady
  BY <1>1 DEF SendReady, End, Onward, history
<1>2. CASE NeverReady
  BY <1>2 DEF NeverReady, End, Onward, history
<1>3. CASE Plan
  BY <1>3 DEF Plan, End, Onward, history
<1>4. CASE PlanFails
  BY <1>4 DEF PlanFails, End, Onward, history
<1>5. CASE Identify
  BY <1>5 DEF Identify, End, Onward, history
<1>6. CASE SkipIdentify
  BY <1>6 DEF SkipIdentify, End, Onward, history
<1>7. CASE EndIdentify
  BY <1>7 DEF EndIdentify, End, Onward, history
<1>8. CASE Command
  BY <1>8 DEF Command, End, Onward, history
<1>9. CASE Cancel
  BY <1>9 DEF Cancel, End, Prompts, Onward, history
<1>10. CASE TakeFatal
  BY <1>10 DEF TakeFatal, End, Waits, Expected, Onward, history
<1>11. CASE TakeOther
  BY <1>11 DEF TakeOther, End, Waits, Expected, Onward, history
<1>12. CASE TakeExpected
  BY <1>12 DEF TakeExpected, End, Waits, Expected, Proceed, Onward, history
<1>13. CASE TakeReady
  BY <1>13 DEF TakeReady, End, Onward, history
<1>14. CASE Finish
  BY <1>14 DEF Finish, End, Onward, history
<1>15. CASE TimeOut
  BY <1>15 DEF TimeOut, End, Waits, Expected, Onward, history
<1> QED
  BY <1>1, <1>2, <1>3, <1>4, <1>5, <1>6, <1>7, <1>8, <1>9, <1>10, <1>11, <1>12, <1>13, <1>14,
     <1>15 DEF Run

IdentifyInv == AskedOnce /\ EventsExplained /\ IdentifyIsOwn

\* The types of the locations.
LEMMA LocationTypes ==
    ASSUME TypeOK
    PROVE  /\ location \in Nat /\ timedout \subseteq Nat
           /\ \A i \in DOMAIN commands : commands[i].of \in Nat
           /\ \A i \in DOMAIN queue : queue[i].of \in Nat
<1>1. location \in Nat /\ timedout \subseteq Nat
  BY SystemTestBounds DEF TypeOK
<1>2. /\ \A i \in DOMAIN commands : commands[i] \in Commands
      /\ \A i \in DOMAIN queue : queue[i] \in Events
  BY DEF TypeOK
<1>3. /\ \A c \in Commands : c.of \in Nat
      /\ \A e \in Events : e.of \in Nat
  BY SystemTestBounds DEF Commands, Events
<1> QED
  BY <1>1, <1>2, <1>3

\* A step of the run leaves every location that is on its way explained: it moves on from
\* a location with a timeout, with the location's own event, or with an earlier one.
LEMMA IdentifyAfterRun ==
    ASSUME TypeOK, IdentifyInv, Run
    PROVE  IdentifyInv'
<1>1. Takes /\ Sends /\ Onward
  BY RunMoves, RunGoesOnward
<1>2. PICK d \in {0, 1} : \A i \in DOMAIN queue' :
          /\ i \in Nat /\ i + d \in DOMAIN queue /\ queue'[i] = queue[i + d]
          /\ d = 1 => i + d # 1
  BY <1>1, QueueShifts
<1>3. /\ location \in Nat /\ timedout \subseteq Nat
      /\ \A i \in DOMAIN commands : commands[i].of \in Nat
      /\ \A i \in DOMAIN queue : queue[i].of \in Nat
  BY LocationTypes
<1>4. queue # << >> => /\ 1 \in DOMAIN queue /\ Head(queue) = queue[1]
                       /\ \A i \in DOMAIN Tail(queue) : /\ i \in Nat /\ i + 1 # 1
                                                        /\ i + 1 \in DOMAIN queue
                                                        /\ Tail(queue)[i] = queue[i + 1]
  BY TailMovesUp DEF TypeOK
<1>5. ASSUME NEW l \in Nat, Explained(l),
             \/ l # location \/ queue' # Tail(queue) \/ queue = << >>
             \/ Head(queue).type # "sensor_identified" \/ Head(queue).of # l
      PROVE  Explained(l)'
  <2>1. CASE /\ location' = location /\ timedout' = timedout /\ step # "ended"
             /\ step = "identifying" => step' \in {"identifying", "ended"}
    BY <1>5, <2>1 DEF Explained
  <2>2. CASE step = "identify" /\ location' = location + 1 /\ timedout' = timedout
    <3>1. l < location
      BY <1>3, <1>5, <2>2 DEF Explained
    <3> QED
      BY <1>3, <1>5, <2>2, <3>1 DEF Explained
  <2>3. CASE step = "identifying" /\ location' = location + 1
             /\ timedout' = timedout \cup {location}
    BY <1>3, <1>5, <2>3 DEF Explained
  <2>4. CASE /\ step = "identifying" /\ location' = location + 1 /\ timedout' = timedout
             /\ queue # << >> /\ queue' = Tail(queue)
             /\ Head(queue).type = "sensor_identified"
    <3>1. CASE l < location
      BY <1>3, <1>5, <2>4, <3>1 DEF Explained
    <3>2. CASE l = location
      <4> DEFINE h == Head(queue).of
      <4>1. Explained(h) /\ h \in Nat
        BY <1>3, <1>4, <2>4 DEF IdentifyInv, EventsExplained, Shown
      <4>2. h < location
        BY <1>3, <1>5, <2>4, <3>2, <4>1 DEF Explained
      <4>3. PICK t \in timedout : t <= h
        BY <4>1, <4>2 DEF Explained
      <4>4. t <= l /\ l < location + 1 /\ l # location + 1
        BY <1>3, <3>2, <4>1, <4>2, <4>3
      <4> QED
        BY <1>3, <2>4, <3>2, <4>3, <4>4 DEF Explained
    <3> QED
      BY <1>3, <1>5, <3>1, <3>2 DEF Explained
  <2> QED
    BY <1>1, <2>1, <2>2, <2>3, <2>4 DEF Onward
<1>6. ASSUME NEW i \in DOMAIN queue', NEW l, l = queue'[i].of, Shown(i)'
      PROVE  Explained(l)'
  <2>1. i + d \in DOMAIN queue /\ Shown(i + d) /\ l = queue[i + d].of
    BY <1>2, <1>6 DEF Shown
  <2>2. l \in Nat /\ Explained(l)
    BY <1>3, <2>1 DEF IdentifyInv, EventsExplained
  <2>3. queue # << >> /\ queue' = Tail(queue) /\ Head(queue).type = "sensor_identified" =>
           Head(queue).of # l
    BY <1>4, <1>6 DEF IdentifyInv, AskedOnce, Shown
  <2> QED
    BY <1>5, <2>2, <2>3
<1>7. ASSUME NEW i \in DOMAIN commands, NEW l, l = commands[i].of, Asked(i)
      PROVE  Explained(l)'
  <2>1. l \in Nat /\ Explained(l)
    BY <1>3, <1>7 DEF IdentifyInv, EventsExplained
  <2>2. queue # << >> /\ Head(queue).type = "sensor_identified" => Head(queue).of # l
    BY <1>4, <1>7 DEF IdentifyInv, AskedOnce, Shown
  <2> QED
    BY <1>5, <2>1, <2>2
<1>8. /\ \A i, j \in DOMAIN queue' :
            Shown(i)' /\ Shown(j)' /\ queue'[i].of = queue'[j].of => i = j
      /\ \A i \in DOMAIN commands, j \in DOMAIN queue' :
            Asked(i) /\ Shown(j)' => commands[i].of # queue'[j].of
  <2>1. ASSUME NEW i \in DOMAIN queue', NEW j \in DOMAIN queue', Shown(i)', Shown(j)',
               queue'[i].of = queue'[j].of
        PROVE  i = j
    <3>1. i + d = j + d
      BY <1>2, <2>1 DEF IdentifyInv, AskedOnce, Shown
    <3> QED
      BY <1>2, <3>1
  <2>2. ASSUME NEW i \in DOMAIN commands, NEW j \in DOMAIN queue', Asked(i), Shown(j)'
        PROVE  commands[i].of # queue'[j].of
    BY <1>2, <2>2 DEF IdentifyInv, AskedOnce, Shown
  <2> QED
    BY <2>1, <2>2
<1>9. AskedOnce' /\ EventsExplained'
  <2>1. CASE commands' = commands
    <3>1. AskedOnce'
      BY <1>8, <2>1 DEF IdentifyInv, AskedOnce, Asked
    <3>2. EventsExplained'
      BY <1>6, <1>7, <2>1 DEF EventsExplained, Asked, Explained
    <3> QED
      BY <3>1, <3>2
  <2>2. ASSUME NEW c \in Commands, commands' = Append(commands, c), c.of = location,
               c.type = "identify_sensor" => /\ step = "identify" /\ step' = "identifying"
                                             /\ location' = location
        PROVE  AskedOnce' /\ EventsExplained'
    <3> DEFINE end == Len(commands) + 1
    <3>1. /\ DOMAIN commands' = DOMAIN commands \cup {end} /\ commands'[end] = c
          /\ \A i \in DOMAIN commands : commands'[i] = commands[i] /\ i # end
      BY <2>2, AppendAddsLast DEF TypeOK
    <3> HIDE DEF end
    <3>2. c.type = "identify_sensor" =>
             /\ \A i \in DOMAIN commands : Asked(i) => commands[i].of # c.of
             /\ \A i \in DOMAIN queue' : Shown(i)' => queue'[i].of # c.of
      BY <1>2, <2>2 DEF IdentifyInv, EventsExplained, Explained, Shown
    <3>3. AskedOnce'
      BY <1>8, <3>1, <3>2 DEF IdentifyInv, AskedOnce, Asked
    <3>4. ASSUME NEW i \in DOMAIN commands', NEW l, l = commands'[i].of, Asked(i)'
          PROVE  Explained(l)'
      <4>1. CASE i \in DOMAIN commands
        BY <1>7, <3>1, <3>4, <4>1 DEF Asked
      <4>2. CASE i = end
        BY <1>3, <2>2, <3>1, <3>4, <4>2 DEF Asked, Explained
      <4> QED
        BY <3>1, <4>1, <4>2
    <3>5. EventsExplained'
      BY <1>6, <3>4 DEF EventsExplained, Explained
    <3> QED
      BY <3>3, <3>5
  <2> QED
    BY <1>1, <2>1, <2>2 DEF Sends
<1>10. IdentifyIsOwn'
  <2>1. CASE identified' = identified /\ timedout \subseteq timedout'
    BY <2>1 DEF IdentifyInv, IdentifyIsOwn
  <2>2. CASE /\ timedout' = timedout /\ queue # << >>
             /\ Head(queue).type = "sensor_identified"
             /\ identified' = identified \cup {<<location, Head(queue).of>>}
    <3> DEFINE h == Head(queue).of
    <3>1. Explained(h) /\ h \in Nat
      BY <1>3, <1>4, <2>2 DEF IdentifyInv, EventsExplained, Shown
    <3>2. h = location \/ (h < location /\ \E t \in timedout : t <= h)
      BY <1>3, <3>1 DEF Explained
    <3> HIDE DEF h
    <3>3. identified' = identified \cup {<<location, h>>}
      BY <2>2 DEF h
    <3> QED
      BY <2>2, <3>2, <3>3 DEF IdentifyInv, IdentifyIsOwn
  <2> QED
    BY <1>1, <2>1, <2>2 DEF Onward
<1> QED
  BY <1>9, <1>10 DEF IdentifyInv

\* The core turns a command into its event.
LEMMA IdentifyAfterCore ==
    ASSUME TypeOK, IdentifyInv, CoreActs \/ CoreStreams \/ CoreSurprises
    PROVE  IdentifyInv'
<1>1. PICK e \in Events : Emit(e) /\ (Acts(e) \/ Streamed(e) \/ Surprised(e))
  BY CoreMoves
<1>2. Stands
  BY CoreMoves
<1>3. PICK d \in {0, 1} : \A i \in DOMAIN commands' :
          /\ i \in Nat /\ i + d \in DOMAIN commands /\ commands'[i] = commands[i + d]
          /\ commands' # commands => i + d # 1
  <2>1. commands' = commands \/ (commands # << >> /\ commands' = Tail(commands))
    BY <1>1 DEF Acts, Streamed, Surprised
  <2> QED
    BY <2>1, CommandsShift
<1>4. \A l : Explained(l)' <=> Explained(l)
  BY <1>2 DEF Stands, Explained
<1>5. /\ \A i, j \in DOMAIN commands' :
            Asked(i)' /\ Asked(j)' /\ commands'[i].of = commands'[j].of => i = j
      /\ \A i \in DOMAIN commands', j \in DOMAIN queue :
            Asked(i)' /\ Shown(j) => commands'[i].of # queue[j].of
      /\ \A i \in DOMAIN commands' : Asked(i)' => Explained(commands'[i].of)
  <2>1. ASSUME NEW i \in DOMAIN commands', NEW j \in DOMAIN commands', Asked(i)', Asked(j)',
               commands'[i].of = commands'[j].of
        PROVE  i = j
    <3>1. i + d = j + d
      BY <1>3, <2>1 DEF IdentifyInv, AskedOnce, Asked
    <3> QED
      BY <1>3, <3>1
  <2>2. ASSUME NEW i \in DOMAIN commands', Asked(i)'
        PROVE  /\ Explained(commands'[i].of)
               /\ \A j \in DOMAIN queue : Shown(j) => commands'[i].of # queue[j].of
    BY <1>3, <2>2 DEF IdentifyInv, AskedOnce, EventsExplained, Asked
  <2> QED
    BY <2>1, <2>2
<1>6. IdentifyIsOwn'
  BY <1>2 DEF IdentifyInv, IdentifyIsOwn, Stands
<1>7. CASE queue' = queue
  <2>1. AskedOnce'
    BY <1>5, <1>7 DEF IdentifyInv, AskedOnce, Shown
  <2>2. EventsExplained'
    BY <1>2, <1>5, <1>7 DEF IdentifyInv, EventsExplained, Shown, Explained, Stands
  <2> QED
    BY <1>6, <2>1, <2>2 DEF IdentifyInv
<1>8. CASE queue' = Append(queue, e)
  <2> DEFINE end == Len(queue) + 1
  <2>1. /\ DOMAIN queue' = DOMAIN queue \cup {end} /\ queue'[end] = e
        /\ \A i \in DOMAIN queue : queue'[i] = queue[i] /\ i # end
    BY <1>8, AppendAddsLast DEF TypeOK
  <2> HIDE DEF end
  <2>2. e.type = "sensor_identified" =>
           /\ Explained(e.of)
           /\ \A j \in DOMAIN queue : Shown(j) => e.of # queue[j].of
           /\ \A i \in DOMAIN commands' : Asked(i)' => commands'[i].of # e.of
    <3> SUFFICES ASSUME e.type = "sensor_identified"
                 PROVE  /\ Explained(e.of)
                        /\ \A j \in DOMAIN queue : Shown(j) => e.of # queue[j].of
                        /\ \A i \in DOMAIN commands' : Asked(i)' => commands'[i].of # e.of
      OBVIOUS
    <3>1. /\ commands # << >> /\ commands' = Tail(commands)
          /\ Head(commands).type = "identify_sensor" /\ e.of = Head(commands).of
      BY <1>1 DEF Acts, Streamed, Surprised
    <3>2. 1 \in DOMAIN commands /\ Asked(1) /\ commands[1].of = e.of
      BY <3>1, TailMovesUp DEF TypeOK, Asked
    <3>3. \A i \in DOMAIN commands' : /\ i \in Nat /\ i + 1 \in DOMAIN commands /\ i + 1 # 1
                                      /\ commands'[i] = commands[i + 1]
      BY <3>1, TailMovesUp DEF TypeOK
    <3>4. Explained(e.of) /\ \A j \in DOMAIN queue : Shown(j) => e.of # queue[j].of
      BY <3>2 DEF IdentifyInv, EventsExplained, AskedOnce
    <3>5. \A i \in DOMAIN commands' : Asked(i)' => commands'[i].of # e.of
      BY <3>2, <3>3 DEF IdentifyInv, AskedOnce, Asked
    <3> QED
      BY <3>4, <3>5
  <2>3. AskedOnce'
    BY <1>5, <2>1, <2>2 DEF IdentifyInv, AskedOnce, Shown
  <2>4. EventsExplained'
    <3>1. \A i \in DOMAIN queue' : Shown(i)' => Explained(queue'[i].of)
      BY <2>1, <2>2 DEF IdentifyInv, EventsExplained, Shown
    <3> QED
      BY <1>2, <1>5, <3>1 DEF EventsExplained, Explained, Stands
  <2> QED
    BY <1>6, <2>3, <2>4 DEF IdentifyInv
<1> QED
  BY <1>1, <1>7, <1>8 DEF Emit

-----------------------------------------------------------------------------
(* The theorems.                                                            *)

\* At the start both queues are empty.
LEMMA InitInv == Init => IInv
<1> SUFFICES ASSUME Init
             PROVE  IInv
  OBVIOUS
<1>1. /\ step = "ready" /\ code = "none" /\ last = "none" /\ attempts = 0 /\ location = 1
      /\ queue = << >> /\ commands = << >> /\ core = "idle" /\ surprises = 0 /\ alarms = 0
      /\ timedout = {} /\ identified = {} /\ DOMAIN queue = {} /\ DOMAIN commands = {}
  BY DEF Init
<1>2. TypeOK
  <2>1. queue \in Seq(Events) /\ commands \in Seq(Commands)
    BY <1>1
  <2>2. /\ attempts \in 0..MaxAttempts /\ surprises \in 0..MaxSurprises
        /\ location \in 1..(NumIdentify + 1)
    BY <1>1, SystemTestBounds
  <2> HIDE DEF Init
  <2> QED
    BY <1>1, <2>1, <2>2 DEF TypeOK
<1>3. NotYet /\ OneStart /\ DrainIsLast /\ StreamsOnlyThere
  BY <1>1, StreamsIs DEF NotYet, OneStart, DrainIsLast, StreamsOnlyThere, Drained, StartsOnLine
<1>4. AlarmsAreQueued /\ AskedOnce /\ EventsExplained /\ WithinLocations /\ IdentifyIsOwn
  BY <1>1 DEF AlarmsAreQueued, AskedOnce, EventsExplained, WithinLocations, IdentifyIsOwn
<1> QED
  BY <1>2, <1>3, <1>4 DEF IInv

\* Every step keeps the invariant.
LEMMA StepInv == IInv /\ [Next]_vars => IInv'
<1> SUFFICES ASSUME IInv, [Next]_vars
             PROVE  IInv'
  OBVIOUS
<1>1. TypeOK /\ WithinLocations /\ StreamInv /\ AlarmsAreQueued /\ IdentifyInv
  BY DEF IInv, StreamInv, IdentifyInv
<1>2. TypeOK' /\ WithinLocations' /\ AlarmsAreQueued'
  BY <1>1, TypeStep, AlarmsStep
<1>3. StreamInv' /\ IdentifyInv'
  <2>1. CASE Run
    BY <1>1, <2>1, StreamAfterRun, IdentifyAfterRun
  <2>2. CASE CoreActs \/ CoreStreams \/ CoreSurprises
    BY <1>1, <2>2, StreamAfterCore, IdentifyAfterCore
  <2>3. CASE UNCHANGED vars
    <3>1. /\ step' = step /\ last' = last /\ location' = location /\ queue' = queue
          /\ commands' = commands /\ core' = core /\ timedout' = timedout
          /\ identified' = identified
      BY <2>3 DEF vars, coreVars, history
    <3>2. StreamInv'
      BY <1>1, <3>1 DEF StreamInv, NotYet, OneStart, DrainIsLast, StreamsOnlyThere, At,
                        Drained, Streams, StartsOnLine
    <3>3. IdentifyInv'
      BY <1>1, <3>1 DEF IdentifyInv, AskedOnce, EventsExplained, IdentifyIsOwn, Asked, Shown,
                        Explained
    <3> QED
      BY <3>2, <3>3
  <2> QED
    BY <2>1, <2>2, <2>3 DEF Next
<1> QED
  BY <1>2, <1>3 DEF IInv, StreamInv, IdentifyInv

\* It holds of every reachable state.
LEMMA Invariance == Spec => []IInv
BY InitInv, StepInv, PTL DEF Spec

\* The run, its queue and the core have their types.
THEOREM TypeCorrect == Spec => []TypeOK
<1>1. IInv => TypeOK
  BY DEF IInv
<1> QED
  BY <1>1, Invariance, PTL

\* A run that returns 0 has ignored no error that was reported after the core was ready.
THEOREM ErrorsFailTheRun == Spec => []AlarmsAreFatal
<1>1. IInv => AlarmsAreFatal
  BY DEF IInv, AlarmsAreQueued, AlarmsAreFatal, TypeOK
<1> QED
  BY <1>1, Invariance, PTL

\* A run that is over leaves a stream only between the start command and the stop.
THEOREM StreamsAreStopped == Spec => []StreamLeftOnlyUnstopped
<1>1. IInv => StreamLeftOnlyUnstopped
  BY DEF IInv, StreamsOnlyThere, StreamLeftOnlyUnstopped, At, InStream
<1> QED
  BY <1>1, Invariance, PTL

\* Until some location has timed out, each is confirmed by its own event; from then on
\* by an earlier one's at worst.
THEOREM IdentifiesAreOwn == Spec => []IdentifyIsOwn
<1>1. IInv => IdentifyIsOwn
  BY DEF IInv
<1> QED
  BY <1>1, Invariance, PTL

=================================================================================
