---------------------------- MODULE GatewayAdapter ----------------------------
(***************************************************************************)
(* GatewayBLEAdapter (sensor_harness/adapters/gateway_ble_adapter.py).     *)
(* The event loop connects sensors through the gateway, subscribes, and    *)
(* disconnects those that are still marked as connected, one operation at  *)
(* a time; meanwhile the reader thread of the serial client hands the      *)
(* gateway's messages to the handlers of the adapter, which share the      *)
(* transport clients with the loop without a lock.  The gateway numbers    *)
(* the sensors with links and may use a number again once its link is      *)
(* down.  Any of its messages may be lost on the line.  The request ids of *)
(* GatewayClient are left out here.                                        *)
(***************************************************************************)
EXTENDS Naturals, Sequences, FiniteSets

CONSTANTS NumSensors,  \* the sensors, in the order of transport_clients
          SensorIds,   \* the numbers the gateway gives out
          None,        \* no sensor id
          MaxWire      \* bound: messages on the line that nobody asked for

ASSUME SomeSensors == NumSensors \in Nat \ {0}
ASSUME NoneIsNoSensorId == None \notin SensorIds
ASSUME WireBound == MaxWire \in Nat

Sensors == 1..NumSensors

\* What the gateway sends: a sensor was connected under an id, was disconnected
\* (solicited, with a request id, or not), or has a frame to deliver.
Messages ==
    [type : {"connected", "frame"}, of : Sensors, id : SensorIds]
    \cup [type : {"disconnected"}, of : Sensors, solicited : BOOLEAN]

VARIABLES
    leaving,     \* whether disconnect_all has begun
    todo,        \* the sensors it has yet to disconnect
    op,          \* where the loop stands with each sensor
    client,      \* the transport client of each sensor
    registered,  \* the sensors in transport_clients
    status,      \* connection_status of each sensor
    reader,      \* the reader thread: "reading", "routed", "fetched", "passed"
    msg,         \* the message it is working on
    wire,        \* external: the messages on the line
    wants,       \* external: the request the gateway has yet to answer
    link,        \* external: the id of each link that is up, or None
    dropped,     \* history: the sensors whose link went down by itself
    unheard,     \* history: those of them whose report of it was lost
    overtaken,   \* history: those reported down before the loop marked them
    spurious,    \* history: those reported for a disconnect that was asked for
    delivered    \* history: pairs of a frame's sensor and the one that got it

loopVars == <<leaving, todo, op>>
readerVars == <<reader, msg>>
gatewayVars == <<wire, wants, link>>
history == <<dropped, unheard, overtaken, spurious, delivered>>
vars == <<loopVars, client, registered, status, readerVars, gatewayVars, history>>

Clients == [is_connected : BOOLEAN, sensor_id : SensorIds \cup {None},
            subscribed : BOOLEAN, suppress : BOOLEAN, answer : SensorIds \cup {None}]

\* The loop has no operation under way and none has raised.
Resting == \A s \in Sensors : op[s] \in {"new", "refused", "connected", "gone"}

Init ==
    /\ leaving = FALSE
    /\ todo = {}
    /\ op = [s \in Sensors |-> "new"]
    /\ client = [s \in Sensors |->
                    [is_connected |-> FALSE, sensor_id |-> None,
                     subscribed |-> FALSE, suppress |-> FALSE, answer |-> None]]
    /\ registered = Sensors
    /\ status = [s \in Sensors |-> "unconnected"]
    /\ reader = "reading"
    /\ msg = [type |-> "disconnected", of |-> 1, solicited |-> FALSE]
    /\ wire = << >>
    /\ wants = [s \in Sensors |-> "nothing"]
    /\ link = [s \in Sensors |-> None]
    /\ dropped = {}
    /\ unheard = {}
    /\ overtaken = {}
    /\ spurious = {}
    /\ delivered = {}

-----------------------------------------------------------------------------
(* The event loop: connect_to_device.                                       *)

StartConnect(s) ==
    /\ Resting
    /\ ~leaving
    /\ op[s] = "new"
    /\ op' = [op EXCEPT ![s] = "connecting"]
    /\ wants' = [wants EXCEPT ![s] = "connect"]
    /\ UNCHANGED <<leaving, todo, client, registered, status, readerVars, wire,
                   link, history>>

\* connect: the executor thread has returned the connection.
TakeConnection(s) ==
    /\ op[s] = "answered"
    /\ op' = [op EXCEPT ![s] = "linked"]
    /\ client' = [client EXCEPT ![s].is_connected = TRUE,
                                ![s].sensor_id = client[s].answer]
    /\ UNCHANGED <<leaving, todo, registered, status, readerVars, gatewayVars,
                   history>>

\* connect_to_device, a turn of the loop later.
MarkConnected(s) ==
    /\ op[s] = "linked"
    /\ op' = [op EXCEPT ![s] = "connected"]
    /\ status' = [status EXCEPT ![s] = "connected"]
    /\ UNCHANGED <<leaving, todo, client, registered, readerVars, gatewayVars,
                   history>>

\* Mutant of ConnectTimesOut: the sensor is passed over, and the run goes on.
ConnectPassesOver(s) ==
    /\ op[s] = "connecting"
    /\ op' = [op EXCEPT ![s] = "refused"]
    /\ UNCHANGED <<leaving, todo, client, registered, status, readerVars,
                   gatewayVars, history>>

\* wait_for gives up after 10 s and raises, while the request stays with the
\* gateway client until gateway_connect_timeout_s, 15 s.
ConnectTimesOut(s) ==
    /\ op[s] = "connecting"
    /\ op' = [op EXCEPT ![s] = "raised"]
    /\ UNCHANGED <<leaving, todo, client, registered, status, readerVars,
                   gatewayVars, history>>

\* set_notify_callback; the callbacks are there before the gateway is asked.
Subscribe(s) ==
    /\ Resting
    /\ ~leaving
    /\ op[s] = "connected"
    /\ ~client[s].subscribed
    /\ client' = [client EXCEPT ![s].subscribed = TRUE]
    /\ UNCHANGED <<loopVars, registered, status, readerVars, gatewayVars, history>>

-----------------------------------------------------------------------------
(* The event loop: disconnect, for each sensor that disconnect_all found    *)
(* marked as connected.                                                     *)

DisconnectAll ==
    /\ Resting
    /\ ~leaving
    /\ leaving' = TRUE
    /\ todo' = {s \in Sensors : status[s] = "connected"}
    /\ UNCHANGED <<op, client, registered, status, readerVars, gatewayVars,
                   history>>

\* Mutant of StartDisconnect: the event is not suppressed.
StartDisconnectAloud(s) ==
    /\ Resting
    /\ s \in todo
    /\ todo' = todo \ {s}
    /\ op' = [op EXCEPT ![s] = "disconnecting"]
    /\ wants' = [wants EXCEPT ![s] = "disconnect"]
    /\ UNCHANGED <<leaving, client, registered, status, readerVars, wire, link,
                   history>>

StartDisconnect(s) ==
    /\ Resting
    /\ s \in todo
    /\ todo' = todo \ {s}
    /\ op' = [op EXCEPT ![s] = "disconnecting"]
    /\ client' = [client EXCEPT ![s].suppress = TRUE]
    /\ wants' = [wants EXCEPT ![s] = "disconnect"]
    /\ UNCHANGED <<leaving, registered, status, readerVars, wire, link, history>>

\* The executor thread has returned: the client is cleared and forgotten ...
ForgetClient(s) ==
    /\ op[s] = "confirmed"
    /\ op' = [op EXCEPT ![s] = "forgotten"]
    /\ client' = [client EXCEPT ![s].is_connected = FALSE,
                                ![s].sensor_id = None,
                                ![s].subscribed = FALSE]
    /\ registered' = registered \ {s}
    /\ UNCHANGED <<leaving, todo, status, readerVars, gatewayVars, history>>

\* Mutant of EndDisconnect: the sensor stays marked as connected.
EndDisconnectUnmarked(s) ==
    /\ op[s] = "forgotten"
    /\ op' = [op EXCEPT ![s] = "gone"]
    /\ client' = [client EXCEPT ![s].suppress = FALSE]
    /\ UNCHANGED <<leaving, todo, registered, status, readerVars, gatewayVars,
                   history>>

\* ... and then the finally clause lets its events through again.
EndDisconnect(s) ==
    /\ op[s] = "forgotten"
    /\ op' = [op EXCEPT ![s] = "gone"]
    /\ client' = [client EXCEPT ![s].suppress = FALSE]
    /\ status' = [status EXCEPT ![s] = "disconnected"]
    /\ UNCHANGED <<leaving, todo, registered, readerVars, gatewayVars, history>>

\* No answer in time, or an error: only the finally clause is executed.
DisconnectRaises(s) ==
    /\ op[s] = "disconnecting"
    /\ op' = [op EXCEPT ![s] = "raised"]
    /\ client' = [client EXCEPT ![s].suppress = FALSE]
    /\ UNCHANGED <<leaving, todo, registered, status, readerVars, gatewayVars,
                   history>>

Loop ==
    \/ DisconnectAll
    \/ \E s \in Sensors :
          \/ StartConnect(s) \/ TakeConnection(s) \/ MarkConnected(s)
          \/ ConnectTimesOut(s) \/ Subscribe(s) \/ StartDisconnect(s)
          \/ ForgetClient(s) \/ EndDisconnect(s) \/ DisconnectRaises(s)

-----------------------------------------------------------------------------
(* The reader thread.                                                       *)

\* connect and disconnect of the gateway client: the answer of a request that
\* still waits for it.
Route(m) ==
    /\ op' = [op EXCEPT ![m.of] =
                 CASE m.type = "connected" /\ @ = "connecting" -> "answered"
                   [] m.type = "disconnected" /\ m.solicited /\ @ = "connecting"
                         -> "refused"
                   [] m.type = "disconnected" /\ m.solicited /\ @ = "disconnecting"
                         -> "confirmed"
                   [] OTHER -> @]
    /\ client' = IF m.type = "connected" /\ op[m.of] = "connecting"
                 THEN [client EXCEPT ![m.of].answer = m.id]
                 ELSE client

TakeLine ==
    /\ reader = "reading"
    /\ wire # << >>
    /\ Head(wire).type # "frame"
    /\ wire' = Tail(wire)
    /\ msg' = Head(wire)
    /\ Route(msg')
    /\ reader' = IF msg'.type = "disconnected" THEN "routed" ELSE "reading"
    /\ UNCHANGED <<leaving, todo, registered, status, wants, link, history>>

\* _handle_sensor_disconnected looks the transport client up ...
FetchClient ==
    /\ reader = "routed"
    /\ reader' = IF msg.of \in registered THEN "fetched" ELSE "reading"
    /\ UNCHANGED <<loopVars, client, registered, status, msg, gatewayVars, history>>

\* ... stops there if the client suppresses the event ...
CheckSuppress ==
    /\ reader = "fetched"
    /\ client' = [client EXCEPT ![msg.of].is_connected = FALSE]
    /\ reader' = IF client[msg.of].suppress THEN "reading" ELSE "passed"
    /\ UNCHANGED <<loopVars, registered, status, msg, gatewayVars, history>>

\* ... or calls the disconnect callback.
ReportDisconnect ==
    /\ reader = "passed"
    /\ reader' = "reading"
    /\ status' = [status EXCEPT ![msg.of] = "disconnected"]
    /\ overtaken' = IF op[msg.of] \in {"answered", "linked"}
                    THEN overtaken \cup {msg.of} ELSE overtaken
    /\ spurious' = IF msg.solicited THEN spurious \cup {msg.of} ELSE spurious
    /\ UNCHANGED <<loopVars, client, registered, msg, gatewayVars, dropped, unheard,
                   delivered>>

\* Mutant of Candidates: any transport client that has an id.
CandidatesWithAnyId(id) == {s \in registered : client[s].sensor_id # None}

\* _handle_stream_frame: the transport clients with the frame's id.
Candidates(id) == {s \in registered : client[s].sensor_id = id}

\* The first of them gets the frame, if it has subscribed.
DeliverFrame ==
    /\ reader = "reading"
    /\ wire # << >>
    /\ Head(wire).type = "frame"
    /\ wire' = Tail(wire)
    /\ delivered' = delivered \cup
          {<<Head(wire).of, s>> : s \in
              {t \in Candidates(Head(wire).id) :
                  /\ \A u \in Candidates(Head(wire).id) : t <= u
                  /\ client[t].subscribed}}
    /\ UNCHANGED <<loopVars, client, registered, status, readerVars, wants, link,
                   dropped, unheard, overtaken, spurious>>

\* What comes from the line is damaged: the parser passes over it (FrameParser).
LoseMessage ==
    /\ reader = "reading"
    /\ wire # << >>
    /\ wire' = Tail(wire)
    /\ unheard' = IF Head(wire).type = "disconnected" /\ ~Head(wire).solicited
                  THEN unheard \cup {Head(wire).of} ELSE unheard
    /\ UNCHANGED <<loopVars, client, registered, status, readerVars, wants, link,
                   dropped, overtaken, spurious, delivered>>

Reader == TakeLine \/ FetchClient \/ CheckSuppress \/ ReportDisconnect
             \/ DeliverFrame \/ LoseMessage

-----------------------------------------------------------------------------
(* The gateway.                                                             *)

GatewayConnects(s) ==
    /\ wants[s] = "connect"
    /\ wants' = [wants EXCEPT ![s] = "nothing"]
    /\ \E i \in SensorIds :
          /\ \A t \in Sensors : link[t] # i
          /\ link' = [link EXCEPT ![s] = i]
          /\ wire' = Append(wire, [type |-> "connected", of |-> s, id |-> i])
    /\ UNCHANGED <<loopVars, client, registered, status, readerVars, history>>

\* The gateway answers a request to connect with sensor_disconnected, or does
\* what it was asked to disconnect.
GatewayDisconnects(s) ==
    /\ wants[s] # "nothing"
    /\ wants' = [wants EXCEPT ![s] = "nothing"]
    /\ link' = [link EXCEPT ![s] = None]
    /\ wire' = Append(wire, [type |-> "disconnected", of |-> s,
                             solicited |-> TRUE])
    /\ UNCHANGED <<loopVars, client, registered, status, readerVars, history>>

LinkDrops(s) ==
    /\ link[s] # None
    /\ Len(wire) < MaxWire
    /\ link' = [link EXCEPT ![s] = None]
    /\ wire' = Append(wire, [type |-> "disconnected", of |-> s,
                             solicited |-> FALSE])
    /\ dropped' = dropped \cup {s}
    /\ UNCHANGED <<loopVars, client, registered, status, readerVars, wants,
                   unheard, overtaken, spurious, delivered>>

SendFrame(s) ==
    /\ link[s] # None
    /\ Len(wire) < MaxWire
    /\ wire' = Append(wire, [type |-> "frame", of |-> s, id |-> link[s]])
    /\ UNCHANGED <<loopVars, client, registered, status, readerVars, wants, link,
                   history>>

Gateway == \E s \in Sensors : \/ GatewayConnects(s) \/ GatewayDisconnects(s)
                              \/ LinkDrops(s) \/ SendFrame(s)

Next == Loop \/ Reader \/ Gateway

Spec == Init /\ [][Next]_vars

-----------------------------------------------------------------------------
(* Properties.                                                              *)

\* Type invariant.
TypeOK ==
    /\ leaving \in BOOLEAN
    /\ todo \subseteq Sensors
    /\ op \in [Sensors -> {"new", "connecting", "answered", "linked", "connected",
                           "refused", "disconnecting", "confirmed", "forgotten",
                           "gone", "raised"}]
    /\ client \in [Sensors -> Clients]
    /\ registered \subseteq Sensors
    /\ \A s \in registered : op[s] \notin {"forgotten", "gone"}
    /\ status \in [Sensors -> {"unconnected", "connected", "disconnected"}]
    /\ reader \in {"reading", "routed", "fetched", "passed"}
    /\ msg \in Messages
    /\ wire \in Seq(Messages)
    /\ wants \in [Sensors -> {"nothing", "connect", "disconnect"}]
    /\ link \in [Sensors -> SensorIds \cup {None}]
    /\ dropped \cup unheard \cup overtaken \cup spurious \subseteq Sensors
    /\ delivered \subseteq Sensors \X Sensors

\* Nothing about the sensor is under way, on the loop, the reader or the line.
Settled(s) ==
    /\ op[s] \notin {"connecting", "answered", "linked", "disconnecting",
                     "confirmed", "forgotten"}
    /\ reader = "reading"
    /\ wants[s] = "nothing"
    /\ \A i \in DOMAIN wire : wire[i].of # s

\* A sensor that is marked as connected has its link, unless the operation on it
\* raised, the line lost the report that its link went down (nothing else ever tells
\* the adapter), or that report was handled in the one race: after the answer of its
\* connect arrived and before the loop marked it connected, over what the report set.
StatusTellsLink ==
    \A s \in Sensors :
        Settled(s) /\ status[s] = "connected" /\ link[s] = None =>
            s \in overtaken \cup unheard \/ op[s] = "raised"

\* The gateway holds a link that the adapter does not know of only when the
\* loop gave up: connect waits 10 s and its request 15 s, so the gateway may
\* connect the sensor after the run has raised.
LinkIsKnown ==
    \A s \in Sensors :
        Settled(s) /\ link[s] # None =>
            \/ op[s] = "raised"
            \/ op[s] = "connected" /\ status[s] = "connected"

\* A disconnect that the loop asked for is not reported as an event while it is
\* under way: only a reader that fetched the client before it was forgotten and
\* checked it after the finally clause reports it, or a late answer to a
\* disconnect that raised.  (A refused connect is reported.)
QuietDisconnect ==
    \A s \in spurious : op[s] \in {"connecting", "refused", "gone", "raised"}

\* A stream frame reaches the callback of the sensor that sent it: a client with
\* the same sensor_id that comes first gets it only after its own link went
\* down by itself, which leaves the id of the client as it was.
FrameReachesItsSensor ==
    \A pair \in delivered : pair[1] = pair[2] \/ pair[2] \in dropped
=============================================================================
