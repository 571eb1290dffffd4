------------------------ MODULE GatewayAdapterProofs ------------------------
(***************************************************************************)
(* What holds of GatewayBLEAdapter for any number of sensors, any set of   *)
(* sensor ids and any number of messages on the line.                      *)
(***************************************************************************)
EXTENDS GatewayAdapter, Integers, TLAPS

-----------------------------------------------------------------------------
(* The inductive invariant.                                                 *)

Ops == {"new", "connecting", "answered", "linked", "connected", "refused",
        "disconnecting", "confirmed", "forgotten", "gone", "raised"}
Busy == {"connecting", "answered", "linked", "disconnecting", "confirmed", "forgotten", "raised"}
Leaving == {"disconnecting", "confirmed", "forgotten"}

\* The loop works on one sensor at a time, and on none after it has raised.
OneAtATime == \A s, t \in Sensors : op[s] \in Busy /\ op[t] \in Busy => s = t

\* What the fields of a sensor say of where the loop stands with it.
FieldsOfOp ==
    \A s \in Sensors :
        /\ wants[s] = "connect" => op[s] \in {"connecting", "raised"}
        /\ wants[s] = "disconnect" => op[s] \in {"disconnecting", "raised"}
        /\ client[s].suppress <=> op[s] \in Leaving
        /\ op[s] \notin {"forgotten", "gone"} => s \in registered
        /\ status[s] = "connected" => op[s] \in Leaving \cup {"connected", "raised"}
        /\ s \in todo => op[s] = "connected"

\* Of a sensor that the gateway has not connected yet, nothing is on its way.
InHand(s) == reader # "reading" /\ msg.of = s
OnLine(s) == \E k \in DOMAIN wire : wire[k].of = s
Untouched ==
    \A s \in Sensors : op[s] = "new" \/ wants[s] = "connect" =>
        /\ link[s] = None /\ client[s].sensor_id = None /\ s \notin dropped
        /\ ~OnLine(s) /\ ~InHand(s)

\* A request has one answer, and it is on the line only while somebody may want it.
Answer(m) == m.type = "connected" \/ (m.type = "disconnected" /\ m.solicited)
OneAnswer ==
    \A k \in DOMAIN wire : Answer(wire[k]) =>
        /\ wants[wire[k].of] = "nothing"
        /\ op[wire[k].of] \in {"connecting", "raised"}
                                 \cup (IF wire[k].type = "connected" THEN {}
                                       ELSE {"disconnecting"})
        /\ \A j \in DOMAIN wire : Answer(wire[j]) /\ wire[j].of = wire[k].of => j = k

\* A link comes up once: when its end is on its way, or was by itself, it is down.
Down(s) == \/ \E k \in DOMAIN wire : wire[k].of = s /\ wire[k].type = "disconnected"
           \/ InHand(s)
DownIsDown == \A s \in Sensors : Down(s) \/ s \in dropped => link[s] = None
LinkOfOp ==
    \A s \in Sensors : link[s] # None =>
        /\ op[s] \in {"connecting", "answered", "linked", "connected", "disconnecting", "raised"}
        /\ op[s] = "connected" => status[s] = "connected"

\* A link that was confirmed and is down has its end behind the confirmation on the
\* line, and then on its way to the status, unless that was overtaken or lost.
EndIsBehind ==
    \A k \in DOMAIN wire : wire[k].type = "connected" /\ link[wire[k].of] = None =>
        \E j \in DOMAIN wire : k < j /\ wire[j].of = wire[k].of /\ wire[j].type = "disconnected"
DownIsReported ==
    \A s \in Sensors :
        /\ link[s] = None
        /\ \/ op[s] \in {"answered", "linked"}
           \/ status[s] = "connected" /\ op[s] \notin Leaving \cup {"raised"}
        => s \in overtaken \cup unheard \/ Down(s)

\* What the reader has in hand; once it has passed the check, a disconnect that was
\* asked for is over.
ReaderHolds ==
    /\ reader # "reading" =>
          /\ msg.type = "disconnected"
          /\ msg.solicited =>
                op[msg.of] \in {"refused", "confirmed", "forgotten", "gone", "raised"}
    /\ reader = "passed" /\ msg.solicited => op[msg.of] \in {"refused", "gone", "raised"}
    /\ \A s \in spurious : op[s] \in {"refused", "gone", "raised"}

\* The adapter knows an id of a sensor as long as the link has it, or the loop is
\* about to forget it; no other link has that id, and no frame of another sensor
\* that is behind it on the line: unless the sensor's link went down by itself.
Heard(t, i) == client[t].sensor_id = i \/ (op[t] = "answered" /\ client[t].answer = i)
Sent(j, t, i) == wire[j].type = "connected" /\ wire[j].of = t /\ wire[j].id = i
Knows(t, i) == Heard(t, i) \/ \E j \in DOMAIN wire : Sent(j, t, i)
Told(t, i, n) == Heard(t, i) \/ \E j \in DOMAIN wire : j < n /\ Sent(j, t, i)
IdIsOfLink ==
    \A t \in Sensors \ dropped : \A i \in SensorIds : Knows(t, i) =>
        \/ link[t] = i
        \/ link[t] = None /\ op[t] \in {"disconnecting", "confirmed", "raised"}
IdIsOwn ==
    \A t \in Sensors \ dropped : \A i \in SensorIds : Knows(t, i) =>
        \A u \in Sensors : link[u] = i => u = t
FrameIsOwn ==
    \A k \in DOMAIN wire : wire[k].type = "frame" =>
        \A t \in Sensors \ dropped : Told(t, wire[k].id, k) => t = wire[k].of

IInv == /\ TypeOK
        /\ OneAtATime /\ FieldsOfOp /\ Untouched /\ OneAnswer
        /\ DownIsDown /\ LinkOfOp /\ EndIsBehind /\ DownIsReported /\ ReaderHolds
        /\ IdIsOfLink /\ IdIsOwn /\ FrameIsOwn /\ FrameReachesItsSensor

-----------------------------------------------------------------------------
(* The line, and what each step changes.                                    *)

\* What leaves the line was first, and the rest moves up by one.
LEMMA LineTail ==
    ASSUME TypeOK, wire # << >>, wire' = Tail(wire)
    PROVE  /\ \A k \in DOMAIN wire' : /\ k \in Nat \ {0} /\ k + 1 \in DOMAIN wire
                                      /\ wire'[k] = wire[k + 1]
           /\ \A k \in DOMAIN wire : k \in Nat /\ (k > 1 => /\ k - 1 \in DOMAIN wire'
                                                            /\ wire'[k - 1] = wire[k])
           /\ 1 \in DOMAIN wire /\ Head(wire) = wire[1] /\ wire[1] \in Messages
           /\ wire' \in Seq(Messages)
           /\ Len(wire) \in Nat /\ Len(wire') + 1 = Len(wire)
<1>1. wire \in Seq(Messages)
  BY DEF TypeOK
<1>2. /\ Len(wire) \in Nat /\ Len(wire) > 0 /\ DOMAIN wire = 1..Len(wire)
      /\ Len(wire') = Len(wire) - 1 /\ DOMAIN wire' = 1..(Len(wire) - 1)
      /\ \A k \in 1..(Len(wire) - 1) : wire'[k] = wire[k + 1]
      /\ Head(wire) = wire[1] /\ wire' \in Seq(Messages)
      /\ \A k \in 1..Len(wire) : wire[k] \in Messages
  BY <1>1
<1>3. \A k \in 1..Len(wire) : k > 1 => /\ k - 1 \in 1..(Len(wire) - 1)
                                        /\ wire'[k - 1] = wire[(k - 1) + 1]
                                        /\ (k - 1) + 1 = k
  BY <1>2
<1> QED
  BY <1>2, <1>3

\* What is sent is the last on the line.
LEMMA LineAppend ==
    ASSUME TypeOK, NEW m \in Messages, wire' = Append(wire, m)
    PROVE  /\ Len(wire) \in Nat /\ Len(wire') = Len(wire) + 1
           /\ DOMAIN wire' = DOMAIN wire \cup {Len(wire) + 1}
           /\ wire'[Len(wire) + 1] = m
           /\ \A k \in DOMAIN wire : wire'[k] = wire[k] /\ k \in Nat /\ k < Len(wire) + 1
           /\ wire' \in Seq(Messages)
<1>1. wire \in Seq(Messages)
  BY DEF TypeOK
<1>2. /\ Len(wire) \in Nat /\ DOMAIN wire = 1..Len(wire)
      /\ Len(wire') = Len(wire) + 1 /\ DOMAIN wire' = 1..(Len(wire) + 1)
      /\ \A k \in 1..Len(wire) : wire'[k] = wire[k]
      /\ wire'[Len(wire) + 1] = m /\ wire' \in Seq(Messages)
  BY <1>1
<1> QED
  BY <1>2

\* The messages on the line and in hand.
LEMMA MessageFields ==
    ASSUME NEW m \in Messages
    PROVE  /\ m.of \in Sensors
           /\ m.type \in {"connected", "frame", "disconnected"}
           /\ m.type # "disconnected" => m.id \in SensorIds
           /\ m.type = "disconnected" => m.solicited \in BOOLEAN
BY DEF Messages

\* They are messages of the gateway.
LEMMA MessageTypes ==
    ASSUME TypeOK
    PROVE  /\ msg \in Messages
           /\ \A k \in DOMAIN wire : wire[k] \in Messages
<1>1. msg \in Messages /\ wire \in Seq(Messages)
  BY DEF TypeOK
<1> QED
  BY <1>1

\* An answer that is taken from the line ends the loop's wait, in one of three
\* ways, or comes too late; any other message changes nothing of the loop.
LEMMA RouteCases ==
    ASSUME TypeOK, TakeLine, NEW u, u = wire[1].of
    PROVE  /\ u \in Sensors /\ msg' = wire[1] /\ wire' = Tail(wire) /\ wire # << >>
           /\ wire[1].type \in {"connected", "disconnected"}
           /\ \/ /\ wire[1].type = "connected" /\ op[u] = "connecting"
                 /\ op' = [op EXCEPT ![u] = "answered"]
                 /\ client' = [client EXCEPT ![u].answer = wire[1].id]
              \/ /\ wire[1].type = "disconnected" /\ wire[1].solicited
                 /\ op[u] = "connecting"
                 /\ op' = [op EXCEPT ![u] = "refused"] /\ client' = client
              \/ /\ wire[1].type = "disconnected" /\ wire[1].solicited
                 /\ op[u] = "disconnecting"
                 /\ op' = [op EXCEPT ![u] = "confirmed"] /\ client' = client
              \/ /\ op' = op /\ client' = client
                 /\ wire[1].type = "connected" => op[u] # "connecting"
                 /\ wire[1].type = "disconnected" /\ wire[1].solicited =>
                       op[u] \notin {"connecting", "disconnecting"}
<1>1. wire # << >> /\ wire' = Tail(wire) /\ msg' = Head(wire) /\ Head(wire).type # "frame"
  BY DEF TakeLine
<1>2. 1 \in DOMAIN wire /\ Head(wire) = wire[1] /\ wire[1] \in Messages
  BY <1>1, LineTail
<1>3. /\ u \in Sensors /\ wire[1].type \in {"connected", "disconnected"}
      /\ wire[1].type = "disconnected" => wire[1].solicited \in BOOLEAN
  BY <1>1, <1>2, MessageFields
<1>4. op \in [Sensors -> Ops]
  BY DEF TypeOK, Ops
<1>5. /\ op' = [op EXCEPT ![u] =
                 CASE wire[1].type = "connected" /\ op[u] = "connecting" -> "answered"
                   [] wire[1].type = "disconnected" /\ wire[1].solicited
                        /\ op[u] = "connecting" -> "refused"
                   [] wire[1].type = "disconnected" /\ wire[1].solicited
                        /\ op[u] = "disconnecting" -> "confirmed"
                   [] OTHER -> op[u]]
      /\ client' = IF wire[1].type = "connected" /\ op[u] = "connecting"
                   THEN [client EXCEPT ![u].answer = wire[1].id] ELSE client
  BY <1>1, <1>2 DEF TakeLine, Route
<1>6. CASE wire[1].type = "connected" /\ op[u] = "connecting"
  BY <1>1, <1>2, <1>3, <1>5, <1>6
<1>7. CASE wire[1].type = "disconnected" /\ wire[1].solicited /\ op[u] = "connecting"
  BY <1>1, <1>2, <1>3, <1>5, <1>7
<1>8. CASE wire[1].type = "disconnected" /\ wire[1].solicited /\ op[u] = "disconnecting"
  BY <1>1, <1>2, <1>3, <1>5, <1>8
<1>9. CASE /\ wire[1].type = "connected" => op[u] # "connecting"
           /\ wire[1].type = "disconnected" /\ wire[1].solicited =>
                 op[u] \notin {"connecting", "disconnecting"}
  <2>1. op' = [op EXCEPT ![u] = op[u]] /\ client' = client
    BY <1>3, <1>5, <1>9
  <2> QED
    BY <2>1, <1>1, <1>2, <1>3, <1>4, <1>9
<1> QED
  BY <1>3, <1>6, <1>7, <1>8, <1>9

-----------------------------------------------------------------------------
(* The loop.                                                                *)

\* A transport client with one field changed.
LEMMA FieldKeepsType ==
    ASSUME TypeOK, NEW s \in Sensors, NEW b \in BOOLEAN, NEW i \in SensorIds \cup {None}
    PROVE  /\ [client EXCEPT ![s].is_connected = b] \in [Sensors -> Clients]
           /\ [client EXCEPT ![s].subscribed = b] \in [Sensors -> Clients]
           /\ [client EXCEPT ![s].suppress = b] \in [Sensors -> Clients]
           /\ [client EXCEPT ![s].answer = i] \in [Sensors -> Clients]
<1>1. client \in [Sensors -> Clients] /\ client[s] \in Clients
  BY DEF TypeOK
<1>2. [client[s] EXCEPT !.is_connected = b] \in Clients
  BY <1>1 DEF Clients
<1>3. [client[s] EXCEPT !.subscribed = b] \in Clients
  BY <1>1 DEF Clients
<1>4. [client[s] EXCEPT !.suppress = b] \in Clients
  BY <1>1 DEF Clients
<1>5. [client[s] EXCEPT !.answer = i] \in Clients
  BY <1>1 DEF Clients
<1> QED
  BY <1>1, <1>2, <1>3, <1>4, <1>5

\* The type invariant.
LEMMA TypeStep ==
    ASSUME TypeOK, [Next]_vars
    PROVE  TypeOK'
<1>1. CASE DisconnectAll
  BY <1>1 DEF DisconnectAll, TypeOK, loopVars, readerVars, gatewayVars, history
<1>2. ASSUME NEW s \in Sensors,
             \/ StartConnect(s) \/ TakeConnection(s) \/ MarkConnected(s)
             \/ ConnectTimesOut(s) \/ Subscribe(s) \/ StartDisconnect(s)
             \/ ForgetClient(s) \/ EndDisconnect(s) \/ DisconnectRaises(s)
      PROVE  TypeOK'
  <2>1. CASE StartConnect(s)
    BY <2>1 DEF StartConnect, TypeOK, loopVars, readerVars, gatewayVars, history
  <2>2. CASE TakeConnection(s)
    <3>1. client[s].answer \in SensorIds \cup {None}
      BY DEF TypeOK, Clients
    <3>2. client' \in [Sensors -> Clients]
      <4> DEFINE new == [client[s] EXCEPT !.is_connected = TRUE, !.sensor_id = client[s].answer]
      <4>1. client[s] \in Clients
        BY DEF TypeOK
      <4>2. new \in Clients
        BY <3>1, <4>1 DEF Clients
      <4>3. client' = [client EXCEPT ![s] = new]
        BY <4>1, <2>2 DEF TakeConnection, TypeOK, Clients
      <4> QED
        BY <4>2, <4>3 DEF TypeOK
    <3>3. \A t \in registered' : op'[t] \notin {"forgotten", "gone"}
      BY <2>2 DEF TakeConnection, TypeOK
    <3> QED
      BY <3>2, <3>3, <2>2 DEF TakeConnection, TypeOK, loopVars, readerVars, gatewayVars, history
  <2>3. CASE MarkConnected(s)
    BY <2>3 DEF MarkConnected, TypeOK, loopVars, readerVars, gatewayVars, history
  <2>4. CASE ConnectTimesOut(s)
    BY <2>4 DEF ConnectTimesOut, TypeOK, loopVars, readerVars, gatewayVars, history
  <2>5. CASE Subscribe(s)
    <3>1. client' \in [Sensors -> Clients]
      BY <2>5, FieldKeepsType DEF Subscribe
    <3> QED
      BY <2>5, <3>1 DEF Subscribe, TypeOK, loopVars, readerVars, gatewayVars, history
  <2>6. CASE StartDisconnect(s)
    <3>1. client' \in [Sensors -> Clients]
      BY <2>6, FieldKeepsType DEF StartDisconnect
    <3> QED
      BY <2>6, <3>1 DEF StartDisconnect, TypeOK, readerVars, history
  <2>7. CASE ForgetClient(s)
    <3>1. client' \in [Sensors -> Clients]
      <4> DEFINE new == [client[s] EXCEPT !.is_connected = FALSE, !.sensor_id = None,
                                          !.subscribed = FALSE]
      <4>1. client[s] \in Clients
        BY DEF TypeOK
      <4>2. new \in Clients
        BY <4>1 DEF Clients
      <4>3. client' = [client EXCEPT ![s] = new]
        BY <4>1, <2>7 DEF ForgetClient, TypeOK, Clients
      <4> QED
        BY <4>2, <4>3 DEF TypeOK
    <3>2. \A t \in registered' : op'[t] \notin {"forgotten", "gone"}
      BY <2>7 DEF ForgetClient, TypeOK
    <3> QED
      BY <3>1, <3>2, <2>7 DEF ForgetClient, TypeOK, loopVars, readerVars, gatewayVars, history
  <2>8. CASE EndDisconnect(s)
    <3>1. client' \in [Sensors -> Clients]
      BY <2>8, FieldKeepsType DEF EndDisconnect
    <3>2. \A t \in registered' : op'[t] \notin {"forgotten", "gone"}
      BY <2>8 DEF EndDisconnect, TypeOK
    <3> QED
      BY <2>8, <3>1, <3>2 DEF EndDisconnect, TypeOK, readerVars, gatewayVars, history
  <2>9. CASE DisconnectRaises(s)
    <3>1. client' \in [Sensors -> Clients]
      BY <2>9, FieldKeepsType DEF DisconnectRaises
    <3> QED
      BY <2>9, <3>1 DEF DisconnectRaises, TypeOK, readerVars, gatewayVars, history
  <2> QED
    BY <1>2, <2>1, <2>2, <2>3, <2>4, <2>5, <2>6, <2>7, <2>8, <2>9
<1>3. CASE TakeLine
  <2>1. wire' \in Seq(Messages) /\ wire[1] \in Messages /\ msg' = wire[1]
    BY <1>3, LineTail, RouteCases
  <2>2. wire[1].type # "disconnected" => wire[1].id \in SensorIds
    BY <2>1, MessageFields
  <2>3. client' \in [Sensors -> Clients]
    <3>1. \/ client' = client
          \/ \E i \in SensorIds : client' = [client EXCEPT ![wire[1].of].answer = i]
      BY <2>2, <1>3, RouteCases
    <3>2. wire[1].of \in Sensors /\ client \in [Sensors -> Clients]
      BY <1>3, RouteCases DEF TypeOK
    <3>3. ASSUME NEW i \in SensorIds, client' = [client EXCEPT ![wire[1].of].answer = i]
          PROVE  client' \in [Sensors -> Clients]
      <4>1. PICK s \in Sensors : s = wire[1].of
        BY <3>2
      <4>2. [client EXCEPT ![s].answer = i] \in [Sensors -> Clients]
        BY FieldKeepsType
      <4> QED
        BY <3>3, <4>1, <4>2
    <3> QED
      BY <3>1, <3>2, <3>3
  <2>4. /\ op' \in [Sensors -> Ops]
        /\ \A t \in registered : op'[t] \notin {"forgotten", "gone"}
    <3>1. op \in [Sensors -> Ops] /\ \A t \in registered : op[t] \notin {"forgotten", "gone"}
      BY DEF TypeOK, Ops
    <3>2. /\ wire[1].of \in Sensors
          /\ \/ \E x \in {"answered", "refused", "confirmed"} :
                   op' = [op EXCEPT ![wire[1].of] = x]
             \/ op' = op
      BY <1>3, RouteCases
    <3>3. ASSUME NEW x \in {"answered", "refused", "confirmed"},
                 op' = [op EXCEPT ![wire[1].of] = x]
          PROVE  /\ op' \in [Sensors -> Ops]
                 /\ \A t \in registered : op'[t] \notin {"forgotten", "gone"}
      <4>1. x \in Ops /\ x \notin {"forgotten", "gone"}
        BY DEF Ops
      <4>2. registered \subseteq Sensors
        BY DEF TypeOK
      <4> QED
        BY <3>1, <3>2, <3>3, <4>1, <4>2
    <3> QED
      BY <3>1, <3>2, <3>3
  <2> QED
    BY <2>1, <2>3, <2>4, <1>3 DEF TakeLine, TypeOK, Ops, history
<1>4. CASE FetchClient
  BY <1>4 DEF FetchClient, TypeOK, loopVars, readerVars, gatewayVars, history
<1>5. CASE CheckSuppress
  <2>1. msg.of \in Sensors
    BY MessageTypes, MessageFields
  <2>2. client' \in [Sensors -> Clients]
    BY <1>5, <2>1, FieldKeepsType DEF CheckSuppress
  <2> QED
    BY <1>5, <2>2 DEF CheckSuppress, TypeOK, loopVars, readerVars, gatewayVars, history
<1>6. CASE ReportDisconnect
  <2>1. msg.of \in Sensors
    BY MessageTypes, MessageFields
  <2>2. status' \in [Sensors -> {"unconnected", "connected", "disconnected"}]
    BY <2>1, <1>6 DEF ReportDisconnect, TypeOK
  <2> QED
    BY <2>1, <2>2, <1>6 DEF ReportDisconnect, TypeOK, loopVars, readerVars, gatewayVars, history
<1>7. CASE DeliverFrame
  <2>1. wire' \in Seq(Messages) /\ Head(wire) \in Messages
    BY <1>7, LineTail DEF DeliverFrame
  <2>2. Head(wire).of \in Sensors
    BY <2>1, MessageFields
  <2>3. delivered' \subseteq Sensors \X Sensors
    BY <2>2, <1>7 DEF DeliverFrame, Candidates, TypeOK
  <2> QED
    BY <2>1, <2>3, <1>7 DEF DeliverFrame, TypeOK, loopVars, readerVars
<1>10. CASE LoseMessage
  <2>1. wire' \in Seq(Messages) /\ Head(wire).of \in Sensors
    BY <1>10, LineTail, MessageFields DEF LoseMessage
  <2> QED
    BY <2>1, <1>10 DEF LoseMessage, TypeOK, loopVars, readerVars
<1>8. ASSUME NEW s \in Sensors, GatewayConnects(s) \/ GatewayDisconnects(s)
                                  \/ LinkDrops(s) \/ SendFrame(s)
      PROVE  TypeOK'
  <2>1. CASE GatewayConnects(s)
    <3>1. PICK i \in SensorIds :
              /\ link' = [link EXCEPT ![s] = i]
              /\ wire' = Append(wire, [type |-> "connected", of |-> s, id |-> i])
      BY <2>1 DEF GatewayConnects
    <3>2. [type |-> "connected", of |-> s, id |-> i] \in Messages
      BY DEF Messages
    <3>3. wire' \in Seq(Messages)
      BY <3>1, <3>2, LineAppend
    <3>4. link' \in [Sensors -> SensorIds \cup {None}]
      BY <3>1 DEF TypeOK
    <3> QED
      BY <3>3, <3>4, <2>1 DEF GatewayConnects, TypeOK, loopVars, readerVars, gatewayVars, history
  <2>2. CASE GatewayDisconnects(s)
    <3> DEFINE m == [type |-> "disconnected", of |-> s, solicited |-> TRUE]
    <3>1. m \in Messages /\ wire' = Append(wire, m)
      BY <2>2 DEF GatewayDisconnects, TypeOK, Messages
    <3>2. wire' \in Seq(Messages)
      BY <3>1, LineAppend
    <3> QED
      BY <3>2, <2>2 DEF GatewayDisconnects, TypeOK, loopVars, readerVars, gatewayVars, history
  <2>3. CASE LinkDrops(s)
    <3> DEFINE m == [type |-> "disconnected", of |-> s, solicited |-> FALSE]
    <3>1. m \in Messages /\ wire' = Append(wire, m)
      BY <2>3 DEF LinkDrops, TypeOK, Messages
    <3>2. wire' \in Seq(Messages)
      BY <3>1, LineAppend
    <3> QED
      BY <3>2, <2>3 DEF LinkDrops, TypeOK, loopVars, readerVars, gatewayVars, history
  <2>4. CASE SendFrame(s)
    <3> DEFINE m == [type |-> "frame", of |-> s, id |-> link[s]]
    <3>1. m \in Messages /\ wire' = Append(wire, m)
      BY <2>4 DEF SendFrame, TypeOK, Messages
    <3>2. wire' \in Seq(Messages)
      BY <3>1, LineAppend
    <3> QED
      BY <3>2, <2>4 DEF SendFrame, TypeOK, loopVars, readerVars, gatewayVars, history
  <2> QED
    BY <1>8, <2>1, <2>2, <2>3, <2>4
<1>9. CASE UNCHANGED vars
  BY <1>9 DEF vars, TypeOK, loopVars, readerVars, gatewayVars, history
<1> QED
  BY <1>1, <1>2, <1>3, <1>4, <1>5, <1>6, <1>7, <1>8, <1>9, <1>10 DEF Next, Loop, Reader, Gateway

\* Where the loop stands with each sensor.
LEMMA FieldsStep ==
    ASSUME IInv, [Next]_vars
    PROVE  OneAtATime' /\ FieldsOfOp'
<1>1. CASE DisconnectAll
  BY <1>1 DEF DisconnectAll, IInv, TypeOK, Clients, OneAtATime, FieldsOfOp, Resting, Busy,
     Leaving, loopVars, readerVars, gatewayVars, history
<1>2. ASSUME NEW s \in Sensors,
             \/ StartConnect(s) \/ TakeConnection(s) \/ MarkConnected(s)
             \/ ConnectTimesOut(s) \/ Subscribe(s) \/ StartDisconnect(s)
             \/ ForgetClient(s) \/ EndDisconnect(s) \/ DisconnectRaises(s)
      PROVE  OneAtATime' /\ FieldsOfOp'
  <2>1. CASE StartConnect(s)
    <3>1. op[s] = "new" /\ \A t \in Sensors : op[t] \notin Busy
      BY <2>1 DEF StartConnect, Resting, Busy
    <3>2. /\ op'[s] = "connecting" /\ wants'[s] = "connect"
          /\ \A t \in Sensors : t # s => op'[t] = op[t] /\ wants'[t] = wants[t]
          /\ UNCHANGED <<todo, client, registered, status>>
      BY <2>1 DEF StartConnect, IInv, TypeOK
    <3>3. OneAtATime'
      BY <3>1, <3>2 DEF OneAtATime
    <3>4. FieldsOfOp'
      BY <3>1, <3>2 DEF FieldsOfOp, IInv, Leaving
    <3> QED
      BY <3>3, <3>4
  <2>2. CASE TakeConnection(s)
    BY <2>2 DEF TakeConnection, IInv, TypeOK, Clients, OneAtATime, FieldsOfOp, Resting, Busy,
       Leaving, loopVars, readerVars, gatewayVars, history
  <2>3. CASE MarkConnected(s)
    BY <2>3 DEF MarkConnected, IInv, TypeOK, Clients, OneAtATime, FieldsOfOp, Resting, Busy,
       Leaving, loopVars, readerVars, gatewayVars, history
  <2>4. CASE ConnectTimesOut(s)
    BY <2>4 DEF ConnectTimesOut, IInv, TypeOK, Clients, OneAtATime, FieldsOfOp, Resting, Busy,
       Leaving, loopVars, readerVars, gatewayVars, history
  <2>5. CASE Subscribe(s)
    BY <2>5 DEF Subscribe, IInv, TypeOK, Clients, OneAtATime, FieldsOfOp, Resting, Busy,
       Leaving, loopVars, readerVars, gatewayVars, history
  <2>6. CASE StartDisconnect(s)
    <3>1. /\ op[s] = "connected" /\ s \in Sensors
          /\ \A t \in Sensors : op[t] \notin Busy
      BY <2>6 DEF StartDisconnect, IInv, TypeOK, FieldsOfOp, Resting, Busy
    <3>2. /\ op'[s] = "disconnecting" /\ wants'[s] = "disconnect" /\ client'[s].suppress
          /\ \A t \in Sensors : t # s => /\ op'[t] = op[t] /\ wants'[t] = wants[t]
                                         /\ client'[t] = client[t]
          /\ todo' = todo \ {s} /\ registered' = registered /\ status' = status
      BY <2>6 DEF StartDisconnect, IInv, TypeOK, Clients
    <3>3. OneAtATime'
      BY <3>1, <3>2 DEF OneAtATime
    <3>4. FieldsOfOp'
      BY <3>1, <3>2 DEF FieldsOfOp, IInv, Leaving
    <3> QED
      BY <3>3, <3>4
  <2>7. CASE ForgetClient(s)
    BY <2>7 DEF ForgetClient, IInv, TypeOK, Clients, OneAtATime, FieldsOfOp, Resting, Busy,
       Leaving, loopVars, readerVars, gatewayVars, history
  <2>8. CASE EndDisconnect(s)
    BY <2>8 DEF EndDisconnect, IInv, TypeOK, Clients, OneAtATime, FieldsOfOp, Resting, Busy,
       Leaving, loopVars, readerVars, gatewayVars, history
  <2>9. CASE DisconnectRaises(s)
    BY <2>9 DEF DisconnectRaises, IInv, TypeOK, Clients, OneAtATime, FieldsOfOp, Resting, Busy,
       Leaving, loopVars, readerVars, gatewayVars, history
  <2> QED
    BY <1>2, <2>1, <2>2, <2>3, <2>4, <2>5, <2>6, <2>7, <2>8, <2>9
<1>3. CASE TakeLine
  <2> DEFINE u == wire[1].of
  <2>1. /\ u \in Sensors /\ op \in [Sensors -> Ops] /\ client \in [Sensors -> Clients]
        /\ wants' = wants /\ registered' = registered /\ status' = status /\ todo' = todo
    BY <1>3, RouteCases DEF TakeLine, IInv, TypeOK, Ops
  <2>2. \A t \in Sensors : t # u => op'[t] = op[t] /\ client'[t] = client[t]
    BY <2>1, <1>3, RouteCases DEF IInv
  <2>3. \/ op[u] = "connecting" /\ op'[u] \in {"answered", "refused"}
        \/ op[u] = "disconnecting" /\ op'[u] = "confirmed"
        \/ op'[u] = op[u]
    BY <2>1, <1>3, RouteCases DEF IInv
  <2>4. client'[u].suppress = client[u].suppress
    BY <2>1, <1>3, RouteCases DEF IInv, Clients
  <2>5. OneAtATime'
    BY <2>1, <2>2, <2>3 DEF IInv, OneAtATime, Busy
  <2>6. op[u] # op'[u] => wants[u] = "nothing"
    BY <2>1, <1>3, RouteCases, LineTail DEF IInv, OneAnswer, Answer, TypeOK
  <2>7. FieldsOfOp'
    BY <2>1, <2>2, <2>3, <2>4, <2>6 DEF IInv, FieldsOfOp, Leaving
  <2> QED
    BY <2>5, <2>7
<1>4. CASE FetchClient
  BY <1>4 DEF FetchClient, IInv, TypeOK, Clients, OneAtATime, FieldsOfOp, Resting, Busy,
     Leaving, loopVars, readerVars, gatewayVars, history
<1>5. CASE CheckSuppress
  BY <1>5 DEF CheckSuppress, IInv, TypeOK, Clients, OneAtATime, FieldsOfOp, Resting, Busy,
     Leaving, loopVars, readerVars, gatewayVars, history
<1>6. CASE ReportDisconnect
  BY <1>6 DEF ReportDisconnect, IInv, TypeOK, Clients, OneAtATime, FieldsOfOp, Resting, Busy,
     Leaving, loopVars, readerVars, gatewayVars, history
<1>7. CASE DeliverFrame
  BY <1>7 DEF DeliverFrame, IInv, TypeOK, Clients, OneAtATime, FieldsOfOp, Resting, Busy,
     Leaving, loopVars, readerVars, gatewayVars, history
<1>8. ASSUME NEW s \in Sensors, GatewayConnects(s) \/ GatewayDisconnects(s)
                                  \/ LinkDrops(s) \/ SendFrame(s)
      PROVE  OneAtATime' /\ FieldsOfOp'
  <2>1. CASE GatewayConnects(s)
    BY <2>1 DEF GatewayConnects, IInv, TypeOK, Clients, OneAtATime, FieldsOfOp, Resting, Busy,
       Leaving, loopVars, readerVars, gatewayVars, history
  <2>2. CASE GatewayDisconnects(s)
    BY <2>2 DEF GatewayDisconnects, IInv, TypeOK, Clients, OneAtATime, FieldsOfOp, Resting,
       Busy, Leaving, loopVars, readerVars, gatewayVars, history
  <2>3. CASE LinkDrops(s)
    BY <2>3 DEF LinkDrops, IInv, TypeOK, Clients, OneAtATime, FieldsOfOp, Resting, Busy,
       Leaving, loopVars, readerVars, gatewayVars, history
  <2>4. CASE SendFrame(s)
    BY <2>4 DEF SendFrame, IInv, TypeOK, Clients, OneAtATime, FieldsOfOp, Resting, Busy,
       Leaving, loopVars, readerVars, gatewayVars, history
  <2> QED
    BY <1>8, <2>1, <2>2, <2>3, <2>4
<1>10. CASE LoseMessage
  BY <1>10 DEF LoseMessage, IInv, OneAtATime, FieldsOfOp, loopVars, readerVars
<1>9. CASE UNCHANGED vars
  BY <1>9 DEF vars, IInv, OneAtATime, FieldsOfOp, loopVars, readerVars, gatewayVars, history
<1> QED
  BY <1>1, <1>2, <1>3, <1>4, <1>5, <1>6, <1>7, <1>8, <1>9, <1>10 DEF Next, Loop, Reader, Gateway

-----------------------------------------------------------------------------
(* What each kind of step does to one sensor, and leaves of the others.      *)

\* What the line, the links and the reader keep when the loop goes on.
LineKept == /\ wire' = wire /\ link' = link /\ msg' = msg /\ reader' = reader
            /\ dropped' = dropped /\ unheard' = unheard /\ overtaken' = overtaken
            /\ spurious' = spurious /\ delivered' = delivered
OthersKept(s) ==
    \A t \in Sensors : t # s => /\ op'[t] = op[t] /\ wants'[t] = wants[t]
                                /\ client'[t] = client[t] /\ status'[t] = status[t]

\* Where a step of the loop takes the sensor it works on.
Goes(s, from, to) == op[s] = from /\ op'[s] = to
LoopMove(s) ==
    /\ LineKept /\ OthersKept(s)
    /\ client'[s].answer = client[s].answer
    /\ \/ Goes(s, "new", "connecting") /\ wants'[s] = "connect"
       \/ Goes(s, "connected", "disconnecting") /\ wants'[s] = "disconnect"
       \/ /\ wants'[s] = wants[s]
          /\ \/ Goes(s, "answered", "linked") \/ Goes(s, "linked", "connected")
             \/ Goes(s, "connecting", "raised") \/ Goes(s, "connected", "connected")
             \/ Goes(s, "confirmed", "forgotten") \/ Goes(s, "forgotten", "gone")
             \/ Goes(s, "disconnecting", "raised")
    /\ status'[s] = CASE Goes(s, "linked", "connected") -> "connected"
                      [] Goes(s, "forgotten", "gone") -> "disconnected"
                      [] OTHER -> status[s]
    /\ client'[s].sensor_id = CASE Goes(s, "answered", "linked") -> client[s].answer
                                [] Goes(s, "confirmed", "forgotten") -> None
                                [] OTHER -> client[s].sensor_id

\* Each operation of the loop makes such a move.
LEMMA LoopMoves ==
    ASSUME IInv, NEW s \in Sensors,
           \/ StartConnect(s) \/ TakeConnection(s) \/ MarkConnected(s)
           \/ ConnectTimesOut(s) \/ Subscribe(s) \/ StartDisconnect(s)
           \/ ForgetClient(s) \/ EndDisconnect(s) \/ DisconnectRaises(s)
    PROVE  LoopMove(s)
<1>0. TypeOK /\ (s \in todo => op[s] = "connected")
  BY DEF IInv, FieldsOfOp
<1>1. CASE StartConnect(s)
  BY <1>1, <1>0 DEF StartConnect, TypeOK, Clients, LoopMove, Goes, LineKept, OthersKept,
              loopVars, readerVars, gatewayVars, history
<1>2. CASE TakeConnection(s)
  BY <1>2, <1>0 DEF TakeConnection, TypeOK, Clients, LoopMove, Goes, LineKept, OthersKept,
              loopVars, readerVars, gatewayVars, history
<1>3. CASE MarkConnected(s)
  BY <1>3, <1>0 DEF MarkConnected, TypeOK, Clients, LoopMove, Goes, LineKept, OthersKept,
              loopVars, readerVars, gatewayVars, history
<1>4. CASE ConnectTimesOut(s)
  BY <1>4, <1>0 DEF ConnectTimesOut, TypeOK, Clients, LoopMove, Goes, LineKept, OthersKept,
              loopVars, readerVars, gatewayVars, history
<1>5. CASE Subscribe(s)
  BY <1>5, <1>0 DEF Subscribe, TypeOK, Clients, LoopMove, Goes, LineKept, OthersKept,
              loopVars, readerVars, gatewayVars, history
<1>6. CASE StartDisconnect(s)
  BY <1>6, <1>0 DEF StartDisconnect, TypeOK, Clients, LoopMove, Goes, LineKept, OthersKept,
              loopVars, readerVars, gatewayVars, history
<1>7. CASE ForgetClient(s)
  BY <1>7, <1>0 DEF ForgetClient, TypeOK, Clients, LoopMove, Goes, LineKept, OthersKept,
              loopVars, readerVars, gatewayVars, history
<1>8. CASE EndDisconnect(s)
  BY <1>8, <1>0 DEF EndDisconnect, TypeOK, Clients, LoopMove, Goes, LineKept, OthersKept,
              loopVars, readerVars, gatewayVars, history
<1>9. CASE DisconnectRaises(s)
  BY <1>9, <1>0 DEF DisconnectRaises, TypeOK, Clients, LoopMove, Goes, LineKept, OthersKept,
              loopVars, readerVars, gatewayVars, history
<1> QED
  BY <1>1, <1>2, <1>3, <1>4, <1>5, <1>6, <1>7, <1>8, <1>9

-----------------------------------------------------------------------------
(* The line.                                                                *)

LineInv == Untouched /\ OneAnswer /\ DownIsDown /\ LinkOfOp /\ EndIsBehind

\* An operation of the loop: what it asks for has no answer on the line yet.
LEMMA LineAfterLoop ==
    ASSUME IInv, NEW s \in Sensors, LoopMove(s)
    PROVE  LineInv'
<1>1. Untouched'
  BY DEF IInv, Untouched, OnLine, InHand, FieldsOfOp, LoopMove, Goes, LineKept, OthersKept
<1>2. OneAnswer'
  <2>1. \A k \in DOMAIN wire : wire[k].of \in Sensors
    BY MessageTypes, MessageFields DEF IInv
  <2>2. op[s] = "new" \/ wants[s] = "connect" => ~OnLine(s)
    BY DEF IInv, Untouched
  <2> QED
    BY <2>1, <2>2 DEF IInv, OneAnswer, Answer, OnLine, LoopMove, Goes, LineKept, OthersKept
<1>3. DownIsDown'
  BY DEF IInv, DownIsDown, Down, InHand, LoopMove, LineKept
<1>4. LinkOfOp'
  BY DEF IInv, LinkOfOp, Untouched, LoopMove, Goes, LineKept, OthersKept
<1>5. EndIsBehind'
  BY DEF IInv, EndIsBehind, LoopMove, LineKept
<1> QED
  BY <1>1, <1>2, <1>3, <1>4, <1>5 DEF LineInv

\* A step that changes no more than the clients' fields, the status and the place
\* of the reader.
Aside == /\ wire' = wire /\ link' = link /\ wants' = wants /\ op' = op /\ dropped' = dropped
         /\ delivered' = delivered
         /\ reader' # "reading" => reader # "reading" /\ msg' = msg
         /\ \A t \in Sensors : /\ client'[t].sensor_id = client[t].sensor_id
                               /\ client'[t].answer = client[t].answer
                               /\ status'[t] # status[t] => op[t] # "connected" \/ Down(t)

\* Such a step leaves the line and the links as they were.
LEMMA LineAfterAside ==
    ASSUME IInv, Aside
    PROVE  LineInv'
<1>1. Untouched'
  BY DEF IInv, Untouched, OnLine, InHand, Aside
<1>2. OneAnswer' /\ EndIsBehind'
  BY DEF IInv, OneAnswer, Answer, EndIsBehind, Aside
<1>3. DownIsDown'
  BY DEF IInv, DownIsDown, Down, InHand, Aside
<1>4. LinkOfOp'
  BY DEF IInv, LinkOfOp, DownIsDown, Aside
<1> QED
  BY <1>1, <1>2, <1>3, <1>4 DEF LineInv

\* The message that leaves the line, and what the loop then does.
LEMMA LineAfterTake ==
    ASSUME IInv, TakeLine
    PROVE  LineInv'
<1> DEFINE u == wire[1].of
<1>1. /\ TypeOK /\ u \in Sensors /\ wire # << >> /\ wire' = Tail(wire) /\ msg' = wire[1]
      /\ link' = link /\ wants' = wants /\ status' = status /\ dropped' = dropped
      /\ reader = "reading" /\ (reader' # "reading" => wire[1].type = "disconnected")
      /\ op \in [Sensors -> Ops] /\ client \in [Sensors -> Clients]
  BY RouteCases DEF IInv, TypeOK, Ops, TakeLine, history
<1>2. /\ \A t \in Sensors : t # u => op'[t] = op[t]
      /\ \A t \in Sensors : client'[t].sensor_id = client[t].sensor_id
      /\ op'[u] # op[u] => /\ Answer(wire[1]) /\ op[u] \in {"connecting", "disconnecting"}
                           /\ op'[u] \in {"answered", "refused", "confirmed"}
                           /\ op'[u] # "answered" => wire[1].type = "disconnected"
  <2>1. /\ \A t \in Sensors : t # u => op'[t] = op[t]
        /\ op'[u] # op[u] => /\ Answer(wire[1]) /\ op[u] \in {"connecting", "disconnecting"}
                             /\ op'[u] \in {"answered", "refused", "confirmed"}
                             /\ op'[u] # "answered" => wire[1].type = "disconnected"
    BY <1>1, RouteCases DEF Answer
  <2>2. \A t \in Sensors : client'[t].sensor_id = client[t].sensor_id
    BY <1>1, RouteCases DEF Clients
  <2> QED
    BY <2>1, <2>2
<1>3. /\ \A k \in DOMAIN wire' : /\ k \in Nat \ {0} /\ k + 1 \in DOMAIN wire
                                 /\ wire'[k] = wire[k + 1] /\ k + 1 # 1
      /\ \A k \in DOMAIN wire : k \in Nat /\ (k > 1 => /\ k - 1 \in DOMAIN wire'
                                                       /\ wire'[k - 1] = wire[k])
      /\ 1 \in DOMAIN wire
  BY <1>1, LineTail
<1>4. \A t \in Sensors : (Down(t)' => Down(t)) /\ (OnLine(t)' => OnLine(t))
                         /\ (InHand(t)' => Down(t) /\ OnLine(t))
  BY <1>1, <1>3 DEF Down, OnLine, InHand
<1>5. Untouched'
  BY <1>1, <1>2, <1>4 DEF IInv, Untouched
<1>6. OneAnswer'
  <2> SUFFICES ASSUME NEW k \in DOMAIN wire', Answer(wire'[k])
               PROVE  /\ wants[wire'[k].of] = "nothing"
                      /\ op'[wire'[k].of] \in {"connecting", "raised"}
                             \cup (IF wire'[k].type = "connected" THEN {}
                                   ELSE {"disconnecting"})
                      /\ \A j \in DOMAIN wire' :
                            Answer(wire'[j]) /\ wire'[j].of = wire'[k].of => j = k
    BY <1>1 DEF OneAnswer, Answer
  <2>1. /\ k + 1 \in DOMAIN wire /\ wire'[k] = wire[k + 1] /\ k + 1 # 1
        /\ Answer(wire[k + 1])
    BY <1>3
  <2>2. /\ wants[wire[k + 1].of] = "nothing"
        /\ op[wire[k + 1].of] \in {"connecting", "raised"}
               \cup (IF wire[k + 1].type = "connected" THEN {} ELSE {"disconnecting"})
        /\ \A j \in DOMAIN wire : Answer(wire[j]) /\ wire[j].of = wire[k + 1].of => j = k + 1
    BY <2>1 DEF IInv, OneAnswer
  <2>3. wire[k + 1].of = u => op'[u] = op[u]
    BY <1>2, <1>3, <2>1, <2>2
  <2>4. op'[wire[k + 1].of] = op[wire[k + 1].of]
    <3>1. wire[k + 1].of \in Sensors
      BY <1>1, <2>1, MessageTypes, MessageFields
    <3> QED
      BY <3>1, <2>3, <1>2
  <2>5. \A j \in DOMAIN wire' : Answer(wire'[j]) /\ wire'[j].of = wire'[k].of => j = k
    <3>1. ASSUME NEW j \in DOMAIN wire', Answer(wire'[j]), wire'[j].of = wire'[k].of
          PROVE  j = k
      <4>1. j + 1 = k + 1
        BY <1>3, <2>1, <2>2, <3>1
      <4> QED
        BY <4>1, <1>3
    <3> QED
      BY <3>1
  <2> QED
    BY <2>1, <2>2, <2>4, <2>5
<1>7. DownIsDown'
  BY <1>1, <1>4 DEF IInv, DownIsDown
<1>8. LinkOfOp'
  <2>1. op'[u] # op[u] => op'[u] = "answered" \/ link[u] = None
    BY <1>1, <1>2, <1>3 DEF IInv, DownIsDown, Down
  <2> QED
    BY <1>1, <1>2, <2>1 DEF IInv, LinkOfOp
<1>9. EndIsBehind'
  <2> SUFFICES ASSUME NEW k \in DOMAIN wire', wire'[k].type = "connected",
                      link[wire'[k].of] = None
               PROVE  \E j \in DOMAIN wire' : k < j /\ wire'[j].of = wire'[k].of
                                              /\ wire'[j].type = "disconnected"
    BY <1>1 DEF EndIsBehind
  <2>1. k + 1 \in DOMAIN wire /\ wire'[k] = wire[k + 1] /\ k \in Nat
    BY <1>3
  <2>2. PICK j \in DOMAIN wire : k + 1 < j /\ wire[j].of = wire'[k].of
                                 /\ wire[j].type = "disconnected"
    BY <2>1 DEF IInv, EndIsBehind
  <2>3. j - 1 \in DOMAIN wire' /\ wire'[j - 1] = wire[j] /\ k < j - 1
    BY <1>3, <2>1, <2>2
  <2> QED
    BY <2>2, <2>3
<1> QED
  BY <1>5, <1>6, <1>7, <1>8, <1>9 DEF LineInv

\* A message that leaves the line and changes nothing of the loop.
LEMMA LineAfterDeliver ==
    ASSUME IInv, DeliverFrame \/ LoseMessage
    PROVE  LineInv'
<1>1. /\ TypeOK /\ wire # << >> /\ wire' = Tail(wire) /\ msg' = msg /\ reader' = reader
      /\ link' = link /\ wants' = wants /\ status' = status /\ dropped' = dropped
      /\ op' = op /\ client' = client
  BY DEF IInv, DeliverFrame, LoseMessage, loopVars, readerVars
<1>3. /\ \A k \in DOMAIN wire' : /\ k \in Nat \ {0} /\ k + 1 \in DOMAIN wire
                                 /\ wire'[k] = wire[k + 1]
      /\ \A k \in DOMAIN wire : k \in Nat /\ (k > 1 => /\ k - 1 \in DOMAIN wire'
                                                       /\ wire'[k - 1] = wire[k])
  BY <1>1, LineTail
<1>4. \A t \in Sensors : /\ Down(t)' => Down(t)
                         /\ OnLine(t)' => OnLine(t)
                         /\ InHand(t)' => InHand(t)
  BY <1>1, <1>3 DEF Down, OnLine, InHand
<1>5. Untouched'
  BY <1>1, <1>4 DEF IInv, Untouched
<1>6. OneAnswer'
  <2>1. ASSUME NEW k \in DOMAIN wire', Answer(wire'[k])
        PROVE  \A j \in DOMAIN wire' :
                   Answer(wire'[j]) /\ wire'[j].of = wire'[k].of => j = k
    <3>1. ASSUME NEW j \in DOMAIN wire', Answer(wire'[j]), wire'[j].of = wire'[k].of
          PROVE  j + 1 = k + 1
      BY <1>3, <2>1, <3>1 DEF IInv, OneAnswer
    <3> QED
      BY <3>1, <1>3
  <2> QED
    BY <1>1, <1>3, <2>1 DEF IInv, OneAnswer, Answer
<1>7. DownIsDown' /\ LinkOfOp'
  BY <1>1, <1>4 DEF IInv, DownIsDown, LinkOfOp
<1>9. EndIsBehind'
  <2> SUFFICES ASSUME NEW k \in DOMAIN wire', wire'[k].type = "connected",
                      link[wire'[k].of] = None
               PROVE  \E j \in DOMAIN wire' : k < j /\ wire'[j].of = wire'[k].of
                                              /\ wire'[j].type = "disconnected"
    BY <1>1 DEF EndIsBehind
  <2>1. k + 1 \in DOMAIN wire /\ wire'[k] = wire[k + 1] /\ k \in Nat
    BY <1>3
  <2>2. PICK j \in DOMAIN wire : k + 1 < j /\ wire[j].of = wire'[k].of
                                 /\ wire[j].type = "disconnected"
    BY <2>1 DEF IInv, EndIsBehind
  <2>3. j - 1 \in DOMAIN wire' /\ wire'[j - 1] = wire[j] /\ k < j - 1
    BY <1>3, <2>1, <2>2
  <2> QED
    BY <2>2, <2>3
<1> QED
  BY <1>5, <1>6, <1>7, <1>9 DEF LineInv

\* The line after the gateway has sent something.
LEMMA LineAfterConnects ==
    ASSUME IInv, NEW s \in Sensors, GatewayConnects(s)
    PROVE  LineInv'
<1> DEFINE end == Len(wire) + 1
<1>0. PICK i \in SensorIds :
          /\ link' = [link EXCEPT ![s] = i]
          /\ wire' = Append(wire, [type |-> "connected", of |-> s, id |-> i])
  BY DEF GatewayConnects
<1> DEFINE m == [type |-> "connected", of |-> s, id |-> i]
<1>1. /\ m \in Messages /\ wire' = Append(wire, m) /\ wants[s] = "connect"
      /\ m.type = "connected" /\ m.of = s
      /\ op' = op /\ client' = client /\ status' = status /\ msg' = msg /\ reader' = reader
      /\ dropped' = dropped
      /\ link'[s] = i /\ i # None /\ (\A t \in Sensors : t # s => link'[t] = link[t])
      /\ wants'[s] = "nothing" /\ (\A t \in Sensors : t # s => wants'[t] = wants[t])
  BY <1>0, NoneIsNoSensorId DEF Messages, GatewayConnects, IInv, TypeOK, loopVars, readerVars,
     history
<1> HIDE DEF m
<1>2. /\ DOMAIN wire' = DOMAIN wire \cup {end} /\ wire'[end] = m /\ end \in Nat
      /\ \A k \in DOMAIN wire : wire'[k] = wire[k] /\ k \in Nat /\ k < end
  BY <1>1, LineAppend DEF IInv
<1>3. \A t \in Sensors : t # s => /\ Down(t)' <=> Down(t)
                                  /\ OnLine(t)' <=> OnLine(t)
                                  /\ InHand(t)' <=> InHand(t)
  BY <1>1, <1>2 DEF Down, OnLine, InHand
<1>4. /\ op[s] \in {"connecting", "raised"} /\ ~OnLine(s) /\ ~InHand(s) /\ s \notin dropped
      /\ \A k \in DOMAIN wire : wire[k].of # s /\ wire[k].of \in Sensors
  BY <1>1, MessageTypes, MessageFields DEF IInv, FieldsOfOp, Untouched, OnLine
<1>5. Untouched'
  BY <1>1, <1>3, <1>4 DEF IInv, Untouched
<1>6. OneAnswer'
  BY <1>1, <1>2, <1>4 DEF IInv, OneAnswer, Answer
<1>7. DownIsDown'
  <2>1. ~Down(s)'
    BY <1>1, <1>2, <1>4 DEF Down, InHand
  <2> QED
    BY <2>1, <1>1, <1>3, <1>4 DEF IInv, DownIsDown
<1>8. LinkOfOp'
  BY <1>1, <1>4 DEF IInv, LinkOfOp
<1>9. EndIsBehind'
  <2> SUFFICES ASSUME NEW k \in DOMAIN wire', wire'[k].type = "connected",
                      link'[wire'[k].of] = None
               PROVE  \E j \in DOMAIN wire' : k < j /\ wire'[j].of = wire'[k].of
                                              /\ wire'[j].type = "disconnected"
    BY DEF EndIsBehind
  <2>1. CASE k # end /\ link[wire[k].of] = None
    <3>1. k \in DOMAIN wire /\ wire'[k] = wire[k]
      BY <1>2, <2>1
    <3>2. PICK j \in DOMAIN wire : k < j /\ wire[j].of = wire[k].of
                                   /\ wire[j].type = "disconnected"
      BY <2>1, <3>1 DEF IInv, EndIsBehind
    <3> QED
      BY <3>1, <3>2, <1>2
  <2>2. k # end /\ link[wire[k].of] = None
    BY <1>1, <1>2, <1>4
  <2> QED
    BY <2>1, <2>2
<1> QED
  BY <1>5, <1>6, <1>7, <1>8, <1>9 DEF LineInv

\* The link of the sensor is down, and its end is the last on the line.
LEMMA LineAfterDisconnects ==
    ASSUME IInv, NEW s \in Sensors, GatewayDisconnects(s)
    PROVE  LineInv'
<1> DEFINE end == Len(wire) + 1
<1> DEFINE m == [type |-> "disconnected", of |-> s, solicited |-> TRUE]
<1>1. /\ m \in Messages /\ wire' = Append(wire, m) /\ wants[s] # "nothing"
      /\ m.type = "disconnected" /\ m.of = s
      /\ op' = op /\ client' = client /\ status' = status /\ msg' = msg /\ reader' = reader
      /\ dropped' = dropped
      /\ link'[s] = None /\ (\A t \in Sensors : t # s => link'[t] = link[t])
      /\ wants'[s] = "nothing" /\ (\A t \in Sensors : t # s => wants'[t] = wants[t])
  BY DEF Messages, GatewayDisconnects, IInv, TypeOK, loopVars, readerVars, history
<1> HIDE DEF m
<1>2. /\ DOMAIN wire' = DOMAIN wire \cup {end} /\ wire'[end] = m /\ end \in Nat
      /\ \A k \in DOMAIN wire : wire'[k] = wire[k] /\ k \in Nat /\ k < end
  BY <1>1, LineAppend DEF IInv
<1>3. \A t \in Sensors : t # s => /\ Down(t)' <=> Down(t)
                                  /\ OnLine(t)' <=> OnLine(t)
                                  /\ InHand(t)' <=> InHand(t)
  BY <1>1, <1>2 DEF Down, OnLine, InHand
<1>4. /\ op[s] \in {"connecting", "raised", "disconnecting"}
      /\ \A k \in DOMAIN wire : /\ wire[k].of \in Sensors
                                /\ Answer(wire[k]) => wire[k].of # s
  <2>1. wants[s] \in {"connect", "disconnect"}
    BY <1>1 DEF IInv, TypeOK
  <2> QED
    BY <1>1, <2>1, MessageTypes, MessageFields DEF IInv, FieldsOfOp, OneAnswer
<1>5. Untouched'
  BY <1>1, <1>3, <1>4 DEF IInv, Untouched
<1>6. OneAnswer'
  BY <1>1, <1>2, <1>4 DEF IInv, OneAnswer, Answer
<1>7. DownIsDown'
  BY <1>1, <1>3 DEF IInv, DownIsDown
<1>8. LinkOfOp'
  BY <1>1 DEF IInv, LinkOfOp
<1>9. EndIsBehind'
  <2> SUFFICES ASSUME NEW k \in DOMAIN wire', wire'[k].type = "connected",
                      link'[wire'[k].of] = None
               PROVE  \E j \in DOMAIN wire' : k < j /\ wire'[j].of = wire'[k].of
                                              /\ wire'[j].type = "disconnected"
    BY DEF EndIsBehind
  <2>1. CASE k # end /\ link[wire[k].of] = None
    <3>1. k \in DOMAIN wire /\ wire'[k] = wire[k]
      BY <1>2, <2>1
    <3>2. PICK j \in DOMAIN wire : k < j /\ wire[j].of = wire[k].of
                                   /\ wire[j].type = "disconnected"
      BY <2>1, <3>1 DEF IInv, EndIsBehind
    <3> QED
      BY <3>1, <3>2, <1>2
  <2>2. k = end => FALSE
    BY <1>1, <1>2
  <2>3. CASE k # end /\ wire[k].of = s
    BY <1>1, <1>2, <2>3
  <2>4. k # end => wire[k].of \in Sensors /\ wire'[k] = wire[k]
    BY <1>2, <1>4
  <2> QED
    BY <1>1, <2>1, <2>2, <2>3, <2>4
<1> QED
  BY <1>5, <1>6, <1>7, <1>8, <1>9 DEF LineInv

\* So it is when the link goes down by itself, without an answer.
LEMMA LineAfterDrop ==
    ASSUME IInv, NEW s \in Sensors, LinkDrops(s)
    PROVE  LineInv'
<1> DEFINE end == Len(wire) + 1
<1> DEFINE m == [type |-> "disconnected", of |-> s, solicited |-> FALSE]
<1>1. /\ m \in Messages /\ wire' = Append(wire, m) /\ link[s] # None
      /\ m.type = "disconnected" /\ m.of = s /\ ~Answer(m)
      /\ op' = op /\ client' = client /\ status' = status /\ msg' = msg /\ reader' = reader
      /\ dropped' = dropped \cup {s} /\ wants' = wants
      /\ link'[s] = None /\ (\A t \in Sensors : t # s => link'[t] = link[t])
  BY DEF Messages, LinkDrops, IInv, TypeOK, loopVars, readerVars, Answer
<1> HIDE DEF m
<1>2. /\ DOMAIN wire' = DOMAIN wire \cup {end} /\ wire'[end] = m /\ end \in Nat
      /\ \A k \in DOMAIN wire : wire'[k] = wire[k] /\ k \in Nat /\ k < end
  BY <1>1, LineAppend DEF IInv
<1>3. \A t \in Sensors : t # s => /\ Down(t)' <=> Down(t)
                                  /\ OnLine(t)' <=> OnLine(t)
                                  /\ InHand(t)' <=> InHand(t)
  BY <1>1, <1>2 DEF Down, OnLine, InHand
<1>4. \A k \in DOMAIN wire : wire[k].of \in Sensors
  BY MessageTypes, MessageFields DEF IInv
<1>5. Untouched'
  BY <1>1, <1>3 DEF IInv, Untouched
<1>6. OneAnswer'
  BY <1>1, <1>2 DEF IInv, OneAnswer, Answer
<1>7. DownIsDown'
  BY <1>1, <1>3 DEF IInv, DownIsDown
<1>8. LinkOfOp'
  BY <1>1 DEF IInv, LinkOfOp
<1>9. EndIsBehind'
  <2> SUFFICES ASSUME NEW k \in DOMAIN wire', wire'[k].type = "connected",
                      link'[wire'[k].of] = None
               PROVE  \E j \in DOMAIN wire' : k < j /\ wire'[j].of = wire'[k].of
                                              /\ wire'[j].type = "disconnected"
    BY DEF EndIsBehind
  <2>1. CASE k # end /\ link[wire[k].of] = None
    <3>1. k \in DOMAIN wire /\ wire'[k] = wire[k]
      BY <1>2, <2>1
    <3>2. PICK j \in DOMAIN wire : k < j /\ wire[j].of = wire[k].of
                                   /\ wire[j].type = "disconnected"
      BY <2>1, <3>1 DEF IInv, EndIsBehind
    <3> QED
      BY <3>1, <3>2, <1>2
  <2>2. k = end => FALSE
    BY <1>1, <1>2
  <2>3. CASE k # end /\ wire[k].of = s
    BY <1>1, <1>2, <2>3
  <2>4. k # end => wire[k].of \in Sensors /\ wire'[k] = wire[k]
    BY <1>2, <1>4
  <2> QED
    BY <1>1, <2>1, <2>2, <2>3, <2>4
<1> QED
  BY <1>5, <1>6, <1>7, <1>8, <1>9 DEF LineInv

\* A frame is sent over a link that is up.
LEMMA LineAfterFrame ==
    ASSUME IInv, NEW s \in Sensors, SendFrame(s)
    PROVE  LineInv'
<1> DEFINE end == Len(wire) + 1
<1> DEFINE m == [type |-> "frame", of |-> s, id |-> link[s]]
<1>1. /\ m \in Messages /\ wire' = Append(wire, m) /\ link[s] # None
      /\ m.type = "frame" /\ m.of = s /\ ~Answer(m)
      /\ op' = op /\ client' = client /\ status' = status /\ msg' = msg /\ reader' = reader
      /\ dropped' = dropped /\ wants' = wants /\ link' = link
  BY DEF Messages, SendFrame, IInv, TypeOK, loopVars, readerVars, history, Answer
<1> HIDE DEF m
<1>2. /\ DOMAIN wire' = DOMAIN wire \cup {end} /\ wire'[end] = m /\ end \in Nat
      /\ \A k \in DOMAIN wire : wire'[k] = wire[k] /\ k \in Nat /\ k < end
  BY <1>1, LineAppend DEF IInv
<1>3. \A t \in Sensors : t # s => /\ Down(t)' <=> Down(t)
                                  /\ OnLine(t)' <=> OnLine(t)
                                  /\ InHand(t)' <=> InHand(t)
  BY <1>1, <1>2 DEF Down, OnLine, InHand
<1>5. Untouched'
  BY <1>1, <1>3 DEF IInv, Untouched
<1>6. OneAnswer'
  BY <1>1, <1>2 DEF IInv, OneAnswer, Answer
<1>7. DownIsDown'
  <2>1. \A t \in Sensors : Down(t)' => Down(t)
    BY <1>1, <1>2 DEF Down, InHand
  <2> QED
    BY <1>1, <2>1 DEF IInv, DownIsDown
<1>8. LinkOfOp'
  BY <1>1 DEF IInv, LinkOfOp
<1>9. EndIsBehind'
  <2> SUFFICES ASSUME NEW k \in DOMAIN wire', wire'[k].type = "connected",
                      link'[wire'[k].of] = None
               PROVE  \E j \in DOMAIN wire' : k < j /\ wire'[j].of = wire'[k].of
                                              /\ wire'[j].type = "disconnected"
    BY DEF EndIsBehind
  <2>1. CASE k # end /\ link[wire[k].of] = None
    <3>1. k \in DOMAIN wire /\ wire'[k] = wire[k]
      BY <1>2, <2>1
    <3>2. PICK j \in DOMAIN wire : k < j /\ wire[j].of = wire[k].of
                                   /\ wire[j].type = "disconnected"
      BY <2>1, <3>1 DEF IInv, EndIsBehind
    <3> QED
      BY <3>1, <3>2, <1>2
  <2>2. k # end /\ link[wire[k].of] = None
    BY <1>1, <1>2
  <2> QED
    BY <2>1, <2>2
<1> QED
  BY <1>5, <1>6, <1>7, <1>8, <1>9 DEF LineInv

-----------------------------------------------------------------------------
(* What the reader reports.                                                 *)

\* The gateway puts the end of a link on the line, and takes nothing from it.
LEMMA EndIsSent ==
    ASSUME IInv, NEW s \in Sensors,
           GatewayConnects(s) \/ GatewayDisconnects(s) \/ LinkDrops(s) \/ SendFrame(s)
    PROVE  /\ op' = op /\ client' = client /\ status' = status /\ registered' = registered
           /\ msg' = msg /\ reader' = reader /\ todo' = todo
           /\ unheard' = unheard /\ overtaken' = overtaken /\ spurious' = spurious
           /\ delivered' = delivered
           /\ \A t \in Sensors : /\ Down(t) => Down(t)'
                                 /\ link'[t] = None => link[t] = None \/ Down(t)'
<1>1. /\ op' = op /\ client' = client /\ status' = status /\ registered' = registered
      /\ msg' = msg /\ reader' = reader /\ todo' = todo
      /\ unheard' = unheard /\ overtaken' = overtaken /\ spurious' = spurious
      /\ delivered' = delivered
  BY DEF GatewayConnects, GatewayDisconnects, LinkDrops, SendFrame, loopVars, readerVars,
         history
<1>2. PICK m \in Messages : /\ wire' = Append(wire, m)
                            /\ \/ link' = link
                               \/ \E i \in SensorIds : link' = [link EXCEPT ![s] = i]
                               \/ /\ link' = [link EXCEPT ![s] = None]
                                  /\ m.type = "disconnected" /\ m.of = s
  <2>1. CASE GatewayConnects(s)
    <3>1. PICK i \in SensorIds :
              /\ link' = [link EXCEPT ![s] = i]
              /\ wire' = Append(wire, [type |-> "connected", of |-> s, id |-> i])
      BY <2>1 DEF GatewayConnects
    <3>2. [type |-> "connected", of |-> s, id |-> i] \in Messages
      BY DEF Messages
    <3> QED
      BY <3>1, <3>2
  <2>2. CASE GatewayDisconnects(s) \/ LinkDrops(s)
    <3>1. PICK b \in BOOLEAN :
              wire' = Append(wire, [type |-> "disconnected", of |-> s, solicited |-> b])
      BY <2>2 DEF GatewayDisconnects, LinkDrops
    <3>2. [type |-> "disconnected", of |-> s, solicited |-> b] \in Messages
      BY DEF Messages
    <3>3. link' = [link EXCEPT ![s] = None]
      BY <2>2 DEF GatewayDisconnects, LinkDrops
    <3> QED
      BY <3>1, <3>2, <3>3
  <2>3. CASE SendFrame(s)
    <3>1. [type |-> "frame", of |-> s, id |-> link[s]] \in Messages
      BY <2>3 DEF Messages, SendFrame, IInv, TypeOK
    <3> QED
      BY <2>3, <3>1 DEF SendFrame
  <2> QED
    BY <2>1, <2>2, <2>3
<1>3. /\ DOMAIN wire' = DOMAIN wire \cup {Len(wire) + 1} /\ wire'[Len(wire) + 1] = m
      /\ \A k \in DOMAIN wire : wire'[k] = wire[k]
  BY <1>2, LineAppend DEF IInv
<1>4. \A t \in Sensors : Down(t) => Down(t)'
  BY <1>1, <1>3 DEF Down, InHand
<1>5. ASSUME NEW t \in Sensors, link'[t] = None, link[t] # None
      PROVE  Down(t)'
  <2>1. t = s /\ m.type = "disconnected" /\ m.of = s
    BY <1>2, <1>5, NoneIsNoSensorId DEF IInv, TypeOK
  <2> QED
    BY <2>1, <1>3 DEF Down
<1> QED
  BY <1>1, <1>4, <1>5

ReportInv == DownIsReported /\ ReaderHolds

\* An operation of the loop marks a sensor connected only with its end behind it.
LEMMA ReportAfterLoop ==
    ASSUME IInv, NEW s \in Sensors, LoopMove(s)
    PROVE  ReportInv'
<1>1. DownIsReported'
  <2>1. \A t \in Sensors : Down(t)' <=> Down(t)
    BY DEF LoopMove, LineKept, Down, InHand
  <2> QED
    BY <2>1 DEF IInv, DownIsReported, FieldsOfOp, LoopMove, Goes, LineKept, OthersKept, Leaving
<1>2. ReaderHolds'
  <2>1. msg.of \in Sensors /\ spurious \subseteq Sensors
    BY MessageTypes, MessageFields DEF IInv, TypeOK
  <2> QED
    BY <2>1 DEF IInv, ReaderHolds, LoopMove, Goes, LineKept, OthersKept
<1> QED
  BY <1>1, <1>2 DEF ReportInv

\* A client that the reader no longer finds was forgotten by the loop.
LEMMA ReportAfterFetch ==
    ASSUME IInv, FetchClient
    PROVE  ReportInv'
<1>1. /\ op' = op /\ status' = status /\ wire' = wire /\ msg' = msg /\ link' = link
      /\ unheard' = unheard /\ overtaken' = overtaken /\ spurious' = spurious
      /\ reader = "routed" /\ reader' = IF msg.of \in registered THEN "fetched" ELSE "reading"
  BY DEF FetchClient, loopVars, gatewayVars, history
<1>2. DownIsReported'
  <2>1. \A t \in Sensors : Down(t) => Down(t)' \/ op[t] \in {"forgotten", "gone"}
    BY <1>1 DEF Down, InHand, IInv, FieldsOfOp
  <2> QED
    BY <1>1, <2>1 DEF IInv, DownIsReported, FieldsOfOp, Leaving
<1>3. ReaderHolds'
  BY <1>1 DEF IInv, ReaderHolds
<1> QED
  BY <1>2, <1>3 DEF ReportInv

\* An event is held back only while the loop disconnects the sensor.
LEMMA ReportAfterCheck ==
    ASSUME IInv, CheckSuppress
    PROVE  ReportInv'
<1>1. /\ op' = op /\ status' = status /\ wire' = wire /\ msg' = msg /\ link' = link
      /\ unheard' = unheard /\ overtaken' = overtaken /\ spurious' = spurious
      /\ reader = "fetched"
      /\ reader' = IF client[msg.of].suppress THEN "reading" ELSE "passed"
  BY DEF CheckSuppress, loopVars, gatewayVars, history
<1>2. msg.of \in Sensors /\ (client[msg.of].suppress <=> op[msg.of] \in Leaving)
  BY MessageTypes, MessageFields DEF IInv, FieldsOfOp
<1>3. DownIsReported'
  <2>1. \A t \in Sensors : Down(t) => Down(t)' \/ op[t] \in Leaving
    BY <1>1, <1>2 DEF Down, InHand
  <2> QED
    BY <1>1, <2>1 DEF IInv, DownIsReported, Leaving
<1>4. ReaderHolds'
  BY <1>1, <1>2 DEF IInv, ReaderHolds, Leaving
<1> QED
  BY <1>3, <1>4 DEF ReportInv

\* The end is reported: the status is right, or it was overtaken.
LEMMA ReportAfterReport ==
    ASSUME IInv, ReportDisconnect
    PROVE  ReportInv'
<1>1. /\ op' = op /\ wire' = wire /\ msg' = msg /\ link' = link
      /\ reader = "passed" /\ reader' = "reading"
      /\ overtaken \subseteq overtaken' /\ unheard' = unheard
      /\ op[msg.of] \in {"answered", "linked"} => msg.of \in overtaken'
      /\ spurious' = IF msg.solicited THEN spurious \cup {msg.of} ELSE spurious
  BY DEF ReportDisconnect, loopVars, gatewayVars
<1>2. /\ msg.of \in Sensors /\ status'[msg.of] = "disconnected"
      /\ \A t \in Sensors : t # msg.of => status'[t] = status[t]
  BY MessageTypes, MessageFields DEF IInv, TypeOK, ReportDisconnect
<1>3. DownIsReported'
  <2>1. \A t \in Sensors : t # msg.of => (Down(t) => Down(t)')
    BY <1>1 DEF Down, InHand
  <2> QED
    BY <1>1, <1>2, <2>1 DEF IInv, DownIsReported
<1>4. ReaderHolds'
  BY <1>1 DEF IInv, ReaderHolds
<1> QED
  BY <1>3, <1>4 DEF ReportInv

\* The end of a link goes from the line to the hand of the reader.
LEMMA ReportAfterTake ==
    ASSUME IInv, TakeLine
    PROVE  ReportInv'
<1>0. PICK u \in Sensors : u = wire[1].of
  BY RouteCases DEF IInv
<1>1. /\ TypeOK /\ u \in Sensors /\ wire # << >> /\ wire' = Tail(wire) /\ msg' = wire[1]
      /\ link' = link /\ status' = status
      /\ unheard' = unheard /\ overtaken' = overtaken /\ spurious' = spurious
      /\ wire[1].type \in {"connected", "disconnected"} /\ reader = "reading"
      /\ reader' = IF wire[1].type = "disconnected" THEN "routed" ELSE "reading"
      /\ op \in [Sensors -> Ops]
  BY <1>0, RouteCases DEF IInv, TypeOK, Ops, TakeLine, history
<1>2. /\ \A t \in Sensors : t # u => op'[t] = op[t]
      /\ \/ wire[1].type = "connected" /\ op[u] = "connecting" /\ op'[u] = "answered"
         \/ /\ wire[1].type = "disconnected" /\ wire[1].solicited
            /\ \/ op[u] = "connecting" /\ op'[u] = "refused"
               \/ op[u] = "disconnecting" /\ op'[u] = "confirmed"
         \/ /\ op'[u] = op[u]
            /\ wire[1].type = "disconnected" /\ wire[1].solicited =>
                  op[u] \notin {"connecting", "disconnecting"}
  BY <1>0, <1>1, RouteCases
<1>3. /\ \A k \in DOMAIN wire : k \in Nat /\ (k > 1 => /\ k - 1 \in DOMAIN wire'
                                                       /\ wire'[k - 1] = wire[k])
      /\ 1 \in DOMAIN wire
  BY <1>1, LineTail
<1>4. DownIsReported'
  <2>1. ASSUME NEW t \in Sensors, NEW k \in DOMAIN wire, k > 1, wire[k].of = t,
               wire[k].type = "disconnected"
        PROVE  Down(t)'
    BY <1>3, <2>1 DEF Down
  <2>2. wire[1].type = "disconnected" => Down(u)'
    BY <1>0, <1>1 DEF Down, InHand
  <2>3. \A k \in DOMAIN wire : k = 1 \/ k > 1
    <3>1. \A k \in DOMAIN wire : k \in Nat \ {0}
      BY <1>1 DEF TypeOK
    <3> QED
      BY <3>1
  <2>4. \A t \in Sensors : Down(t) => Down(t)'
    BY <1>0, <1>1, <2>1, <2>2, <2>3 DEF Down, InHand
  <2>5. wire[1].type = "connected" /\ link[u] = None => Down(u)'
    <3> SUFFICES ASSUME wire[1].type = "connected", link[u] = None
                 PROVE  Down(u)'
      OBVIOUS
    <3>1. PICK k \in DOMAIN wire : 1 < k /\ wire[k].of = u /\ wire[k].type = "disconnected"
      BY <1>0, <1>3 DEF IInv, EndIsBehind
    <3>2. k > 1
      BY <3>1, <1>3
    <3> QED
      BY <1>1, <2>1, <3>1, <3>2
  <2>6. status[u] = "connected" => op[u] # "connecting"
    BY <1>1 DEF IInv, FieldsOfOp, Leaving
  <2> QED
    BY <1>0, <1>1, <1>2, <2>4, <2>5, <2>6 DEF IInv, DownIsReported, Leaving
<1>5. ReaderHolds'
  <2>1. wire[1].type = "disconnected" /\ wire[1].solicited =>
           op[u] \in {"connecting", "raised", "disconnecting"}
    BY <1>0, <1>3 DEF IInv, OneAnswer, Answer
  <2>2. \A s \in spurious : s \in Sensors
    BY <1>1 DEF TypeOK
  <2> QED
    BY <1>0, <1>1, <1>2, <2>1, <2>2 DEF IInv, ReaderHolds
<1> QED
  BY <1>4, <1>5 DEF ReportInv

\* A frame is no end of a link.
LEMMA ReportAfterDeliver ==
    ASSUME IInv, DeliverFrame
    PROVE  ReportInv'
<1>1. /\ TypeOK /\ wire # << >> /\ wire' = Tail(wire) /\ msg' = msg /\ reader' = reader
      /\ link' = link /\ status' = status /\ op' = op
      /\ unheard' = unheard /\ overtaken' = overtaken /\ spurious' = spurious
      /\ Head(wire).type = "frame"
  BY DEF IInv, DeliverFrame, loopVars, readerVars
<1>2. /\ \A k \in DOMAIN wire : k \in Nat \ {0}
      /\ \A k \in DOMAIN wire : k > 1 => /\ k - 1 \in DOMAIN wire'
                                         /\ wire'[k - 1] = wire[k]
      /\ wire[1].type = "frame"
  BY <1>1, LineTail DEF TypeOK
<1>3. \A t \in Sensors : Down(t) => Down(t)'
  <2>1. ASSUME NEW k \in DOMAIN wire, wire[k].type = "disconnected"
        PROVE  k - 1 \in DOMAIN wire' /\ wire'[k - 1] = wire[k]
    <3>1. k \in Nat \ {0} /\ k # 1
      BY <1>2, <2>1
    <3> QED
      BY <1>2, <3>1
  <2> QED
    BY <1>1, <2>1 DEF Down, InHand
<1>4. DownIsReported'
  BY <1>1, <1>3 DEF IInv, DownIsReported
<1>5. ReaderHolds'
  BY <1>1 DEF IInv, ReaderHolds
<1> QED
  BY <1>4, <1>5 DEF ReportInv

\* The end of a link that is lost was not reported, or nobody took it to be connected.
LEMMA ReportAfterLose ==
    ASSUME IInv, LoseMessage
    PROVE  ReportInv'
<1>1. /\ TypeOK /\ wire # << >> /\ wire' = Tail(wire) /\ msg' = msg /\ reader' = reader
      /\ link' = link /\ status' = status /\ op' = op
      /\ overtaken' = overtaken /\ spurious' = spurious
      /\ unheard \subseteq unheard'
      /\ Head(wire).type = "disconnected" /\ ~Head(wire).solicited => Head(wire).of \in unheard'
  BY DEF IInv, LoseMessage, loopVars, readerVars
<1>2. /\ \A k \in DOMAIN wire : k \in Nat \ {0}
      /\ \A k \in DOMAIN wire : k > 1 => /\ k - 1 \in DOMAIN wire'
                                         /\ wire'[k - 1] = wire[k]
      /\ 1 \in DOMAIN wire /\ Head(wire) = wire[1]
  BY <1>1, LineTail DEF TypeOK
<1>3. ASSUME NEW t \in Sensors, Down(t), ~Down(t)'
      PROVE  t = wire[1].of /\ wire[1].type = "disconnected"
  <2>1. PICK k \in DOMAIN wire : wire[k].of = t /\ wire[k].type = "disconnected"
    BY <1>1, <1>3 DEF Down, InHand
  <2>2. k = 1 \/ k > 1
    BY <1>2
  <2>3. ~(k > 1)
    BY <1>2, <1>3, <2>1 DEF Down
  <2> QED
    BY <2>1, <2>2, <2>3
<1>4. ASSUME NEW t \in Sensors, t = wire[1].of, wire[1].type = "disconnected", wire[1].solicited
      PROVE  /\ op[t] \in {"connecting", "raised", "disconnecting"}
             /\ status[t] = "connected" => op[t] \in Leaving \cup {"connected", "raised"}
  BY <1>2, <1>4 DEF IInv, OneAnswer, Answer, FieldsOfOp
<1>5. DownIsReported'
  <2> SUFFICES ASSUME NEW t \in Sensors, link[t] = None,
                      \/ op[t] \in {"answered", "linked"}
                      \/ status[t] = "connected" /\ op[t] \notin Leaving \cup {"raised"},
                      ~Down(t)'
               PROVE  t \in overtaken \cup unheard'
    BY <1>1 DEF DownIsReported
  <2>1. t \in overtaken \cup unheard \/ Down(t)
    BY DEF IInv, DownIsReported
  <2>2. CASE Down(t)
    <3>1. t = wire[1].of /\ wire[1].type = "disconnected"
      BY <1>3, <2>2
    <3>2. ~wire[1].solicited
      BY <1>4, <3>1 DEF Leaving
    <3> QED
      BY <1>1, <1>2, <3>1, <3>2
  <2> QED
    BY <1>1, <2>1, <2>2
<1>6. ReaderHolds'
  BY <1>1 DEF IInv, ReaderHolds
<1> QED
  BY <1>5, <1>6 DEF ReportInv

\* The gateway sends the end of each link that it takes down.
LEMMA ReportAfterGateway ==
    ASSUME IInv, NEW s \in Sensors,
           GatewayConnects(s) \/ GatewayDisconnects(s) \/ LinkDrops(s) \/ SendFrame(s)
    PROVE  ReportInv'
<1>1. DownIsReported'
  BY EndIsSent DEF IInv, DownIsReported
<1>2. ReaderHolds'
  BY EndIsSent DEF IInv, ReaderHolds
<1> QED
  BY <1>1, <1>2 DEF ReportInv

-----------------------------------------------------------------------------
(* The ids.                                                                 *)

IdInv == IdIsOfLink /\ IdIsOwn /\ FrameIsOwn /\ FrameReachesItsSensor

\* The loop takes over the id of the answer, and forgets it after the disconnect.
LEMMA IdsAfterLoop ==
    ASSUME IInv, NEW s \in Sensors, LoopMove(s)
    PROVE  IdInv'
<1>1. wire' = wire /\ link' = link /\ dropped' = dropped /\ delivered' = delivered
  BY DEF LoopMove, LineKept
<1>2. \A t \in Sensors : \A i \in SensorIds :
         Heard(t, i)' => Heard(t, i) /\ (t = s => op'[s] # "forgotten")
  <2>1. ASSUME NEW i \in SensorIds, Heard(s, i)'
        PROVE  Heard(s, i) /\ op'[s] # "forgotten"
    BY <2>1, NoneIsNoSensorId DEF Heard, LoopMove, Goes
  <2>2. ASSUME NEW t \in Sensors, t # s, NEW i \in SensorIds, Heard(t, i)'
        PROVE  Heard(t, i)
    BY <2>2 DEF Heard, LoopMove, OthersKept
  <2> QED
    BY <2>1, <2>2
<1>3. \A t \in Sensors : \A i \in SensorIds :
         Knows(t, i)' => Knows(t, i) /\ (t = s => op'[s] # "forgotten")
  <2>1. ASSUME NEW j \in DOMAIN wire, wire[j].type = "connected", wire[j].of = s
        PROVE  op'[s] # "forgotten"
    <3>1. op[s] \in {"connecting", "raised"}
      BY <2>1 DEF IInv, OneAnswer, Answer
    <3> QED
      BY <3>1 DEF LoopMove, Goes
  <2> QED
    BY <1>1, <1>2, <2>1 DEF Knows, Sent
<1>4. IdIsOfLink'
  <2> SUFFICES ASSUME NEW t \in Sensors \ dropped, NEW i \in SensorIds, Knows(t, i)',
                      link[t] # i
               PROVE  link[t] = None /\ op'[t] \in {"disconnecting", "confirmed", "raised"}
    BY <1>1 DEF IdIsOfLink
  <2>1. link[t] = None /\ op[t] \in {"disconnecting", "confirmed", "raised"}
    BY <1>3 DEF IInv, IdIsOfLink
  <2>2. t = s => op'[s] # "forgotten"
    BY <1>3
  <2> QED
    BY <2>1, <2>2 DEF LoopMove, Goes, OthersKept
<1>5. IdIsOwn'
  BY <1>1, <1>3 DEF IInv, IdIsOwn
<1>6. FrameIsOwn'
  <2> SUFFICES ASSUME NEW k \in DOMAIN wire, wire[k].type = "frame",
                      NEW t \in Sensors \ dropped, NEW i, i = wire[k].id, Told(t, i, k)'
               PROVE  t = wire[k].of
    BY <1>1 DEF FrameIsOwn, Told, Heard, Sent
  <2>1. i \in SensorIds
    BY MessageTypes, MessageFields DEF IInv
  <2>2. Told(t, i, k)
    BY <1>1, <1>2, <2>1 DEF Told, Sent
  <2> QED
    BY <2>2 DEF IInv, FrameIsOwn
<1>7. FrameReachesItsSensor'
  BY <1>1 DEF IInv, FrameReachesItsSensor
<1> QED
  BY <1>4, <1>5, <1>6, <1>7 DEF IdInv

\* A step aside leaves the ids alone.
LEMMA IdsAfterAside ==
    ASSUME IInv, Aside
    PROVE  IdInv'
<1>1. /\ wire' = wire /\ link' = link /\ dropped' = dropped /\ delivered' = delivered
      /\ op' = op
  BY DEF Aside
<1>2. \A t \in Sensors : \A i : Heard(t, i)' => Heard(t, i)
  BY DEF Aside, Heard
<1>3. \A t \in Sensors : \A i : Knows(t, i)' => Knows(t, i)
  BY <1>1, <1>2 DEF Knows, Sent
<1>4. IdIsOfLink' /\ IdIsOwn'
  BY <1>1, <1>3 DEF IInv, IdIsOfLink, IdIsOwn
<1>5. FrameIsOwn'
  <2> SUFFICES ASSUME NEW k \in DOMAIN wire, wire[k].type = "frame",
                      NEW t \in Sensors \ dropped, NEW i, i = wire[k].id, Told(t, i, k)'
               PROVE  t = wire[k].of
    BY <1>1 DEF FrameIsOwn, Told, Heard, Sent
  <2>1. Told(t, i, k)
    BY <1>1, <1>2 DEF Told, Sent
  <2> QED
    BY <2>1 DEF IInv, FrameIsOwn
<1>6. FrameReachesItsSensor'
  BY <1>1 DEF IInv, FrameReachesItsSensor
<1> QED
  BY <1>4, <1>5, <1>6 DEF IdInv

\* What is known after the first message left the line was known before: the id of a
\* connection goes from the line to the answer of the request.
LEMMA KnownBeforeTail ==
    ASSUME IInv, wire # << >>, wire' = Tail(wire),
           \A t \in Sensors : \A i : Heard(t, i)' => Heard(t, i) \/ Sent(1, t, i)
    PROVE  /\ \A t \in Sensors : \A i : Knows(t, i)' => Knows(t, i)
           /\ \A t \in Sensors : \A i : \A k \in DOMAIN wire' :
                 /\ k + 1 \in DOMAIN wire /\ wire'[k] = wire[k + 1]
                 /\ Told(t, i, k)' => Told(t, i, k + 1)
<1>1. /\ \A k \in DOMAIN wire' : /\ k \in Nat \ {0} /\ k + 1 \in DOMAIN wire
                                 /\ wire'[k] = wire[k + 1]
      /\ 1 \in DOMAIN wire
  BY LineTail DEF IInv
<1>2. \A t \in Sensors : \A i : Knows(t, i)' => Knows(t, i)
  BY <1>1 DEF Knows, Sent
<1>3. ASSUME NEW t \in Sensors, NEW i, NEW k \in DOMAIN wire', Told(t, i, k)'
      PROVE  Told(t, i, k + 1)
  <2>1. CASE Heard(t, i)'
    <3>1. 1 < k + 1
      BY <1>1
    <3> QED
      BY <2>1, <3>1, <1>1 DEF Told
  <2>2. ASSUME NEW j \in DOMAIN wire', j < k, Sent(j, t, i)'
        PROVE  Told(t, i, k + 1)
    <3>1. j + 1 \in DOMAIN wire /\ Sent(j + 1, t, i) /\ j + 1 < k + 1
      BY <1>1, <2>2 DEF Sent
    <3> QED
      BY <3>1 DEF Told
  <2> QED
    BY <1>3, <2>1, <2>2 DEF Told
<1> QED
  BY <1>1, <1>2, <1>3

\* A frame that moves up stays behind the same messages.
LEMMA FramesAfterTail ==
    ASSUME IInv, wire # << >>, wire' = Tail(wire), dropped' = dropped,
           \A t \in Sensors : \A i : Heard(t, i)' => Heard(t, i) \/ Sent(1, t, i)
    PROVE  FrameIsOwn'
<1> SUFFICES ASSUME NEW k \in DOMAIN wire', wire'[k].type = "frame",
                    NEW t \in Sensors \ dropped, NEW i, i = wire'[k].id, Told(t, i, k)'
             PROVE  t = wire'[k].of
  BY DEF FrameIsOwn, Told, Heard, Sent
<1>1. k + 1 \in DOMAIN wire /\ wire'[k] = wire[k + 1] /\ Told(t, i, k + 1)
  BY KnownBeforeTail
<1> QED
  BY <1>1 DEF IInv, FrameIsOwn

\* The id of a connection that leaves the line is in the answer, or not wanted.
LEMMA IdsAfterTake ==
    ASSUME IInv, TakeLine
    PROVE  IdInv'
<1>0. PICK u \in Sensors : u = wire[1].of
  BY RouteCases DEF IInv
<1>1. /\ TypeOK /\ wire # << >> /\ wire' = Tail(wire)
      /\ link' = link /\ dropped' = dropped /\ delivered' = delivered
      /\ op \in [Sensors -> Ops] /\ client \in [Sensors -> Clients]
  BY <1>0, RouteCases DEF IInv, TypeOK, Ops, TakeLine, history
<1>2. /\ \A t \in Sensors : t # u => op'[t] = op[t] /\ client'[t] = client[t]
      /\ \/ /\ wire[1].type = "connected" /\ op[u] = "connecting" /\ op'[u] = "answered"
            /\ client' = [client EXCEPT ![u].answer = wire[1].id]
         \/ op[u] = "connecting" /\ op'[u] = "refused" /\ client' = client
         \/ op[u] = "disconnecting" /\ op'[u] = "confirmed" /\ client' = client
         \/ op' = op /\ client' = client
  BY <1>0, <1>1, RouteCases
<1>3. /\ client'[u].sensor_id = client[u].sensor_id
      /\ \/ /\ wire[1].type = "connected" /\ client'[u].answer = wire[1].id
         \/ client' = client /\ (op'[u] = "answered" => op[u] = "answered")
  BY <1>1, <1>2 DEF Clients
<1>4. \A t \in Sensors : \A i : Heard(t, i)' => Heard(t, i) \/ Sent(1, t, i)
  <2>1. ASSUME NEW i, Heard(u, i)'
        PROVE  Heard(u, i) \/ Sent(1, u, i)
    BY <1>0, <1>3, <2>1 DEF Heard, Sent
  <2>2. ASSUME NEW t \in Sensors, t # u, NEW i, Heard(t, i)'
        PROVE  Heard(t, i)
    BY <1>2, <2>2 DEF Heard
  <2> QED
    BY <2>1, <2>2
<1>5. \A t \in Sensors : \A i : Knows(t, i)' => Knows(t, i)
  BY <1>1, <1>4, KnownBeforeTail
<1>6. IdIsOfLink'
  <2>1. \A t \in Sensors : op[t] \in {"disconnecting", "confirmed", "raised"} =>
                               op'[t] \in {"disconnecting", "confirmed", "raised"}
    BY <1>2
  <2> QED
    BY <1>1, <1>5, <2>1 DEF IInv, IdIsOfLink
<1>7. IdIsOwn'
  BY <1>1, <1>5 DEF IInv, IdIsOwn
<1>8. FrameIsOwn'
  BY <1>1, <1>4, FramesAfterTail
<1>9. FrameReachesItsSensor'
  BY <1>1 DEF IInv, FrameReachesItsSensor
<1> QED
  BY <1>6, <1>7, <1>8, <1>9 DEF IdInv

\* The frame that leaves the line reaches the sensor that sent it.
LEMMA IdsAfterDeliver ==
    ASSUME IInv, DeliverFrame
    PROVE  IdInv'
<1>1. /\ TypeOK /\ wire # << >> /\ wire' = Tail(wire)
      /\ link' = link /\ dropped' = dropped /\ op' = op /\ client' = client
      /\ Head(wire).type = "frame"
  BY DEF IInv, DeliverFrame, loopVars, readerVars
<1>2. \A t \in Sensors : \A i : Heard(t, i)' => Heard(t, i) \/ Sent(1, t, i)
  BY <1>1 DEF Heard
<1>3. \A t \in Sensors : \A i : Knows(t, i)' => Knows(t, i)
  BY <1>1, <1>2, KnownBeforeTail
<1>4. IdIsOfLink' /\ IdIsOwn'
  BY <1>1, <1>3 DEF IInv, IdIsOfLink, IdIsOwn
<1>5. FrameIsOwn'
  BY <1>1, <1>2, FramesAfterTail
<1>6. FrameReachesItsSensor'
  <2>1. 1 \in DOMAIN wire /\ Head(wire) = wire[1]
    BY <1>1, LineTail
  <2>2. ASSUME NEW t \in Sensors, client[t].sensor_id = wire[1].id
        PROVE  t = wire[1].of \/ t \in dropped
    <3>1. Told(t, wire[1].id, 1)
      BY <2>2 DEF Told, Heard
    <3> QED
      BY <3>1, <1>1, <2>1 DEF IInv, FrameIsOwn
  <2>3. \A t \in Candidates(wire[1].id) : t \in Sensors /\ client[t].sensor_id = wire[1].id
    BY <1>1 DEF Candidates, TypeOK
  <2>4. \A pair \in delivered' \ delivered :
           \E t \in Candidates(wire[1].id) : pair = <<wire[1].of, t>>
    BY <2>1 DEF DeliverFrame
  <2>5. \A pair \in delivered' \ delivered : pair[1] = pair[2] \/ pair[2] \in dropped
    BY <2>2, <2>3, <2>4
  <2> QED
    BY <1>1, <2>5 DEF IInv, FrameReachesItsSensor
<1> QED
  BY <1>4, <1>5, <1>6 DEF IdInv

\* A message that is lost tells the adapter no id.
LEMMA IdsAfterLose ==
    ASSUME IInv, LoseMessage
    PROVE  IdInv'
<1>1. /\ wire # << >> /\ wire' = Tail(wire) /\ delivered' = delivered
      /\ link' = link /\ dropped' = dropped /\ op' = op /\ client' = client
  BY DEF LoseMessage, loopVars, readerVars
<1>2. \A t \in Sensors : \A i : Heard(t, i)' => Heard(t, i) \/ Sent(1, t, i)
  BY <1>1 DEF Heard
<1>3. \A t \in Sensors : \A i : Knows(t, i)' => Knows(t, i)
  BY <1>1, <1>2, KnownBeforeTail
<1>4. IdIsOfLink' /\ IdIsOwn'
  BY <1>1, <1>3 DEF IInv, IdIsOfLink, IdIsOwn
<1>5. FrameIsOwn'
  BY <1>1, <1>2, FramesAfterTail
<1>6. FrameReachesItsSensor'
  BY <1>1 DEF IInv, FrameReachesItsSensor
<1> QED
  BY <1>4, <1>5, <1>6 DEF IdInv

\* The gateway gives out an id that no link has.
LEMMA IdsAfterConnects ==
    ASSUME IInv, NEW s \in Sensors, GatewayConnects(s)
    PROVE  IdInv'
<1> DEFINE end == Len(wire) + 1
<1>0. PICK i0 \in SensorIds :
          /\ \A t \in Sensors : link[t] # i0
          /\ link' = [link EXCEPT ![s] = i0]
          /\ wire' = Append(wire, [type |-> "connected", of |-> s, id |-> i0])
  BY DEF GatewayConnects
<1> DEFINE m == [type |-> "connected", of |-> s, id |-> i0]
<1>1. /\ m \in Messages /\ wire' = Append(wire, m) /\ wants[s] = "connect"
      /\ m.type = "connected" /\ m.of = s /\ m.id = i0
      /\ op' = op /\ client' = client /\ delivered' = delivered
      /\ dropped' = dropped
      /\ link'[s] = i0 /\ (\A t \in Sensors : t # s => link'[t] = link[t])
  BY <1>0 DEF Messages, GatewayConnects, IInv, TypeOK, loopVars, readerVars, history
<1> HIDE DEF m
<1>2. /\ DOMAIN wire' = DOMAIN wire \cup {end} /\ wire'[end] = m /\ end \in Nat
      /\ \A k \in DOMAIN wire : wire'[k] = wire[k] /\ k \in Nat /\ k < end
  BY <1>1, LineAppend DEF IInv
<1>3. \A t \in Sensors : \A i : Heard(t, i)' <=> Heard(t, i)
  BY <1>1 DEF Heard
<1>4. /\ op[s] \in {"connecting", "raised"}
      /\ \A i \in SensorIds : ~Knows(s, i)
  <2>1. op[s] \in {"connecting", "raised"}
    BY <1>1 DEF IInv, FieldsOfOp
  <2>2. client[s].sensor_id = None /\ ~OnLine(s)
    BY <1>1 DEF IInv, Untouched
  <2> QED
    BY <2>1, <2>2, NoneIsNoSensorId DEF Knows, Heard, Sent, OnLine
<1>5. ASSUME NEW k \in DOMAIN wire, NEW t \in Sensors, NEW i, Told(t, i, k)'
      PROVE  Told(t, i, k)
  <2>1. \A j \in DOMAIN wire' : j < k => j # end
    BY <1>2
  <2> QED
    BY <1>2, <1>3, <1>5, <2>1 DEF Told, Sent
<1>10. \A t \in Sensors : \A i : Knows(t, i)' => Knows(t, i) \/ (t = s /\ i = i0)
  BY <1>1, <1>2, <1>3 DEF Knows, Sent
<1>6. IdIsOfLink'
  <2> SUFFICES ASSUME NEW t \in Sensors \ dropped, NEW i \in SensorIds, Knows(t, i)'
               PROVE  \/ link'[t] = i
                      \/ link'[t] = None /\ op[t] \in {"disconnecting", "confirmed", "raised"}
    BY <1>1 DEF IdIsOfLink
  <2> QED
    BY <1>1, <1>4, <1>10 DEF IInv, IdIsOfLink
<1>7. IdIsOwn'
  <2> SUFFICES ASSUME NEW t \in Sensors \ dropped, NEW i \in SensorIds, Knows(t, i)',
                      NEW u \in Sensors, link'[u] = i
               PROVE  u = t
    BY <1>1 DEF IdIsOwn
  <2>1. CASE t = s /\ i = i0
    BY <1>0, <1>1, <2>1
  <2>2. CASE Knows(t, i) /\ u # s
    BY <1>1, <2>2 DEF IInv, IdIsOwn
  <2>3. CASE Knows(t, i) /\ u = s
    <3>1. link[t] # i
      BY <1>0, <1>1, <2>3
    <3>2. op[t] \in {"disconnecting", "confirmed", "raised"}
      BY <2>3, <3>1 DEF IInv, IdIsOfLink
    <3> QED
      BY <1>4, <2>3, <3>2 DEF IInv, OneAtATime, Busy
  <2> QED
    BY <1>10, <2>1, <2>2, <2>3
<1>8. FrameIsOwn'
  <2> SUFFICES ASSUME NEW k \in DOMAIN wire', wire'[k].type = "frame",
                      NEW t \in Sensors \ dropped', NEW i, i = wire'[k].id, Told(t, i, k)'
               PROVE  t = wire'[k].of
    BY DEF FrameIsOwn, Told, Heard, Sent
  <2>1. k \in DOMAIN wire /\ wire'[k] = wire[k]
    BY <1>1, <1>2
  <2>2. Told(t, i, k)
    BY <1>5, <2>1
  <2> QED
    BY <1>1, <2>1, <2>2 DEF IInv, FrameIsOwn
<1>9. FrameReachesItsSensor'
  BY <1>1 DEF IInv, FrameReachesItsSensor
<1> QED
  BY <1>6, <1>7, <1>8, <1>9 DEF IdInv

\* A link that was asked to end leaves its id to a client about to forget it.
LEMMA IdsAfterDisconnects ==
    ASSUME IInv, NEW s \in Sensors, GatewayDisconnects(s)
    PROVE  IdInv'
<1> DEFINE end == Len(wire) + 1
<1> DEFINE m == [type |-> "disconnected", of |-> s, solicited |-> TRUE]
<1>1. /\ m \in Messages /\ wire' = Append(wire, m) /\ wants[s] # "nothing"
      /\ m.type = "disconnected"
      /\ op' = op /\ client' = client /\ delivered' = delivered
      /\ dropped' = dropped
      /\ link'[s] = None /\ (\A t \in Sensors : t # s => link'[t] = link[t])
  BY DEF Messages, GatewayDisconnects, IInv, TypeOK, loopVars, readerVars, history
<1> HIDE DEF m
<1>2. /\ DOMAIN wire' = DOMAIN wire \cup {end} /\ wire'[end] = m /\ end \in Nat
      /\ \A k \in DOMAIN wire : wire'[k] = wire[k] /\ k \in Nat /\ k < end
  BY <1>1, LineAppend DEF IInv
<1>3. \A t \in Sensors : \A i : Heard(t, i)' <=> Heard(t, i)
  BY <1>1 DEF Heard
<1>4. \A t \in Sensors : \A i : Knows(t, i)' => Knows(t, i)
  BY <1>1, <1>2, <1>3 DEF Knows, Sent
<1>5. ASSUME NEW k \in DOMAIN wire, NEW t \in Sensors, NEW i, Told(t, i, k)'
      PROVE  Told(t, i, k)
  <2>1. \A j \in DOMAIN wire' : j < k => j # end
    BY <1>2
  <2> QED
    BY <1>2, <1>3, <1>5, <2>1 DEF Told, Sent
<1>10. (\E i \in SensorIds : Knows(s, i)) => op[s] \in {"disconnecting", "raised"}
  <2>1. CASE wants[s] = "connect"
    <3>1. op[s] # "answered" /\ client[s].sensor_id = None /\ ~OnLine(s)
      BY <2>1 DEF IInv, FieldsOfOp, Untouched
    <3> QED
      BY <3>1, NoneIsNoSensorId DEF Knows, Heard, Sent, OnLine
  <2>2. CASE wants[s] = "disconnect"
    BY <2>2 DEF IInv, FieldsOfOp
  <2> QED
    BY <1>1, <2>1, <2>2 DEF IInv, TypeOK
<1>6. IdIsOfLink'
  BY <1>1, <1>4, <1>10 DEF IInv, IdIsOfLink
<1>7. IdIsOwn'
  BY <1>1, <1>4, NoneIsNoSensorId DEF IInv, IdIsOwn
<1>8. FrameIsOwn'
  <2> SUFFICES ASSUME NEW k \in DOMAIN wire', wire'[k].type = "frame",
                      NEW t \in Sensors \ dropped', NEW i, i = wire'[k].id, Told(t, i, k)'
               PROVE  t = wire'[k].of
    BY DEF FrameIsOwn, Told, Heard, Sent
  <2>1. k \in DOMAIN wire /\ wire'[k] = wire[k]
    BY <1>1, <1>2
  <2>2. Told(t, i, k)
    BY <1>5, <2>1
  <2> QED
    BY <1>1, <2>1, <2>2 DEF IInv, FrameIsOwn
<1>9. FrameReachesItsSensor'
  BY <1>1 DEF IInv, FrameReachesItsSensor
<1> QED
  BY <1>6, <1>7, <1>8, <1>9 DEF IdInv

\* A link that goes down by itself leaves its id to a client that counts as dropped.
LEMMA IdsAfterDrop ==
    ASSUME IInv, NEW s \in Sensors, LinkDrops(s)
    PROVE  IdInv'
<1> DEFINE end == Len(wire) + 1
<1> DEFINE m == [type |-> "disconnected", of |-> s, solicited |-> FALSE]
<1>1. /\ m \in Messages /\ wire' = Append(wire, m)
      /\ m.type = "disconnected"
      /\ op' = op /\ client' = client /\ delivered' = delivered
      /\ dropped' = dropped \cup {s}
      /\ link'[s] = None /\ (\A t \in Sensors : t # s => link'[t] = link[t])
  BY DEF Messages, LinkDrops, IInv, TypeOK, loopVars, readerVars
<1> HIDE DEF m
<1>2. /\ DOMAIN wire' = DOMAIN wire \cup {end} /\ wire'[end] = m /\ end \in Nat
      /\ \A k \in DOMAIN wire : wire'[k] = wire[k] /\ k \in Nat /\ k < end
  BY <1>1, LineAppend DEF IInv
<1>3. \A t \in Sensors : \A i : Heard(t, i)' <=> Heard(t, i)
  BY <1>1 DEF Heard
<1>4. \A t \in Sensors : \A i : Knows(t, i)' => Knows(t, i)
  BY <1>1, <1>2, <1>3 DEF Knows, Sent
<1>5. ASSUME NEW k \in DOMAIN wire, NEW t \in Sensors, NEW i, Told(t, i, k)'
      PROVE  Told(t, i, k)
  <2>1. \A j \in DOMAIN wire' : j < k => j # end
    BY <1>2
  <2> QED
    BY <1>2, <1>3, <1>5, <2>1 DEF Told, Sent
<1>6. IdIsOfLink'
  BY <1>1, <1>4 DEF IInv, IdIsOfLink
<1>7. IdIsOwn'
  BY <1>1, <1>4, NoneIsNoSensorId DEF IInv, IdIsOwn
<1>8. FrameIsOwn'
  <2> SUFFICES ASSUME NEW k \in DOMAIN wire', wire'[k].type = "frame",
                      NEW t \in Sensors \ dropped', NEW i, i = wire'[k].id, Told(t, i, k)'
               PROVE  t = wire'[k].of
    BY DEF FrameIsOwn, Told, Heard, Sent
  <2>1. k \in DOMAIN wire /\ wire'[k] = wire[k]
    BY <1>1, <1>2
  <2>2. Told(t, i, k)
    BY <1>5, <2>1
  <2> QED
    BY <1>1, <2>1, <2>2 DEF IInv, FrameIsOwn
<1>9. FrameReachesItsSensor'
  BY <1>1 DEF IInv, FrameReachesItsSensor
<1> QED
  BY <1>6, <1>7, <1>8, <1>9 DEF IdInv

\* A frame is sent with the id of its link, which no other client has.
LEMMA IdsAfterFrame ==
    ASSUME IInv, NEW s \in Sensors, SendFrame(s)
    PROVE  IdInv'
<1> DEFINE end == Len(wire) + 1
<1> DEFINE m == [type |-> "frame", of |-> s, id |-> link[s]]
<1>1. /\ m \in Messages /\ wire' = Append(wire, m) /\ link[s] \in SensorIds
      /\ m.type = "frame" /\ m.of = s /\ m.id = link[s]
      /\ op' = op /\ client' = client /\ delivered' = delivered
      /\ dropped' = dropped /\ link' = link
  BY DEF Messages, SendFrame, IInv, TypeOK, loopVars, readerVars, history
<1> HIDE DEF m
<1>2. /\ DOMAIN wire' = DOMAIN wire \cup {end} /\ wire'[end] = m /\ end \in Nat
      /\ \A k \in DOMAIN wire : wire'[k] = wire[k] /\ k \in Nat /\ k < end
  BY <1>1, LineAppend DEF IInv
<1>3. \A t \in Sensors : \A i : Heard(t, i)' <=> Heard(t, i)
  BY <1>1 DEF Heard
<1>4. \A t \in Sensors : \A i : Knows(t, i)' => Knows(t, i)
  BY <1>1, <1>2, <1>3 DEF Knows, Sent
<1>5. ASSUME NEW k \in DOMAIN wire, NEW t \in Sensors, NEW i, Told(t, i, k)'
      PROVE  Told(t, i, k)
  <2>1. \A j \in DOMAIN wire' : j < k => j # end
    BY <1>2
  <2> QED
    BY <1>2, <1>3, <1>5, <2>1 DEF Told, Sent
<1>6. IdIsOfLink'
  BY <1>1, <1>4 DEF IInv, IdIsOfLink
<1>7. IdIsOwn'
  BY <1>1, <1>4 DEF IInv, IdIsOwn
<1>8. FrameIsOwn'
  <2> SUFFICES ASSUME NEW k \in DOMAIN wire', wire'[k].type = "frame",
                      NEW t \in Sensors \ dropped', NEW i, i = wire'[k].id, Told(t, i, k)'
               PROVE  t = wire'[k].of
    BY DEF FrameIsOwn, Told, Heard, Sent
  <2>1. CASE k \in DOMAIN wire
    <3>1. wire'[k] = wire[k] /\ Told(t, i, k)
      BY <1>2, <1>5, <2>1
    <3> QED
      BY <1>1, <2>1, <3>1 DEF IInv, FrameIsOwn
  <2>2. CASE k = end
    <3>1. Knows(t, i)'
      BY DEF Told, Knows
    <3>2. Knows(t, i) /\ i = link[s]
      BY <1>1, <1>2, <1>4, <2>2, <3>1
    <3> QED
      BY <1>1, <1>2, <2>2, <3>2 DEF IInv, IdIsOwn
  <2> QED
    BY <1>2, <2>1, <2>2
<1>9. FrameReachesItsSensor'
  BY <1>1 DEF IInv, FrameReachesItsSensor
<1> QED
  BY <1>6, <1>7, <1>8, <1>9 DEF IdInv

-----------------------------------------------------------------------------
(* The theorems.                                                            *)

\* The reader's looking the client up and checking it leave the rest alone.
LEMMA AsideMoves ==
    ASSUME IInv, FetchClient \/ CheckSuppress \/ ReportDisconnect
    PROVE  Aside
<1>1. msg.of \in Sensors
  BY MessageTypes, MessageFields DEF IInv
<1>2. CASE FetchClient
  BY <1>2 DEF FetchClient, Aside, loopVars, gatewayVars, history
<1>3. CASE CheckSuppress
  BY <1>1, <1>3 DEF CheckSuppress, Aside, loopVars, gatewayVars, history, IInv, TypeOK, Clients
<1>4. CASE ReportDisconnect
  <2>1. Down(msg.of)
    BY <1>4 DEF ReportDisconnect, Down, InHand
  <2> QED
    BY <1>1, <1>4, <2>1 DEF ReportDisconnect, Aside, loopVars, gatewayVars, IInv, TypeOK
<1> QED
  BY <1>2, <1>3, <1>4

\* What an operation of the loop, the reader and the gateway keep.
LEMMA RestStep ==
    ASSUME IInv, [Next]_vars
    PROVE  LineInv' /\ ReportInv' /\ IdInv'
<1>1. CASE DisconnectAll \/ UNCHANGED vars
  <2>1. /\ op' = op /\ client' = client /\ status' = status /\ reader' = reader /\ msg' = msg
        /\ wire' = wire /\ wants' = wants /\ link' = link /\ dropped' = dropped
        /\ unheard' = unheard /\ overtaken' = overtaken /\ spurious' = spurious
        /\ delivered' = delivered
    BY <1>1 DEF DisconnectAll, vars, loopVars, readerVars, gatewayVars, history
  <2>2. Aside
    BY <2>1 DEF Aside
  <2>3. ReportInv'
    BY <2>1 DEF IInv, ReportInv, DownIsReported, ReaderHolds, Down, InHand
  <2> QED
    BY <2>2, <2>3, LineAfterAside, IdsAfterAside
<1>2. ASSUME NEW s \in Sensors,
             \/ StartConnect(s) \/ TakeConnection(s) \/ MarkConnected(s)
             \/ ConnectTimesOut(s) \/ Subscribe(s) \/ StartDisconnect(s)
             \/ ForgetClient(s) \/ EndDisconnect(s) \/ DisconnectRaises(s)
      PROVE  LineInv' /\ ReportInv' /\ IdInv'
  BY <1>2, LoopMoves, LineAfterLoop, ReportAfterLoop, IdsAfterLoop
<1>3. CASE TakeLine
  BY <1>3, LineAfterTake, ReportAfterTake, IdsAfterTake
<1>4. CASE FetchClient \/ CheckSuppress \/ ReportDisconnect
  BY <1>4, AsideMoves, LineAfterAside, IdsAfterAside, ReportAfterFetch, ReportAfterCheck,
     ReportAfterReport
<1>5. CASE DeliverFrame \/ LoseMessage
  BY <1>5, LineAfterDeliver, ReportAfterDeliver, ReportAfterLose, IdsAfterDeliver, IdsAfterLose
<1>6. ASSUME NEW s \in Sensors, GatewayConnects(s) \/ GatewayDisconnects(s)
                                  \/ LinkDrops(s) \/ SendFrame(s)
      PROVE  LineInv' /\ ReportInv' /\ IdInv'
  BY <1>6, LineAfterConnects, LineAfterDisconnects, LineAfterDrop, LineAfterFrame,
     ReportAfterGateway, IdsAfterConnects, IdsAfterDisconnects, IdsAfterDrop, IdsAfterFrame
<1> QED
  BY <1>1, <1>2, <1>3, <1>4, <1>5, <1>6 DEF Next, Loop, Reader, Gateway

\* At the start nothing was asked for and nothing is on the line.
LEMMA InitInv == Init => IInv
<1> SUFFICES ASSUME Init
             PROVE  IInv
  OBVIOUS
<1>1. /\ todo = {} /\ registered = Sensors /\ reader = "reading" /\ wire = << >>
      /\ dropped = {} /\ unheard = {} /\ overtaken = {} /\ spurious = {} /\ delivered = {}
      /\ leaving = FALSE /\ 1 \in Sensors
      /\ msg = [type |-> "disconnected", of |-> 1, solicited |-> FALSE]
  BY SomeSensors DEF Init, Sensors
<1>2. /\ op = [s \in Sensors |-> "new"] /\ status = [s \in Sensors |-> "unconnected"]
      /\ wants = [s \in Sensors |-> "nothing"] /\ link = [s \in Sensors |-> None]
      /\ client \in [Sensors -> Clients]
      /\ \A s \in Sensors : client[s].sensor_id = None /\ ~client[s].suppress
  BY DEF Init, Clients
<1>3. TypeOK
  <2>1. msg \in Messages
    BY <1>1 DEF Messages
  <2>2. wire \in Seq(Messages)
    BY <1>1
  <2>3. /\ op \in [Sensors -> Ops]
        /\ wants \in [Sensors -> {"nothing", "connect", "disconnect"}]
        /\ link \in [Sensors -> SensorIds \cup {None}]
        /\ \A s \in registered : op[s] \notin {"forgotten", "gone"}
    BY <1>1, <1>2 DEF Ops
  <2>4. status \in [Sensors -> {"unconnected", "connected", "disconnected"}]
    BY <1>2
  <2> HIDE DEF Init
  <2> QED
    BY <1>1, <1>2, <2>1, <2>2, <2>3, <2>4 DEF TypeOK, Ops
<1>4. DOMAIN wire = {}
  BY <1>1
<1>5. OneAtATime /\ FieldsOfOp
  BY <1>1, <1>2 DEF OneAtATime, FieldsOfOp, Busy, Leaving
<1>6. Untouched /\ OneAnswer /\ DownIsDown /\ LinkOfOp /\ EndIsBehind
  BY <1>1, <1>2, <1>4 DEF Untouched, OneAnswer, DownIsDown, LinkOfOp, EndIsBehind, Down,
     OnLine, InHand
<1>7. DownIsReported /\ ReaderHolds
  BY <1>1, <1>2, <1>4 DEF DownIsReported, ReaderHolds
<1>8. IdIsOfLink /\ IdIsOwn /\ FrameIsOwn /\ FrameReachesItsSensor
  BY <1>1, <1>2, <1>4, NoneIsNoSensorId DEF IdIsOfLink, IdIsOwn, FrameIsOwn, Knows, Heard,
     FrameReachesItsSensor
<1> QED
  BY <1>3, <1>5, <1>6, <1>7, <1>8 DEF IInv

\* Every step keeps the invariant.
LEMMA StepInv == IInv /\ [Next]_vars => IInv'
<1> SUFFICES ASSUME IInv, [Next]_vars
             PROVE  IInv'
  OBVIOUS
<1>1. TypeOK'
  BY TypeStep DEF IInv
<1>2. OneAtATime' /\ FieldsOfOp'
  BY FieldsStep
<1>3. LineInv' /\ ReportInv' /\ IdInv'
  BY RestStep
<1> QED
  BY <1>1, <1>2, <1>3 DEF IInv, LineInv, ReportInv, IdInv

\* It holds of every reachable state.
LEMMA Invariance == Spec => []IInv
BY InitInv, StepInv, PTL DEF Spec

\* The fields of the adapter, the messages and the links have their types.
THEOREM TypeCorrect == Spec => []TypeOK
<1>1. IInv => TypeOK
  BY DEF IInv
<1> QED
  BY <1>1, Invariance, PTL

\* A sensor about which nothing is under way and that is marked as connected has its
\* link, but for a report that was lost, the one race and a run that has raised.
THEOREM StatusIsTrue == Spec => []StatusTellsLink
<1>1. ASSUME IInv
      PROVE  StatusTellsLink
  <2> SUFFICES ASSUME NEW s \in Sensors, Settled(s), status[s] = "connected",
                      link[s] = None, op[s] # "raised"
               PROVE  s \in overtaken \cup unheard
    BY DEF StatusTellsLink
  <2>1. ~Down(s) /\ op[s] \notin Leaving
    BY DEF Settled, Down, InHand, Leaving
  <2> QED
    BY <1>1, <2>1 DEF IInv, DownIsReported
<1> QED
  BY <1>1, Invariance, PTL

\* The adapter knows of each link that the gateway holds, unless the run has raised.
THEOREM NoLinkUnknown == Spec => []LinkIsKnown
<1>1. IInv => LinkIsKnown
  BY DEF IInv, LinkOfOp, LinkIsKnown, Settled
<1> QED
  BY <1>1, Invariance, PTL

\* No disconnect that is under way is reported as an event.
THEOREM AskedForQuietly == Spec => []QuietDisconnect
<1>1. IInv => QuietDisconnect
  BY DEF IInv, ReaderHolds, QuietDisconnect
<1> QED
  BY <1>1, Invariance, PTL

\* Whatever ids the gateway uses again, a frame reaches the sensor that sent it, or a
\* sensor whose link had gone down by itself.
THEOREM FramesReachTheirSensor == Spec => []FrameReachesItsSensor
<1>1. IInv => FrameReachesItsSensor
  BY DEF IInv
<1> QED
  BY <1>1, Invariance, PTL

=============================================================================
