------------------------- MODULE GatewayClientProofs -------------------------
(***************************************************************************)
(* What holds of GatewaySerialClient for every set of requests and         *)
(* devices, and for every value of the bounds; and that it implements      *)
(* RequestReply.                                                           *)
(***************************************************************************)
EXTENDS GatewayClient, Integers, TLAPS

-----------------------------------------------------------------------------
(* The inductive invariant.                                                 *)

\* A request gets its id as it is registered, from the clock.
IdsOfRequests ==
    \A r \in Requests :
        /\ id[r] # None <=> state[r] # "idle"
        /\ id[r] # None => id[r][2] = made[r]

\* What the gateway has of a request was sent before, and what it reported comes after.
Unsent == {"idle", "registered"}
SentOnly ==
    \A r \in Requests : state[r] \in Unsent =>
        r \notin heard /\ reported[r] = {} /\ found[r] = {}

\* A message carries the id of the request it answers.  After a result there may
\* be more; other messages are the last.
Genuine(m) ==
    /\ m.id = id[m.of]
    /\ state[m.of] \notin Unsent
    /\ IF m.kind = "result" THEN m.device \in reported[m.of]
                            ELSE m.device = None /\ m.of \notin heard
MessagesAreGenuine ==
    /\ \A i \in DOMAIN wire : Genuine(wire[i])
    /\ msg # None => Genuine(msg)

\* A queue and an answer have messages with the id of their request only.
Fits(m, r) == Genuine(m) /\ m.id = id[r]
MessagesFit ==
    \A r \in Requests :
        /\ \A i \in DOMAIN inbox[r] : Fits(inbox[r][i], r)
        /\ answer[r] # None => Fits(answer[r], r)
        /\ state[r] = "completed" => answer[r] # None /\ answer[r].kind # "result"

\* Every device that was reported for r and not lost is among the matches, or on
\* its way ahead of the message that ends the scan: as long as the client still
\* has the queue.
Missing(r) == (reported[r] \ lost[r]) \ found[r]
Holds(q, n, r, d) == \E i \in DOMAIN q : i < n /\ q[i].of = r /\ q[i].device = d
Queued(r, d) == Holds(inbox[r], Len(inbox[r]) + 1, r, d)
InHand(r, d) == msg # None /\ msg.of = r /\ msg.device = d
Ahead(r, n) == \A d \in Missing(r) : Queued(r, d) \/ InHand(r, d) \/ Holds(wire, n, r, d)
ScanInOrder(r) ==
    /\ found[r] \subseteq reported[r]
    /\ state[r] = "completed" => Missing(r) = {}
    /\ \A j \in DOMAIN inbox[r] : inbox[r][j].kind = "done" =>
          \A d \in Missing(r) : Holds(inbox[r], j, r, d)
    /\ pending[id[r]] = r =>
          /\ msg # None /\ msg.of = r /\ msg.kind = "done" =>
                \A d \in Missing(r) : Queued(r, d)
          /\ \A j \in DOMAIN wire : wire[j].of = r /\ wire[j].kind = "done" => Ahead(r, j)
          /\ r \in heard => Ahead(r, Len(wire) + 1)
ScansInOrder == \A r \in Requests : Scans(r) /\ ~Collides(r) => ScanInOrder(r)

IInv == /\ TypeOK
        /\ IdsOfRequests /\ SentOnly /\ MessagesAreGenuine /\ MessagesFit
        /\ PendingIsLive /\ EventSkippedOnlyAfterEnd /\ ScansInOrder

-----------------------------------------------------------------------------
(* Helpers: sequences of messages.                                          *)

\* What a sequence holds ahead of n is also ahead of its end.
LEMMA HeldAtAll ==
    ASSUME NEW q \in Seq(Messages), NEW n, NEW r, NEW d, Holds(q, n, r, d)
    PROVE  Holds(q, Len(q) + 1, r, d)
BY DEF Holds

\* A message that is appended takes the last place and moves no other.
LEMMA HeldInAppend ==
    ASSUME NEW q \in Seq(Messages), NEW m \in Messages, NEW r, NEW d
    PROVE  /\ Len(Append(q, m)) = Len(q) + 1
           /\ DOMAIN Append(q, m) = DOMAIN q \cup {Len(q) + 1}
           /\ \A i \in DOMAIN q : Append(q, m)[i] = q[i]
           /\ Append(q, m)[Len(q) + 1] = m
           /\ \A n : Holds(q, n, r, d) => Holds(Append(q, m), n, r, d)
           /\ m.of = r /\ m.device = d => Holds(Append(q, m), Len(q) + 2, r, d)
<1>1. /\ Len(q) \in Nat /\ DOMAIN q = 1..Len(q)
      /\ Len(Append(q, m)) = Len(q) + 1 /\ DOMAIN Append(q, m) = 1..(Len(q) + 1)
      /\ \A i \in 1..Len(q) : Append(q, m)[i] = q[i]
      /\ Append(q, m)[Len(q) + 1] = m
  OBVIOUS
<1>2. 1..(Len(q) + 1) = (1..Len(q)) \cup {Len(q) + 1}
  BY <1>1
<1>3. Len(q) + 1 < Len(q) + 2 /\ Len(q) + 1 \in 1..(Len(q) + 1)
  BY <1>1
<1>4. \A n : Holds(q, n, r, d) => Holds(Append(q, m), n, r, d)
  BY <1>1, <1>2 DEF Holds
<1>5. m.of = r /\ m.device = d => Holds(Append(q, m), Len(q) + 2, r, d)
  BY <1>1, <1>3 DEF Holds
<1> QED
  BY <1>1, <1>2, <1>4, <1>5

\* Without its head a sequence holds what was behind it, one place ahead.
LEMMA HeldInTail ==
    ASSUME NEW q \in Seq(Messages), q # << >>, NEW r, NEW d
    PROVE  /\ Head(q) \in Messages /\ Head(q) = q[1] /\ 1 \in DOMAIN q
           /\ Tail(q) \in Seq(Messages)
           /\ Len(Tail(q)) = Len(q) - 1
           /\ \A i \in DOMAIN Tail(q) : i \in Nat /\ i + 1 \in DOMAIN q /\ Tail(q)[i] = q[i + 1]
           /\ \A n \in Int : Holds(q, n, r, d) =>
                 (Head(q).of = r /\ Head(q).device = d) \/ Holds(Tail(q), n - 1, r, d)
<1>1. /\ Len(q) \in Nat /\ Len(q) > 0 /\ DOMAIN q = 1..Len(q)
      /\ Head(q) = q[1] /\ Head(q) \in Messages
      /\ Tail(q) \in Seq(Messages) /\ Len(Tail(q)) = Len(q) - 1
      /\ DOMAIN Tail(q) = 1..(Len(q) - 1)
      /\ \A i \in 1..(Len(q) - 1) : Tail(q)[i] = q[i + 1]
  OBVIOUS
<1>2. \A i \in 1..(Len(q) - 1) : i \in Nat /\ i + 1 \in 1..Len(q)
  BY <1>1
<1>3. ASSUME NEW n \in Int, NEW i \in 1..Len(q), i < n, q[i].of = r, q[i].device = d, i # 1
      PROVE  Holds(Tail(q), n - 1, r, d)
  <2>1. i - 1 \in 1..(Len(q) - 1) /\ i - 1 < n - 1 /\ (i - 1) + 1 = i
    BY <1>1, <1>3
  <2>2. Tail(q)[i - 1] = q[i]
    BY <1>1, <2>1
  <2> QED
    BY <1>1, <1>3, <2>1, <2>2 DEF Holds
<1>4. \A n \in Int : Holds(q, n, r, d) =>
        (Head(q).of = r /\ Head(q).device = d) \/ Holds(Tail(q), n - 1, r, d)
  <2> SUFFICES ASSUME NEW n \in Int, Holds(q, n, r, d)
               PROVE  (Head(q).of = r /\ Head(q).device = d) \/ Holds(Tail(q), n - 1, r, d)
    OBVIOUS
  <2>1. PICK i \in 1..Len(q) : i < n /\ q[i].of = r /\ q[i].device = d
    BY <1>1 DEF Holds
  <2> QED
    BY <1>1, <1>3, <2>1
<1> QED
  BY <1>1, <1>2, <1>4

-----------------------------------------------------------------------------
(* Helpers: request ids.                                                    *)

\* Requests that share an id collide.
LEMMA SharedId ==
    ASSUME IdsOfRequests, NEW r \in Requests, NEW q \in Requests,
           q # r, id[q] = id[r], id[r] # None
    PROVE  Collides(r)
BY DEF IdsOfRequests, Collides

\* A request keeps its id; one that is new gets its id from the clock.
LEMMA IdsStay ==
    ASSUME TypeOK, IdsOfRequests, [Next]_vars, NEW r \in Requests, id[r] # None
    PROVE  id'[r] = id[r] /\ made'[r] = made[r]
<1> USE DEF requestVars, lineVars, readerVars
<1>1. ASSUME NEW q \in Requests, NEW prefix \in Prefixes, Register(q, prefix)
      PROVE  id'[r] = id[r] /\ made'[r] = made[r]
  <2>1. q # r
    BY <1>1 DEF Register, IdsOfRequests
  <2> QED
    BY <1>1, <2>1 DEF Register, TypeOK
<1>2. CASE UNCHANGED <<id, made>>
  BY <1>2
<1>3. CASE Tick \/ LoseLine \/ TakeLine \/ PutAnswer \/ LookupFails \/ Close \/ UNCHANGED vars
  BY <1>2, <1>3 DEF Tick, LoseLine, TakeLine, PutAnswer, LookupFails, Close, vars
<1>4. ASSUME NEW q \in Requests, Send(q) \/ SendFails(q) \/ Receive(q) \/ TimeOut(q)
      PROVE  UNCHANGED <<id, made>>
  BY <1>4 DEF Send, SendFails, Receive, TimeOut
<1>5. ASSUME NEW q \in Requests, Gateway(q)
      PROVE  UNCHANGED <<id, made>>
  BY <1>5 DEF Gateway, Answer, Report
<1> QED
  BY <1>1, <1>2, <1>3, <1>4, <1>5 DEF Next, Request, Reader

\* Requests that collide do so ever after.
LEMMA CollidesStays ==
    ASSUME TypeOK, IdsOfRequests, [Next]_vars, NEW r \in Requests, id[r] # None
    PROVE  Collides(r) => Collides(r)'
BY IdsStay DEF Collides

\* A request that is not idle has an id.
LEMMA HasId ==
    ASSUME TypeOK, IdsOfRequests, NEW r \in Requests, state[r] # "idle"
    PROVE  id[r] \in Ids /\ id[r] # None
BY DEF TypeOK, IdsOfRequests

\* What the gateway sends is a message about the request.
LEMMA AnswerIsMessage ==
    ASSUME TypeOK, IdsOfRequests, SentOnly, NEW r \in Requests, NEW kind \in {"done", "error"},
           Answer(r, kind)
    PROVE  LET m == [id |-> id[r], of |-> r, kind |-> kind, device |-> None]
           IN  m \in Messages /\ wire' = Append(wire, m) /\ wire' \in Seq(Messages)
<1>1. id[r] \in Ids
  BY HasId DEF Answer, SentOnly, Unsent
<1> QED
  BY <1>1 DEF Answer, Put, Messages, Kinds, TypeOK

\* So is what it reports.
LEMMA ReportIsMessage ==
    ASSUME TypeOK, IdsOfRequests, NEW r \in Requests, NEW d \in Devices, Report(r, d)
    PROVE  LET m == [id |-> id[r], of |-> r, kind |-> "result", device |-> d]
           IN  m \in Messages /\ wire' = Append(wire, m) /\ wire' \in Seq(Messages)
<1>1. id[r] \in Ids
  BY DEF Report, Scans, TypeOK
<1> QED
  BY <1>1 DEF Report, Put, Messages, Kinds, TypeOK

\* Only devices are reported.
LEMMA OnLineDevices ==
    ASSUME TypeOK, NEW r \in Requests
    PROVE  OnLine(r) \subseteq Devices
<1>1. \A i \in DOMAIN wire : wire[i] \in Messages
  BY DEF TypeOK
<1>2. \A i \in DOMAIN wire : wire[i].device \in Devices \cup {None}
  BY <1>1 DEF Messages
<1> QED
  BY <1>2 DEF OnLine

\* The invariant holds before the first request.
LEMMA IInvInit == Init => IInv
<1> SUFFICES ASSUME Init PROVE IInv
  OBVIOUS
<1>1. << >> \in Seq(Messages) /\ DOMAIN << >> = {} /\ 0 \in 0..MaxClock /\ 0 \in 0..MaxCloses
  BY GatewayBounds
<1>2. TypeOK
  BY <1>1 DEF Init, TypeOK
<1>3. IdsOfRequests /\ SentOnly
  BY DEF Init, IdsOfRequests, SentOnly
<1>4. MessagesAreGenuine /\ MessagesFit
  BY <1>1 DEF Init, MessagesAreGenuine, MessagesFit
<1>5. PendingIsLive /\ EventSkippedOnlyAfterEnd /\ ScansInOrder
  BY DEF Init, PendingIsLive, EventSkippedOnlyAfterEnd, ScansInOrder, Scans, Live
<1> QED
  BY <1>2, <1>3, <1>4, <1>5 DEF IInv

-----------------------------------------------------------------------------
(* Each part of the invariant is kept.                                      *)

\* Every variable keeps its type.
LEMMA TypeOKStep ==
    ASSUME TypeOK, IdsOfRequests, SentOnly, [Next]_vars
    PROVE  TypeOK'
<1> USE DEF TypeOK, requestVars, lineVars, readerVars
<1>1. CASE Tick
  BY <1>1, GatewayBounds DEF Tick
<1>2. ASSUME NEW r \in Requests, NEW prefix \in Prefixes, Register(r, prefix)
      PROVE  TypeOK'
  <2>1. <<prefix, clock>> \in Ids
    BY DEF Ids
  <2> QED
    BY <1>2, <2>1 DEF Register, Live
<1>3. ASSUME NEW r \in Requests, Send(r)
      PROVE  TypeOK'
  <2>1. wire' \in Seq(Messages)
    <3>1. wire' = wire \/ wire' = << >>
      BY <1>3 DEF Send, LoseAll
    <3>2. << >> \in Seq(Messages)
      OBVIOUS
    <3> QED
      BY <3>1, <3>2
  <2>2. lost' \in [Requests -> SUBSET Devices]
    <3>1. \A q \in Requests : OnLine(q) \subseteq Devices
      BY OnLineDevices
    <3> QED
      BY <1>3, <3>1 DEF Send, LoseAll
  <2> QED
    BY <1>3, <2>1, <2>2 DEF Send, Live
<1>4. ASSUME NEW r \in Requests, SendFails(r)
      PROVE  TypeOK'
  <2>1. << >> \in Seq(Messages)
    OBVIOUS
  <2> QED
    BY <1>4, <2>1 DEF SendFails, End, Unregister, Ended
<1>5. ASSUME NEW r \in Requests, Receive(r)
      PROVE  TypeOK'
  <2> DEFINE m == Head(inbox[r])
  <2>1. m \in Messages /\ Tail(inbox[r]) \in Seq(Messages) /\ << >> \in Seq(Messages)
    BY <1>5, HeldInTail DEF Receive
  <2>2. {m.device} \ {None} \subseteq Devices
    BY <2>1 DEF Messages
  <2>3. CASE Ends(r, m)
    <3>1. /\ \E how \in {"failed", "completed"} : End(r, how)
          /\ answer' = [answer EXCEPT ![r] = m]
          /\ UNCHANGED <<found, clock, port, closes, id, made>>
          /\ UNCHANGED <<heard, wire, reported, lost, msg, skipped>>
      BY <1>5, <2>3 DEF Receive
    <3> HIDE DEF m
    <3>2. /\ state' \in [Requests -> {"idle"} \cup Live \cup Ended]
         /\ inbox' \in [Requests -> Seq(Messages)]
      BY <2>1, <3>1 DEF End, Ended
    <3>3. pending' \in [Ids -> Requests \cup {None}]
      BY <3>1 DEF End, Unregister
    <3>4. answer' \in [Requests -> Messages \cup {None}]
      BY <2>1, <3>1
    <3> QED
      BY <3>1, <3>2, <3>3, <3>4
  <2>4. CASE ~Ends(r, m)
    <3>1. /\ inbox' = [inbox EXCEPT ![r] = Tail(inbox[r])]
          /\ found' = [found EXCEPT ![r] = found[r] \cup ({m.device} \ {None})]
          /\ UNCHANGED <<state, pending, answer, clock, port, closes, id, made>>
          /\ UNCHANGED <<heard, wire, reported, lost, msg, skipped>>
      BY <1>5, <2>4 DEF Receive
    <3>2. inbox' \in [Requests -> Seq(Messages)]
      BY <2>1, <3>1
    <3>3. found' \in [Requests -> SUBSET Devices]
      BY <2>2, <3>1
    <3> QED
      BY <3>1, <3>2, <3>3
  <2> QED
    BY <2>3, <2>4
<1>6. ASSUME NEW r \in Requests, TimeOut(r)
      PROVE  TypeOK'
  <2>1. << >> \in Seq(Messages)
    OBVIOUS
  <2> QED
    BY <1>6, <2>1 DEF TimeOut, End, Unregister, Ended
<1>7. ASSUME NEW r \in Requests, NEW kind \in {"done", "error"}, Answer(r, kind)
      PROVE  TypeOK'
  <2>1. wire' \in Seq(Messages)
    BY <1>7, AnswerIsMessage
  <2> QED
    BY <1>7, <2>1 DEF Answer
<1>8. ASSUME NEW r \in Requests, NEW d \in Devices, Report(r, d)
      PROVE  TypeOK'
  <2>1. wire' \in Seq(Messages)
    BY <1>8, ReportIsMessage
  <2> QED
    BY <1>8, <2>1 DEF Report
<1>9. CASE LoseLine
  <2>1. Head(wire) \in Messages /\ Tail(wire) \in Seq(Messages)
    BY <1>9, HeldInTail DEF LoseLine
  <2>2. {Head(wire).device} \ {None} \subseteq Devices
    BY <2>1 DEF Messages
  <2> QED
    BY <1>9, <2>1, <2>2 DEF LoseLine
<1>10. CASE TakeLine
  <2>1. Head(wire) \in Messages /\ Tail(wire) \in Seq(Messages)
    BY <1>10, HeldInTail DEF TakeLine
  <2> QED
    BY <1>10, <2>1 DEF TakeLine
<1>11. CASE PutAnswer
  <2>1. msg \in Messages /\ pending[msg.id] \in Requests
    BY <1>11 DEF PutAnswer, Messages
  <2>2. inbox' \in [Requests -> Seq(Messages)]
    BY <1>11, <2>1 DEF PutAnswer
  <2> QED
    BY <1>11, <2>2 DEF PutAnswer
<1>12. CASE LookupFails
  <2>1. msg.of \in Requests
    BY <1>12 DEF LookupFails, Messages
  <2> QED
    BY <1>12, <2>1 DEF LookupFails
<1>13. CASE Close
  <2>1. wire' \in Seq(Messages) /\ closes' \in 0..MaxCloses
    BY <1>13, GatewayBounds DEF Close, LoseAll
  <2>2. lost' \in [Requests -> SUBSET Devices]
    <3>1. \A q \in Requests : OnLine(q) \subseteq Devices
      BY OnLineDevices
    <3> QED
      BY <1>13, <3>1 DEF Close, LoseAll
  <2> QED
    BY <1>13, <2>1, <2>2 DEF Close
<1>14. CASE UNCHANGED vars
  BY <1>14 DEF vars
<1> QED
  BY <1>1, <1>2, <1>3, <1>4, <1>5, <1>6, <1>7, <1>8, <1>9, <1>10, <1>11, <1>12, <1>13, <1>14
  DEF Next, Request, Gateway, Reader

\* Ids are given once.
LEMMA IdsOfRequestsStep ==
    ASSUME TypeOK, IdsOfRequests, [Next]_vars
    PROVE  IdsOfRequests'
<1> USE DEF IdsOfRequests, requestVars, lineVars, readerVars
<1>1. CASE UNCHANGED <<id, made, state>>
  BY <1>1
<1>2. ASSUME NEW r \in Requests, NEW prefix \in Prefixes, Register(r, prefix)
      PROVE  IdsOfRequests'
  <2>1. <<prefix, clock>> \in Ids /\ <<prefix, clock>>[2] = clock
    BY DEF Ids, TypeOK
  <2>2. /\ id'[r] = <<prefix, clock>> /\ made'[r] = clock /\ state'[r] = "registered"
        /\ \A q \in Requests : q # r => /\ id'[q] = id[q] /\ made'[q] = made[q]
                                        /\ state'[q] = state[q]
    BY <1>2 DEF Register, TypeOK
  <2> QED
    BY <2>1, <2>2, NoneIsNothing
<1>3. ASSUME NEW r \in Requests, Send(r) \/ SendFails(r) \/ Receive(r) \/ TimeOut(r)
      PROVE  IdsOfRequests'
  <2>1. /\ UNCHANGED <<id, made>> /\ state[r] # "idle" /\ state'[r] # "idle"
        /\ \A q \in Requests : q # r => state'[q] = state[q]
    BY <1>3 DEF Send, SendFails, Receive, TimeOut, End, TypeOK
  <2> QED
    BY <2>1
<1>4. ASSUME NEW r \in Requests, Gateway(r)
      PROVE  IdsOfRequests'
  BY <1>1, <1>4 DEF Gateway, Answer, Report
<1>5. CASE Tick \/ LoseLine \/ TakeLine \/ PutAnswer \/ LookupFails \/ Close \/ UNCHANGED vars
  BY <1>1, <1>5 DEF Tick, LoseLine, TakeLine, PutAnswer, LookupFails, Close, vars
<1> QED
  BY <1>2, <1>3, <1>4, <1>5 DEF Next, Request, Reader

\* No request becomes unsent again.
LEMMA SentStays ==
    ASSUME TypeOK, [Next]_vars, NEW r \in Requests
    PROVE  /\ state[r] \notin Unsent => state'[r] \notin Unsent
           /\ state[r] \in Ended => state'[r] = state[r]
<1> USE DEF Unsent, Ended, requestVars, lineVars, readerVars
<1>1. CASE UNCHANGED state
  BY <1>1
<1>2. ASSUME NEW q \in Requests, NEW prefix \in Prefixes, Register(q, prefix)
      PROVE  state[q] = "idle" /\ \A p \in Requests : p # q => state'[p] = state[p]
  BY <1>2 DEF Register, TypeOK
<1>3. ASSUME NEW q \in Requests, Send(q) \/ SendFails(q) \/ Receive(q) \/ TimeOut(q)
      PROVE  /\ state[q] \in Live /\ state'[q] \notin Unsent
             /\ \A p \in Requests : p # q => state'[p] = state[p]
  BY <1>3 DEF Send, SendFails, Receive, TimeOut, End, TypeOK, Live
<1>4. ASSUME NEW q \in Requests, Gateway(q)
      PROVE  UNCHANGED state
  BY <1>4 DEF Gateway, Answer, Report
<1>5. CASE Tick \/ LoseLine \/ TakeLine \/ PutAnswer \/ LookupFails \/ Close \/ UNCHANGED vars
  BY <1>1, <1>5 DEF Tick, LoseLine, TakeLine, PutAnswer, LookupFails, Close, vars
<1> QED
  BY <1>1, <1>2, <1>3, <1>4, <1>5 DEF Next, Request, Reader, Live

\* A request is heard once it is sent, and reported on while it is heard.
LEMMA SentOnlyStep ==
    ASSUME TypeOK, SentOnly, [Next]_vars
    PROVE  SentOnly'
<1> USE DEF SentOnly, requestVars, lineVars, readerVars
<1>1. CASE heard' \subseteq heard /\ reported' = reported /\ found' = found
  BY <1>1, SentStays
<1>2. ASSUME NEW r \in Requests, Send(r)
      PROVE  SentOnly'
  <2>1. state'[r] = "sent" /\ heard' = heard \cup {r} /\ reported' = reported /\ found' = found
    BY <1>2 DEF Send, TypeOK
  <2> QED
    BY <2>1, SentStays DEF Unsent
<1>3. ASSUME NEW r \in Requests, NEW d \in Devices, Report(r, d)
      PROVE  SentOnly'
  <2>1. /\ r \in heard /\ heard' = heard /\ state' = state /\ found' = found
        /\ \A q \in Requests : q # r => reported'[q] = reported[q]
    BY <1>3 DEF Report, TypeOK
  <2> QED
    BY <2>1
<1>4. ASSUME NEW r \in Requests, Receive(r) \/ TimeOut(r)
      PROVE  SentOnly'
  <2>1. /\ state[r] = "sent" /\ heard' = heard /\ reported' = reported
        /\ \A q \in Requests : q # r => found'[q] = found[q]
    BY <1>4 DEF Receive, TimeOut, TypeOK
  <2>2. state'[r] \notin Unsent
    BY <2>1, SentStays DEF Unsent
  <2> QED
    BY <2>1, <2>2, SentStays
<1>5. ASSUME NEW r \in Requests, SendFails(r) \/ \E prefix \in Prefixes : Register(r, prefix)
      PROVE  SentOnly'
  BY <1>1, <1>5 DEF Register, SendFails
<1>6. ASSUME NEW r \in Requests, NEW kind \in {"done", "error"}, Answer(r, kind)
      PROVE  SentOnly'
  BY <1>1, <1>6 DEF Answer
<1>7. CASE Tick \/ LoseLine \/ TakeLine \/ PutAnswer \/ LookupFails \/ Close \/ UNCHANGED vars
  BY <1>1, <1>7 DEF Tick, LoseLine, TakeLine, PutAnswer, LookupFails, Close, vars
<1> QED
  BY <1>2, <1>3, <1>4, <1>5, <1>6, <1>7 DEF Next, Request, Gateway, Reader

\* What was reported stays so.
LEMMA ReportsStay ==
    ASSUME TypeOK, [Next]_vars, NEW r \in Requests
    PROVE  /\ reported[r] \subseteq reported'[r]
           /\ r \notin heard => reported'[r] = reported[r]
<1> USE DEF requestVars, lineVars, readerVars
<1>1. CASE UNCHANGED reported
  BY <1>1
<1>2. ASSUME NEW q \in Requests, NEW d \in Devices, Report(q, d)
      PROVE  /\ reported[r] \subseteq reported'[r]
             /\ r \notin heard => reported'[r] = reported[r]
  BY <1>2 DEF Report, TypeOK
<1>3. ASSUME NEW q \in Requests, Request(q) \/ \E kind \in {"done", "error"} : Answer(q, kind)
      PROVE  UNCHANGED reported
  BY <1>3 DEF Request, Register, Send, SendFails, Receive, TimeOut, Answer
<1>4. CASE Tick \/ LoseLine \/ TakeLine \/ PutAnswer \/ LookupFails \/ Close \/ UNCHANGED vars
  BY <1>1, <1>4 DEF Tick, LoseLine, TakeLine, PutAnswer, LookupFails, Close, vars
<1> QED
  BY <1>1, <1>2, <1>3, <1>4 DEF Next, Gateway, Reader

\* A request that was answered is heard no more.
LEMMA HeardOnce ==
    ASSUME TypeOK, [Next]_vars, NEW r \in Requests, r \notin heard, state[r] \notin Unsent
    PROVE  r \notin heard'
<1> USE DEF requestVars, lineVars, readerVars
<1>1. CASE heard' \subseteq heard
  BY <1>1
<1>2. ASSUME NEW q \in Requests, Send(q)
      PROVE  q # r /\ heard' = heard \cup {q}
  BY <1>2 DEF Send, Unsent
<1>3. ASSUME NEW q \in Requests, (Request(q) /\ ~Send(q)) \/ Gateway(q)
      PROVE  heard' \subseteq heard
  BY <1>3 DEF Request, Gateway, Register, SendFails, Receive, TimeOut, Answer, Report
<1>4. CASE Tick \/ LoseLine \/ TakeLine \/ PutAnswer \/ LookupFails \/ Close \/ UNCHANGED vars
  BY <1>1, <1>4 DEF Tick, LoseLine, TakeLine, PutAnswer, LookupFails, Close, vars
<1> QED
  BY <1>1, <1>2, <1>3, <1>4 DEF Next, Reader

\* A message stays genuine: what it says of its request is final.
LEMMA GenuineStays ==
    ASSUME TypeOK, IdsOfRequests, SentOnly, [Next]_vars, NEW m \in Messages, Genuine(m)
    PROVE  Genuine(m)'
<1>1. m.of \in Requests
  BY DEF Messages
<1>2. id'[m.of] = id[m.of] /\ state'[m.of] \notin Unsent
  <2>1. id[m.of] # None
    BY <1>1, HasId DEF Genuine, Unsent
  <2> QED
    BY <1>1, <2>1, IdsStay, SentStays DEF Genuine
<1>3. reported[m.of] \subseteq reported'[m.of]
  BY <1>1, ReportsStay
<1>4. m.of \notin heard => m.of \notin heard'
  BY <1>1, HeardOnce DEF Genuine
<1> QED
  BY <1>2, <1>3, <1>4 DEF Genuine

\* All messages under way are genuine.
LEMMA MessagesAreGenuineStep ==
    ASSUME TypeOK, IdsOfRequests, SentOnly, MessagesAreGenuine, [Next]_vars
    PROVE  MessagesAreGenuine'
<1> USE DEF MessagesAreGenuine, requestVars, lineVars, readerVars
<1>0. ASSUME NEW m \in Messages, m = msg \/ \E i \in DOMAIN wire : m = wire[i]
      PROVE  Genuine(m)'
  BY <1>0, GenuineStays, NoneIsNothing
<1>9. msg \in Messages \cup {None} /\ \A i \in DOMAIN wire : wire[i] \in Messages
  BY DEF TypeOK
<1>1. CASE UNCHANGED wire /\ msg' \in {msg, None}
  BY <1>0, <1>9, <1>1
<1>2. ASSUME NEW r \in Requests, NEW kind \in {"done", "error"}, Answer(r, kind)
      PROVE  MessagesAreGenuine'
  <2> DEFINE m == [id |-> id[r], of |-> r, kind |-> kind, device |-> None]
  <2>1. m \in Messages /\ wire' = Append(wire, m)
    BY <1>2, AnswerIsMessage
  <2>2. Genuine(m)' /\ m' = m
    BY <1>2 DEF Answer, SentOnly, Genuine
  <2>3. wire \in Seq(Messages) /\ msg' = msg
    BY <1>2 DEF TypeOK, Answer
  <2> HIDE DEF m
  <2>4. \A i \in DOMAIN wire' : wire'[i] = m \/ \E j \in DOMAIN wire : wire'[i] = wire[j]
    BY <2>1, <2>3, HeldInAppend
  <2> QED
    BY <1>0, <1>9, <2>2, <2>3, <2>4
<1>3. ASSUME NEW r \in Requests, NEW d \in Devices, Report(r, d)
      PROVE  MessagesAreGenuine'
  <2> DEFINE m == [id |-> id[r], of |-> r, kind |-> "result", device |-> d]
  <2>1. m \in Messages /\ wire' = Append(wire, m)
    BY <1>3, ReportIsMessage
  <2>2. Genuine(m)' /\ m' = m
    BY <1>3 DEF Report, SentOnly, Genuine, TypeOK
  <2>3. wire \in Seq(Messages) /\ msg' = msg
    BY <1>3 DEF TypeOK, Report
  <2> HIDE DEF m
  <2>4. \A i \in DOMAIN wire' : wire'[i] = m \/ \E j \in DOMAIN wire : wire'[i] = wire[j]
    BY <2>1, <2>3, HeldInAppend
  <2> QED
    BY <1>0, <1>9, <2>2, <2>3, <2>4
<1>4. CASE LoseLine \/ TakeLine
  <2>1. /\ wire \in Seq(Messages) /\ wire # << >> /\ wire' = Tail(wire)
        /\ msg' \in {msg, None, Head(wire)}
    BY <1>4 DEF TypeOK, LoseLine, TakeLine
  <2>2. \A i \in DOMAIN wire' : \E j \in DOMAIN wire : wire'[i] = wire[j]
    BY <2>1, HeldInTail
  <2>3. \E j \in DOMAIN wire : Head(wire) = wire[j]
    BY <2>1, HeldInTail
  <2> QED
    BY <1>0, <1>9, <2>1, <2>2, <2>3
<1>5. CASE wire' = << >> /\ msg' = msg
  BY <1>0, <1>9, <1>5
<1>6. ASSUME NEW r \in Requests, Request(r)
      PROVE  MessagesAreGenuine'
  <2>1. msg' = msg /\ (wire' = wire \/ wire' = << >>)
    BY <1>6 DEF Request, Register, Send, LoseAll, SendFails, Receive, TimeOut
  <2> QED
    BY <1>1, <1>5, <2>1
<1>7. CASE Tick \/ PutAnswer \/ LookupFails \/ UNCHANGED vars
  BY <1>1, <1>7 DEF Tick, PutAnswer, LookupFails, vars
<1>8. CASE Close
  BY <1>5, <1>8 DEF Close, LoseAll
<1> QED
  BY <1>2, <1>3, <1>4, <1>6, <1>7, <1>8 DEF Next, Gateway, Reader

\* A message that fits a request does so ever after.
LEMMA FitsStays ==
    ASSUME TypeOK, IdsOfRequests, SentOnly, [Next]_vars,
           NEW m \in Messages, NEW r \in Requests, Fits(m, r)
    PROVE  Fits(m, r)'
<1>1. m.id \in Ids
  BY DEF Messages
<1>2. id'[r] = id[r]
  BY <1>1, IdsStay, NoneIsNothing DEF Fits
<1> QED
  BY <1>2, GenuineStays DEF Fits

\* A request ends: its queue goes, and the entry of its id.
LEMMA EndOfRequest ==
    ASSUME TypeOK, IdsOfRequests, NEW r \in Requests, NEW how \in Ended,
           state[r] \in Live, End(r, how)
    PROVE  /\ state'[r] = how /\ inbox'[r] = << >> /\ pending'[id[r]] = None
           /\ \A q \in Requests : q # r => state'[q] = state[q] /\ inbox'[q] = inbox[q]
           /\ \A i \in Ids : i # id[r] => pending'[i] = pending[i]
<1>1. id[r] \in Ids
  BY HasId DEF Live
<1> QED
  BY <1>1 DEF End, Unregister, TypeOK

\* The three ways to end.
LEMMA RequestEnds ==
    ASSUME TypeOK, IdsOfRequests, NEW r \in Requests,
           SendFails(r) \/ TimeOut(r) \/ (Receive(r) /\ Ends(r, Head(inbox[r])))
    PROVE  /\ state[r] \in Live
           /\ \E how \in Ended : End(r, how)
           /\ UNCHANGED <<closes, id, made, wire, heard, reported, lost, msg, skipped>>
           /\ ~Receive(r) => answer' = answer /\ state'[r] # "completed"
           /\ Receive(r) => /\ answer' = [answer EXCEPT ![r] = Head(inbox[r])]
                            /\ found' = found
                            /\ state'[r] = "completed" => Head(inbox[r]).kind = "done"
<1> USE DEF Live, Ended, lineVars, readerVars
<1>1. CASE SendFails(r)
  <2>1. ~Receive(r)
    BY <1>1 DEF SendFails, Receive
  <2> QED
    BY <1>1, <2>1 DEF SendFails, End, TypeOK
<1>2. CASE TimeOut(r)
  <2>1. state'[r] = "timedout"
    BY <1>2 DEF TimeOut, End, TypeOK
  <2>2. ~Receive(r)
    <3>1. CASE Ends(r, Head(inbox[r])) /\ Receive(r)
      <4>1. state'[r] \in {"failed", "completed"}
        BY <3>1 DEF Receive, End, TypeOK
      <4> QED
        BY <2>1, <4>1
    <3>2. CASE ~Ends(r, Head(inbox[r])) /\ Receive(r)
      <4>1. state' = state /\ state[r] = "sent"
        BY <3>2 DEF Receive
      <4> QED
        BY <2>1, <4>1
    <3> QED
      BY <3>1, <3>2
  <2> QED
    BY <1>2, <2>1, <2>2 DEF TimeOut
<1>3. CASE Receive(r) /\ Ends(r, Head(inbox[r]))
  <2> DEFINE m == Head(inbox[r])
  <2>1. /\ state[r] = "sent"
        /\ End(r, IF m.kind = "error" THEN "failed" ELSE "completed")
        /\ answer' = [answer EXCEPT ![r] = m] /\ found' = found
        /\ UNCHANGED <<closes, id, made, wire, heard, reported, lost, msg, skipped>>
    BY <1>3 DEF Receive
  <2>2. state'[r] = IF m.kind = "error" THEN "failed" ELSE "completed"
    BY <2>1 DEF End, TypeOK
  <2>3. m.kind \in {"done", "error"}
    BY <1>3 DEF Ends
  <2>4. \E how \in Ended : End(r, how)
    BY <2>1
  <2> QED
    BY <1>3, <2>1, <2>2, <2>3, <2>4
<1> QED
  BY <1>1, <1>2, <1>3

\* What ends a request is a message that fits it.
LEMMA MessagesFitStep ==
    ASSUME TypeOK, IdsOfRequests, SentOnly, MessagesAreGenuine, MessagesFit, PendingIsLive,
           [Next]_vars
    PROVE  MessagesFit'
<1> USE DEF MessagesFit, requestVars, lineVars, readerVars
<1>1. ASSUME NEW r \in Requests
      PROVE  /\ inbox[r] \in Seq(Messages) /\ answer[r] \in Messages \cup {None}
             /\ \A i \in DOMAIN inbox[r] : inbox[r][i] \in Messages
  BY DEF TypeOK
<1>2. ASSUME NEW r \in Requests, NEW m \in Messages,
             m = answer[r] \/ \E i \in DOMAIN inbox[r] : m = inbox[r][i]
      PROVE  Fits(m, r)'
  <2>1. Fits(m, r)
    BY <1>2, NoneIsNothing
  <2> QED
    BY <2>1, FitsStays
<1>3. CASE UNCHANGED <<inbox, answer, state>>
  BY <1>1, <1>2, <1>3
<1>4. ASSUME NEW r \in Requests, Send(r) \/ \E prefix \in Prefixes : Register(r, prefix)
      PROVE  MessagesFit'
  <2>1. /\ UNCHANGED <<inbox, answer>>
        /\ \A q \in Requests : state'[q] = "completed" => state[q] = "completed"
    BY <1>4 DEF Send, Register, TypeOK
  <2> QED
    BY <1>1, <1>2, <2>1
<1>5. ASSUME NEW r \in Requests,
             SendFails(r) \/ TimeOut(r) \/ (Receive(r) /\ Ends(r, Head(inbox[r])))
      PROVE  MessagesFit'
  <2>1. /\ inbox'[r] = << >>
        /\ \A q \in Requests : q # r => state'[q] = state[q] /\ inbox'[q] = inbox[q]
    BY <1>5, RequestEnds, EndOfRequest
  <2>2. CASE ~Receive(r)
    <3>1. answer' = answer /\ state'[r] # "completed"
      BY <1>5, <2>2, RequestEnds
    <3>2. ASSUME NEW q \in Requests, NEW i \in DOMAIN inbox'[q]
          PROVE  Fits(inbox[q][i], q)'
      <4>1. inbox'[q] = inbox[q] /\ i \in DOMAIN inbox[q]
        BY <2>1
      <4> QED
        BY <1>1, <1>2, <4>1
    <3>3. ASSUME NEW q \in Requests, answer'[q] # None
          PROVE  Fits(answer[q], q)'
      BY <1>1, <1>2, <3>1, <3>3
    <3>4. \A q \in Requests : state'[q] = "completed" => state[q] = "completed"
      BY <2>1, <3>1
    <3> QED
      BY <3>1, <3>2, <3>3, <3>4
  <2>3. CASE Receive(r)
    <3>1. /\ answer' = [answer EXCEPT ![r] = Head(inbox[r])]
          /\ state'[r] = "completed" => Head(inbox[r]).kind = "done"
      BY <1>5, <2>3, RequestEnds
    <3>2. /\ Head(inbox[r]) \in Messages
          /\ \E i \in DOMAIN inbox[r] : Head(inbox[r]) = inbox[r][i]
      BY <1>1, <2>3, HeldInTail DEF Receive
    <3>3. answer'[r] = Head(inbox[r]) /\ \A q \in Requests : q # r => answer'[q] = answer[q]
      BY <3>1 DEF TypeOK
    <3> QED
      BY <1>1, <1>2, <2>1, <3>1, <3>2, <3>3, NoneIsNothing
  <2> QED
    BY <2>2, <2>3
<1>6. ASSUME NEW r \in Requests, Receive(r), ~Ends(r, Head(inbox[r]))
      PROVE  MessagesFit'
  <2>1. /\ inbox'[r] = Tail(inbox[r]) /\ inbox[r] # << >>
        /\ \A q \in Requests : q # r => inbox'[q] = inbox[q]
        /\ UNCHANGED <<answer, state>>
    BY <1>6 DEF Receive, TypeOK
  <2>2. \A i \in DOMAIN inbox'[r] : \E j \in DOMAIN inbox[r] : inbox'[r][i] = inbox[r][j]
    BY <1>1, <2>1, HeldInTail
  <2>3. ASSUME NEW q \in Requests, NEW i \in DOMAIN inbox'[q]
        PROVE  Fits(inbox[q][i], q)'
    <3>1. \E j \in DOMAIN inbox[q] : inbox'[q][i] = inbox[q][j]
      <4>1. CASE q = r
        BY <2>2, <4>1, Zenon
      <4>2. CASE q # r
        <5>1. inbox'[q] = inbox[q]
          BY <2>1, <4>2, Zenon
        <5> QED
          BY <5>1, Zenon
      <4> QED
        BY <4>1, <4>2
    <3> QED
      BY <1>1, <1>2, <3>1
  <2>4. ASSUME NEW q \in Requests, answer'[q] # None
        PROVE  Fits(answer[q], q)'
    BY <1>1, <1>2, <2>1, <2>4
  <2> QED
    BY <2>1, <2>3, <2>4
<1>7. CASE PutAnswer
  <2> DEFINE r == pending[msg.id]
  <2>1. msg \in Messages /\ r \in Requests /\ msg.id \in Ids
    BY <1>7 DEF PutAnswer, TypeOK, Messages
  <2>2. id[r] = msg.id
    BY <1>7, <2>1 DEF PutAnswer, PendingIsLive
  <2>3. Fits(msg, r)
    BY <2>1, <2>2, NoneIsNothing DEF Fits, MessagesAreGenuine
  <2>4. PICK m \in Messages, q \in Requests : m = msg /\ q = r
    BY <2>1
  <2>5. Fits(m, q)'
    BY <2>3, <2>4, FitsStays
  <2>6. /\ inbox'[q] = Append(inbox[q], m)
        /\ \A p \in Requests : p # q => inbox'[p] = inbox[p]
        /\ UNCHANGED <<answer, state>>
    BY <1>7, <2>1, <2>4 DEF PutAnswer, TypeOK
  <2>7. \A i \in DOMAIN inbox'[q] :
           inbox'[q][i] = m \/ \E j \in DOMAIN inbox[q] : inbox'[q][i] = inbox[q][j]
    BY <1>1, <2>6, HeldInAppend
  <2> HIDE DEF r
  <2>8. ASSUME NEW p \in Requests, NEW i \in DOMAIN inbox'[p]
        PROVE  Fits(inbox[p][i], p)'
    <3>1. CASE p = q /\ inbox'[q][i] = m
      BY <2>5, <3>1
    <3>2. CASE \E j \in DOMAIN inbox[p] : inbox'[p][i] = inbox[p][j]
      BY <1>1, <1>2, <3>2
    <3> QED
      BY <2>6, <2>7, <3>1, <3>2
  <2>9. ASSUME NEW p \in Requests, answer'[p] # None
        PROVE  Fits(answer[p], p)'
    BY <1>1, <1>2, <2>6, <2>9
  <2> QED
    BY <2>6, <2>8, <2>9
<1>8. ASSUME NEW r \in Requests, Gateway(r)
      PROVE  MessagesFit'
  BY <1>3, <1>8 DEF Gateway, Answer, Report
<1>9. CASE Tick \/ LoseLine \/ TakeLine \/ LookupFails \/ Close \/ UNCHANGED vars
  BY <1>3, <1>9 DEF Tick, LoseLine, TakeLine, LookupFails, Close, vars
<1> QED
  BY <1>4, <1>5, <1>6, <1>7, <1>8, <1>9 DEF Next, Request, Reader

\* An entry is made for a request, and taken away at its end.
LEMMA PendingIsLiveStep ==
    ASSUME TypeOK, IdsOfRequests, PendingIsLive, [Next]_vars
    PROVE  PendingIsLive'
<1> USE DEF PendingIsLive, requestVars, lineVars, readerVars
<1>1. ASSUME NEW r \in Requests, state[r] # "idle", ~Collides(r)'
      PROVE  ~Collides(r) /\ id'[r] = id[r] /\ id[r] \in Ids
  BY <1>1, HasId, IdsStay, CollidesStays
<1>2. ASSUME UNCHANGED <<pending, closes>>,
             \A r \in Requests : state'[r] \in Live <=> state[r] \in Live
      PROVE  PendingIsLive'
  <2>1. ASSUME NEW i \in Ids, pending'[i] # None
        PROVE  state'[pending'[i]] \in Live /\ id'[pending'[i]] = i
    <3>1. pending[i] \in Requests /\ state[pending[i]] \in Live /\ id[pending[i]] = i
      BY <1>2, <2>1 DEF TypeOK
    <3>2. id'[pending[i]] = i
      BY <3>1, IdsStay, NoneIsNothing
    <3> QED
      BY <1>2, <3>1, <3>2
  <2>2. ASSUME NEW r \in Requests, state'[r] \in Live, ~Collides(r)', closes' = 0
        PROVE  pending'[id'[r]] = r
    BY <1>1, <1>2, <2>2 DEF Live
  <2> QED
    BY <2>1, <2>2
<1>3. ASSUME NEW r \in Requests, NEW prefix \in Prefixes, Register(r, prefix)
      PROVE  PendingIsLive'
  <2> DEFINE new == <<prefix, clock>>
  <2>1. new \in Ids /\ new[2] = clock
    BY DEF Ids, TypeOK
  <2>2. /\ state[r] = "idle" /\ state'[r] \in Live /\ id'[r] = new /\ made'[r] = clock
        /\ \A q \in Requests : q # r => /\ state'[q] = state[q] /\ id'[q] = id[q]
                                        /\ made'[q] = made[q]
        /\ pending'[new] = r /\ \A i \in Ids : i # new => pending'[i] = pending[i]
        /\ closes' = closes
    BY <1>3, <2>1 DEF Register, TypeOK, Live
  <2> HIDE DEF new
  <2>3. ASSUME NEW i \in Ids, pending'[i] # None
        PROVE  state'[pending'[i]] \in Live /\ id'[pending'[i]] = i
    <3>1. CASE i = new
      BY <2>2, <3>1
    <3>2. CASE i # new
      <4>1. pending[i] \in Requests /\ state[pending[i]] \in Live /\ id[pending[i]] = i
        BY <2>2, <2>3, <3>2 DEF TypeOK
      <4>2. pending[i] # r
        BY <2>2, <4>1 DEF Live
      <4> QED
        BY <2>2, <3>2, <4>1, <4>2
    <3> QED
      BY <3>1, <3>2
  <2>4. ASSUME NEW q \in Requests, state'[q] \in Live, ~Collides(q)', closes' = 0
        PROVE  pending'[id'[q]] = q
    <3>1. CASE q = r
      BY <2>2, <3>1
    <3>2. CASE q # r
      <4>1. /\ state[q] \in Live /\ ~Collides(q) /\ id'[q] = id[q] /\ id[q] \in Ids
            /\ made'[q] = id[q][2]
        BY <1>1, <2>2, <2>4, <3>2, NoneIsNothing DEF Live, IdsOfRequests
      <4>2. id[q] # new
        BY <2>1, <2>2, <2>4, <3>2, <4>1, NoneIsNothing DEF Collides
      <4> QED
        BY <2>2, <2>4, <4>1, <4>2
    <3> QED
      BY <3>1, <3>2
  <2> QED
    BY <2>3, <2>4
<1>4. ASSUME NEW r \in Requests,
             SendFails(r) \/ TimeOut(r) \/ (Receive(r) /\ Ends(r, Head(inbox[r])))
      PROVE  PendingIsLive'
  <2>1. /\ state[r] \in Live /\ id[r] \in Ids /\ pending'[id[r]] = None
        /\ \A q \in Requests : q # r => state'[q] = state[q]
        /\ state'[r] \in Ended
        /\ \A i \in Ids : i # id[r] => pending'[i] = pending[i]
        /\ UNCHANGED <<closes, id, made>>
    BY <1>4, RequestEnds, EndOfRequest, HasId DEF Live
  <2>2. ASSUME NEW i \in Ids, pending'[i] # None
        PROVE  state'[pending'[i]] \in Live /\ id'[pending'[i]] = i
    <3>1. i # id[r] /\ pending'[i] = pending[i]
      BY <2>1, <2>2
    <3>2. pending[i] \in Requests /\ state[pending[i]] \in Live /\ id[pending[i]] = i
      BY <2>2, <3>1 DEF TypeOK
    <3> QED
      BY <2>1, <3>1, <3>2
  <2>3. ASSUME NEW q \in Requests, state'[q] \in Live, ~Collides(q)', closes' = 0
        PROVE  pending'[id'[q]] = q
    <3>1. q # r
      BY <2>1, <2>3 DEF Live, Ended
    <3>2. state[q] \in Live /\ ~Collides(q) /\ id'[q] = id[q] /\ id[q] \in Ids
      BY <1>1, <2>1, <2>3, <3>1 DEF Live
    <3>3. id[q] # id[r]
      BY <2>1, <3>1, <3>2, SharedId, NoneIsNothing
    <3> QED
      BY <2>1, <2>3, <3>2, <3>3
  <2> QED
    BY <2>2, <2>3
<1>5. ASSUME NEW r \in Requests, Send(r) \/ (Receive(r) /\ ~Ends(r, Head(inbox[r])))
      PROVE  PendingIsLive'
  <2>1. /\ UNCHANGED <<pending, closes>>
        /\ \A q \in Requests : state'[q] \in Live <=> state[q] \in Live
    BY <1>5 DEF Send, Receive, Live, TypeOK
  <2> QED
    BY <1>2, <2>1
<1>6. ASSUME NEW r \in Requests, Gateway(r)
      PROVE  PendingIsLive'
  BY <1>2, <1>6 DEF Gateway, Answer, Report
<1>7. CASE Close
  <2>1. /\ \A i \in Ids : pending'[i] = None
        /\ closes' # 0
    BY <1>7 DEF Close, TypeOK
  <2> QED
    BY <2>1
<1>8. CASE Tick \/ LoseLine \/ Reader \/ UNCHANGED vars
  BY <1>2, <1>8 DEF Tick, LoseLine, Reader, TakeLine, PutAnswer, LookupFails, vars
<1> QED
  BY <1>3, <1>4, <1>5, <1>6, <1>7, <1>8 DEF Next, Request

\* The reader loses the queue of a message only if its request gave it up.
LEMMA EventSkippedStep ==
    ASSUME TypeOK, IdsOfRequests, MessagesAreGenuine, PendingIsLive, EventSkippedOnlyAfterEnd,
           [Next]_vars
    PROVE  EventSkippedOnlyAfterEnd'
<1> USE DEF EventSkippedOnlyAfterEnd, requestVars, lineVars, readerVars
<1>1. closes \in Nat /\ closes' \in Nat /\ closes <= closes'
  <2>1. CASE Close
    BY <2>1 DEF Close, TypeOK
  <2>2. CASE closes' = closes
    BY <2>2 DEF TypeOK
  <2>3. ASSUME NEW r \in Requests, Request(r) PROVE closes' = closes
    BY <2>3 DEF Request, Register, Send, SendFails, Receive, TimeOut
  <2>4. ASSUME NEW r \in Requests, Gateway(r) PROVE closes' = closes
    BY <2>4 DEF Gateway, Answer, Report
  <2>5. CASE Tick \/ LoseLine \/ Reader \/ UNCHANGED vars
    BY <2>2, <2>5 DEF Tick, LoseLine, Reader, TakeLine, PutAnswer, LookupFails, vars
  <2> QED
    BY <2>1, <2>2, <2>3, <2>4, <2>5 DEF Next
<1>2. ASSUME NEW r \in Requests, state[r] \in Ended \/ Collides(r) \/ closes > 0
      PROVE  (state[r] \in Ended \/ Collides(r) \/ closes > 0)'
  <2>1. Collides(r) => Collides(r)'
    BY CollidesStays DEF Collides
  <2> QED
    BY <1>1, <1>2, <2>1, SentStays
<1>3. CASE skipped' = skipped
  BY <1>2, <1>3 DEF TypeOK
<1>4. CASE LookupFails
  <2>1. /\ msg \in Messages /\ pending[msg.id] = None /\ skipped' = skipped \cup {msg.of}
        /\ msg.of \in Requests /\ Genuine(msg)
    BY <1>4 DEF LookupFails, TypeOK, Messages, MessagesAreGenuine
  <2>2. state[msg.of] \in Live \cup Ended /\ pending[id[msg.of]] # msg.of
    BY <2>1, NoneIsNothing DEF Genuine, TypeOK, Unsent, Live
  <2>3. state[msg.of] \in Ended \/ Collides(msg.of) \/ closes > 0
    BY <1>1, <2>1, <2>2 DEF PendingIsLive
  <2>4. PICK r \in Requests : r = msg.of
    BY <2>1
  <2> QED
    BY <1>2, <2>1, <2>3, <2>4 DEF TypeOK
<1>5. ASSUME NEW r \in Requests, Request(r) PROVE skipped' = skipped
  BY <1>5 DEF Request, Register, Send, SendFails, Receive, TimeOut
<1>6. ASSUME NEW r \in Requests, Gateway(r) PROVE skipped' = skipped
  BY <1>6 DEF Gateway, Answer, Report
<1>7. CASE Tick \/ LoseLine \/ TakeLine \/ PutAnswer \/ Close \/ UNCHANGED vars
  BY <1>3, <1>7 DEF Tick, LoseLine, TakeLine, PutAnswer, Close, vars
<1> QED
  BY <1>3, <1>4, <1>5, <1>6, <1>7 DEF Next, Reader

-----------------------------------------------------------------------------
(* Scans: every device stays ahead of the end of its scan.                  *)

\* A message that carries the id of a request that does not collide answers it.
LEMMA OwnMessage ==
    ASSUME TypeOK, IdsOfRequests, NEW r \in Requests, ~Collides(r),
           NEW m \in Messages, Fits(m, r)
    PROVE  m.of = r
<1>1. m.of \in Requests /\ m.id \in Ids
  BY DEF Messages
<1> QED
  BY <1>1, SharedId, NoneIsNothing DEF Fits, Genuine

\* The parts of the invariant that a scan r needs.
ScanContext(r) ==
    /\ TypeOK /\ IdsOfRequests /\ SentOnly /\ MessagesAreGenuine /\ MessagesFit
    /\ PendingIsLive /\ Scans(r) /\ ~Collides(r) /\ ScanInOrder(r)

\* The order depends on what concerns r only, and on no other entry.
LEMMA ScanUndisturbed ==
    ASSUME NEW r \in Requests, ScanInOrder(r), id'[r] = id[r],
           found'[r] = found[r], reported'[r] = reported[r], lost[r] \subseteq lost'[r],
           inbox'[r] = inbox[r], wire' = wire, msg' = msg,
           state'[r] = "completed" => state[r] = "completed",
           pending'[id[r]] = r => pending[id[r]] = r,
           r \in heard' => r \in heard
    PROVE  ScanInOrder(r)'
BY DEF ScanInOrder, Missing, Ahead, Queued, InHand, Holds

\* Nothing is missing if nothing was reported.
LEMMA NothingReported ==
    ASSUME NEW r \in Requests, reported'[r] = {}, found'[r] = {}
    PROVE  ScanInOrder(r)'
BY DEF ScanInOrder, Missing, Ahead

\* A request that ends leaves the others alone, and takes its matches as they are.
LEMMA ScanAfterEnd ==
    ASSUME NEW r \in Requests, ScanContext(r), NEW q \in Requests,
           SendFails(q) \/ TimeOut(q) \/ (Receive(q) /\ Ends(q, Head(inbox[q])))
    PROVE  ScanInOrder(r)'
<1> USE DEF ScanContext
<1>1. /\ state'[q] \in Ended /\ inbox'[q] = << >> /\ pending'[id[q]] = None
      /\ id[q] \in Ids
      /\ \A p \in Requests : p # q => state'[p] = state[p] /\ inbox'[p] = inbox[p]
      /\ \A i \in Ids : i # id[q] => pending'[i] = pending[i]
      /\ UNCHANGED <<closes, id, made, wire, heard, reported, lost, msg, skipped>>
      /\ ~Receive(q) => state'[q] # "completed"
      /\ Receive(q) => found' = found /\ (state'[q] = "completed" => Head(inbox[q]).kind = "done")
  BY RequestEnds, EndOfRequest, HasId DEF Live
<1>2. id[r] \in Ids /\ id[r] # None
  BY DEF Scans, TypeOK
<1>3. CASE q # r
  <2>1. found'[r] = found[r]
    <3>1. CASE Receive(q)
      BY <1>1, <3>1
    <3>2. CASE ~Receive(q)
      BY <1>3, <3>2 DEF SendFails, TimeOut, TypeOK
    <3> QED
      BY <3>1, <3>2
  <2>2. pending'[id[r]] = r => pending[id[r]] = r
    BY <1>1, <1>2, NoneIsNothing
  <2> QED
    BY <1>1, <1>3, <2>1, <2>2, ScanUndisturbed
<1>4. CASE q = r
  <2>1. pending'[id'[r]] # r /\ inbox'[r] = << >>
    BY <1>1, <1>4, NoneIsNothing
  <2>2. found'[r] \subseteq reported'[r]
    <3>1. CASE Receive(r)
      BY <1>1, <1>4, <3>1 DEF ScanInOrder
    <3>2. CASE ~Receive(r)
      <4>1. found'[r] \in {{}, found[r]}
        BY <1>4, <3>2 DEF SendFails, TimeOut, TypeOK
      <4> QED
        BY <1>1, <4>1 DEF ScanInOrder
    <3> QED
      BY <3>1, <3>2
  <2>3. state'[r] = "completed" => Missing(r)' = {}
    <3>1. SUFFICES ASSUME state'[r] = "completed" PROVE Missing(r)' = {}
      OBVIOUS
    <3>2. Receive(r) /\ found' = found /\ Head(inbox[r]).kind = "done"
      BY <1>1, <1>4, <3>1
    <3>3. inbox[r] \in Seq(Messages) /\ inbox[r] # << >>
      BY <3>2 DEF Receive, TypeOK
    <3>4. 1 \in DOMAIN inbox[r] /\ inbox[r][1].kind = "done" /\ DOMAIN inbox[r] \subseteq Nat \ {0}
      BY <3>2, <3>3, HeldInTail
    <3>5. \A d : ~Holds(inbox[r], 1, r, d)
      BY <3>4 DEF Holds
    <3> QED
      BY <1>1, <3>2, <3>4, <3>5 DEF ScanInOrder, Missing
  <2> QED
    BY <2>1, <2>2, <2>3 DEF ScanInOrder
<1> QED
  BY <1>3, <1>4

\* A scan takes a result from its queue to its matches.
LEMMA ScanAfterResult ==
    ASSUME NEW r \in Requests, ScanContext(r), Receive(r), ~Ends(r, Head(inbox[r]))
    PROVE  ScanInOrder(r)'
<1> USE DEF ScanContext
<1> DEFINE m == Head(inbox[r])
<1>1. /\ inbox[r] \in Seq(Messages) /\ inbox[r] # << >>
      /\ inbox'[r] = Tail(inbox[r])
      /\ found'[r] = found[r] \cup ({m.device} \ {None})
      /\ UNCHANGED <<state, pending, id, reported, lost, heard, wire, msg>>
  BY DEF Receive, TypeOK, lineVars, readerVars
<1>2. m \in Messages /\ 1 \in DOMAIN inbox[r] /\ m = inbox[r][1]
  BY <1>1, HeldInTail
<1>3. Fits(m, r)
  BY <1>2 DEF MessagesFit
<1>4. m.of = r
  BY <1>2, <1>3, OwnMessage
<1>5. found'[r] \subseteq reported[r]
  BY <1>1, <1>3, <1>4 DEF ScanInOrder, Fits, Genuine
<1>6. Missing(r)' = Missing(r) \ {m.device}
  <2>1. Missing(r) \subseteq Devices
    BY DEF Missing, TypeOK
  <2> QED
    BY <1>1, <2>1, NoneIsNothing DEF Missing
<1>7. ASSUME NEW d \in Missing(r)', NEW n \in Int, Holds(inbox[r], n, r, d)
      PROVE  Holds(inbox'[r], n - 1, r, d)
  <2>1. m.device # d
    BY <1>6, <1>7
  <2>2. Head(inbox[r]).device = d \/ Holds(Tail(inbox[r]), n - 1, r, d)
    BY <1>1, <1>7, HeldInTail
  <2> QED
    BY <1>1, <2>1, <2>2
<1>8. Len(inbox[r]) \in Nat /\ Len(inbox'[r]) = Len(inbox[r]) - 1
  BY <1>1, HeldInTail
<1>9. ASSUME NEW d \in Missing(r)', Queued(r, d)
      PROVE  Queued(r, d)'
  <2>1. Holds(inbox'[r], (Len(inbox[r]) + 1) - 1, r, d)
    BY <1>7, <1>8, <1>9 DEF Queued
  <2>2. (Len(inbox[r]) + 1) - 1 = Len(inbox'[r]) + 1
    BY <1>8
  <2> QED
    BY <2>1, <2>2 DEF Queued
<1>10. \A j \in DOMAIN inbox'[r] : inbox'[r][j].kind = "done" =>
          \A d \in Missing(r)' : Holds(inbox'[r], j, r, d)
  <2> SUFFICES ASSUME NEW j \in DOMAIN inbox'[r], inbox'[r][j].kind = "done", NEW d \in Missing(r)'
               PROVE  Holds(inbox'[r], j, r, d)
    OBVIOUS
  <2>1. /\ j \in Nat /\ j + 1 \in DOMAIN inbox[r] /\ inbox[r][j + 1].kind = "done"
        /\ (j + 1) - 1 = j
    BY <1>1, HeldInTail
  <2>2. Holds(inbox[r], j + 1, r, d)
    BY <1>6, <2>1 DEF ScanInOrder
  <2> QED
    BY <1>7, <2>1, <2>2
<1> HIDE DEF m
<1>11. \A n : Ahead(r, n) => Ahead(r, n)'
  <2> SUFFICES ASSUME NEW n, Ahead(r, n), NEW d \in Missing(r)'
               PROVE  (Queued(r, d) \/ InHand(r, d) \/ Holds(wire, n, r, d))'
    BY DEF Ahead
  <2>1. Queued(r, d) \/ InHand(r, d) \/ Holds(wire, n, r, d)
    BY <1>6 DEF Ahead
  <2> QED
    BY <1>1, <1>9, <2>1 DEF InHand, Holds
<1> QED
  BY <1>1, <1>5, <1>6, <1>9, <1>10, <1>11 DEF ScanInOrder

\* A line that ends the reading of all others leaves nothing missing on them.
LEMMA ScanAfterLosingAll ==
    ASSUME NEW r \in Requests, ScanContext(r), LoseAll,
           UNCHANGED <<id, found, inbox, msg, reported>>,
           state'[r] = "completed" => state[r] = "completed",
           pending'[id[r]] = r => pending[id[r]] = r,
           r \in heard' => r \in heard
    PROVE  ScanInOrder(r)'
<1> USE DEF ScanContext
<1>1. wire' = << >> /\ lost'[r] = lost[r] \cup OnLine(r) /\ DOMAIN << >> = {}
  BY DEF LoseAll, TypeOK
<1>2. ASSUME NEW d \in Missing(r)'
      PROVE  d \in Missing(r) /\ \A n : ~Holds(wire, n, r, d)
  <2>1. d \in reported[r] /\ d \notin lost[r] /\ d \notin OnLine(r) /\ d \notin found[r]
    BY <1>1, <1>2 DEF Missing
  <2>2. d # None
    BY <2>1, NoneIsNothing DEF TypeOK
  <2>3. \A i \in DOMAIN wire : wire[i].of = r => wire[i].device # d
    BY <2>1, <2>2 DEF OnLine
  <2> QED
    BY <2>1, <2>3 DEF Missing, Holds
<1>3. \A n, k : Ahead(r, n) => Ahead(r, k)'
  <2> SUFFICES ASSUME NEW n, NEW k, Ahead(r, n), NEW d \in Missing(r)'
               PROVE  (Queued(r, d) \/ InHand(r, d))'
    BY DEF Ahead
  <2>1. Queued(r, d) \/ InHand(r, d)
    BY <1>2 DEF Ahead
  <2> QED
    BY <2>1 DEF Queued, InHand, Holds
<1>4. \A d \in Missing(r)' : \A n : Holds(inbox[r], n, r, d) => Holds(inbox[r], n, r, d)'
  BY DEF Holds
<1>5. \A d \in Missing(r) : Queued(r, d) => Queued(r, d)'
  BY DEF Queued, Holds
<1>6. DOMAIN wire' = {}
  BY <1>1
<1>7. \A j \in DOMAIN inbox'[r] : inbox'[r][j].kind = "done" =>
          \A d \in Missing(r)' : Holds(inbox'[r], j, r, d)
  BY <1>2 DEF ScanInOrder
<1>8. found'[r] \subseteq reported'[r] /\ (state'[r] = "completed" => Missing(r)' = {})
  BY <1>2 DEF ScanInOrder
<1> QED
  BY <1>2, <1>3, <1>5, <1>6, <1>7, <1>8 DEF ScanInOrder

\* What is ahead of n on its way to the client stays so, if the line only grows.
LEMMA AheadInAppend ==
    ASSUME NEW r \in Requests, NEW n, Ahead(r, n), NEW m \in Messages,
           wire \in Seq(Messages), wire' = Append(wire, m),
           UNCHANGED <<inbox, msg>>, Missing(r)' \subseteq Missing(r)
    PROVE  Ahead(r, n)'
<1> SUFFICES ASSUME NEW d \in Missing(r)'
             PROVE  (Queued(r, d) \/ InHand(r, d) \/ Holds(wire, n, r, d))'
  BY DEF Ahead
<1>1. Queued(r, d) \/ InHand(r, d) \/ Holds(wire, n, r, d)
  BY DEF Ahead
<1>2. CASE Queued(r, d) \/ InHand(r, d)
  BY <1>2 DEF Queued, InHand, Holds
<1>3. CASE Holds(wire, n, r, d)
  <2>1. Holds(Append(wire, m), n, r, d)
    BY <1>3, HeldInAppend
  <2> QED
    BY <2>1 DEF Holds
<1> QED
  BY <1>1, <1>2, <1>3

\* A message about a request that was not yet answered comes after all that it
\* reported, and one about another request is of no concern.
LEMMA ScanAfterPut ==
    ASSUME NEW r \in Requests, ScanContext(r), NEW m \in Messages, Put(m),
           m.of = r => r \in heard, heard' \subseteq heard,
           UNCHANGED <<pending, state, id, inbox, found, lost, msg>>, reported'[r] = reported[r]
    PROVE  ScanInOrder(r)'
<1> USE DEF ScanContext
<1>1. wire' = Append(wire, m) /\ wire \in Seq(Messages)
  BY DEF Put, TypeOK
<1>2. Missing(r)' = Missing(r)
  BY DEF Missing
<1>3. \A n : Ahead(r, n) => Ahead(r, n)'
  BY <1>1, <1>2, AheadInAppend
<1>4. PICK n \in Nat :
         /\ n = Len(wire) + 1 /\ Len(wire') = n
         /\ DOMAIN wire' = DOMAIN wire \cup {n} /\ wire'[n] = m
         /\ \A j \in DOMAIN wire : wire'[j] = wire[j]
  BY <1>1, HeldInAppend
<1>5. ASSUME pending[id[r]] = r
      PROVE  /\ \A j \in DOMAIN wire' : wire'[j].of = r /\ wire'[j].kind = "done" => Ahead(r, j)'
             /\ r \in heard' => Ahead(r, n + 1)'
  <2>1. r \in heard => Ahead(r, n)
    BY <1>4, <1>5 DEF ScanInOrder
  <2>2. \A j \in DOMAIN wire : wire[j].of = r /\ wire[j].kind = "done" => Ahead(r, j)
    BY <1>5 DEF ScanInOrder
  <2>3. ASSUME NEW j \in DOMAIN wire', wire'[j].of = r, wire'[j].kind = "done"
        PROVE  Ahead(r, j)'
    <3>1. CASE j \in DOMAIN wire
      BY <1>3, <1>4, <2>2, <2>3, <3>1
    <3>2. CASE j = n
      BY <1>3, <1>4, <2>1, <2>3, <3>2
    <3> QED
      BY <1>4, <2>3, <3>1, <3>2
  <2>4. ASSUME r \in heard' PROVE Ahead(r, n + 1)'
    <3>1. Ahead(r, n)'
      BY <1>3, <2>1, <2>4
    <3>2. wire' \in Seq(Messages)
      BY <1>1
    <3>3. \A d : Holds(wire', n, r, d) => Holds(wire', n + 1, r, d)
      BY <1>4, <3>2, HeldAtAll
    <3> QED
      BY <3>1, <3>3 DEF Ahead, Holds
  <2> QED
    BY <2>3, <2>4
<1>6. \A d : Queued(r, d)' <=> Queued(r, d)
  BY DEF Queued, Holds
<1> QED
  BY <1>2, <1>4, <1>5, <1>6 DEF ScanInOrder

\* The gateway answers a scan once, when all it reported is on its way.
LEMMA ScanAfterAnswer ==
    ASSUME NEW r \in Requests, ScanContext(r), NEW q \in Requests,
           NEW kind \in {"done", "error"}, Answer(q, kind)
    PROVE  ScanInOrder(r)'
<1> DEFINE m == [id |-> id[q], of |-> q, kind |-> kind, device |-> None]
<1>1. m \in Messages /\ Put(m)
  BY AnswerIsMessage DEF Put, ScanContext
<1>2. m.of = q
  OBVIOUS
<1>3. /\ q \in heard /\ heard' \subseteq heard
      /\ UNCHANGED <<pending, state, id, inbox, found, reported, lost, msg>>
  BY DEF Answer, requestVars, readerVars
<1> HIDE DEF m
<1> QED
  BY <1>1, <1>2, <1>3, ScanAfterPut

\* As long as the gateway has to answer a scan, no end of it is anywhere.
LEMMA HeardIsOpen ==
    ASSUME NEW r \in Requests, ScanContext(r), r \in heard
    PROVE  /\ state[r] # "completed"
           /\ \A j \in DOMAIN inbox[r] : inbox[r][j].kind # "done"
           /\ \A j \in DOMAIN wire : wire[j].of = r => wire[j].kind # "done"
           /\ msg # None /\ msg.of = r => msg.kind # "done"
<1> USE DEF ScanContext
<1>1. ASSUME NEW m \in Messages, Fits(m, r) PROVE m.kind = "result"
  BY <1>1, OwnMessage DEF Fits, Genuine
<1>2. /\ inbox[r] \in Seq(Messages) /\ answer[r] \in Messages \cup {None}
      /\ \A j \in DOMAIN inbox[r] : inbox[r][j] \in Messages
  BY DEF TypeOK
<1>3. state[r] # "completed"
  BY <1>1, <1>2 DEF MessagesFit
<1>4. \A j \in DOMAIN inbox[r] : inbox[r][j].kind # "done"
  BY <1>1, <1>2 DEF MessagesFit
<1>5. \A j \in DOMAIN wire : wire[j].of = r => wire[j].kind # "done"
  BY DEF MessagesAreGenuine, Genuine
<1>6. msg # None /\ msg.of = r => msg.kind # "done"
  BY DEF MessagesAreGenuine, Genuine
<1> QED
  BY <1>3, <1>4, <1>5, <1>6

\* A device that is reported goes on the line, ahead of the end of the scan.
LEMMA ScanAfterReport ==
    ASSUME NEW r \in Requests, ScanContext(r), NEW q \in Requests,
           NEW d \in Devices, Report(q, d)
    PROVE  ScanInOrder(r)'
<1> USE DEF ScanContext
<1> DEFINE m == [id |-> id[q], of |-> q, kind |-> "result", device |-> d]
<1>1. m \in Messages /\ wire' = Append(wire, m)
  BY ReportIsMessage
<1>2. m.of = q /\ m.kind = "result" /\ m.device = d
  OBVIOUS
<1>3. /\ q \in heard /\ reported' = [reported EXCEPT ![q] = reported[q] \cup {d}]
      /\ wire \in Seq(Messages)
      /\ UNCHANGED <<pending, state, id, inbox, found, lost, msg, heard>>
  BY DEF Report, TypeOK, requestVars, readerVars
<1> HIDE DEF m
<1>4. CASE q # r
  <2>1. reported'[r] = reported[r]
    BY <1>3, <1>4 DEF TypeOK
  <2> QED
    BY <1>1, <1>2, <1>3, <1>4, <2>1, ScanAfterPut DEF Put
<1>5. CASE q = r
  <2>1. reported'[r] = reported[r] \cup {d}
    BY <1>3, <1>5 DEF TypeOK
  <2>2. Missing(r)' \subseteq Missing(r) \cup {d} /\ found'[r] \subseteq reported'[r]
    BY <1>3, <2>1 DEF Missing, ScanInOrder
  <2>3. PICK n \in Nat :
          /\ n = Len(wire) + 1 /\ Len(wire') = n
          /\ DOMAIN wire' = DOMAIN wire \cup {n} /\ wire'[n] = m
          /\ \A j \in DOMAIN wire : wire'[j] = wire[j]
    BY <1>1, <1>3, HeldInAppend
  <2>4. ASSUME pending[id[r]] = r, NEW e \in Missing(r)'
        PROVE  (Queued(r, e) \/ InHand(r, e) \/ Holds(wire, n + 1, r, e))'
    <3>1. CASE e = d
      <4>1. Holds(Append(wire, m), Len(wire) + 2, r, d)
        BY <1>1, <1>2, <1>3, <1>5, HeldInAppend
      <4>2. Len(wire) + 2 = n + 1
        BY <1>3, <2>3
      <4> QED
        BY <1>1, <3>1, <4>1, <4>2 DEF Holds
    <3>2. CASE e # d
      <4>1. Queued(r, e) \/ InHand(r, e) \/ Holds(wire, n, r, e)
        BY <1>3, <1>5, <2>2, <2>3, <2>4, <3>2 DEF ScanInOrder, Ahead
      <4>2. CASE Queued(r, e) \/ InHand(r, e)
        BY <1>3, <4>2 DEF Queued, InHand, Holds
      <4>3. CASE Holds(wire, n, r, e)
        <5>1. Holds(Append(wire, m), n, r, e)
          BY <1>1, <1>3, <4>3, HeldInAppend
        <5>2. Append(wire, m) \in Seq(Messages) /\ Len(Append(wire, m)) = n
          BY <1>1, <1>3, <2>3
        <5>3. Holds(Append(wire, m), n + 1, r, e)
          BY <5>1, <5>2, HeldAtAll
        <5> QED
          BY <1>1, <5>3 DEF Holds
      <4> QED
        BY <4>1, <4>2, <4>3
    <3> QED
      BY <3>1, <3>2
  <2>5. /\ state'[r] # "completed"
        /\ \A j \in DOMAIN inbox'[r] : inbox'[r][j].kind # "done"
        /\ msg' # None /\ msg'.of = r => msg'.kind # "done"
        /\ \A j \in DOMAIN wire : wire[j].of = r => wire[j].kind # "done"
    BY <1>3, <1>5, HeardIsOpen
  <2>6. \A j \in DOMAIN wire' : wire'[j].of = r => wire'[j].kind # "done"
    BY <1>2, <2>3, <2>5
  <2>7. pending'[id'[r]] = r => Ahead(r, Len(wire) + 1)'
    <3> SUFFICES ASSUME pending[id[r]] = r, NEW e \in Missing(r)'
                 PROVE  (Queued(r, e) \/ InHand(r, e) \/ Holds(wire, Len(wire) + 1, r, e))'
      BY <1>3 DEF Ahead
    <3> QED
      BY <2>3, <2>4 DEF Holds
  <2>8. \A j \in DOMAIN inbox'[r] : inbox'[r][j].kind = "done" => FALSE
    BY <2>5
  <2> QED
    BY <2>2, <2>5, <2>6, <2>7, <2>8 DEF ScanInOrder
<1> QED
  BY <1>4, <1>5

\* What is ahead of n on its way stays so as the first line is read or lost: that
\* line is now in the reader's hands, or its device counts as lost.
HeadGoes(r) ==
    \A d \in Missing(r)' :
        /\ d \in Missing(r)
        /\ InHand(r, d) \/ (Head(wire).of = r /\ Head(wire).device = d) => InHand(r, d)'

\* The first line leaves, and the others move up.
LEMMA AheadInTail ==
    ASSUME NEW r \in Requests, NEW n \in Int, Ahead(r, n + 1),
           wire \in Seq(Messages), wire # << >>, wire' = Tail(wire), inbox'[r] = inbox[r],
           HeadGoes(r)
    PROVE  Ahead(r, n)'
<1> SUFFICES ASSUME NEW d \in Missing(r)'
             PROVE  (Queued(r, d) \/ InHand(r, d) \/ Holds(wire, n, r, d))'
  BY DEF Ahead
<1>1. Queued(r, d) \/ InHand(r, d) \/ Holds(wire, n + 1, r, d)
  BY DEF Ahead, HeadGoes
<1>2. CASE Queued(r, d)
  BY <1>2 DEF Queued, Holds
<1>3. CASE InHand(r, d)
  BY <1>3 DEF HeadGoes
<1>4. CASE Holds(wire, n + 1, r, d)
  <2>1. PICK k \in Int : k = n + 1 /\ k - 1 = n
    OBVIOUS
  <2>2. (Head(wire).of = r /\ Head(wire).device = d) \/ Holds(Tail(wire), k - 1, r, d)
    BY <1>4, <2>1, HeldInTail
  <2> QED
    BY <2>1, <2>2 DEF HeadGoes, Holds
<1> QED
  BY <1>1, <1>2, <1>3, <1>4

\* A line that is read or lost leaves the order of the others.
LEMMA ScanAfterTail ==
    ASSUME NEW r \in Requests, ScanContext(r),
           wire # << >>, wire' = Tail(wire), HeadGoes(r),
           UNCHANGED <<pending, state, id, inbox, found, reported, heard>>,
           pending[id[r]] = r /\ msg' # None /\ msg'.of = r /\ msg'.kind = "done" =>
               \A d \in Missing(r) : Queued(r, d)
    PROVE  ScanInOrder(r)'
<1> USE DEF ScanContext
<1>1. wire \in Seq(Messages)
  BY DEF TypeOK
<1>2. \A d \in Missing(r)' : d \in Missing(r)
  BY DEF HeadGoes
<1>3. \A d : Queued(r, d)' <=> Queued(r, d)
  BY DEF Queued, Holds
<1>4. \A n \in Int : Ahead(r, n + 1) => Ahead(r, n)'
  BY <1>1, AheadInTail
<1>5. PICK n \in Nat : n = Len(wire) /\ Len(wire') + 1 = n
  BY <1>1, HeldInTail
<1>6. ASSUME pending[id[r]] = r
      PROVE  /\ \A j \in DOMAIN wire' : wire'[j].of = r /\ wire'[j].kind = "done" => Ahead(r, j)'
             /\ r \in heard' => Ahead(r, n)'
  <2>1. ASSUME NEW j \in DOMAIN wire', wire'[j].of = r, wire'[j].kind = "done"
        PROVE  Ahead(r, j)'
    <3>1. j \in Nat /\ j + 1 \in DOMAIN wire /\ wire[j + 1] = wire'[j]
      BY <1>1, HeldInTail
    <3>2. Ahead(r, j + 1)
      BY <1>6, <2>1, <3>1 DEF ScanInOrder
    <3> QED
      BY <1>4, <3>1, <3>2
  <2>2. ASSUME r \in heard' PROVE Ahead(r, n)'
    <3>1. Ahead(r, n + 1)
      BY <1>5, <1>6, <2>2 DEF ScanInOrder
    <3> QED
      BY <1>4, <1>5, <3>1
  <2> QED
    BY <2>1, <2>2
<1>7. found'[r] \subseteq reported'[r] /\ (state'[r] = "completed" => Missing(r)' = {})
  BY <1>2 DEF ScanInOrder
<1>8. \A j \in DOMAIN inbox'[r] : inbox'[r][j].kind = "done" =>
          \A d \in Missing(r)' : Holds(inbox'[r], j, r, d)
  BY <1>2 DEF ScanInOrder
<1> QED
  BY <1>2, <1>3, <1>5, <1>6, <1>7, <1>8 DEF ScanInOrder

\* A device whose line is lost is missing no more.
LEMMA ScanAfterLoss ==
    ASSUME NEW r \in Requests, ScanContext(r), LoseLine
    PROVE  ScanInOrder(r)'
<1> USE DEF ScanContext
<1>1. /\ wire # << >> /\ wire' = Tail(wire)
      /\ UNCHANGED <<pending, state, id, inbox, found, reported, heard, msg>>
  BY DEF LoseLine, requestVars, readerVars
<1>2. Head(wire) \in Messages
  BY <1>1, HeldInTail DEF TypeOK
<1>3. /\ Head(wire).of \in Requests
      /\ lost[r] \subseteq lost'[r]
      /\ Head(wire).of = r => Head(wire).device \in lost'[r] \cup {None}
  BY <1>2 DEF LoseLine, TypeOK, Messages
<1>4. None \notin Missing(r)'
  BY <1>1, NoneIsNothing DEF Missing, TypeOK
<1>5. HeadGoes(r)
  BY <1>1, <1>3, <1>4 DEF HeadGoes, Missing, InHand
<1>6. pending[id[r]] = r /\ msg' # None /\ msg'.of = r /\ msg'.kind = "done" =>
          \A d \in Missing(r) : Queued(r, d)
  BY <1>1 DEF ScanInOrder
<1> QED
  BY <1>1, <1>5, <1>6, ScanAfterTail

\* The reader takes a line about a scan under way into its hands.
LEMMA ScanAfterTake ==
    ASSUME NEW r \in Requests, ScanContext(r), TakeLine
    PROVE  ScanInOrder(r)'
<1> USE DEF ScanContext
<1>1. /\ wire # << >> /\ wire' = Tail(wire) /\ msg = None
      /\ msg' = IF pending[Head(wire).id] # None THEN Head(wire) ELSE None
      /\ UNCHANGED <<pending, state, id, inbox, found, reported, heard, lost>>
  BY DEF TakeLine, requestVars
<1>2. Head(wire) \in Messages /\ Head(wire) = wire[1] /\ 1 \in DOMAIN wire
  BY <1>1, HeldInTail DEF TypeOK
<1>3. CASE pending[id[r]] = r
  <2>1. Head(wire).of = r => msg' = Head(wire)
    BY <1>1, <1>2, <1>3, NoneIsNothing DEF MessagesAreGenuine, Genuine
  <2>2. HeadGoes(r)
    BY <1>1, <1>2, <2>1, NoneIsNothing DEF HeadGoes, Missing, InHand
  <2>3. Head(wire).of = r /\ Head(wire).kind = "done" => Ahead(r, 1)
    BY <1>2, <1>3 DEF ScanInOrder
  <2>4. \A d : ~Holds(wire, 1, r, d)
    <3>1. DOMAIN wire \subseteq Nat \ {0}
      BY DEF TypeOK
    <3> QED
      BY <3>1 DEF Holds
  <2>5. msg' # None /\ msg'.of = r /\ msg'.kind = "done" => \A d \in Missing(r) : Queued(r, d)
    BY <1>1, <2>3, <2>4 DEF Ahead, InHand
  <2> QED
    BY <1>1, <2>2, <2>5, ScanAfterTail
<1>4. CASE pending[id[r]] # r
  BY <1>1, <1>4 DEF ScanInOrder, Missing, Holds
<1> QED
  BY <1>3, <1>4

\* A message about another request leaves the reader's hands.
LEMMA ScanAfterHandOver ==
    ASSUME NEW r \in Requests, ScanContext(r), msg' = None, pending[id[r]] = r => msg.of # r,
           UNCHANGED <<pending, state, id, found, wire, reported, heard, lost>>,
           inbox'[r] = inbox[r]
    PROVE  ScanInOrder(r)'
<1> USE DEF ScanContext
<1>1. Missing(r)' = Missing(r) /\ \A d : Queued(r, d)' <=> Queued(r, d)
  BY DEF Missing, Queued, Holds
<1>2. \A n : pending[id[r]] = r /\ Ahead(r, n) => Ahead(r, n)'
  <2> SUFFICES ASSUME NEW n, pending[id[r]] = r, Ahead(r, n), NEW d \in Missing(r)
               PROVE  (Queued(r, d) \/ Holds(wire, n, r, d))'
    BY <1>1 DEF Ahead
  <2>1. Queued(r, d) \/ Holds(wire, n, r, d)
    BY DEF Ahead, InHand
  <2> QED
    BY <1>1, <2>1 DEF Holds
<1>3. PICK n : n = Len(wire) + 1
  OBVIOUS
<1>4. pending[id[r]] = r => /\ \A j \in DOMAIN wire : wire[j].of = r /\ wire[j].kind = "done" =>
                                  Ahead(r, j)'
                            /\ r \in heard => Ahead(r, n)'
  BY <1>2, <1>3 DEF ScanInOrder
<1> QED
  BY <1>1, <1>3, <1>4 DEF ScanInOrder

\* The reader puts the message in its hands into the queue of its request.
LEMMA ScanAfterPutAnswer ==
    ASSUME NEW r \in Requests, ScanContext(r), PutAnswer
    PROVE  ScanInOrder(r)'
<1> USE DEF ScanContext
<1>1. /\ msg \in Messages /\ msg # None /\ msg' = None /\ Genuine(msg)
      /\ pending[msg.id] \in Requests /\ msg.id \in Ids
      /\ UNCHANGED <<pending, state, id, found, wire, reported, heard, lost>>
      /\ inbox[r] \in Seq(Messages)
  BY DEF PutAnswer, TypeOK, Messages, lineVars, MessagesAreGenuine
<1>2. CASE pending[msg.id] # r
  <2>1. inbox'[r] = inbox[r]
    BY <1>1, <1>2 DEF PutAnswer, TypeOK
  <2>2. pending[id[r]] = r => msg.of # r
    BY <1>1, <1>2 DEF Genuine
  <2> QED
    BY <1>1, <2>1, <2>2, ScanAfterHandOver
<1>3. CASE pending[msg.id] = r
  <2>1. inbox'[r] = Append(inbox[r], msg)
    BY <1>1, <1>3 DEF PutAnswer, TypeOK
  <2>2. id[r] = msg.id
    BY <1>1, <1>3, NoneIsNothing DEF PendingIsLive
  <2>3. msg.of = r
    BY <1>1, <2>2, OwnMessage DEF Fits
  <2>4. PICK n \in Nat :
          /\ n = Len(inbox[r]) + 1 /\ Len(inbox'[r]) = n
          /\ DOMAIN inbox'[r] = DOMAIN inbox[r] \cup {n} /\ inbox'[r][n] = msg
          /\ \A j \in DOMAIN inbox[r] : inbox'[r][j] = inbox[r][j]
    BY <1>1, <2>1, HeldInAppend
  <2>5. Missing(r)' = Missing(r)
    BY <1>1 DEF Missing
  <2>6. \A k, d : Holds(inbox[r], k, r, d) => Holds(inbox'[r], k, r, d)
    BY <1>1, <2>1, HeldInAppend
  <2>7. \A d : Queued(r, d) \/ InHand(r, d) => Queued(r, d)'
    <3> SUFFICES ASSUME NEW d, Queued(r, d) \/ InHand(r, d)
                 PROVE  Holds(inbox'[r], Len(inbox'[r]) + 1, r, d)
      BY DEF Queued
    <3>1. CASE InHand(r, d)
      <4>1. Holds(Append(inbox[r], msg), Len(inbox[r]) + 2, r, d)
        BY <1>1, <3>1, HeldInAppend DEF InHand
      <4>2. Len(inbox[r]) + 2 = Len(inbox'[r]) + 1
        BY <1>1, <2>4
      <4> QED
        BY <2>1, <4>1, <4>2
    <3>2. CASE Queued(r, d)
      <4>1. Holds(inbox'[r], n, r, d)
        BY <2>4, <2>6, <3>2 DEF Queued
      <4>2. inbox'[r] \in Seq(Messages)
        BY <1>1, <2>1
      <4> QED
        BY <4>1, <4>2, HeldAtAll
    <3> QED
      BY <3>1, <3>2
  <2>8. \A j \in DOMAIN inbox'[r] : inbox'[r][j].kind = "done" =>
            \A d \in Missing(r) : Holds(inbox'[r], j, r, d)
    <3> SUFFICES ASSUME NEW j \in DOMAIN inbox'[r], inbox'[r][j].kind = "done",
                        NEW d \in Missing(r)
                 PROVE  Holds(inbox[r], j, r, d)
      BY <2>6
    <3>1. CASE j = n
      BY <1>1, <1>3, <2>2, <2>3, <2>4, <3>1 DEF ScanInOrder, Queued
    <3>2. CASE j \in DOMAIN inbox[r]
      BY <2>4, <3>2 DEF ScanInOrder
    <3> QED
      BY <2>4, <3>1, <3>2
  <2>9. \A k : Ahead(r, k) => Ahead(r, k)'
    <3> SUFFICES ASSUME NEW k, Ahead(r, k), NEW d \in Missing(r)
                 PROVE  (Queued(r, d) \/ Holds(wire, k, r, d))'
      BY <2>5 DEF Ahead
    <3>1. Queued(r, d) \/ InHand(r, d) \/ Holds(wire, k, r, d)
      BY DEF Ahead
    <3> QED
      BY <1>1, <2>7, <3>1 DEF Holds
  <2>10. PICK k : k = Len(wire) + 1
    OBVIOUS
  <2>11. pending[id[r]] = r => /\ \A j \in DOMAIN wire : wire[j].of = r /\ wire[j].kind = "done" =>
                                     Ahead(r, j)'
                               /\ r \in heard => Ahead(r, k)'
    BY <2>9, <2>10 DEF ScanInOrder
  <2>12. found'[r] \subseteq reported'[r] /\ (state'[r] = "completed" => Missing(r)' = {})
    BY <1>1, <2>5 DEF ScanInOrder
  <2> QED
    BY <1>1, <2>5, <2>8, <2>10, <2>11, <2>12 DEF ScanInOrder
<1> QED
  BY <1>2, <1>3

\* Sending opens the port: what was on the line is lost if it was closed.
LEMMA ScanAfterSend ==
    ASSUME NEW r \in Requests, ScanContext(r), NEW q \in Requests, Send(q)
    PROVE  ScanInOrder(r)'
<1> USE DEF ScanContext
<1>1. /\ state[q] = "registered" /\ state' = [state EXCEPT ![q] = "sent"]
      /\ heard' = heard \cup {q}
      /\ UNCHANGED <<pending, id, inbox, found, reported, msg>>
      /\ (UNCHANGED <<wire, lost>> \/ LoseAll)
  BY DEF Send, readerVars
<1>2. CASE q = r
  BY <1>1, <1>2, NothingReported DEF SentOnly, Unsent
<1>3. CASE q # r
  <2>1. state'[r] = state[r] /\ (r \in heard' => r \in heard)
    BY <1>1, <1>3 DEF TypeOK
  <2> QED
    BY <1>1, <2>1, ScanUndisturbed, ScanAfterLosingAll
<1> QED
  BY <1>2, <1>3

\* A new request takes no entry but one with its own id.
LEMMA ScanAfterRegister ==
    ASSUME NEW r \in Requests, ScanContext(r), NEW q \in Requests, NEW prefix \in Prefixes,
           Register(q, prefix)
    PROVE  ScanInOrder(r)'
<1> USE DEF ScanContext
<1>1. /\ state[q] = "idle" /\ state' = [state EXCEPT ![q] = "registered"]
      /\ id' = [id EXCEPT ![q] = <<prefix, clock>>]
      /\ pending' = [pending EXCEPT ![<<prefix, clock>>] = q]
      /\ UNCHANGED <<inbox, found, reported, heard, wire, lost, msg>>
  BY DEF Register, lineVars, readerVars
<1>2. q # r /\ id[r] \in Ids
  BY <1>1 DEF Scans, IdsOfRequests, TypeOK
<1>3. state'[r] = state[r] /\ id'[r] = id[r]
  BY <1>1, <1>2 DEF TypeOK
<1>4. pending'[id[r]] = r => pending[id[r]] = r
  BY <1>1, <1>2 DEF TypeOK
<1> QED
  BY <1>1, <1>3, <1>4, ScanUndisturbed

\* The other steps.
LEMMA ScanAfterOthers ==
    ASSUME NEW r \in Requests, ScanContext(r), Tick \/ LookupFails \/ Close \/ UNCHANGED vars
    PROVE  ScanInOrder(r)'
<1> USE DEF ScanContext, requestVars, lineVars, readerVars
<1>1. CASE Tick \/ UNCHANGED vars
  BY <1>1, ScanUndisturbed DEF Tick, vars
<1>2. CASE LookupFails
  <2>1. /\ msg' = None /\ Genuine(msg) /\ pending[msg.id] = None
        /\ UNCHANGED <<pending, state, id, inbox, found, wire, reported, heard, lost>>
    BY <1>2 DEF LookupFails, MessagesAreGenuine
  <2>2. pending[id[r]] = r => msg.of # r
    BY <2>1, NoneIsNothing DEF Genuine
  <2> QED
    BY <2>1, <2>2, ScanAfterHandOver
<1>3. CASE Close
  <2>1. /\ LoseAll /\ pending' = [i \in Ids |-> None]
        /\ UNCHANGED <<id, found, inbox, msg, reported, state, heard>>
    BY <1>3 DEF Close
  <2>2. pending'[id[r]] # r
    BY <2>1, NoneIsNothing DEF Scans, TypeOK
  <2> QED
    BY <2>1, <2>2, ScanAfterLosingAll
<1> QED
  BY <1>1, <1>2, <1>3

\* No step of the client, the gateway or the line spoils the order of a scan.
LEMMA ScansInOrderStep ==
    ASSUME IInv, [Next]_vars
    PROVE  ScansInOrder'
<1> USE DEF IInv
<1> SUFFICES ASSUME NEW r \in Requests, Scans(r)', ~Collides(r)'
             PROVE  ScanInOrder(r)'
  BY DEF ScansInOrder
<1>1. CASE id[r] = None
  <2>1. state[r] = "idle" /\ reported[r] = {} /\ found[r] = {}
    BY <1>1 DEF IdsOfRequests, SentOnly, Unsent
  <2>2. TypeOK' /\ IdsOfRequests' /\ SentOnly'
    BY TypeOKStep, IdsOfRequestsStep, SentOnlyStep
  <2>3. PICK q \in Requests, prefix \in Prefixes : Register(q, prefix) /\ q = r
    <3>1. id'[r] # None
      BY DEF Scans
    <3>2. ASSUME NEW q \in Requests,
                 Send(q) \/ SendFails(q) \/ Receive(q) \/ TimeOut(q) \/ Gateway(q)
          PROVE  FALSE
      BY <1>1, <3>1, <3>2 DEF Send, SendFails, Receive, TimeOut, Gateway, Answer, Report,
            requestVars
    <3>3. ASSUME Tick \/ LoseLine \/ Reader \/ Close \/ UNCHANGED vars
          PROVE  FALSE
      BY <1>1, <3>1, <3>3 DEF Tick, LoseLine, Reader, TakeLine, PutAnswer, LookupFails, Close,
            vars, requestVars
    <3>4. PICK q \in Requests, prefix \in Prefixes : Register(q, prefix)
      BY <3>2, <3>3 DEF Next, Request
    <3>5. q = r
      BY <1>1, <3>1, <3>4 DEF Register, TypeOK
    <3> QED
      BY <3>4, <3>5
  <2> QED
    BY <2>1, <2>3, NothingReported DEF Register, lineVars
<1>2. CASE id[r] # None
  <2>1. id'[r] = id[r] /\ ~Collides(r)
    BY <1>2, IdsStay, CollidesStays
  <2>2. Scans(r)
    BY <1>2, <2>1 DEF Scans
  <2>3. ScanContext(r)
    BY <2>1, <2>2 DEF ScansInOrder, ScanContext
  <2>4. ASSUME NEW q \in Requests, Request(q)
        PROVE  ScanInOrder(r)'
    <3>1. CASE Receive(q) /\ ~Ends(q, Head(inbox[q]))
      <4>1. CASE q = r
        BY <2>3, <3>1, <4>1, ScanAfterResult
      <4>2. CASE q # r
        <5>1. found'[r] = found[r] /\ inbox'[r] = inbox[r]
          BY <3>1, <4>2 DEF Receive, TypeOK
        <5> QED
          BY <2>3, <3>1, <5>1, ScanUndisturbed
              DEF Receive, ScanContext, lineVars, readerVars
      <4> QED
        BY <4>1, <4>2
    <3> QED
      BY <2>3, <2>4, <3>1, ScanAfterRegister, ScanAfterSend, ScanAfterEnd DEF Request
  <2>5. ASSUME NEW q \in Requests, Gateway(q)
        PROVE  ScanInOrder(r)'
    BY <2>3, <2>5, ScanAfterAnswer, ScanAfterReport DEF Gateway
  <2>6. CASE LoseLine \/ Reader
    BY <2>3, <2>6, ScanAfterLoss, ScanAfterTake, ScanAfterPutAnswer, ScanAfterOthers DEF Reader
  <2> QED
    BY <2>3, <2>4, <2>5, <2>6, ScanAfterOthers DEF Next
<1> QED
  BY <1>1, <1>2

-----------------------------------------------------------------------------
(* What follows.                                                            *)

\* The invariant holds throughout.
LEMMA IInvInvariant == Spec => []IInv
<1>1. IInv /\ [Next]_vars => IInv'
  <2> SUFFICES ASSUME IInv, [Next]_vars PROVE IInv'
    OBVIOUS
  <2>1. TypeOK' /\ IdsOfRequests' /\ SentOnly'
    BY TypeOKStep, IdsOfRequestsStep, SentOnlyStep DEF IInv
  <2>2. MessagesAreGenuine' /\ MessagesFit'
    BY <2>1, MessagesAreGenuineStep, MessagesFitStep DEF IInv
  <2>3. PendingIsLive' /\ EventSkippedOnlyAfterEnd'
    BY <2>1, PendingIsLiveStep, EventSkippedStep DEF IInv
  <2> QED
    BY <2>1, <2>2, <2>3, ScansInOrderStep DEF IInv
<1> QED
  BY <1>1, IInvInit, PTL DEF Spec

\* Every variable of the client, the line and the gateway keeps its type.
THEOREM TypeCorrect == Spec => []TypeOK
<1>1. IInv => TypeOK
  BY DEF IInv
<1> QED
  BY <1>1, IInvInvariant, PTL

\* Late, lost or reordered answers never complete another request: a request that
\* shares its id with no other ends with the answer to the message it sent.
THEOREM OwnAnswer == Spec => []RightAnswer
<1>1. IInv => RightAnswer
  <2> SUFFICES ASSUME IInv, NEW r \in Requests, answer[r] # None, ~Collides(r)
               PROVE  answer[r].of = r
    BY DEF RightAnswer
  <2>1. answer[r] \in Messages /\ Fits(answer[r], r)
    BY DEF IInv, TypeOK, MessagesFit
  <2> QED
    BY <2>1, OwnMessage DEF IInv
<1> QED
  BY <1>1, IInvInvariant, PTL

\* pending_requests has an entry for every request under way, and no other,
\* however requests are registered, ended and timed out.
THEOREM PendingExact == Spec => []PendingIsLive
<1>1. IInv => PendingIsLive
  BY DEF IInv
<1> QED
  BY <1>1, IInvInvariant, PTL

\* A scan that completes returns the devices reported for it but for lost lines.
THEOREM WholeScan == Spec => []ScanIsWhole
<1>1. IInv => ScanIsWhole
  BY DEF IInv, ScansInOrder, ScanInOrder, Missing, ScanIsWhole
<1> QED
  BY <1>1, IInvInvariant, PTL

\* The event handlers miss a message only if its request gave up, shares its id or
\* was cut off by close.
THEOREM SkippedAfterEnd == Spec => []EventSkippedOnlyAfterEnd
<1>1. IInv => EventSkippedOnlyAfterEnd
  BY DEF IInv
<1> QED
  BY <1>1, IInvInvariant, PTL

-----------------------------------------------------------------------------
(* The client implements RequestReply: no answer is in two places.          *)

\* A sequence has an answer for c, and has one for each at most once.
Has(q, c) == \E i \in DOMAIN q : IsAnswer(q[i]) /\ q[i].of = c
OnceIn(q) == \A i, j \in DOMAIN q :
                 IsAnswer(q[i]) /\ IsAnswer(q[j]) /\ q[i].of = q[j].of => i = j

\* The gateway answers once, and neither the line nor the reader has an answer that
\* a queue has, nor has a second queue.
InQueue(c) == \E r \in Requests : Has(inbox[r], c)
AnsweredOnce ==
    /\ OnceIn(wire)
    /\ \A r \in Requests : OnceIn(inbox[r])
    /\ msg # None /\ IsAnswer(msg) => ~Has(wire, msg.of) /\ ~InQueue(msg.of)
    /\ \A c \in Requests : Has(wire, c) => ~InQueue(c)
    /\ \A c, r, q \in Requests : Has(inbox[r], c) /\ Has(inbox[q], c) => r = q

\* What an appended message adds.
LEMMA HasInAppend ==
    ASSUME NEW q \in Seq(Messages), NEW m \in Messages
    PROVE  /\ \A c : Has(Append(q, m), c) => Has(q, c) \/ (IsAnswer(m) /\ m.of = c)
           /\ OnceIn(q) /\ (IsAnswer(m) => ~Has(q, m.of)) => OnceIn(Append(q, m))
<1>1. /\ Len(q) \in Nat /\ DOMAIN q = 1..Len(q) /\ DOMAIN Append(q, m) = 1..(Len(q) + 1)
      /\ \A i \in 1..Len(q) : Append(q, m)[i] = q[i]
      /\ Append(q, m)[Len(q) + 1] = m
  OBVIOUS
<1>2. PICK s : s = Append(q, m)
  OBVIOUS
<1>3. PICK n \in Nat : n = Len(q)
  BY <1>1
<1>4. \A i \in 1..(n + 1) : i = n + 1 \/ i \in 1..n
  OBVIOUS
<1>5. /\ DOMAIN q = 1..n /\ DOMAIN s = 1..(n + 1)
      /\ \A i \in 1..n : s[i] = q[i]
      /\ s[n + 1] = m
  BY <1>1, <1>2, <1>3
<1>6. \A c : Has(s, c) => Has(q, c) \/ (IsAnswer(m) /\ m.of = c)
  BY <1>4, <1>5, Zenon DEF Has
<1>7. ASSUME OnceIn(q), IsAnswer(m) => ~Has(q, m.of) PROVE OnceIn(s)
  <2> SUFFICES ASSUME NEW i \in 1..(n + 1), NEW j \in 1..(n + 1),
                      IsAnswer(s[i]), IsAnswer(s[j]), s[i].of = s[j].of
               PROVE  i = j
    BY <1>5, Zenon DEF OnceIn
  <2>1. CASE i \in 1..n /\ j \in 1..n
    BY <1>5, <1>7, <2>1, Zenon DEF OnceIn
  <2>2. CASE i = n + 1 /\ j \in 1..n
    BY <1>5, <1>7, <2>2, Zenon DEF Has
  <2>3. CASE i \in 1..n /\ j = n + 1
    BY <1>5, <1>7, <2>3, Zenon DEF Has
  <2> QED
    BY <1>4, <2>1, <2>2, <2>3
<1> QED
  BY <1>2, <1>6, <1>7

\* What is left without the first message.
LEMMA HasInTail ==
    ASSUME NEW q \in Seq(Messages), q # << >>
    PROVE  /\ \A c : Has(Tail(q), c) => Has(q, c)
           /\ IsAnswer(Head(q)) => Has(q, Head(q).of)
           /\ OnceIn(q) => OnceIn(Tail(q))
           /\ OnceIn(q) /\ IsAnswer(Head(q)) => ~Has(Tail(q), Head(q).of)
<1>1. PICK n \in Nat : n = Len(q)
  OBVIOUS
<1>2. PICK t : t = Tail(q)
  OBVIOUS
<1>3. /\ DOMAIN q = 1..n /\ n >= 1 /\ Head(q) = q[1]
      /\ DOMAIN t = 1..(n - 1) /\ \A i \in 1..(n - 1) : t[i] = q[i + 1]
  BY <1>1, <1>2
<1>4. 1 \in 1..n /\ \A i \in 1..(n - 1) : i + 1 \in 1..n /\ i + 1 # 1
  BY <1>3
<1>5. \A c : Has(t, c) => Has(q, c)
  BY <1>3, <1>4, Zenon DEF Has
<1>6. IsAnswer(Head(q)) => Has(q, Head(q).of)
  BY <1>3, <1>4, Zenon DEF Has
<1>7. ASSUME OnceIn(q) PROVE OnceIn(t)
  <2> SUFFICES ASSUME NEW i \in 1..(n - 1), NEW j \in 1..(n - 1),
                      IsAnswer(t[i]), IsAnswer(t[j]), t[i].of = t[j].of
               PROVE  i = j
    BY <1>3, Zenon DEF OnceIn
  <2>1. i + 1 = j + 1
    BY <1>3, <1>4, <1>7, Zenon DEF OnceIn
  <2> QED
    BY <2>1
<1>8. ASSUME OnceIn(q), IsAnswer(Head(q)) PROVE ~Has(t, Head(q).of)
  BY <1>3, <1>4, <1>8, Zenon DEF OnceIn, Has
<1> QED
  BY <1>2, <1>5, <1>6, <1>7, <1>8

\* Whoever the gateway has yet to answer has no answer on the way.
LEMMA HeardHasNone ==
    ASSUME IInv, NEW c \in heard
    PROVE  /\ ~Has(wire, c) /\ ~InQueue(c)
           /\ msg # None /\ IsAnswer(msg) => msg.of # c
BY DEF IInv, MessagesAreGenuine, MessagesFit, Fits, Genuine, Has, InQueue, IsAnswer

\* Fewer answers in the same places are in one place each still.
LEMMA FewerAnswers ==
    ASSUME AnsweredOnce,
           OnceIn(wire'), \A c : Has(wire', c) => Has(wire, c),
           \A r \in Requests : OnceIn(inbox'[r]),
           \A r \in Requests : \A c : Has(inbox'[r], c) => Has(inbox[r], c),
           msg' = msg \/ msg' = None
    PROVE  AnsweredOnce'
<1>1. \A c : InQueue(c)' => InQueue(c)
  BY Zenon DEF InQueue
<1>2. (msg # None /\ IsAnswer(msg) => ~Has(wire, msg.of) /\ ~InQueue(msg.of))'
  BY <1>1, Zenon DEF AnsweredOnce
<1>3. (\A c \in Requests : Has(wire, c) => ~InQueue(c))'
  BY <1>1, Zenon DEF AnsweredOnce
<1>4. (\A c, r, q \in Requests : Has(inbox[r], c) /\ Has(inbox[q], c) => r = q)'
  BY Zenon DEF AnsweredOnce
<1> QED
  BY <1>2, <1>3, <1>4 DEF AnsweredOnce

\* An empty queue has no answer.
LEMMA NoneInEmpty == OnceIn(<< >>) /\ \A c : ~Has(<< >>, c)
<1>1. DOMAIN << >> = {}
  OBVIOUS
<1> QED
  BY <1>1, Zenon DEF OnceIn, Has

\* The queue of a request that ended is empty, and no other has changed.
LEMMA FewerAfterEnd ==
    ASSUME TypeOK, AnsweredOnce, NEW r \in Requests, NEW how, End(r, how), UNCHANGED <<wire, msg>>
    PROVE  AnsweredOnce'
<1>1. /\ inbox'[r] = << >>
      /\ \A q \in Requests \ {r} : inbox'[q] = inbox[q]
  BY DEF End, TypeOK
<1>2. \A q \in Requests : OnceIn(inbox'[q])
  BY <1>1, NoneInEmpty, Zenon DEF AnsweredOnce
<1>3. \A q \in Requests : \A c : Has(inbox'[q], c) => Has(inbox[q], c)
  BY <1>1, NoneInEmpty, Zenon
<1>4. wire' = wire /\ msg' = msg
  OBVIOUS
<1>5. OnceIn(wire') /\ \A c : Has(wire', c) => Has(wire, c)
  BY <1>4, Zenon DEF AnsweredOnce
<1> QED
  BY <1>2, <1>3, <1>4, <1>5, FewerAnswers

\* A message taken from its queue leaves fewer there.
LEMMA FewerAfterReceive ==
    ASSUME TypeOK, AnsweredOnce, NEW r \in Requests, Receive(r)
    PROVE  AnsweredOnce'
<1> DEFINE m == Head(inbox[r])
<1>1. CASE Ends(r, m)
  <2>1. (\E how : End(r, how)) /\ UNCHANGED <<wire, msg>>
    BY <1>1 DEF Receive, lineVars, readerVars
  <2> QED
    BY <2>1, FewerAfterEnd
<1>2. CASE ~Ends(r, m)
  <2>1. inbox' = [inbox EXCEPT ![r] = Tail(inbox[r])] /\ UNCHANGED <<wire, msg>>
    BY <1>2 DEF Receive, lineVars, readerVars
  <2>2. inbox[r] \in Seq(Messages) /\ inbox[r] # << >>
    BY DEF TypeOK, Receive
  <2>3. PICK t : t = Tail(inbox[r])
    OBVIOUS
  <2>4. OnceIn(t) /\ \A c : Has(t, c) => Has(inbox[r], c)
    BY <2>2, <2>3, HasInTail DEF AnsweredOnce
  <2>5. /\ inbox'[r] = t
        /\ \A q \in Requests \ {r} : inbox'[q] = inbox[q]
    BY <2>1, <2>3 DEF TypeOK
  <2>6. \A q \in Requests : OnceIn(inbox'[q])
    BY <2>4, <2>5, Zenon DEF AnsweredOnce
  <2>7. \A q \in Requests : \A c : Has(inbox'[q], c) => Has(inbox[q], c)
    BY <2>4, <2>5, Zenon
  <2>8. wire' = wire /\ msg' = msg
    BY <2>1
  <2>9. OnceIn(wire') /\ \A c : Has(wire', c) => Has(wire, c)
    BY <2>8, Zenon DEF AnsweredOnce
  <2> QED
    BY <2>6, <2>7, <2>8, <2>9, FewerAnswers
<1> QED
  BY <1>1, <1>2

\* Steps that leave the queues alone and take nothing from the line but what is lost.
LEMMA FewerOnLine ==
    ASSUME TypeOK, AnsweredOnce, UNCHANGED <<inbox, msg>>,
           wire' = wire \/ wire' = << >> \/ (wire # << >> /\ wire' = Tail(wire))
    PROVE  AnsweredOnce'
<1>1. inbox' = inbox /\ msg' = msg /\ wire \in Seq(Messages)
  BY DEF TypeOK
<1>2. OnceIn(wire') /\ \A c : Has(wire', c) => Has(wire, c)
  <2>1. CASE wire' = wire
    BY <2>1, Zenon DEF AnsweredOnce
  <2>2. CASE wire' = << >>
    BY <2>2, NoneInEmpty, Zenon
  <2>3. CASE wire # << >> /\ wire' = Tail(wire)
    BY <1>1, <2>3, HasInTail, Zenon DEF AnsweredOnce
  <2> QED
    BY <2>1, <2>2, <2>3
<1>3. \A r \in Requests : OnceIn(inbox'[r])
  BY <1>1, Zenon DEF AnsweredOnce
<1>4. \A r \in Requests : \A c : Has(inbox'[r], c) => Has(inbox[r], c)
  BY <1>1, Zenon
<1> QED
  BY <1>1, <1>2, <1>3, <1>4, FewerAnswers

\* The gateway answers a request that has no answer on the way.
LEMMA OnceAfterAnswer ==
    ASSUME IInv, AnsweredOnce, NEW r \in Requests, NEW kind \in {"done", "error"}, Answer(r, kind)
    PROVE  AnsweredOnce'
<1> DEFINE m == [id |-> id[r], of |-> r, kind |-> kind, device |-> None]
<1>1. /\ TypeOK /\ IdsOfRequests /\ SentOnly /\ wire \in Seq(Messages)
  BY DEF IInv, TypeOK
<1>2. m \in Messages /\ wire' = Append(wire, m) /\ m.of = r
  BY <1>1, AnswerIsMessage
<1>3. inbox' = inbox /\ msg' = msg /\ r \in heard
  BY DEF Answer, requestVars, readerVars
<1>4. /\ ~Has(wire, r) /\ ~InQueue(r)
      /\ msg # None /\ IsAnswer(msg) => msg.of # r
  BY <1>3, HeardHasNone
<1> HIDE DEF m
<1>5. OnceIn(wire') /\ \A c : Has(wire', c) => Has(wire, c) \/ c = r
  BY <1>1, <1>2, <1>4, HasInAppend, Zenon DEF AnsweredOnce
<1>6. \A c : InQueue(c)' <=> InQueue(c)
  BY <1>3, Zenon DEF InQueue
<1>7. (msg # None /\ IsAnswer(msg) => ~Has(wire, msg.of) /\ ~InQueue(msg.of))'
  BY <1>3, <1>4, <1>5, <1>6, Zenon DEF AnsweredOnce
<1>8. (\A c \in Requests : Has(wire, c) => ~InQueue(c))'
  BY <1>4, <1>5, <1>6, Zenon DEF AnsweredOnce
<1>9. /\ (\A q \in Requests : OnceIn(inbox[q]))'
      /\ (\A c, p, q \in Requests : Has(inbox[p], c) /\ Has(inbox[q], c) => p = q)'
  BY <1>3, Zenon DEF AnsweredOnce
<1> QED
  BY <1>5, <1>7, <1>8, <1>9 DEF AnsweredOnce

\* What it reports is no answer.
LEMMA OnceAfterReport ==
    ASSUME IInv, AnsweredOnce, NEW r \in Requests, NEW d \in Devices, Report(r, d)
    PROVE  AnsweredOnce'
<1> DEFINE m == [id |-> id[r], of |-> r, kind |-> "result", device |-> d]
<1>1. TypeOK /\ IdsOfRequests /\ wire \in Seq(Messages)
  BY DEF IInv, TypeOK
<1>2. m \in Messages /\ wire' = Append(wire, m) /\ ~IsAnswer(m)
  BY <1>1, ReportIsMessage DEF IsAnswer
<1>3. inbox' = inbox /\ msg' = msg
  BY DEF Report, requestVars, readerVars
<1> HIDE DEF m
<1>4. OnceIn(wire') /\ \A c : Has(wire', c) => Has(wire, c)
  BY <1>1, <1>2, HasInAppend, Zenon DEF AnsweredOnce
<1>5. \A q \in Requests : OnceIn(inbox'[q])
  BY <1>3, Zenon DEF AnsweredOnce
<1>6. \A q \in Requests : \A c : Has(inbox'[q], c) => Has(inbox[q], c)
  BY <1>3, Zenon
<1> QED
  BY <1>3, <1>4, <1>5, <1>6, FewerAnswers

\* The reader takes the only copy from the line.
LEMMA OnceAfterTake ==
    ASSUME TypeOK, AnsweredOnce, TakeLine
    PROVE  AnsweredOnce'
<1>1. /\ wire \in Seq(Messages) /\ wire # << >> /\ inbox' = inbox
      /\ wire' = Tail(wire) /\ (msg' = None \/ msg' = Head(wire))
  BY DEF TakeLine, TypeOK, requestVars
<1>2. Head(wire).of \in Requests
  <2>1. Head(wire) \in Messages
    BY <1>1
  <2> QED
    BY <2>1, Zenon DEF Messages
<1>3. /\ OnceIn(wire') /\ \A c : Has(wire', c) => Has(wire, c)
      /\ IsAnswer(Head(wire)) => /\ Has(wire, Head(wire).of)
                                 /\ ~Has(wire', Head(wire).of)
  BY <1>1, HasInTail, Zenon DEF AnsweredOnce
<1>4. \A c : InQueue(c)' <=> InQueue(c)
  BY <1>1, Zenon DEF InQueue
<1>5. (msg # None /\ IsAnswer(msg) => ~Has(wire, msg.of) /\ ~InQueue(msg.of))'
  <2>1. CASE msg' = None
    BY <2>1
  <2>2. CASE msg' = Head(wire)
    BY <1>2, <1>3, <1>4, <2>2, Zenon DEF AnsweredOnce
  <2> QED
    BY <1>1, <2>1, <2>2
<1>6. (\A c \in Requests : Has(wire, c) => ~InQueue(c))'
  BY <1>3, <1>4, Zenon DEF AnsweredOnce
<1>7. /\ (\A q \in Requests : OnceIn(inbox[q]))'
      /\ (\A c, p, q \in Requests : Has(inbox[p], c) /\ Has(inbox[q], c) => p = q)'
  BY <1>1, Zenon DEF AnsweredOnce
<1> QED
  BY <1>3, <1>5, <1>6, <1>7 DEF AnsweredOnce

\* It puts it into one queue, and no longer has it.
LEMMA OnceAfterPut ==
    ASSUME TypeOK, AnsweredOnce, PutAnswer
    PROVE  AnsweredOnce'
<1>1. /\ msg \in Messages /\ msg # None /\ msg.id \in Ids /\ pending[msg.id] \in Requests
      /\ wire' = wire /\ msg' = None
  BY DEF PutAnswer, TypeOK, Messages, lineVars
<1>2. PICK p \in Requests : p = pending[msg.id]
  BY <1>1
<1>3. PICK s : s = Append(inbox[p], msg)
  OBVIOUS
<1>4. /\ inbox'[p] = s /\ inbox[p] \in Seq(Messages)
      /\ \A q \in Requests \ {p} : inbox'[q] = inbox[q]
  BY <1>2, <1>3 DEF PutAnswer, TypeOK
<1>5. IsAnswer(msg) => ~Has(wire, msg.of) /\ ~InQueue(msg.of)
  BY <1>1 DEF AnsweredOnce
<1>6. /\ OnceIn(s)
      /\ \A c : Has(s, c) => Has(inbox[p], c) \/ (IsAnswer(msg) /\ c = msg.of)
  <2>1. OnceIn(inbox[p]) /\ (IsAnswer(msg) => ~Has(inbox[p], msg.of))
    BY <1>5, Zenon DEF AnsweredOnce, InQueue
  <2>2. /\ \A c : Has(s, c) => Has(inbox[p], c) \/ (IsAnswer(msg) /\ msg.of = c)
        /\ OnceIn(inbox[p]) /\ (IsAnswer(msg) => ~Has(inbox[p], msg.of)) => OnceIn(s)
    BY <1>1, <1>3, <1>4, HasInAppend
  <2> QED
    BY <2>1, <2>2
<1>7. \A q \in Requests : OnceIn(inbox'[q])
  BY <1>4, <1>6, Zenon DEF AnsweredOnce
<1>8. \A q \in Requests : \A c :
          Has(inbox'[q], c) => Has(inbox[q], c) \/ (IsAnswer(msg) /\ c = msg.of /\ q = p)
  BY <1>4, <1>6, Zenon
<1>9. (\A c \in Requests : Has(wire, c) => ~InQueue(c))'
  <2> SUFFICES ASSUME NEW c \in Requests, Has(wire, c), NEW q \in Requests
               PROVE  ~Has(inbox'[q], c)
    BY <1>1, Zenon DEF InQueue
  <2>1. ~Has(inbox[q], c)
    BY Zenon DEF AnsweredOnce, InQueue
  <2>2. ~(IsAnswer(msg) /\ c = msg.of)
    BY <1>5, Zenon
  <2> QED
    BY <1>8, <2>1, <2>2, Zenon
<1>10. (\A c, r, q \in Requests : Has(inbox[r], c) /\ Has(inbox[q], c) => r = q)'
  <2> SUFFICES ASSUME NEW c \in Requests, NEW r \in Requests, NEW q \in Requests,
                      Has(inbox'[r], c), Has(inbox'[q], c)
               PROVE  r = q
    OBVIOUS
  <2>1. CASE IsAnswer(msg) /\ c = msg.of
    <3>1. ~Has(inbox[r], c) /\ ~Has(inbox[q], c)
      BY <1>5, <2>1, Zenon DEF InQueue
    <3> QED
      BY <1>8, <3>1, Zenon
  <2>2. CASE ~(IsAnswer(msg) /\ c = msg.of)
    BY <1>8, <2>2, Zenon DEF AnsweredOnce
  <2> QED
    BY <2>1, <2>2
<1>11. OnceIn(wire')
  BY <1>1, Zenon DEF AnsweredOnce
<1>12. (msg # None /\ IsAnswer(msg) => ~Has(wire, msg.of) /\ ~InQueue(msg.of))'
  BY <1>1
<1> QED
  BY <1>7, <1>9, <1>10, <1>11, <1>12 DEF AnsweredOnce

\* Every step of the client keeps each answer in one place.
LEMMA AnsweredOnceStep ==
    ASSUME IInv, AnsweredOnce, [Next]_vars
    PROVE  AnsweredOnce'
<1> USE DEF requestVars, lineVars, readerVars
<1>1. TypeOK
  BY DEF IInv
<1>2. CASE Tick \/ (\E r \in Requests, prefix \in Prefixes : Register(r, prefix)) \/ UNCHANGED vars
  <2>1. UNCHANGED <<inbox, msg, wire>>
    BY <1>2 DEF Tick, Register, vars
  <2> QED
    BY <1>1, <2>1, FewerOnLine
<1>3. ASSUME NEW r \in Requests, Send(r) PROVE AnsweredOnce'
  <2>1. UNCHANGED <<inbox, msg>> /\ (wire' = wire \/ wire' = << >>)
    BY <1>3 DEF Send, LoseAll
  <2> QED
    BY <1>1, <2>1, FewerOnLine
<1>4. ASSUME NEW r \in Requests, SendFails(r) \/ TimeOut(r) PROVE AnsweredOnce'
  <2>1. (\E how : End(r, how)) /\ UNCHANGED <<wire, msg>>
    BY <1>4 DEF SendFails, TimeOut
  <2> QED
    BY <1>1, <2>1, FewerAfterEnd
<1>5. ASSUME NEW r \in Requests, Receive(r) PROVE AnsweredOnce'
  BY <1>1, <1>5, FewerAfterReceive
<1>6. ASSUME NEW r \in Requests, Gateway(r) PROVE AnsweredOnce'
  BY <1>6, OnceAfterAnswer, OnceAfterReport DEF Gateway
<1>7. CASE LoseLine
  <2>1. UNCHANGED <<inbox, msg>> /\ wire # << >> /\ wire' = Tail(wire)
    BY <1>7 DEF LoseLine
  <2> QED
    BY <1>1, <2>1, FewerOnLine
<1>8. CASE TakeLine
  BY <1>1, <1>8, OnceAfterTake
<1>9. CASE PutAnswer
  BY <1>1, <1>9, OnceAfterPut
<1>10. CASE LookupFails
  <2>1. wire' = wire /\ inbox' = inbox /\ msg' = None
    BY <1>10 DEF LookupFails
  <2>2. OnceIn(wire') /\ \A c : Has(wire', c) => Has(wire, c)
    BY <2>1, Zenon DEF AnsweredOnce
  <2>3. \A r \in Requests : OnceIn(inbox'[r])
    BY <2>1, Zenon DEF AnsweredOnce
  <2>4. \A r \in Requests : \A c : Has(inbox'[r], c) => Has(inbox[r], c)
    BY <2>1, Zenon
  <2> QED
    BY <2>1, <2>2, <2>3, <2>4, FewerAnswers
<1>11. CASE Close
  <2>1. UNCHANGED <<inbox, msg>> /\ wire' = << >>
    BY <1>11 DEF Close, LoseAll
  <2> QED
    BY <1>1, <2>1, FewerOnLine
<1> QED
  BY <1>2, <1>3, <1>4, <1>5, <1>6, <1>7, <1>8, <1>9, <1>10, <1>11 DEF Next, Request, Reader

-----------------------------------------------------------------------------
(* Each step of the client is a step of RequestReply, or one it does not see. *)

\* The elements of sequences.
LEMMA ElementsOf ==
    /\ Range(<< >>) = {}
    /\ \A q \in Seq(Messages) : q # << >> =>
          Range(Tail(q)) \subseteq Range(q) /\ Head(q) \in Range(q)
    /\ \A q \in Seq(Messages) : \A m \in Messages :
          Range(Append(q, m)) = Range(q) \cup {m}
<1>1. Range(<< >>) = {}
  BY DEF Range
<1>2. ASSUME NEW q \in Seq(Messages), q # << >>
      PROVE  Range(Tail(q)) \subseteq Range(q) /\ Head(q) \in Range(q)
  <2>1. PICK t : t = Tail(q)
    OBVIOUS
  <2>2. /\ \A i \in DOMAIN t : i + 1 \in DOMAIN q /\ t[i] = q[i + 1]
        /\ 1 \in DOMAIN q /\ Head(q) = q[1]
    BY <1>2, <2>1, HeldInTail
  <2>3. Range(t) \subseteq Range(q) /\ Head(q) \in Range(q)
    BY <2>2 DEF Range
  <2> QED
    BY <2>1, <2>3
<1>3. ASSUME NEW q \in Seq(Messages), NEW m \in Messages
      PROVE  Range(Append(q, m)) = Range(q) \cup {m}
  <2>1. PICK s : s = Append(q, m)
    OBVIOUS
  <2>2. /\ DOMAIN s = DOMAIN q \cup {Len(q) + 1}
        /\ \A i \in DOMAIN q : s[i] = q[i]
        /\ s[Len(q) + 1] = m
    BY <2>1, HeldInAppend
  <2>3. ASSUME NEW x PROVE x \in Range(s) => x \in Range(q) \cup {m}
    BY <2>2, Zenon DEF Range
  <2>4. ASSUME NEW x \in Range(q) PROVE x \in Range(s)
    BY <2>2, Zenon DEF Range
  <2>5. m \in Range(s)
    BY <2>2, Zenon DEF Range
  <2> QED
    BY <2>1, <2>3, <2>4, <2>5
<1> QED
  BY <1>1, <1>2, <1>3

\* The answers that a step neither makes nor brings back are some of those there were.
LEMMA FewerOnTheWay ==
    ASSUME Carried' \subseteq Carried
    PROVE  OnTheWay' \subseteq OnTheWay
BY DEF OnTheWay

\* An answer is on its way if the client still has it.
LEMMA IsOnTheWay ==
    ASSUME NEW m \in Carried, IsAnswer(m)
    PROVE  AnswerOf(m) \in OnTheWay
BY DEF OnTheWay

\* A step that puts no message into a queue or on the line but moves one on carries no
\* other ones.
LEMMA FewerCarried ==
    ASSUME TypeOK,
           wire' = wire \/ wire' = << >> \/ (wire # << >> /\ wire' = Tail(wire)),
           msg' = msg \/ msg' = None \/ (wire # << >> /\ msg' = Head(wire)),
           \A r \in Requests :
              \/ inbox'[r] = inbox[r] \/ inbox'[r] = << >>
              \/ inbox[r] # << >> /\ inbox'[r] = Tail(inbox[r])
              \/ msg # None /\ inbox'[r] = Append(inbox[r], msg)
    PROVE  OnTheWay' \subseteq OnTheWay
<1>1. wire \in Seq(Messages) /\ msg \in Messages \cup {None}
  BY DEF TypeOK
<1>2. \A r \in Requests : inbox[r] \in Seq(Messages)
  BY DEF TypeOK
<1>3. Range(wire') \subseteq Range(wire)
  BY <1>1, ElementsOf
<1>4. msg' = msg \/ msg' = None \/ msg' \in Range(wire)
  BY <1>1, ElementsOf
<1>5. ASSUME NEW r \in Requests
      PROVE  Range(inbox'[r]) \subseteq Range(inbox[r]) \cup ({msg} \ {None})
  <2>1. CASE inbox'[r] = inbox[r] \/ inbox'[r] = << >>
    BY <2>1, ElementsOf
  <2>2. CASE inbox[r] # << >> /\ inbox'[r] = Tail(inbox[r])
    BY <1>2, <2>2, ElementsOf
  <2>3. CASE msg # None /\ inbox'[r] = Append(inbox[r], msg)
    BY <1>1, <1>2, <2>3, ElementsOf
  <2> QED
    BY <2>1, <2>2, <2>3
<1>6. Carried' \subseteq Carried
  BY <1>3, <1>4, <1>5 DEF Carried
<1> QED
  BY <1>6, FewerOnTheWay

\* The steps of RequestReply, and those that it does not see.
ExchangeStep == [Exchange!Next]_<<state, id, heard, OnTheWay>>

\* Losing answers, or doing nothing that it sees.
LEMMA LoseIsStep ==
    ASSUME OnTheWay' \subseteq OnTheWay, UNCHANGED <<state, id, heard>>
    PROVE  ExchangeStep
BY DEF ExchangeStep, Exchange!Next, Exchange!Lose

\* The end of a call loses its queue.
LEMMA EndLoses ==
    ASSUME TypeOK, NEW r \in Requests, NEW how, End(r, how), UNCHANGED <<wire, msg>>
    PROVE  OnTheWay' \subseteq OnTheWay
<1>1. /\ inbox'[r] = << >>
      /\ \A q \in Requests \ {r} : inbox'[q] = inbox[q]
  BY DEF End, TypeOK
<1>2. wire' = wire /\ msg' = msg
  OBVIOUS
<1> QED
  BY <1>1, <1>2, FewerCarried, Zenon

\* A request is registered under a name that may have been given before.
LEMMA RegisterIsName ==
    ASSUME NEW r \in Requests, NEW prefix \in Prefixes, Register(r, prefix), TypeOK
    PROVE  ExchangeStep
<1>1. <<prefix, clock>> \in Ids
  BY DEF TypeOK, Ids
<1>2. UNCHANGED <<heard, wire, msg, inbox>>
  BY DEF Register, lineVars, readerVars
<1>3. OnTheWay' = OnTheWay
  BY <1>2 DEF OnTheWay, Carried
<1>4. Exchange!Name(r, <<prefix, clock>>)
  BY <1>2, <1>3 DEF Register, Exchange!Name
<1> QED
  BY <1>1, <1>4 DEF ExchangeStep, Exchange!Next

\* It is asked as its line is sent; the start that send may need loses what was on the line.
LEMMA SendIsAsk ==
    ASSUME NEW r \in Requests, Send(r), TypeOK
    PROVE  ExchangeStep
<1>1. UNCHANGED <<id, msg, inbox>> /\ (wire' = wire \/ wire' = << >>)
  BY DEF Send, LoseAll, readerVars
<1>2. OnTheWay' \subseteq OnTheWay
  BY <1>1, FewerCarried
<1>3. Exchange!Ask(r)
  BY <1>1, <1>2 DEF Send, Exchange!Ask, Exchange!Lose
<1> QED
  BY <1>3 DEF ExchangeStep, Exchange!Next

\* A send that raises or a deadline that passes gives the request up.
LEMMA EndIsGiveUp ==
    ASSUME NEW r \in Requests, SendFails(r) \/ TimeOut(r), TypeOK
    PROVE  ExchangeStep
<1>1. UNCHANGED <<id, heard, msg, wire>>
  BY DEF SendFails, TimeOut, lineVars, readerVars
<1>2. \/ state[r] = "registered" /\ End(r, "failed")
      \/ state[r] = "sent" /\ End(r, "timedout")
  BY DEF SendFails, TimeOut
<1>3. OnTheWay' \subseteq OnTheWay
  BY <1>1, <1>2, EndLoses
<1>4. Exchange!GiveUp(r)
  BY <1>1, <1>2, <1>3 DEF End, Exchange!GiveUp, Exchange!Lose
<1> QED
  BY <1>4 DEF ExchangeStep, Exchange!Next

\* What a request takes is in its queue alone.
LEMMA TakenIsGone ==
    ASSUME TypeOK, AnsweredOnce, NEW r \in Requests, Receive(r), Ends(r, Head(inbox[r])),
           IsAnswer(Head(inbox[r]))
    PROVE  /\ AnswerOf(Head(inbox[r])) \in OnTheWay
           /\ AnswerOf(Head(inbox[r])) \notin OnTheWay'
<1>1. PICK m : m = Head(inbox[r])
  OBVIOUS
<1>2. /\ inbox[r] \in Seq(Messages) /\ inbox[r] # << >>
      /\ \E how : End(r, how)
      /\ wire' = wire /\ msg' = msg
  BY DEF Receive, TypeOK, lineVars, readerVars
<1>3. /\ inbox'[r] = << >>
      /\ \A q \in Requests \ {r} : inbox'[q] = inbox[q]
  BY <1>2 DEF End, TypeOK
<1>4. m \in Messages /\ m \in Range(inbox[r]) /\ IsAnswer(m)
  BY <1>1, <1>2, ElementsOf
<1>5. AnswerOf(m) \in OnTheWay
  <2>1. m \in Carried
    BY <1>4 DEF Carried
  <2> QED
    BY <1>4, <2>1, IsOnTheWay
<1>6. m.of \in Requests
  BY <1>4, Zenon DEF Messages
<1>7. Has(inbox[r], m.of)
  BY <1>4, Zenon DEF Has, Range
<1>8. /\ ~Has(wire, m.of)
      /\ msg # None /\ IsAnswer(msg) => msg.of # m.of
      /\ \A q \in Requests \ {r} : ~Has(inbox[q], m.of)
  BY <1>6, <1>7, Zenon DEF AnsweredOnce, InQueue
<1>9. ASSUME AnswerOf(m) \in OnTheWay' PROVE FALSE
  <2>1. PICK n \in Carried' : IsAnswer(n) /\ AnswerOf(n) = AnswerOf(m)
    BY <1>9 DEF OnTheWay
  <2>2. n.of = m.of
    BY <2>1 DEF AnswerOf
  <2>3. CASE n \in Range(wire')
    BY <1>2, <1>8, <2>1, <2>2, <2>3, Zenon DEF Has, Range
  <2>4. CASE n = msg' /\ n # None
    BY <1>2, <1>8, <2>1, <2>2, <2>4, Zenon
  <2>5. CASE \E q \in Requests : n \in Range(inbox'[q])
    <3>1. PICK q \in Requests : n \in Range(inbox'[q])
      BY <2>5
    <3>2. q # r
      BY <1>3, <3>1, ElementsOf
    <3>3. n \in Range(inbox[q])
      BY <1>3, <3>1, <3>2
    <3> QED
      BY <1>8, <2>1, <2>2, <3>2, <3>3, Zenon DEF Has, Range
  <2>6. n \in Range(wire') \/ (n = msg' /\ n # None) \/ \E q \in Requests : n \in Range(inbox'[q])
    BY <2>1 DEF Carried
  <2> QED
    BY <2>3, <2>4, <2>5, <2>6
<1> QED
  BY <1>1, <1>5, <1>9

\* The message that ends a request is an answer of its id; others are dropped.
LEMMA ReceiveIsReturn ==
    ASSUME IInv, AnsweredOnce, NEW r \in Requests, Receive(r)
    PROVE  ExchangeStep
<1> DEFINE m == Head(inbox[r])
<1>1. TypeOK /\ inbox[r] \in Seq(Messages) /\ inbox[r] # << >> /\ state[r] = "sent"
  BY DEF IInv, TypeOK, Receive
<1>2. UNCHANGED <<id, heard, msg, wire>>
  BY DEF Receive, lineVars, readerVars
<1>3. CASE ~Ends(r, m)
  <2>1. state' = state /\ inbox' = [inbox EXCEPT ![r] = Tail(inbox[r])]
    BY <1>3 DEF Receive
  <2>2. \A q \in Requests : inbox'[q] = inbox[q] \/ (inbox[q] # << >> /\ inbox'[q] = Tail(inbox[q]))
    BY <1>1, <2>1 DEF TypeOK
  <2>3. OnTheWay' \subseteq OnTheWay
    BY <1>1, <1>2, <2>2, FewerCarried
  <2> QED
    BY <1>2, <2>1, <2>3, LoseIsStep
<1>4. CASE Ends(r, m)
  <2>1. IsAnswer(m) /\ m.kind \in {"done", "error"}
    BY <1>4 DEF Ends, IsAnswer
  <2>2. End(r, IF m.kind = "done" THEN "completed" ELSE "failed")
    BY <1>4, <2>1 DEF Receive
  <2>3. AnswerOf(m) \in OnTheWay /\ AnswerOf(m) \notin OnTheWay'
    BY <1>1, <1>4, <2>1, TakenIsGone
  <2>4. OnTheWay' \subseteq OnTheWay
    BY <1>1, <1>2, <2>2, EndLoses
  <2>5. m.id = id[r]
    <3>1. 1 \in DOMAIN inbox[r] /\ m = inbox[r][1]
      BY <1>1, HeldInTail
    <3> QED
      BY <3>1, Zenon DEF IInv, MessagesFit, Fits
  <2>6. AnswerOf(m).name = id[r] /\ AnswerOf(m).kind = m.kind
    BY <2>5 DEF AnswerOf
  <2> HIDE DEF m
  <2>7. Exchange!Return(r, AnswerOf(m))
    BY <1>1, <1>2, <2>2, <2>3, <2>4, <2>6 DEF End, Exchange!Return
  <2> QED
    BY <2>3, <2>7 DEF ExchangeStep, Exchange!Next
<1> QED
  BY <1>3, <1>4

\* The gateway answers a request once, under its name.
LEMMA AnswerIsReply ==
    ASSUME IInv, NEW r \in Requests, NEW kind \in {"done", "error"}, Answer(r, kind)
    PROVE  ExchangeStep
<1> DEFINE m == [id |-> id[r], of |-> r, kind |-> kind, device |-> None]
<1>1. TypeOK /\ IdsOfRequests /\ SentOnly /\ wire \in Seq(Messages)
  BY DEF IInv, TypeOK
<1>2. m \in Messages /\ wire' = Append(wire, m)
  BY <1>1, AnswerIsMessage
<1>3. UNCHANGED <<state, id, msg, inbox>> /\ r \in heard /\ heard' = heard \ {r}
  BY DEF Answer, requestVars, readerVars
<1>4. IsAnswer(m) /\ AnswerOf(m) = [of |-> r, name |-> id[r], kind |-> kind]
  BY DEF IsAnswer, AnswerOf
<1> HIDE DEF m
<1>5. Range(wire') = Range(wire) \cup {m}
  BY <1>1, <1>2, ElementsOf
<1>6. Carried' = Carried \cup {m}
  BY <1>3, <1>5 DEF Carried
<1>7. OnTheWay' = OnTheWay \cup {AnswerOf(m)}
  BY <1>4, <1>6 DEF OnTheWay
<1>8. Exchange!Reply(r, kind)
  BY <1>3, <1>4, <1>7 DEF Exchange!Reply
<1> QED
  BY <1>8 DEF ExchangeStep, Exchange!Next

\* A device that it reports is no answer.
LEMMA ReportIsUnseen ==
    ASSUME IInv, NEW r \in Requests, NEW d \in Devices, Report(r, d)
    PROVE  ExchangeStep
<1> DEFINE m == [id |-> id[r], of |-> r, kind |-> "result", device |-> d]
<1>1. TypeOK /\ IdsOfRequests /\ wire \in Seq(Messages)
  BY DEF IInv, TypeOK
<1>2. m \in Messages /\ wire' = Append(wire, m) /\ ~IsAnswer(m)
  BY <1>1, ReportIsMessage DEF IsAnswer
<1>3. UNCHANGED <<state, id, msg, inbox, heard>>
  BY DEF Report, requestVars, readerVars
<1> HIDE DEF m
<1>4. Range(wire') = Range(wire) \cup {m}
  BY <1>1, <1>2, ElementsOf
<1>5. Carried' = Carried \cup {m}
  BY <1>3, <1>4 DEF Carried
<1>6. OnTheWay' = OnTheWay
  BY <1>2, <1>5 DEF OnTheWay
<1> QED
  BY <1>3, <1>6, LoseIsStep

\* The reader moves answers on or drops them, and so do the line and close.
LEMMA ReaderMovesOn ==
    ASSUME TypeOK, Reader \/ LoseLine \/ Close \/ Tick \/ UNCHANGED vars
    PROVE  ExchangeStep
<1> USE DEF requestVars, lineVars, readerVars
<1>1. UNCHANGED <<state, id, heard>>
  BY DEF Reader, TakeLine, PutAnswer, LookupFails, LoseLine, Close, Tick, vars
<1>2. CASE PutAnswer
  <2>1. wire' = wire /\ msg' = None /\ msg # None
    BY <1>2 DEF PutAnswer
  <2>2. \A r \in Requests : inbox'[r] = inbox[r] \/ inbox'[r] = Append(inbox[r], msg)
    BY <1>2 DEF PutAnswer, TypeOK
  <2> QED
    BY <1>1, <2>1, <2>2, FewerCarried, LoseIsStep
<1>3. CASE TakeLine
  <2>1. /\ inbox' = inbox /\ wire # << >> /\ wire' = Tail(wire)
        /\ msg' = None \/ msg' = Head(wire)
    BY <1>3 DEF TakeLine
  <2> QED
    BY <1>1, <2>1, FewerCarried, LoseIsStep
<1>4. CASE LookupFails \/ Tick \/ UNCHANGED vars
  <2>1. inbox' = inbox /\ wire' = wire /\ (msg' = None \/ msg' = msg)
    BY <1>4 DEF LookupFails, Tick, vars
  <2> QED
    BY <1>1, <2>1, FewerCarried, LoseIsStep
<1>5. CASE LoseLine \/ Close
  <2>1. /\ inbox' = inbox /\ msg' = msg
        /\ wire' = << >> \/ (wire # << >> /\ wire' = Tail(wire))
    BY <1>5 DEF LoseLine, Close, LoseAll
  <2> QED
    BY <1>1, <2>1, FewerCarried, LoseIsStep
<1> QED
  BY <1>2, <1>3, <1>4, <1>5 DEF Reader

\* The client as a whole implements RequestReply: however lines are lost, answers are late,
\* ids are shared and the client is closed, a request that succeeds took an answer of its
\* name given after it was sent, and no answer ends two requests.
THEOREM ImplementsExchange == Spec => ExchangeSpec
<1>1. IInv /\ AnsweredOnce /\ [Next]_vars => AnsweredOnce'
  BY AnsweredOnceStep
<1>2. IInv /\ AnsweredOnce /\ [Next]_vars => ExchangeStep
  <2> SUFFICES ASSUME IInv, AnsweredOnce, [Next]_vars PROVE ExchangeStep
    OBVIOUS
  <2>1. TypeOK
    BY DEF IInv
  <2>2. ASSUME NEW r \in Requests, Request(r) PROVE ExchangeStep
    BY <2>1, <2>2, RegisterIsName, SendIsAsk, EndIsGiveUp, ReceiveIsReturn DEF Request
  <2>3. ASSUME NEW r \in Requests, Gateway(r) PROVE ExchangeStep
    BY <2>3, AnswerIsReply, ReportIsUnseen DEF Gateway
  <2> QED
    BY <2>1, <2>2, <2>3, ReaderMovesOn DEF Next
<1>3. Init => AnsweredOnce
  BY NoneInEmpty DEF Init, AnsweredOnce, InQueue
<1>4. Init => Exchange!Init
  <2>1. Init => Carried = {}
    BY ElementsOf DEF Init, Carried
  <2> QED
    BY <2>1 DEF Init, Exchange!Init, OnTheWay
<1> QED
  BY <1>1, <1>2, <1>3, <1>4, IInvInvariant, PTL
  DEF Spec, ExchangeSpec, ExchangeStep, Exchange!Spec, Exchange!vars
=============================================================================
