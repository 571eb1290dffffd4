---------------------------- MODULE GatewayClient ----------------------------
(***************************************************************************)
(* GatewaySerialClient (sensor_harness/adapters/gateway_ble_client.py):    *)
(* threads of the executor send requests over one serial line and wait,    *)
(* each on a queue of its own, for the answer that a reader thread routes  *)
(* by request id.  A request id is a prefix and the wall clock in ms, so   *)
(* two requests of one kind made in one millisecond share it.  A scan gets *)
(* a message for each device and one more at its end, other requests get   *)
(* one.  The gateway answers in any order, late or never, and a line of    *)
(* the serial stream may be lost.                                          *)
(***************************************************************************)
EXTENDS Naturals, Sequences, FiniteSets, Functions

CONSTANTS Requests,   \* calls of write_gatt, read_gatt, subscribe, ...
          Prefixes,   \* the prefixes of their request ids
          Scan,       \* the prefix of scans
          Devices,    \* the devices that a scan may report
          None,       \* no request, no id, no message
          MaxClock,   \* bound: milliseconds
          MaxCloses   \* bound: calls of close

ASSUME ScanIsAPrefix == Scan \in Prefixes
ASSUME GatewayBounds == MaxClock \in Nat /\ MaxCloses \in Nat

Ids == Prefixes \X (0..MaxClock)

\* A message: the request id it carries, the request it answers, what it is and,
\* if it is a scan_result, the device.
Kinds == {"done", "error", "result"}
Messages == [id : Ids, of : Requests, kind : Kinds, device : Devices \cup {None}]

ASSUME NoneIsNothing == None \notin Requests \cup Devices \cup Ids \cup Messages

VARIABLES
    clock,       \* int(time.time() * 1000)
    port,        \* the serial port: "open" or "closed"
    state,       \* where each request stands
    id,          \* the request_id of each request
    made,        \* history: the clock when each request was registered
    pending,     \* pending_requests: the request whose queue an id has, or None
    inbox,       \* the queue of each request
    heard,       \* external: the requests the gateway has yet to answer
    wire,        \* external: the answers on the line
    msg,         \* the message for which the reader has found a queue, or None
    answer,      \* the message that ended each request
    found,       \* the matches of each scan
    reported,    \* history: the devices the gateway reported for each scan
    lost,        \* history: those of them whose line was lost
    skipped,     \* history: requests of which a KeyError kept a message from the
                 \* event handlers
    closes       \* history: calls of close

requestVars == <<state, id, made, inbox, answer, found>>
lineVars == <<heard, wire, reported, lost>>
readerVars == <<msg, skipped>>
vars == <<clock, port, pending, closes, requestVars, lineVars, readerVars>>

Live == {"registered", "sent"}
Ended == {"completed", "failed", "timedout"}

Init ==
    /\ clock = 0
    /\ port = "open"
    /\ state = [r \in Requests |-> "idle"]
    /\ id = [r \in Requests |-> None]
    /\ made = [r \in Requests |-> 0]
    /\ pending = [i \in Ids |-> None]
    /\ inbox = [r \in Requests |-> << >>]
    /\ heard = {}
    /\ wire = << >>
    /\ msg = None
    /\ answer = [r \in Requests |-> None]
    /\ found = [r \in Requests |-> {}]
    /\ reported = [r \in Requests |-> {}]
    /\ lost = [r \in Requests |-> {}]
    /\ skipped = {}
    /\ closes = 0

Tick ==
    /\ clock < MaxClock
    /\ clock' = clock + 1
    /\ UNCHANGED <<port, pending, closes, requestVars, lineVars, readerVars>>

-----------------------------------------------------------------------------
(* A request: register a queue under a fresh id, send, wait, unregister.    *)

\* Mutant of Register: the request id is the same every time, like hello's.
RegisterUnderPrefix(r, prefix) ==
    /\ state[r] = "idle"
    /\ state' = [state EXCEPT ![r] = "registered"]
    /\ id' = [id EXCEPT ![r] = <<prefix, 0>>]
    /\ made' = [made EXCEPT ![r] = clock]
    /\ pending' = [pending EXCEPT ![<<prefix, 0>>] = r]
    /\ UNCHANGED <<clock, port, closes, inbox, answer, found, lineVars, readerVars>>

\* request_id and _register_request: an entry with the same id is replaced.
Register(r, prefix) ==
    /\ state[r] = "idle"
    /\ state' = [state EXCEPT ![r] = "registered"]
    /\ id' = [id EXCEPT ![r] = <<prefix, clock>>]
    /\ made' = [made EXCEPT ![r] = clock]
    /\ pending' = [pending EXCEPT ![<<prefix, clock>>] = r]
    /\ UNCHANGED <<clock, port, closes, inbox, answer, found, lineVars, readerVars>>

\* Mutants of Unregister: nothing is removed; every entry is.
UnregisterNothing(r) == UNCHANGED pending
UnregisterAll(r) == pending' = [i \in Ids |-> None]

\* _unregister_request, in every request's finally clause: whatever queue
\* the id has is removed.
Unregister(r) == pending' = [pending EXCEPT ![id[r]] = None]

\* The call is over: its queue goes with it, and its matches unless it returns them.
End(r, how) ==
    /\ state' = [state EXCEPT ![r] = how]
    /\ inbox' = [inbox EXCEPT ![r] = << >>]
    /\ Unregister(r)

\* The devices whose scan_result for r is on the line.
OnLine(r) == {wire[i].device : i \in {j \in DOMAIN wire : wire[j].of = r}} \ {None}
LoseAll == wire' = << >> /\ lost' = [r \in Requests |-> lost[r] \cup OnLine(r)]

\* send: start opens a closed port, and drops what was on the line.
Send(r) ==
    /\ state[r] = "registered"
    /\ port' = "open"
    /\ IF port = "open" THEN UNCHANGED <<wire, lost>> ELSE LoseAll
    /\ heard' = heard \cup {r}
    /\ state' = [state EXCEPT ![r] = "sent"]
    /\ UNCHANGED <<clock, pending, closes, id, made, inbox, answer, found, reported,
                   readerVars>>

\* The port cannot be opened or the write times out.
SendFails(r) ==
    /\ state[r] = "registered"
    /\ End(r, "failed")
    /\ UNCHANGED <<clock, port, closes, id, made, answer, found, lineVars, readerVars>>

Scans(r) == id[r] # None /\ id[r][1] = Scan

\* Mutant of Ends: a scan ends with its first message.
EndsAtOnce(r, m) == TRUE

\* Whether m ends the wait of r: a scan overlooks an error and waits on.
Ends(r, m) == m.kind = "done" \/ (m.kind = "error" /\ ~Scans(r))

\* _wait_for_success, and the loop of scan: the message that carries the request's
\* id ends the wait or adds a match to those of the scan.
Receive(r) ==
    /\ state[r] = "sent"
    /\ inbox[r] # << >>
    /\ LET m == Head(inbox[r]) IN
          IF Ends(r, m)
          THEN /\ End(r, IF m.kind = "error" THEN "failed" ELSE "completed")
               /\ answer' = [answer EXCEPT ![r] = m]
               /\ UNCHANGED found
          ELSE /\ inbox' = [inbox EXCEPT ![r] = Tail(@)]
               /\ found' = [found EXCEPT ![r] = @ \cup ({m.device} \ {None})]
               /\ UNCHANGED <<state, pending, answer>>
    /\ UNCHANGED <<clock, port, closes, id, made, lineVars, readerVars>>

\* The deadline passes, also with an answer in the queue: the clock is read
\* before the queue is.
TimeOut(r) ==
    /\ state[r] = "sent"
    /\ End(r, "timedout")
    /\ found' = [found EXCEPT ![r] = {}]
    /\ UNCHANGED <<clock, port, closes, id, made, answer, lineVars, readerVars>>

-----------------------------------------------------------------------------
(* The gateway and the serial line.                                         *)

Put(m) == wire' = Append(wire, m)

\* A scan_result; reporting a device again would change no set of matches.
Report(r, d) ==
    /\ port = "open"
    /\ r \in heard
    /\ Scans(r)
    /\ d \notin reported[r]
    /\ reported' = [reported EXCEPT ![r] = @ \cup {d}]
    /\ Put([id |-> id[r], of |-> r, kind |-> "result", device |-> d])
    /\ UNCHANGED <<clock, port, pending, closes, requestVars, heard, lost, readerVars>>

Answer(r, kind) ==
    /\ port = "open"
    /\ r \in heard
    /\ heard' = heard \ {r}
    /\ Put([id |-> id[r], of |-> r, kind |-> kind, device |-> None])
    /\ UNCHANGED <<clock, port, pending, closes, requestVars, reported, lost,
                   readerVars>>

LoseLine ==
    /\ wire # << >>
    /\ wire' = Tail(wire)
    /\ LET m == Head(wire)
       IN  lost' = [lost EXCEPT ![m.of] = @ \cup ({m.device} \ {None})]
    /\ UNCHANGED <<clock, port, pending, closes, requestVars, heard, reported,
                   readerVars>>

-----------------------------------------------------------------------------
(* _read_loop and _route_json: the id is looked up, the message is put into *)
(* the queue of the id, which is looked up again, and then goes to the      *)
(* event handlers.                                                          *)

\* A message that nobody waits for goes to the event handlers alone.
TakeLine ==
    /\ port = "open"
    /\ msg = None
    /\ wire # << >>
    /\ wire' = Tail(wire)
    /\ msg' = IF pending[Head(wire).id] # None THEN Head(wire) ELSE None
    /\ UNCHANGED <<clock, port, pending, closes, requestVars, heard, reported, lost,
                   skipped>>

\* Mutant of PutAnswer: the message goes to every request under way of its prefix.
PutAnswerByPrefix ==
    /\ msg # None
    /\ pending[msg.id] # None
    /\ inbox' = [r \in Requests |-> IF state[r] \in Live /\ id[r][1] = msg.id[1]
                                   THEN Append(inbox[r], msg) ELSE inbox[r]]
    /\ msg' = None
    /\ UNCHANGED <<clock, port, pending, closes, state, id, made, answer, found, lineVars,
                   skipped>>

\* The message goes to whoever is registered under its id now.
PutAnswer ==
    /\ msg # None
    /\ pending[msg.id] # None
    /\ inbox' = [inbox EXCEPT ![pending[msg.id]] = Append(@, msg)]
    /\ msg' = None
    /\ UNCHANGED <<clock, port, pending, closes, state, id, made, answer, found, lineVars,
                   skipped>>

\* The request was unregistered in between: the KeyError ends this turn of
\* the read loop before the event handlers are called.
LookupFails ==
    /\ msg # None
    /\ pending[msg.id] = None
    /\ msg' = None
    /\ skipped' = skipped \cup {msg.of}
    /\ UNCHANGED <<clock, port, pending, closes, requestVars, lineVars>>

Reader == TakeLine \/ PutAnswer \/ LookupFails

\* close, by the harness, whatever requests are waiting.
Close ==
    /\ port = "open"
    /\ closes < MaxCloses
    /\ port' = "closed"
    /\ closes' = closes + 1
    /\ LoseAll
    /\ pending' = [i \in Ids |-> None]
    /\ UNCHANGED <<clock, requestVars, heard, reported, readerVars>>

Request(r) ==
    \/ \E prefix \in Prefixes : Register(r, prefix)
    \/ Send(r) \/ SendFails(r) \/ Receive(r) \/ TimeOut(r)

Gateway(r) ==
    \/ \E kind \in {"done", "error"} : Answer(r, kind)
    \/ \E d \in Devices : Report(r, d)

Next ==
    \/ Tick
    \/ \E r \in Requests : Request(r) \/ Gateway(r)
    \/ LoseLine
    \/ Reader
    \/ Close

Spec == Init /\ [][Next]_vars

-----------------------------------------------------------------------------
(* Properties.                                                              *)

\* Type invariant.
TypeOK ==
    /\ clock \in 0..MaxClock
    /\ port \in {"open", "closed"}
    /\ state \in [Requests -> {"idle"} \cup Live \cup Ended]
    /\ id \in [Requests -> Ids \cup {None}]
    /\ made \in [Requests -> 0..MaxClock]
    /\ pending \in [Ids -> Requests \cup {None}]
    /\ inbox \in [Requests -> Seq(Messages)]
    /\ heard \subseteq Requests
    /\ wire \in Seq(Messages)
    /\ msg \in Messages \cup {None}
    /\ answer \in [Requests -> Messages \cup {None}]
    /\ found \in [Requests -> SUBSET Devices]
    /\ reported \in [Requests -> SUBSET Devices]
    /\ lost \in [Requests -> SUBSET Devices]
    /\ skipped \subseteq Requests
    /\ closes \in 0..MaxCloses

\* Two requests of one prefix made in one millisecond.
Collides(r) == \E q \in Requests \ {r} :
                  made[q] = made[r] /\ id[q] # None /\ id[q] = id[r]

\* A request ends with the answer to the message it sent itself: answers that
\* arrive late or out of order never complete another request.  Requests that
\* share an id are the only exception.
RightAnswer ==
    \A r \in Requests :
        answer[r] # None /\ ~Collides(r) => answer[r].of = r

\* _register_request and _unregister_request keep pending_requests exact: an
\* entry belongs to a request under way, and a request under way has its entry
\* unless it shares its id or the client was closed.
PendingIsLive ==
    /\ \A i \in Ids : pending[i] # None =>
          state[pending[i]] \in Live /\ id[pending[i]] = i
    /\ \A r \in Requests :
          state[r] \in Live /\ ~Collides(r) /\ closes = 0 => pending[id[r]] = r

\* A scan that completes returns the devices that the gateway reported for it:
\* all of them but those whose line was lost, whatever other requests end, time
\* out or get their answers meanwhile, and none that was reported for another.
ScanIsWhole ==
    \A r \in Requests :
        state[r] = "completed" /\ Scans(r) /\ ~Collides(r) =>
            /\ found[r] \subseteq reported[r]
            /\ reported[r] \ lost[r] \subseteq found[r]

\* The handlers miss a message only if its request had already given up, shares
\* its id with another, or was cut off by close.
EventSkippedOnlyAfterEnd ==
    \A r \in skipped : state[r] \in Ended \/ Collides(r) \/ closes > 0

\* The messages that the line, the reader or a queue has, and the answers among them.
Carried ==
    Range(wire) \cup ({msg} \ {None}) \cup UNION {Range(inbox[r]) : r \in Requests}
IsAnswer(m) == m.kind # "result"
AnswerOf(m) == [of |-> m.of, name |-> m.id, kind |-> m.kind]
OnTheWay == {AnswerOf(m) : m \in {n \in Carried : IsAnswer(n)}}

\* However lines are lost, answers are late, ids are shared and the client is closed, a
\* request succeeds only with an answer of its id that was given after it was sent, and
\* no answer of the gateway ends two requests.
Exchange == INSTANCE RequestReply WITH Callers <- Requests, Names <- Ids,
                                       stage <- state, name <- id,
                                       asked <- heard, answers <- OnTheWay
ExchangeSpec == Exchange!Spec
=============================================================================
