---------------------------- MODULE GatewaySession ----------------------------
(***************************************************************************)
(* The session of GatewaySerialClient                                      *)
(* (sensor_harness/adapters/gateway_ble_client.py): whichever request is   *)
(* sent first starts the client, which opens the port, launches a reader   *)
(* and makes two requests of its own, reset_session and hello, through     *)
(* send, which calls start again.  A thread's requests therefore form a    *)
(* stack.  close may come at any time, and the next request reopens the    *)
(* port.  The second attempt of subscribe_with_retry is one more call.     *)
(* Request ids do not collide here (see GatewayClient), but hello's is the *)
(* same in every session.                                                  *)
(***************************************************************************)
EXTENDS Naturals, Sequences, FiniteSets

CONSTANTS Calls,     \* calls of the client's requests, each in its thread
          MaxCloses  \* bound: calls of close

ASSUME SessionBounds == MaxCloses \in Nat

VARIABLES
    started, running,  \* the fields of these names
    ser,        \* the session whose port is open, or 0
    opens,      \* the sessions so far
    read_thread, \* the session that launched the reader to join, or 0
    readers,    \* the sessions whose reader is alive
    pending,    \* pending_requests, as records of an id and its queue
    pc, stack,  \* where each call stands, and its nested requests
    session,    \* the session that each call opened, or 0
    made,       \* the queues made so far
    inbox,      \* the first message in each queue that somebody waits on
    line,       \* external: what was written and may still be answered, in order
    closer,     \* where close stands
    closes,     \* history: calls of close
    greeted,    \* history: the sessions whose hello was answered
    opener,     \* history: the call that opened each session
    early,      \* history: calls and sessions of requests before the hello
    mistaken,   \* history: the hellos confirmed by the answer to another line
    faults      \* history: what went wrong around the port

client == <<started, running, ser, read_thread, pending>>
calls == <<pc, stack, session, made>>
history == <<opens, greeted, opener, early, mistaken>>
vars == <<client, calls, history, readers, inbox, line, closer, closes, faults>>

\* The calls whose start has a port and no reader yet, or is anywhere in start.
InStart == {c \in Calls : pc[c] \in {"opening", "starting"}}
Starting == InStart \cup {c \in Calls : Len(stack[c]) > 1}
Top(c) == stack[c][Len(stack[c])]
Rest(c) == SubSeq(stack[c], 1, Len(stack[c]) - 1)
IdsOf(frames) == {frames[i].id : i \in DOMAIN frames}
\* The queues that are left when only these frames of a call remain.
Without(c, frames) == {m \in inbox : \A i \in DOMAIN stack[c] :
                          stack[c][i].queue = m.queue => i <= Len(frames)}

Init ==
    /\ started = FALSE /\ running = FALSE
    /\ ser = 0 /\ opens = 0 /\ read_thread = 0
    /\ readers = {}
    /\ pending = {}
    /\ pc = [c \in Calls |-> "idle"]
    /\ stack = [c \in Calls |-> << >>]
    /\ session = [c \in Calls |-> 0]
    /\ made = 0
    /\ inbox = {}
    /\ line = << >>
    /\ closer = "idle" /\ closes = 0
    /\ greeted = {} /\ early = {} /\ mistaken = {} /\ faults = {}
    /\ opener = << >>

-----------------------------------------------------------------------------
(* Requests.                                                                *)

\* A request begins: its queue is registered, under the fixed id 0 for hello.
Push(c, frames, kind) ==
    LET id == IF kind = "hello" THEN 0 ELSE made + 1 IN
    /\ made' = made + 1
    /\ stack' = [stack EXCEPT ![c] = Append(frames,
                    [kind |-> kind, id |-> id, queue |-> made + 1,
                     session |-> session[c]])]
    /\ pending' = {p \in pending : p.id # id /\ p.id \notin IdsOf(stack[c]) \ IdsOf(frames)}
                     \cup {[id |-> id, queue |-> made + 1]}
    /\ pc' = [pc EXCEPT ![c] = "send"]

Call(c) ==
    /\ pc[c] = "idle"
    /\ Push(c, << >>, "request")
    /\ UNCHANGED <<started, running, ser, read_thread, session, history, readers,
                   inbox, line, closer, closes, faults>>

\* An exception leaves every request of the stack through its finally clause.
Raise(c) ==
    /\ pending' = {p \in pending : p.id \notin IdsOf(stack[c])}
    /\ inbox' = Without(c, << >>)
    /\ stack' = [stack EXCEPT ![c] = << >>]
    /\ session' = [session EXCEPT ![c] = 0]
    /\ pc' = [pc EXCEPT ![c] = "failed"]
    /\ UNCHANGED <<started, running, read_thread, made, opens, greeted, opener,
                   early, mistaken, readers, line, closer, closes>>

\* start returns at once.
IsStarted(c) ==
    /\ pc[c] = "send" /\ started
    /\ pc' = [pc EXCEPT ![c] = "write"]
    /\ UNCHANGED <<client, stack, session, made, history, readers, inbox, line,
                   closer, closes, faults>>

\* start opens the port and sleeps.
Open(c) ==
    /\ pc[c] = "send" /\ ~started
    /\ opens' = opens + 1
    /\ ser' = opens'
    /\ session' = [session EXCEPT ![c] = opens']
    /\ opener' = Append(opener, c)
    /\ pc' = [pc EXCEPT ![c] = "opening"]
    /\ faults' = faults \cup (IF Starting \ {c} # {} THEN {"two_starts"} ELSE {})
                        \cup (IF closer # "idle" THEN {"close_in_start"} ELSE {})
    /\ UNCHANGED <<started, running, read_thread, pending, stack, made,
                   greeted, early, mistaken, readers, inbox, line, closer, closes>>

OpenFails(c) ==
    /\ pc[c] = "send" /\ ~started
    /\ Raise(c)
    /\ UNCHANGED <<ser, faults>>

\* reset_input_buffer, on the port if there still is one.  The answers it drops
\* are among those that Lose loses; so are those that the port drops in close.
ResetInput(c) ==
    /\ pc[c] = "opening" /\ ser # 0
    /\ pc' = [pc EXCEPT ![c] = "starting"]
    /\ UNCHANGED <<client, stack, session, made, history, readers, inbox, line,
                   closer, closes, faults>>

\* It is gone, or the settings of the port cannot be made: it stays open.
ResetInputFails(c) ==
    /\ pc[c] = "opening"
    /\ Raise(c)
    /\ faults' = faults \cup (IF ser # 0 THEN {"left_open"} ELSE {})
    /\ UNCHANGED ser

\* Mutants of FirstRequest: hello without a reset; no handshake.
HelloOnly(c) == Push(c, stack[c], "hello")
NoHandshake(c) == pc' = [pc EXCEPT ![c] = "write"] /\ UNCHANGED <<stack, made, pending>>

FirstRequest(c) == Push(c, stack[c], "reset")

\* The reader is launched, the client is started, and the handshake begins.  A
\* reader that finds no port dies of its assertion.
Launch(c) ==
    /\ pc[c] = "starting"
    /\ running' = TRUE
    /\ started' = TRUE
    /\ read_thread' = session[c]
    /\ readers' = IF ser = 0 THEN readers ELSE readers \cup {session[c]}
    /\ FirstRequest(c)
    /\ UNCHANGED <<ser, session, history, inbox, line, closer, closes, faults>>

Write(c) ==
    /\ pc[c] = "write" /\ ser # 0
    /\ line' = Append(line, [id |-> Top(c).id, from |-> Top(c).queue])
    /\ early' = IF Top(c).kind = "request" /\ ser \notin greeted
                THEN early \cup {<<c, ser>>} ELSE early
    /\ pc' = [pc EXCEPT ![c] = "wait"]
    /\ UNCHANGED <<client, stack, session, made, opens, greeted, opener, mistaken, readers,
                   inbox, closer, closes, faults>>

\* The port is gone, or the write times out.
WriteFails(c) ==
    /\ pc[c] = "write"
    /\ Raise(c)
    /\ UNCHANGED <<ser, faults>>

Answered(c) == \E m \in inbox : m.queue = Top(c).queue

\* reset_session is answered: hello is next.
ResetDone(c) ==
    /\ pc[c] = "wait" /\ Top(c).kind = "reset"
    /\ Answered(c)
    /\ inbox' = Without(c, Rest(c))
    /\ Push(c, Rest(c), "hello")
    /\ UNCHANGED <<started, running, ser, read_thread, session, history, readers,
                   line, closer, closes, faults>>

\* hello is answered: start returns to the send that called it.
HelloDone(c) ==
    /\ pc[c] = "wait" /\ Top(c).kind = "hello"
    /\ \E m \in inbox :
          /\ m.queue = Top(c).queue
          /\ mistaken' = IF m.from = m.queue THEN mistaken
                         ELSE mistaken \cup {Top(c).session}
    /\ greeted' = greeted \cup {Top(c).session}
    /\ pending' = {p \in pending : p.id # 0}
    /\ inbox' = Without(c, Rest(c))
    /\ stack' = [stack EXCEPT ![c] = Rest(c)]
    /\ pc' = [pc EXCEPT ![c] = "write"]
    /\ UNCHANGED <<started, running, ser, read_thread, session, made, opens,
                   opener, early, readers, line, closer, closes, faults>>

RequestDone(c) ==
    /\ pc[c] = "wait" /\ Top(c).kind = "request"
    /\ Answered(c)
    /\ pending' = {p \in pending : p.id # Top(c).id}
    /\ inbox' = Without(c, << >>)
    /\ stack' = [stack EXCEPT ![c] = << >>]
    /\ session' = [session EXCEPT ![c] = 0]
    /\ pc' = [pc EXCEPT ![c] = "done"]
    /\ UNCHANGED <<started, running, ser, read_thread, made, history, readers, line,
                   closer, closes, faults>>

\* The deadline passes, or the answer is an error, which has the same effect.
TimeOut(c) ==
    /\ pc[c] = "wait"
    /\ Raise(c)
    /\ UNCHANGED <<ser, faults>>

CallStep(c) ==
    \/ IsStarted(c) \/ Open(c) \/ OpenFails(c) \/ ResetInput(c)
    \/ ResetInputFails(c) \/ Launch(c) \/ Write(c) \/ WriteFails(c) \/ ResetDone(c)
    \/ HelloDone(c) \/ RequestDone(c) \/ TimeOut(c)

-----------------------------------------------------------------------------
(* The readers, the gateway, and close.                                     *)

\* A reader takes the next answer from the port of the moment.
Route ==
    /\ readers # {} /\ ser # 0 /\ line # << >>
    /\ line' = Tail(line)
    /\ inbox' = inbox \cup
          {[queue |-> p.queue, from |-> Head(line).from] :
              p \in {q \in pending : /\ q.id = Head(line).id
                                     /\ \A m \in inbox : m.queue # q.queue}}
    /\ UNCHANGED <<client, calls, history, readers, closer, closes, faults>>

ReaderEnds(s) ==
    /\ ~running
    /\ readers' = readers \ {s}
    /\ UNCHANGED <<client, calls, history, inbox, line, closer, closes, faults>>

\* The gateway answers in order, if it does, and an answer may be lost, on the
\* way or with the port.
Lose ==
    /\ line # << >>
    /\ line' = Tail(line)
    /\ UNCHANGED <<client, calls, history, readers, inbox, closer, closes, faults>>

StartClose ==
    /\ closer = "idle" /\ closes < MaxCloses
    /\ running' = FALSE
    /\ closer' = "joining"
    /\ closes' = closes + 1
    /\ faults' = faults \cup (IF InStart # {} THEN {"close_in_start"} ELSE {})
    /\ UNCHANGED <<started, ser, read_thread, pending, calls, history, readers, inbox,
                   line>>

\* Mutant of JoinReader: close does not wait for the reader.
JoinNobody ==
    /\ closer = "joining"
    /\ read_thread' = 0
    /\ closer' = "closing"
    /\ UNCHANGED <<started, running, ser, pending, calls, history, readers, inbox, line,
                   closes, faults>>

\* The join is given up after a second: event handlers keep the reader busy, or a
\* start that overlaps lets it run on.
JoinReader ==
    /\ closer = "joining"
    /\ faults' = IF read_thread \in readers THEN faults \cup {"join_gave_up"} ELSE faults
    /\ read_thread' = 0
    /\ closer' = "closing"
    /\ UNCHANGED <<started, running, ser, pending, calls, history, readers, inbox, line,
                   closes>>

ClosePort ==
    /\ closer = "closing"
    /\ ser' = 0
    /\ closer' = "clearing"
    /\ UNCHANGED <<started, running, read_thread, pending, calls, history, readers,
                   inbox, line, closes, faults>>

\* Mutant of Forget: the client stays started.
ForgetRequests == pending' = {} /\ UNCHANGED started

Forget == pending' = {} /\ started' = FALSE

EndClose ==
    /\ closer = "clearing"
    /\ Forget
    /\ closer' = "idle"
    /\ UNCHANGED <<running, ser, read_thread, calls, history, readers, inbox, line,
                   closes, faults>>

Next ==
    \/ \E c \in Calls : Call(c) \/ CallStep(c)
    \/ Route \/ Lose
    \/ \E s \in readers : ReaderEnds(s)
    \/ StartClose \/ JoinReader \/ ClosePort \/ EndClose

Spec == Init /\ [][Next]_vars

-----------------------------------------------------------------------------
(* Properties.                                                              *)

\* Type invariant.
Frames == [kind : {"request", "reset", "hello"}, id : Nat, queue : Nat, session : Nat]
TypeOK ==
    /\ started \in BOOLEAN /\ running \in BOOLEAN
    /\ opens \in Nat /\ made \in Nat
    /\ ser \in 0..opens /\ read_thread \in 0..opens
    /\ readers \subseteq 1..opens
    /\ pending \subseteq [id : Nat, queue : Nat]
    /\ pc \in [Calls -> {"idle", "send", "opening", "starting", "write", "wait",
                         "done", "failed"}]
    /\ stack \in [Calls -> Seq(Frames)]
    /\ session \in [Calls -> 0..opens]
    /\ inbox \subseteq [queue : Nat, from : Nat]
    /\ line \in Seq([id : Nat, from : Nat])
    /\ closer \in {"idle", "joining", "closing", "clearing"}
    /\ closes \in 0..MaxCloses
    /\ opener \in Seq(Calls) /\ Len(opener) = opens
    /\ greeted \subseteq 1..opens /\ mistaken \subseteq 1..opens
    /\ early \subseteq Calls \X (1..opens)

\* However the gateway delays its answers, a hello is never confirmed by the
\* answer to that of an earlier session, though their ids are the same: the reset
\* is answered in between.  Two starts that overlap may confuse theirs.
AckIsOwn == "two_starts" \notin faults => mistaken = {}

\* The call that opens a session sends its request only after the gateway has
\* answered the hello of that session.  Only other calls go ahead of it, second
\* attempts after a start that raised among them.
GreetsFirst == \A e \in early : opener[e[2]] # e[1]

\* Two readers never share the port, unless two starts overlapped, a start and a
\* close did, or close gave up joining the old one.
OneReader ==
    Cardinality(readers) > 1 =>
        faults \cap {"two_starts", "close_in_start", "join_gave_up"} # {}

\* Outside start and close, the client is started exactly if it has its port: it
\* can be reopened after close, and no port is left behind.  A close during
\* a start breaks this, and so does a port whose settings fail.
PortIsKnown ==
    closer = "idle" /\ InStart = {} /\ started # (ser # 0) =>
        faults \cap {"close_in_start", "left_open"} # {}

=============================================================================
