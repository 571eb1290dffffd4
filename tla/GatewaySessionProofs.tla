------------------------ MODULE GatewaySessionProofs ------------------------
(***************************************************************************)
(* What holds of the session of GatewaySerialClient for every set of calls *)
(* and any number of closes.                                               *)
(***************************************************************************)
EXTENDS GatewaySession, Integers, FiniteSetTheorems, TLAPS

-----------------------------------------------------------------------------
(* The inductive invariant.                                                 *)

Orderly == "two_starts" \notin faults
Over == {"idle", "done", "failed"}
Waits(c) == pc[c] = "wait"

\* A call has requests exactly while it runs: its own is the first, those above it
\* belong to starts, and whoever is in start has opened a session.
StacksAreCalls ==
    \A c \in Calls :
        /\ stack[c] = << >> <=> pc[c] \in Over
        /\ stack[c] = << >> => session[c] = 0
        /\ c \in Starting => session[c] # 0
        /\ \A i \in DOMAIN stack[c] :
              /\ stack[c][i].kind = "request" <=> i = 1
              /\ stack[c][i].id = IF stack[c][i].kind = "hello" THEN 0 ELSE stack[c][i].queue
              /\ stack[c][i].queue \in 1..made
              /\ i > 1 => stack[c][i].session \in 1..opens

\* Every request has its queue, and only the hellos share an id, which is 0.
QueuesApart ==
    \A c, d \in Calls : \A i \in DOMAIN stack[c], j \in DOMAIN stack[d] :
        stack[c][i].queue = stack[d][j].queue => c = d /\ i = j
QueuesMade ==
    /\ \A p \in pending : p.queue \in 1..made /\ p.id \in {0, p.queue}
    /\ \A m \in inbox : m.queue \in 1..made
    /\ \A k \in DOMAIN line : line[k].from \in 1..made /\ line[k].id \in {0, line[k].from}

\* A request is written once, and is then waited for until it is over.
WrittenOnce ==
    /\ \A j, k \in DOMAIN line : line[j].from = line[k].from => j = k
    /\ \A c \in Calls : \A i \in DOMAIN stack[c], k \in DOMAIN line :
          line[k].from = stack[c][i].queue => i = Len(stack[c]) /\ Waits(c)

\* The queue under the id of the hellos is that of a call's last one.
LastHello(c, i) == /\ stack[c][i].kind = "hello"
                   /\ \A j \in DOMAIN stack[c] : stack[c][j].kind = "hello" => j <= i
HelloIsLast ==
    \A p \in pending : p.id = 0 =>
        \E c \in Calls : \E i \in DOMAIN stack[c] :
            LastHello(c, i) /\ stack[c][i].queue = p.queue

\* While starts do not overlap: what carries the id of the hellos is the answer to
\* the one that waits for it, because a reset is answered after all that was
\* written before it.
OneStart == Orderly => \A c, d \in Starting : c = d
HelloOnLine ==
    Orderly => \A p \in pending : p.id = 0 =>
        \A k \in DOMAIN line : line[k].id = 0 => line[k].from = p.queue
AnswersAreOwn ==
    Orderly => \A m \in inbox :
        /\ m.from = m.queue
        /\ \A k \in DOMAIN line : line[k].from # m.queue
        /\ \A c \in Calls : \A i \in DOMAIN stack[c] :
              stack[c][i].queue = m.queue => i = Len(stack[c]) /\ Waits(c)
ResetIsBehind ==
    Orderly => \A c \in Calls : Waits(c) /\ Top(c).kind = "reset" =>
        \A k \in DOMAIN line : line[k].id = 0 =>
            \E j \in DOMAIN line : k < j /\ line[j].from = Top(c).queue

\* The port is that of the last session; who opened it is in it or over, and is in
\* the handshake until its hello was answered.
OpenerGreets ==
    /\ ser \in {0, opens}
    /\ opens # 0 => session[opener[opens]] = opens \/ pc[opener[opens]] \in {"done", "failed"}
    /\ \A c \in Calls :
          session[c] \notin greeted \cup {0} /\ pc[c] \notin {"opening", "starting"} =>
              Len(stack[c]) > 1 /\ Top(c).session = session[c]

\* Unless something went wrong around the port, only the reader to be joined lives,
\* none while the client is not started, and one call at a time is in start.
OneReaderAtMost ==
    faults \cap {"two_starts", "close_in_start", "join_gave_up"} = {} =>
        /\ readers \subseteq {read_thread}
        /\ InStart # {} => ~started /\ closer = "idle"
        /\ ~started => readers = {}
        /\ closer \in {"closing", "clearing"} => readers = {}
        /\ \A c, d \in InStart : c = d

\* The same of the port: a start keeps it, and only close takes it away.
PortIsKept ==
    faults \cap {"close_in_start", "left_open"} = {} =>
        /\ InStart # {} => closer = "idle" /\ ser # 0
        /\ InStart = {} /\ closer # "clearing" => started = (ser # 0)
        /\ closer = "clearing" => ser = 0

IInv == /\ TypeOK
        /\ StacksAreCalls /\ QueuesApart /\ QueuesMade /\ WrittenOnce /\ HelloIsLast
        /\ OneStart /\ HelloOnLine /\ AnswersAreOwn /\ ResetIsBehind /\ AckIsOwn
        /\ OpenerGreets /\ GreetsFirst /\ OneReaderAtMost /\ PortIsKept

-----------------------------------------------------------------------------
(* The shapes of steps.                                                     *)

\* A step of c that keeps its first n requests, none of which has been written.
Keeps(c, n) ==
    /\ n \in Nat /\ n <= Len(stack[c]) /\ (n = Len(stack[c]) => ~Waits(c))
    /\ stack'[c] \in Seq(Frames)
    /\ \A i \in 1..n : stack'[c][i] = stack[c][i]
    /\ \A d \in Calls : d # c =>
          stack'[d] = stack[d] /\ pc'[d] = pc[d] /\ session'[d] = session[d]
    /\ pc'[c] \notin {"wait", "opening", "starting"}
    /\ line' = line /\ inbox' \subseteq inbox
    /\ faults \subseteq faults' /\ opens' = opens

NewFrame(c, kind) == [kind |-> kind, id |-> IF kind = "hello" THEN 0 ELSE made + 1,
                      queue |-> made + 1, session |-> session[c]]
Pushes(c, n, kind) ==
    /\ Keeps(c, n)
    /\ Len(stack'[c]) = n + 1 /\ stack'[c][n + 1] = NewFrame(c, kind)
    /\ made' = made + 1 /\ session'[c] = session[c]
    /\ pc'[c] = "send" /\ mistaken' = mistaken
    /\ \A p \in pending' : \/ p \in pending /\ (kind = "hello" => p.id # 0)
                           \/ p = [id |-> NewFrame(c, kind).id, queue |-> made + 1]
Pops(c, n) ==
    /\ Keeps(c, n)
    /\ n < Len(stack[c]) /\ Len(stack'[c]) = n
    /\ made' = made /\ pending' \subseteq pending

\* A step that leaves the requests and what was written or answered.
Quiet ==
    /\ stack' = stack /\ made' = made /\ line' = line /\ inbox' = inbox
    /\ \A c \in Calls : Waits(c)' <=> Waits(c)
    /\ pending' \subseteq pending /\ faults \subseteq faults' /\ mistaken' = mistaken

\* Without its last request a stack has the same requests below.
LEMMA RestKeeps ==
    ASSUME TypeOK, NEW c \in Calls, stack[c] # << >>
    PROVE  /\ Rest(c) \in Seq(Frames) /\ Len(Rest(c)) = Len(stack[c]) - 1
           /\ \A i \in 1..(Len(stack[c]) - 1) : Rest(c)[i] = stack[c][i]
           /\ Len(stack[c]) \in Nat \ {0} /\ Len(stack[c]) \in DOMAIN stack[c]
           /\ DOMAIN stack[c] = 1..Len(stack[c])
<1>1. stack[c] \in Seq(Frames)
  BY DEF TypeOK
<1> QED
  BY <1>1 DEF Rest

\* What Push does to the stack of its call.
LEMMA PushKeeps ==
    ASSUME TypeOK, NEW c \in Calls, NEW kind \in {"request", "reset", "hello"},
           NEW frames \in Seq(Frames), NEW n \in Nat, n = Len(frames), n <= Len(stack[c]),
           \A i \in 1..n : frames[i] = stack[c][i],
           n = Len(stack[c]) => ~Waits(c),
           session' = session, line' = line, inbox' \subseteq inbox, faults' = faults,
           opens' = opens, mistaken' = mistaken,
           Push(c, frames, kind)
    PROVE  Pushes(c, n, kind)
<1>1. /\ stack \in [Calls -> Seq(Frames)] /\ made \in Nat /\ session[c] \in Nat
      /\ pc' = [pc EXCEPT ![c] = "send"] /\ DOMAIN pc = Calls
  BY DEF TypeOK, Push
<1>2. NewFrame(c, kind) \in Frames
  BY <1>1 DEF NewFrame, Frames
<1>3. stack' = [stack EXCEPT ![c] = Append(frames, NewFrame(c, kind))] /\ made' = made + 1
  BY DEF Push, NewFrame
<1>4. /\ stack'[c] = Append(frames, NewFrame(c, kind))
      /\ \A d \in Calls : d # c => stack'[d] = stack[d] /\ pc'[d] = pc[d]
      /\ pc'[c] = "send"
  BY <1>1, <1>3
<1>5. /\ stack'[c] \in Seq(Frames) /\ Len(stack'[c]) = n + 1
      /\ stack'[c][n + 1] = NewFrame(c, kind)
      /\ \A i \in 1..n : stack'[c][i] = frames[i]
  BY <1>2, <1>4
<1>6. \A p \in pending' : \/ p \in pending /\ (kind = "hello" => p.id # 0)
                          \/ p = [id |-> NewFrame(c, kind).id, queue |-> made + 1]
  BY DEF Push, NewFrame
<1>7. Keeps(c, n)
  BY <1>4, <1>5 DEF Keeps
<1> QED
  BY <1>3, <1>4, <1>5, <1>6, <1>7 DEF Pushes

\* The three kinds of requests that begin.
LEMMA CallPushes ==
    ASSUME IInv, NEW c \in Calls, Call(c)
    PROVE  Pushes(c, 0, "request") /\ stack[c] = << >>
<1>1. stack[c] = << >> /\ ~Waits(c)
  BY DEF Call, IInv, StacksAreCalls, Over, Waits
<1>2. Len(stack[c]) = 0 /\ << >> \in Seq(Frames) /\ Len(<< >>) = 0
  BY <1>1
<1>3. 0 <= Len(stack[c]) /\ \A i \in 1..0 : << >>[i] = stack[c][i]
  BY <1>2
<1>4. /\ session' = session /\ line' = line /\ inbox' \subseteq inbox /\ faults' = faults
      /\ opens' = opens /\ mistaken' = mistaken /\ Push(c, << >>, "request") /\ TypeOK
  BY DEF Call, history, IInv
<1>5. Pushes(c, 0, "request")
  BY <1>1, <1>2, <1>3, <1>4, PushKeeps
<1> QED
  BY <1>1, <1>5

\* The start of the reader puts a reset on top of the start.
LEMMA LaunchPushes ==
    ASSUME IInv, NEW c \in Calls, Launch(c)
    PROVE  Pushes(c, Len(stack[c]), "reset") /\ stack[c] # << >>
<1>1. stack[c] # << >> /\ ~Waits(c) /\ stack[c] \in Seq(Frames)
  BY DEF Launch, IInv, StacksAreCalls, Over, Waits, TypeOK
<1>2. Len(stack[c]) <= Len(stack[c])
  BY <1>1
<1> QED
  BY <1>1, <1>2, PushKeeps DEF Launch, FirstRequest, history, IInv

\* The answer of the reset puts a hello in its place.
LEMMA ResetDonePushes ==
    ASSUME IInv, NEW c \in Calls, ResetDone(c)
    PROVE  Pushes(c, Len(stack[c]) - 1, "hello") /\ Len(stack[c]) > 1
<1>1. stack[c] # << >>
  BY DEF ResetDone, IInv, StacksAreCalls, Over
<1>2. Top(c).kind = "reset" /\ Len(stack[c]) > 1
  BY <1>1, RestKeeps DEF ResetDone, IInv, StacksAreCalls, Top
<1>3. inbox' \subseteq inbox
  BY DEF ResetDone, Without
<1> QED
  BY <1>1, <1>2, <1>3, RestKeeps, PushKeeps DEF ResetDone, history, IInv

\* The ways in which requests end.
LEMMA HelloDonePops ==
    ASSUME IInv, NEW c \in Calls, HelloDone(c)
    PROVE  /\ Pops(c, Len(stack[c]) - 1) /\ Len(stack[c]) > 1 /\ Top(c).kind = "hello"
           /\ pc'[c] = "write" /\ session' = session
<1>1. stack[c] # << >>
  BY DEF HelloDone, IInv, StacksAreCalls, Over
<1>2. Top(c).kind = "hello" /\ Len(stack[c]) > 1
  BY <1>1, RestKeeps DEF HelloDone, IInv, StacksAreCalls, Top
<1>3. /\ stack' = [stack EXCEPT ![c] = Rest(c)] /\ DOMAIN stack = Calls
      /\ pc' = [pc EXCEPT ![c] = "write"] /\ DOMAIN pc = Calls
      /\ session' = session /\ made' = made /\ line' = line /\ faults' = faults
      /\ opens' = opens /\ inbox' \subseteq inbox /\ pending' \subseteq pending
  BY DEF HelloDone, IInv, TypeOK, Without
<1>4. /\ stack'[c] = Rest(c) /\ pc'[c] = "write"
      /\ \A d \in Calls : d # c => stack'[d] = stack[d] /\ pc'[d] = pc[d]
  BY <1>3
<1>5. TypeOK
  BY DEF IInv
<1>6. /\ Len(stack[c]) - 1 \in Nat /\ Len(stack[c]) - 1 < Len(stack[c])
      /\ stack'[c] \in Seq(Frames) /\ Len(stack'[c]) = Len(stack[c]) - 1
      /\ \A i \in 1..(Len(stack[c]) - 1) : stack'[c][i] = stack[c][i]
  BY <1>1, <1>4, <1>5, RestKeeps
<1>7. Keeps(c, Len(stack[c]) - 1)
  BY <1>3, <1>4, <1>6 DEF Keeps
<1> QED
  BY <1>2, <1>3, <1>4, <1>6, <1>7 DEF Pops

\* A call that is over keeps none of its requests.
LEMMA EndPops ==
    ASSUME IInv, NEW c \in Calls, NEW end \in {"failed", "done"}, stack[c] # << >>,
           stack' = [stack EXCEPT ![c] = << >>], session' = [session EXCEPT ![c] = 0],
           pc' = [pc EXCEPT ![c] = end], made' = made, line' = line, inbox' \subseteq inbox,
           opens' = opens, pending' \subseteq pending, faults \subseteq faults'
    PROVE  Pops(c, 0)
<1>1. DOMAIN stack = Calls /\ DOMAIN pc = Calls /\ DOMAIN session = Calls
  BY DEF IInv, TypeOK
<1>2. /\ stack'[c] = << >> /\ pc'[c] = end
      /\ \A d \in Calls : d # c =>
            stack'[d] = stack[d] /\ pc'[d] = pc[d] /\ session'[d] = session[d]
  BY <1>1
<1>3. /\ 0 < Len(stack[c]) /\ stack'[c] \in Seq(Frames) /\ Len(stack'[c]) = 0
      /\ 0 \in Nat /\ 0 <= Len(stack[c]) /\ 0 # Len(stack[c])
      /\ \A i \in 1..0 : stack'[c][i] = stack[c][i]
  <2>1. TypeOK
    BY DEF IInv
  <2> QED
    BY <1>2, <2>1, RestKeeps
<1>4. Keeps(c, 0)
  BY <1>2, <1>3 DEF Keeps
<1> QED
  BY <1>3, <1>4 DEF Pops

\* A request that raises ends the whole call, through the finally clauses of its frames.
LEMMA RaisePops ==
    ASSUME IInv, NEW c \in Calls, Raise(c), pc[c] \notin Over, faults \subseteq faults'
    PROVE  /\ Pops(c, 0) /\ mistaken' = mistaken /\ stack'[c] = << >> /\ pc'[c] = "failed"
           /\ session'[c] = 0
           /\ \A p \in pending' : p.id \notin IdsOf(stack[c])
<1>1. stack[c] # << >>
  BY DEF IInv, StacksAreCalls
<1>2. inbox' \subseteq inbox /\ pending' \subseteq pending
  BY DEF Raise, Without
<1>3. Pops(c, 0)
  BY <1>1, <1>2, EndPops DEF Raise
<1>4. stack'[c] = << >> /\ pc'[c] = "failed" /\ session'[c] = 0
  BY DEF Raise, IInv, TypeOK
<1> QED
  BY <1>3, <1>4 DEF Raise

\* The answer to the call's own request ends the call.
LEMMA RequestDonePops ==
    ASSUME IInv, NEW c \in Calls, RequestDone(c)
    PROVE  /\ Pops(c, 0) /\ mistaken' = mistaken /\ stack'[c] = << >> /\ pc'[c] = "done"
           /\ session'[c] = 0 /\ Len(stack[c]) = 1 /\ Top(c).kind = "request"
<1>1. stack[c] # << >>
  BY DEF RequestDone, IInv, StacksAreCalls, Over
<1>2. Top(c).kind = "request" /\ Len(stack[c]) = 1
  BY <1>1, RestKeeps DEF RequestDone, IInv, StacksAreCalls, Top
<1>3. inbox' \subseteq inbox /\ pending' \subseteq pending
  BY DEF RequestDone, Without
<1>4. Pops(c, 0)
  BY <1>1, <1>3, EndPops DEF RequestDone, history
<1>5. stack'[c] = << >> /\ pc'[c] = "done" /\ session'[c] = 0 /\ mistaken' = mistaken
  BY DEF RequestDone, IInv, TypeOK, history
<1> QED
  BY <1>2, <1>4, <1>5

\* The requests after such a step: each was there before at its place, unwritten if
\* it is of that call, or is the one just begun.
Renews(c, n) == Pops(c, n) \/ \E kind \in {"request", "reset", "hello"} : Pushes(c, n, kind)
Stays(c, n, d, i) ==
    /\ i \in DOMAIN stack[d] /\ stack'[d][i] = stack[d][i]
    /\ IF d = c THEN i <= n /\ ~(i = Len(stack[d]) /\ Waits(d))
                ELSE stack'[d] = stack[d] /\ pc'[d] = pc[d]
Begins(c, d, i) ==
    d = c /\ stack'[d][i].queue = made + 1 /\ made' = made + 1 /\ i = Len(stack'[d])

\* The frames of a stack after a step are those before it, or one with a new queue.
LEMMA FramesAfter ==
    ASSUME TypeOK, NEW c \in Calls, NEW n, Renews(c, n),
           NEW d \in Calls, NEW i \in DOMAIN stack'[d]
    PROVE  Stays(c, n, d, i) \/ Begins(c, d, i)
<1>1. Keeps(c, n)
  BY DEF Renews, Pops, Pushes
<1>2. CASE d # c
  BY <1>1, <1>2 DEF Keeps, Stays
<1>3. CASE d = c
  <2>1. /\ n \in Nat /\ n <= Len(stack[c]) /\ stack[c] \in Seq(Frames)
        /\ stack'[c] \in Seq(Frames) /\ DOMAIN stack[c] = 1..Len(stack[c])
        /\ DOMAIN stack'[c] = 1..Len(stack'[c])
        /\ \A j \in 1..n : stack'[c][j] = stack[c][j]
    BY <1>1 DEF Keeps, TypeOK
  <2>2. ASSUME i <= n
        PROVE  Stays(c, n, d, i)
    BY <1>1, <1>3, <2>1, <2>2 DEF Stays, Keeps
  <2>3. CASE Pops(c, n)
    BY <1>3, <2>1, <2>2, <2>3 DEF Pops
  <2>4. ASSUME NEW kind \in {"request", "reset", "hello"}, Pushes(c, n, kind)
        PROVE  i <= n \/ Begins(c, d, i)
    <3>1. Len(stack'[c]) = n + 1 /\ stack'[c][n + 1].queue = made + 1 /\ made' = made + 1
      BY <2>4 DEF Pushes, NewFrame
    <3> QED
      BY <1>3, <2>1, <3>1 DEF Begins
  <2> QED
    BY <2>2, <2>3, <2>4 DEF Renews
<1> QED
  BY <1>2, <1>3

\* Where a call stands, of the calls that such a step does not concern.
LEMMA WaitsAfter ==
    ASSUME NEW c \in Calls, NEW n, Renews(c, n), NEW d \in Calls, Waits(d)'
    PROVE  d # c /\ Waits(d) /\ stack'[d] = stack[d]
BY DEF Renews, Pops, Pushes, Keeps, Waits

\* What was written and answered is of earlier requests than the one just begun.
LEMMA RenewedQueues ==
    ASSUME IInv, NEW c \in Calls, NEW n, Renews(c, n)
    PROVE  QueuesApart' /\ QueuesMade' /\ WrittenOnce' /\ AnswersAreOwn' /\ ResetIsBehind'
<1> USE DEF IInv
<1>1. Keeps(c, n) /\ made' \in {made, made + 1} /\ made \in Nat
  BY DEF Renews, Pops, Pushes, TypeOK
<1>2. line' = line /\ inbox' \subseteq inbox /\ (Orderly' => Orderly)
  BY <1>1 DEF Keeps, Orderly
<1>3. \A d \in Calls : \A i \in DOMAIN stack[d] : stack[d][i].queue \in 1..made
  BY DEF StacksAreCalls
<1>4. QueuesApart'
  <2> SUFFICES ASSUME NEW d \in Calls, NEW e \in Calls,
                      NEW i \in DOMAIN stack'[d], NEW j \in DOMAIN stack'[e],
                      stack'[d][i].queue = stack'[e][j].queue
               PROVE  d = e /\ i = j
    BY DEF QueuesApart
  <2>1. CASE Stays(c, n, d, i) /\ Stays(c, n, e, j)
    BY <2>1 DEF QueuesApart, Stays
  <2>2. CASE Stays(c, n, d, i) /\ Begins(c, e, j)
    BY <1>1, <1>3, <2>2 DEF Stays, Begins
  <2>3. CASE Begins(c, d, i) /\ Stays(c, n, e, j)
    BY <1>1, <1>3, <2>3 DEF Stays, Begins
  <2>4. CASE Begins(c, d, i) /\ Begins(c, e, j)
    BY <2>4 DEF Begins
  <2> QED
    BY <2>1, <2>2, <2>3, <2>4, FramesAfter
<1>5. QueuesMade'
  <2>1. \A p \in pending' : p \in pending \/ (p.queue = made + 1 /\ p.id \in {0, p.queue}
                                              /\ made' = made + 1)
    BY DEF Renews, Pops, Pushes, NewFrame
  <2>2. \A p \in pending' : p.queue \in 1..made' /\ p.id \in {0, p.queue}
    BY <1>1, <2>1 DEF QueuesMade
  <2>3. \A m \in inbox' : m.queue \in 1..made'
    BY <1>1, <1>2 DEF QueuesMade
  <2>4. \A k \in DOMAIN line' : line'[k].from \in 1..made' /\ line'[k].id \in {0, line'[k].from}
    BY <1>1, <1>2 DEF QueuesMade
  <2> QED
    BY <2>2, <2>3, <2>4 DEF QueuesMade
<1>6. WrittenOnce'
  <2>1. ASSUME NEW d \in Calls, NEW i \in DOMAIN stack'[d], NEW k \in DOMAIN line,
               line[k].from = stack'[d][i].queue
        PROVE  i = Len(stack'[d]) /\ Waits(d)'
    <3>1. line[k].from \in 1..made
      BY DEF QueuesMade
    <3>2. ~Begins(c, d, i)
      BY <1>1, <2>1, <3>1 DEF Begins
    <3>3. Stays(c, n, d, i)
      BY <3>2, FramesAfter
    <3>4. i = Len(stack[d]) /\ Waits(d)
      BY <2>1, <3>3 DEF WrittenOnce, Stays
    <3> QED
      BY <3>3, <3>4 DEF Stays, Waits
  <2> QED
    BY <1>2, <2>1 DEF WrittenOnce
<1>7. AnswersAreOwn'
  <2> SUFFICES ASSUME Orderly, NEW m \in inbox'
               PROVE  /\ m.from = m.queue
                      /\ \A k \in DOMAIN line : line[k].from # m.queue
                      /\ \A d \in Calls : \A i \in DOMAIN stack'[d] :
                            stack'[d][i].queue = m.queue => i = Len(stack'[d]) /\ Waits(d)'
    BY <1>2 DEF AnswersAreOwn
  <2>1. m \in inbox /\ m.queue \in 1..made
    BY <1>2 DEF QueuesMade
  <2>2. ASSUME NEW d \in Calls, NEW i \in DOMAIN stack'[d], stack'[d][i].queue = m.queue
        PROVE  i = Len(stack'[d]) /\ Waits(d)'
    <3>1. ~Begins(c, d, i)
      BY <1>1, <2>1, <2>2 DEF Begins
    <3>2. Stays(c, n, d, i)
      BY <3>1, FramesAfter
    <3>3. i = Len(stack[d]) /\ Waits(d)
      BY <2>1, <2>2, <3>2 DEF AnswersAreOwn, Stays
    <3> QED
      BY <3>2, <3>3 DEF Stays, Waits
  <2> QED
    BY <2>1, <2>2 DEF AnswersAreOwn
<1>8. ResetIsBehind'
  <2> SUFFICES ASSUME Orderly, NEW d \in Calls, Waits(d)', Top(d)'.kind = "reset",
                      NEW k \in DOMAIN line, line[k].id = 0
               PROVE  \E j \in DOMAIN line : k < j /\ line[j].from = Top(d)'.queue
    BY <1>2 DEF ResetIsBehind
  <2>1. Waits(d) /\ Top(d)' = Top(d)
    BY WaitsAfter DEF Top
  <2> QED
    BY <2>1 DEF ResetIsBehind
<1> QED
  BY <1>4, <1>5, <1>6, <1>7, <1>8

\* A call's last hello stays its last one unless its step takes it off or begins
\* another.
LEMMA LastHelloStays ==
    ASSUME IInv, NEW c \in Calls, NEW n,
           Pops(c, n) \/ Pushes(c, n, "request") \/ Pushes(c, n, "reset"),
           NEW d \in Calls, NEW i \in DOMAIN stack[d], LastHello(d, i), d = c => i <= n
    PROVE  i \in DOMAIN stack'[d] /\ LastHello(d, i)' /\ stack'[d][i] = stack[d][i]
<1>1. Renews(c, n) /\ Keeps(c, n) /\ TypeOK
  BY DEF Renews, Pops, Pushes, IInv
<1>2. CASE d # c
  BY <1>1, <1>2 DEF Keeps, LastHello
<1>3. CASE d = c
  <2>1. /\ n \in Nat /\ DOMAIN stack[c] = 1..Len(stack[c])
        /\ DOMAIN stack'[c] = 1..Len(stack'[c]) /\ Len(stack'[c]) \in {n, n + 1}
        /\ \A j \in 1..n : stack'[c][j] = stack[c][j]
    BY <1>1 DEF Keeps, Pops, Pushes, TypeOK
  <2>2. i \in DOMAIN stack'[c] /\ stack'[c][i] = stack[c][i]
    BY <1>3, <2>1
  <2>3. ASSUME NEW j \in DOMAIN stack'[c], stack'[c][j].kind = "hello"
        PROVE  j <= i
    <3>1. CASE Stays(c, n, c, j)
      BY <1>3, <2>3, <3>1 DEF Stays, LastHello
    <3>2. CASE Begins(c, c, j)
      <4>1. j = n + 1 \/ Pops(c, n)
        BY <3>2 DEF Begins, Pushes
      <4>2. ~Pops(c, n)
        BY <3>2 DEF Begins, Pops, IInv, TypeOK
      <4>3. stack'[c][j].kind \in {"request", "reset"}
        BY <4>1, <4>2 DEF Pushes, NewFrame
      <4> QED
        BY <2>3, <4>3
    <3> QED
      BY <1>1, <3>1, <3>2, FramesAfter
  <2> QED
    BY <1>3, <2>2, <2>3 DEF LastHello
<1> QED
  BY <1>2, <1>3

\* What is pending under the id of the hellos stays that of a last hello, and is as
\* on the line, if no hello begins and those taken off are unregistered.
LEMMA HellosStay ==
    ASSUME IInv, NEW c \in Calls, NEW n,
           Pops(c, n) \/ Pushes(c, n, "request") \/ Pushes(c, n, "reset"),
           \A p \in pending' : p.id = 0 =>
               \A i \in DOMAIN stack[c] : stack[c][i].kind = "hello" => i <= n
    PROVE  HelloIsLast' /\ HelloOnLine'
<1>1. Keeps(c, n) /\ made \in Nat
  BY DEF Pops, Pushes, IInv, TypeOK
<1>2. \A p \in pending' : p.id = 0 => p \in pending
  BY <1>1 DEF Pops, Pushes, NewFrame
<1>3. HelloIsLast'
  <2> SUFFICES ASSUME NEW p \in pending', p.id = 0
               PROVE  \E d \in Calls : \E i \in DOMAIN stack'[d] :
                          LastHello(d, i)' /\ stack'[d][i].queue = p.queue
    BY DEF HelloIsLast
  <2>1. PICK d \in Calls : \E i \in DOMAIN stack[d] :
                               LastHello(d, i) /\ stack[d][i].queue = p.queue
    BY <1>2 DEF IInv, HelloIsLast
  <2>2. PICK i \in DOMAIN stack[d] : LastHello(d, i) /\ stack[d][i].queue = p.queue
    BY <2>1
  <2>3. d = c => i <= n
    BY <2>2 DEF LastHello
  <2>4. i \in DOMAIN stack'[d] /\ LastHello(d, i)' /\ stack'[d][i] = stack[d][i]
    BY <2>2, <2>3, LastHelloStays
  <2> QED
    BY <2>2, <2>4
<1>4. HelloOnLine'
  BY <1>1, <1>2 DEF IInv, HelloOnLine, Keeps, Orderly
<1> QED
  BY <1>3, <1>4

\* The invariants about hellos and answers, together.
Answers == /\ QueuesApart /\ QueuesMade /\ WrittenOnce /\ HelloIsLast
           /\ HelloOnLine /\ AnswersAreOwn /\ ResetIsBehind /\ AckIsOwn

\* An unwritten reset, or a call's own request, begins.
LEMMA AnswersAfterPush ==
    ASSUME IInv, NEW c \in Calls, NEW kind \in {"request", "reset"},
           Pushes(c, Len(stack[c]), kind)
    PROVE  Answers'
<1>1. \A i \in DOMAIN stack[c] : i <= Len(stack[c])
  BY DEF IInv, TypeOK
<1>2. HelloIsLast' /\ HelloOnLine'
  BY <1>1, HellosStay
<1>3. Renews(c, Len(stack[c]))
  BY DEF Renews
<1>4. AckIsOwn'
  BY DEF IInv, AckIsOwn, Pushes, Keeps
<1> QED
  BY <1>2, <1>3, <1>4, RenewedQueues DEF Answers

\* A call raises or is done, and unregisters its hellos.
LEMMA AnswersAfterEnd ==
    ASSUME IInv, NEW c \in Calls, Pops(c, 0), mistaken' = mistaken,
           \A p \in pending' : p.id = 0 => \A i \in DOMAIN stack[c] : stack[c][i].kind # "hello"
    PROVE  Answers'
<1>1. HelloIsLast' /\ HelloOnLine'
  BY HellosStay
<1>2. Renews(c, 0)
  BY DEF Renews
<1>3. AckIsOwn'
  BY DEF IInv, AckIsOwn, Pops, Keeps
<1> QED
  BY <1>1, <1>2, <1>3, RenewedQueues DEF Answers

\* A request that fails takes nothing from the line.
LEMMA AnswersAfterRaise ==
    ASSUME IInv, NEW c \in Calls, Raise(c), pc[c] \notin Over, faults \subseteq faults'
    PROVE  Answers'
<1>1. /\ Pops(c, 0) /\ mistaken' = mistaken
      /\ \A p \in pending' : p.id \notin IdsOf(stack[c])
  BY RaisePops
<1>2. \A i \in DOMAIN stack[c] : stack[c][i].kind = "hello" => 0 \in IdsOf(stack[c])
  BY DEF IInv, StacksAreCalls, IdsOf
<1> QED
  BY <1>1, <1>2, AnswersAfterEnd

\* An answered request takes its own answer only.
LEMMA AnswersAfterRequestDone ==
    ASSUME IInv, NEW c \in Calls, RequestDone(c)
    PROVE  Answers'
<1>1. Pops(c, 0) /\ mistaken' = mistaken /\ Len(stack[c]) = 1 /\ Top(c).kind = "request"
  BY RequestDonePops
<1>2. DOMAIN stack[c] = 1..1
  BY <1>1 DEF IInv, TypeOK
<1>3. \A i \in DOMAIN stack[c] : stack[c][i].kind # "hello"
  BY <1>1, <1>2 DEF Top
<1> QED
  BY <1>1, <1>3, AnswersAfterEnd

\* reset_session is answered: nothing that was written before it is left on the
\* line, no earlier hello in particular.
LEMMA AnswersAfterResetDone ==
    ASSUME IInv, NEW c \in Calls, ResetDone(c)
    PROVE  Answers'
<1> DEFINE n == Len(stack[c]) - 1
<1>1. Pushes(c, n, "hello") /\ n > 0 /\ Keeps(c, n) /\ Renews(c, n)
  BY ResetDonePushes DEF Pushes, Renews
<1>2. /\ stack'[c] \in Seq(Frames) /\ Len(stack'[c]) = n + 1 /\ n \in Nat
      /\ DOMAIN stack'[c] = 1..(n + 1) /\ made \in Nat
      /\ stack'[c][n + 1] = NewFrame(c, "hello")
  <2>1. /\ stack'[c] \in Seq(Frames) /\ Len(stack'[c]) = n + 1 /\ n \in Nat
        /\ stack'[c][n + 1] = NewFrame(c, "hello")
    BY <1>1 DEF Pushes, Keeps
  <2>2. made \in Nat
    BY DEF IInv, TypeOK
  <2> QED
    BY <2>1, <2>2
<1>3. \A p \in pending' : p.id = 0 => p = [id |-> 0, queue |-> made + 1]
  BY <1>1 DEF Pushes, NewFrame
<1>4. HelloIsLast'
  <2>1. LastHello(c, n + 1)' /\ stack'[c][n + 1].queue = made + 1
    BY <1>2 DEF LastHello, NewFrame
  <2> QED
    BY <1>2, <1>3, <2>1 DEF HelloIsLast
<1>5. Orderly => \A k \in DOMAIN line : line[k].id # 0
  <2>1. Waits(c) /\ Top(c).kind = "reset"
    BY DEF ResetDone, Waits
  <2>2. PICK m \in inbox : m.queue = Top(c).queue
    BY DEF ResetDone, Answered
  <2>3. Orderly => \A k \in DOMAIN line : line[k].from # Top(c).queue
    BY <2>2 DEF IInv, AnswersAreOwn
  <2> QED
    BY <2>1, <2>3 DEF IInv, ResetIsBehind
<1>6. HelloOnLine'
  BY <1>1, <1>5 DEF HelloOnLine, Keeps, Orderly
<1>7. AckIsOwn'
  BY <1>1 DEF IInv, AckIsOwn, Pushes, Keeps
<1> QED
  BY <1>1, <1>4, <1>6, <1>7, RenewedQueues DEF Answers

\* hello is answered: it is taken off, and by its own answer.
LEMMA AnswersAfterHelloDone ==
    ASSUME IInv, NEW c \in Calls, HelloDone(c)
    PROVE  Answers'
<1>1. Pops(c, Len(stack[c]) - 1)
  BY HelloDonePops
<1>2. Renews(c, Len(stack[c]) - 1) /\ faults' = faults
  BY <1>1 DEF Renews, HelloDone
<1>3. \A p \in pending' : p.id # 0
  BY DEF HelloDone
<1>4. HelloIsLast' /\ HelloOnLine'
  BY <1>3 DEF HelloIsLast, HelloOnLine
<1>5. AckIsOwn'
  <2>1. PICK m \in inbox : /\ m.queue = Top(c).queue
                           /\ mistaken' = IF m.from = m.queue THEN mistaken
                                          ELSE mistaken \cup {Top(c).session}
    BY DEF HelloDone
  <2>2. Orderly => m.from = m.queue
    BY DEF IInv, AnswersAreOwn
  <2> QED
    BY <1>2, <2>1, <2>2 DEF IInv, AckIsOwn, Orderly
<1> QED
  BY <1>2, <1>4, <1>5, RenewedQueues DEF Answers

-----------------------------------------------------------------------------
(* Answers on their way.                                                    *)

\* The line without its head.
LEMMA LineTail ==
    ASSUME TypeOK, line # << >>, line' = Tail(line)
    PROVE  /\ \A k \in DOMAIN line' : /\ k \in Nat \ {0} /\ k + 1 \in DOMAIN line
                                      /\ line'[k] = line[k + 1]
           /\ \A k \in DOMAIN line : k \in Nat /\ (k > 1 => /\ k - 1 \in DOMAIN line'
                                                            /\ line'[k - 1] = line[k])
           /\ 1 \in DOMAIN line /\ Head(line) = line[1]
           /\ line' \in Seq([id : Nat, from : Nat])
<1>1. line \in Seq([id : Nat, from : Nat])
  BY DEF TypeOK
<1>2. /\ Len(line) \in Nat /\ Len(line) > 0 /\ DOMAIN line = 1..Len(line)
      /\ Len(line') = Len(line) - 1 /\ DOMAIN line' = 1..(Len(line) - 1)
      /\ \A k \in 1..(Len(line) - 1) : line'[k] = line[k + 1]
      /\ Head(line) = line[1] /\ line' \in Seq([id : Nat, from : Nat])
  BY <1>1
<1>3. \A k \in 1..Len(line) : k > 1 => /\ k - 1 \in 1..(Len(line) - 1)
                                        /\ line'[k - 1] = line[(k - 1) + 1]
                                        /\ (k - 1) + 1 = k
  BY <1>2
<1>4. \A k \in 1..(Len(line) - 1) : k \in Nat \ {0} /\ k + 1 \in 1..Len(line)
  BY <1>2
<1>5. 1 \in 1..Len(line) /\ \A k \in 1..Len(line) : k \in Nat
  BY <1>2
<1>6. \A k \in DOMAIN line' : /\ k \in Nat \ {0} /\ k + 1 \in DOMAIN line
                                 /\ line'[k] = line[k + 1]
  BY <1>2, <1>4
<1>7. \A k \in DOMAIN line : k \in Nat /\ (k > 1 => /\ k - 1 \in DOMAIN line'
                                                       /\ line'[k - 1] = line[k])
  BY <1>2, <1>3, <1>5
<1> QED
  BY <1>2, <1>5, <1>6, <1>7

\* What leaves the line first was ahead of the rest.
LEMMA AnswersAfterTail ==
    ASSUME IInv, line # << >>, line' = Tail(line), stack' = stack, pc' = pc, made' = made,
           pending' = pending, faults' = faults
    PROVE  WrittenOnce' /\ HelloOnLine' /\ ResetIsBehind' /\ HelloIsLast' /\ QueuesApart'
<1>1. TypeOK
  BY DEF IInv
<1>2. /\ \A k \in DOMAIN line' : k \in Nat /\ k + 1 \in DOMAIN line /\ line'[k] = line[k + 1]
      /\ \A k \in DOMAIN line : k \in Nat /\ (k > 1 => /\ k - 1 \in DOMAIN line'
                                                       /\ line'[k - 1] = line[k])
  BY <1>1, LineTail
<1>3. WrittenOnce'
  <2>1. ASSUME NEW j \in DOMAIN line', NEW k \in DOMAIN line', line'[j].from = line'[k].from
        PROVE  j = k
    <3>1. j + 1 = k + 1
      BY <1>2, <2>1 DEF IInv, WrittenOnce
    <3> QED
      BY <1>2, <3>1
  <2>2. ASSUME NEW c \in Calls, NEW i \in DOMAIN stack[c], NEW k \in DOMAIN line',
               line'[k].from = stack[c][i].queue
        PROVE  i = Len(stack[c]) /\ Waits(c)
    BY <1>2, <2>2 DEF IInv, WrittenOnce
  <2> QED
    BY <2>1, <2>2 DEF WrittenOnce, Waits
<1>4. HelloOnLine'
  BY <1>2 DEF IInv, HelloOnLine, Orderly
<1>5. ResetIsBehind'
  <2> SUFFICES ASSUME Orderly, NEW c \in Calls, Waits(c), Top(c).kind = "reset",
                      NEW k \in DOMAIN line', line'[k].id = 0
               PROVE  \E j \in DOMAIN line' : k < j /\ line'[j].from = Top(c).queue
    BY DEF ResetIsBehind, Orderly, Waits, Top
  <2>1. k + 1 \in DOMAIN line /\ line[k + 1].id = 0 /\ k \in Nat
    BY <1>2
  <2>2. PICK j \in DOMAIN line : k + 1 < j /\ line[j].from = Top(c).queue
    BY <2>1 DEF IInv, ResetIsBehind
  <2>3. j - 1 \in DOMAIN line' /\ line'[j - 1] = line[j] /\ k < j - 1
    BY <1>2, <2>1, <2>2
  <2> QED
    BY <2>2, <2>3
<1>6. HelloIsLast' /\ QueuesApart'
  BY DEF IInv, HelloIsLast, LastHello, QueuesApart
<1> QED
  BY <1>3, <1>4, <1>5, <1>6

\* A line that is lost leaves the others in their order.
LEMMA AnswersAfterLose ==
    ASSUME IInv, Lose
    PROVE  Answers'
<1>1. /\ line # << >> /\ line' = Tail(line) /\ stack' = stack /\ pc' = pc /\ made' = made
      /\ pending' = pending /\ faults' = faults /\ inbox' = inbox /\ mistaken' = mistaken
  BY DEF Lose, client, calls, history
<1>2. \A k \in DOMAIN line' : k + 1 \in DOMAIN line /\ line'[k] = line[k + 1]
  BY <1>1, LineTail DEF IInv
<1>3. QueuesMade'
  BY <1>1, <1>2 DEF IInv, QueuesMade
<1>4. AnswersAreOwn'
  BY <1>1, <1>2 DEF IInv, AnswersAreOwn, Orderly, Waits
<1>5. AckIsOwn'
  BY <1>1 DEF IInv, AckIsOwn
<1> QED
  BY <1>1, <1>3, <1>4, <1>5, AnswersAfterTail DEF Answers

\* The reader puts an answer into the queue under its id.
LEMMA AnswersAfterRoute ==
    ASSUME IInv, Route
    PROVE  Answers'
<1>1. /\ line # << >> /\ line' = Tail(line) /\ stack' = stack /\ pc' = pc /\ made' = made
      /\ pending' = pending /\ faults' = faults /\ mistaken' = mistaken
  BY DEF Route, client, calls, history
<1>2. /\ \A k \in DOMAIN line' : /\ k \in Nat \ {0} /\ k + 1 \in DOMAIN line
                                 /\ line'[k] = line[k + 1]
      /\ 1 \in DOMAIN line /\ Head(line) = line[1]
  BY <1>1, LineTail DEF IInv
<1>3. \A m \in inbox' : \/ m \in inbox
                        \/ \E p \in pending : /\ m = [queue |-> p.queue, from |-> line[1].from]
                                              /\ p.id = line[1].id
  BY <1>2 DEF Route
<1>4. QueuesMade'
  BY <1>1, <1>2, <1>3 DEF IInv, QueuesMade
<1>5. ASSUME Orderly, NEW p \in pending, p.id = line[1].id
      PROVE  line[1].from = p.queue
  BY <1>2, <1>5 DEF IInv, QueuesMade, HelloOnLine
<1>6. AnswersAreOwn'
  <2> SUFFICES ASSUME Orderly, NEW m \in inbox'
               PROVE  /\ m.from = m.queue
                      /\ \A k \in DOMAIN line' : line'[k].from # m.queue
                      /\ \A c \in Calls : \A i \in DOMAIN stack[c] :
                            stack[c][i].queue = m.queue => i = Len(stack[c]) /\ Waits(c)
    BY <1>1 DEF AnswersAreOwn, Orderly, Waits
  <2>1. CASE m \in inbox
    BY <1>2, <2>1 DEF IInv, AnswersAreOwn
  <2>2. CASE m \notin inbox
    <3>1. PICK p \in pending : /\ m = [queue |-> p.queue, from |-> line[1].from]
                               /\ p.id = line[1].id
      BY <1>3, <2>2
    <3>2. m.from = line[1].from /\ m.queue = line[1].from
      BY <1>5, <3>1
    <3>3. \A k \in DOMAIN line' : line'[k].from # m.queue
      <4> SUFFICES ASSUME NEW k \in DOMAIN line', line'[k].from = line[1].from
                   PROVE  FALSE
        BY <3>2
      <4>1. k + 1 = 1
        BY <1>2 DEF IInv, WrittenOnce
      <4> QED
        BY <1>2, <4>1
    <3>4. \A c \in Calls : \A i \in DOMAIN stack[c] :
             stack[c][i].queue = m.queue => i = Len(stack[c]) /\ Waits(c)
      BY <1>2, <3>2 DEF IInv, WrittenOnce
    <3> QED
      BY <3>2, <3>3, <3>4
  <2> QED
    BY <2>1, <2>2
<1>7. AckIsOwn'
  BY <1>1 DEF IInv, AckIsOwn
<1> QED
  BY <1>1, <1>4, <1>6, <1>7, AnswersAfterTail DEF Answers

\* Requests other than a call's own belong to a start.
LEMMA AboveOwn ==
    ASSUME IInv, NEW c \in Calls, stack[c] # << >>
    PROVE  /\ Top(c) = stack[c][Len(stack[c])] /\ Len(stack[c]) \in DOMAIN stack[c]
           /\ Top(c) \in Frames
           /\ Top(c).kind = "request" <=> Len(stack[c]) = 1
           /\ Top(c).queue \in 1..made
           /\ Top(c).id = IF Top(c).kind = "hello" THEN 0 ELSE Top(c).queue
           /\ Top(c).kind # "request" => Len(stack[c]) > 1 /\ c \in Starting
<1> DEFINE top == Len(stack[c])
<1>1. top \in Nat /\ top # 0 /\ top \in DOMAIN stack[c] /\ stack[c] \in Seq(Frames)
  BY RestKeeps DEF IInv, TypeOK
<1>2. stack[c][top] \in Frames
  BY <1>1
<1>3. /\ stack[c][top].kind = "request" <=> top = 1
      /\ stack[c][top].queue \in 1..made
      /\ stack[c][top].id = IF stack[c][top].kind = "hello" THEN 0 ELSE stack[c][top].queue
  BY <1>1 DEF IInv, StacksAreCalls
<1>4. ASSUME top # 1
      PROVE  top > 1 /\ c \in Starting
  <2>1. top > 1
    <3> HIDE DEF top
    <3> QED
      BY <1>1, <1>4
  <2> QED
    BY <2>1 DEF Starting
<1> QED
  BY <1>1, <1>2, <1>3, <1>4 DEF Top

\* A request goes onto the line behind all others, for the first time.
LEMMA AnswersAfterWrite ==
    ASSUME IInv, NEW c \in Calls, Write(c)
    PROVE  Answers'
<1> DEFINE new == [id |-> Top(c).id, from |-> Top(c).queue]
           top == Len(stack[c])
           end == Len(line) + 1
<1>1. /\ stack' = stack /\ made' = made /\ pending' = pending /\ faults' = faults
      /\ inbox' = inbox /\ mistaken' = mistaken /\ line' = Append(line, new)
      /\ pc' = [pc EXCEPT ![c] = "wait"]
  BY DEF Write, client
<1>2. stack[c] # << >> /\ ~Waits(c) /\ TypeOK
  BY DEF Write, IInv, StacksAreCalls, Over, Waits
<1>3. top \in DOMAIN stack[c] /\ Top(c) = stack[c][top] /\ Top(c) \in Frames
  BY <1>2, AboveOwn
<1>4. new \in [id : Nat, from : Nat] /\ line \in Seq([id : Nat, from : Nat])
  BY <1>2, <1>3 DEF TypeOK, Frames
<1>5. /\ DOMAIN line = 1..Len(line) /\ DOMAIN line' = DOMAIN line \cup {end}
      /\ line'[end] = new /\ \A k \in DOMAIN line : line'[k] = line[k] /\ k < end
  <2>1. /\ Len(line) \in Nat /\ DOMAIN line = 1..Len(line)
        /\ Len(line') = Len(line) + 1 /\ DOMAIN line' = 1..(Len(line) + 1)
        /\ \A k \in 1..Len(line) : line'[k] = line[k]
        /\ line'[Len(line) + 1] = new
    BY <1>1, <1>4
  <2> QED
    BY <2>1
<1>6. /\ Waits(c)' /\ \A d \in Calls : d # c => (Waits(d)' <=> Waits(d))
  BY <1>1 DEF Waits, IInv, TypeOK
<1>7. \A k \in DOMAIN line : line[k].from # Top(c).queue
  BY <1>2, <1>3 DEF IInv, WrittenOnce
<1>8. /\ Top(c).queue \in 1..made /\ made \in Nat
      /\ Top(c).id = IF Top(c).kind = "hello" THEN 0 ELSE Top(c).queue
      /\ Top(c).kind # "request" => c \in Starting
  BY <1>2, AboveOwn DEF TypeOK
<1>9. QueuesApart' /\ HelloIsLast' /\ AckIsOwn'
  BY <1>1 DEF IInv, QueuesApart, HelloIsLast, LastHello, AckIsOwn
<1>10. QueuesMade'
  BY <1>1, <1>5, <1>8 DEF IInv, QueuesMade
<1>11. WrittenOnce'
  <2>1. ASSUME NEW j \in DOMAIN line', NEW k \in DOMAIN line', line'[j].from = line'[k].from
        PROVE  j = k
    BY <1>5, <1>7, <2>1 DEF IInv, WrittenOnce
  <2>2. ASSUME NEW d \in Calls, NEW i \in DOMAIN stack[d], NEW k \in DOMAIN line',
               line'[k].from = stack[d][i].queue
        PROVE  i = Len(stack[d]) /\ Waits(d)'
    <3>1. CASE k = end
      BY <1>3, <1>5, <1>6, <2>2, <3>1 DEF IInv, QueuesApart
    <3>2. CASE k \in DOMAIN line
      BY <1>5, <1>6, <2>2, <3>2 DEF IInv, WrittenOnce
    <3> QED
      BY <1>5, <3>1, <3>2
  <2> QED
    BY <1>1, <2>1, <2>2 DEF WrittenOnce
<1>12. HelloOnLine'
  <2> SUFFICES ASSUME Orderly, NEW p \in pending, p.id = 0,
                      NEW k \in DOMAIN line', line'[k].id = 0
               PROVE  line'[k].from = p.queue
    BY <1>1 DEF HelloOnLine, Orderly
  <2>1. CASE k \in DOMAIN line
    BY <1>5, <2>1 DEF IInv, HelloOnLine
  <2>2. CASE k = end
    <3>1. Top(c).kind = "hello"
      BY <1>5, <1>8, <2>2
    <3>2. PICK d \in Calls : \E i \in DOMAIN stack[d] :
                                LastHello(d, i) /\ stack[d][i].queue = p.queue
      BY DEF IInv, HelloIsLast
    <3>3. PICK i \in DOMAIN stack[d] : LastHello(d, i) /\ stack[d][i].queue = p.queue
      BY <3>2
    <3>4. d \in Starting
      <4>1. i # 1 /\ i \in 1..Len(stack[d]) /\ Len(stack[d]) \in Nat
        BY <3>3 DEF IInv, StacksAreCalls, LastHello, TypeOK
      <4> QED
        BY <4>1 DEF Starting
    <3>5. c \in Starting
      BY <1>8, <3>1
    <3>6. d = c /\ i = top
      <4>1. d = c
        BY <3>4, <3>5 DEF IInv, OneStart
      <4>2. top <= i /\ i <= top /\ top \in Nat /\ i \in Nat
        BY <1>2, <1>3, <3>1, <3>3, <4>1, RestKeeps DEF LastHello
      <4> QED
        BY <4>1, <4>2
    <3> QED
      BY <1>3, <1>5, <2>2, <3>3, <3>6
  <2> QED
    BY <1>5, <2>1, <2>2
<1>13. AnswersAreOwn'
  <2> SUFFICES ASSUME Orderly, NEW m \in inbox
               PROVE  /\ m.from = m.queue
                      /\ \A k \in DOMAIN line' : line'[k].from # m.queue
                      /\ \A d \in Calls : \A i \in DOMAIN stack[d] :
                            stack[d][i].queue = m.queue => i = Len(stack[d]) /\ Waits(d)'
    BY <1>1 DEF AnswersAreOwn, Orderly
  <2>1. /\ m.from = m.queue
        /\ \A k \in DOMAIN line : line[k].from # m.queue
        /\ \A d \in Calls : \A i \in DOMAIN stack[d] :
              stack[d][i].queue = m.queue => i = Len(stack[d]) /\ Waits(d)
    BY DEF IInv, AnswersAreOwn
  <2>2. Top(c).queue # m.queue
    BY <1>2, <1>3, <2>1
  <2> QED
    BY <1>5, <1>6, <2>1, <2>2
<1>14. ResetIsBehind'
  <2> SUFFICES ASSUME Orderly, NEW d \in Calls, Waits(d)', Top(d).kind = "reset",
                      NEW k \in DOMAIN line', line'[k].id = 0
               PROVE  \E j \in DOMAIN line' : k < j /\ line'[j].from = Top(d).queue
    BY <1>1 DEF ResetIsBehind, Orderly, Top
  <2>1. CASE d = c
    <3>1. k # end
      BY <1>5, <1>8, <2>1
    <3> QED
      BY <1>5, <2>1, <3>1
  <2>2. CASE d # c
    <3>1. Waits(d)
      BY <1>6, <2>2
    <3>2. CASE k \in DOMAIN line
      <4>1. PICK j \in DOMAIN line : k < j /\ line[j].from = Top(d).queue
        BY <1>5, <3>1, <3>2 DEF IInv, ResetIsBehind
      <4> QED
        BY <1>5, <4>1
    <3>3. CASE k = end
      <4>1. c \in Starting
        BY <1>5, <1>8, <3>3
      <4>2. d \in Starting
        <5>1. stack[d] # << >>
          BY <3>1 DEF IInv, StacksAreCalls, Over, Waits
        <5> QED
          BY <5>1, AboveOwn
      <4> QED
        BY <2>2, <4>1, <4>2 DEF IInv, OneStart
    <3> QED
      BY <1>5, <3>2, <3>3
  <2> QED
    BY <2>1, <2>2
<1> QED
  BY <1>9, <1>10, <1>11, <1>12, <1>13, <1>14 DEF Answers

\* Steps that leave the requests and the line.
LEMMA AnswersAfterQuiet ==
    ASSUME IInv, Quiet
    PROVE  Answers'
<1>1. /\ stack' = stack /\ made' = made /\ line' = line /\ inbox' = inbox
      /\ mistaken' = mistaken /\ pending' \subseteq pending
      /\ \A c \in Calls : Waits(c)' <=> Waits(c)
      /\ Orderly' => Orderly
  BY DEF Quiet, Orderly
<1>2. QueuesApart' /\ QueuesMade' /\ WrittenOnce'
  BY <1>1 DEF IInv, QueuesApart, QueuesMade, WrittenOnce
<1>3. HelloIsLast' /\ HelloOnLine'
  BY <1>1 DEF IInv, HelloIsLast, LastHello, HelloOnLine
<1>4. AnswersAreOwn'
  BY <1>1 DEF IInv, AnswersAreOwn
<1>5. ResetIsBehind'
  BY <1>1 DEF IInv, ResetIsBehind, Top
<1>6. AckIsOwn'
  BY <1>1 DEF IInv, AckIsOwn, Orderly
<1> QED
  BY <1>2, <1>3, <1>4, <1>5, <1>6 DEF Answers

\* Every step.
LEMMA AnswersStep ==
    ASSUME IInv, [Next]_vars
    PROVE  Answers'
<1>1. ASSUME NEW c \in Calls, Call(c)
      PROVE  Answers'
  <2>1. Pushes(c, 0, "request") /\ stack[c] = << >>
    BY <1>1, CallPushes
  <2>2. Len(stack[c]) = 0
    BY <2>1
  <2> QED
    BY <2>1, <2>2, AnswersAfterPush
<1>2. ASSUME NEW c \in Calls, CallStep(c)
      PROVE  Answers'
  <2>1. CASE IsStarted(c)
    <3>1. \A d \in Calls : Waits(d)' <=> Waits(d)
      BY <2>1 DEF IsStarted, Waits, IInv, TypeOK
    <3> QED
      BY <2>1, <3>1, AnswersAfterQuiet DEF IsStarted, Quiet, client, history
  <2>2. CASE Open(c)
    <3>1. \A d \in Calls : Waits(d)' <=> Waits(d)
      BY <2>2 DEF Open, Waits, IInv, TypeOK
    <3> QED
      BY <2>2, <3>1, AnswersAfterQuiet DEF Open, Quiet
  <2>3. CASE ResetInput(c)
    <3>1. \A d \in Calls : Waits(d)' <=> Waits(d)
      BY <2>3 DEF ResetInput, Waits, IInv, TypeOK
    <3> QED
      BY <2>3, <3>1, AnswersAfterQuiet DEF ResetInput, Quiet, client, history
  <2>4. CASE OpenFails(c) \/ ResetInputFails(c) \/ WriteFails(c) \/ TimeOut(c)
    <3>1. Raise(c) /\ pc[c] \notin Over /\ faults \subseteq faults'
      BY <2>4 DEF OpenFails, ResetInputFails, WriteFails, TimeOut, Over
    <3> QED
      BY <3>1, AnswersAfterRaise
  <2>5. CASE Launch(c)
    BY <2>5, LaunchPushes, AnswersAfterPush
  <2>6. CASE Write(c)
    BY <2>6, AnswersAfterWrite
  <2>7. CASE ResetDone(c)
    BY <2>7, AnswersAfterResetDone
  <2>8. CASE HelloDone(c)
    BY <2>8, AnswersAfterHelloDone
  <2>9. CASE RequestDone(c)
    BY <2>9, AnswersAfterRequestDone
  <2> QED
    BY <1>2, <2>1, <2>2, <2>3, <2>4, <2>5, <2>6, <2>7, <2>8, <2>9 DEF CallStep
<1>3. CASE Route
  BY <1>3, AnswersAfterRoute
<1>4. CASE Lose
  BY <1>4, AnswersAfterLose
<1>5. CASE (\E s \in readers : ReaderEnds(s)) \/ StartClose \/ JoinReader \/ ClosePort
  BY <1>5, AnswersAfterQuiet
     DEF ReaderEnds, StartClose, JoinReader, ClosePort, client, calls, history, Quiet, Waits
<1>6. CASE EndClose
  BY <1>6, AnswersAfterQuiet DEF EndClose, Forget, calls, history, Quiet, Waits
<1>7. CASE UNCHANGED vars
  BY <1>7, AnswersAfterQuiet DEF vars, client, calls, history, Quiet, Waits
<1> QED
  BY <1>1, <1>2, <1>3, <1>4, <1>5, <1>6, <1>7 DEF Next

-----------------------------------------------------------------------------
(* The stacks.                                                              *)

\* What a call's step keeps of the other calls and of its own lower requests.
LEMMA StacksAfterRenewal ==
    ASSUME IInv, NEW c \in Calls, NEW n, Renews(c, n),
           stack'[c] = << >> <=> pc'[c] \in Over,
           stack'[c] = << >> => session'[c] = 0,
           Len(stack'[c]) > 1 => session'[c] # 0,
           \A i \in DOMAIN stack'[c] : Begins(c, c, i) =>
              /\ stack'[c][i].kind = "request" <=> i = 1
              /\ stack'[c][i].id = IF stack'[c][i].kind = "hello" THEN 0 ELSE made + 1
              /\ i > 1 => stack'[c][i].session \in 1..opens
    PROVE  StacksAreCalls'
<1>1. Keeps(c, n) /\ made' \in {made, made + 1} /\ made \in Nat
  BY DEF Renews, Pops, Pushes, IInv, TypeOK
<1>2. opens' = opens /\ pc'[c] \notin {"opening", "starting"}
  BY <1>1 DEF Keeps
<1>3. ASSUME NEW d \in Calls
      PROVE  /\ stack'[d] = << >> <=> pc'[d] \in Over
             /\ stack'[d] = << >> => session'[d] = 0
             /\ d \in Starting' => session'[d] # 0
  <2>1. CASE d = c
    BY <1>2, <2>1 DEF Starting, InStart
  <2>2. CASE d # c
    <3>1. stack'[d] = stack[d] /\ pc'[d] = pc[d] /\ session'[d] = session[d]
      BY <1>1, <2>2 DEF Keeps
    <3> QED
      BY <3>1 DEF Starting, InStart, IInv, StacksAreCalls
  <2> QED
    BY <2>1, <2>2
<1>4. ASSUME NEW d \in Calls, NEW i \in DOMAIN stack'[d]
      PROVE  /\ stack'[d][i].kind = "request" <=> i = 1
             /\ stack'[d][i].id = IF stack'[d][i].kind = "hello" THEN 0
                                  ELSE stack'[d][i].queue
             /\ stack'[d][i].queue \in 1..made'
             /\ i > 1 => stack'[d][i].session \in 1..opens
  <2>1. CASE Stays(c, n, d, i)
    <3>1. i \in DOMAIN stack[d] /\ stack'[d][i] = stack[d][i]
      BY <2>1 DEF Stays
    <3>2. /\ stack[d][i].kind = "request" <=> i = 1
          /\ stack[d][i].id = IF stack[d][i].kind = "hello" THEN 0 ELSE stack[d][i].queue
          /\ stack[d][i].queue \in 1..made
          /\ i > 1 => stack[d][i].session \in 1..opens
      BY <3>1 DEF IInv, StacksAreCalls
    <3> QED
      BY <1>1, <3>1, <3>2
  <2>2. CASE Begins(c, d, i)
    <3>1. d = c /\ stack'[c][i].queue = made + 1 /\ made' = made + 1 /\ i \in DOMAIN stack'[c]
      BY <2>2 DEF Begins
    <3>2. /\ stack'[c][i].kind = "request" <=> i = 1
          /\ stack'[c][i].id = IF stack'[c][i].kind = "hello" THEN 0 ELSE made + 1
          /\ i > 1 => stack'[c][i].session \in 1..opens
      BY <2>2, <3>1
    <3>3. made + 1 \in 1..made'
      BY <1>1, <3>1
    <3> QED
      BY <3>1, <3>2, <3>3
  <2>3. TypeOK
    BY DEF IInv
  <2> QED
    BY <2>1, <2>2, <2>3, FramesAfter
<1> QED
  BY <1>2, <1>3, <1>4 DEF StacksAreCalls

\* A stack that grew has the old one below.
LEMMA StacksAfterPush ==
    ASSUME IInv, NEW c \in Calls, NEW n, NEW kind \in {"request", "reset", "hello"},
           Pushes(c, n, kind), kind = "request" <=> n = 0, n > 0 => session[c] # 0
    PROVE  StacksAreCalls'
<1>1. /\ Renews(c, n) /\ n \in Nat /\ stack'[c] \in Seq(Frames) /\ Len(stack'[c]) = n + 1
      /\ stack'[c][n + 1] = NewFrame(c, kind) /\ pc'[c] = "send" /\ session'[c] = session[c]
  BY DEF Pushes, Keeps, Renews
<1>2. stack'[c] # << >> /\ pc'[c] \notin Over
  BY <1>1 DEF Over
<1>3. session[c] \in 0..opens
  BY DEF IInv, TypeOK
<1>4. ASSUME NEW i \in DOMAIN stack'[c], Begins(c, c, i)
      PROVE  /\ stack'[c][i].kind = "request" <=> i = 1
             /\ stack'[c][i].id = IF stack'[c][i].kind = "hello" THEN 0 ELSE made + 1
             /\ i > 1 => stack'[c][i].session \in 1..opens
  <2>1. i = n + 1 /\ stack'[c][i] = NewFrame(c, kind)
    BY <1>1, <1>4 DEF Begins
  <2>2. /\ NewFrame(c, kind).kind = kind /\ NewFrame(c, kind).session = session[c]
        /\ NewFrame(c, kind).id = IF kind = "hello" THEN 0 ELSE made + 1
    BY DEF NewFrame
  <2>3. (n = 0 <=> i = 1) /\ (i > 1 => n > 0)
    BY <1>1, <2>1
  <2>4. n > 0 => session[c] \in 1..opens
    BY <1>3 DEF IInv, TypeOK
  <2> QED
    BY <2>1, <2>2, <2>3, <2>4
<1>5. Len(stack'[c]) > 1 => session'[c] # 0
  BY <1>1
<1> QED
  BY <1>1, <1>2, <1>4, <1>5, StacksAfterRenewal

\* A stack that shrank is the lower part of the old one.
LEMMA StacksAfterPop ==
    ASSUME IInv, NEW c \in Calls, NEW n, Pops(c, n),
           n = 0 <=> pc'[c] \in Over, n = 0 => session'[c] = 0, n > 0 => session'[c] # 0
    PROVE  StacksAreCalls'
<1>1. /\ Renews(c, n) /\ n \in Nat /\ stack'[c] \in Seq(Frames) /\ Len(stack'[c]) = n
      /\ made' = made /\ made \in Nat
  BY DEF Pops, Keeps, Renews, IInv, TypeOK
<1>2. /\ stack'[c] = << >> <=> pc'[c] \in Over
      /\ stack'[c] = << >> => session'[c] = 0
      /\ Len(stack'[c]) > 1 => session'[c] # 0
  BY <1>1
<1>3. \A i : ~Begins(c, c, i)
  BY <1>1 DEF Begins
<1> QED
  BY <1>1, <1>2, <1>3, StacksAfterRenewal

\* A call whose stack stays moves to where that stack lets it be.
LEMMA StacksAfterMove ==
    ASSUME IInv, stack' = stack, made' = made, opens' \in Nat, opens <= opens',
           \A c \in Calls : pc'[c] \in Over <=> pc[c] \in Over,
           \A c \in Calls : session'[c] = session[c] \/ (stack[c] # << >> /\ session'[c] # 0),
           \A c \in Calls : c \in Starting' => c \in Starting \/ session'[c] # 0
    PROVE  StacksAreCalls'
<1>1. ASSUME NEW c \in Calls
      PROVE  /\ stack[c] = << >> <=> pc'[c] \in Over
             /\ stack[c] = << >> => session'[c] = 0
             /\ c \in Starting' => session'[c] # 0
  BY DEF IInv, StacksAreCalls
<1>2. ASSUME NEW c \in Calls, NEW i \in DOMAIN stack[c], i > 1
      PROVE  stack[c][i].session \in 1..opens'
  <2>1. stack[c][i].session \in 1..opens
    BY <1>2 DEF IInv, StacksAreCalls
  <2>2. opens \in Nat
    BY DEF IInv, TypeOK
  <2> QED
    BY <2>1, <2>2
<1>3. \A c \in Calls : \A i \in DOMAIN stack[c] :
        /\ stack[c][i].kind = "request" <=> i = 1
        /\ stack[c][i].id = IF stack[c][i].kind = "hello" THEN 0 ELSE stack[c][i].queue
        /\ stack[c][i].queue \in 1..made
  BY DEF IInv, StacksAreCalls
<1> QED
  BY <1>1, <1>2, <1>3 DEF StacksAreCalls

\* Every step of a call keeps the stacks in order.
LEMMA StacksStep ==
    ASSUME IInv, [Next]_vars
    PROVE  StacksAreCalls'
<1>1. ASSUME NEW c \in Calls, Call(c)
      PROVE  StacksAreCalls'
  BY <1>1, CallPushes, StacksAfterPush
<1>2. ASSUME NEW c \in Calls, Launch(c)
      PROVE  StacksAreCalls'
  <2>1. /\ Pushes(c, Len(stack[c]), "reset") /\ Len(stack[c]) > 0
    BY <1>2, LaunchPushes, RestKeeps DEF IInv
  <2>2. session[c] # 0
    BY <1>2 DEF Launch, IInv, StacksAreCalls, Starting, InStart
  <2> QED
    BY <2>1, <2>2, StacksAfterPush
<1>3. ASSUME NEW c \in Calls, ResetDone(c)
      PROVE  StacksAreCalls'
  <2>1. Pushes(c, Len(stack[c]) - 1, "hello") /\ Len(stack[c]) > 1
    BY <1>3, ResetDonePushes
  <2>2. session[c] # 0
    BY <2>1 DEF IInv, StacksAreCalls, Starting
  <2>3. Len(stack[c]) - 1 # 0
    <3>1. Len(stack[c]) \in Nat
      BY DEF IInv, TypeOK
    <3>2. Len(stack[c]) > 1
      BY <2>1
    <3>3. \A x \in Nat : x > 1 => x - 1 # 0
      OBVIOUS
    <3> QED
      BY <3>1, <3>2, <3>3
  <2> QED
    BY <2>1, <2>2, <2>3, StacksAfterPush
<1>4. ASSUME NEW c \in Calls, HelloDone(c)
      PROVE  StacksAreCalls'
  <2>1. /\ Pops(c, Len(stack[c]) - 1) /\ Len(stack[c]) > 1
        /\ pc'[c] \notin Over /\ session' = session
    BY <1>4, HelloDonePops DEF Over
  <2>2. session[c] # 0
    BY <2>1 DEF IInv, StacksAreCalls, Starting
  <2>3. Len(stack[c]) - 1 # 0
    <3>1. Len(stack[c]) \in Nat
      BY DEF IInv, TypeOK
    <3>2. Len(stack[c]) > 1
      BY <2>1
    <3>3. \A x \in Nat : x > 1 => x - 1 # 0
      OBVIOUS
    <3> QED
      BY <3>1, <3>2, <3>3
  <2> QED
    BY <2>1, <2>2, <2>3, StacksAfterPop
<1>5. ASSUME NEW c \in Calls,
             OpenFails(c) \/ ResetInputFails(c) \/ WriteFails(c) \/ TimeOut(c)
      PROVE  StacksAreCalls'
  <2>1. Raise(c) /\ pc[c] \notin Over /\ faults \subseteq faults'
    BY <1>5 DEF OpenFails, ResetInputFails, WriteFails, TimeOut, Over
  <2>2. Pops(c, 0) /\ pc'[c] \in Over /\ session'[c] = 0
    BY <2>1, RaisePops DEF Over
  <2> QED
    BY <2>2, StacksAfterPop
<1>6. ASSUME NEW c \in Calls, RequestDone(c)
      PROVE  StacksAreCalls'
  <2>1. Pops(c, 0) /\ pc'[c] \in Over /\ session'[c] = 0
    BY <1>6, RequestDonePops DEF Over
  <2> QED
    BY <2>1, StacksAfterPop
<1>7. ASSUME NEW c \in Calls, IsStarted(c) \/ ResetInput(c) \/ Write(c)
      PROVE  StacksAreCalls'
  <2>1. /\ stack' = stack /\ made' = made /\ opens' = opens /\ opens \in Nat
        /\ session' = session
    BY <1>7 DEF IsStarted, ResetInput, Write, client, history, IInv, TypeOK
  <2>2. \A d \in Calls : /\ pc'[d] \in Over <=> pc[d] \in Over
                         /\ pc'[d] \in {"opening", "starting"} =>
                               pc[d] \in {"opening", "starting"}
    BY <1>7 DEF IsStarted, ResetInput, Write, Over, IInv, TypeOK
  <2>3. \A d \in Calls : d \in Starting' => d \in Starting
    BY <2>1, <2>2 DEF Starting, InStart
  <2>4. opens <= opens'
    BY <2>1
  <2> QED
    BY <2>1, <2>2, <2>3, <2>4, StacksAfterMove
<1>8. ASSUME NEW c \in Calls, Open(c)
      PROVE  StacksAreCalls'
  <2>1. /\ stack' = stack /\ made' = made /\ opens' \in Nat /\ opens <= opens'
        /\ pc' = [pc EXCEPT ![c] = "opening"] /\ DOMAIN pc = Calls
        /\ session' = [session EXCEPT ![c] = opens'] /\ DOMAIN session = Calls
        /\ opens' # 0 /\ pc[c] \notin Over
    BY <1>8 DEF Open, Over, IInv, TypeOK
  <2>2. stack[c] # << >>
    BY <2>1 DEF IInv, StacksAreCalls
  <2>3. \A d \in Calls : /\ pc'[d] \in Over <=> pc[d] \in Over
                         /\ d # c => pc'[d] = pc[d] /\ session'[d] = session[d]
                         /\ session'[c] = opens'
    BY <2>1 DEF Over
  <2>4. \A d \in Calls : d \in Starting' => d \in Starting \/ session'[d] # 0
    BY <2>1, <2>3 DEF Starting, InStart
  <2> QED
    BY <2>1, <2>2, <2>3, <2>4, StacksAfterMove
<1>9. CASE \/ Route \/ Lose \/ \E s \in readers : ReaderEnds(s)
           \/ StartClose \/ JoinReader \/ ClosePort \/ EndClose \/ UNCHANGED vars
  <2>1. /\ stack' = stack /\ made' = made /\ opens' = opens /\ opens \in Nat
        /\ session' = session /\ pc' = pc
    BY <1>9 DEF Route, Lose, ReaderEnds, StartClose, JoinReader, ClosePort, EndClose,
                vars, calls, history, IInv, TypeOK
  <2>2. opens <= opens' /\ Starting' = Starting
    BY <2>1 DEF Starting, InStart
  <2> QED
    BY <2>1, <2>2, StacksAfterMove
<1> QED
  BY <1>1, <1>2, <1>3, <1>4, <1>5, <1>6, <1>7, <1>8, <1>9 DEF Next, CallStep

\* Only opening the port makes a call one that starts.
LEMMA StartingAfter ==
    ASSUME IInv, [Next]_vars, \A c \in Calls : ~Open(c)
    PROVE  Starting' \subseteq Starting /\ faults \subseteq faults'
<1> DEFINE Same == \A d \in Calls : d \in Starting' => d \in Starting
<1>1. ASSUME NEW c \in Calls, NEW n, Renews(c, n), Len(stack'[c]) > 1 => c \in Starting
      PROVE  Same /\ faults \subseteq faults'
  <2>1. /\ \A d \in Calls : d # c => stack'[d] = stack[d] /\ pc'[d] = pc[d]
        /\ pc'[c] \notin {"opening", "starting"} /\ faults \subseteq faults'
    BY <1>1 DEF Renews, Pops, Pushes, Keeps
  <2> QED
    BY <1>1, <2>1 DEF Starting, InStart
<1>2. ASSUME NEW c \in Calls, Call(c)
      PROVE  Same /\ faults \subseteq faults'
  <2>1. Pushes(c, 0, "request")
    BY <1>2, CallPushes
  <2>2. Renews(c, 0)
    BY <2>1 DEF Renews
  <2>3. ~(Len(stack'[c]) > 1)
    BY <2>1 DEF Pushes
  <2> QED
    BY <1>1, <2>2, <2>3
<1>3. ASSUME NEW c \in Calls, Launch(c)
      PROVE  Same /\ faults \subseteq faults'
  <2>1. c \in Starting
    BY <1>3 DEF Launch, Starting, InStart
  <2> QED
    BY <1>1, <1>3, <2>1, LaunchPushes DEF Renews
<1>4. ASSUME NEW c \in Calls, ResetDone(c)
      PROVE  Same /\ faults \subseteq faults'
  <2>1. Pushes(c, Len(stack[c]) - 1, "hello") /\ Len(stack[c]) > 1
    BY <1>4, ResetDonePushes
  <2>2. c \in Starting
    BY <2>1 DEF Starting
  <2> QED
    BY <1>1, <2>1, <2>2 DEF Renews
<1>5. ASSUME NEW c \in Calls, HelloDone(c)
      PROVE  Same /\ faults \subseteq faults'
  <2>1. Pops(c, Len(stack[c]) - 1) /\ Len(stack[c]) > 1
    BY <1>5, HelloDonePops
  <2>2. c \in Starting
    BY <2>1 DEF Starting
  <2> QED
    BY <1>1, <2>1, <2>2 DEF Renews
<1>6. ASSUME NEW c \in Calls,
             OpenFails(c) \/ ResetInputFails(c) \/ WriteFails(c) \/ TimeOut(c)
      PROVE  Same /\ faults \subseteq faults'
  <2>1. Raise(c) /\ pc[c] \notin Over /\ faults \subseteq faults'
    BY <1>6 DEF OpenFails, ResetInputFails, WriteFails, TimeOut, Over
  <2>2. Pops(c, 0)
    BY <2>1, RaisePops
  <2> QED
    BY <1>1, <2>2 DEF Renews, Pops
<1>7. ASSUME NEW c \in Calls, RequestDone(c)
      PROVE  Same /\ faults \subseteq faults'
  <2>1. Pops(c, 0)
    BY <1>7, RequestDonePops
  <2> QED
    BY <1>1, <2>1 DEF Renews, Pops
<1>8. ASSUME NEW c \in Calls, IsStarted(c) \/ ResetInput(c) \/ Write(c)
      PROVE  Same /\ faults \subseteq faults'
  <2>1. stack' = stack /\ faults \subseteq faults'
    BY <1>8 DEF IsStarted, ResetInput, Write
  <2>2. \A d \in Calls : pc'[d] \in {"opening", "starting"} => pc[d] \in {"opening", "starting"}
    BY <1>8 DEF IsStarted, ResetInput, Write, IInv, TypeOK
  <2>3. InStart' \subseteq InStart
    BY <2>2 DEF InStart
  <2>4. Same
    BY <2>1, <2>3 DEF Starting
  <2> QED
    BY <2>1, <2>4
<1>9. CASE \/ Route \/ Lose \/ \E s \in readers : ReaderEnds(s)
           \/ StartClose \/ JoinReader \/ ClosePort \/ EndClose \/ UNCHANGED vars
  <2>1. stack' = stack /\ pc' = pc /\ faults \subseteq faults'
    BY <1>9 DEF Route, Lose, ReaderEnds, StartClose, JoinReader, ClosePort, EndClose,
                vars, calls
  <2> QED
    BY <2>1 DEF Starting, InStart
<1>10. Same /\ faults \subseteq faults'
  BY <1>2, <1>3, <1>4, <1>5, <1>6, <1>7, <1>8, <1>9 DEF Next, CallStep
<1>11. \A d \in Starting' : d \in Calls
  BY DEF Starting, InStart
<1> QED
  BY <1>10, <1>11

\* A start that begins during another leaves its mark.
LEMMA OneStartStep ==
    ASSUME IInv, [Next]_vars
    PROVE  OneStart'
<1>1. CASE \A c \in Calls : ~Open(c)
  BY <1>1, StartingAfter DEF IInv, OneStart, Orderly
<1>2. ASSUME NEW c \in Calls, Open(c)
      PROVE  OneStart'
  <2>1. stack' = stack /\ \A d \in Calls : d # c => pc'[d] = pc[d]
    BY <1>2 DEF Open, IInv, TypeOK
  <2>2. Starting' \subseteq Starting \cup {c}
    BY <2>1 DEF Starting, InStart
  <2>3. Orderly' => Starting \ {c} = {}
    BY <1>2 DEF Open, Orderly
  <2> QED
    BY <2>2, <2>3 DEF OneStart
<1> QED
  BY <1>1, <1>2

-----------------------------------------------------------------------------
(* Types.                                                                   *)

PCs == {"idle", "send", "opening", "starting", "write", "wait", "done", "failed"}

\* What a step of a call makes of the stacks and the queues is typed.
LEMMA TypeAfterRenewal ==
    ASSUME IInv, NEW c \in Calls, NEW n, Renews(c, n), NEW X, NEW x \in PCs,
           stack' = [stack EXCEPT ![c] = X], pc' = [pc EXCEPT ![c] = x]
    PROVE  /\ stack' \in [Calls -> Seq(Frames)] /\ pc' \in [Calls -> PCs]
           /\ made' \in Nat /\ pending' \subseteq [id : Nat, queue : Nat]
           /\ inbox' \subseteq [queue : Nat, from : Nat]
           /\ line' \in Seq([id : Nat, from : Nat]) /\ opens' = opens
<1>1. /\ Keeps(c, n) /\ made' \in {made, made + 1} /\ made \in Nat
      /\ \A p \in pending' : p \in pending \/ (p.queue = made + 1 /\ p.id \in {0, made + 1}
                                               /\ p = [id |-> p.id, queue |-> p.queue])
  BY DEF Renews, Pops, Pushes, NewFrame, IInv, TypeOK
<1>2. stack' \in [Calls -> Seq(Frames)]
  <2>1. stack'[c] \in Seq(Frames) /\ stack \in [Calls -> Seq(Frames)]
    BY <1>1 DEF Keeps, IInv, TypeOK
  <2>2. X \in Seq(Frames)
    BY <2>1
  <2> QED
    BY <2>1, <2>2
<1>3. pc' \in [Calls -> PCs]
  BY DEF IInv, TypeOK, PCs
<1>4. pending' \subseteq [id : Nat, queue : Nat]
  BY <1>1 DEF IInv, TypeOK
<1>5. made' \in Nat
  BY <1>1
<1>6. /\ inbox' \subseteq [queue : Nat, from : Nat] /\ opens' = opens
      /\ line' \in Seq([id : Nat, from : Nat])
  BY <1>1 DEF Keeps, IInv, TypeOK
<1> QED
  BY <1>2, <1>3, <1>4, <1>5, <1>6

\* Every step keeps the types.
LEMMA TypeStep ==
    ASSUME IInv, [Next]_vars
    PROVE  TypeOK'
<1> USE SessionBounds
<1>1. ASSUME NEW c \in Calls, Call(c)
      PROVE  TypeOK'
  <2>1. /\ Renews(c, 0) /\ pc' = [pc EXCEPT ![c] = "send"] /\ "send" \in PCs
        /\ \E X : stack' = [stack EXCEPT ![c] = X]
    BY <1>1, CallPushes DEF Renews, Call, Push, PCs
  <2> QED
    BY <1>1, <2>1, TypeAfterRenewal DEF Call, IInv, TypeOK, history, PCs
<1>2. ASSUME NEW c \in Calls, Launch(c)
      PROVE  TypeOK'
  <2>1. /\ Renews(c, Len(stack[c])) /\ pc' = [pc EXCEPT ![c] = "send"] /\ "send" \in PCs
        /\ \E X : stack' = [stack EXCEPT ![c] = X]
    BY <1>2, LaunchPushes DEF Renews, Launch, FirstRequest, Push, PCs
  <2>2. /\ stack' \in [Calls -> Seq(Frames)] /\ pc' \in [Calls -> PCs]
        /\ made' \in Nat /\ pending' \subseteq [id : Nat, queue : Nat]
        /\ inbox' \subseteq [queue : Nat, from : Nat]
        /\ line' \in Seq([id : Nat, from : Nat]) /\ opens' = opens
    BY <2>1, TypeAfterRenewal
  <2>3. session[c] \in 1..opens
    <3>1. session[c] # 0
      BY <1>2 DEF Launch, IInv, StacksAreCalls, Starting, InStart
    <3> QED
      BY <3>1 DEF IInv, TypeOK
  <2>4. /\ session' = session /\ started' = TRUE /\ running' = TRUE
        /\ read_thread' = session[c] /\ readers' \subseteq readers \cup {session[c]}
        /\ ser' = ser /\ closer' = closer /\ closes' = closes
        /\ greeted' = greeted /\ opener' = opener /\ early' = early /\ mistaken' = mistaken
    BY <1>2 DEF Launch, history
  <2>5. read_thread' \in 0..opens
    BY <2>3, <2>4 DEF IInv, TypeOK
  <2>6. readers' \subseteq 1..opens
    BY <2>3, <2>4 DEF IInv, TypeOK
  <2> QED
    BY <2>2, <2>4, <2>5, <2>6 DEF IInv, TypeOK, PCs
<1>3. ASSUME NEW c \in Calls, ResetDone(c)
      PROVE  TypeOK'
  <2>1. /\ Renews(c, Len(stack[c]) - 1) /\ pc' = [pc EXCEPT ![c] = "send"] /\ "send" \in PCs
        /\ \E X : stack' = [stack EXCEPT ![c] = X]
    BY <1>3, ResetDonePushes DEF Renews, ResetDone, Push, PCs
  <2> QED
    BY <1>3, <2>1, TypeAfterRenewal DEF ResetDone, IInv, TypeOK, history, PCs
<1>4. ASSUME NEW c \in Calls, HelloDone(c)
      PROVE  TypeOK'
  <2>1. /\ Renews(c, Len(stack[c]) - 1) /\ pc' = [pc EXCEPT ![c] = "write"]
        /\ \E X : stack' = [stack EXCEPT ![c] = X]
    BY <1>4, HelloDonePops DEF Renews, HelloDone
  <2>2. /\ stack' \in [Calls -> Seq(Frames)] /\ pc' \in [Calls -> PCs]
        /\ made' \in Nat /\ pending' \subseteq [id : Nat, queue : Nat]
        /\ inbox' \subseteq [queue : Nat, from : Nat]
        /\ line' \in Seq([id : Nat, from : Nat]) /\ opens' = opens
    BY <2>1, TypeAfterRenewal DEF PCs
  <2>3. Top(c).session \in 1..opens
    <3>1. Len(stack[c]) > 1 /\ stack[c] # << >>
      BY <1>4, HelloDonePops DEF HelloDone, IInv, StacksAreCalls, Over
    <3>2. Len(stack[c]) \in DOMAIN stack[c] /\ Top(c) = stack[c][Len(stack[c])]
      BY <3>1, AboveOwn
    <3> QED
      BY <3>1, <3>2 DEF IInv, StacksAreCalls
  <2>4. /\ greeted' \subseteq greeted \cup {Top(c).session}
        /\ mistaken' \subseteq mistaken \cup {Top(c).session}
    BY <1>4 DEF HelloDone
  <2>5. greeted' \subseteq 1..opens /\ mistaken' \subseteq 1..opens
    BY <2>3, <2>4 DEF IInv, TypeOK
  <2> QED
    BY <1>4, <2>2, <2>5 DEF HelloDone, IInv, TypeOK, PCs
<1>5. ASSUME NEW c \in Calls,
             OpenFails(c) \/ ResetInputFails(c) \/ WriteFails(c) \/ TimeOut(c)
      PROVE  TypeOK'
  <2>1. Raise(c) /\ pc[c] \notin Over /\ faults \subseteq faults' /\ ser' = ser
    BY <1>5 DEF OpenFails, ResetInputFails, WriteFails, TimeOut, Over
  <2>2. /\ Renews(c, 0) /\ pc' = [pc EXCEPT ![c] = "failed"]
        /\ \E X : stack' = [stack EXCEPT ![c] = X]
    BY <2>1, RaisePops DEF Raise, Renews
  <2>3. session' \in [Calls -> 0..opens]
    BY <2>1 DEF Raise, IInv, TypeOK
  <2> QED
    BY <2>1, <2>2, <2>3, TypeAfterRenewal DEF Raise, IInv, TypeOK, PCs
<1>6. ASSUME NEW c \in Calls, RequestDone(c)
      PROVE  TypeOK'
  <2>1. /\ Renews(c, 0) /\ pc' = [pc EXCEPT ![c] = "done"]
        /\ \E X : stack' = [stack EXCEPT ![c] = X]
    BY <1>6, RequestDonePops DEF RequestDone, Renews
  <2>2. session' \in [Calls -> 0..opens]
    BY <1>6 DEF RequestDone, IInv, TypeOK
  <2> QED
    BY <1>6, <2>1, <2>2, TypeAfterRenewal DEF RequestDone, IInv, TypeOK, PCs, history
<1>7. ASSUME NEW c \in Calls, IsStarted(c) \/ ResetInput(c)
      PROVE  TypeOK'
  BY <1>7 DEF IsStarted, ResetInput, client, history, IInv, TypeOK
<1>8. ASSUME NEW c \in Calls, Open(c)
      PROVE  TypeOK'
  <2>1. /\ opens \in Nat /\ opens' = opens + 1 /\ ser' = opens'
        /\ session' = [session EXCEPT ![c] = opens'] /\ opener' = Append(opener, c)
        /\ session \in [Calls -> 0..opens] /\ opener \in Seq(Calls) /\ Len(opener) = opens
    BY <1>8 DEF Open, IInv, TypeOK
  <2>2. /\ opens' \in Nat /\ ser' \in 0..opens' /\ session' \in [Calls -> 0..opens']
        /\ \A x \in 0..opens : x \in 0..opens'
        /\ \A x \in 1..opens : x \in 1..opens'
    BY <2>1
  <2>3. opener' \in Seq(Calls) /\ Len(opener') = opens'
    BY <2>1
  <2>4. pc' \in [Calls -> PCs]
    BY <1>8 DEF Open, IInv, TypeOK, PCs
  <2>5. /\ read_thread' \in 0..opens' /\ readers' \subseteq 1..opens'
        /\ greeted' \subseteq 1..opens' /\ mistaken' \subseteq 1..opens'
    BY <1>8, <2>2 DEF Open, IInv, TypeOK
  <2>6. early' \subseteq Calls \X (1..opens')
    BY <1>8, <2>2 DEF Open, IInv, TypeOK
  <2> QED
    BY <1>8, <2>2, <2>3, <2>4, <2>5, <2>6 DEF Open, IInv, TypeOK, PCs
<1>9. ASSUME NEW c \in Calls, Write(c)
      PROVE  TypeOK'
  <2>1. stack[c] # << >>
    BY <1>9 DEF Write, IInv, StacksAreCalls, Over
  <2>2. Top(c).id \in Nat /\ Top(c).queue \in Nat
    BY <2>1, AboveOwn DEF Frames
  <2>3. line' \in Seq([id : Nat, from : Nat])
    BY <1>9, <2>2 DEF Write, IInv, TypeOK
  <2>4. ser \in 1..opens
    BY <1>9 DEF Write, IInv, TypeOK
  <2>5. early' \subseteq Calls \X (1..opens)
    BY <1>9, <2>4 DEF Write, IInv, TypeOK
  <2>6. pc' \in [Calls -> PCs]
    BY <1>9 DEF Write, IInv, TypeOK, PCs
  <2> QED
    BY <1>9, <2>3, <2>5, <2>6 DEF Write, client, IInv, TypeOK, PCs
<1>10. CASE Route
  <2>1. TypeOK /\ line # << >> /\ line' = Tail(line)
    BY <1>10 DEF Route, IInv
  <2>2. line' \in Seq([id : Nat, from : Nat]) /\ Head(line).from \in Nat
    <3>1. /\ line' \in Seq([id : Nat, from : Nat]) /\ 1 \in DOMAIN line
          /\ Head(line) = line[1]
      BY <2>1, LineTail
    <3>2. line \in Seq([id : Nat, from : Nat])
      BY <2>1 DEF TypeOK
    <3>3. \A S : \A q \in Seq(S) : 1 \in DOMAIN q => q[1] \in S
      OBVIOUS
    <3>4. line[1] \in [id : Nat, from : Nat]
      BY <3>1, <3>2, <3>3
    <3> QED
      BY <3>1, <3>4
  <2>3. inbox' \subseteq [queue : Nat, from : Nat]
    BY <1>10, <2>2 DEF Route, IInv, TypeOK
  <2> QED
    BY <1>10, <2>2, <2>3 DEF Route, client, calls, history, IInv, TypeOK
<1>11. CASE Lose
  <2>1. TypeOK /\ line # << >> /\ line' = Tail(line)
    BY <1>11 DEF Lose, IInv
  <2>2. line' \in Seq([id : Nat, from : Nat])
    BY <2>1, LineTail
  <2> QED
    BY <1>11, <2>2 DEF Lose, client, calls, history, IInv, TypeOK
<1>12. CASE \E s \in readers : ReaderEnds(s)
  BY <1>12 DEF ReaderEnds, client, calls, history, IInv, TypeOK
<1>13. CASE StartClose
  <2>1. closes' \in 0..MaxCloses
    BY <1>13 DEF StartClose, IInv, TypeOK
  <2> QED
    BY <1>13, <2>1 DEF StartClose, calls, history, IInv, TypeOK
<1>14. CASE JoinReader
  BY <1>14 DEF JoinReader, calls, history, IInv, TypeOK
<1>15. CASE ClosePort
  BY <1>15 DEF ClosePort, calls, history, IInv, TypeOK
<1>16. CASE EndClose
  BY <1>16 DEF EndClose, Forget, calls, history, IInv, TypeOK
<1>17. CASE UNCHANGED vars
  BY <1>17 DEF vars, client, calls, history, IInv, TypeOK
<1> QED
  BY <1>1, <1>2, <1>3, <1>4, <1>5, <1>6, <1>7, <1>8, <1>9, <1>10, <1>11, <1>12, <1>13,
     <1>14, <1>15, <1>16, <1>17 DEF Next, CallStep

-----------------------------------------------------------------------------
(* The handshake, the readers and the port.                                 *)

\* Who opened the session is in it until its hello was answered.
LEMMA OpenerStep ==
    ASSUME IInv, [Next]_vars
    PROVE  OpenerGreets'
<1> DEFINE Opener(c) == session[c] = opens \/ pc[c] \in {"done", "failed"}
           Greets(c) ==
             session[c] \notin greeted \cup {0} /\ pc[c] \notin {"opening", "starting"} =>
               Len(stack[c]) > 1 /\ Top(c).session = session[c]
<1>1. /\ opens \in Nat /\ (opens # 0 => opener[opens] \in Calls /\ Opener(opener[opens]))
      /\ ser \in {0, opens} /\ \A c \in Calls : Greets(c)
  BY DEF IInv, OpenerGreets, TypeOK
<1>2. ASSUME opens' = opens, opener' = opener, ser' \in {0, ser},
             \A c \in Calls : Opener(c) => Opener(c)', \A c \in Calls : Greets(c)'
      PROVE  OpenerGreets'
  BY <1>1, <1>2 DEF OpenerGreets
<1>3. ASSUME NEW c \in Calls, greeted \subseteq greeted',
             \A d \in Calls : d # c =>
                 stack'[d] = stack[d] /\ pc'[d] = pc[d] /\ session'[d] = session[d]
      PROVE  \A d \in Calls : d # c => Greets(d)'
  BY <1>1, <1>3 DEF Top
<1>4. ASSUME NEW c \in Calls, NEW n, NEW kind \in {"request", "reset", "hello"},
             Pushes(c, n, kind), greeted' = greeted, opener' = opener, ser' = ser,
             n = 0 => session[c] = 0, pc[c] \notin {"done", "failed"}
      PROVE  OpenerGreets'
  <2>1. /\ Keeps(c, n) /\ n \in Nat /\ Len(stack'[c]) = n + 1 /\ session'[c] = session[c]
        /\ stack'[c][n + 1] = NewFrame(c, kind) /\ opens' = opens /\ pc'[c] = "send"
        /\ \A d \in Calls : d # c =>
              stack'[d] = stack[d] /\ pc'[d] = pc[d] /\ session'[d] = session[d]
    BY <1>4 DEF Pushes, Keeps
  <2>2. Top(c)' = NewFrame(c, kind) /\ Top(c)'.session = session[c]
    BY <2>1 DEF Top, NewFrame
  <2>3. Greets(c)'
    <3>1. CASE n = 0
      BY <1>4, <2>1, <3>1
    <3>2. CASE n # 0
      BY <2>1, <2>2, <3>2
    <3> QED
      BY <3>1, <3>2
  <2>4. \A d \in Calls : Greets(d)'
    BY <1>3, <1>4, <2>1, <2>3
  <2>5. \A d \in Calls : Opener(d) => Opener(d)'
    BY <1>4, <2>1
  <2> QED
    BY <1>2, <1>4, <2>1, <2>4, <2>5
<1>5. ASSUME NEW c \in Calls, Pops(c, 0), session'[c] = 0, pc'[c] \in {"done", "failed"},
             greeted' = greeted, opener' = opener, ser' = ser
      PROVE  OpenerGreets'
  <2>1. /\ Keeps(c, 0) /\ opens' = opens
        /\ \A d \in Calls : d # c =>
              stack'[d] = stack[d] /\ pc'[d] = pc[d] /\ session'[d] = session[d]
    BY <1>5 DEF Pops, Keeps
  <2>2. \A d \in Calls : Greets(d)'
    BY <1>3, <1>5, <2>1
  <2>3. \A d \in Calls : Opener(d) => Opener(d)'
    BY <1>5, <2>1
  <2> QED
    BY <1>2, <1>5, <2>1, <2>2, <2>3
<1>6. ASSUME NEW c \in Calls, Call(c)
      PROVE  OpenerGreets'
  <2>1. /\ Pushes(c, 0, "request") /\ stack[c] = << >> /\ pc[c] = "idle"
        /\ greeted' = greeted /\ opener' = opener /\ ser' = ser
    BY <1>6, CallPushes DEF Call, history
  <2>2. session[c] = 0
    BY <2>1 DEF IInv, StacksAreCalls
  <2> QED
    BY <1>4, <2>1, <2>2
<1>7. ASSUME NEW c \in Calls, Launch(c)
      PROVE  OpenerGreets'
  <2>1. /\ Pushes(c, Len(stack[c]), "reset") /\ Len(stack[c]) # 0 /\ pc[c] = "starting"
        /\ greeted' = greeted /\ opener' = opener /\ ser' = ser
    BY <1>7, LaunchPushes, RestKeeps DEF Launch, history, IInv
  <2> QED
    BY <1>4, <2>1
<1>8. ASSUME NEW c \in Calls, ResetDone(c)
      PROVE  OpenerGreets'
  <2>1. /\ Pushes(c, Len(stack[c]) - 1, "hello") /\ Len(stack[c]) > 1 /\ pc[c] = "wait"
        /\ greeted' = greeted /\ opener' = opener /\ ser' = ser /\ Len(stack[c]) \in Nat
    BY <1>8, ResetDonePushes DEF ResetDone, history, IInv, TypeOK
  <2>2. \A x \in Nat : x > 1 => x - 1 # 0
    OBVIOUS
  <2>3. Len(stack[c]) - 1 # 0
    BY <2>1, <2>2
  <2> QED
    BY <1>4, <2>1, <2>3
<1>9. ASSUME NEW c \in Calls, HelloDone(c)
      PROVE  OpenerGreets'
  <2>1. /\ Pops(c, Len(stack[c]) - 1) /\ session' = session /\ Len(stack[c]) > 1
        /\ pc[c] = "wait"
        /\ greeted' = greeted \cup {Top(c).session} /\ opener' = opener /\ ser' = ser
    BY <1>9, HelloDonePops DEF HelloDone
  <2>2. /\ opens' = opens
        /\ \A d \in Calls : d # c =>
              stack'[d] = stack[d] /\ pc'[d] = pc[d] /\ session'[d] = session[d]
    BY <2>1 DEF Pops, Keeps
  <2>3. session'[c] \in greeted' \cup {0}
    BY <1>1, <2>1
  <2>4. \A d \in Calls : Greets(d)'
    BY <1>3, <2>1, <2>2, <2>3
  <2>5. \A d \in Calls : Opener(d) => Opener(d)'
    BY <2>1, <2>2
  <2> QED
    BY <1>2, <2>1, <2>2, <2>4, <2>5
<1>10. ASSUME NEW c \in Calls,
              OpenFails(c) \/ ResetInputFails(c) \/ WriteFails(c) \/ TimeOut(c)
       PROVE  OpenerGreets'
  <2>1. Raise(c) /\ pc[c] \notin Over /\ faults \subseteq faults' /\ ser' = ser
    BY <1>10 DEF OpenFails, ResetInputFails, WriteFails, TimeOut, Over
  <2>2. Pops(c, 0) /\ pc'[c] = "failed" /\ session'[c] = 0
    BY <2>1, RaisePops
  <2>3. greeted' = greeted /\ opener' = opener
    BY <2>1 DEF Raise
  <2> QED
    BY <1>5, <2>1, <2>2, <2>3
<1>11. ASSUME NEW c \in Calls, RequestDone(c)
       PROVE  OpenerGreets'
  BY <1>5, <1>11, RequestDonePops DEF RequestDone, history
<1>12. ASSUME NEW c \in Calls, Open(c)
       PROVE  OpenerGreets'
  <2>1. /\ opens' = opens + 1 /\ ser' = opens' /\ opener' = Append(opener, c)
        /\ opener \in Seq(Calls) /\ Len(opener) = opens /\ greeted' = greeted
        /\ session'[c] = opens' /\ pc'[c] = "opening" /\ stack' = stack
        /\ \A d \in Calls : d # c => pc'[d] = pc[d] /\ session'[d] = session[d]
    BY <1>12 DEF Open, IInv, TypeOK
  <2>2. opener'[opens'] = c
    BY <2>1
  <2>3. \A d \in Calls : Greets(d)'
    BY <1>3, <2>1
  <2> QED
    BY <2>1, <2>2, <2>3 DEF OpenerGreets
<1>13. ASSUME NEW c \in Calls, IsStarted(c) \/ ResetInput(c) \/ Write(c)
       PROVE  OpenerGreets'
  <2>1. /\ stack' = stack /\ session' = session /\ greeted' = greeted /\ opener' = opener
        /\ opens' = opens /\ ser' = ser
        /\ \A d \in Calls : pc'[d] = pc[d] \/ (d = c /\ (pc'[d] = "starting" \/
                                                  pc[d] \in {"send", "write"}))
    BY <1>13 DEF IsStarted, ResetInput, Write, client, history, IInv, TypeOK
  <2>2. ~ \E d \in Calls : pc[d] \in {"done", "failed"} /\ pc'[d] # pc[d]
    BY <1>13 DEF IsStarted, ResetInput, Write, IInv, TypeOK
  <2>3. \A d \in Calls : Greets(d)'
    BY <1>1, <2>1 DEF Top
  <2>4. \A d \in Calls : Opener(d) => Opener(d)'
    BY <2>1, <2>2
  <2> QED
    BY <1>2, <2>1, <2>3, <2>4
<1>14. CASE \/ Route \/ Lose \/ \E s \in readers : ReaderEnds(s)
            \/ StartClose \/ JoinReader \/ ClosePort \/ EndClose \/ UNCHANGED vars
  <2>1. /\ stack' = stack /\ session' = session /\ greeted' = greeted /\ opener' = opener
        /\ opens' = opens /\ ser' \in {0, ser} /\ pc' = pc
    BY <1>14 DEF Route, Lose, ReaderEnds, StartClose, JoinReader, ClosePort, EndClose,
                 vars, client, calls, history
  <2>2. \A d \in Calls : Greets(d)' /\ (Opener(d) => Opener(d)')
    BY <1>1, <2>1 DEF Top
  <2> QED
    BY <1>2, <2>1, <2>2
<1> QED
  BY <1>6, <1>7, <1>8, <1>9, <1>10, <1>11, <1>12, <1>13, <1>14 DEF Next, CallStep

\* Who goes ahead of a hello did not open the session.
LEMMA GreetsFirstStep ==
    ASSUME IInv, [Next]_vars
    PROVE  GreetsFirst'
<1>1. /\ early \subseteq Calls \X (1..opens) /\ opener \in Seq(Calls) /\ Len(opener) = opens
      /\ \A e \in early : opener[e[2]] # e[1]
  BY DEF IInv, TypeOK, GreetsFirst
<1>2. ASSUME NEW c \in Calls, Write(c)
      PROVE  GreetsFirst'
  <2>1. /\ opener' = opener /\ ser # 0 /\ pc[c] = "write"
        /\ early' \subseteq early \cup {<<c, ser>>}
        /\ early' # early => Top(c).kind = "request" /\ ser \notin greeted
    BY <1>2 DEF Write
  <2>2. stack[c] # << >>
    BY <2>1 DEF IInv, StacksAreCalls, Over
  <2>3. Top(c).kind = "request" /\ ser \notin greeted => opener[ser] # c
    <3> SUFFICES ASSUME Top(c).kind = "request", ser \notin greeted, opener[ser] = c
                 PROVE  FALSE
      OBVIOUS
    <3>1. ser = opens /\ session[c] = ser
      BY <2>1 DEF IInv, OpenerGreets
    <3>2. Len(stack[c]) > 1
      BY <2>1, <3>1 DEF IInv, OpenerGreets
    <3>3. Len(stack[c]) = 1
      BY <2>2, AboveOwn
    <3> QED
      BY <3>2, <3>3
  <2>4. \A e \in early' : e \in early \/ (e[1] = c /\ e[2] = ser /\ opener[ser] # c)
    BY <2>1, <2>3
  <2> QED
    BY <1>1, <2>1, <2>4 DEF GreetsFirst
<1>3. ASSUME NEW c \in Calls, Open(c)
      PROVE  GreetsFirst'
  <2>1. early' = early /\ opener' = Append(opener, c)
    BY <1>3 DEF Open
  <2>2. \A i \in 1..opens : opener'[i] = opener[i]
    BY <1>1, <2>1
  <2>3. \A e \in early : e[2] \in 1..opens
    BY <1>1
  <2> QED
    BY <1>1, <2>1, <2>2, <2>3 DEF GreetsFirst
<1>4. ASSUME early' = early, opener' = opener
      PROVE  GreetsFirst'
  BY <1>1, <1>4 DEF GreetsFirst
<1>5. ASSUME NEW c \in Calls,
             \/ Call(c) \/ IsStarted(c) \/ OpenFails(c) \/ ResetInput(c) \/ ResetInputFails(c)
             \/ Launch(c) \/ WriteFails(c) \/ ResetDone(c) \/ HelloDone(c)
             \/ RequestDone(c) \/ TimeOut(c)
      PROVE  GreetsFirst'
  BY <1>4, <1>5
     DEF Call, IsStarted, OpenFails, ResetInput, ResetInputFails, Launch, WriteFails,
         ResetDone, HelloDone, RequestDone, TimeOut, Raise, history
<1>6. CASE \/ Route \/ Lose \/ \E s \in readers : ReaderEnds(s)
           \/ StartClose \/ JoinReader \/ ClosePort \/ EndClose \/ UNCHANGED vars
  BY <1>4, <1>6
     DEF Route, Lose, ReaderEnds, StartClose, JoinReader, ClosePort, EndClose, vars, history
<1> QED
  BY <1>2, <1>3, <1>5, <1>6 DEF Next, CallStep

\* Steps that leave the port, the readers and who is in start: all but those of start
\* and close, and a reader may end.
PortAlone == /\ started' = started /\ ser' = ser /\ read_thread' = read_thread
             /\ readers' \subseteq readers /\ closer' = closer /\ faults' = faults
             /\ InStart' = InStart

\* Every step keeps the one reader, until a fault.
LEMMA AloneStep ==
    ASSUME IInv, [Next]_vars,
           \A c \in Calls : ~Open(c) /\ ~Launch(c) /\ ~ResetInputFails(c),
           ~(StartClose \/ JoinReader \/ ClosePort \/ EndClose)
    PROVE  PortAlone
<1> DEFINE Same == \A d \in Calls :
                       pc'[d] \in {"opening", "starting"} <=> pc[d] \in {"opening", "starting"}
<1>1. ASSUME Same
      PROVE  InStart' = InStart
  BY <1>1 DEF InStart
<1>2. ASSUME NEW c \in Calls,
             \/ Call(c) \/ IsStarted(c) \/ OpenFails(c) \/ ResetInput(c)
             \/ Write(c) \/ WriteFails(c) \/ ResetDone(c) \/ HelloDone(c)
             \/ RequestDone(c) \/ TimeOut(c)
      PROVE  PortAlone
  <2>1. Same
    BY <1>2 DEF Call, IsStarted, OpenFails, ResetInput, Write, WriteFails, ResetDone,
                HelloDone, RequestDone, TimeOut, Raise, Push, IInv, TypeOK
  <2>2. /\ started' = started /\ ser' = ser /\ read_thread' = read_thread
        /\ readers' \subseteq readers /\ closer' = closer /\ faults' = faults
    BY <1>2 DEF Call, IsStarted, OpenFails, ResetInput, Write, WriteFails, ResetDone,
                HelloDone, RequestDone, TimeOut, Raise, client
  <2> QED
    BY <1>1, <2>1, <2>2 DEF PortAlone
<1>3. CASE Route \/ Lose \/ (\E s \in readers : ReaderEnds(s)) \/ UNCHANGED vars
  <2>1. pc' = pc
    BY <1>3 DEF Route, Lose, ReaderEnds, vars, calls
  <2> QED
    BY <1>1, <1>3, <2>1 DEF Route, Lose, ReaderEnds, vars, client, PortAlone
<1> QED
  BY <1>2, <1>3 DEF Next, CallStep

\* A call's opening and launching, and who is in start then.
LEMMA InStartAfter ==
    ASSUME IInv, NEW c \in Calls
    PROVE  /\ Open(c) => InStart' = InStart \cup {c}
           /\ Launch(c) \/ ResetInputFails(c) => c \in InStart /\ InStart' = InStart \ {c}
<1>1. DOMAIN pc = Calls
  BY DEF IInv, TypeOK
<1>2. CASE Open(c)
  <2>1. pc' = [pc EXCEPT ![c] = "opening"] /\ pc[c] = "send"
    BY <1>2 DEF Open
  <2>2. \A d \in Calls : d \in InStart' <=> d \in InStart \/ d = c
    BY <1>1, <2>1 DEF InStart
  <2>3. ~Launch(c) /\ ~ResetInputFails(c)
    BY <2>1 DEF Launch, ResetInputFails
  <2> QED
    BY <2>2, <2>3 DEF InStart
<1>3. CASE Launch(c) \/ ResetInputFails(c)
  <2>1. /\ \E x \in {"send", "failed"} : pc' = [pc EXCEPT ![c] = x]
        /\ pc[c] \in {"opening", "starting"}
    BY <1>3 DEF Launch, ResetInputFails, FirstRequest, Push, Raise
  <2>2. c \in InStart /\ \A d \in Calls : d \in InStart' <=> d \in InStart /\ d # c
    BY <1>1, <2>1 DEF InStart
  <2>3. ~Open(c)
    BY <2>1 DEF Open
  <2> QED
    BY <2>2, <2>3 DEF InStart
<1> QED
  BY <1>2, <1>3

\* So with what its threads and the close rely on.
LEMMA OneReaderStep ==
    ASSUME IInv, [Next]_vars
    PROVE  OneReaderAtMost'
<1> DEFINE Clean == faults \cap {"two_starts", "close_in_start", "join_gave_up"} = {}
<1>1. Clean => /\ readers \subseteq {read_thread}
               /\ InStart # {} => ~started /\ closer = "idle"
               /\ ~started => readers = {}
               /\ closer \in {"closing", "clearing"} => readers = {}
               /\ \A c, d \in InStart : c = d
  BY DEF IInv, OneReaderAtMost
<1>2. ASSUME NEW c \in Calls, Open(c)
      PROVE  OneReaderAtMost'
  <2>1. /\ ~started /\ started' = started /\ readers' = readers /\ read_thread' = read_thread
        /\ closer' = closer
        /\ Clean' => Clean /\ Starting \ {c} = {} /\ closer = "idle"
    BY <1>2 DEF Open
  <2>2. InStart' = InStart \cup {c} /\ InStart \subseteq Starting
    BY <1>2, InStartAfter DEF Starting
  <2> QED
    BY <1>1, <2>1, <2>2 DEF OneReaderAtMost
<1>3. ASSUME NEW c \in Calls, Launch(c)
      PROVE  OneReaderAtMost'
  <2>1. /\ started' = TRUE /\ closer' = closer /\ faults' = faults
        /\ read_thread' = session[c] /\ readers' \subseteq readers \cup {session[c]}
    BY <1>3 DEF Launch
  <2>2. InStart' = InStart \ {c} /\ c \in InStart
    BY <1>3, InStartAfter
  <2>3. Clean => readers = {} /\ closer = "idle" /\ InStart' = {}
    BY <1>1, <2>2
  <2> QED
    BY <2>1, <2>3 DEF OneReaderAtMost
<1>4. ASSUME NEW c \in Calls, ResetInputFails(c)
      PROVE  OneReaderAtMost'
  <2>1. /\ started' = started /\ closer' = closer /\ faults \subseteq faults'
        /\ read_thread' = read_thread /\ readers' = readers
    BY <1>4 DEF ResetInputFails, Raise
  <2>2. InStart' = InStart \ {c} /\ c \in InStart
    BY <1>4, InStartAfter
  <2> QED
    BY <1>1, <2>1, <2>2 DEF OneReaderAtMost
<1>5. CASE StartClose \/ JoinReader \/ ClosePort \/ EndClose
  <2>1. InStart' = InStart /\ readers' = readers
    BY <1>5 DEF StartClose, JoinReader, ClosePort, EndClose, calls, InStart
  <2>2. CASE StartClose
    <3>1. /\ started' = started /\ read_thread' = read_thread /\ closer' = "joining"
          /\ Clean' => Clean /\ InStart = {}
      BY <2>2 DEF StartClose
    <3> QED
      BY <1>1, <2>1, <3>1 DEF OneReaderAtMost
  <2>3. CASE JoinReader
    <3>1. /\ started' = started /\ closer = "joining" /\ closer' = "closing"
          /\ Clean' => Clean /\ read_thread \notin readers
      BY <2>3 DEF JoinReader
    <3>2. Clean' => readers = {} /\ InStart = {}
      BY <1>1, <3>1
    <3> QED
      BY <2>1, <3>1, <3>2 DEF OneReaderAtMost
  <2>4. CASE ClosePort
    BY <1>1, <2>1, <2>4 DEF ClosePort, OneReaderAtMost
  <2>5. CASE EndClose
    BY <1>1, <2>1, <2>5 DEF EndClose, Forget, OneReaderAtMost
  <2> QED
    BY <1>5, <2>2, <2>3, <2>4, <2>5
<1>6. CASE PortAlone
  BY <1>1, <1>6 DEF PortAlone, OneReaderAtMost
<1> QED
  BY <1>2, <1>3, <1>4, <1>5, <1>6, AloneStep

\* Every step keeps the port of a reader.
LEMMA PortStep ==
    ASSUME IInv, [Next]_vars
    PROVE  PortIsKept'
<1> DEFINE Clean == faults \cap {"close_in_start", "left_open"} = {}
<1>1. Clean => /\ InStart # {} => closer = "idle" /\ ser # 0
               /\ InStart = {} /\ closer # "clearing" => started = (ser # 0)
               /\ closer = "clearing" => ser = 0
  BY DEF IInv, PortIsKept
<1>2. ASSUME NEW c \in Calls, Open(c)
      PROVE  PortIsKept'
  <2>1. /\ closer' = closer /\ ser' = opens + 1 /\ opens \in Nat
        /\ Clean' => closer = "idle"
    BY <1>2 DEF Open, IInv, TypeOK
  <2>2. InStart' = InStart \cup {c} /\ ser' # 0
    BY <1>2, <2>1, InStartAfter
  <2> QED
    BY <2>1, <2>2 DEF PortIsKept
<1>3. ASSUME NEW c \in Calls, Launch(c)
      PROVE  PortIsKept'
  <2>1. started' = TRUE /\ closer' = closer /\ faults' = faults /\ ser' = ser
    BY <1>3 DEF Launch
  <2>2. InStart' = InStart \ {c} /\ c \in InStart
    BY <1>3, InStartAfter
  <2> QED
    BY <1>1, <2>1, <2>2 DEF PortIsKept
<1>4. ASSUME NEW c \in Calls, ResetInputFails(c)
      PROVE  PortIsKept'
  <2>1. Clean' => Clean /\ ser = 0
    BY <1>4 DEF ResetInputFails
  <2>2. c \in InStart
    BY <1>4, InStartAfter
  <2> QED
    BY <1>1, <2>1, <2>2 DEF PortIsKept
<1>5. CASE StartClose \/ JoinReader \/ ClosePort \/ EndClose
  <2>1. InStart' = InStart
    BY <1>5 DEF StartClose, JoinReader, ClosePort, EndClose, calls, InStart
  <2>2. CASE StartClose
    <3>1. /\ started' = started /\ ser' = ser /\ closer = "idle" /\ closer' = "joining"
          /\ Clean' => Clean /\ InStart = {}
      BY <2>2 DEF StartClose
    <3> QED
      BY <1>1, <2>1, <3>1 DEF PortIsKept
  <2>3. CASE JoinReader
    <3>1. /\ started' = started /\ ser' = ser /\ closer = "joining" /\ closer' = "closing"
          /\ Clean' => Clean
      BY <2>3 DEF JoinReader
    <3> QED
      BY <1>1, <2>1, <3>1 DEF PortIsKept
  <2>4. CASE ClosePort
    BY <1>1, <2>1, <2>4 DEF ClosePort, PortIsKept
  <2>5. CASE EndClose
    BY <1>1, <2>1, <2>5 DEF EndClose, Forget, PortIsKept
  <2> QED
    BY <1>5, <2>2, <2>3, <2>4, <2>5
<1>6. CASE PortAlone
  BY <1>1, <1>6 DEF PortAlone, PortIsKept
<1> QED
  BY <1>2, <1>3, <1>4, <1>5, <1>6, AloneStep

-----------------------------------------------------------------------------
(* Every behaviour.                                                         *)

\* At the start there is no call and no reader.
LEMMA InitInv == Init => IInv
<1> SUFFICES ASSUME Init PROVE IInv
  OBVIOUS
<1> USE SessionBounds DEF Init
<1>1. TypeOK
  <2>1. stack \in [Calls -> Seq(Frames)] /\ line \in Seq([id : Nat, from : Nat])
        /\ opener \in Seq(Calls) /\ Len(opener) = 0
    OBVIOUS
  <2>2. opens = 0 /\ made \in Nat /\ closes \in 0..MaxCloses
    OBVIOUS
  <2>3. ser \in 0..0 /\ read_thread \in 0..0 /\ session \in [Calls -> 0..0]
    OBVIOUS
  <2>4. /\ pending = {} /\ inbox = {} /\ readers = {} /\ greeted = {} /\ mistaken = {}
        /\ early = {}
    OBVIOUS
  <2>5. /\ started \in BOOLEAN /\ running \in BOOLEAN
        /\ pc \in [Calls -> {"idle", "send", "opening", "starting", "write", "wait",
                             "done", "failed"}]
        /\ closer \in {"idle", "joining", "closing", "clearing"}
    OBVIOUS
  <2> HIDE DEF Init
  <2> QED
    BY <2>1, <2>2, <2>3, <2>4, <2>5 DEF TypeOK
<1>2. \A c \in Calls : stack[c] = << >> /\ pc[c] = "idle" /\ session[c] = 0
  OBVIOUS
<1>3. DOMAIN line = {} /\ \A c \in Calls : DOMAIN stack[c] = {} /\ Len(stack[c]) = 0
  BY <1>2
<1>4. InStart = {} /\ Starting = {}
  BY <1>2, <1>3 DEF Starting, InStart
<1>5. StacksAreCalls
  BY <1>2, <1>3, <1>4 DEF StacksAreCalls, Over
<1>6. QueuesApart /\ QueuesMade /\ WrittenOnce /\ HelloIsLast
  BY <1>3 DEF QueuesApart, QueuesMade, WrittenOnce, HelloIsLast
<1>7. OneStart /\ HelloOnLine /\ AnswersAreOwn /\ ResetIsBehind /\ AckIsOwn
  BY <1>3, <1>4 DEF OneStart, HelloOnLine, AnswersAreOwn, ResetIsBehind, AckIsOwn
<1>8. OpenerGreets /\ GreetsFirst
  BY <1>2 DEF OpenerGreets, GreetsFirst
<1>9. OneReaderAtMost /\ PortIsKept
  BY <1>4 DEF OneReaderAtMost, PortIsKept
<1> QED
  BY <1>1, <1>5, <1>6, <1>7, <1>8, <1>9 DEF IInv

\* Every step keeps the invariant.
LEMMA StepInv == IInv /\ [Next]_vars => IInv'
BY TypeStep, StacksStep, AnswersStep, OneStartStep, OpenerStep, GreetsFirstStep,
   OneReaderStep, PortStep DEF IInv, Answers

\* It holds of every reachable state.
LEMMA Invariance == Spec => []IInv
BY InitInv, StepInv, PTL DEF Spec

\* The fields of the client, the requests and the answers have their types.
THEOREM TypeCorrect == Spec => []TypeOK
<1>1. IInv => TypeOK
  BY DEF IInv
<1> QED
  BY <1>1, Invariance, PTL

\* While starts do not overlap, a hello is confirmed by its own answer.
THEOREM OwnHello == Spec => []AckIsOwn
<1>1. IInv => AckIsOwn
  BY DEF IInv
<1> QED
  BY <1>1, Invariance, PTL

\* The call that opens a session sends nothing else before its hello was answered.
THEOREM HelloBeforeRequests == Spec => []GreetsFirst
<1>1. IInv => GreetsFirst
  BY DEF IInv
<1> QED
  BY <1>1, Invariance, PTL

\* Unless something went wrong around the port, it has one reader.
THEOREM ReaderIsAlone == Spec => []OneReader
<1>1. ASSUME IInv
      PROVE  OneReader
  <2> SUFFICES ASSUME faults \cap {"two_starts", "close_in_start", "join_gave_up"} = {}
               PROVE  ~(Cardinality(readers) > 1)
    BY DEF OneReader
  <2>1. readers \subseteq {read_thread}
    BY <1>1 DEF IInv, OneReaderAtMost
  <2>2. readers = {} \/ readers = {read_thread}
    BY <2>1
  <2>3. Cardinality({}) = 0 /\ Cardinality({read_thread}) = 1
    BY FS_EmptySet, FS_Singleton
  <2> QED
    BY <2>2, <2>3
<1> QED
  BY <1>1, Invariance, PTL

\* Outside start and close the client is started exactly if it has its port.
THEOREM PortAsStarted == Spec => []PortIsKnown
<1>1. ASSUME IInv
      PROVE  PortIsKnown
  BY <1>1 DEF IInv, PortIsKept, PortIsKnown
<1> QED
  BY <1>1, Invariance, PTL

=============================================================================
