----------------------------- MODULE RequestReply -----------------------------
(***************************************************************************)
(* What GatewaySerialClient promises to its callers: a request that        *)
(* succeeds was answered by an answer of its own name, given after it was  *)
(* sent, and no answer ends two requests.  Names may be given twice; what  *)
(* is on its way may be lost at any time.                                  *)
(***************************************************************************)
CONSTANTS Callers,  \* the requests
          Names,    \* their request ids
          None      \* no name

VARIABLES stage,   \* where each request stands
          name,    \* its name
          asked,   \* the requests that were sent and not answered
          answers  \* the answers on their way

vars == <<stage, name, asked, answers>>

Init ==
    /\ stage = [c \in Callers |-> "idle"]
    /\ name = [c \in Callers |-> None]
    /\ asked = {}
    /\ answers = {}

Lose == answers' \subseteq answers

Name(c, n) ==
    /\ stage[c] = "idle"
    /\ stage' = [stage EXCEPT ![c] = "registered"]
    /\ name' = [name EXCEPT ![c] = n]
    /\ UNCHANGED <<asked, answers>>

Ask(c) ==
    /\ stage[c] = "registered"
    /\ stage' = [stage EXCEPT ![c] = "sent"]
    /\ asked' = asked \cup {c}
    /\ Lose
    /\ UNCHANGED name

\* The one answer to c.
Reply(c, kind) ==
    /\ c \in asked
    /\ asked' = asked \ {c}
    /\ answers' = answers \cup {[of |-> c, name |-> name[c], kind |-> kind]}
    /\ UNCHANGED <<stage, name>>

\* c takes an answer of its name.  A success ends it, and an error may.
Return(c, a) ==
    /\ stage[c] = "sent"
    /\ a \in answers
    /\ a.name = name[c]
    /\ stage' = [stage EXCEPT ![c] = IF a.kind = "done" THEN "completed" ELSE "failed"]
    /\ answers' \subseteq answers \ {a}
    /\ UNCHANGED <<name, asked>>

\* c fails before it is sent, or its deadline passes.
GiveUp(c) ==
    /\ \/ stage[c] = "registered" /\ stage' = [stage EXCEPT ![c] = "failed"]
       \/ stage[c] = "sent" /\ stage' = [stage EXCEPT ![c] = "timedout"]
    /\ Lose
    /\ UNCHANGED <<name, asked>>

Next ==
    \/ \E c \in Callers :
          \/ \E n \in Names : Name(c, n)
          \/ \E kind \in {"done", "error"} : Reply(c, kind)
          \/ \E a \in answers : Return(c, a)
          \/ Ask(c) \/ GiveUp(c)
    \/ Lose /\ UNCHANGED <<stage, name, asked>>

Spec == Init /\ [][Next]_vars
=============================================================================
