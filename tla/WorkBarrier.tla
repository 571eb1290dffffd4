----------------------------- MODULE WorkBarrier -----------------------------
(***************************************************************************)
(* What HarnessComputeManager promises to a caller of wait_until_idle: an  *)
(* item of work is open from the moment ingest_sample counts it until the  *)
(* worker is done with it, the items of one thread are closed in the order *)
(* in which it opened them, and the idle event is set exactly while no     *)
(* item is open.                                                           *)
(***************************************************************************)
EXTENDS Naturals

CONSTANT Items  \* records; field "by" is a thread, "n" the number of the item

VARIABLES open,  \* the items opened and not yet closed
          idle   \* the idle event

vars == <<open, idle>>

Init == open = {} /\ idle = TRUE

\* The items of a thread are numbered in the order it opens them.
Open(i) ==
    /\ \A j \in open : j.by = i.by => j.n < i.n
    /\ open' = open \cup {i}
    /\ idle' = FALSE

\* Only the oldest open item of a thread can be closed.
Close(i) ==
    /\ i \in open
    /\ \A j \in open : j.by = i.by => i.n <= j.n
    /\ open' = open \ {i}
    /\ idle' = (open' = {})

Next == \E i \in Items : Open(i) \/ Close(i)

Spec == Init /\ [][Next]_vars
=============================================================================
