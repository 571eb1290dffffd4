----------------------- MODULE AlgorithmHarnessProofs -----------------------
(***************************************************************************)
(* What holds of HarnessComputeManager for every set of producers and      *)
(* addresses and for every value of the bounds, and then of the run of the *)
(* algorithm harness that owns it.  A run is a behaviour of ComputeManager *)
(* (ManagerRun), so what is proved of the manager, with whoever calls it,  *)
(* holds of the run's manager too.  The last part is about the plugin      *)
(* environments that commands prepare and start a harness in (PluginEnv),  *)
(* for every set of plugins and any number of commands; it shares nothing  *)
(* with the rest but this module.                                          *)
(***************************************************************************)
EXTENDS AlgorithmHarness, PluginEnv, FiniteSetTheorems, SequenceTheorems, TLAPS

-----------------------------------------------------------------------------
(* Helpers.                                                                 *)

\* The clamp of the finally clause yields a natural number.
LEMMA CountDownType ==
    ASSUME pending \in Nat
    PROVE  CountDown \in Nat
BY DEF CountDown

\* What a bounded buffer keeps is a sequence of what was put into it.
LEMMA KeepLastType ==
    ASSUME NEW S, NEW s \in Seq(S), NEW max \in Nat \ {0}
    PROVE  KeepLast(s, max) \in Seq(S)
BY DEF KeepLast

\* The members of an extended queue.
LEMMA InAppend ==
    ASSUME NEW S, NEW q \in Seq(S), NEW e \in S, NEW x
    PROVE  (\E i \in DOMAIN Append(q, e) : Append(q, e)[i] = x)
             <=> (\E i \in DOMAIN q : q[i] = x) \/ x = e
<1>1. /\ DOMAIN q = 1..Len(q)
      /\ DOMAIN Append(q, e) = 1..Len(q) + 1
      /\ Len(q) \in Nat
      /\ Append(q, e)[Len(q) + 1] = e
      /\ \A i \in 1..Len(q) : Append(q, e)[i] = q[i]
  OBVIOUS
<1>2. 1..Len(q) + 1 = (1..Len(q)) \cup {Len(q) + 1}
  BY <1>1
<1> QED
  BY <1>1, <1>2, Zenon

\* The members of a queue that is not empty are its head and those of its tail.
LEMMA InTail ==
    ASSUME NEW S, NEW q \in Seq(S), q # << >>, NEW x
    PROVE  (\E i \in DOMAIN q : q[i] = x)
             <=> (\E i \in DOMAIN Tail(q) : Tail(q)[i] = x) \/ x = Head(q)
<1>1. /\ DOMAIN q = 1..Len(q)
      /\ DOMAIN Tail(q) = 1..(Len(q) - 1)
      /\ Len(q) \in Nat \ {0}
      /\ Head(q) = q[1]
      /\ \A i \in 1..(Len(q) - 1) : Tail(q)[i] = q[i + 1]
  OBVIOUS
<1>2. ASSUME NEW i \in 1..Len(q), q[i] = x, i # 1
      PROVE  \E j \in 1..(Len(q) - 1) : Tail(q)[j] = x
  <2>1. i - 1 \in 1..(Len(q) - 1) /\ (i - 1) + 1 = i
    BY <1>1, <1>2
  <2> QED
    BY <1>1, <1>2, <2>1
<1>3. ASSUME NEW j \in 1..(Len(q) - 1), Tail(q)[j] = x
      PROVE  \E i \in 1..Len(q) : q[i] = x
  <2>1. j + 1 \in 1..Len(q)
    BY <1>1
  <2> QED
    BY <1>1, <1>3, <2>1
<1>4. 1 \in 1..Len(q)
  BY <1>1
<1> QED
  BY <1>1, <1>2, <1>3, <1>4, Zenon

-----------------------------------------------------------------------------
(* How the set of outstanding samples changes.                              *)

\* The worker holds a sample exactly during that sample's turn.
WorkerHolds == current # None <=> worker \in Computing

\* Only samples are ever outstanding.
LEMMA OutstandingSamples == Outstanding \subseteq Samples
BY DEF Outstanding

\* ingest_sample makes a new sample, which the caller holds.
LEMMA CountedSample ==
    ASSUME TypeOK, NEW p \in Producers, NEW a \in Addresses, CountSample(p, a)
    PROVE  /\ putting'[p] = [by |-> p, n |-> issued[p] + 1, address |-> a]
           /\ putting'[p] \in Samples
           /\ issued[p] + 1 \in 1..MaxSamples
<1>1. issued[p] \in 0..MaxSamples /\ issued[p] < MaxSamples
  BY DEF TypeOK, CountSample
<1>2. issued[p] + 1 \in 1..MaxSamples
  BY <1>1, BoundsAreNatural
<1>3. putting'[p] = [by |-> p, n |-> issued[p] + 1, address |-> a]
  BY DEF TypeOK, CountSample
<1> QED
  BY <1>2, <1>3 DEF Samples

\* Counting a sample makes it outstanding, and nothing else.
LEMMA OutstandingAfterCount ==
    ASSUME TypeOK, NEW p \in Producers, NEW a \in Addresses, CountSample(p, a)
    PROVE  Outstanding' = Outstanding \cup {putting'[p]}
<1>1. queue' = queue /\ current' = current /\ putting[p] = None
  BY DEF CountSample
<1>2. \A q \in Producers : q # p => putting'[q] = putting[q]
  BY DEF TypeOK, CountSample
<1>3. \A s : Queued(s)' <=> Queued(s)
  BY <1>1 DEF Queued
<1>4. putting'[p] \in Samples
  BY CountedSample
<1> QED
  BY <1>1, <1>2, <1>3, <1>4, NotASample DEF Outstanding

\* Putting a sample only moves it.
LEMMA OutstandingAfterPut ==
    ASSUME TypeOK, NEW p \in Producers, PutSample(p)
    PROVE  Outstanding' = Outstanding
<1>1. \A s \in Samples : Queued(s)' <=> Queued(s) \/ s = putting[p]
  <2>1. PICK e \in Samples : e = putting[p] /\ queue' = Append(queue, e)
    BY DEF TypeOK, PutSample
  <2> DEFINE Entries == Samples \cup {ShutdownToken}
  <2>2. queue \in Seq(Entries) /\ e \in Entries
    BY <2>1 DEF TypeOK
  <2> HIDE DEF Entries
  <2>3. \A s : (\E i \in DOMAIN Append(queue, e) : Append(queue, e)[i] = s) <=>
                (\E i \in DOMAIN queue : queue[i] = s) \/ s = e
    BY <2>2, InAppend
  <2> QED
    BY <2>1, <2>3 DEF Queued
<1>2. \A s \in Samples :
        (\E q \in Producers : putting[q] = s)
          <=> (\E q \in Producers : putting'[q] = s) \/ s = putting[p]
  BY NotASample DEF TypeOK, PutSample
<1> QED
  BY <1>1, <1>2 DEF PutSample, Outstanding

\* Taking the head of the queue moves it to the worker, or drops the token.
LEMMA OutstandingAfterTake ==
    ASSUME TypeOK, WorkerHolds, TakeSample \/ TakeToken
    PROVE  Outstanding' = Outstanding
<1>1. current = None /\ current' \in Samples \cup {None}
  BY DEF WorkerHolds, Computing, TypeOK, TakeSample, TakeToken
<1>2. queue # << >> /\ queue' = Tail(queue) /\ putting' = putting
  BY DEF TakeSample, TakeToken
<1>3. \A s \in Samples : Queued(s) <=> Queued(s)' \/ s = Head(queue)
  <2>1. queue \in Seq(Samples \cup {ShutdownToken})
    BY DEF TypeOK
  <2>2. \A s : (\E i \in DOMAIN queue : queue[i] = s) <=>
                (\E i \in DOMAIN Tail(queue) : Tail(queue)[i] = s) \/ s = Head(queue)
    BY <1>2, <2>1, InTail
  <2> QED
    BY <1>2, <2>2 DEF Queued
<1>4. \A s \in Samples : s = Head(queue) <=> s = current'
  BY <1>1, NotASample DEF TakeSample, TakeToken
<1> QED
  BY <1>1, <1>2, <1>3, <1>4, NotASample DEF Outstanding

\* A sample that get_nowait removes may be gone, and nothing appears.
LEMMA OutstandingAfterDrain ==
    ASSUME TypeOK, DrainOne
    PROVE  Outstanding' \subseteq Outstanding
<1>1. \A s \in Samples : Queued(s)' => Queued(s)
  BY InTail DEF TypeOK, DrainOne, Queued
<1> QED
  BY <1>1 DEF DrainOne, Outstanding

\* The end of a turn closes the worker's sample, and no other.
LEMMA OutstandingAfterFinish ==
    ASSUME TypeOK, FinishSample
    PROVE  /\ Outstanding' \subseteq Outstanding
           /\ Outstanding \ {current} \subseteq Outstanding'
BY NotASample DEF TypeOK, FinishSample, Outstanding, Queued

\* The token is no sample.
LEMMA OutstandingAfterShutdown ==
    ASSUME TypeOK, RequestShutdown
    PROVE  Outstanding' = Outstanding
<1>1. \A s \in Samples : Queued(s)' <=> Queued(s)
  <2>1. queue' = Append(queue, ShutdownToken)
    BY DEF RequestShutdown
  <2>2. queue \in Seq(Samples \cup {ShutdownToken})
    BY DEF TypeOK
  <2>3. \A s : (\E i \in DOMAIN Append(queue, ShutdownToken) :
                   Append(queue, ShutdownToken)[i] = s) <=>
                (\E i \in DOMAIN queue : queue[i] = s) \/ s = ShutdownToken
    BY <2>2, InAppend
  <2> QED
    BY <2>1, <2>3, NotASample DEF Queued
<1> QED
  BY <1>1 DEF RequestShutdown, Outstanding

\* The other steps move no sample.
LEMMA OutstandingUnchanged ==
    ASSUME UNCHANGED <<queue, putting, current>>
    PROVE  Outstanding' = Outstanding
BY DEF Outstanding, Queued

-----------------------------------------------------------------------------
(* Type correctness.  TypeOK is not inductive: the worker must hold a       *)
(* sample while it computes, and the samples counted by reset must be       *)
(* finitely many.                                                           *)

TypeInv == TypeOK /\ WorkerHolds /\ IsFiniteSet(Outstanding)

\* Nothing is outstanding at the start.
LEMMA TypeInvInit == Init => TypeInv
<1> SUFFICES ASSUME Init PROVE TypeInv
  OBVIOUS
<1>1. TypeOK
  <2>1. << >> \in Seq(Samples) /\ << >> \in Seq(Samples \cup {ShutdownToken})
    OBVIOUS
  <2>2. 0 \in 0..MaxSamples
    BY BoundsAreNatural
  <2> QED
    BY <2>1, <2>2 DEF Init, TypeOK, WorkerStates, Computing, OwnerStates
<1>2. WorkerHolds
  BY DEF Init, WorkerHolds, Computing
<1>3. Outstanding = {}
  BY NotASample DEF Init, Outstanding, Queued
<1> QED
  BY <1>1, <1>2, <1>3, FS_EmptySet DEF TypeInv

\* Outstanding samples stay finitely many: a step adds at most one.
LEMMA FiniteStep ==
    ASSUME TypeInv, [Next]_vars
    PROVE  IsFiniteSet(Outstanding')
<1> USE DEF TypeInv
<1>1. ASSUME NEW p \in Producers, NEW a \in Addresses, CountSample(p, a)
      PROVE  IsFiniteSet(Outstanding')
  BY <1>1, OutstandingAfterCount, FS_AddElement
<1>2. ASSUME NEW p \in Producers, PutSample(p)
      PROVE  IsFiniteSet(Outstanding')
  BY <1>2, OutstandingAfterPut
<1>3. CASE TakeSample \/ TakeToken
  BY <1>3, OutstandingAfterTake
<1>4. CASE FinishSample
  BY <1>4, OutstandingAfterFinish, FS_Subset
<1>5. CASE DrainOne
  BY <1>5, OutstandingAfterDrain, FS_Subset
<1>6. CASE RequestShutdown
  BY <1>6, OutstandingAfterShutdown
<1>7. CASE UNCHANGED <<queue, putting, current>>
  BY <1>7, OutstandingUnchanged
<1> QED
  BY <1>1, <1>2, <1>3, <1>4, <1>5, <1>6, <1>7
  DEF Next, Worker, Owner, FindAlgorithm, NotifyListener, BufferResult, EndSample, EscapeError,
      RegisterAlgorithm, BeginReset, FindEmpty, Recount, JoinWorker, work, vars

\* The worker takes a sample up and lays it down.
LEMMA WorkerHoldsStep ==
    ASSUME TypeInv, [Next]_vars
    PROVE  WorkerHolds'
<1> USE NotASample DEF TypeInv, WorkerHolds, Computing
<1>1. CASE UNCHANGED <<current, worker>>
  BY <1>1
<1>2. CASE TakeSample
  <2>1. Head(queue) # None
    BY <1>2 DEF TypeOK, TakeSample
  <2> QED
    BY <1>2, <2>1 DEF TakeSample
<1>3. CASE TakeToken
  BY <1>3 DEF TakeToken
<1>4. CASE FindAlgorithm \/ NotifyListener \/ BufferResult \/ EndSample \/ EscapeError
  BY <1>4 DEF FindAlgorithm, NotifyListener, BufferResult, EndSample, EscapeError, work
<1>5. CASE FinishSample
  BY <1>5 DEF FinishSample
<1> QED
  BY <1>1, <1>2, <1>3, <1>4, <1>5
  DEF Next, Worker, Owner, CountSample, PutSample, RegisterAlgorithm, BeginReset,
      DrainOne, FindEmpty, Recount, RequestShutdown, JoinWorker, work, vars

\* Every variable keeps its type.
LEMMA TypeOKStep ==
    ASSUME TypeInv, [Next]_vars
    PROVE  TypeOK'
<1> USE DEF TypeInv, TypeOK
<1>1. ASSUME NEW p \in Producers, NEW a \in Addresses, CountSample(p, a)
      PROVE  TypeOK'
  <2>1. putting' \in [Producers -> Samples \cup {None}]
    BY <1>1, CountedSample DEF CountSample
  <2>2. issued' \in [Producers -> 0..MaxSamples]
    BY <1>1, CountedSample, BoundsAreNatural DEF CountSample
  <2>3. /\ pending' = pending + 1 /\ idle' = FALSE
        /\ UNCHANGED <<queue, algorithms, results, current, worker, owner,
                       emitted, resets, straddled, renewed>>
    BY <1>1, Zenon DEF CountSample
  <2>4. pending' \in Nat
    BY <2>3
  <2>5. idle' \in BOOLEAN
    BY <2>3
  <2> QED
    BY <2>1, <2>2, <2>3, <2>4, <2>5
<1>2. ASSUME NEW p \in Producers, PutSample(p)
      PROVE  TypeOK'
  <2>1. putting[p] \in Samples
    BY <1>2 DEF PutSample
  <2>2. queue' \in Seq(Samples \cup {ShutdownToken})
    BY <1>2, <2>1 DEF PutSample
  <2> QED
    BY <1>2, <2>2 DEF PutSample
<1>3. CASE TakeSample
  <2>1. Head(queue) \in Samples /\ Tail(queue) \in Seq(Samples \cup {ShutdownToken})
    BY <1>3 DEF TakeSample
  <2> QED
    BY <1>3, <2>1 DEF TakeSample, WorkerStates, Computing
<1>4. CASE TakeToken
  <2>1. Tail(queue) \in Seq(Samples \cup {ShutdownToken})
    BY <1>4 DEF TakeToken
  <2> QED
    BY <1>4, <2>1 DEF TakeToken, WorkerStates, Computing
<1>5. CASE FindAlgorithm
  BY <1>5 DEF FindAlgorithm, work, WorkerStates, Computing
<1>6. CASE NotifyListener
  <2>1. current \in Samples
    BY <1>6 DEF NotifyListener, WorkerHolds, Computing
  <2>2. emitted' \in Seq(Samples)
    BY <1>6, <2>1 DEF NotifyListener
  <2> QED
    BY <1>6, <2>2 DEF NotifyListener, work, WorkerStates, Computing
<1>7. CASE BufferResult
  <2>1. current \in Samples /\ current.address \in Addresses
    BY <1>7 DEF BufferResult, WorkerHolds, Samples, Computing
  <2>2. Append(results[current.address], current) \in Seq(Samples)
    BY <2>1
  <2>3. KeepLast(Append(results[current.address], current), MaxResults) \in Seq(Samples)
    BY <2>2, KeepLastType, BoundsAreNatural
  <2>4. results' \in [Addresses -> Seq(Samples)]
    BY <1>7, <2>1, <2>3 DEF BufferResult
  <2> QED
    BY <1>7, <2>4 DEF BufferResult, work, WorkerStates, Computing
<1>16. CASE EndSample \/ EscapeError
  BY <1>16 DEF EndSample, EscapeError, work, WorkerStates, Computing
<1>8. CASE FinishSample
  BY <1>8, CountDownType DEF FinishSample, IdleAfter, WorkerStates, Computing
<1>9. ASSUME NEW a \in Addresses, RegisterAlgorithm(a)
      PROVE  TypeOK'
  BY <1>9 DEF RegisterAlgorithm, work
<1>10. CASE BeginReset
  <2>1. results' \in [Addresses -> Seq(Samples)]
    BY <1>10 DEF BeginReset
  <2> QED
    BY <1>10, <2>1 DEF BeginReset, work, OwnerStates
<1>11. CASE DrainOne
  <2>1. Tail(queue) \in Seq(Samples \cup {ShutdownToken})
    BY <1>11 DEF DrainOne
  <2> QED
    BY <1>11, <2>1 DEF DrainOne
<1>12. CASE FindEmpty \/ JoinWorker
  BY <1>12 DEF FindEmpty, JoinWorker, work, OwnerStates
<1>13. CASE Recount
  <2>1. Cardinality(Outstanding) \in Nat
    BY FS_CardinalityType
  <2> QED
    BY <1>13, <2>1 DEF Recount, OwnerStates
<1>14. CASE RequestShutdown
  <2>1. queue' \in Seq(Samples \cup {ShutdownToken})
    BY <1>14 DEF RequestShutdown
  <2> QED
    BY <1>14, <2>1 DEF RequestShutdown, OwnerStates
<1>15. CASE UNCHANGED vars
  BY <1>15 DEF vars
<1> QED
  BY <1>1, <1>2, <1>3, <1>4, <1>5, <1>6, <1>7, <1>8, <1>9, <1>10, <1>11, <1>12,
     <1>13, <1>14, <1>15, <1>16 DEF Next, Worker, Owner

\* TypeInv is an invariant of the manager.
LEMMA TypeInvariant == Spec => []TypeInv
<1>1. TypeInv /\ [Next]_vars => TypeInv'
  BY FiniteStep, WorkerHoldsStep, TypeOKStep DEF TypeInv
<1> QED
  BY <1>1, TypeInvInit, PTL DEF Spec

\* Every variable of HarnessComputeManager keeps its type, the pending count
\* being a natural number in particular, whoever calls reset and shutdown and
\* whatever escapes from the worker.
THEOREM TypeCorrect == Spec => []TypeOK
BY TypeInvariant, PTL DEF TypeInv

-----------------------------------------------------------------------------
(* The samples of a producer are outstanding in the order of its calls, so  *)
(* that no sample is in two places.                                         *)

\* How many samples p has put into the queue.
Handed == [p \in Producers |->
             IF putting[p] = None THEN issued[p] ELSE issued[p] - 1]

Ordered ==
    /\ \A p \in Producers :
          putting[p] # None => /\ putting[p].by = p
                               /\ putting[p].n = issued[p]
    /\ \A i \in DOMAIN queue :
          queue[i] # ShutdownToken => queue[i].n <= Handed[queue[i].by]
    /\ \A i, j \in DOMAIN queue :
          /\ i < j
          /\ queue[i] # ShutdownToken
          /\ queue[j] # ShutdownToken
          /\ queue[i].by = queue[j].by
          => queue[i].n < queue[j].n
    /\ current # None =>
          /\ current.n <= Handed[current.by]
          /\ \A i \in DOMAIN queue :
                /\ queue[i] # ShutdownToken
                /\ queue[i].by = current.by
                => current.n < queue[i].n

\* What a queue holds after a put, by position.
LEMMA AppendPositions ==
    ASSUME NEW S, NEW q \in Seq(S), NEW e \in S
    PROVE  /\ \A i \in DOMAIN q : Append(q, e)[i] = q[i]
           /\ Append(q, e)[Len(q) + 1] = e
           /\ \A i \in DOMAIN Append(q, e) : i \in DOMAIN q \/ i = Len(q) + 1
           /\ \A i \in DOMAIN q : i \in Nat /\ i < Len(q) + 1
           /\ Len(q) \in Nat
OBVIOUS

\* What a queue holds after a get, by position.
LEMMA TailPositions ==
    ASSUME NEW S, NEW q \in Seq(S), q # << >>
    PROVE  /\ Head(q) = q[1] /\ 1 \in DOMAIN q
           /\ \A i \in DOMAIN Tail(q) : /\ i \in Nat /\ 1 < i + 1
                                       /\ i + 1 \in DOMAIN q
                                       /\ Tail(q)[i] = q[i + 1]
OBVIOUS

\* Nothing is queued at the start.
LEMMA OrderedInit == Init => Ordered
BY DEF Init, Ordered

\* A new sample is numbered after those its producer has handed over.
LEMMA OrderedAfterCount ==
    ASSUME TypeOK, Ordered,
           NEW p \in Producers, NEW a \in Addresses, CountSample(p, a)
    PROVE  Ordered'
<1>1. putting[p] = None /\ issued[p] \in Nat /\ issued'[p] = issued[p] + 1
  BY DEF TypeOK, CountSample
<1>2. putting'[p] # None
  BY CountedSample, NotASample
<1>3. putting'[p].by = p /\ putting'[p].n = issued[p] + 1
  <2>1. putting'[p] = [by |-> p, n |-> issued[p] + 1, address |-> a]
    BY CountedSample
  <2> QED
    BY <2>1
<1>4. \A q \in Producers : q # p => putting'[q] = putting[q] /\ issued'[q] = issued[q]
  BY DEF TypeOK, CountSample
<1>5. \A q \in Producers : Handed'[q] = Handed[q]
  BY <1>1, <1>2, <1>4 DEF Handed
<1>6. queue' = queue /\ current' = current
  BY DEF CountSample
<1>7. \A i \in DOMAIN queue : queue[i] # ShutdownToken => queue[i].by \in Producers
  BY DEF TypeOK, Samples
<1>8. current # None => current.by \in Producers
  BY DEF TypeOK, Samples
<1>9. \A q \in Producers :
        putting'[q] # None => putting'[q].by = q /\ putting'[q].n = issued'[q]
  BY <1>1, <1>3, <1>4 DEF Ordered
<1> QED
  BY <1>5, <1>6, <1>7, <1>8, <1>9 DEF Ordered

\* A sample that is put is numbered after those its producer put before.
LEMMA OrderedAfterPut ==
    ASSUME TypeOK, Ordered, NEW p \in Producers, PutSample(p)
    PROVE  Ordered'
<1>1. PICK e \in Samples : e = putting[p] /\ queue' = Append(queue, e)
  BY DEF TypeOK, PutSample
<1> DEFINE Entries == Samples \cup {ShutdownToken}
<1>2. queue \in Seq(Entries) /\ e \in Entries
  BY <1>1 DEF TypeOK
<1>3. /\ e.by = p /\ e.n = issued[p] /\ issued[p] \in Nat
      /\ putting'[p] = None /\ issued' = issued /\ current' = current
  BY <1>1, NotASample DEF TypeOK, PutSample, Ordered
<1>4. \A q \in Producers : q # p => putting'[q] = putting[q]
  BY DEF TypeOK, PutSample
<1>5. Handed[p] = issued[p] - 1 /\ Handed'[p] = issued[p]
  BY <1>1, <1>3, NotASample DEF Handed
<1>6. \A q \in Producers : q # p => Handed'[q] = Handed[q]
  BY <1>3, <1>4 DEF Handed
<1>7. \A s \in Samples : s.by \in Producers /\ s.n \in Nat
  BY DEF Samples
<1>8. \A i \in DOMAIN queue : queue[i] # ShutdownToken =>
        /\ queue[i] \in Samples
        /\ queue[i].by = p => queue[i].n < e.n
        /\ queue[i].n <= Handed'[queue[i].by]
  <2> SUFFICES ASSUME NEW i \in DOMAIN queue, queue[i] # ShutdownToken
               PROVE  /\ queue[i] \in Samples
                      /\ queue[i].by = p => queue[i].n < e.n
                      /\ queue[i].n <= Handed'[queue[i].by]
    OBVIOUS
  <2>1. queue[i] \in Samples
    BY DEF TypeOK
  <2>2. queue[i].n <= Handed[queue[i].by]
    BY DEF Ordered
  <2>3. CASE queue[i].by = p
    BY <1>3, <1>5, <1>7, <2>1, <2>2, <2>3
  <2>4. CASE queue[i].by # p
    BY <1>6, <1>7, <2>1, <2>2, <2>4
  <2> QED
    BY <2>1, <2>3, <2>4
<1>9. current # None =>
        /\ current \in Samples
        /\ current.by = p => current.n < e.n
        /\ current.n <= Handed'[current.by]
  <2> SUFFICES ASSUME current # None
               PROVE  /\ current \in Samples
                      /\ current.by = p => current.n < e.n
                      /\ current.n <= Handed'[current.by]
    OBVIOUS
  <2>1. current \in Samples
    BY DEF TypeOK
  <2>2. current.n <= Handed[current.by]
    BY DEF Ordered
  <2>3. CASE current.by = p
    BY <1>3, <1>5, <1>7, <2>1, <2>2, <2>3
  <2>4. CASE current.by # p
    BY <1>6, <1>7, <2>1, <2>2, <2>4
  <2> QED
    BY <2>1, <2>3, <2>4
<1> HIDE DEF Entries
<1>10. /\ \A i \in DOMAIN queue : queue'[i] = queue[i]
       /\ queue'[Len(queue) + 1] = e
       /\ \A i \in DOMAIN queue' : i \in DOMAIN queue \/ i = Len(queue) + 1
       /\ \A i \in DOMAIN queue : i \in Nat /\ i < Len(queue) + 1
       /\ Len(queue) \in Nat
  BY <1>1, <1>2, AppendPositions
<1>11. \A q \in Producers :
         putting'[q] # None => putting'[q].by = q /\ putting'[q].n = issued'[q]
  BY <1>3, <1>4 DEF Ordered
<1>12. \A i \in DOMAIN queue' :
         queue'[i] # ShutdownToken => queue'[i].n <= Handed'[queue'[i].by]
  BY <1>3, <1>5, <1>8, <1>10
<1>13. \A i, j \in DOMAIN queue' :
          /\ i < j
          /\ queue'[i] # ShutdownToken
          /\ queue'[j] # ShutdownToken
          /\ queue'[i].by = queue'[j].by
          => queue'[i].n < queue'[j].n
  <2> SUFFICES ASSUME NEW i \in DOMAIN queue', NEW j \in DOMAIN queue',
                      i < j,
                      queue'[i] # ShutdownToken,
                      queue'[j] # ShutdownToken,
                      queue'[i].by = queue'[j].by
               PROVE  queue'[i].n < queue'[j].n
    OBVIOUS
  <2>1. CASE i \in DOMAIN queue /\ j \in DOMAIN queue
    BY <1>10, <2>1 DEF Ordered
  <2>2. CASE i \in DOMAIN queue /\ j = Len(queue) + 1
    BY <1>3, <1>8, <1>10, <2>2
  <2>3. CASE i = Len(queue) + 1
    BY <1>10, <2>3
  <2> QED
    BY <1>10, <2>1, <2>2, <2>3
<1>14. current' # None => \A i \in DOMAIN queue' :
          /\ queue'[i] # ShutdownToken
          /\ queue'[i].by = current'.by
          => current'.n < queue'[i].n
  BY <1>3, <1>9, <1>10 DEF Ordered
<1>15. current' # None => current'.n <= Handed'[current'.by]
  BY <1>3, <1>9
<1> QED
  BY <1>11, <1>12, <1>13, <1>14, <1>15 DEF Ordered

\* Losing the head leaves the rest of the queue in order.
LEMMA TailInOrder ==
    ASSUME TypeOK, Ordered, queue # << >>, queue' = Tail(queue)
    PROVE  /\ \A i \in DOMAIN queue' :
                 queue'[i] # ShutdownToken => queue'[i].n <= Handed[queue'[i].by]
           /\ \A i, j \in DOMAIN queue' :
                 /\ i < j
                 /\ queue'[i] # ShutdownToken
                 /\ queue'[j] # ShutdownToken
                 /\ queue'[i].by = queue'[j].by
                 => queue'[i].n < queue'[j].n
           /\ \A s : (\A i \in DOMAIN queue :
                        /\ queue[i] # ShutdownToken
                        /\ queue[i].by = s.by
                        => s.n < queue[i].n) =>
                    \A i \in DOMAIN queue' :
                        /\ queue'[i] # ShutdownToken
                        /\ queue'[i].by = s.by
                        => s.n < queue'[i].n
<1>1. \A i \in DOMAIN queue' : /\ i \in Nat /\ 1 < i + 1
                              /\ i + 1 \in DOMAIN queue
                              /\ queue'[i] = queue[i + 1]
  <2> DEFINE Entries == Samples \cup {ShutdownToken}
  <2>1. queue \in Seq(Entries)
    BY DEF TypeOK
  <2> HIDE DEF Entries
  <2> QED
    BY <2>1, TailPositions
<1>2. \A i, j \in DOMAIN queue' : i < j => i + 1 < j + 1
  BY <1>1
<1> QED
  BY <1>1, <1>2 DEF Ordered

\* The worker takes the oldest queued sample.
LEMMA OrderedAfterTake ==
    ASSUME TypeOK, WorkerHolds, Ordered, TakeSample \/ TakeToken
    PROVE  Ordered'
<1>1. /\ queue # << >> /\ queue' = Tail(queue)
      /\ putting' = putting /\ issued' = issued /\ current = None
      /\ current' = current \/ (current' = Head(queue) /\ Head(queue) # ShutdownToken)
  BY DEF TakeSample, TakeToken, WorkerHolds, Computing
<1>2. Handed' = Handed
  BY <1>1 DEF Handed
<1>3. Head(queue) = queue[1] /\ 1 \in DOMAIN queue
  <2> DEFINE Entries == Samples \cup {ShutdownToken}
  <2>1. queue \in Seq(Entries)
    BY DEF TypeOK
  <2> HIDE DEF Entries
  <2> QED
    BY <1>1, <2>1, TailPositions
<1>4. \A i \in DOMAIN queue' : /\ i \in Nat /\ 1 < i + 1
                              /\ i + 1 \in DOMAIN queue
                              /\ queue'[i] = queue[i + 1]
  <2> DEFINE Entries == Samples \cup {ShutdownToken}
  <2>1. queue \in Seq(Entries)
    BY DEF TypeOK
  <2> HIDE DEF Entries
  <2> QED
    BY <1>1, <2>1, TailPositions
<1>5. current' # None =>
        /\ current'.n <= Handed'[current'.by]
        /\ \A i \in DOMAIN queue' :
              /\ queue'[i] # ShutdownToken
              /\ queue'[i].by = current'.by
              => current'.n < queue'[i].n
  <2> SUFFICES ASSUME current' # None
               PROVE  /\ current'.n <= Handed'[current'.by]
                      /\ \A i \in DOMAIN queue' :
                            /\ queue'[i] # ShutdownToken
                            /\ queue'[i].by = current'.by
                            => current'.n < queue'[i].n
    OBVIOUS
  <2>1. current' = queue[1] /\ queue[1] # ShutdownToken
    BY <1>1, <1>3
  <2>2. current'.n <= Handed'[current'.by]
    BY <1>2, <1>3, <2>1 DEF Ordered
  <2>3. ASSUME NEW i \in DOMAIN queue', queue'[i] # ShutdownToken,
               queue'[i].by = current'.by
        PROVE  current'.n < queue'[i].n
    BY <1>3, <1>4, <2>1, <2>3 DEF Ordered
  <2> QED
    BY <2>2, <2>3
<1> QED
  BY <1>1, <1>2, <1>5, TailInOrder DEF Ordered

\* A drained queue is in order.
LEMMA OrderedAfterDrain ==
    ASSUME TypeOK, Ordered, DrainOne
    PROVE  Ordered'
<1>1. /\ queue # << >> /\ queue' = Tail(queue)
      /\ UNCHANGED <<putting, issued, current>>
  BY DEF DrainOne
<1>2. Handed' = Handed
  BY <1>1 DEF Handed
<1> QED
  BY <1>1, <1>2, TailInOrder DEF Ordered

\* A finished sample is no longer anywhere.
LEMMA OrderedAfterFinish ==
    ASSUME TypeOK, Ordered, FinishSample
    PROVE  Ordered'
<1>1. queue' = queue /\ putting' = putting /\ issued' = issued /\ current' = None
  BY DEF FinishSample
<1>2. Handed' = Handed
  BY <1>1 DEF Handed
<1> QED
  BY <1>1, <1>2 DEF Ordered

\* The token has no place in the order.
LEMMA OrderedAfterShutdown ==
    ASSUME TypeOK, Ordered, RequestShutdown
    PROVE  Ordered'
<1>1. queue' = Append(queue, ShutdownToken) /\ UNCHANGED <<putting, issued, current>>
  BY DEF RequestShutdown
<1>2. Handed' = Handed
  BY <1>1 DEF Handed
<1>3. /\ \A i \in DOMAIN queue : queue'[i] = queue[i]
      /\ queue'[Len(queue) + 1] = ShutdownToken
      /\ \A i \in DOMAIN queue' : i \in DOMAIN queue \/ i = Len(queue) + 1
  <2> DEFINE Entries == Samples \cup {ShutdownToken}
  <2>1. queue \in Seq(Entries) /\ ShutdownToken \in Entries
    BY DEF TypeOK
  <2> HIDE DEF Entries
  <2> QED
    BY <1>1, <2>1, AppendPositions
<1>4. \A i \in DOMAIN queue' :
        queue'[i] # ShutdownToken => i \in DOMAIN queue /\ queue'[i] = queue[i]
  BY <1>3
<1> QED
  BY <1>1, <1>2, <1>4 DEF Ordered

\* Every step keeps the order.
LEMMA OrderedStep ==
    ASSUME TypeInv, Ordered, [Next]_vars
    PROVE  Ordered'
<1> USE DEF TypeInv
<1>1. ASSUME NEW p \in Producers, NEW a \in Addresses, CountSample(p, a)
      PROVE  Ordered'
  BY <1>1, OrderedAfterCount
<1>2. ASSUME NEW p \in Producers, PutSample(p)
      PROVE  Ordered'
  BY <1>2, OrderedAfterPut
<1>3. CASE TakeSample \/ TakeToken
  BY <1>3, OrderedAfterTake
<1>4. CASE FinishSample
  BY <1>4, OrderedAfterFinish
<1>5. CASE DrainOne
  BY <1>5, OrderedAfterDrain
<1>6. CASE RequestShutdown
  BY <1>6, OrderedAfterShutdown
<1>7. CASE UNCHANGED <<queue, putting, current, issued>>
  BY <1>7 DEF Ordered, Handed
<1> QED
  BY <1>1, <1>2, <1>3, <1>4, <1>5, <1>6, <1>7
  DEF Next, Worker, Owner, FindAlgorithm, NotifyListener, BufferResult, EndSample, EscapeError,
      RegisterAlgorithm, BeginReset, FindEmpty, Recount, JoinWorker, work, vars

\* Ordered is an invariant of the manager.
LEMMA OrderedInvariant == Spec => []Ordered
<1>1. TypeInv /\ Ordered /\ [Next]_vars => Ordered'
  BY OrderedStep
<1> QED
  BY <1>1, OrderedInit, TypeInvariant, PTL DEF Spec

\* What is outstanding has been issued.
LEMMA OutstandingIssued ==
    ASSUME TypeOK, Ordered, NEW s \in Outstanding
    PROVE  s \in Samples /\ s.n <= issued[s.by]
<1>1. s \in Samples /\ s.by \in Producers /\ s.n \in Nat
  BY BoundsAreNatural DEF Outstanding, Samples
<1>2. Handed[s.by] <= issued[s.by] /\ Handed[s.by] \in Int /\ issued[s.by] \in Nat
  BY <1>1 DEF Handed, TypeOK
<1>3. CASE \E p \in Producers : putting[p] = s
  BY <1>1, <1>2, <1>3, NotASample DEF Ordered
<1>4. CASE Queued(s)
  BY <1>1, <1>2, <1>4, NotASample DEF Ordered, Queued
<1>5. CASE current = s
  BY <1>1, <1>2, <1>5, NotASample DEF Ordered
<1> QED
  BY <1>3, <1>4, <1>5 DEF Outstanding

\* A counted sample is a new one, numbered after all those of its producer.
LEMMA CountedIsNew ==
    ASSUME TypeOK, Ordered,
           NEW p \in Producers, NEW a \in Addresses, CountSample(p, a)
    PROVE  /\ putting'[p] \in Samples \ Outstanding
           /\ \A s \in Outstanding : s.by = putting'[p].by => s.n < putting'[p].n
<1>1. putting'[p].by = p /\ putting'[p].n = issued[p] + 1
  <2>1. putting'[p] = [by |-> p, n |-> issued[p] + 1, address |-> a]
    BY CountedSample
  <2> QED
    BY <2>1
<1>2. putting'[p] \in Samples
  BY CountedSample
<1>3. issued[p] \in Nat
  BY DEF TypeOK
<1>4. ASSUME NEW s \in Outstanding, s.by = putting'[p].by
      PROVE  s.n < putting'[p].n
  <2>1. s.n \in Nat /\ s.n <= issued[p]
    BY <1>1, <1>4, OutstandingIssued, BoundsAreNatural DEF Samples
  <2> QED
    BY <1>1, <1>3, <2>1
<1> QED
  BY <1>1, <1>2, <1>3, <1>4

\* The worker's sample is the oldest outstanding one of its producer and is
\* nowhere else.
LEMMA CurrentIsOldest ==
    ASSUME TypeOK, Ordered, current # None,
           NEW s \in Outstanding, s.by = current.by, s # current
    PROVE  current.n < s.n
<1>1. /\ s \in Samples /\ s.n \in Nat /\ s.by \in Producers
      /\ current \in Samples /\ current.n \in Nat
  BY BoundsAreNatural DEF Outstanding, Samples, TypeOK
<1>2. CASE \E p \in Producers : putting[p] = s
  <2>1. putting[s.by] = s /\ s.n = issued[s.by] /\ s # None
    BY <1>1, <1>2, NotASample DEF Ordered
  <2>2. Handed[s.by] = s.n - 1
    BY <1>1, <2>1 DEF Handed
  <2>3. current.n <= Handed[s.by]
    BY DEF Ordered
  <2> QED
    BY <1>1, <2>2, <2>3
<1>3. CASE Queued(s)
  BY <1>1, <1>3, NotASample DEF Ordered, Queued
<1> QED
  BY <1>2, <1>3 DEF Outstanding

\* The end of a turn closes exactly the worker's sample.
LEMMA FinishCloses ==
    ASSUME TypeInv, Ordered, FinishSample
    PROVE  /\ current \in Outstanding
           /\ Outstanding' = Outstanding \ {current}
<1> USE DEF TypeInv
<1>1. current # None /\ current \in Samples /\ current.n \in Nat /\ current.by \in Producers
  BY BoundsAreNatural DEF TypeOK, WorkerHolds, Computing, FinishSample, Samples
<1>2. current \in Outstanding
  BY <1>1 DEF Outstanding
<1>3. ~Queued(current)
  BY <1>1, NotASample DEF Ordered, Queued
<1>4. ASSUME NEW p \in Producers, putting[p] = current
      PROVE  FALSE
  <2>1. current.by = p /\ current.n = issued[p]
    BY <1>1, <1>4 DEF Ordered
  <2>2. Handed[p] = current.n - 1
    BY <1>1, <1>4, <2>1 DEF Handed
  <2>3. current.n <= Handed[p]
    BY <1>1, <2>1 DEF Ordered
  <2> QED
    BY <1>1, <2>2, <2>3
<1>5. queue' = queue /\ putting' = putting /\ current' = None
  BY DEF FinishSample
<1>6. current \notin Outstanding'
  BY <1>1, <1>3, <1>4, <1>5 DEF Outstanding, Queued
<1> QED
  BY <1>2, <1>6, OutstandingAfterFinish

-----------------------------------------------------------------------------
(* The count.                                                               *)

InReset == owner \in {"draining", "recounting"}

Counted ==
    /\ resets <= MaxResets
    /\ resets = 0 => straddled = 0 /\ ~InReset
    /\ IdleIffNonePending
    /\ Cardinality(Outstanding) <= pending + straddled
    /\ ~InReset => pending <= Cardinality(Outstanding)

\* Nothing is counted at the start.
LEMMA CountedInit == Init => Counted
<1> SUFFICES ASSUME Init PROVE Counted
  OBVIOUS
<1>1. Outstanding = {}
  BY NotASample DEF Init, Outstanding, Queued
<1>2. Cardinality(Outstanding) = 0
  BY <1>1, FS_EmptySet
<1> QED
  BY <1>2, BoundsAreNatural DEF Init, Counted, IdleIffNonePending, InReset

\* A step that moves no outstanding sample and leaves the count alone.
LEMMA CountedUnmoved ==
    ASSUME Counted, Outstanding' = Outstanding,
           UNCHANGED <<pending, idle, straddled, resets>>,
           InReset' <=> InReset
    PROVE  Counted'
BY DEF Counted, IdleIffNonePending

\* Every step keeps the count.
LEMMA CountedStep ==
    ASSUME TypeInv, Ordered, Counted, [Next]_vars
    PROVE  Counted'
<1> USE DEF TypeInv
<1>1. /\ Cardinality(Outstanding) \in Nat /\ IsFiniteSet(Outstanding)
      /\ pending \in Nat /\ straddled \in Nat /\ resets \in Nat
  BY FS_CardinalityType DEF TypeOK
<1>2. ASSUME NEW p \in Producers, NEW a \in Addresses, CountSample(p, a)
      PROVE  Counted'
  <2>1. Cardinality(Outstanding') = Cardinality(Outstanding) + 1
    BY <1>1, <1>2, CountedIsNew, OutstandingAfterCount, FS_AddElement
  <2>2. pending' = pending + 1 /\ UNCHANGED <<owner, resets, straddled>>
    BY <1>2 DEF CountSample
  <2>3. idle' = FALSE
    BY <1>2 DEF CountSample
  <2>4. IdleIffNonePending'
    BY <1>1, <2>2, <2>3 DEF IdleIffNonePending
  <2> QED
    BY <1>1, <2>1, <2>2, <2>4 DEF Counted, InReset
<1>3. ASSUME NEW p \in Producers, PutSample(p)
      PROVE  Counted'
  BY <1>3, OutstandingAfterPut, CountedUnmoved DEF PutSample, InReset
<1>4. CASE TakeSample \/ TakeToken
  BY <1>4, OutstandingAfterTake, CountedUnmoved DEF TakeSample, TakeToken, InReset
<1>5. CASE FinishSample
  <2>1. Cardinality(Outstanding') = Cardinality(Outstanding) - 1
    BY <1>1, <1>5, FinishCloses, FS_RemoveElement
  <2>2. /\ pending' = (IF pending > 0 THEN pending - 1 ELSE 0)
        /\ UNCHANGED <<owner, resets, straddled>>
    BY <1>5 DEF FinishSample, CountDown
  <2>3. idle' = IF pending' = 0 THEN TRUE ELSE idle
    BY <1>5 DEF FinishSample, IdleAfter
  <2>4. IdleIffNonePending'
    BY <1>1, <2>2, <2>3 DEF Counted, IdleIffNonePending
  <2>5. Cardinality(Outstanding) > 0
    BY <1>1, <1>5, FinishCloses, FS_EmptySet
  <2> QED
    BY <1>1, <2>1, <2>2, <2>4, <2>5 DEF Counted, InReset
<1>6. CASE DrainOne
  <2>1. Cardinality(Outstanding') <= Cardinality(Outstanding)
    BY <1>1, <1>6, OutstandingAfterDrain, FS_Subset
  <2>2. InReset /\ UNCHANGED <<owner, pending, idle, straddled, resets>>
    BY <1>6 DEF DrainOne, InReset
  <2>3. Cardinality(Outstanding') \in Nat
    BY <1>1, <1>6, OutstandingAfterDrain, FS_Subset, FS_CardinalityType
  <2> QED
    BY <1>1, <2>1, <2>2, <2>3 DEF Counted, IdleIffNonePending, InReset
<1>7. CASE RequestShutdown
  BY <1>7, OutstandingAfterShutdown, CountedUnmoved DEF RequestShutdown, InReset
<1>8. CASE BeginReset
  <2>1. Outstanding' = Outstanding
    BY <1>8, OutstandingUnchanged DEF BeginReset, work
  <2>2. /\ resets' = resets + 1 /\ resets < MaxResets /\ InReset'
        /\ UNCHANGED <<pending, idle, straddled>>
    BY <1>8 DEF BeginReset, InReset, work
  <2> QED
    BY <1>1, <2>1, <2>2, BoundsAreNatural DEF Counted, IdleIffNonePending
<1>9. CASE Recount
  <2>1. Outstanding' = Outstanding
    BY <1>9, OutstandingUnchanged DEF Recount
  <2>2. /\ pending' = 0 /\ InReset
        /\ UNCHANGED resets
        /\ straddled' = straddled + Cardinality(Outstanding)
    BY <1>9 DEF Recount, InReset
  <2>3. idle' = TRUE
    BY <1>9 DEF Recount
  <2>4. IdleIffNonePending'
    BY <2>2, <2>3 DEF IdleIffNonePending
  <2> QED
    BY <1>1, <2>1, <2>2, <2>4 DEF Counted
<1>10. CASE FindEmpty
  <2>1. InReset /\ InReset' /\ UNCHANGED work /\ UNCHANGED <<straddled, resets>>
    BY <1>10 DEF FindEmpty, InReset
  <2> QED
    BY <2>1, OutstandingUnchanged, CountedUnmoved DEF work
<1>11. CASE UNCHANGED <<work, straddled, resets>> /\ (InReset' <=> InReset)
  BY <1>11, OutstandingUnchanged, CountedUnmoved DEF work
<1> QED
  BY <1>2, <1>3, <1>4, <1>5, <1>6, <1>7, <1>8, <1>9, <1>10, <1>11
  DEF Next, Worker, Owner, FindAlgorithm, NotifyListener, BufferResult, EndSample, EscapeError,
      RegisterAlgorithm, JoinWorker, work, vars, InReset

\* Counted is an invariant of the manager.
LEMMA CountedInvariant == Spec => []Counted
<1>1. TypeInv /\ Ordered /\ Counted /\ [Next]_vars => Counted'
  BY CountedStep
<1> QED
  BY <1>1, CountedInit, TypeInvariant, OrderedInvariant, PTL DEF Spec

\* However often reset races with producers and worker, the pending count
\* never exceeds what is outstanding outside reset, and it falls short by no
\* more than the samples that were outstanding when reset recounted.
THEOREM ResetDriftIsBounded == Spec => []ResetDriftBounded
<1>1. TypeInv /\ Counted => ResetDriftBounded
  BY DEF Counted, InReset, ResetDriftBounded
<1> QED
  BY <1>1, TypeInvariant, CountedInvariant, PTL

\* Until a first reset _pending_count is exactly the number of samples whose
\* turn is not over, for any number of producers and whatever escapes from the
\* worker.
THEOREM CountIsExact == Spec => []CountExact
<1>1. TypeInv /\ Counted => CountExact
  <2> SUFFICES ASSUME TypeInv, Counted, resets = 0
               PROVE  pending = Cardinality(Outstanding)
    BY DEF CountExact
  <2>1. Cardinality(Outstanding) \in Nat /\ pending \in Nat
    BY FS_CardinalityType DEF TypeInv, TypeOK
  <2> QED
    BY <2>1 DEF Counted
<1> QED
  BY <1>1, TypeInvariant, CountedInvariant, PTL

-----------------------------------------------------------------------------
(* What a reset leaves of the results of the test before it.                *)

\* The samples whose results are in a buffer, and the one whose result may come
\* without another look at the registrations.
Buffered(s) == \E i \in DOMAIN results[s.address] : results[s.address][i] = s
Coming(s) == worker \in {"running", "routing"} /\ current = s
StaleLeft == {s \in Samples : Stale(s) /\ (Buffered(s) \/ s \in Outstanding)}

\* During a reset, only the sample that the worker had looked up before may still
\* be buffered.  Afterwards a stale result was outstanding at the recount, or is that
\* one; no later sample is stale.
StaleFew ==
    /\ \A p \in Producers : renewed[p] <= issued[p]
    /\ InReset => /\ algorithms = {}
                  /\ \A s, t \in Samples :
                        (Buffered(s) \/ Coming(s)) /\ (Buffered(t) \/ Coming(t)) => s = t
    /\ ~InReset => IsFiniteSet(StaleLeft) /\ Cardinality(StaleLeft) <= straddled + 1

\* A bounded buffer keeps nothing that was not put into it.
LEMMA KeptWasThere ==
    ASSUME NEW S, NEW s \in Seq(S), NEW max \in Nat \ {0}, NEW i \in DOMAIN KeepLast(s, max)
    PROVE  \E j \in DOMAIN s : s[j] = KeepLast(s, max)[i]
<1>1. CASE Len(s) <= max
  BY <1>1 DEF KeepLast
<1>2. CASE ~(Len(s) <= max)
  <2> DEFINE low == Len(s) - max + 1
  <2>1. Len(s) \in Nat /\ max \in Nat /\ low \in 1..Len(s) + 1 /\ DOMAIN s = 1..Len(s)
    BY <1>2
  <2>2. KeepLast(s, max) = SubSeq(s, low, Len(s))
    BY <1>2 DEF KeepLast
  <2>3. i \in 1..(Len(s) - low + 1) /\ SubSeq(s, low, Len(s))[i] = s[low + i - 1]
    BY <2>1, <2>2, SubSeqProperties
  <2>4. low + i - 1 \in 1..Len(s)
    BY <2>1, <2>3
  <2> QED
    BY <2>1, <2>2, <2>3, <2>4
<1> QED
  BY <1>1, <1>2

\* A step buffers only the result of the worker's sample.
LEMMA BufferedAfter ==
    ASSUME TypeInv, [Next]_vars, NEW s \in Samples, Buffered(s)'
    PROVE  Buffered(s) \/ (worker = "routing" /\ current = s)
<1>1. CASE results' = results
  BY <1>1 DEF Buffered
<1>2. CASE BufferResult
  <2>1. /\ current \in Samples /\ results \in [Addresses -> Seq(Samples)]
        /\ s.address \in Addresses /\ current.address \in Addresses
    BY <1>2, NotASample
       DEF TypeInv, TypeOK, WorkerHolds, Computing, BufferResult, Samples
  <2>2. CASE s.address # current.address
    BY <1>2, <2>1, <2>2 DEF BufferResult, Buffered
  <2>3. CASE s.address = current.address
    <3> DEFINE old == results[s.address]
    <3>1. old \in Seq(Samples) /\ Append(old, current) \in Seq(Samples)
      BY <2>1
    <3>2. results'[s.address] = KeepLast(Append(old, current), MaxResults)
      BY <1>2, <2>1, <2>3 DEF BufferResult
    <3>3. PICK i \in DOMAIN results'[s.address] : results'[s.address][i] = s
      BY DEF Buffered
    <3>4. \E j \in DOMAIN Append(old, current) : Append(old, current)[j] = s
      <4> DEFINE longer == Append(old, current)
      <4>1. longer \in Seq(Samples) /\ results'[s.address] = KeepLast(longer, MaxResults)
        BY <3>1, <3>2
      <4> HIDE DEF longer
      <4>2. i \in DOMAIN KeepLast(longer, MaxResults) /\ KeepLast(longer, MaxResults)[i] = s
        BY <3>3, <4>1
      <4>3. \E j \in DOMAIN longer : longer[j] = s
        BY <4>1, <4>2, KeptWasThere, BoundsAreNatural
      <4> QED
        BY <4>3 DEF longer
    <3>5. (\E j \in DOMAIN old : old[j] = s) \/ s = current
      BY <2>1, <3>1, <3>4, InAppend
    <3> QED
      BY <1>2, <3>5 DEF Buffered, BufferResult
  <2> QED
    BY <2>2, <2>3
<1>3. CASE BeginReset
  <2>1. results'[s.address] = << >>
    BY <1>3 DEF BeginReset, Samples
  <2> QED
    BY <2>1 DEF Buffered
<1> QED
  BY <1>1, <1>2, <1>3
  DEF Next, CountSample, PutSample, Worker, TakeSample, TakeToken, FindAlgorithm, NotifyListener,
      EndSample, EscapeError, FinishSample, Owner, RegisterAlgorithm, DrainOne, FindEmpty,
      Recount, RequestShutdown, JoinWorker, vars

\* Outside reset nothing becomes stale.
LEMMA StaleLeftShrinks ==
    ASSUME TypeInv, StaleFew, [Next]_vars, ~InReset, ~InReset'
    PROVE  StaleFew'
<1>1. /\ \A p \in Producers : issued[p] \in Nat /\ renewed[p] \in Nat /\ renewed[p] <= issued[p]
      /\ IsFiniteSet(StaleLeft) /\ Cardinality(StaleLeft) <= straddled + 1
  BY DEF StaleFew, TypeInv, TypeOK
<1>2. ~FindEmpty /\ ~Recount /\ ~BeginReset
  BY DEF InReset, FindEmpty, Recount, BeginReset
<1>3. renewed' = renewed /\ straddled' = straddled
  BY <1>2
  DEF Next, CountSample, PutSample, Worker, TakeSample, TakeToken, FindAlgorithm, NotifyListener,
      BufferResult, EndSample, EscapeError, FinishSample, Owner, RegisterAlgorithm, DrainOne,
      RequestShutdown, JoinWorker, vars
<1>4. \A p \in Producers : renewed[p] <= issued'[p]
  <2>1. ASSUME NEW p \in Producers, NEW a \in Addresses, CountSample(p, a)
        PROVE  \A q \in Producers : renewed[q] <= issued'[q]
    BY <1>1, <2>1 DEF CountSample, TypeInv, TypeOK
  <2>2. CASE issued' = issued
    BY <1>1, <2>2
  <2> QED
    BY <1>2, <2>1, <2>2
    DEF Next, PutSample, Worker, TakeSample, TakeToken, FindAlgorithm, NotifyListener,
        BufferResult, EndSample, EscapeError, FinishSample, Owner, RegisterAlgorithm, DrainOne,
        RequestShutdown, JoinWorker, vars
<1>5. ASSUME NEW s \in Samples, Stale(s), s \in Outstanding'
      PROVE  s \in Outstanding
  <2>1. ASSUME NEW p \in Producers, NEW a \in Addresses, CountSample(p, a)
        PROVE  s \in Outstanding
    <3>1. Outstanding' = Outstanding \cup {putting'[p]}
      BY <2>1, OutstandingAfterCount DEF TypeInv
    <3>2. putting'[p] = [by |-> p, n |-> issued[p] + 1, address |-> a]
      BY <2>1, CountedSample DEF TypeInv
    <3>3. s # putting'[p]
      BY <1>1, <1>5, <3>2 DEF Stale
    <3> QED
      BY <1>5, <3>1, <3>3
  <2>2. ASSUME NEW p \in Producers, PutSample(p)
        PROVE  s \in Outstanding
    BY <1>5, <2>2, OutstandingAfterPut DEF TypeInv
  <2>3. CASE TakeSample \/ TakeToken
    BY <1>5, <2>3, OutstandingAfterTake DEF TypeInv
  <2>4. CASE FinishSample
    BY <1>5, <2>4, OutstandingAfterFinish DEF TypeInv
  <2>5. CASE DrainOne
    BY <1>5, <2>5, OutstandingAfterDrain DEF TypeInv
  <2>6. CASE RequestShutdown
    BY <1>5, <2>6, OutstandingAfterShutdown DEF TypeInv
  <2>7. CASE UNCHANGED <<queue, putting, current>>
    BY <1>5, <2>7, OutstandingUnchanged
  <2> QED
    BY <2>1, <2>2, <2>3, <2>4, <2>5, <2>6, <2>7
    DEF Next, Worker, Owner, FindAlgorithm, NotifyListener, BufferResult, EndSample, EscapeError,
        RegisterAlgorithm, BeginReset, FindEmpty, Recount, JoinWorker, work, vars
<1>6. StaleLeft' \subseteq StaleLeft
  <2> SUFFICES ASSUME NEW s \in Samples, Stale(s), Buffered(s)' \/ s \in Outstanding'
               PROVE  Buffered(s) \/ s \in Outstanding
    BY <1>3 DEF StaleLeft, Stale
  <2>1. worker = "routing" /\ current = s => s \in Outstanding
    BY DEF Outstanding
  <2> QED
    BY <1>5, <2>1, BufferedAfter
<1>7. IsFiniteSet(StaleLeft') /\ Cardinality(StaleLeft') <= straddled' + 1
  <2>1. IsFiniteSet(StaleLeft') /\ Cardinality(StaleLeft') <= Cardinality(StaleLeft)
    BY <1>1, <1>6, FS_Subset
  <2>2. Cardinality(StaleLeft') \in Nat /\ Cardinality(StaleLeft) \in Nat /\ straddled \in Nat
    BY <1>1, <2>1, FS_CardinalityType DEF TypeInv, TypeOK
  <2> QED
    BY <1>1, <1>3, <2>1, <2>2
<1> QED
  BY <1>3, <1>4, <1>7 DEF StaleFew, InReset

\* While reset goes on, no further sample is looked up.
LEMMA StaleFewInReset ==
    ASSUME TypeInv, StaleFew, [Next]_vars, InReset'
    PROVE  StaleFew'
<1> DEFINE Alone == \A s, t \in Samples :
               (Buffered(s) \/ Coming(s)) /\ (Buffered(t) \/ Coming(t)) => s = t
<1>1. ~Recount
  BY DEF InReset, Recount
<1>2. \A p \in Producers : renewed'[p] <= issued'[p]
  <2>1. \A p \in Producers : /\ issued[p] \in Nat /\ renewed[p] \in Nat
                             /\ renewed[p] <= issued[p]
    BY DEF StaleFew, TypeInv, TypeOK
  <2>2. renewed' = renewed
    BY <1>1
    DEF Next, CountSample, PutSample, Worker, TakeSample, TakeToken, FindAlgorithm,
        NotifyListener, BufferResult, EndSample, EscapeError, FinishSample, Owner,
        RegisterAlgorithm, DrainOne, BeginReset, FindEmpty, RequestShutdown, JoinWorker, vars
  <2>3. ASSUME NEW p \in Producers, NEW a \in Addresses, CountSample(p, a)
        PROVE  \A q \in Producers : renewed[q] <= issued'[q]
    BY <2>1, <2>3 DEF CountSample, TypeInv, TypeOK
  <2>4. CASE issued' = issued
    BY <2>1, <2>2, <2>4
  <2> QED
    BY <1>1, <2>2, <2>3, <2>4
    DEF Next, PutSample, Worker, TakeSample, TakeToken, FindAlgorithm, NotifyListener,
        BufferResult, EndSample, EscapeError, FinishSample, Owner, RegisterAlgorithm, DrainOne,
        BeginReset, FindEmpty, RequestShutdown, JoinWorker, vars
<1>3. CASE BeginReset
  <2>1. \A s \in Samples : ~Buffered(s)'
    BY <1>3 DEF BeginReset, Buffered, Samples
  <2>2. algorithms' = {}
    BY <1>3 DEF BeginReset
  <2>3. Alone'
    BY <2>1 DEF Coming
  <2> QED
    BY <1>2, <2>2, <2>3 DEF StaleFew
<1>4. CASE ~BeginReset
  <2>1. InReset /\ algorithms' = algorithms
    BY <1>1, <1>4
    DEF InReset, Next, CountSample, PutSample, Worker, TakeSample, TakeToken, FindAlgorithm,
        NotifyListener, BufferResult, EndSample, EscapeError, FinishSample, Owner, work,
        RegisterAlgorithm, DrainOne, FindEmpty, RequestShutdown, JoinWorker, vars
  <2>2. algorithms = {} /\ Alone
    BY <2>1 DEF StaleFew
  <2>3. \A s \in Samples : Coming(s)' => Coming(s)
    BY <1>4, <2>2
    DEF Coming, Next, CountSample, PutSample, Worker, TakeSample, TakeToken, FindAlgorithm,
        NotifyListener, BufferResult, EndSample, EscapeError, FinishSample, Owner, work,
        RegisterAlgorithm, DrainOne, FindEmpty, Recount, RequestShutdown, JoinWorker, vars
  <2>4. \A s \in Samples : Buffered(s)' => Buffered(s) \/ Coming(s)
    BY BufferedAfter DEF Coming
  <2>5. Alone'
    BY <2>2, <2>3, <2>4
  <2> QED
    BY <1>2, <2>1, <2>2, <2>5 DEF StaleFew
<1> QED
  BY <1>3, <1>4

\* When reset ends, what is stale is outstanding, or the one result that came.
LEMMA StaleFewAfterReset ==
    ASSUME TypeInv, StaleFew, Recount
    PROVE  StaleFew'
<1>1. /\ InReset /\ ~InReset' /\ renewed' = issued /\ issued' = issued /\ results' = results
      /\ straddled' = straddled + Cardinality(Outstanding) /\ Outstanding' = Outstanding
  BY OutstandingUnchanged DEF Recount, InReset
<1>2. \A p \in Producers : renewed'[p] <= issued'[p]
  BY <1>1 DEF TypeInv, TypeOK
<1>3. \E x : StaleLeft' \subseteq Outstanding \cup {x}
  <2>1. \A s, t \in Samples : Buffered(s) /\ Buffered(t) => s = t
    BY <1>1 DEF StaleFew
  <2>2. \E x : \A s \in Samples : Buffered(s) => s = x
    BY <2>1
  <2> QED
    BY <1>1, <2>2 DEF StaleLeft, Buffered
<1>4. PICK x : StaleLeft' \subseteq Outstanding \cup {x}
  BY <1>3
<1>5. /\ IsFiniteSet(Outstanding) /\ Cardinality(Outstanding) \in Nat /\ straddled \in Nat
      /\ IsFiniteSet(Outstanding \cup {x})
      /\ Cardinality(Outstanding \cup {x}) <= Cardinality(Outstanding) + 1
      /\ Cardinality(Outstanding \cup {x}) \in Nat
  <2>1. IsFiniteSet(Outstanding) /\ straddled \in Nat
    BY DEF TypeInv, TypeOK
  <2>2. IsFiniteSet(Outstanding \cup {x}) /\ Cardinality(Outstanding) \in Nat
    BY <2>1, FS_AddElement, FS_CardinalityType
  <2>3. Cardinality(Outstanding \cup {x}) = IF x \in Outstanding THEN Cardinality(Outstanding)
                                            ELSE Cardinality(Outstanding) + 1
    BY <2>1, FS_AddElement
  <2> QED
    BY <2>1, <2>2, <2>3
<1>6. IsFiniteSet(StaleLeft') /\ Cardinality(StaleLeft') <= Cardinality(Outstanding \cup {x})
  BY <1>4, <1>5, FS_Subset
<1>7. Cardinality(StaleLeft') \in Nat
  BY <1>6, FS_CardinalityType
<1>8. Cardinality(StaleLeft') <= straddled' + 1
  BY <1>1, <1>5, <1>6, <1>7
<1> QED
  BY <1>1, <1>2, <1>6, <1>8 DEF StaleFew

\* At the start no result is stale.
LEMMA StaleFewInit == Init => StaleFew
<1> SUFFICES ASSUME Init PROVE StaleFew
  OBVIOUS
<1>1. \A s \in Samples : ~Stale(s)
  <2>1. \A s \in Samples : s.n \in 1..MaxSamples /\ s.by \in Producers
    BY DEF Samples
  <2> QED
    BY <2>1, BoundsAreNatural DEF Init, Stale
<1>2. StaleLeft = {}
  BY <1>1 DEF StaleLeft
<1>3. IsFiniteSet(StaleLeft) /\ Cardinality(StaleLeft) = 0
  BY <1>2, FS_EmptySet
<1> QED
  BY <1>3 DEF Init, StaleFew, InReset

\* StaleFew is an invariant of the manager.
LEMMA StaleFewInvariant == Spec => []StaleFew
<1>1. TypeInv /\ StaleFew /\ [Next]_vars => StaleFew'
  <2> SUFFICES ASSUME TypeInv, StaleFew, [Next]_vars
               PROVE  StaleFew'
    OBVIOUS
  <2>1. InReset /\ ~InReset' => Recount
    BY DEF InReset, Next, CountSample, PutSample, Worker, TakeSample, TakeToken, FindAlgorithm,
        NotifyListener, BufferResult, EndSample, EscapeError, FinishSample, Owner, work,
        RegisterAlgorithm, BeginReset, DrainOne, FindEmpty, RequestShutdown, JoinWorker, vars
  <2> QED
    BY <2>1, StaleLeftShrinks, StaleFewInReset, StaleFewAfterReset
<1> QED
  BY <1>1, StaleFewInit, TypeInvariant, PTL DEF Spec

\* After a reset the buffers hold no more results of the test before it than there
\* were samples outstanding when it recounted, and one.
THEOREM StaleResultsAreFew == Spec => []StaleResultsBounded
<1>1. ASSUME TypeInv, StaleFew
      PROVE  StaleResultsBounded
  <2> SUFFICES ASSUME ~InReset
               PROVE  Cardinality({s \in Samples : Stale(s) /\ resets > 0 /\ Buffered(s)})
                         <= straddled + 1
    BY DEF StaleResultsBounded, InReset, Buffered
  <2> DEFINE Late == {s \in Samples : Stale(s) /\ resets > 0 /\ Buffered(s)}
  <2>1. Late \subseteq StaleLeft
    BY DEF StaleLeft
  <2>2. IsFiniteSet(StaleLeft) /\ Cardinality(StaleLeft) <= straddled + 1
    BY <1>1 DEF StaleFew
  <2>3. IsFiniteSet(Late) /\ Cardinality(Late) <= Cardinality(StaleLeft)
    BY <2>1, <2>2, FS_Subset
  <2>4. Cardinality(Late) \in Nat /\ Cardinality(StaleLeft) \in Nat /\ straddled \in Nat
    BY <1>1, <2>2, <2>3, FS_CardinalityType DEF TypeInv, TypeOK
  <2> HIDE DEF Late
  <2>5. Cardinality(Late) <= straddled + 1
    BY <2>2, <2>3, <2>4
  <2> QED
    BY <2>5 DEF Late
<1> QED
  BY <1>1, TypeInvariant, StaleFewInvariant, PTL

-----------------------------------------------------------------------------
(* Without resets the manager implements WorkBarrier.                       *)

\* Nothing is open at the start.
LEMMA BarrierInit == Init => Barrier!Init
<1> SUFFICES ASSUME Init PROVE Outstanding = {} /\ idle = TRUE
  BY DEF Barrier!Init
<1> QED
  BY NotASample DEF Init, Outstanding, Queued

\* The count opens a sample, the end of its turn closes it, and no other step
\* shows.
LEMMA BarrierStep ==
    ASSUME resets = 0, resets' = 0, TypeInv, Ordered, Counted, [Next]_vars
    PROVE  [Barrier!Next]_<<Outstanding, idle>>
<1> USE DEF TypeInv
<1>1. /\ resets = 0 /\ ~InReset
      /\ Cardinality(Outstanding) \in Nat /\ IsFiniteSet(Outstanding)
      /\ pending = Cardinality(Outstanding)
      /\ idle <=> pending = 0
  BY FS_CardinalityType DEF TypeOK, Counted, IdleIffNonePending
<1>2. ASSUME NEW p \in Producers, NEW a \in Addresses, CountSample(p, a)
      PROVE  Barrier!Next
  <2>1. idle' = FALSE
    BY <1>2 DEF CountSample
  <2>2. Barrier!Open(putting'[p])
    BY <1>2, <2>1, CountedIsNew, OutstandingAfterCount DEF Barrier!Open
  <2> QED
    BY <1>2, <2>2, CountedIsNew DEF Barrier!Next
<1>3. CASE FinishSample
  <2>1. /\ current \in Outstanding /\ current # None /\ current.n \in Nat
        /\ current \in Samples
    BY <1>3, FinishCloses, BoundsAreNatural
    DEF WorkerHolds, Computing, FinishSample, Outstanding, Samples
  <2>2. Outstanding' = Outstanding \ {current}
    BY <1>3, FinishCloses
  <2>3. \A s \in Outstanding : s.by = current.by => current.n <= s.n
    BY <2>1, CurrentIsOldest, BoundsAreNatural DEF Outstanding, Samples
  <2>4. /\ Cardinality(Outstanding') = Cardinality(Outstanding) - 1
        /\ IsFiniteSet(Outstanding')
    BY <1>1, <2>1, <2>2, FS_RemoveElement
  <2>5. Outstanding' = {} <=> Cardinality(Outstanding') = 0
    BY <2>4, FS_EmptySet
  <2>6. Cardinality(Outstanding) # 0
    BY <1>1, <2>1, FS_EmptySet
  <2>7. CountDown = Cardinality(Outstanding')
    BY <1>1, <2>4, <2>6 DEF CountDown
  <2>8. idle = FALSE
    BY <1>1, <2>6 DEF TypeOK
  <2>9. idle' = IF CountDown = 0 THEN TRUE ELSE idle
    BY <1>3 DEF FinishSample, IdleAfter
  <2>10. idle' = (Outstanding' = {})
    BY <2>5, <2>7, <2>8, <2>9
  <2>11. Barrier!Close(current)
    BY <2>1, <2>2, <2>3, <2>10 DEF Barrier!Close
  <2> QED
    BY <2>1, <2>11 DEF Barrier!Next
<1>4. ASSUME NEW p \in Producers, PutSample(p)
      PROVE  UNCHANGED <<Outstanding, idle>>
  BY <1>4, OutstandingAfterPut DEF PutSample
<1>5. CASE TakeSample \/ TakeToken
  BY <1>5, OutstandingAfterTake DEF TakeSample, TakeToken
<1>6. CASE RequestShutdown
  BY <1>6, OutstandingAfterShutdown DEF RequestShutdown
<1>7. CASE BeginReset \/ DrainOne \/ FindEmpty \/ Recount
  BY <1>1, <1>7 DEF BeginReset, DrainOne, FindEmpty, Recount, InReset
<1>8. CASE UNCHANGED work
  BY <1>8, OutstandingUnchanged DEF work
<1> QED
  BY <1>2, <1>3, <1>4, <1>5, <1>6, <1>7, <1>8
  DEF Next, Worker, Owner, FindAlgorithm, NotifyListener, BufferResult, EndSample, EscapeError,
      RegisterAlgorithm, JoinWorker, work, vars

\* A manager that is never reset is a barrier over its samples: for any number
\* of producers, when the idle event is set every sample counted so far has
\* had its turn, and the turns of a producer's samples are in its order.
THEOREM ImplementsBarrier ==
    ASSUME MaxResets = 0
    PROVE  Spec => BarrierSpec
<1>1. TypeInv /\ Ordered /\ Counted /\ [Next]_vars
        => [Barrier!Next]_<<Outstanding, idle>>
  <2> SUFFICES ASSUME TypeInv, Ordered, Counted, [Next]_vars
               PROVE  [Barrier!Next]_<<Outstanding, idle>>
    OBVIOUS
  <2>1. Counted' /\ TypeOK'
    BY CountedStep, TypeOKStep
  <2>2. resets = 0 /\ resets' = 0
    BY <2>1 DEF Counted, TypeInv, TypeOK
  <2> QED
    BY <2>2, BarrierStep
<1> QED
  BY <1>1, BarrierInit, TypeInvariant, OrderedInvariant, CountedInvariant, PTL
  DEF Spec, BarrierSpec, Barrier!Spec, Barrier!vars

-----------------------------------------------------------------------------
(* The run is a behaviour of the manager.                                   *)

\* Every step of the run is a step of the manager or leaves it alone, and there is
\* no call of reset among them.
LEMMA ManagerStep ==
    ASSUME [HNext]_hvars
    PROVE  [Next]_vars /\ resets' = resets
<1>1. CASE UNCHANGED vars
  BY <1>1 DEF vars
<1>2. ASSUME NEW p \in Producers, EnterCallback(p) \/ Callback(p)
      PROVE  [Next]_vars /\ resets' = resets
  <2>1. CASE EnterCallback(p) \/ LoseSample(p)
    BY <1>1, <2>1 DEF EnterCallback, LoseSample
  <2>2. ASSUME NEW a \in Addresses, CaptureSample(p, a)
        PROVE  [Next]_vars /\ resets' = resets
    BY <2>2 DEF CaptureSample, CountSample, Next
  <2>3. CASE LeaveCallback(p)
    BY <2>3 DEF LeaveCallback, PutSample, Next
  <2> QED
    BY <1>2, <2>1, <2>2, <2>3 DEF Callback
<1>3. CASE HWorker
  <2>1. Worker
    BY <1>3 DEF HWorker, CaptureResult, FailSample, CaptureRecord, FailRecord, FinishTurn,
        Worker
  <2>2. resets' = resets
    BY <2>1 DEF Worker, TakeSample, TakeToken, FindAlgorithm, NotifyListener, BufferResult,
        EndSample, EscapeError, FinishSample
  <2> QED
    BY <2>1, <2>2 DEF Next
<1>4. CASE Runner
  <2>1. CASE \E a \in Addresses : RegisterSensor(a)
    BY <2>1 DEF RegisterSensor, RegisterAlgorithm, Next, Owner
  <2>2. CASE Shutdown \/ Join
    BY <2>2 DEF Shutdown, Join, RequestShutdown, JoinWorker, Next, Owner
  <2>3. CASE Connect \/ RegisterRaises \/ StartAll \/ StopAll \/ WaitUntilIdle \/ WakeUp
               \/ PassDeadline
    BY <1>1, <2>3 DEF Connect, RegisterRaises, StartAll, StopAll, WaitUntilIdle, WakeUp,
        PassDeadline
  <2>4. CASE DisconnectAll \/ DisconnectRaises \/ Consolidate \/ CloseFile \/ Report
    BY <1>1, <2>4 DEF DisconnectAll, DisconnectRaises, Consolidate, CloseFile, Report
  <2> QED
    BY <1>4, <2>1, <2>2, <2>3, <2>4 DEF Runner
<1> QED
  BY <1>1, <1>2, <1>3, <1>4 DEF HNext, hvars

\* A run of the harness is a run of its manager.
THEOREM ManagerRun == HSpec => Spec
<1>1. HInit => Init
  BY DEF HInit
<1>2. [HNext]_hvars => [Next]_vars
  BY ManagerStep
<1> QED
  BY <1>1, <1>2, PTL DEF HSpec, Spec

\* What is known of the manager, and that the run never resets it.
ManagerInv == TypeInv /\ Ordered /\ Counted /\ resets = 0

\* It holds throughout.
LEMMA ManagerInvariant == HSpec => []ManagerInv
<1>1. HInit => resets = 0
  BY DEF HInit, Init
<1>2. resets = 0 /\ [HNext]_hvars => (resets = 0)'
  BY ManagerStep
<1>3. HSpec => [](resets = 0)
  BY <1>1, <1>2, PTL DEF HSpec
<1> QED
  BY <1>3, ManagerRun, TypeInvariant, OrderedInvariant, CountedInvariant, PTL DEF ManagerInv

-----------------------------------------------------------------------------
(* The inductive invariant.                                                 *)

\* The manager is shut down and joined once, in that order, before the capture files
\* are closed.
Early == {"connecting", "registering", "streaming", "waiting", "awaiting"}
BeforeShutdown == Early \cup {"disconnecting", "consolidating", "finishing"}
OwnerOfRun ==
    /\ runner \in BeforeShutdown => owner = "ready"
    /\ runner = "joining" => owner = "joining"
    /\ runner \notin BeforeShutdown \cup {"joining"} => owner \in {"joined", "abandoned"}
    /\ runner \in Early => waited = "none"
    /\ sensorFile = "closed" \/ computeFile = "closed" =>
          runner \notin BeforeShutdown \cup {"joining"}

\* The worker stops at the token, and has stopped when a join succeeds.
WorkerEnds ==
    /\ worker = "stopped" => owner # "ready"
    /\ owner = "joined" => worker = "stopped"

\* The token is behind every sample that was queued before it.
TokenIsLast ==
    /\ owner = "ready" => \A i \in DOMAIN queue : queue[i] # ShutdownToken
    /\ \A s \in atShutdown : s.n <= issued[s.by]
    /\ \A p \in Producers : putting[p] \notin atShutdown
    /\ \A i, j \in DOMAIN queue :
          queue[i] \in atShutdown /\ queue[j] = ShutdownToken => i < j
    /\ worker = "stopped" => \A i \in DOMAIN queue : queue[i] \notin atShutdown

\* What is outstanding after the wait saw the manager idle was counted after.
SawIdle == waited = "idle" \/ woken
CountedLater ==
    /\ \A p \in Producers : atWait[p] <= issued[p]
    /\ woken => runner = "awaiting"
    /\ SawIdle => \A s \in Outstanding : atWait[s.by] < s.n

\* A result buffer has the results that the listener has heard of, up to its length,
\* but for the one that is still between the two.
Capped(n) == IF n <= MaxResults THEN n ELSE MaxResults
OnItsWay(a) == worker = "routing" /\ current.address = a
BuffersFollow ==
    \A a \in Addresses :
        /\ OnItsWay(a) => Cardinality(CapturedFrom(a)) > 0
        /\ Len(results[a]) = Capped(IF OnItsWay(a) THEN Cardinality(CapturedFrom(a)) - 1
                                                   ELSE Cardinality(CapturedFrom(a)))

HInv == /\ HTypeOK /\ OwnerOfRun /\ WorkerEnds /\ WorkerOutlivesNoFile /\ TokenIsLast
        /\ CountedLater /\ ConsolidationComplete /\ BuffersFollow /\ ReportMatchesCapture

-----------------------------------------------------------------------------
(* Who changes what.                                                        *)

\* Callbacks and worker leave the runner where it is, but for what wakes it.
LEMMA OthersLeaveRunner ==
    ASSUME HWorker \/ \E p \in Producers : EnterCallback(p) \/ Callback(p)
    PROVE  /\ UNCHANGED <<runner, owner, waited, sensorFile, computeFile, subscribed, outcome>>
           /\ ~FinishTurn => UNCHANGED wait
<1>1. CASE HWorker
  <2>1. CASE FinishTurn
    BY <2>1 DEF FinishTurn, FinishSample, files
  <2>2. CASE ~FinishTurn
    BY <1>1, <2>2 DEF HWorker, TakeSample, TakeToken, FindAlgorithm, BufferResult, EndSample,
        CaptureResult, NotifyListener, FailSample, EscapeError, CaptureRecord, FailRecord, harness,
        files, wait, outcome
  <2> QED
    BY <2>1, <2>2
<1>2. ASSUME NEW p \in Producers, EnterCallback(p) \/ Callback(p)
      PROVE  UNCHANGED <<runner, owner, waited, sensorFile, computeFile, subscribed, outcome, wait>>
  BY <1>2 DEF EnterCallback, Callback, CaptureSample, CountSample, LoseSample, LeaveCallback,
      PutSample, vars, files, wait
<1> QED
  BY <1>1, <1>2

\* The runner leaves the worker and the samples where they are, and queues the token.
LEMMA RunnerLeavesOthers ==
    ASSUME Runner
    PROVE  /\ UNCHANGED <<worker, current, putting, issued, emitted, pending, idle, results,
                          intermediate, inCallback>>
           /\ ~Shutdown => queue' = queue /\ atShutdown' = atShutdown
           /\ ~WaitUntilIdle /\ ~WakeUp /\ ~PassDeadline => UNCHANGED wait
           /\ ~Report => reported' = reported
           /\ ~Consolidate => consolidated' = consolidated
<1> USE DEF harness, vars, work, wait, outcome
<1>1. CASE Connect \/ RegisterRaises \/ StartAll \/ StopAll
  BY <1>1 DEF Connect, RegisterRaises, StartAll, StopAll
<1>2. CASE WaitUntilIdle \/ WakeUp \/ PassDeadline
  BY <1>2 DEF WaitUntilIdle, WakeUp, PassDeadline
<1>3. CASE DisconnectAll \/ DisconnectRaises \/ Consolidate
  BY <1>3 DEF DisconnectAll, DisconnectRaises, Consolidate
<1>4. CASE Shutdown \/ Join
  BY <1>4 DEF Shutdown, RequestShutdown, Join, JoinWorker
<1>5. CASE CloseFile \/ Report
  BY <1>5 DEF CloseFile, Report
<1>6. ASSUME NEW a \in Addresses, RegisterSensor(a) PROVE UNCHANGED
        <<worker, current, putting, issued, emitted, pending, idle, results, queue, harness>>
  BY <1>6 DEF RegisterSensor, RegisterAlgorithm
<1> QED
  BY <1>1, <1>2, <1>3, <1>4, <1>5, <1>6 DEF Runner

\* Callbacks leave the worker where it is.
LEMMA CallbackLeavesWorker ==
    ASSUME NEW p \in Producers, EnterCallback(p) \/ Callback(p)
    PROVE  UNCHANGED <<worker, current, emitted, results, intermediate>>
BY DEF EnterCallback, Callback, CaptureSample, CountSample, LoseSample, LeaveCallback,
   PutSample, vars

\* Nothing is under way at the start.
LEMMA HInvInit == HInit => HInv
<1> SUFFICES ASSUME HInit PROVE HInv
  OBVIOUS
<1>1. << >> \in Seq(Samples) /\ 0 \in 0..MaxSamples /\ DOMAIN << >> = {} /\ Len(<< >>) = 0
  BY BoundsAreNatural
<1>2. HTypeOK
  BY <1>1 DEF HInit, HTypeOK, RunnerStates
<1>3. OwnerOfRun /\ WorkerEnds /\ WorkerOutlivesNoFile /\ ReportMatchesCapture
      /\ ConsolidationComplete
  BY DEF HInit, Init, OwnerOfRun, Early, BeforeShutdown, WorkerEnds, WorkerOutlivesNoFile,
      ReportMatchesCapture, ConsolidationComplete
<1>4. TokenIsLast
  BY <1>1 DEF HInit, Init, TokenIsLast
<1>5. CountedLater
  BY DEF HInit, Init, CountedLater, SawIdle
<1>6. BuffersFollow
  <2> SUFFICES ASSUME NEW a \in Addresses
               PROVE  /\ ~OnItsWay(a)
                      /\ Len(results[a]) = Capped(Cardinality(CapturedFrom(a)))
    BY DEF BuffersFollow
  <2>1. CapturedFrom(a) = {}
    BY <1>1 DEF HInit, Init, CapturedFrom
  <2>2. Cardinality(CapturedFrom(a)) = 0
    BY <2>1, FS_EmptySet
  <2> QED
    BY <1>1, <2>2, BoundsAreNatural DEF HInit, Init, Capped, OnItsWay
<1> QED
  BY <1>2, <1>3, <1>4, <1>5, <1>6 DEF HInv

-----------------------------------------------------------------------------
(* Each part of the invariant is kept.                                      *)

\* The runner's variables keep their types.
LEMMA HTypeOKStep ==
    ASSUME ManagerInv, HTypeOK, [HNext]_hvars
    PROVE  HTypeOK'
<1> USE DEF ManagerInv, HTypeOK, wait, files, outcome
<1>1. ASSUME NEW p \in Producers, EnterCallback(p) \/ Callback(p)
      PROVE  HTypeOK'
  BY <1>1, OthersLeaveRunner, CallbackLeavesWorker
     DEF EnterCallback, Callback, CaptureSample, LoseSample, LeaveCallback
<1>2. CASE CaptureRecord \/ FailRecord
  <2>1. current \in Samples
    BY <1>2 DEF CaptureRecord, FailRecord, TypeInv, TypeOK, WorkerHolds, Computing
  <2>2. intermediate' \in Seq(Samples)
    <3>1. intermediate' = Append(intermediate, current)
      BY <1>2 DEF CaptureRecord, FailRecord
    <3>2. intermediate \in Seq(Samples)
      OBVIOUS
    <3> HIDE DEF HTypeOK
    <3> QED
      BY <2>1, <3>1, <3>2
  <2> QED
    BY <1>2, <2>2 DEF CaptureRecord, FailRecord
<1>3. CASE UNCHANGED harness
  BY <1>3 DEF harness
<1>4. CASE HWorker
  <2>1. CASE FinishTurn
    BY <2>1 DEF FinishTurn, TypeInv, TypeOK
  <2> QED
    BY <1>2, <1>3, <1>4, <2>1 DEF HWorker, CaptureResult, FailSample
<1>5. CASE Shutdown
  <2>1. atShutdown' \subseteq Samples
    BY <1>5, OutstandingSamples DEF Shutdown
  <2> QED
    BY <1>5, <2>1 DEF Shutdown, RunnerStates
<1>6. CASE WaitUntilIdle \/ WakeUp \/ PassDeadline
  <2>1. atWait' \in [Producers -> 0..MaxSamples]
    BY <1>6 DEF WaitUntilIdle, WakeUp, PassDeadline, TypeInv, TypeOK
  <2> QED
    BY <1>6, <2>1 DEF WaitUntilIdle, WakeUp, PassDeadline, RunnerStates
<1>7. CASE Report
  <2>1. \A a \in Addresses : Len(results[a]) \in Nat
    BY DEF TypeInv, TypeOK
  <2> QED
    BY <1>7, <2>1 DEF Report, RunnerStates
<1>8. CASE Consolidate
  BY <1>8 DEF Consolidate, RunnerStates
<1>9. ASSUME NEW a \in Addresses, RegisterSensor(a) PROVE HTypeOK'
  BY <1>3, <1>9 DEF RegisterSensor
<1>10. CASE Connect \/ RegisterRaises \/ StartAll \/ StopAll \/ DisconnectAll
            \/ DisconnectRaises \/ Join
  <2>1. CASE Connect \/ RegisterRaises
    BY <2>1 DEF Connect, RegisterRaises, RunnerStates
  <2>2. CASE StartAll \/ StopAll
    BY <2>2 DEF StartAll, StopAll, RunnerStates
  <2>3. CASE DisconnectAll \/ DisconnectRaises
    BY <2>3 DEF DisconnectAll, DisconnectRaises, RunnerStates
  <2>4. CASE Join
    BY <2>4 DEF Join, RunnerStates
  <2> QED
    BY <1>10, <2>1, <2>2, <2>3, <2>4
<1>11. CASE CloseFile
  BY <1>11 DEF CloseFile, RunnerStates
<1>12. CASE UNCHANGED hvars
  BY <1>3, <1>12 DEF hvars
<1> QED
  BY <1>1, <1>4, <1>5, <1>6, <1>7, <1>8, <1>9, <1>10, <1>11, <1>12 DEF HNext, Runner

\* The run shuts the manager down before it joins it, and joins it before it closes files.
LEMMA OwnerOfRunStep ==
    ASSUME HTypeOK, OwnerOfRun, [HNext]_hvars
    PROVE  OwnerOfRun'
<1> USE DEF OwnerOfRun, BeforeShutdown, Early, wait, files
<1>1. CASE UNCHANGED <<runner, owner, waited, sensorFile, computeFile>>
  BY <1>1
<1>2. CASE Connect \/ RegisterRaises \/ StartAll \/ StopAll \/ WaitUntilIdle \/ WakeUp
           \/ PassDeadline
  BY <1>2 DEF Connect, RegisterRaises, StartAll, StopAll, WaitUntilIdle, WakeUp, PassDeadline, vars
<1>9. CASE DisconnectAll \/ DisconnectRaises \/ Consolidate
  BY <1>9 DEF DisconnectAll, DisconnectRaises, Consolidate, vars
<1>3. CASE Shutdown \/ Join
  BY <1>3 DEF Shutdown, RequestShutdown, Join, JoinWorker
<1>4. CASE CloseFile
  BY <1>4 DEF CloseFile, vars
<1>5. CASE Report
  BY <1>5 DEF Report, vars
<1>6. ASSUME NEW a \in Addresses, RegisterSensor(a) PROVE OwnerOfRun'
  BY <1>1, <1>6 DEF RegisterSensor, RegisterAlgorithm, harness
<1>7. CASE UNCHANGED hvars
  BY <1>1, <1>7 DEF hvars, vars, harness
<1> QED
  BY <1>1, <1>2, <1>3, <1>4, <1>5, <1>6, <1>7, <1>9, OthersLeaveRunner DEF HNext, Runner

\* A worker that has stopped does nothing more.
LEMMA StoppedIsFinal ==
    ASSUME HWorker
    PROVE  worker \notin {"stopped", "dead"}
BY DEF HWorker, TakeSample, TakeToken, FindAlgorithm, BufferResult, EndSample, FinishTurn,
   FinishSample, CaptureResult, NotifyListener, FailSample, EscapeError, CaptureRecord, FailRecord

\* While a capture file is open the worker survives, so that a join that succeeds
\* finds it stopped by the token.
LEMMA WorkerEndsStep ==
    ASSUME ManagerInv, OwnerOfRun, WorkerEnds, WorkerOutlivesNoFile, TokenIsLast, [HNext]_hvars
    PROVE  WorkerEnds' /\ WorkerOutlivesNoFile'
<1> USE DEF WorkerEnds, WorkerOutlivesNoFile
<1>1. CASE UNCHANGED <<worker, owner>>
  BY <1>1
<1>2. ASSUME NEW p \in Producers, EnterCallback(p) \/ Callback(p)
      PROVE  UNCHANGED <<worker, owner>>
  BY <1>2, OthersLeaveRunner, CallbackLeavesWorker
<1>3. CASE HWorker
  <2>1. owner' = owner /\ owner # "joined"
    BY <1>3, OthersLeaveRunner, StoppedIsFinal
  <2>2. CASE TakeToken
    <3>1. 1 \in DOMAIN queue /\ queue[1] = ShutdownToken
      BY <2>2 DEF TakeToken, ManagerInv, TypeInv, TypeOK
    <3>2. owner # "ready"
      BY <3>1 DEF TokenIsLast
    <3> QED
      BY <2>1, <2>2, <3>2 DEF TakeToken
  <2>3. CASE FailSample \/ FailRecord
    <3>1. owner = "abandoned"
      <4>1. runner \notin BeforeShutdown \cup {"joining"}
        BY <2>3 DEF FailSample, FailRecord, OwnerOfRun
      <4> QED
        BY <2>1, <4>1 DEF OwnerOfRun
    <3> QED
      BY <2>1, <2>3, <3>1 DEF FailSample, FailRecord, EscapeError
  <2>4. CASE TakeSample \/ FindAlgorithm \/ BufferResult \/ EndSample \/ CaptureResult
             \/ CaptureRecord
    BY <2>1, <2>4 DEF TakeSample, FindAlgorithm, BufferResult, EndSample, CaptureResult,
        NotifyListener, CaptureRecord
  <2>5. CASE FinishTurn
    BY <2>1, <2>5 DEF FinishTurn, FinishSample
  <2> QED
    BY <1>3, <2>2, <2>3, <2>4, <2>5 DEF HWorker
<1>4. CASE Runner
  <2>1. worker' = worker
    BY <1>4, RunnerLeavesOthers
  <2>2. CASE Shutdown
    BY <2>1, <2>2 DEF Shutdown, RequestShutdown
  <2>3. CASE Join
    BY <2>1, <2>3 DEF Join, JoinWorker
  <2>4. CASE owner' = owner
    BY <2>1, <2>4
  <2>5. CASE ~Shutdown /\ ~Join
    BY <1>4, <2>4, <2>5 DEF Runner, Connect, RegisterSensor, RegisterAlgorithm, RegisterRaises,
        StartAll, StopAll, WaitUntilIdle, WakeUp, PassDeadline, DisconnectAll, DisconnectRaises,
        Consolidate, CloseFile, Report, vars
  <2> QED
    BY <2>2, <2>3, <2>5
<1>5. CASE UNCHANGED hvars
  BY <1>1, <1>5 DEF hvars, vars
<1> QED
  BY <1>1, <1>2, <1>3, <1>4, <1>5 DEF HNext

\* Nothing that was ahead of the token gets behind it.
LEMMA TokenIsLastStep ==
    ASSUME ManagerInv, HTypeOK, OwnerOfRun, WorkerEnds, TokenIsLast, [HNext]_hvars
    PROVE  TokenIsLast'
<1> USE DEF ManagerInv
<1>0. queue \in Seq(Samples \cup {ShutdownToken})
  BY DEF TypeInv, TypeOK
<1>1. CASE UNCHANGED <<queue, putting, issued, worker, owner, atShutdown>>
  BY <1>1 DEF TokenIsLast
<1>2. ASSUME NEW p \in Producers, EnterCallback(p) \/ LoseSample(p)
      PROVE  TokenIsLast'
  BY <1>1, <1>2 DEF EnterCallback, LoseSample, vars, outcome
<1>3. ASSUME NEW p \in Producers, NEW a \in Addresses, CaptureSample(p, a)
      PROVE  TokenIsLast'
  <2>1. /\ CountSample(p, a)
        /\ UNCHANGED <<queue, worker, owner, atShutdown>>
        /\ issued' = [issued EXCEPT ![p] = issued[p] + 1]
        /\ \A q \in Producers : q # p => putting'[q] = putting[q]
    BY <1>3 DEF CaptureSample, CountSample, TypeInv, TypeOK, outcome
  <2>2. /\ putting'[p] = [by |-> p, n |-> issued[p] + 1, address |-> a]
        /\ issued[p] \in Nat
    BY <2>1, CountedSample DEF TypeInv, TypeOK
  <2>3. \A s \in atShutdown : s.n \in Nat /\ s.by \in Producers
    BY BoundsAreNatural DEF HTypeOK, Samples
  <2>4. \A s \in atShutdown : s.n <= issued'[s.by]
    BY <2>1, <2>2, <2>3 DEF TokenIsLast, TypeInv, TypeOK
  <2>5. putting'[p] \notin atShutdown
    BY <2>2, <2>3 DEF TokenIsLast
  <2> QED
    BY <2>1, <2>4, <2>5 DEF TokenIsLast
<1>4. ASSUME NEW p \in Producers, LeaveCallback(p)
      PROVE  TokenIsLast'
  <2>1. /\ queue' = Append(queue, putting[p]) /\ putting[p] \in Samples
        /\ putting' = [putting EXCEPT ![p] = None]
        /\ UNCHANGED <<issued, worker, owner, atShutdown>>
    BY <1>4 DEF LeaveCallback, PutSample, TypeInv, TypeOK, outcome
  <2>2. \A q \in Producers : putting'[q] \notin atShutdown
    BY <2>1, NotASample DEF TokenIsLast, HTypeOK, TypeInv, TypeOK
  <2>3. putting[p] \notin atShutdown /\ putting[p] # ShutdownToken
    BY <2>1, NotASample DEF TokenIsLast
  <2>4. \A i \in DOMAIN queue' : \/ i \in DOMAIN queue /\ queue'[i] = queue[i]
                                 \/ queue'[i] = putting[p]
    BY <1>0, <2>1
  <2> QED
    BY <2>1, <2>2, <2>3, <2>4 DEF TokenIsLast
<1>5. CASE (TakeSample \/ TakeToken) /\ UNCHANGED harness
  <2>1. /\ queue # << >> /\ queue' = Tail(queue)
        /\ UNCHANGED <<putting, issued, owner, atShutdown>>
        /\ worker # "stopped"
    BY <1>5 DEF TakeSample, TakeToken, harness
  <2>2. \A i \in DOMAIN queue' : i \in Nat /\ i + 1 \in DOMAIN queue /\ queue'[i] = queue[i + 1]
    BY <1>0, <2>1
  <2>3. /\ owner' = "ready" => \A i \in DOMAIN queue' : queue'[i] # ShutdownToken
        /\ \A i, j \in DOMAIN queue' :
              queue'[i] \in atShutdown /\ queue'[j] = ShutdownToken => i < j
    BY <2>1, <2>2 DEF TokenIsLast
  <2>4. ASSUME worker' = "stopped", NEW i \in DOMAIN queue', queue'[i] \in atShutdown
        PROVE  FALSE
    <3>1. 1 \in DOMAIN queue /\ queue[1] = ShutdownToken
      BY <1>0, <1>5, <2>4 DEF TakeSample, TakeToken
    <3>2. i + 1 < 1 /\ i \in Nat
      BY <2>2, <2>4, <3>1 DEF TokenIsLast
    <3> QED
      BY <3>2
  <2> QED
    BY <2>1, <2>3, <2>4 DEF TokenIsLast
<1>6. CASE HWorker /\ ~TakeSample /\ ~TakeToken
  <2>1. UNCHANGED <<queue, putting, issued, owner, atShutdown>> /\ worker' # "stopped"
    BY <1>6 DEF HWorker, FindAlgorithm, BufferResult, EndSample, FinishTurn, FinishSample,
        CaptureResult, NotifyListener, FailSample, EscapeError, CaptureRecord, FailRecord, work,
        harness, outcome
  <2> QED
    BY <2>1 DEF TokenIsLast
<1>7. CASE Shutdown
  <2>1. /\ owner = "ready" /\ owner' = "joining" /\ queue' = Append(queue, ShutdownToken)
        /\ UNCHANGED <<putting, issued, worker>>
        /\ atShutdown' = {s \in Outstanding : \A p \in Producers : putting[p] # s}
    BY <1>7 DEF Shutdown, RequestShutdown
  <2>2. \A s \in atShutdown' : s \in Samples /\ s.n <= issued[s.by]
    BY <2>1, OutstandingIssued DEF TypeInv
  <2>3. worker # "stopped"
    BY <2>1 DEF WorkerEnds
  <2>4. PICK n \in Nat :
          /\ DOMAIN queue = 1..n /\ DOMAIN queue' = 1..(n + 1) /\ queue'[n + 1] = ShutdownToken
          /\ \A i \in 1..n : queue'[i] = queue[i]
    <3>1. Len(queue) \in Nat
      BY <1>0
    <3> QED
      BY <1>0, <2>1, <3>1
  <2>5. \A i \in 1..n : queue'[i] # ShutdownToken
    BY <2>1, <2>4 DEF TokenIsLast
  <2>6. ASSUME NEW i \in 1..(n + 1), NEW j \in 1..(n + 1),
               queue'[i] \in atShutdown', queue'[j] = ShutdownToken
        PROVE  i < j
    <3>1. j = n + 1
      BY <2>5, <2>6
    <3>2. i # n + 1
      BY <2>2, <2>4, <2>6, NotASample
    <3> QED
      BY <2>4, <3>1, <3>2
  <2> QED
    BY <2>1, <2>2, <2>3, <2>4, <2>6 DEF TokenIsLast
<1>8. CASE Runner /\ ~Shutdown
  <2>1. UNCHANGED <<queue, putting, issued, worker, atShutdown>>
    BY <1>8, RunnerLeavesOthers
  <2>2. owner' = "ready" => owner = "ready"
    BY <1>8 DEF Runner, Connect, RegisterSensor, RegisterAlgorithm, RegisterRaises, StartAll,
        StopAll, WaitUntilIdle, WakeUp, PassDeadline, DisconnectAll, DisconnectRaises, Consolidate,
        Join, JoinWorker, CloseFile, Report, vars
  <2> QED
    BY <2>1, <2>2 DEF TokenIsLast
<1>9. CASE UNCHANGED hvars
  BY <1>1, <1>9 DEF hvars, vars, harness
<1> QED
  BY <1>2, <1>3, <1>4, <1>5, <1>6, <1>7, <1>8, <1>9
  DEF HNext, Callback, HWorker, CaptureResult, FailSample, CaptureRecord, FailRecord,
      NotifyListener, EscapeError, EndSample, FinishTurn, FinishSample, TakeSample,
      TakeToken

\* Samples that are counted are new: their numbers come after those of atWait.
LEMMA CountedLaterStep ==
    ASSUME ManagerInv, ManagerInv', HTypeOK, OwnerOfRun, CountedLater, [HNext]_hvars
    PROVE  CountedLater'
<1> USE DEF ManagerInv, TypeInv
<1>1. ASSUME UNCHANGED <<issued, wait, runner>>, Outstanding' \subseteq Outstanding
      PROVE  CountedLater'
  BY <1>1 DEF CountedLater, SawIdle, wait
<1>2. ASSUME NEW p \in Producers, EnterCallback(p) \/ LoseSample(p)
      PROVE  CountedLater'
  BY <1>1, <1>2, OutstandingUnchanged DEF EnterCallback, LoseSample, vars
<1>3. ASSUME NEW p \in Producers, NEW a \in Addresses, CaptureSample(p, a)
      PROVE  CountedLater'
  <2>1. /\ CountSample(p, a) /\ UNCHANGED <<runner, waited, woken, atWait>>
        /\ issued' = [issued EXCEPT ![p] = issued[p] + 1]
        /\ issued \in [Producers -> 0..MaxSamples]
    BY <1>3 DEF CaptureSample, CountSample, TypeOK, wait
  <2>2. /\ putting'[p] = [by |-> p, n |-> issued[p] + 1, address |-> a]
        /\ Outstanding' = Outstanding \cup {putting'[p]}
    BY <2>1, CountedSample, OutstandingAfterCount
  <2>3. atWait \in [Producers -> 0..MaxSamples] /\ \A q \in Producers : atWait[q] <= issued[q]
    BY DEF HTypeOK, CountedLater
  <2>4. /\ \A q \in Producers : atWait[q] \in Nat /\ issued[q] \in Nat
        /\ issued'[p] = issued[p] + 1
        /\ \A q \in Producers : q # p => issued'[q] = issued[q]
    <3>1. \A q \in Producers : atWait[q] \in Nat
      BY DEF HTypeOK
    <3>2. \A q \in Producers : issued[q] \in Nat
      BY DEF TypeOK
    <3> QED
      BY <2>1, <3>1, <3>2
  <2>5. \A q \in Producers : atWait[q] <= issued'[q]
    BY <2>3, <2>4
  <2>6. putting'[p].by = p /\ putting'[p].n = issued[p] + 1
    BY <2>2
  <2>7. atWait[p] < putting'[p].n
    BY <2>3, <2>4, <2>6
  <2> QED
    BY <2>1, <2>2, <2>5, <2>6, <2>7 DEF CountedLater, SawIdle
<1>4. ASSUME NEW p \in Producers, LeaveCallback(p)
      PROVE  CountedLater'
  BY <1>1, <1>4, OutstandingAfterPut DEF LeaveCallback, PutSample
<1>10. idle => Outstanding = {}
  <2>1. Cardinality(Outstanding) \in Nat /\ IsFiniteSet(Outstanding)
    BY FS_CardinalityType
  <2>2. idle => Cardinality(Outstanding) <= 0
    BY DEF Counted, IdleIffNonePending
  <2> QED
    BY <2>1, <2>2, FS_EmptySet
<1>11. idle' => Outstanding' = {}
  <2>1. Cardinality(Outstanding') \in Nat /\ IsFiniteSet(Outstanding')
    BY FS_CardinalityType
  <2>2. idle' => Cardinality(Outstanding') <= 0
    BY DEF Counted, IdleIffNonePending
  <2> QED
    BY <2>1, <2>2, FS_EmptySet
<1>12. \A p \in Producers : issued[p] \in Nat
  BY DEF TypeOK
<1>5. CASE HWorker
  <2>1. UNCHANGED <<issued, runner, waited>>
    BY <1>5, OthersLeaveRunner DEF HWorker, TakeSample, TakeToken, FindAlgorithm, BufferResult,
        EndSample, FinishTurn, FinishSample, CaptureResult, NotifyListener, FailSample,
        EscapeError, CaptureRecord, FailRecord
  <2>2. CASE FinishTurn
    <3>1. Outstanding' \subseteq Outstanding
      BY <2>2, OutstandingAfterFinish DEF FinishTurn
    <3>2. CASE UNCHANGED <<woken, atWait>>
      BY <1>1, <2>1, <3>1, <3>2 DEF wait
    <3>3. CASE runner = "awaiting" /\ idle' /\ atWait' = issued
      BY <1>11, <1>12, <2>1, <3>3 DEF CountedLater
    <3> QED
      BY <2>2, <3>2, <3>3 DEF FinishTurn
  <2>3. CASE TakeSample \/ TakeToken
    BY <1>1, <1>5, <2>1, <2>2, <2>3, OthersLeaveRunner, OutstandingAfterTake
  <2>4. CASE UNCHANGED <<queue, putting, current>>
    BY <1>1, <1>5, <2>1, <2>2, <2>4, OthersLeaveRunner, OutstandingUnchanged
  <2> QED
    BY <1>5, <2>2, <2>3, <2>4 DEF HWorker, FindAlgorithm, BufferResult, EndSample,
        CaptureResult, NotifyListener, FailSample, EscapeError, CaptureRecord, FailRecord, work
<1>6. CASE WaitUntilIdle \/ WakeUp \/ PassDeadline
  <2>1. UNCHANGED <<issued, queue, putting, current, idle>>
    BY <1>6 DEF WaitUntilIdle, WakeUp, PassDeadline, vars, work
  <2>2. Outstanding' = Outstanding
    BY <2>1, OutstandingUnchanged
  <2>3. CASE WaitUntilIdle
    BY <1>10, <1>12, <2>1, <2>2, <2>3 DEF WaitUntilIdle, CountedLater, SawIdle, OwnerOfRun, Early
  <2>4. CASE WakeUp
    BY <2>1, <2>2, <2>4 DEF WakeUp, CountedLater, SawIdle
  <2>5. CASE PassDeadline
    BY <1>10, <1>12, <2>1, <2>2, <2>5 DEF PassDeadline, CountedLater, SawIdle
  <2> QED
    BY <1>6, <2>3, <2>4, <2>5
<1>13. CASE Runner /\ ~WaitUntilIdle /\ ~WakeUp /\ ~PassDeadline
  <2>1. UNCHANGED <<issued, putting, current, wait>>
    BY <1>13, RunnerLeavesOthers
  <2>2. Outstanding' = Outstanding
    <3>1. CASE Shutdown
      BY <3>1, OutstandingAfterShutdown DEF Shutdown, RequestShutdown
    <3>2. CASE ~Shutdown
      BY <1>13, <2>1, <3>2, RunnerLeavesOthers, OutstandingUnchanged
    <3> QED
      BY <3>1, <3>2
  <2>3. runner = "awaiting" => runner' = runner
    BY <1>13 DEF Runner, Connect, RegisterSensor, RegisterRaises, StartAll, StopAll, DisconnectAll,
       DisconnectRaises, Consolidate, Shutdown, Join, CloseFile, Report, harness
  <2> QED
    BY <2>1, <2>2, <2>3 DEF CountedLater, SawIdle, wait
<1>9. CASE UNCHANGED hvars
  BY <1>1, <1>9, OutstandingUnchanged DEF hvars, vars, harness, wait
<1> QED
  BY <1>2, <1>3, <1>4, <1>5, <1>6, <1>9, <1>13 DEF HNext, Callback

\* A record that comes after the consolidation is of a sample counted later.
LEMMA ConsolidationCompleteStep ==
    ASSUME ManagerInv, HTypeOK, OwnerOfRun, CountedLater, ConsolidationComplete, [HNext]_hvars
    PROVE  ConsolidationComplete'
<1> USE DEF ConsolidationComplete
<1>1. CASE UNCHANGED <<waited, leaving, runner, intermediate, atWait, consolidated>>
  BY <1>1 DEF Range
<1>2. CASE CaptureRecord \/ FailRecord
  <2>1. /\ intermediate' = Append(intermediate, current) /\ current # None
        /\ UNCHANGED <<waited, leaving, runner, atWait, consolidated>>
    BY <1>2 DEF CaptureRecord, FailRecord, wait, outcome, ManagerInv, TypeInv, WorkerHolds,
      Computing
  <2>2. current \in Outstanding /\ current.n \in Nat /\ current.by \in Producers
    BY <2>1, BoundsAreNatural DEF ManagerInv, TypeInv, TypeOK, Outstanding, Samples
  <2>3. \A s \in Range(intermediate') : s \in Range(intermediate) \/ s = current
    <3>1. intermediate \in Seq(Samples)
      BY DEF HTypeOK
    <3>2. \A i \in DOMAIN intermediate' :
            (i \in DOMAIN intermediate /\ intermediate'[i] = intermediate[i])
              \/ intermediate'[i] = current
      BY <2>1, <3>1
    <3> QED
      BY <3>2 DEF Range
  <2>4. waited = "idle" => ~(current.n <= atWait[current.by])
    <3>1. atWait[current.by] \in Nat
      BY <2>2 DEF HTypeOK
    <3> QED
      BY <2>2, <3>1 DEF CountedLater, SawIdle
  <2> QED
    BY <2>1, <2>3, <2>4
<1>3. CASE HWorker
  <2>1. CASE FinishTurn
    <3>1. UNCHANGED <<runner, waited, leaving, intermediate, consolidated>>
      BY <2>1 DEF FinishTurn, outcome
    <3>2. CASE UNCHANGED atWait
      BY <1>1, <3>1, <3>2
    <3>3. CASE runner = "awaiting"
      BY <3>1, <3>3
    <3> QED
      BY <2>1, <3>2, <3>3 DEF FinishTurn
  <2> QED
    BY <1>1, <1>2, <1>3, <2>1 DEF HWorker, CaptureResult, FailSample, harness
<1>4. ASSUME NEW p \in Producers, EnterCallback(p) \/ Callback(p)
      PROVE  ConsolidationComplete'
  BY <1>1, <1>4, OthersLeaveRunner, CallbackLeavesWorker
     DEF EnterCallback, Callback, CaptureSample, LoseSample, LeaveCallback, wait, outcome
<1>5. CASE Consolidate
  BY <1>5 DEF Consolidate, wait
<1>6. CASE Connect \/ RegisterRaises \/ StartAll \/ StopAll \/ WaitUntilIdle \/ WakeUp
           \/ PassDeadline
  BY <1>6 DEF Connect, RegisterRaises, StartAll, StopAll, WaitUntilIdle, WakeUp, PassDeadline
<1>10. CASE DisconnectAll \/ DisconnectRaises
  BY <1>10 DEF DisconnectAll, DisconnectRaises, outcome
<1>7. CASE Shutdown \/ Join \/ CloseFile \/ Report
  BY <1>7 DEF Shutdown, Join, CloseFile, Report, wait, outcome
<1>8. ASSUME NEW a \in Addresses, RegisterSensor(a) PROVE ConsolidationComplete'
  BY <1>1, <1>8 DEF RegisterSensor, harness
<1>9. CASE UNCHANGED hvars
  BY <1>1, <1>9 DEF hvars, harness
<1> QED
  BY <1>3, <1>4, <1>5, <1>6, <1>7, <1>8, <1>9, <1>10 DEF HNext, Runner

\* How the captured results of an address change with a new one.
LEMMA CapturedAfter ==
    ASSUME TypeOK, current \in Samples, NotifyListener, NEW a \in Addresses
    PROVE  /\ IsFiniteSet(CapturedFrom(a)) /\ Cardinality(CapturedFrom(a)) \in Nat
           /\ Cardinality(CapturedFrom(a)') =
                 IF current.address = a THEN Cardinality(CapturedFrom(a)) + 1
                                        ELSE Cardinality(CapturedFrom(a))
<1>1. emitted \in Seq(Samples) /\ emitted' = Append(emitted, current)
  BY DEF TypeOK, NotifyListener
<1>2. PICK n \in Nat :
        /\ DOMAIN emitted = 1..n /\ DOMAIN emitted' = 1..(n + 1) /\ emitted'[n + 1] = current
        /\ \A i \in 1..n : emitted'[i] = emitted[i]
  <2>1. Len(emitted) \in Nat
    BY <1>1
  <2> QED
    BY <1>1, <2>1
<1>3. CapturedFrom(a) \subseteq 1..n
  BY <1>2 DEF CapturedFrom
<1>4. IsFiniteSet(CapturedFrom(a))
  <2>1. IsFiniteSet(1..n)
    BY FS_Interval
  <2> QED
    BY <1>3, <2>1, FS_Subset
<1>5. CapturedFrom(a)' = IF current.address = a THEN CapturedFrom(a) \cup {n + 1}
                                                ELSE CapturedFrom(a)
  BY <1>2 DEF CapturedFrom
<1>6. n + 1 \notin CapturedFrom(a)
  BY <1>3
<1> QED
  BY <1>4, <1>5, <1>6, FS_AddElement, FS_CardinalityType

\* A buffer grows up to its length.
LEMMA KeepLastLen ==
    ASSUME NEW S, NEW s \in Seq(S), NEW e \in S
    PROVE  Len(KeepLast(Append(s, e), MaxResults)) =
               IF Len(s) < MaxResults THEN Len(s) + 1 ELSE MaxResults
<1>1. MaxResults \in Nat \ {0} /\ Len(s) \in Nat
  BY BoundsAreNatural
<1> DEFINE t == Append(s, e)
<1>2. t \in Seq(S) /\ Len(t) = Len(s) + 1
  OBVIOUS
<1> HIDE DEF t
<1>3. CASE Len(t) <= MaxResults
  BY <1>1, <1>2, <1>3 DEF KeepLast
<1>4. CASE Len(t) > MaxResults
  <2>1. Len(SubSeq(t, Len(t) - MaxResults + 1, Len(t))) = MaxResults
    BY <1>1, <1>2, <1>4
  <2> QED
    BY <1>1, <1>2, <1>4, <2>1 DEF KeepLast
<1> QED
  BY <1>1, <1>2, <1>3, <1>4 DEF t

\* The buffers follow the results that the listener has heard of.
LEMMA BuffersFollowStep ==
    ASSUME ManagerInv, BuffersFollow, [HNext]_hvars
    PROVE  BuffersFollow'
<1> USE DEF ManagerInv, TypeInv
<1>1. CASE UNCHANGED <<worker, current, emitted, results>>
  BY <1>1 DEF BuffersFollow, OnItsWay, CapturedFrom
<1>2. CASE worker' # "routing" /\ worker # "routing" /\ UNCHANGED <<emitted, results>>
  BY <1>2 DEF BuffersFollow, OnItsWay, CapturedFrom
<1>3. CASE NotifyListener
  <2>1. /\ current \in Samples /\ worker = "running" /\ worker' = "routing"
        /\ UNCHANGED <<current, results>>
    BY <1>3 DEF NotifyListener, WorkerHolds, Computing, TypeOK, work
  <2> SUFFICES ASSUME NEW a \in Addresses
               PROVE  /\ OnItsWay(a)' => Cardinality(CapturedFrom(a)') > 0
                      /\ Len(results[a]) = Capped(IF OnItsWay(a)'
                                                  THEN Cardinality(CapturedFrom(a)') - 1
                                                  ELSE Cardinality(CapturedFrom(a)'))
    BY <2>1 DEF BuffersFollow
  <2>2. OnItsWay(a)' <=> current.address = a
    BY <2>1 DEF OnItsWay
  <2>3. Len(results[a]) = Capped(Cardinality(CapturedFrom(a)))
    BY <2>1 DEF BuffersFollow, OnItsWay
  <2>4. /\ Cardinality(CapturedFrom(a)) \in Nat
        /\ Cardinality(CapturedFrom(a)') =
              IF current.address = a THEN Cardinality(CapturedFrom(a)) + 1
                                     ELSE Cardinality(CapturedFrom(a))
    BY <1>3, <2>1, CapturedAfter
  <2> QED
    BY <2>2, <2>3, <2>4
<1>4. CASE BufferResult
  <2>1. /\ current \in Samples /\ current.address \in Addresses
        /\ worker = "routing" /\ worker' = "buffered" /\ UNCHANGED <<current, emitted>>
        /\ results' = [results EXCEPT ![current.address] =
                          KeepLast(Append(results[current.address], current), MaxResults)]
        /\ results \in [Addresses -> Seq(Samples)]
    BY <1>4 DEF BufferResult, WorkerHolds, Computing, TypeOK, Samples, work
  <2> SUFFICES ASSUME NEW a \in Addresses
               PROVE  Len(results'[a]) = Capped(Cardinality(CapturedFrom(a)))
    BY <2>1 DEF BuffersFollow, OnItsWay, CapturedFrom
  <2>2. CASE current.address # a
    BY <2>1, <2>2 DEF BuffersFollow, OnItsWay
  <2>3. CASE current.address = a
    <3>1. IsFiniteSet(CapturedFrom(a))
      <4>1. CapturedFrom(a) \subseteq 1..Len(emitted) /\ Len(emitted) \in Nat
        BY DEF CapturedFrom, TypeOK
      <4>2. IsFiniteSet(1..Len(emitted))
        BY <4>1, FS_Interval
      <4> QED
        BY <4>1, <4>2, FS_Subset
    <3>2. PICK c \in Nat : c = Cardinality(CapturedFrom(a))
      BY <3>1, FS_CardinalityType
    <3>3. c > 0 /\ Len(results[a]) = Capped(c - 1)
      BY <2>1, <2>3, <3>2 DEF BuffersFollow, OnItsWay
    <3>4. Len(results'[a]) = IF Len(results[a]) < MaxResults THEN Len(results[a]) + 1
                                                             ELSE MaxResults
      BY <2>1, <2>3, KeepLastLen
    <3> QED
      BY <3>2, <3>3, <3>4, BoundsAreNatural DEF Capped
  <2> QED
    BY <2>2, <2>3
<1>5. CASE HWorker
  BY <1>1, <1>2, <1>3, <1>4, <1>5
     DEF HWorker, TakeSample, TakeToken, FindAlgorithm, EndSample, FinishTurn, FinishSample,
         CaptureResult, FailSample, EscapeError, CaptureRecord, FailRecord
<1>6. ASSUME NEW p \in Producers, EnterCallback(p) \/ Callback(p)
      PROVE  BuffersFollow'
  BY <1>1, <1>6, CallbackLeavesWorker
<1>7. CASE Runner
  BY <1>1, <1>7, RunnerLeavesOthers
<1>8. CASE UNCHANGED hvars
  BY <1>1, <1>8 DEF hvars, vars
<1> QED
  BY <1>5, <1>6, <1>7, <1>8 DEF HNext

\* The report counts the buffers after the last result.
LEMMA ReportMatchesCaptureStep ==
    ASSUME ManagerInv, OwnerOfRun, WorkerEnds, BuffersFollow, ReportMatchesCapture, [HNext]_hvars
    PROVE  ReportMatchesCapture'
<1>1. CASE UNCHANGED <<runner, owner, emitted, reported>>
  BY <1>1 DEF ReportMatchesCapture, CapturedFrom
<1>2. CASE runner' # "done"
  BY <1>2 DEF ReportMatchesCapture
<1>3. CASE owner' # "joined"
  BY <1>3 DEF ReportMatchesCapture
<1>4. CASE HWorker
  BY <1>3, <1>4, OthersLeaveRunner, StoppedIsFinal DEF WorkerEnds
<1>5. ASSUME NEW p \in Producers, EnterCallback(p) \/ Callback(p)
      PROVE  ReportMatchesCapture'
  BY <1>1, <1>5, OthersLeaveRunner, CallbackLeavesWorker DEF outcome
<1>6. CASE Report /\ owner' = "joined"
  <2>1. /\ owner = "joined" /\ emitted' = emitted
        /\ reported' = [a \in Addresses |-> Len(results[a])]
    BY <1>6 DEF Report, vars
  <2>2. \A a \in Addresses : ~OnItsWay(a)
    BY <2>1 DEF WorkerEnds, OnItsWay
  <2>3. \A a \in Addresses : reported'[a] = Capped(Cardinality(CapturedFrom(a)))
    BY <2>1, <2>2 DEF BuffersFollow
  <2> QED
    BY <2>1, <2>3 DEF ReportMatchesCapture, Capped, CapturedFrom
<1>7. CASE Runner /\ ~Report
  BY <1>2, <1>7 DEF Runner, Connect, RegisterSensor, RegisterRaises, StartAll, StopAll,
     WaitUntilIdle, WakeUp, PassDeadline, DisconnectAll, DisconnectRaises, Consolidate, Shutdown,
     Join, CloseFile, harness
<1>8. CASE UNCHANGED hvars
  BY <1>1, <1>8 DEF hvars, vars, harness
<1> QED
  BY <1>3, <1>4, <1>5, <1>6, <1>7, <1>8 DEF HNext

-----------------------------------------------------------------------------
(* What follows.                                                            *)

\* The invariant holds throughout.
LEMMA HInvInvariant == HSpec => []HInv
<1>1. ManagerInv /\ ManagerInv' /\ HInv /\ [HNext]_hvars => HInv'
  BY HTypeOKStep, OwnerOfRunStep, WorkerEndsStep, TokenIsLastStep, CountedLaterStep,
     ConsolidationCompleteStep, BuffersFollowStep, ReportMatchesCaptureStep DEF HInv
<1> QED
  BY <1>1, HInvInit, ManagerInvariant, PTL DEF HSpec

\* Every variable of the run keeps its type.
THEOREM RunTypeCorrect == HSpec => []HTypeOK
<1>1. HInv => HTypeOK
  BY DEF HInv
<1> QED
  BY <1>1, HInvInvariant, PTL

\* When shutdown's join succeeds, every sample queued before the token had its turn.
THEOREM JoinFlushes == HSpec => []ShutdownFlushes
<1>1. ManagerInv /\ HInv => ShutdownFlushes
  <2> SUFFICES ASSUME ManagerInv, HInv, owner = "joined", NEW s \in atShutdown, s \in Outstanding
               PROVE  FALSE
    BY DEF ShutdownFlushes
  <2>1. worker = "stopped" /\ current = None
    BY DEF HInv, WorkerEnds, ManagerInv, TypeInv, WorkerHolds, Computing
  <2>2. s \in Samples /\ (\A p \in Producers : putting[p] # s) /\ ~Queued(s)
    BY <2>1 DEF HInv, HTypeOK, TokenIsLast, Queued
  <2> QED
    BY <2>1, <2>2, NotASample DEF Outstanding
<1> QED
  BY <1>1, ManagerInvariant, HInvInvariant, PTL

\* A closed capture file kills the worker only after a join that gave up on it.
THEOREM WorkerNeedsFiles == HSpec => []WorkerOutlivesNoFile
<1>1. HInv => WorkerOutlivesNoFile
  BY DEF HInv
<1> QED
  BY <1>1, HInvInvariant, PTL

\* A True from wait_until_idle means that the consolidation gets every record of the
\* samples counted until then.
THEOREM IdleMeansComplete == HSpec => []ConsolidationComplete
<1>1. HInv => ConsolidationComplete
  BY DEF HInv
<1> QED
  BY <1>1, HInvInvariant, PTL

\* The printed counts agree with the captured results.
THEOREM ReportIsTrue == HSpec => []ReportMatchesCapture
<1>1. HInv => ReportMatchesCapture
  BY DEF HInv
<1> QED
  BY <1>1, HInvInvariant, PTL

\* The run never resets its manager, so that wait_until_idle is a barrier in it.
THEOREM RunIsBarrier == HSpec => BarrierSpec
<1>1. ManagerInv /\ [HNext]_hvars => [Barrier!Next]_<<Outstanding, idle>>
  BY ManagerStep, BarrierStep DEF ManagerInv
<1>2. HInit => Barrier!Init
  BY BarrierInit DEF HInit
<1> QED
  BY <1>1, <1>2, ManagerInvariant, PTL DEF HSpec, BarrierSpec, Barrier!Spec, Barrier!vars

-----------------------------------------------------------------------------
(* The plugin environments: the inductive invariant.                        *)

\* prepare_plugin_venv works on the .venv of p.
PrepareSteps == {"venv", "tools", "sdk", "plugin"}
Preparing(p) == step \in PrepareSteps /\ Plugin = p

\* Each step belongs to a command and, but for the launch, to a target.
StepOfCommand ==
    /\ command = "none" <=> step = "none"
    /\ command = "none" => targets = << >>
    /\ step = "launch" <=> command # "none" /\ at = Len(targets) + 1
    /\ step \in PrepareSteps => command \in {"init", "refresh"} /\ ~Here.bundle
    /\ step = "check" => command = "test"
    /\ step = "write" => command = "init" /\ ~Here.bundle
    /\ command = "init" => Len(targets) = 1
    /\ step = "unpack" => Here.bundle

\* pip installs the tools, then the SDK, then the plugin.
InstallOrder ==
    /\ step = "sdk" => "tools" \in has[Plugin]
    /\ step = "plugin" => Wanted \ {"plugin"} \subseteq has[Plugin]

\* A .venv has all its parts unless its last preparation was cut off or is
\* under way, or it was changed by hand since.
Accounted(p) == Wanted \subseteq has[p] \/ p \in cut \cup by_hand
VenvsAccounted ==
    \A p \in Plugins : venv[p] # "none" => Accounted(p) \/ Preparing(p)

\* The targets that a test is done with have what they need: after a refresh
\* all of it.
Passed(i) == i < at \/ (i = at /\ step = "next")
TargetsServed ==
    \A i \in DOMAIN targets : Passed(i) /\ ~targets[i].bundle =>
        /\ command = "test" => Accounted(targets[i].plugin)
        /\ command = "refresh" => Wanted \subseteq has[targets[i].plugin]

EnvInv == /\ ETypeOK
        /\ StepOfCommand /\ InstallOrder /\ VenvsAccounted /\ TargetsServed
        /\ HarnessEnvIsReady

-----------------------------------------------------------------------------
(* Helpers.                                                                 *)

\* A step other than the launch has a target, and its plugin.
LEMMA StepHasTarget ==
    ASSUME ETypeOK, StepOfCommand, step \notin {"none", "launch"}
    PROVE  /\ at \in 1..Len(targets) /\ Len(targets) \in Nat
           /\ DOMAIN targets = 1..Len(targets)
           /\ Here \in Targets /\ Plugin \in Plugins /\ Here.bundle \in BOOLEAN
<1>1. Len(targets) \in Nat /\ DOMAIN targets = 1..Len(targets)
  BY DEF ETypeOK
<1>2. at \in 1..Len(targets)
  BY <1>1 DEF ETypeOK, StepOfCommand
<1>3. targets[at] \in Targets
  BY <1>1, <1>2 DEF ETypeOK
<1> QED
  BY <1>1, <1>2, <1>3 DEF Here, Plugin, Targets

\* A test has one target or two.
LEMMA TestTargets ==
    ASSUME NEW ts \in Tests
    PROVE  ts \in Seq(Targets) /\ Len(ts) \in {1, 2} /\ ts[1] \in Targets
<1>1. CASE \E t \in Targets : ts = <<t>>
  BY <1>1
<1>2. CASE ts \in Targets \X Targets
  <2>1. PICK t \in Targets, u \in Targets : ts = <<t, u>>
    BY <1>2
  <2> QED
    BY <2>1
<1> QED
  BY <1>1, <1>2 DEF Tests

\* The invariant holds before the first command.
LEMMA EnvInvInit == EInit => EnvInv
<1> SUFFICES ASSUME EInit PROVE EnvInv
  OBVIOUS
<1>1. << >> \in Seq(Targets) /\ Len(<< >>) = 0
  OBVIOUS
<1>2. ETypeOK
  BY <1>1, CommandBound DEF EInit, ETypeOK
<1>3. StepOfCommand /\ InstallOrder /\ VenvsAccounted
  BY <1>1 DEF EInit, StepOfCommand, InstallOrder, VenvsAccounted, PrepareSteps
<1>4. TargetsServed /\ HarnessEnvIsReady
  BY DEF EInit, TargetsServed, HarnessEnvIsReady
<1> QED
  BY <1>2, <1>3, <1>4 DEF EnvInv

-----------------------------------------------------------------------------
(* Each part of the invariant is kept.                                      *)

\* Every variable keeps its type.
LEMMA EnvTypeOKStep ==
    ASSUME ETypeOK, StepOfCommand, [ENext]_evars
    PROVE  ETypeOK'
<1> USE DEF ETypeOK, disk, run, doubts
<1>1. ASSUME NEW p \in Plugins, RemoveVenv(p)
      PROVE  ETypeOK'
  BY <1>1 DEF RemoveVenv
<1>2. ASSUME NEW p \in Plugins, NEW force \in BOOLEAN, StartInit(p, force)
      PROVE  ETypeOK'
  <2>1. /\ <<[plugin |-> p, bundle |-> FALSE]>> \in Seq(Targets)
        /\ Len(<<[plugin |-> p, bundle |-> FALSE]>>) = 1
    BY DEF Targets
  <2> QED
    BY <1>2, <2>1, CommandBound DEF StartInit, Begin
<1>3. ASSUME NEW ts \in Tests, NEW refresh \in BOOLEAN, StartTest(ts, refresh)
      PROVE  ETypeOK'
  BY <1>3, TestTargets, CommandBound DEF StartTest, Begin
<1>4. ASSUME NEW package \in Packages, Install(package)
      PROVE  ETypeOK'
  <2>1. Plugin \in Plugins
    BY <1>4, StepHasTarget DEF Install, Packages
  <2>2. has' \in [Plugins -> SUBSET Packages]
    BY <1>4, <2>1 DEF Install
  <2>3. step' \in Packages \cup {"next"} /\ cut' \subseteq Plugins
    BY <1>4 DEF Install, Packages
  <2> QED
    BY <1>4, <2>2, <2>3 DEF Install
<1>5. CASE WriteFiles \/ CreateVenv
  <2>1. Plugin \in Plugins
    BY <1>5, StepHasTarget DEF WriteFiles, CreateVenv
  <2>2. CASE WriteFiles
    BY <2>1, <2>2 DEF WriteFiles
  <2>3. CASE CreateVenv
    BY <2>1, <2>3 DEF CreateVenv, Packages
  <2> QED
    BY <1>5, <2>2, <2>3
<1>6. CASE NextTarget
  <2>1. at + 1 \in 1..(Len(targets) + 1)
    BY <1>6, StepHasTarget DEF NextTarget
  <2> QED
    BY <1>6, <2>1 DEF NextTarget, Advance
<1>7. CASE Check \/ Unpack
  BY <1>7 DEF Check, Unpack
<1>8. ASSUME End PROVE /\ command' = "none" /\ step' = "none"
                       /\ targets' \in Seq(Targets) /\ at' \in 1..(Len(targets') + 1)
  <2>1. << >> \in Seq(Targets) /\ Len(<< >>) = 0
    OBVIOUS
  <2> QED
    BY <1>8, <2>1 DEF End
<1>9. CASE Launch
  <2>1. launches' \subseteq [target : Targets, refreshed : BOOLEAN, ready : BOOLEAN,
                             doubtful : BOOLEAN]
    <3>1. CASE launches' = launches
      BY <3>1
    <3>2. CASE launches' # launches
      <4>1. \A i \in DOMAIN targets : targets[i] \in Targets
        OBVIOUS
      <4>2. launches' = {[target |-> t, refreshed |-> command = "refresh",
                          ready |-> t.bundle \/ Wanted \subseteq has[t.plugin],
                          doubtful |-> t.plugin \in cut \cup by_hand] :
                             t \in {targets[i] : i \in DOMAIN targets}}
        BY <1>9, <3>2 DEF Launch
      <4>3. ASSUME NEW l \in launches'
            PROVE  l \in [target : Targets, refreshed : BOOLEAN, ready : BOOLEAN,
                          doubtful : BOOLEAN]
        <5>1. PICK i \in DOMAIN targets :
                l = [target |-> targets[i], refreshed |-> command = "refresh",
                     ready |-> targets[i].bundle \/ Wanted \subseteq has[targets[i].plugin],
                     doubtful |-> targets[i].plugin \in cut \cup by_hand]
          BY <4>2
        <5>2. (targets[i].bundle \/ Wanted \subseteq has[targets[i].plugin]) \in BOOLEAN
          OBVIOUS
        <5> QED
          BY <4>1, <5>1, <5>2
      <4> QED
        BY <4>3
    <3> QED
      BY <3>1, <3>2
  <2> QED
    BY <1>8, <1>9, <2>1 DEF Launch
<1>10. CASE CutOff
  <2>1. step \in {"write", "venv"} \cup Packages => Plugin \in Plugins
    BY StepHasTarget DEF Packages
  <2>2. cut' \subseteq Plugins
    BY <1>10, <2>1 DEF CutOff
  <2>3. venv' \in [Plugins -> {"none", "partial", "no_pip", "whole"}]
    BY <1>10, <2>1 DEF CutOff
  <2>4. has' \in [Plugins -> SUBSET Packages]
    <3>1. CASE has' = has
      BY <3>1
    <3>2. CASE step \in Packages /\ has' = [has EXCEPT ![Plugin] = @ \ {step}]
      BY <2>1, <3>2
    <3> QED
      BY <1>10, <3>1, <3>2 DEF CutOff
  <2> QED
    BY <1>8, <1>10, <2>2, <2>3, <2>4 DEF CutOff
<1>11. ASSUME NEW p \in Plugins, NEW v \in {"partial", "no_pip", "whole"},
              NEW packages \in SUBSET Packages, ChangeByHand(p, v, packages)
       PROVE  ETypeOK'
  BY <1>11, CommandBound DEF ChangeByHand
<1>12. CASE UNCHANGED evars
  BY <1>12 DEF evars
<1> QED
  BY <1>1, <1>2, <1>3, <1>4, <1>5, <1>6, <1>7, <1>9, <1>10, <1>11, <1>12 DEF ENext

\* A command goes from step to step, one target after the other.
LEMMA StepOfCommandStep ==
    ASSUME ETypeOK, StepOfCommand, [ENext]_evars
    PROVE  StepOfCommand'
<1> USE DEF StepOfCommand, PrepareSteps, disk, run, doubts
<1>1. ASSUME NEW p \in Plugins, RemoveVenv(p)
      PROVE  StepOfCommand'
  BY <1>1 DEF RemoveVenv, Here
<1>2. ASSUME NEW p \in Plugins, NEW force \in BOOLEAN, StartInit(p, force)
      PROVE  StepOfCommand'
  <2>1. /\ command' = "init" /\ step' = "write" /\ at' = 1
        /\ targets' = <<[plugin |-> p, bundle |-> FALSE]>>
    BY <1>2 DEF StartInit, Begin
  <2>2. Len(targets') = 1 /\ ~Here'.bundle
    BY <2>1 DEF Here
  <2> QED
    BY <2>1, <2>2
<1>3. ASSUME NEW ts \in Tests, NEW refresh \in BOOLEAN, StartTest(ts, refresh)
      PROVE  StepOfCommand'
  <2>1. /\ command' = IF refresh THEN "refresh" ELSE "test"
        /\ targets' = ts /\ at' = 1 /\ Here' = ts[1]
        /\ step' = IF ts[1].bundle THEN "unpack" ELSE IF refresh THEN "venv" ELSE "check"
    BY <1>3 DEF StartTest, Begin, Here
  <2>2. at' # Len(targets') + 1 /\ ts[1].bundle \in BOOLEAN
    BY <2>1, TestTargets DEF Targets
  <2>3. CASE ts[1].bundle
    BY <2>1, <2>2, <2>3
  <2>4. CASE ~ts[1].bundle /\ refresh
    BY <2>1, <2>2, <2>4
  <2>5. CASE ~ts[1].bundle /\ ~refresh
    BY <2>1, <2>2, <2>5
  <2> QED
    BY <2>3, <2>4, <2>5
<1>4. ASSUME NEW package \in Packages, Install(package)
      PROVE  StepOfCommand'
  <2>1. /\ step \in PrepareSteps /\ step' \in {"sdk", "plugin", "next"}
        /\ UNCHANGED <<command, targets, at>>
    BY <1>4 DEF Install, Packages
  <2> QED
    BY <2>1 DEF Here
<1>5. CASE WriteFiles
  <2>1. /\ command = "init" /\ step = "write" /\ step' \in {"write", "venv"}
        /\ UNCHANGED <<command, targets, at>>
    BY <1>5 DEF WriteFiles
  <2> QED
    BY <2>1 DEF Here
<1>6. CASE CreateVenv
  <2>1. /\ step = "venv" /\ step' = "tools"
        /\ UNCHANGED <<command, targets, at>>
    BY <1>6 DEF CreateVenv
  <2> QED
    BY <2>1 DEF Here
<1>7. CASE NextTarget
  <2>1. /\ step = "next" /\ at' = at + 1 /\ UNCHANGED <<command, targets>>
        /\ step' = IF at' > Len(targets) THEN "launch"
                   ELSE IF targets[at'].bundle THEN "unpack"
                   ELSE IF command = "refresh" THEN "venv" ELSE "check"
    BY <1>7 DEF NextTarget, Advance
  <2>2. at \in 1..Len(targets) /\ Len(targets) \in Nat
    BY <2>1, StepHasTarget
  <2>3. command \in {"init", "test", "refresh"}
    BY <2>1 DEF ETypeOK
  <2>4. at' > Len(targets) <=> at' = Len(targets) + 1
    BY <2>1, <2>2
  <2>5. at' <= Len(targets) => command # "init"
    BY <2>1, <2>2
  <2>6. CASE at' > Len(targets)
    BY <2>1, <2>3, <2>4, <2>6
  <2>7. CASE ~(at' > Len(targets))
    <3>1. command \in {"test", "refresh"} /\ Here' = targets[at'] /\ targets[at'] \in Targets
      BY <2>1, <2>2, <2>3, <2>5, <2>7 DEF Here, ETypeOK
    <3>2. targets[at'].bundle \in BOOLEAN
      BY <3>1 DEF Targets
    <3> QED
      BY <2>1, <2>4, <2>7, <3>1, <3>2
  <2> QED
    BY <2>6, <2>7
<1>8. CASE Check \/ Unpack
  <2>1. step \in {"check", "unpack"} /\ step' = "next" /\ UNCHANGED <<command, targets, at>>
    BY <1>8 DEF Check, Unpack
  <2> QED
    BY <2>1
<1>9. CASE Launch \/ CutOff
  <2>1. command' = "none" /\ step' = "none" /\ targets' = << >>
    BY <1>9 DEF Launch, CutOff, End
  <2> QED
    BY <2>1
<1>10. ASSUME NEW p \in Plugins, NEW v \in {"partial", "no_pip", "whole"},
              NEW packages \in SUBSET Packages, ChangeByHand(p, v, packages)
       PROVE  StepOfCommand'
  BY <1>10 DEF ChangeByHand, Here
<1>11. CASE UNCHANGED evars
  BY <1>11 DEF evars, Here
<1> QED
  BY <1>1, <1>2, <1>3, <1>4, <1>5, <1>6, <1>7, <1>8, <1>9, <1>10, <1>11 DEF ENext

\* Whether the SDK's source is found does not change.
LEMMA SourceStays ==
    ASSUME [ENext]_evars
    PROVE  sdk_root' = sdk_root /\ Wanted' = Wanted
<1>1. CASE \E p \in Plugins : RemoveVenv(p) \/ \E force \in BOOLEAN : StartInit(p, force)
  BY <1>1 DEF RemoveVenv, StartInit, Wanted
<1>2. CASE \E ts \in Tests, refresh \in BOOLEAN : StartTest(ts, refresh)
  BY <1>2 DEF StartTest, Wanted
<1>3. CASE \E package \in Packages : Install(package)
  BY <1>3 DEF Install, Wanted
<1>4. CASE WriteFiles \/ CreateVenv \/ NextTarget \/ Check \/ Unpack \/ Launch \/ CutOff
  BY <1>4 DEF WriteFiles, CreateVenv, NextTarget, Check, Unpack, Launch, CutOff, Wanted
<1>5. ASSUME NEW p \in Plugins, NEW v \in {"partial", "no_pip", "whole"},
             NEW packages \in SUBSET Packages, ChangeByHand(p, v, packages)
      PROVE  sdk_root' = sdk_root /\ Wanted' = Wanted
  BY <1>5 DEF ChangeByHand, Wanted
<1>6. CASE UNCHANGED evars
  BY <1>6 DEF evars, Wanted
<1> QED
  BY <1>1, <1>2, <1>3, <1>4, <1>5, <1>6 DEF ENext

\* pip installs one package after the other.
LEMMA InstallOrderStep ==
    ASSUME ETypeOK, StepOfCommand, InstallOrder, [ENext]_evars
    PROVE  InstallOrder'
<1> USE DEF InstallOrder, disk, run, doubts
<1>1. ASSUME NEW package \in Packages, Install(package)
      PROVE  InstallOrder'
  <2>1. Plugin \in Plugins /\ Plugin' = Plugin /\ Wanted' = Wanted
    BY <1>1, StepHasTarget DEF Install, Packages, Plugin, Here, Wanted
  <2>2. has'[Plugin] = has[Plugin] \cup {package}
    BY <1>1, <2>1 DEF Install, ETypeOK
  <2>3. step' = "sdk" => package = "tools"
    BY <1>1 DEF Install, Packages
  <2>4. step' = "plugin" => package = "sdk" \/ (package = "tools" /\ ~sdk_root)
    BY <1>1 DEF Install, Packages, ETypeOK
  <2>5. package = "sdk" => "tools" \in has[Plugin]
    BY <1>1 DEF Install
  <2> QED
    BY <2>1, <2>2, <2>3, <2>4, <2>5 DEF Wanted, Packages
<1>2. CASE step' \notin {"sdk", "plugin"}
  BY <1>2
<1>3. CASE UNCHANGED evars
  BY <1>3 DEF evars, Plugin, Here, Wanted
<1>4. ASSUME NEW p \in Plugins, RemoveVenv(p) \/ \E force \in BOOLEAN : StartInit(p, force)
      PROVE  step' \notin {"sdk", "plugin"}
  <2>1. CASE RemoveVenv(p)
    BY <2>1 DEF RemoveVenv, StepOfCommand
  <2>2. CASE \E force \in BOOLEAN : StartInit(p, force)
    BY <2>2 DEF StartInit
  <2> QED
    BY <1>4, <2>1, <2>2
<1>5. CASE \E ts \in Tests, refresh \in BOOLEAN : StartTest(ts, refresh)
  BY <1>2, <1>5 DEF StartTest
<1>6. CASE WriteFiles \/ CreateVenv \/ Check \/ Unpack \/ Launch \/ CutOff
  BY <1>2, <1>6 DEF WriteFiles, CreateVenv, Check, Unpack, Launch, CutOff, End
<1>7. CASE NextTarget
  BY <1>2, <1>7 DEF NextTarget, Advance
<1>8. ASSUME NEW p \in Plugins, NEW v \in {"partial", "no_pip", "whole"},
             NEW packages \in SUBSET Packages, ChangeByHand(p, v, packages)
      PROVE  step' \notin {"sdk", "plugin"}
  BY <1>8 DEF ChangeByHand, StepOfCommand
<1> QED
  BY <1>1, <1>2, <1>3, <1>4, <1>5, <1>6, <1>7, <1>8 DEF ENext

\* A .venv lacks a part only while it is prepared or after that was cut off.
LEMMA VenvsAccountedStep ==
    ASSUME ETypeOK, StepOfCommand, InstallOrder, VenvsAccounted, [ENext]_evars
    PROVE  VenvsAccounted'
<1> USE DEF VenvsAccounted, disk, run, doubts
<1>0. Wanted' = Wanted
  BY SourceStays
<1>1. ASSUME NEW p \in Plugins, RemoveVenv(p)
      PROVE  VenvsAccounted'
  <2>1. /\ venv'[p] = "none" /\ step = "none"
        /\ cut' = cut \ {p} /\ by_hand' = by_hand \ {p}
        /\ \A q \in Plugins : q # p => venv'[q] = venv[q] /\ has'[q] = has[q]
    BY <1>1 DEF RemoveVenv, ETypeOK, StepOfCommand
  <2> QED
    BY <1>0, <2>1 DEF Accounted, Preparing, PrepareSteps
<1>2. ASSUME NEW p \in Plugins, NEW force \in BOOLEAN, StartInit(p, force)
      PROVE  VenvsAccounted'
  <2>1. step = "none" /\ UNCHANGED <<venv, has, cut, by_hand>>
    BY <1>2 DEF StartInit, Begin, StepOfCommand
  <2> QED
    BY <1>0, <2>1 DEF Accounted, Preparing, PrepareSteps
<1>3. ASSUME NEW ts \in Tests, NEW refresh \in BOOLEAN, StartTest(ts, refresh)
      PROVE  VenvsAccounted'
  <2>1. step = "none" /\ UNCHANGED <<venv, has, cut, by_hand>>
    BY <1>3 DEF StartTest, Begin, StepOfCommand
  <2> QED
    BY <1>0, <2>1 DEF Accounted, Preparing, PrepareSteps
<1>4. ASSUME NEW package \in Packages, Install(package)
      PROVE  VenvsAccounted'
  <2>1. Plugin \in Plugins /\ Plugin' = Plugin
    BY <1>4, StepHasTarget DEF Install, Packages, Plugin, Here
  <2>2. /\ has'[Plugin] = has[Plugin] \cup {package}
        /\ \A q \in Plugins : q # Plugin => has'[q] = has[q]
        /\ venv' = venv
        /\ (cut \cup by_hand) \ {Plugin} \subseteq cut' \cup by_hand'
    BY <1>4, <2>1 DEF Install, ETypeOK
  <2>3. package # "plugin" => step' \in PrepareSteps
    BY <1>4 DEF Install, PrepareSteps
  <2>4. package = "plugin" => Wanted \subseteq has'[Plugin]
    BY <1>4, <2>2 DEF Install, InstallOrder
  <2>5. Accounted(Plugin)' \/ Preparing(Plugin)'
    BY <1>0, <2>1, <2>3, <2>4 DEF Accounted, Preparing
  <2>6. ASSUME NEW q \in Plugins, q # Plugin, venv'[q] # "none"
        PROVE  Accounted(q)'
    BY <1>0, <2>2, <2>6 DEF Accounted, Preparing
  <2> QED
    BY <2>1, <2>5, <2>6
<1>5. CASE CreateVenv
  <2>1. /\ Plugin \in Plugins /\ Plugin' = Plugin /\ step' \in PrepareSteps
        /\ \A q \in Plugins : q # Plugin => venv'[q] = venv[q]
        /\ UNCHANGED <<has, cut, by_hand>>
    BY <1>5, StepHasTarget DEF CreateVenv, Plugin, Here, PrepareSteps, ETypeOK
  <2> QED
    BY <1>0, <2>1 DEF Accounted, Preparing
<1>6. CASE CutOff
  <2>1. CASE step \in PrepareSteps
    <3>1. Plugin \in Plugins
      BY <2>1, StepHasTarget DEF PrepareSteps
    <3>2. cut' = cut \cup {Plugin} /\ by_hand' = by_hand
      BY <1>6, <2>1 DEF CutOff, PrepareSteps, Packages
    <3>3. \A q \in Plugins : q # Plugin => venv'[q] = venv[q] /\ has'[q] = has[q]
      <4>1. \A q \in Plugins : q # Plugin => venv'[q] = venv[q]
        BY <1>6, <3>1 DEF CutOff, ETypeOK
      <4>2. \A q \in Plugins : q # Plugin => has'[q] = has[q]
        <5>1. has' = has \/ has' = [has EXCEPT ![Plugin] = @ \ {step}]
          BY <1>6 DEF CutOff
        <5> QED
          BY <3>1, <5>1 DEF ETypeOK
      <4> QED
        BY <4>1, <4>2
    <3> QED
      BY <1>0, <3>1, <3>2, <3>3 DEF Accounted, Preparing
  <2>2. CASE step \notin PrepareSteps
    <3>1. UNCHANGED <<venv, has, by_hand>> /\ cut \subseteq cut'
      BY <1>6, <2>2 DEF CutOff, PrepareSteps, Packages
    <3> QED
      BY <1>0, <2>2, <3>1 DEF Accounted, Preparing
  <2> QED
    BY <2>1, <2>2
<1>7. CASE WriteFiles \/ NextTarget \/ Check \/ Unpack \/ Launch
  <2>1. step \notin PrepareSteps /\ UNCHANGED <<venv, has, cut, by_hand>>
    BY <1>7 DEF WriteFiles, NextTarget, Check, Unpack, Launch, PrepareSteps
  <2> QED
    BY <1>0, <2>1 DEF Accounted, Preparing
<1>8. ASSUME NEW p \in Plugins, NEW v \in {"partial", "no_pip", "whole"},
             NEW packages \in SUBSET Packages, ChangeByHand(p, v, packages)
      PROVE  VenvsAccounted'
  <2>1. /\ step = "none" /\ cut' = cut /\ by_hand' = by_hand \cup {p}
        /\ \A q \in Plugins : q # p => venv'[q] = venv[q] /\ has'[q] = has[q]
    BY <1>8 DEF ChangeByHand, ETypeOK, StepOfCommand
  <2> QED
    BY <1>0, <2>1 DEF Accounted, Preparing, PrepareSteps
<1>9. CASE UNCHANGED evars
  BY <1>0, <1>9 DEF evars, Accounted, Preparing, PrepareSteps, Plugin, Here
<1> QED
  BY <1>1, <1>2, <1>3, <1>4, <1>5, <1>6, <1>7, <1>8, <1>9 DEF ENext

\* A target is passed on with all its parts, or checked to have a .venv.
LEMMA TargetsServedStep ==
    ASSUME ETypeOK, StepOfCommand, InstallOrder, VenvsAccounted, TargetsServed, [ENext]_evars
    PROVE  TargetsServed'
<1> USE DEF TargetsServed, Passed, Accounted, disk, run, doubts
<1>0. Wanted' = Wanted
  BY SourceStays
<1>1. CASE targets' = << >>
  BY <1>1
<1>2. CASE at' = 1 /\ step' # "next" /\ targets' \in Seq(Targets)
  BY <1>2
<1>3. ASSUME NEW package \in Packages, Install(package)
      PROVE  TargetsServed'
  <2>1. /\ at \in 1..Len(targets) /\ Plugin \in Plugins /\ Plugin = targets[at].plugin
        /\ \A i \in DOMAIN targets : targets[i].plugin \in Plugins
    <3>1. \A i \in DOMAIN targets : targets[i] \in Targets
      BY DEF ETypeOK
    <3> QED
      BY <1>3, <3>1, StepHasTarget DEF Install, Packages, Plugin, Here, Targets
  <2>2. /\ has'[Plugin] = has[Plugin] \cup {package}
        /\ \A q \in Plugins : has[q] \subseteq has'[q]
        /\ UNCHANGED <<command, targets, at>> /\ step # "next"
        /\ step' = "next" <=> package = "plugin"
    BY <1>3, <2>1 DEF Install, ETypeOK, Packages
  <2>3. package = "plugin" => Wanted \subseteq has'[Plugin]
    BY <1>3, <2>2 DEF Install, InstallOrder
  <2>4. ASSUME NEW q \in cut \cup by_hand
        PROVE  q \in cut' \cup by_hand' \/ (q = Plugin /\ package = "plugin")
    <3>1. package # "plugin" => cut' = cut /\ by_hand' = by_hand
      BY <1>3 DEF Install
    <3>2. package = "plugin" => cut' = cut \ {Plugin} /\ by_hand' = by_hand \ {Plugin}
      BY <1>3 DEF Install
    <3> QED
      BY <3>1, <3>2
  <2>5. ASSUME NEW i \in DOMAIN targets, Passed(i)', ~targets[i].bundle
        PROVE  /\ command = "test" => Accounted(targets[i].plugin)'
               /\ command = "refresh" => Wanted \subseteq has'[targets[i].plugin]
    <3>1. CASE i = at /\ package = "plugin"
      BY <1>0, <2>1, <2>2, <2>3, <3>1
    <3>2. CASE i < at
      BY <1>0, <2>1, <2>2, <2>3, <2>4, <2>5, <3>2
    <3> QED
      BY <2>2, <2>5, <3>1, <3>2
  <2> QED
    BY <1>0, <2>2, <2>5
<1>4. CASE NextTarget
  <2>1. /\ UNCHANGED <<command, targets, has, cut, by_hand>> /\ step = "next" /\ at' = at + 1
        /\ step' # "next"
    BY <1>4 DEF NextTarget, Advance
  <2>2. \A i \in DOMAIN targets : Passed(i)' => Passed(i)
    BY <2>1 DEF ETypeOK
  <2> QED
    BY <1>0, <2>1, <2>2
<1>5. CASE Check \/ Unpack
  <2>1. /\ UNCHANGED <<command, targets, at, has, cut, by_hand>> /\ step' = "next"
        /\ step \in {"check", "unpack"}
    BY <1>5 DEF Check, Unpack
  <2>2. at \in DOMAIN targets /\ Plugin \in Plugins /\ Plugin = targets[at].plugin
    BY <2>1, StepHasTarget DEF Plugin, Here
  <2>3. CASE step = "unpack"
    <3>1. targets[at].bundle
      BY <2>3 DEF StepOfCommand, Here
    <3> QED
      BY <1>0, <2>1, <3>1
  <2>4. CASE step = "check"
    <3>1. command = "test" /\ ~Preparing(Plugin)
      BY <2>4 DEF StepOfCommand, Preparing, PrepareSteps
    <3>2. venv[Plugin] # "none"
      BY <1>5, <2>4 DEF Check, Unpack
    <3>3. Accounted(Plugin)
      BY <2>2, <3>1, <3>2 DEF VenvsAccounted
    <3> QED
      BY <1>0, <2>1, <2>2, <3>1, <3>3
  <2> QED
    BY <2>1, <2>3, <2>4
<1>6. CASE WriteFiles \/ CreateVenv
  <2>1. /\ UNCHANGED <<command, targets, at, has, cut, by_hand>>
        /\ step # "next" /\ step' # "next"
    BY <1>6 DEF WriteFiles, CreateVenv
  <2> QED
    BY <1>0, <2>1
<1>7. ASSUME NEW p \in Plugins, RemoveVenv(p)
      PROVE  targets' = << >>
  BY <1>7 DEF RemoveVenv, StepOfCommand
<1>8. ASSUME NEW p \in Plugins, NEW force \in BOOLEAN, StartInit(p, force)
      PROVE  at' = 1 /\ step' # "next" /\ targets' \in Seq(Targets)
  BY <1>8 DEF StartInit, Begin, Targets
<1>9. ASSUME NEW ts \in Tests, NEW refresh \in BOOLEAN, StartTest(ts, refresh)
      PROVE  at' = 1 /\ step' # "next" /\ targets' \in Seq(Targets)
  BY <1>9, TestTargets DEF StartTest, Begin
<1>10. CASE Launch \/ CutOff
  BY <1>1, <1>10 DEF Launch, CutOff, End
<1>11. ASSUME NEW p \in Plugins, NEW v \in {"partial", "no_pip", "whole"},
              NEW packages \in SUBSET Packages, ChangeByHand(p, v, packages)
       PROVE  targets' = << >>
  BY <1>11 DEF ChangeByHand, StepOfCommand
<1>12. CASE UNCHANGED evars
  BY <1>0, <1>12 DEF evars
<1> QED
  BY <1>1, <1>2, <1>3, <1>4, <1>5, <1>6, <1>7, <1>8, <1>9, <1>10, <1>11, <1>12 DEF ENext

\* The harness is launched after all targets.
LEMMA HarnessEnvIsReadyStep ==
    ASSUME ETypeOK, StepOfCommand, TargetsServed, HarnessEnvIsReady, [ENext]_evars
    PROVE  HarnessEnvIsReady'
<1> USE DEF HarnessEnvIsReady, disk, run, doubts
<1>1. CASE UNCHANGED launches
  BY <1>1
<1>2. CASE Launch /\ ~UNCHANGED launches
  <2>1. launches' = {[target |-> t, refreshed |-> command = "refresh",
                      ready |-> t.bundle \/ Wanted \subseteq has[t.plugin],
                      doubtful |-> t.plugin \in cut \cup by_hand] :
                         t \in {targets[i] : i \in DOMAIN targets}}
    BY <1>2 DEF Launch
  <2>2. command \in {"test", "refresh"}
    BY <1>2 DEF Launch, ETypeOK, StepOfCommand
  <2>3. \A i \in DOMAIN targets : Passed(i)
    BY <1>2 DEF Launch, StepOfCommand, ETypeOK, Passed
  <2>4. ASSUME NEW i \in DOMAIN targets
        PROVE  \/ targets[i].bundle \/ Wanted \subseteq has[targets[i].plugin]
               \/ command # "refresh" /\ targets[i].plugin \in cut \cup by_hand
    BY <2>2, <2>3 DEF TargetsServed, Accounted
  <2>5. ASSUME NEW l \in launches'
        PROVE  l.ready \/ (~l.refreshed /\ l.doubtful)
    <3>1. PICK i \in DOMAIN targets :
             l = [target |-> targets[i], refreshed |-> command = "refresh",
                  ready |-> targets[i].bundle \/ Wanted \subseteq has[targets[i].plugin],
                  doubtful |-> targets[i].plugin \in cut \cup by_hand]
      BY <2>1
    <3>2. /\ l.ready <=> targets[i].bundle \/ Wanted \subseteq has[targets[i].plugin]
          /\ l.refreshed <=> command = "refresh"
          /\ l.doubtful <=> targets[i].plugin \in cut \cup by_hand
      BY <3>1
    <3> QED
      BY <2>4, <3>2
  <2> QED
    BY <2>5
<1>3. CASE \E p \in Plugins : RemoveVenv(p) \/ \E force \in BOOLEAN : StartInit(p, force)
  BY <1>1, <1>3 DEF RemoveVenv, StartInit, Begin
<1>4. CASE \E ts \in Tests, refresh \in BOOLEAN : StartTest(ts, refresh)
  BY <1>4 DEF StartTest, Begin
<1>5. CASE \E package \in Packages : Install(package)
  BY <1>1, <1>5 DEF Install
<1>6. CASE WriteFiles \/ CreateVenv \/ NextTarget \/ Check \/ Unpack \/ CutOff
  BY <1>1, <1>6 DEF WriteFiles, CreateVenv, NextTarget, Check, Unpack, CutOff
<1>7. ASSUME NEW p \in Plugins, NEW v \in {"partial", "no_pip", "whole"},
             NEW packages \in SUBSET Packages, ChangeByHand(p, v, packages)
      PROVE  UNCHANGED launches
  BY <1>7 DEF ChangeByHand
<1>8. CASE UNCHANGED evars
  BY <1>1, <1>8 DEF evars
<1> QED
  BY <1>1, <1>2, <1>3, <1>4, <1>5, <1>6, <1>7, <1>8 DEF ENext

-----------------------------------------------------------------------------
(* The theorems.                                                            *)

\* The inductive invariant holds throughout.
LEMMA EnvInvariant == ESpec => []EnvInv
<1>1. EnvInv /\ [ENext]_evars => EnvInv'
  BY EnvTypeOKStep, StepOfCommandStep, InstallOrderStep, VenvsAccountedStep, TargetsServedStep,
     HarnessEnvIsReadyStep
  DEF EnvInv
<1> QED
  BY <1>1, EnvInvInit, PTL DEF ESpec

\* The type invariant of the environments.
THEOREM EnvTypeCorrect == ESpec => []ETypeOK
<1>1. EnvInv => ETypeOK
  BY DEF EnvInv
<1> QED
  BY <1>1, EnvInvariant, PTL

\* Whatever commands were given before, wherever they were cut off and whatever was
\* changed by hand, a harness starts in an environment that lacks a part only if the
\* plugin's last preparation was cut off or its .venv changed by hand since, and this
\* command was not asked to refresh it.
THEOREM LaunchedReady == ESpec => []HarnessEnvIsReady
<1>1. EnvInv => HarnessEnvIsReady
  BY DEF EnvInv
<1> QED
  BY <1>1, EnvInvariant, PTL

\* No command completes a .venv that lacks its interpreter or its pip.
THEOREM HalfMadeIsForGood == ESpec => HalfMadeStays
<1> DEFINE Stays == \A p \in Plugins :
                command # "none" /\ venv[p] \in {"partial", "no_pip"} => venv'[p] = venv[p]
<1>1. ETypeOK /\ [ENext]_evars => [Stays]_evars
  <2> SUFFICES ASSUME ETypeOK, [ENext]_evars PROVE Stays
    OBVIOUS
  <2> USE DEF disk, run
  <2>1. CASE venv' = venv
    BY <2>1
  <2>2. CASE command = "none"
    BY <2>2
  <2>3. CASE CreateVenv
    <3>1. \A q \in Plugins : venv[q] # "none" => venv'[q] = venv[q]
      BY <2>3 DEF CreateVenv, ETypeOK
    <3> QED
      BY <3>1
  <2>4. CASE CutOff
    <3>1. venv' = venv \/ (/\ venv[Plugin] \in {"none", "whole"}
                          /\ \E v : venv' = [venv EXCEPT ![Plugin] = v])
      BY <2>4 DEF CutOff
    <3> QED
      BY <3>1 DEF ETypeOK
  <2>5. ASSUME NEW p \in Plugins,
               \/ RemoveVenv(p) \/ \E force \in BOOLEAN : StartInit(p, force)
               \/ \E v \in {"partial", "no_pip", "whole"}, packages \in SUBSET Packages :
                     ChangeByHand(p, v, packages)
        PROVE  command = "none"
    BY <2>5 DEF RemoveVenv, StartInit, Begin, ChangeByHand
  <2>6. CASE \E ts \in Tests, refresh \in BOOLEAN : StartTest(ts, refresh)
    BY <2>1, <2>6 DEF StartTest
  <2>7. CASE \E package \in Packages : Install(package)
    BY <2>1, <2>7 DEF Install
  <2>8. CASE WriteFiles \/ NextTarget \/ Check \/ Unpack \/ Launch
    BY <2>1, <2>8 DEF WriteFiles, NextTarget, Check, Unpack, Launch
  <2>9. CASE UNCHANGED evars
    BY <2>1, <2>9 DEF evars
  <2> QED
    BY <2>2, <2>3, <2>4, <2>5, <2>6, <2>7, <2>8, <2>9 DEF ENext
<1> QED
  BY <1>1, EnvTypeCorrect, PTL DEF ESpec, HalfMadeStays
=============================================================================
