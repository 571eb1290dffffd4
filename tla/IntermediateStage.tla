--------------------------- MODULE IntermediateStage ---------------------------
(***************************************************************************)
(* IntermediateStage (algorithm_harness/compute_runtime.py) with the       *)
(* intermediate executor that the scaffold generates                       *)
(* (scaffold/algorithm.py): the results of each sensor are kept in a       *)
(* buffer of bounded length, and the executor, which sees the buffers of   *)
(* the sensors that have reported, takes one result of each by an index of *)
(* its own.  The stage's lock makes each call one step.                    *)
(* SequentialProofs extends this module beside others: SInit, SNext and    *)
(* so on are its Init, Next and so on.                                     *)
(***************************************************************************)
EXTENDS Naturals, Sequences

CONSTANTS Addresses,          \* the sensors of one algorithm
          MaxResultsPerStream,  \* max_results_per_stream (1000)
          MaxPerSensor        \* bound: results each sensor yields

ASSUME StageBounds ==
    MaxResultsPerStream \in Nat \ {0} /\ MaxPerSensor \in Nat

VARIABLES
    results,     \* _results: the buffer of each address, of result numbers
    seen,        \* the addresses with a buffer
    last_index,  \* _last_index of the executor
    records,     \* the records that run returned, from address to number
    lost,        \* history: the numbers that a failing compute took, likewise
    made         \* history: the results each sensor has yielded

svars == <<results, seen, last_index, records, lost, made>>

SInit ==
    /\ results = [a \in Addresses |-> << >>]
    /\ seen = {}
    /\ last_index = 0
    /\ records = << >>
    /\ lost = << >>
    /\ made = [a \in Addresses |-> 0]

\* Mutant of Bounded: room for one more.
BoundedLate(s) == IF Len(s) <= MaxResultsPerStream + 1 THEN s
                  ELSE SubSeq(s, Len(s) - MaxResultsPerStream, Len(s))

\* deque(maxlen): the oldest results make room.
Bounded(s) == IF Len(s) <= MaxResultsPerStream THEN s
              ELSE SubSeq(s, Len(s) - MaxResultsPerStream + 1, Len(s))

\* should_run: every sensor that has reported has a result to take.
ShouldRun(buffers, addresses) ==
    \A a \in addresses : Len(buffers[a]) > last_index

\* Mutant of Taken: the newest result of each sensor.
TakenLast(buffers, addresses) ==
    [a \in addresses |-> buffers[a][Len(buffers[a])]]

\* What run hands to compute.
Taken(buffers, addresses) == [a \in addresses |-> buffers[a][last_index + 1]]

\* run moves the index on before it calls compute.
NextIndex == last_index + 1

\* handle_result.  compute may raise, which handle_result reports.
HandleResult(a) ==
    /\ made[a] < MaxPerSensor
    /\ made' = [made EXCEPT ![a] = @ + 1]
    /\ results' = [results EXCEPT ![a] = Bounded(Append(@, made[a] + 1))]
    /\ seen' = seen \cup {a}
    /\ IF ShouldRun(results', seen')
       THEN /\ last_index' = NextIndex
            /\ \/ records' = Append(records, Taken(results', seen')) /\ UNCHANGED lost
               \/ lost' = Append(lost, Taken(results', seen')) /\ UNCHANGED records
       ELSE UNCHANGED <<last_index, records, lost>>

SNext == \E a \in Addresses : HandleResult(a)

SSpec == SInit /\ [][SNext]_svars

-----------------------------------------------------------------------------
(* Properties.                                                              *)

Numbers == 1..MaxPerSensor
Records == UNION {[S -> Numbers] : S \in SUBSET Addresses}

\* Type invariant: in particular no buffer outgrows its bound.
STypeOK ==
    /\ results \in [Addresses -> Seq(Numbers)]
    /\ \A a \in Addresses : Len(results[a]) <= MaxResultsPerStream
    /\ seen \subseteq Addresses
    /\ last_index \in 0..MaxResultsPerStream
    /\ records \in Seq(Records) /\ lost \in Seq(Records)
    /\ made \in [Addresses -> 0..MaxPerSensor]

\* A buffer has lost results to its bound.
Evicted == \E a \in Addresses : made[a] > Len(results[a])

\* The generated executor pairs the sensors' results in step: a record holds
\* results of one number, whatever the order in which the sensors report.  That
\* ends when a buffer first evicts: from then on the index means another number
\* in each buffer.
InStep ==
    ~Evicted => \A i \in DOMAIN records : \A a, b \in DOMAIN records[i] :
                    records[i][a] = records[i][b]

\* The executor keeps up: while nothing is evicted, each number that every sensor
\* has yielded was taken, in a record or by a computation that failed.  A sensor
\* that reports first is taken alone until the others have reported.
KeepsUp ==
    ~Evicted /\ seen # {} =>
        \E a \in seen : /\ \A b \in seen : made[a] <= made[b]
                        /\ last_index >= made[a]

\* The generated executor loses nothing and mixes nothing up until a buffer evicts.
PairsInStep == InStep /\ KeepsUp

\* The executor stops for good after as many runs as a buffer holds: the index
\* only grows, and the buffers do not.
StopsAtBound == [][last_index = MaxResultsPerStream => UNCHANGED <<records, lost>>]_svars
=============================================================================
