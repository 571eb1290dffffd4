--------------------------- MODULE SequentialProofs ---------------------------
(***************************************************************************)
(* Theorems about the parts that one process runs from one call to the     *)
(* next: the intermediate stage with the generated executor                *)
(* (IntermediateStage), the bundle builder with the installer              *)
(* (BuildBundle) and the wizard of the system test (AssignmentWizard).     *)
(* They share nothing but this module.                                     *)
(***************************************************************************)
EXTENDS IntermediateStage, BuildBundle, AssignmentWizard, FiniteSetTheorems,
        FunctionTheorems, SequenceTheorems, TLAPS

-----------------------------------------------------------------------------
(* The intermediate stage and the generated executor.                       *)

\* A buffer holds the newest results of its sensor, in order.
BuffersAreNewest ==
    \A a \in Addresses :
        /\ Len(results[a]) =
              IF made[a] < MaxResultsPerStream THEN made[a] ELSE MaxResultsPerStream
        /\ \A i \in 1..Len(results[a]) : results[a][i] = made[a] - Len(results[a]) + i

\* The sensors with a buffer are those that have reported.
SeenHaveReported ==
    /\ \A a \in Addresses : a \in seen <=> made[a] > 0
    /\ seen = {} => last_index = 0

StageInv ==
    /\ STypeOK
    /\ BuffersAreNewest
    /\ SeenHaveReported
    /\ PairsInStep

\* A bounded buffer with one more result: it or the oldest one is the one too many.
LEMMA BoundedAppend ==
    ASSUME NEW s \in Seq(Numbers), Len(s) <= MaxResultsPerStream,
           NEW n \in Numbers, NEW t, t = Bounded(Append(s, n)),
           NEW drop, drop = IF Len(s) < MaxResultsPerStream THEN 0 ELSE 1
    PROVE  /\ t \in Seq(Numbers)
           /\ Len(t) = Len(s) + 1 - drop
           /\ \A i \in 1..Len(t) : t[i] = IF i = Len(t) THEN n ELSE s[i + drop]
<1> DEFINE u == Append(s, n)
<1>1. /\ u \in Seq(Numbers) /\ Len(u) = Len(s) + 1 /\ Len(s) \in Nat
      /\ \A i \in 1..Len(u) : u[i] \in Numbers /\ u[i] = IF i = Len(u) THEN n ELSE s[i]
  OBVIOUS
<1>2. MaxResultsPerStream \in Nat \ {0}
  BY StageBounds
<1>3. CASE Len(s) < MaxResultsPerStream
  BY <1>1, <1>2, <1>3 DEF Bounded
<1>4. CASE Len(s) = MaxResultsPerStream
  <2>1. t = SubSeq(u, 2, Len(u))
    BY <1>1, <1>2, <1>4 DEF Bounded
  <2>2. \A i \in 2..Len(u) : u[i] \in Numbers
    BY <1>1
  <2>3. /\ t \in Seq(Numbers) /\ Len(t) = Len(u) - 1
        /\ \A i \in 1..Len(t) : t[i] = u[i + 1]
    BY <1>1, <2>1, <2>2, SubSeqProperties
  <2> QED
    BY <1>1, <1>2, <1>4, <2>3
<1> QED
  BY <1>1, <1>2, <1>3, <1>4

\* While nothing is evicted, a buffer holds result i at place i.
LEMMA NothingEvicted ==
    ASSUME STypeOK, BuffersAreNewest
    PROVE  /\ Evicted <=> \E a \in Addresses : made[a] > MaxResultsPerStream
           /\ ~Evicted => \A a \in Addresses :
                 Len(results[a]) = made[a] /\ \A i \in 1..made[a] : results[a][i] = i
BY StageBounds DEF STypeOK, BuffersAreNewest, Evicted

\* The buffers after a result.
LEMMA BuffersStep ==
    ASSUME StageInv, NEW a \in Addresses, HandleResult(a)
    PROVE  /\ results' \in [Addresses -> Seq(Numbers)]
           /\ \A b \in Addresses : Len(results'[b]) <= MaxResultsPerStream
           /\ made' \in [Addresses -> 0..MaxPerSensor]
           /\ BuffersAreNewest' /\ (\A b \in Addresses : b \in seen' <=> made'[b] > 0)
<1>1. /\ results \in [Addresses -> Seq(Numbers)] /\ Len(results[a]) <= MaxResultsPerStream
      /\ made \in [Addresses -> 0..MaxPerSensor] /\ MaxResultsPerStream \in Nat \ {0}
      /\ MaxPerSensor \in Nat
  BY StageBounds DEF StageInv, STypeOK
<1>2. /\ made[a] < MaxPerSensor /\ made' = [made EXCEPT ![a] = @ + 1]
      /\ results' = [results EXCEPT ![a] = Bounded(Append(@, made[a] + 1))]
      /\ seen' = seen \cup {a}
  BY DEF HandleResult
<1> DEFINE drop == IF Len(results[a]) < MaxResultsPerStream THEN 0 ELSE 1
<1>3. made[a] + 1 \in Numbers
  BY <1>1, <1>2 DEF Numbers
<1>4. /\ results'[a] \in Seq(Numbers)
      /\ Len(results'[a]) = Len(results[a]) + 1 - drop
      /\ \A i \in 1..Len(results'[a]) :
            results'[a][i] = IF i = Len(results'[a]) THEN made[a] + 1 ELSE results[a][i + drop]
  <2>1. /\ results[a] \in Seq(Numbers)
        /\ results'[a] = Bounded(Append(results[a], made[a] + 1))
    BY <1>1, <1>2
  <2> QED
    <3>1. Len(results[a]) <= MaxResultsPerStream
      BY <1>1
    <3> HIDE DEF drop
    <3>2. ASSUME NEW s, s = results[a], NEW n, n = made[a] + 1, NEW t, t = results'[a]
          PROVE  /\ t \in Seq(Numbers)
                 /\ Len(t) = Len(s) + 1 - drop
                 /\ \A i \in 1..Len(t) : t[i] = IF i = Len(t) THEN n ELSE s[i + drop]
      <4>1. s \in Seq(Numbers) /\ Len(s) <= MaxResultsPerStream /\ n \in Numbers
            /\ t = Bounded(Append(s, n))
        BY <1>3, <2>1, <3>1, <3>2
      <4>2. drop = IF Len(s) < MaxResultsPerStream THEN 0 ELSE 1
        BY <3>2 DEF drop
      <4> QED
        BY <4>1, <4>2, BoundedAppend
    <3> QED
      BY <3>2
<1>5. Len(results[a]) \in Nat /\ Len(results'[a]) <= MaxResultsPerStream
  BY <1>1, <1>4
<1>6. /\ results' \in [Addresses -> Seq(Numbers)]
      /\ \A b \in Addresses : Len(results'[b]) <= MaxResultsPerStream
      /\ made' \in [Addresses -> 0..MaxPerSensor]
  BY <1>1, <1>2, <1>4, <1>5 DEF StageInv, STypeOK
<1>7. \A b \in Addresses : b \in seen' <=> made'[b] > 0
  BY <1>1, <1>2 DEF StageInv, SeenHaveReported
<1>8. ASSUME NEW b \in Addresses
      PROVE  /\ Len(results'[b]) =
                   IF made'[b] < MaxResultsPerStream THEN made'[b] ELSE MaxResultsPerStream
             /\ \A i \in 1..Len(results'[b]) :
                   results'[b][i] = made'[b] - Len(results'[b]) + i
  <2>1. CASE b # a
    BY <1>1, <1>2, <2>1 DEF StageInv, BuffersAreNewest
  <2>2. CASE b = a
    <3>1. /\ Len(results[a]) =
                IF made[a] < MaxResultsPerStream THEN made[a] ELSE MaxResultsPerStream
          /\ \A i \in 1..Len(results[a]) : results[a][i] = made[a] - Len(results[a]) + i
      BY DEF StageInv, BuffersAreNewest
    <3>2. made'[a] = made[a] + 1
      BY <1>1, <1>2
    <3>3. made[a] \in Nat
      BY <1>1
    <3>4. CASE made[a] < MaxResultsPerStream
      <4>1. Len(results[a]) = made[a] /\ drop = 0 /\ Len(results'[a]) = made[a] + 1
        BY <1>1, <1>4, <3>1, <3>3, <3>4
      <4>2. ASSUME NEW i \in 1..Len(results'[a])
            PROVE  results'[a][i] = made'[a] - Len(results'[a]) + i
        <5>1. results'[a][i] = IF i = made[a] + 1 THEN made[a] + 1 ELSE results[a][i]
          BY <1>4, <3>3, <4>1
        <5>2. CASE i # made[a] + 1
          <6>1. i \in 1..Len(results[a])
            BY <3>3, <4>1, <5>2
          <6> QED
            BY <3>1, <3>2, <3>3, <4>1, <5>1, <5>2, <6>1
        <5> QED
          BY <3>2, <3>3, <4>1, <5>1, <5>2
      <4> QED
        BY <1>1, <2>2, <3>2, <3>3, <3>4, <4>1, <4>2
    <3>5. CASE made[a] >= MaxResultsPerStream
      <4>1. /\ Len(results[a]) = MaxResultsPerStream /\ drop = 1
            /\ Len(results'[a]) = MaxResultsPerStream
        BY <1>1, <1>4, <3>1, <3>3, <3>5
      <4>2. ASSUME NEW i \in 1..Len(results'[a])
            PROVE  results'[a][i] = made'[a] - Len(results'[a]) + i
        <5>1. results'[a][i] =
                 IF i = MaxResultsPerStream THEN made[a] + 1 ELSE results[a][i + 1]
          BY <1>4, <4>1
        <5>2. CASE i # MaxResultsPerStream
          <6>1. i + 1 \in 1..Len(results[a])
            BY <1>1, <4>1, <5>2
          <6> QED
            BY <1>1, <3>1, <3>2, <3>3, <4>1, <5>1, <5>2, <6>1
        <5> QED
          BY <1>1, <3>2, <3>3, <4>1, <5>1, <5>2
      <4> QED
        BY <1>1, <2>2, <3>2, <3>3, <3>5, <4>1, <4>2
    <3> QED
      BY <1>1, <2>2, <3>3, <3>4, <3>5
  <2> QED
    BY <2>1, <2>2
<1> QED
  BY <1>6, <1>7, <1>8 DEF BuffersAreNewest

\* The numbers that are taken, and what a run of the executor leaves.
LEMMA TakenStep ==
    ASSUME StageInv, NEW a \in Addresses, HandleResult(a)
    PROVE  /\ STypeOK'
           /\ last_index' \in {last_index, last_index + 1}
           /\ seen' # {} /\ seen' = seen \cup {a}
           /\ last_index' = last_index + 1 <=> \A b \in seen' : Len(results'[b]) > last_index
           /\ last_index' = last_index => records' = records /\ lost' = lost
           /\ \/ records' = records
              \/ records' = Append(records, [b \in seen' |-> results'[b][last_index + 1]])
<1>1. /\ results' \in [Addresses -> Seq(Numbers)]
      /\ \A b \in Addresses : Len(results'[b]) <= MaxResultsPerStream
      /\ made' \in [Addresses -> 0..MaxPerSensor]
  BY BuffersStep
<1>2. /\ seen' = seen \cup {a} /\ seen' \subseteq Addresses /\ seen' # {}
      /\ last_index \in 0..MaxResultsPerStream /\ MaxResultsPerStream \in Nat
      /\ records \in Seq(Records) /\ lost \in Seq(Records)
  BY StageBounds DEF HandleResult, StageInv, STypeOK
<1>3. CASE ShouldRun(results', seen')
  <2>1. \A b \in seen' : Len(results'[b]) > last_index
    BY <1>3 DEF ShouldRun
  <2>2. last_index' = last_index + 1
    BY <1>3 DEF HandleResult, NextIndex
  <2>3. last_index + 1 \in 0..MaxResultsPerStream
    BY <1>1, <1>2, <2>1
  <2> DEFINE r == [b \in seen' |-> results'[b][last_index + 1]]
  <2>4. r = Taken(results', seen')
    BY DEF Taken
  <2>5. r \in Records
    <3>1. r \in [seen' -> Numbers]
      BY <1>1, <1>2, <2>1
    <3> QED
      BY <1>2, <3>1 DEF Records
  <2>6. \/ records' = Append(records, r) /\ lost' = lost
        \/ lost' = Append(lost, r) /\ records' = records
    BY <1>3, <2>4 DEF HandleResult
  <2>7. records' \in Seq(Records) /\ lost' \in Seq(Records)
    <3>1. Append(records, r) \in Seq(Records) /\ Append(lost, r) \in Seq(Records)
      BY <1>2, <2>5
    <3> HIDE DEF r
    <3> QED
      BY <1>2, <2>6, <3>1
  <2> QED
    BY <1>1, <1>2, <2>1, <2>2, <2>3, <2>6, <2>7 DEF STypeOK
<1>4. CASE ~ShouldRun(results', seen')
  <2>1. ~(\A b \in seen' : Len(results'[b]) > last_index)
    BY <1>4 DEF ShouldRun
  <2>2. UNCHANGED <<last_index, records, lost>>
    BY <1>4 DEF HandleResult
  <2> QED
    BY <1>1, <1>2, <2>1, <2>2 DEF STypeOK
<1> QED
  BY <1>3, <1>4

\* What was evicted stays so, and without that a buffer holds result i at place i.
LEMMA EvictedStays ==
    ASSUME StageInv, NEW a \in Addresses, HandleResult(a),
           ~Evicted'
    PROVE  /\ ~Evicted
           /\ \A b \in Addresses :
                 Len(results'[b]) = made'[b] /\ \A i \in 1..made'[b] : results'[b][i] = i
<1>1. STypeOK /\ BuffersAreNewest /\ STypeOK' /\ BuffersAreNewest'
  BY BuffersStep, TakenStep DEF StageInv
<1>2. \A b \in Addresses : made'[b] >= made[b]
  BY <1>1 DEF HandleResult, STypeOK
<1>3. ASSUME NEW b \in Addresses
      PROVE  /\ Len(results'[b]) = made'[b] /\ made'[b] <= MaxResultsPerStream
             /\ \A i \in 1..made'[b] : results'[b][i] = i
  <2>1. /\ made'[b] \in Nat /\ MaxResultsPerStream \in Nat
        /\ Len(results'[b]) = IF made'[b] < MaxResultsPerStream THEN made'[b]
                                                              ELSE MaxResultsPerStream
        /\ \A i \in 1..Len(results'[b]) : results'[b][i] = made'[b] - Len(results'[b]) + i
    BY <1>1, StageBounds DEF STypeOK, BuffersAreNewest
  <2>2. made'[b] <= Len(results'[b])
    BY <2>1 DEF Evicted
  <2>3. Len(results'[b]) = made'[b] /\ made'[b] <= MaxResultsPerStream
    BY <2>1, <2>2
  <2>4. \A i \in 1..made'[b] : made'[b] - made'[b] + i = i
    BY <2>1
  <2> QED
    BY <2>1, <2>3, <2>4
<1>4. ASSUME NEW b \in Addresses
      PROVE  made[b] <= MaxResultsPerStream
  <2>1. made[b] \in Nat /\ made'[b] \in Nat /\ MaxResultsPerStream \in Nat
    BY <1>1, StageBounds DEF STypeOK
  <2> QED
    BY <1>2, <1>3, <2>1
<1>5. ~Evicted
  BY <1>1, <1>4, NothingEvicted, StageBounds DEF STypeOK
<1> QED
  BY <1>3, <1>5

\* While nothing is evicted, a record takes one number of each sensor.
LEMMA InStepStep ==
    ASSUME StageInv, NEW a \in Addresses, HandleResult(a)
    PROVE  InStep'
<1> SUFFICES ASSUME ~Evicted'
             PROVE  \A i \in DOMAIN records' : \A b, c \in DOMAIN records'[i] :
                        records'[i][b] = records'[i][c]
  BY DEF InStep
<1>1. STypeOK /\ BuffersAreNewest /\ STypeOK' /\ BuffersAreNewest'
  BY BuffersStep, TakenStep DEF StageInv
<1>3. ~Evicted
  BY EvictedStays
<1>4. \A b \in Addresses : Len(results'[b]) = made'[b] /\ \A i \in 1..made'[b] : results'[b][i] = i
  BY EvictedStays
<1>5. \A i \in DOMAIN records : \A b, c \in DOMAIN records[i] : records[i][b] = records[i][c]
  BY <1>3 DEF StageInv, PairsInStep, InStep
<1>6. CASE records' = records
  BY <1>5, <1>6
<1>7. CASE records' # records
  <2> DEFINE r == [b \in seen' |-> results'[b][last_index + 1]]
  <2>1. records' = Append(records, r) /\ last_index' = last_index + 1
    BY <1>1, <1>7, TakenStep
  <2>2. \A b \in seen' : Len(results'[b]) > last_index
    BY <2>1, TakenStep
  <2>3. seen' \subseteq Addresses /\ last_index \in Nat /\ records \in Seq(Records)
    BY <1>1 DEF STypeOK
  <2>4. \A b \in DOMAIN r : r[b] = last_index + 1
    BY <1>1, <1>4, <2>2, <2>3 DEF STypeOK
  <2>5. \A i \in DOMAIN records' : \/ i \in DOMAIN records /\ records'[i] = records[i]
                                   \/ records'[i] = r
    BY <2>1, <2>3
  <2> QED
    BY <1>5, <2>4, <2>5
<1> QED
  BY <1>6, <1>7

\* While nothing is evicted, a sensor with the fewest results has had all of them taken.
LEMMA KeepsUpStep ==
    ASSUME StageInv, NEW a \in Addresses, HandleResult(a)
    PROVE  KeepsUp'
<1> SUFFICES ASSUME ~Evicted'
             PROVE  \E b \in seen' : /\ \A c \in seen' : made'[b] <= made'[c]
                                     /\ last_index' >= made'[b]
  BY DEF KeepsUp
<1>1. STypeOK /\ BuffersAreNewest /\ STypeOK' /\ BuffersAreNewest'
  BY BuffersStep, TakenStep DEF StageInv
<1>2. /\ made \in [Addresses -> Nat] /\ made' = [made EXCEPT ![a] = @ + 1]
      /\ seen \subseteq Addresses /\ seen' = seen \cup {a} /\ last_index \in Nat
  BY <1>1 DEF HandleResult, STypeOK
<1>3. ~Evicted
  BY EvictedStays
<1>4. \A b \in Addresses : Len(results'[b]) = made'[b]
  BY EvictedStays
<1>5. \/ last_index' = last_index + 1 /\ \A b \in seen' : made'[b] > last_index
      \/ last_index' = last_index /\ \E b \in seen' : made'[b] <= last_index
  <2>1. \A b \in seen' : b \in Addresses /\ Len(results'[b]) = made'[b] /\ made'[b] \in Nat
    BY <1>2, <1>4
  <2>2. last_index' = last_index + 1 <=> \A b \in seen' : made'[b] > last_index
    BY <2>1, TakenStep
  <2>3. \/ last_index' = last_index + 1
        \/ last_index' = last_index /\ last_index' # last_index + 1
    BY <1>2, TakenStep
  <2> QED
    BY <1>2, <2>1, <2>2, <2>3
<1>6. CASE seen = {}
  BY <1>2, <1>5, <1>6 DEF StageInv, SeenHaveReported
<1>7. CASE seen # {}
  <2>1. PICK b \in seen : (\A c \in seen : made[b] <= made[c]) /\ last_index >= made[b]
    BY <1>3, <1>7 DEF StageInv, PairsInStep, KeepsUp
  <2>2. made[b] > 0
    BY <1>2, <2>1 DEF StageInv, SeenHaveReported
  <2>3. CASE a \notin seen
    <3>1. made[a] = 0
      BY <1>2, <2>3 DEF StageInv, SeenHaveReported
    <3> QED
      BY <1>2, <1>5, <2>1, <2>2, <3>1
  <2>4. CASE a \in seen
    <3>1. CASE a = b
      BY <1>2, <1>5, <2>1, <2>4, <3>1
    <3>2. CASE a # b
      BY <1>2, <1>5, <2>1, <2>4, <3>2
    <3> QED
      BY <3>1, <3>2
  <2> QED
    BY <2>3, <2>4
<1> QED
  BY <1>6, <1>7

\* Every result keeps the invariant.
LEMMA StageStep ==
    ASSUME StageInv, [SNext]_svars
    PROVE  StageInv'
<1>1. ASSUME NEW a \in Addresses, HandleResult(a)
      PROVE  StageInv'
  <2>1. SeenHaveReported'
    BY <1>1, BuffersStep, TakenStep DEF SeenHaveReported
  <2> QED
    BY <1>1, <2>1, BuffersStep, TakenStep, InStepStep, KeepsUpStep
    DEF StageInv, PairsInStep
<1>2. CASE UNCHANGED svars
  BY <1>2 DEF svars, StageInv, STypeOK, BuffersAreNewest, SeenHaveReported,
    PairsInStep, InStep, KeepsUp, Evicted
<1> QED
  BY <1>1, <1>2 DEF SNext

\* It holds of every reachable state.
LEMMA StageInvariant ==
    SSpec => []StageInv
<1>1. SInit => StageInv
  BY StageBounds DEF SInit, StageInv, STypeOK, BuffersAreNewest, SeenHaveReported, PairsInStep,
    InStep, KeepsUp
<1> QED
  BY <1>1, StageStep, PTL DEF SSpec

\* The variables of the stage keep their types, and no buffer outgrows its bound.
THEOREM StageTypeCorrect ==
    SSpec => []STypeOK
<1>1. StageInv => STypeOK
  BY DEF StageInv
<1> QED
  BY <1>1, StageInvariant, PTL

\* Until a buffer evicts, the generated executor pairs results of one number and takes
\* every number that all sensors have yielded.
THEOREM StagePairsInStep ==
    SSpec => []PairsInStep
<1>1. StageInv => PairsInStep
  BY DEF StageInv
<1> QED
  BY <1>1, StageInvariant, PTL

\* After as many runs as a buffer holds, no record is made any more.
THEOREM StageStopsAtBound ==
    SSpec => StopsAtBound
<1>1. ASSUME StageInv, [SNext]_svars, last_index = MaxResultsPerStream
      PROVE  UNCHANGED <<records, lost>>
  <2>1. ASSUME NEW a \in Addresses, HandleResult(a)
        PROVE  UNCHANGED <<records, lost>>
    <3>1. last_index' = last_index
      <4>1. MaxResultsPerStream \in Nat /\ last_index' \in 0..MaxResultsPerStream
        <5>1. STypeOK'
          BY <1>1, <2>1, TakenStep
        <5> QED
          BY <5>1, StageBounds DEF STypeOK
      <4>2. last_index' \in {last_index, last_index + 1}
        BY <1>1, <2>1, TakenStep
      <4> QED
        BY <1>1, <4>1, <4>2
    <3> QED
      BY <1>1, <2>1, <3>1, TakenStep
  <2>2. CASE UNCHANGED svars
    BY <2>2 DEF svars
  <2> QED
    BY <1>1, <2>1, <2>2 DEF SNext
<1>2. StageInv /\ [SNext]_svars =>
         [last_index = MaxResultsPerStream => UNCHANGED <<records, lost>>]_svars
  BY <1>1
<1> QED
  BY <1>2, StageInvariant, PTL DEF SSpec, StopsAtBound

-----------------------------------------------------------------------------
(* The bundle builder and the installer.                                    *)

BeforeManifest ==
    {"checking", "building", "sdk", "downloading", "extras", "copying", "manifest"}
BeforeZip == BeforeManifest \cup {"checksums", "opening"}

\* The files of the archive and the bundle are functions.
FilesAreFunctions ==
    /\ archive = [f \in DOMAIN archive |-> archive[f]]
    /\ checksums = [f \in DOMAIN checksums |-> checksums[f]]
    /\ zip = [f \in DOMAIN zip |-> zip[f]]

\* What was copied is there under its name, from the manifest on every artifact.
CopiesAreThere ==
    /\ \A i \in 1..copied : artifacts[i].name \in DOMAIN archive
    /\ build_step = "manifest" => copied = Len(artifacts)

\* What the manifest lists is in the archive with that hash, and the archive has a
\* manifest once it is written, and checksums after that.
ManifestOfArchive ==
    /\ \A e \in manifest : e[1] \in Names \cap DOMAIN archive /\ archive[e[1]] = e[2]
    /\ build_step \in BeforeManifest => manifest = {} /\ "manifest.json" \notin DOMAIN archive
    /\ build_step \in {"checksums", "opening", "zipping", "returned"} =>
          "manifest.json" \in DOMAIN archive

\* The checksums are those of the archive without them.
ChecksumsOfArchive ==
    /\ build_step \in BeforeManifest \cup {"checksums"} => "checksums.json" \notin DOMAIN archive
    /\ build_step \in {"opening", "zipping", "returned"} =>
          checksums = [f \in DOMAIN archive \ {"checksums.json"} |-> archive[f]]

\* The bundle is a part of the archive, filled in the order of the members.
ZipOfArchive ==
    /\ DOMAIN zip \subseteq DOMAIN archive
    /\ \A f \in DOMAIN zip : zip[f] = archive[f]
    /\ \A f \in DOMAIN zip, g \in DOMAIN archive :
          Rank(g) < Rank(f) => g \in DOMAIN zip
    /\ build_step \in BeforeZip => zip = << >>
    /\ build_step = "returned" => DOMAIN zip = DOMAIN archive

\* Only the end of a build is installed, and a new bundle only with its manifest.
InstalledAtEnd ==
    /\ build_step \notin BuildEnds => outcome = "no"
    /\ outcome = "handed_over" => bundle = "old" \/ "manifest.json" \in DOMAIN zip
    /\ outcome = "refused" => "manifest.json" \notin DOMAIN zip

BundleInv ==
    /\ BTypeOK
    /\ FilesAreFunctions
    /\ CopiesAreThere
    /\ ManifestOfArchive
    /\ ChecksumsOfArchive
    /\ ZipOfArchive
    /\ InstalledAtEnd

\* The order of the members.
LEMMA Ranks ==
    /\ \A n \in Names : Rank(n) = 1
    /\ Rank("checksums.json") = 2 /\ Rank("manifest.json") = 3
    /\ Rank("metadata") = 4
    /\ \A m \in Members : Rank(m) \in 1..4
BY NamesAreApart DEF Rank, Members, Files

\* An action before the copying adds at most one artifact.
LEMMA ArtifactsStep ==
    ASSUME BTypeOK, NEW n \in Names, Add(n)
    PROVE  /\ artifacts' \in Seq(Artifacts)
           /\ Len(artifacts') = Len(artifacts) + 1
           /\ \A i \in 1..Len(artifacts) : artifacts'[i] = artifacts[i]
<1>1. PICK c \in Contents : artifacts' = Append(artifacts, [name |-> n, content |-> c])
  BY DEF Add
<1>2. /\ artifacts \in Seq(Artifacts)
      /\ [name |-> n, content |-> c] \in Artifacts
  BY DEF BTypeOK, Artifacts
<1> QED
  BY <1>1, <1>2

\* The steps up to the copying gather the artifacts and touch nothing else.
LEMMA GatherStep ==
    ASSUME BundleInv,
           \/ MakeTemp \/ BuildWheel \/ BuildSdk \/ AddDependency
           \/ EndDownload \/ AddExtra \/ RemoveOld
    PROVE  BundleInv'
<1>1. /\ build_step \in {"checking", "building", "sdk", "downloading", "extras"}
      /\ build_step' \in {"building", "sdk", "downloading", "extras", "copying"}
      /\ temp' = TRUE /\ bundle' \in {bundle, "none"}
      /\ UNCHANGED <<copied, archive, manifest, checksums, zip, outcome>>
  BY DEF MakeTemp, BuildWheel, BuildSdk, AddDependency,
    EndDownload, AddExtra, RemoveOld, outputs, disk,
    BundleInv, BTypeOK, BuildEnds
<1>2. BTypeOK
  BY DEF BundleInv
<1>3. artifacts' = artifacts \/ \E n \in Names : Add(n)
  BY WheelsAreNames DEF MakeTemp, BuildWheel, BuildSdk, AddDependency, EndDownload, AddExtra,
    RemoveOld
<1>4. /\ artifacts' \in Seq(Artifacts)
      /\ Len(artifacts') >= Len(artifacts)
      /\ \A i \in 1..Len(artifacts) : artifacts'[i] = artifacts[i]
  <2>1. CASE artifacts' = artifacts
    BY <1>2, <2>1 DEF BTypeOK
  <2>2. ASSUME NEW n \in Names, Add(n)
        PROVE  /\ artifacts' \in Seq(Artifacts)
               /\ Len(artifacts') >= Len(artifacts)
               /\ \A i \in 1..Len(artifacts) : artifacts'[i] = artifacts[i]
    BY <1>2, <2>2, ArtifactsStep DEF BTypeOK
  <2> QED
    BY <1>3, <2>1, <2>2
<1>5. BTypeOK'
  BY <1>1, <1>2, <1>4 DEF BTypeOK, BuildEnds, Members, Files
<1>6. CopiesAreThere'
  <2>1. copied \in 0..Len(artifacts) /\ Len(artifacts) \in Nat
    BY <1>2 DEF BTypeOK
  <2> QED
    BY <1>1, <1>4, <2>1 DEF BundleInv, CopiesAreThere
<1>7. FilesAreFunctions' /\ ManifestOfArchive' /\ ChecksumsOfArchive'
  BY <1>1 DEF BundleInv, FilesAreFunctions, ManifestOfArchive, ChecksumsOfArchive,
    BeforeManifest
<1>8. ZipOfArchive' /\ InstalledAtEnd'
  BY <1>1 DEF BundleInv, ZipOfArchive, InstalledAtEnd, BuildEnds, BeforeManifest, BeforeZip
<1> QED
  BY <1>5, <1>6, <1>7, <1>8 DEF BundleInv

\* A step that writes a file into the archive before there is a bundle.
LEMMA ArchiveStep ==
    ASSUME BundleInv,
           build_step \in BeforeZip, build_step' \in BeforeZip \cup {"opening"},
           NEW n \in Members, NEW c,
           (n \in Names => c \in Contents) /\ (n \notin Names => c = Metadata),
           archive' = Put(archive, n, c),
           UNCHANGED <<zip, outcome, bundle>>
    PROVE  /\ archive' = [f \in DOMAIN archive' |-> archive'[f]]
           /\ AreFiles(archive')
           /\ DOMAIN archive' = DOMAIN archive \cup {n} /\ archive'[n] = c
           /\ \A m \in DOMAIN archive : m # n => archive'[m] = archive[m]
           /\ ZipOfArchive' /\ InstalledAtEnd'
<1>1. /\ archive' = [f \in DOMAIN archive' |-> archive'[f]]
      /\ DOMAIN archive' = DOMAIN archive \cup {n} /\ archive'[n] = c
      /\ \A m \in DOMAIN archive : m # n => archive'[m] = archive[m]
  <2>1. archive' = [f \in DOMAIN archive \cup {n} |-> IF f = n THEN c ELSE archive[f]]
    BY DEF Put
  <2> QED
    BY <2>1
<1>2. AreFiles(archive')
  BY <1>1 DEF BundleInv, BTypeOK, AreFiles
<1>3. zip = << >> /\ zip' = << >>
  BY DEF BundleInv, ZipOfArchive
<1>4. ZipOfArchive'
  <2>1. DOMAIN zip' = {}
    BY <1>3
  <2> QED
    BY <1>3, <2>1 DEF ZipOfArchive, BeforeZip, BeforeManifest
<1>5. InstalledAtEnd'
  BY <1>3 DEF BundleInv, InstalledAtEnd, BuildEnds, BeforeZip, BeforeManifest
<1> QED
  BY <1>1, <1>2, <1>4, <1>5

\* An artifact is copied over what is there under its name.
LEMMA CopyArtifactStep ==
    ASSUME BundleInv, CopyArtifact
    PROVE  BundleInv'
<1> DEFINE a == artifacts[copied + 1]
<1>1. /\ build_step = "copying" /\ build_step' = "copying"
      /\ copied < Len(artifacts) /\ copied' = copied + 1
      /\ archive' = Put(archive, a.name, a.content)
      /\ UNCHANGED <<temp, artifacts, manifest, checksums, zip, outcome, bundle>>
  BY DEF CopyArtifact, disk
<1>2. BTypeOK
  BY DEF BundleInv
<1>3. /\ copied \in Nat /\ Len(artifacts) \in Nat
      /\ copied + 1 \in 1..Len(artifacts) /\ a \in Artifacts
  BY <1>1, <1>2 DEF BTypeOK
<1>4. a.name \in Names /\ a.content \in Contents /\ a.name \in Members
  BY <1>3 DEF Members, Artifacts
<1> HIDE DEF a
<1>5. /\ archive' = [f \in DOMAIN archive' |-> archive'[f]]
      /\ AreFiles(archive')
      /\ DOMAIN archive' = DOMAIN archive \cup {a.name}
      /\ ZipOfArchive' /\ InstalledAtEnd'
  BY <1>1, <1>4, ArchiveStep DEF BeforeZip, BeforeManifest
<1>6. BTypeOK'
  BY <1>1, <1>2, <1>3, <1>5 DEF BTypeOK
<1>7. FilesAreFunctions'
  BY <1>1, <1>5 DEF BundleInv, FilesAreFunctions
<1>8. CopiesAreThere'
  BY <1>1, <1>3, <1>5 DEF BundleInv, CopiesAreThere, a
<1>9. ManifestOfArchive' /\ ChecksumsOfArchive'
  BY <1>1, <1>4, <1>5, NamesAreApart DEF BundleInv, ManifestOfArchive, ChecksumsOfArchive,
    BeforeManifest
<1> QED
  BY <1>5, <1>6, <1>7, <1>8, <1>9 DEF BundleInv

\* The metadata is copied once all artifacts are.
LEMMA CopyMetadataStep ==
    ASSUME BundleInv, CopyMetadata
    PROVE  BundleInv'
<1>1. /\ build_step = "copying" /\ build_step' = "manifest" /\ copied = Len(artifacts)
      /\ archive' = archive \/ archive' = Put(archive, "metadata", Metadata)
      /\ UNCHANGED <<temp, artifacts, copied, manifest, checksums, zip, outcome, bundle>>
  BY DEF CopyMetadata, disk
<1>2. BTypeOK /\ "metadata" \in Members \ Names
  BY NamesAreApart DEF BundleInv, Members, Files
<1>3. /\ archive' = [f \in DOMAIN archive' |-> archive'[f]]
      /\ AreFiles(archive')
      /\ DOMAIN archive \subseteq DOMAIN archive'
      /\ DOMAIN archive' \subseteq DOMAIN archive \cup {"metadata"}
      /\ ZipOfArchive' /\ InstalledAtEnd'
  <2>1. CASE archive' = archive
    BY <1>1, <1>2, <2>1 DEF BundleInv, FilesAreFunctions, BTypeOK, ZipOfArchive,
      InstalledAtEnd, BuildEnds, BeforeZip, BeforeManifest
  <2>2. CASE archive' = Put(archive, "metadata", Metadata)
    BY <1>1, <1>2, <2>2, ArchiveStep DEF BeforeZip, BeforeManifest
  <2> QED
    BY <1>1, <2>1, <2>2
<1>4. BTypeOK'
  BY <1>1, <1>2, <1>3 DEF BTypeOK, BuildEnds
<1>5. FilesAreFunctions' /\ CopiesAreThere'
  BY <1>1, <1>3 DEF BundleInv, FilesAreFunctions, CopiesAreThere
<1>6. ManifestOfArchive' /\ ChecksumsOfArchive'
  BY <1>1, <1>3 DEF BundleInv, ManifestOfArchive, ChecksumsOfArchive, BeforeManifest
<1> QED
  BY <1>3, <1>4, <1>5, <1>6 DEF BundleInv

\* The manifest is written from the copies.
LEMMA WriteManifestStep ==
    ASSUME BundleInv, WriteManifest
    PROVE  BundleInv'
<1>1. /\ build_step = "manifest" /\ build_step' = "checksums" /\ manifest' = Listed
      /\ archive' = Put(archive, "manifest.json", Metadata)
      /\ UNCHANGED <<temp, artifacts, copied, checksums, zip, outcome, bundle>>
  BY DEF WriteManifest, disk
<1>2. BTypeOK /\ "manifest.json" \in Members \ Names
  BY NamesAreApart DEF BundleInv, Members, Files
<1>3. /\ archive' = [f \in DOMAIN archive' |-> archive'[f]]
      /\ AreFiles(archive')
      /\ DOMAIN archive' = DOMAIN archive \cup {"manifest.json"}
      /\ \A m \in DOMAIN archive : m # "manifest.json" => archive'[m] = archive[m]
      /\ ZipOfArchive' /\ InstalledAtEnd'
  BY <1>1, <1>2, ArchiveStep DEF BeforeZip, BeforeManifest
<1>4. ASSUME NEW e \in manifest'
      PROVE  /\ e \in Names \X Contents /\ e[1] \in Names \cap DOMAIN archive'
             /\ archive'[e[1]] = e[2]
  <2>1. PICK i \in DOMAIN artifacts : e = <<artifacts[i].name, archive[artifacts[i].name]>>
    BY <1>1, <1>4 DEF Listed
  <2>2. /\ artifacts[i].name \in Names /\ artifacts[i].name # "manifest.json"
        /\ i \in 1..copied
    <3>1. artifacts[i] \in Artifacts /\ DOMAIN artifacts = 1..Len(artifacts)
      BY <1>2 DEF BTypeOK
    <3>2. artifacts[i].name \in Names
      BY <3>1 DEF Artifacts
    <3> QED
      BY <1>1, <1>2, <3>1, <3>2 DEF BundleInv, CopiesAreThere
  <2>3. artifacts[i].name \in DOMAIN archive
    BY <2>2 DEF BundleInv, CopiesAreThere
  <2>4. archive[artifacts[i].name] \in Contents
    BY <1>2, <2>2, <2>3 DEF BTypeOK, AreFiles
  <2> QED
    BY <1>3, <2>1, <2>2, <2>3, <2>4
<1>5. BTypeOK'
  <2>1. manifest' \subseteq Names \X Contents
    BY <1>4
  <2> QED
    BY <1>1, <1>2, <1>3, <2>1 DEF BTypeOK, BuildEnds
<1>6. FilesAreFunctions' /\ CopiesAreThere'
  BY <1>1, <1>3 DEF BundleInv, FilesAreFunctions, CopiesAreThere
<1>7. ManifestOfArchive'
  BY <1>1, <1>3, <1>4 DEF ManifestOfArchive, BeforeManifest
<1>8. ChecksumsOfArchive'
  BY <1>1, <1>3 DEF BundleInv, ChecksumsOfArchive, BeforeManifest
<1> QED
  BY <1>3, <1>5, <1>6, <1>7, <1>8 DEF BundleInv

\* The checksums are taken of all files and then added to them.
LEMMA WriteChecksumsStep ==
    ASSUME BundleInv, WriteChecksums
    PROVE  BundleInv'
<1>1. /\ build_step = "checksums" /\ build_step' = "opening" /\ checksums' = archive
      /\ archive' = Put(archive, "checksums.json", Metadata)
      /\ UNCHANGED <<temp, artifacts, copied, manifest, zip, outcome, bundle>>
  BY DEF WriteChecksums, disk, Summed
<1>2. BTypeOK /\ "checksums.json" \in Members \ Names
  BY NamesAreApart DEF BundleInv, Members, Files
<1>3. /\ archive' = [f \in DOMAIN archive' |-> archive'[f]]
      /\ AreFiles(archive')
      /\ DOMAIN archive' = DOMAIN archive \cup {"checksums.json"}
      /\ \A m \in DOMAIN archive : m # "checksums.json" => archive'[m] = archive[m]
      /\ ZipOfArchive' /\ InstalledAtEnd'
  BY <1>1, <1>2, ArchiveStep DEF BeforeZip, BeforeManifest
<1>4. archive = [f \in DOMAIN archive |-> archive[f]] /\ "checksums.json" \notin DOMAIN archive
  BY <1>1 DEF BundleInv, FilesAreFunctions, ChecksumsOfArchive
<1>5. BTypeOK'
  BY <1>1, <1>2, <1>3 DEF BTypeOK, BuildEnds
<1>6. FilesAreFunctions' /\ CopiesAreThere'
  BY <1>1, <1>3, <1>4 DEF BundleInv, FilesAreFunctions, CopiesAreThere
<1>7. ManifestOfArchive'
  BY <1>1, <1>2, <1>3 DEF BundleInv, ManifestOfArchive, BeforeManifest
<1>8. ChecksumsOfArchive'
  <2>1. DOMAIN archive' \ {"checksums.json"} = DOMAIN archive
    BY <1>3, <1>4
  <2>2. archive = [f \in DOMAIN archive' \ {"checksums.json"} |-> archive'[f]]
    <3>1. \A f \in DOMAIN archive : archive[f] = archive'[f]
      BY <1>3, <1>4
    <3>2. [f \in DOMAIN archive |-> archive[f]] = [f \in DOMAIN archive |-> archive'[f]]
      BY <3>1
    <3> QED
      BY <1>4, <2>1, <3>2
  <2> QED
    BY <1>1, <2>2 DEF ChecksumsOfArchive, BeforeManifest
<1> QED
  BY <1>3, <1>5, <1>6, <1>7, <1>8 DEF BundleInv

\* A member is written after all that come before it.
LEMMA WriteMemberStep ==
    ASSUME BundleInv, WriteMember
    PROVE  BundleInv'
<1>1. /\ build_step = "zipping" /\ outcome = "no"
      /\ UNCHANGED <<build_step, temp, artifacts, copied, archive, manifest, checksums, bundle,
                     outcome>>
  BY DEF WriteMember, outputs, BundleInv, InstalledAtEnd, BuildEnds
<1>2. PICK f \in DOMAIN archive \ DOMAIN zip :
         IsNext(f) /\ zip' = Put(zip, f, archive[f])
  BY DEF WriteMember
<1>3. /\ zip' = [m \in DOMAIN zip' |-> zip'[m]]
      /\ DOMAIN zip' = DOMAIN zip \cup {f} /\ zip'[f] = archive[f]
      /\ \A m \in DOMAIN zip : zip'[m] = zip[m]
  <2>1. zip' = [m \in DOMAIN zip \cup {f} |-> IF m = f THEN archive[f] ELSE zip[m]]
    BY <1>2 DEF Put
  <2> QED
    BY <1>2, <2>1
<1>4. /\ DOMAIN zip \subseteq DOMAIN archive /\ \A m \in DOMAIN zip : zip[m] = archive[m]
      /\ \A m \in DOMAIN zip, g \in DOMAIN archive :
            Rank(g) < Rank(m) => g \in DOMAIN zip
  BY DEF BundleInv, ZipOfArchive
<1>5. BTypeOK'
  BY <1>1, <1>2, <1>3, <1>4 DEF BundleInv, BTypeOK, AreFiles
<1>6. \A m \in DOMAIN zip', g \in DOMAIN archive :
         Rank(g) < Rank(m) => g \in DOMAIN zip'
  <2>1. ASSUME NEW g \in DOMAIN archive \ DOMAIN zip
        PROVE  ~(Rank(g) < Rank(f))
    <3>1. g \in Members /\ f \in Members
      BY <1>2 DEF BundleInv, BTypeOK, AreFiles
    <3>2. Rank(f) <= Rank(g)
      BY <1>2 DEF IsNext
    <3> QED
      BY <3>1, <3>2, Ranks
  <2> QED
    BY <1>3, <1>4, <2>1
<1>7. ZipOfArchive'
  BY <1>1, <1>2, <1>3, <1>4, <1>6 DEF ZipOfArchive, BeforeZip, BeforeManifest
<1>8. FilesAreFunctions' /\ CopiesAreThere' /\ ManifestOfArchive' /\ ChecksumsOfArchive'
  BY <1>1, <1>3 DEF BundleInv, FilesAreFunctions, CopiesAreThere, ManifestOfArchive,
    ChecksumsOfArchive
<1>9. InstalledAtEnd'
  BY <1>1 DEF InstalledAtEnd
<1> QED
  BY <1>5, <1>7, <1>8, <1>9 DEF BundleInv

\* The steps that leave the files alone.
LEMMA EndStep ==
    ASSUME BundleInv,
           OpenZip \/ Return \/ Raise \/ Install
    PROVE  BundleInv'
<1>1. UNCHANGED <<artifacts, copied, archive, manifest, checksums, zip>>
  BY DEF OpenZip, Return, Raise, Install, outputs, disk
<1>2. /\ OpenZip => build_step = "opening" /\ build_step' = "zipping"
      /\ Return => /\ build_step = "zipping" /\ build_step' = "returned"
                          /\ DOMAIN zip = DOMAIN archive
      /\ Raise => build_step' = "raised"
      /\ Install => build_step' = build_step
  BY DEF OpenZip, Return, Raise, Install
<1>3. BTypeOK'
  BY <1>1 DEF BundleInv, BTypeOK, OpenZip, Return, Raise,
    Install, disk, CleanUp, BuildEnds, outputs
<1>4. FilesAreFunctions' /\ CopiesAreThere'
  BY <1>1, <1>2 DEF BundleInv, FilesAreFunctions, CopiesAreThere
<1>5. ManifestOfArchive'
  BY <1>1, <1>2 DEF BundleInv, ManifestOfArchive, BeforeManifest
<1>6. ChecksumsOfArchive'
  BY <1>1, <1>2 DEF BundleInv, ChecksumsOfArchive, BeforeManifest
<1>7. ZipOfArchive'
  BY <1>1, <1>2 DEF BundleInv, ZipOfArchive, BeforeManifest, BeforeZip
<1>8. InstalledAtEnd'
  BY <1>1 DEF BundleInv, InstalledAtEnd, OpenZip, Return, Raise,
    Install, disk, BuildEnds
<1> QED
  BY <1>3, <1>4, <1>5, <1>6, <1>7, <1>8 DEF BundleInv

\* Every step keeps the invariant.
LEMMA BundleStep ==
    ASSUME BundleInv, [BNext]_bvars
    PROVE  BundleInv'
<1>1. CASE UNCHANGED bvars
  BY <1>1 DEF bvars, outputs, disk, BundleInv, BTypeOK,
    FilesAreFunctions, CopiesAreThere, ManifestOfArchive, ChecksumsOfArchive, ZipOfArchive,
    InstalledAtEnd
<1> QED
  BY <1>1, GatherStep, CopyArtifactStep, CopyMetadataStep, WriteManifestStep,
    WriteChecksumsStep, WriteMemberStep, EndStep DEF BNext

\* It holds of every reachable state.
LEMMA BundleInvariant ==
    BSpec => []BundleInv
<1>1. BInit => BundleInv
  <2> SUFFICES ASSUME BInit PROVE BundleInv
    OBVIOUS
  <2>1. /\ DOMAIN << >> = {} /\ << >> \in Seq(Artifacts) /\ Len(<< >>) = 0
    OBVIOUS
  <2>2. /\ build_step = "checking"
        /\ DOMAIN archive = {} /\ DOMAIN checksums = {} /\ DOMAIN zip = {}
        /\ artifacts = << >> /\ copied = 0 /\ zip = << >>
    BY <2>1 DEF BInit
  <2>3. BTypeOK
    <3>1. artifacts \in Seq(Artifacts) /\ copied \in 0..Len(artifacts)
      BY <2>1, <2>2
    <3>2. AreFiles(archive) /\ AreFiles(checksums) /\ AreFiles(zip)
      BY <2>2 DEF AreFiles
    <3> QED
      BY <3>1, <3>2 DEF BInit, BTypeOK, BuildEnds
  <2>4. FilesAreFunctions
    <3>1. << >> = [f \in DOMAIN << >> |-> << >>[f]]
      OBVIOUS
    <3> QED
      BY <3>1 DEF BInit, FilesAreFunctions
  <2>5. CopiesAreThere /\ ManifestOfArchive /\ ChecksumsOfArchive
    BY <2>2 DEF BInit, CopiesAreThere, ManifestOfArchive, ChecksumsOfArchive
  <2>6. ZipOfArchive /\ InstalledAtEnd
    BY <2>2 DEF BInit, ZipOfArchive, InstalledAtEnd
  <2> QED
    BY <2>3, <2>4, <2>5, <2>6 DEF BundleInv
<1> QED
  BY <1>1, BundleStep, PTL DEF BSpec

\* The builder's variables keep their types, and no build leaves its directory.
THEOREM BundleTypeCorrect ==
    BSpec => []BTypeOK
<1>1. BundleInv => BTypeOK
  BY DEF BundleInv
<1> QED
  BY <1>1, BundleInvariant, PTL

\* What a bundle that is handed over says about its own contents is true.
THEOREM BundleSaysTrue ==
    BSpec => []BundleIsTrue
<1>1. ASSUME BundleInv
      PROVE  BundleIsTrue
  <2>1. ManifestIsTrue
    <3>1. ASSUME outcome = "handed_over", bundle = "new", NEW e \in manifest
          PROVE  e[1] \in DOMAIN zip /\ zip[e[1]] = e[2]
      <4>1. "manifest.json" \in DOMAIN zip
        BY <1>1, <3>1 DEF BundleInv, InstalledAtEnd
      <4>2. e[1] \in Names \cap DOMAIN archive /\ archive[e[1]] = e[2]
        BY <1>1, <3>1 DEF BundleInv, ManifestOfArchive
      <4>3. Rank(e[1]) < Rank("manifest.json")
        BY <4>2, Ranks
      <4> QED
        BY <1>1, <4>1, <4>2, <4>3 DEF BundleInv, ZipOfArchive
    <3>2. build_step = "returned" => outcome # "refused"
      BY <1>1 DEF BundleInv, InstalledAtEnd, ManifestOfArchive, ZipOfArchive
    <3> QED
      BY <3>1, <3>2 DEF ManifestIsTrue
  <2>2. ChecksumsAreTrue
    BY <1>1 DEF BundleInv, ChecksumsOfArchive, ZipOfArchive, ChecksumsAreTrue
  <2> QED
    BY <2>1, <2>2 DEF BundleIsTrue
<1> QED
  BY <1>1, BundleInvariant, PTL

\* A build that fails before it copies leaves the old bundle alone.
THEOREM OldBundleSurvives ==
    BSpec => OldSurvives
<1>1. ASSUME [BNext]_bvars, bundle = "old", bundle' # "old"
      PROVE  build_step \notin {"checking", "building", "sdk", "downloading"}
  BY <1>1 DEF bvars, outputs, disk, BNext, MakeTemp,
    BuildWheel, BuildSdk, AddDependency, EndDownload,
    AddExtra, RemoveOld, CopyArtifact, CopyMetadata,
    WriteManifest, WriteChecksums, OpenZip, WriteMember,
    Return, Raise, Install
<1>2. [BNext]_bvars =>
         [bundle = "old" /\ bundle' # "old" =>
            build_step \notin {"checking", "building", "sdk", "downloading"}]_bvars
  BY <1>1
<1> QED
  BY <1>2, PTL DEF BSpec, OldSurvives

-----------------------------------------------------------------------------
(* The wizard of the system test.                                           *)

\* The family at hand is none of those that were assigned, which are the used ones.
FamilyIsNew ==
    /\ used = {assignments[i].sensor : i \in DOMAIN assignments}
    /\ \A i, j \in DOMAIN assignments :
          assignments[i].sensor = assignments[j].sensor => i = j
    /\ step \in {"algorithm", "choice", "count", "location"} => sensor \in sensors \ used

\* The algorithms of the assignments, and the one at hand, were candidates.
AlgorithmsGo ==
    /\ \A i \in DOMAIN assignments :
          assignments[i].algorithm \in Candidates(assignments[i].sensor, assignments[i].catalog)
    /\ step \in {"count", "location"} => algorithm \in Candidates(sensor, catalog)

\* The count that was accepted fits a subject.
CountFits ==
    /\ total \in 0..MaxPerSubject
    /\ step = "location" => sensor_count \in 1..(MaxPerSubject - total)

\* The locations chosen for the family at hand are its own, free and different.
SelectionIsFree ==
    /\ step \in {"algorithm", "choice", "count"} => selected = << >>
    /\ step = "location" =>
          /\ Len(selected) <= sensor_count
          /\ \A i \in 1..Len(selected) : selected[i] \in Supports[sensor] \ occupied
          /\ \A i, j \in 1..Len(selected) : selected[i] = selected[j] => i = j

\* What is occupied is where the sensors of the assignments are, each in its own place.
PlacesAreOccupied ==
    /\ \A i \in DOMAIN assignments : Len(assignments[i].locations) <= MaxPerSubject
    /\ occupied = {Place(p) : p \in Placed}
    /\ \A p, q \in Placed : Place(p) = Place(q) => p = q
    /\ \A p \in Placed : Place(p) \in Supports[assignments[p[1]].sensor]
    /\ IsFiniteSet(Placed) /\ total = Cardinality(Placed)

\* The first assignment is that of the current plugin, as far as it is among the options;
\* a prompt offers none that passes for it.
FirstIsCurrent ==
    assignments = << >> =>
        /\ step \in {"algorithm", "choice", "count", "location"} /\ current_plugin \in sensors =>
              sensor = current_plugin
        /\ step \in {"choice", "count", "location"} /\ current_plugin \in Algorithms =>
              display_name \in live \/ Lower[current_plugin] \in catalog
        /\ step = "choice" /\ current_plugin \in Algorithms =>
              \A p \in Candidates(sensor, catalog) : ~IsCurrent(p)
        /\ step \in {"count", "location"} /\ current_plugin \in Algorithms =>
              /\ current_plugin \in Candidates(sensor, catalog) => IsTested(sensor, algorithm)
              /\ (\E p \in Candidates(sensor, catalog) : NameOf[p] = display_name) =>
                    algorithm = current_plugin \/ NameOf[algorithm] = display_name

WizardInv ==
    /\ TypeOK
    /\ FamilyIsNew
    /\ AlgorithmsGo
    /\ CountFits
    /\ SelectionIsFree
    /\ PlacesAreOccupied
    /\ FirstIsCurrent
    /\ ShortOnlyIfOvercounted
    /\ CurrentIsTested

\* A family has finitely many locations.
LEMMA FamilyLocations ==
    ASSUME NEW f \in Families
    PROVE  /\ Supports[f] \subseteq Locations /\ IsFiniteSet(Supports[f])
           /\ Cardinality(Supports[f]) \in Nat
<1>1. Supports[f] \in SUBSET Locations /\ IsFiniteSet(Locations)
  BY SupportedLocations, LocationsAreFinite
<1> QED
  BY <1>1, FS_Subset, FS_CardinalityType

\* The catalog keeps one plugin of a name.
LEMMA KeptIsOne ==
    ASSUME NEW cat, NEW p \in Algorithms, NEW q \in Algorithms, Kept(p, cat), Kept(q, cat),
           NameOf[p] = NameOf[q]
    PROVE  p = q
<1>1. Order[p] \in Nat /\ Order[q] \in Nat /\ Order[p] <= Order[q] /\ Order[q] <= Order[p]
  BY NamedAlgorithms DEF Kept
<1> QED
  BY <1>1, NamedAlgorithms

\* Of two names, at most one precedes the other.
LEMMA PrecedesOneWay ==
    ASSUME NEW f \in Families, NEW m, NEW n, Precedes(f, m, n)
    PROVE  ~Precedes(f, n, m)
<1>1. Computes[f] \in Seq(AlgorithmNames) /\ DOMAIN Computes[f] = 1..Len(Computes[f])
      /\ Len(Computes[f]) \in Nat
  BY ListedAlgorithms
<1>2. PICK i \in DOMAIN Computes[f] :
         Computes[f][i] = m /\ \A j \in 1..i : Computes[f][j] # n
  BY DEF Precedes
<1>3. SUFFICES ASSUME NEW k \in DOMAIN Computes[f], Computes[f][k] = n,
                      \A j \in 1..k : Computes[f][j] # m
               PROVE  FALSE
  BY DEF Precedes
<1>4. i \in Nat /\ k \in Nat /\ i >= 1 /\ k >= 1
  BY <1>1
<1>5. i \in 1..k \/ k \in 1..i
  BY <1>4
<1> QED
  BY <1>2, <1>3, <1>5

\* If no candidate is taken for the current algorithm plugin, none passes for it.
LEMMA NoneTaken ==
    ASSUME NEW f \in Families, NEW cat, Preselected(f, Candidates(f, cat)) = {},
           assignments = << >>, current_plugin \in Algorithms
    PROVE  \A p \in Candidates(f, cat) : ~IsCurrent(p)
<1> DEFINE options == Candidates(f, cat)
<1>1. SUFFICES ASSUME NEW p \in options, IsCurrent(p)
               PROVE  FALSE
  OBVIOUS
<1>2. \A o \in options : o \in Algorithms /\ Kept(o, cat)
  BY DEF Candidates
<1> HIDE DEF options
<1>3. ASSUME NEW o \in options, IsCurrent(o)
      PROVE  \E q \in options : q # o /\ IsCurrent(q) /\ Precedes(f, NameOf[q], NameOf[o])
  BY <1>3 DEF Preselected, options
<1>4. PICK q \in options : q # p /\ IsCurrent(q) /\ Precedes(f, NameOf[q], NameOf[p])
  BY <1>1, <1>3
<1>5. PICK o \in options : o # q /\ IsCurrent(o) /\ Precedes(f, NameOf[o], NameOf[q])
  BY <1>3, <1>4
<1>6. o = p
  BY <1>1, <1>2, <1>4, <1>5, KeptIsOne DEF IsCurrent
<1> QED
  BY <1>4, <1>5, <1>6, PrecedesOneWay

\* What follows from the plan alone stays with it.
LEMMA PlanStays ==
    ASSUME WizardInv, UNCHANGED <<live, plan>>
    PROVE  /\ PlacesAreOccupied' /\ used' = used /\ occupied' = occupied /\ total' = total
           /\ assignments' = assignments
           /\ used' = {assignments'[i].sensor : i \in DOMAIN assignments'}
           /\ \A i, j \in DOMAIN assignments' :
                 assignments'[i].sensor = assignments'[j].sensor => i = j
           /\ \A i \in DOMAIN assignments' : assignments'[i].algorithm \in
                 Candidates(assignments'[i].sensor, assignments'[i].catalog)
           /\ \A f, cat : Candidates(f, cat)' = Candidates(f, cat)
<1>1. UNCHANGED <<live, used, occupied, total, assignments>>
  BY DEF plan
<1>2. Placed' = Placed
  BY <1>1 DEF Placed
<1>3. \A p : Place(p)' = Place(p)
  BY <1>1 DEF Place
<1>4. PlacesAreOccupied'
  BY <1>1, <1>2, <1>3 DEF WizardInv, PlacesAreOccupied
<1> QED
  BY <1>1, <1>4 DEF WizardInv, FamilyIsNew, AlgorithmsGo, Candidates

\* The wizard ends, or goes back to choosing a family.
LEMMA WizardTurns ==
    ASSUME WizardInv, Cancel \/ NoSensorLeft \/ AddAnother
    PROVE  WizardInv'
<1>1. /\ UNCHANGED <<sensors, live, current_plugin, display_name, installed, changes, sensor,
                     catalog, algorithm, sensor_count, selected, used, occupied, total,
                     assignments>>
      /\ UNCHANGED <<live, plan>>
      /\ step' \in {"sensor", "done", "cancelled"}
  BY DEF Cancel, NoSensorLeft, AddAnother, given, current,
    plan
<1>2. TypeOK'
  BY <1>1 DEF WizardInv, TypeOK, Prompts, Ends
<1>3. PlacesAreOccupied' /\ FamilyIsNew' /\ AlgorithmsGo'
  BY <1>1, PlanStays DEF FamilyIsNew, AlgorithmsGo
<1>4. CountFits' /\ SelectionIsFree' /\ FirstIsCurrent' /\ ShortOnlyIfOvercounted'
  BY <1>1 DEF WizardInv, CountFits, SelectionIsFree, FirstIsCurrent,
    ShortOnlyIfOvercounted
<1>5. CurrentIsTested'
  BY <1>1 DEF WizardInv, CurrentIsTested, Candidates, IsTested
<1> QED
  BY <1>2, <1>3, <1>4, <1>5 DEF WizardInv

\* Another shell changes the catalog.
LEMMA CatalogStep ==
    ASSUME WizardInv, ChangeCatalog
    PROVE  WizardInv'
<1>1. /\ UNCHANGED <<sensors, live, current_plugin, display_name, step, sensor, catalog,
                     algorithm, sensor_count, selected, used, occupied, total, assignments>>
      /\ UNCHANGED <<live, plan>> /\ step \notin Ends
      /\ changes < MaxChanges /\ changes' = changes + 1
      /\ \E a \in Algorithms : installed' = IF a \in installed THEN installed \ {a}
                                            ELSE installed \cup {a}
  BY DEF ChangeCatalog, given, current, plan
<1>2. changes \in Nat /\ changes' # 0 /\ changes' \in 0..MaxChanges
  BY <1>1, ChangeBound DEF WizardInv, TypeOK
<1>3. TypeOK'
  BY <1>1, <1>2 DEF WizardInv, TypeOK
<1>4. PlacesAreOccupied' /\ FamilyIsNew' /\ AlgorithmsGo'
  BY <1>1, PlanStays DEF WizardInv, FamilyIsNew, AlgorithmsGo
<1>5. CountFits' /\ SelectionIsFree' /\ ShortOnlyIfOvercounted'
  BY <1>1 DEF WizardInv, CountFits, SelectionIsFree, ShortOnlyIfOvercounted,
    Ends
<1>6. FirstIsCurrent' /\ CurrentIsTested'
  BY <1>1, <1>2 DEF WizardInv, FirstIsCurrent, CurrentIsTested, Candidates, IsCurrent, IsTested,
    Ends
<1> QED
  BY <1>3, <1>4, <1>5, <1>6 DEF WizardInv

\* A family is chosen, the first time the current plugin if it is one of the families.
LEMMA ChooseSensorStep ==
    ASSUME WizardInv, ChooseSensor
    PROVE  WizardInv'
<1>1. /\ UNCHANGED <<sensors, live, current_plugin, display_name, installed, changes, catalog,
                     algorithm, used, occupied, total, assignments>>
      /\ UNCHANGED <<live, plan>>
      /\ step' = "algorithm" /\ sensor_count' = 0 /\ selected' = << >>
      /\ sensor' \in Preferred(sensors \ used)
  BY DEF ChooseSensor, given, plan
<1>2. sensor' \in sensors \ used
  BY <1>1 DEF Preferred
<1>3. TypeOK'
  BY <1>1, <1>2, RoomForSensors DEF WizardInv, TypeOK, Prompts
<1>4. PlacesAreOccupied' /\ FamilyIsNew' /\ AlgorithmsGo'
  BY <1>1, <1>2, PlanStays DEF FamilyIsNew, AlgorithmsGo
<1>5. CountFits' /\ SelectionIsFree' /\ ShortOnlyIfOvercounted'
  BY <1>1 DEF WizardInv, CountFits, SelectionIsFree, ShortOnlyIfOvercounted
<1>6. FirstIsCurrent'
  <2>1. assignments = << >> => used = {}
    BY DEF WizardInv, FamilyIsNew
  <2> QED
    BY <1>1, <2>1 DEF FirstIsCurrent, Preferred
<1>7. CurrentIsTested'
  BY <1>1 DEF WizardInv, CurrentIsTested, Candidates, IsTested
<1> QED
  BY <1>3, <1>4, <1>5, <1>6, <1>7 DEF WizardInv

\* The algorithms are read: there is none, or the current one is taken, or they are
\* offered.
LEMMA ReadAlgorithmsStep ==
    ASSUME WizardInv, NoAlgorithm \/ TakeCurrent \/ OfferAlgorithms
    PROVE  WizardInv'
<1>1. /\ UNCHANGED <<sensors, live, current_plugin, display_name, installed, changes, sensor,
                     sensor_count, selected, used, occupied, total, assignments>>
      /\ UNCHANGED <<live, plan>> /\ step = "algorithm" /\ catalog' = installed
      /\ \/ /\ step' = "no_algorithm" /\ algorithm' = algorithm
            /\ CurrentIsMissing(installed) \/ Candidates(sensor, installed) = {}
         \/ /\ step' = "count" /\ ~CurrentIsMissing(installed)
            /\ algorithm' \in Preselected(sensor, Candidates(sensor, installed))
         \/ /\ step' = "choice" /\ algorithm' = algorithm /\ ~CurrentIsMissing(installed)
            /\ Preselected(sensor, Candidates(sensor, installed)) = {}
  BY DEF NoAlgorithm, TakeCurrent, OfferAlgorithms, given, plan
<1>2. \A f, cat : Candidates(f, cat)' = Candidates(f, cat)
  BY <1>1 DEF Candidates
<1>3. step' = "count" => algorithm' \in Candidates(sensor, installed)
  BY <1>1 DEF Preselected
<1>4. installed \subseteq Algorithms /\ sensor \in Families
  BY DEF WizardInv, TypeOK
<1>5. TypeOK'
  BY <1>1, <1>3, <1>4 DEF WizardInv, TypeOK, Prompts, Ends, Candidates
<1>6. PlacesAreOccupied' /\ FamilyIsNew' /\ AlgorithmsGo'
  BY <1>1, <1>3, PlanStays DEF WizardInv, FamilyIsNew, AlgorithmsGo, Candidates
<1>7. CountFits' /\ SelectionIsFree' /\ ShortOnlyIfOvercounted'
  BY <1>1 DEF WizardInv, CountFits, SelectionIsFree, ShortOnlyIfOvercounted
<1>8. FirstIsCurrent'
  <2>1. SUFFICES ASSUME assignments = << >>
                 PROVE  FirstIsCurrent'
    BY <1>1 DEF FirstIsCurrent
  <2>2. current_plugin \in sensors => sensor = current_plugin
    BY <1>1, <2>1 DEF WizardInv, FirstIsCurrent
  <2>3. CASE step' = "no_algorithm"
    BY <1>1, <2>2, <2>3 DEF FirstIsCurrent
  <2>4. CASE step' \in {"choice", "count"}
    <3>1. current_plugin \in Algorithms =>
             display_name \in live \/ Lower[current_plugin] \in installed
      BY <1>1, <2>1, <2>4 DEF CurrentIsMissing
    <3>2. step' = "choice" /\ current_plugin \in Algorithms =>
             \A p \in Candidates(sensor, installed) : ~IsCurrent(p)
      BY <1>1, <1>4, <2>1, NoneTaken
    <3>3. step' = "count" => /\ current_plugin \in Algorithms
                             /\ IsCurrent(algorithm')
                             /\ \A q \in Candidates(sensor, installed) :
                                   q # algorithm' /\ IsCurrent(q) =>
                                      ~Precedes(sensor, NameOf[q], NameOf[algorithm'])
      BY <1>1 DEF Preselected
    <3>4. step' = "count" =>
             \/ algorithm' = current_plugin
             \/ /\ NameOf[algorithm'] = display_name
                /\ current_plugin \in Candidates(sensor, installed) =>
                      ~Precedes(sensor, NameOf[current_plugin], display_name)
      BY <3>3 DEF IsCurrent
    <3> QED
      BY <1>1, <2>2, <2>4, <3>1, <3>2, <3>4 DEF FirstIsCurrent, Candidates, IsCurrent, IsTested
  <2> QED
    BY <1>1, <2>3, <2>4
<1>9. CurrentIsTested'
  <2>1. ASSUME step' = "no_algorithm", assignments = << >>,
               current_plugin \in Candidates(sensor, installed)
        PROVE  Lower[current_plugin] # current_plugin /\ display_name \notin live
    <3>1. Kept(current_plugin, installed)
      BY <2>1 DEF Candidates
    <3>2. CurrentIsMissing(installed)
      BY <1>1, <2>1
    <3> QED
      BY <3>1, <3>2 DEF CurrentIsMissing, Kept
  <2>2. ASSUME step' = "no_algorithm", assignments = << >>,
               current_plugin \in Candidates(sensor, catalog)'
        PROVE  Lower[current_plugin] # current_plugin /\ display_name \notin live
    BY <1>1, <2>1, <2>2 DEF Candidates
  <2> QED
    BY <1>1, <2>2 DEF WizardInv, CurrentIsTested, Candidates, IsTested
<1> QED
  BY <1>5, <1>6, <1>7, <1>8, <1>9 DEF WizardInv

\* An algorithm is chosen among those that were offered.
LEMMA ChooseAlgorithmStep ==
    ASSUME WizardInv, ChooseAlgorithm
    PROVE  WizardInv'
<1>1. /\ UNCHANGED <<sensors, live, current_plugin, display_name, installed, changes, sensor,
                     catalog, sensor_count, selected, used, occupied, total, assignments>>
      /\ UNCHANGED <<live, plan>> /\ step = "choice" /\ step' = "count"
      /\ algorithm' \in Candidates(sensor, catalog)
  BY DEF ChooseAlgorithm, given, plan
<1>2. TypeOK'
  BY <1>1 DEF WizardInv, TypeOK, Prompts, Candidates
<1>3. PlacesAreOccupied' /\ FamilyIsNew' /\ AlgorithmsGo'
  BY <1>1, PlanStays DEF WizardInv, FamilyIsNew, AlgorithmsGo, Candidates
<1>4. CountFits' /\ SelectionIsFree' /\ ShortOnlyIfOvercounted'
  BY <1>1 DEF WizardInv, CountFits, SelectionIsFree, ShortOnlyIfOvercounted
<1>5. FirstIsCurrent'
  BY <1>1 DEF WizardInv, FirstIsCurrent, Candidates, IsCurrent, IsTested
<1>6. CurrentIsTested'
  BY <1>1 DEF WizardInv, CurrentIsTested, Candidates, IsTested
<1> QED
  BY <1>2, <1>3, <1>4, <1>5, <1>6 DEF WizardInv

\* A count is accepted that a subject has room for, or there is none.
LEMMA ChooseCountStep ==
    ASSUME WizardInv, ChooseCount
    PROVE  WizardInv'
<1>1. /\ UNCHANGED <<sensors, live, current_plugin, display_name, installed, changes, sensor,
                     catalog, algorithm, selected, used, occupied, total, assignments>>
      /\ UNCHANGED <<live, plan>> /\ step = "count"
      /\ \/ step' = "too_many" /\ sensor_count' = sensor_count
         \/ step' = "location" /\ sensor_count' \in 1..MaxCount(sensor)
  BY DEF ChooseCount, given, plan
<1>2. sensor \in Families /\ total \in 0..MaxPerSubject /\ MaxPerSubject \in Nat
  BY RoomForSensors DEF WizardInv, TypeOK
<1>3. step' = "location" => sensor_count' \in 1..(MaxPerSubject - total)
  BY <1>1, <1>2, FamilyLocations DEF MaxCount
<1>4. sensor_count' \in 0..MaxPerSubject
  BY <1>1, <1>2, <1>3 DEF WizardInv, TypeOK
<1>5. TypeOK'
  BY <1>1, <1>4 DEF WizardInv, TypeOK, Prompts, Ends
<1>6. PlacesAreOccupied' /\ FamilyIsNew' /\ AlgorithmsGo'
  BY <1>1, PlanStays DEF WizardInv, FamilyIsNew, AlgorithmsGo
<1>7. CountFits'
  BY <1>1, <1>3 DEF WizardInv, CountFits
<1>8. SelectionIsFree'
  <2>1. selected' = << >>
    BY <1>1 DEF WizardInv, SelectionIsFree
  <2> QED
    BY <1>1, <1>2, <1>3, <2>1 DEF SelectionIsFree
<1>9. FirstIsCurrent' /\ ShortOnlyIfOvercounted'
  BY <1>1 DEF WizardInv, FirstIsCurrent, Candidates, IsCurrent, IsTested, ShortOnlyIfOvercounted
<1>10. CurrentIsTested'
  BY <1>1 DEF WizardInv, CurrentIsTested, Candidates, IsTested
<1> QED
  BY <1>5, <1>6, <1>7, <1>8, <1>9, <1>10 DEF WizardInv

\* A location is chosen that is neither occupied nor chosen before.
LEMMA ChooseLocationStep ==
    ASSUME WizardInv, ChooseLocation
    PROVE  WizardInv'
<1>1. /\ UNCHANGED <<sensors, live, current_plugin, display_name, installed, changes, sensor,
                     catalog, algorithm, sensor_count, used, occupied, total, assignments>>
      /\ UNCHANGED <<live, plan>> /\ step = "location" /\ step' = "location"
      /\ Len(selected) < sensor_count
  BY DEF ChooseLocation, given, plan
<1>2. PICK l \in Remaining(sensor) : selected' = Append(selected, l)
  BY DEF ChooseLocation
<1>3. /\ sensor \in Families /\ selected \in Seq(Locations) /\ sensor_count \in Nat
      /\ Len(selected) \in Nat
  BY DEF WizardInv, TypeOK
<1>4. /\ l \in Supports[sensor] \ occupied /\ l \in Locations
      /\ \A i \in 1..Len(selected) : selected[i] # l
  BY <1>3, FamilyLocations DEF Remaining, ToSet
<1>5. /\ selected' \in Seq(Locations) /\ Len(selected') = Len(selected) + 1
      /\ \A i \in 1..Len(selected') :
            selected'[i] = IF i = Len(selected') THEN l ELSE selected[i]
  BY <1>2, <1>3, <1>4
<1>6. TypeOK'
  BY <1>1, <1>5 DEF WizardInv, TypeOK
<1>7. PlacesAreOccupied' /\ FamilyIsNew' /\ AlgorithmsGo'
  BY <1>1, PlanStays DEF WizardInv, FamilyIsNew, AlgorithmsGo
<1>8. SelectionIsFree'
  <2>1. /\ \A i \in 1..Len(selected) : selected[i] \in Supports[sensor] \ occupied
        /\ \A i, j \in 1..Len(selected) : selected[i] = selected[j] => i = j
    BY <1>1 DEF WizardInv, SelectionIsFree
  <2>2. Len(selected') <= sensor_count
    BY <1>1, <1>3, <1>5
  <2>3. ASSUME NEW i \in 1..Len(selected')
        PROVE  /\ selected'[i] \in Supports[sensor] \ occupied
               /\ i # Len(selected') => i \in 1..Len(selected) /\ selected'[i] # l
    BY <1>3, <1>4, <1>5, <2>1
  <2>4. ASSUME NEW i \in 1..Len(selected'), NEW j \in 1..Len(selected'),
               selected'[i] = selected'[j]
        PROVE  i = j
    BY <1>5, <2>1, <2>3, <2>4
  <2> QED
    BY <1>1, <2>2, <2>3, <2>4 DEF SelectionIsFree
<1>9. CountFits' /\ FirstIsCurrent' /\ ShortOnlyIfOvercounted'
  BY <1>1 DEF WizardInv, CountFits, FirstIsCurrent, Candidates, IsCurrent, IsTested,
    ShortOnlyIfOvercounted
<1>10. CurrentIsTested'
  BY <1>1 DEF WizardInv, CurrentIsTested, Candidates, IsTested
<1> QED
  BY <1>6, <1>7, <1>8, <1>9, <1>10 DEF WizardInv

\* There are k numbers from 1 to k.
LEMMA FirstNumbers ==
    ASSUME NEW k \in Nat
    PROVE  IsFiniteSet(1..k) /\ Cardinality(1..k) = k
BY FS_Interval

\* The wizard gives up: the free locations of the family were all chosen, and are fewer
\* than the count.
LEMMA NoLocationStep ==
    ASSUME WizardInv, NoLocationLeft
    PROVE  WizardInv'
<1>1. /\ UNCHANGED <<sensors, live, current_plugin, display_name, installed, changes, sensor,
                     catalog, algorithm, sensor_count, selected, used, occupied, total,
                     assignments>>
      /\ UNCHANGED <<live, plan>> /\ step = "location" /\ step' = "no_location"
      /\ Len(selected) < sensor_count /\ Remaining(sensor) = {}
  BY DEF NoLocationLeft, given, current, plan
<1>2. TypeOK'
  BY <1>1 DEF WizardInv, TypeOK, Ends
<1>3. PlacesAreOccupied' /\ FamilyIsNew' /\ AlgorithmsGo'
  BY <1>1, PlanStays DEF FamilyIsNew, AlgorithmsGo
<1>4. CountFits' /\ SelectionIsFree' /\ FirstIsCurrent'
  BY <1>1 DEF WizardInv, CountFits, SelectionIsFree, FirstIsCurrent
<1>5. CurrentIsTested'
  BY <1>1 DEF WizardInv, CurrentIsTested, Candidates, IsTested
<1>6. ShortOnlyIfOvercounted'
  <2> DEFINE free == Supports[sensor] \ occupied
             chosen == {selected[i] : i \in 1..Len(selected)}
  <2>1. /\ sensor \in Families /\ selected \in Seq(Locations) /\ sensor_count \in Nat
        /\ Len(selected) \in Nat
    BY DEF WizardInv, TypeOK
  <2>2. free \subseteq chosen
    BY <1>1, <2>1 DEF Remaining, ToSet
  <2>3. selected \in Surjection(1..Len(selected), chosen)
    <3>1. selected \in [1..Len(selected) -> chosen]
      BY <2>1
    <3> QED
      BY <3>1, Fun_IsSurj
  <2>4. IsFiniteSet(1..Len(selected)) /\ Cardinality(1..Len(selected)) = Len(selected)
    BY <2>1, FirstNumbers
  <2> HIDE DEF free, chosen
  <2>5. IsFiniteSet(chosen) /\ Cardinality(chosen) <= Len(selected)
    BY <2>3, <2>4, FS_Surjection
  <2>6. Cardinality(free) <= Cardinality(chosen) /\ Cardinality(free) \in Nat
        /\ Cardinality(chosen) \in Nat
    BY <2>2, <2>5, FS_Subset, FS_CardinalityType
  <2>7. sensor_count > Cardinality(free)
    BY <1>1, <2>1, <2>5, <2>6
  <2>8. {Place(p) : p \in Placed}' = occupied
    BY <1>1, <1>3 DEF PlacesAreOccupied
  <2> QED
    BY <1>1, <2>7, <2>8 DEF ShortOnlyIfOvercounted, free
<1> QED
  BY <1>2, <1>3, <1>4, <1>5, <1>6 DEF WizardInv

\* The sensors of the plan after one more assignment.
LEMMA PlacedAfter ==
    ASSUME WizardInv, Assign
    PROVE  /\ Placed' = Placed
                  \cup ({Len(assignments) + 1} \X (1..Len(selected)))
           /\ \A p \in Placed :
                 p[1] \in 1..Len(assignments) /\ Place(p)' = Place(p)
           /\ \A p \in {Len(assignments) + 1} \X (1..Len(selected)) :
                 /\ p[1] = Len(assignments) + 1 /\ p[2] \in 1..Len(selected)
                 /\ p = <<Len(assignments) + 1, p[2]>> /\ Place(p)' = selected[p[2]]
<1> DEFINE n == Len(assignments)
           r == [sensor |-> sensor, algorithm |-> algorithm, catalog |-> catalog,
                 locations |-> selected]
           new == {n + 1} \X (1..Len(selected))
<1>1. /\ n \in Nat /\ DOMAIN assignments = 1..n /\ selected \in Seq(Locations)
      /\ Len(selected) \in Nat /\ MaxPerSubject \in Nat
  BY RoomForSensors DEF WizardInv, TypeOK
<1>2. Len(selected) <= MaxPerSubject
  <2>1. /\ sensor_count \in 1..(MaxPerSubject - total) /\ total \in 0..MaxPerSubject
        /\ Len(selected) = sensor_count
    BY DEF Assign, WizardInv, CountFits
  <2> QED
    BY <1>1, <2>1
<1>3. /\ assignments' = Append(assignments, r) /\ DOMAIN assignments' = 1..(n + 1)
      /\ assignments'[n + 1] = r /\ \A i \in 1..n : assignments'[i] = assignments[i]
  <2>1. assignments \in Seq([sensor : Families, algorithm : Algorithms,
                             catalog : SUBSET Algorithms, locations : Seq(Locations)])
    BY DEF WizardInv, TypeOK
  <2> QED
    BY <2>1 DEF Assign
<1> HIDE DEF n, r
<1>4. r.locations = selected
  BY DEF r
<1>5. ASSUME NEW p
      PROVE  p \in Placed' <=> p \in Placed \cup new
  <2>1. p \in Placed <=>
           /\ p \in (1..n) \X (1..MaxPerSubject) /\ p[2] <= Len(assignments[p[1]].locations)
    BY <1>1 DEF Placed
  <2>2. p \in Placed' <=>
           /\ p \in (1..(n + 1)) \X (1..MaxPerSubject)
           /\ p[2] <= Len(assignments'[p[1]].locations)
    BY <1>3 DEF Placed
  <2>3. CASE p \in (1..n) \X (1..MaxPerSubject)
    <3>1. p[1] \in 1..n /\ p[1] # n + 1 /\ p \in (1..(n + 1)) \X (1..MaxPerSubject)
      BY <1>1, <2>3
    <3>2. p \notin new
      BY <3>1
    <3> QED
      BY <1>3, <2>1, <2>2, <2>3, <3>1, <3>2
  <2>4. CASE p \in {n + 1} \X (1..MaxPerSubject)
    <3>1. /\ p[1] = n + 1 /\ p[2] \in 1..MaxPerSubject /\ p = <<n + 1, p[2]>>
          /\ p \in (1..(n + 1)) \X (1..MaxPerSubject)
          /\ p \notin (1..n) \X (1..MaxPerSubject)
      BY <1>1, <2>4
    <3>2. p \in Placed' <=> p[2] <= Len(selected)
      BY <1>3, <1>4, <2>2, <3>1
    <3>3. p \in new <=> p[2] <= Len(selected)
      BY <1>1, <3>1
    <3> QED
      BY <2>1, <3>1, <3>2, <3>3
  <2>5. CASE p \notin (1..(n + 1)) \X (1..MaxPerSubject)
    <3>1. p \notin new
      BY <1>1, <1>2, <2>5
    <3>2. p \notin (1..n) \X (1..MaxPerSubject)
      BY <1>1, <2>5
    <3> QED
      BY <2>1, <2>2, <2>5, <3>1, <3>2
  <2> QED
    BY <1>1, <2>3, <2>4, <2>5
<1>6. \A p \in Placed : p[1] \in 1..n /\ Place(p)' = Place(p)
  BY <1>1, <1>3 DEF Placed, Place
<1>7. \A p \in new : /\ p[1] = n + 1 /\ p[2] \in 1..Len(selected) /\ p = <<n + 1, p[2]>>
                    /\ Place(p)' = selected[p[2]]
  <2>1. ASSUME NEW p \in new
        PROVE  /\ p[1] = n + 1 /\ p[2] \in 1..Len(selected) /\ p = <<n + 1, p[2]>>
               /\ Place(p)' = selected[p[2]]
    <3>1. p[1] = n + 1 /\ p[2] \in 1..Len(selected) /\ p = <<n + 1, p[2]>>
      OBVIOUS
    <3>2. Place(p)' = assignments'[p[1]].locations[p[2]]
      BY DEF Place
    <3> QED
      BY <1>3, <1>4, <3>1, <3>2
  <2> QED
    BY <2>1
<1>8. Placed' = Placed \cup new
  BY <1>5
<1> QED
  BY <1>6, <1>7, <1>8 DEF n

\* The new places are as many as the count, and new.
LEMMA NewPlaces ==
    ASSUME NEW n \in Nat, NEW c \in Nat
    PROVE  IsFiniteSet({n} \X (1..c)) /\ Cardinality({n} \X (1..c)) = c
<1>1. IsFiniteSet({n}) /\ Cardinality({n}) = 1
  BY FS_Singleton
<1>2. IsFiniteSet(1..c) /\ Cardinality(1..c) = c
  BY FirstNumbers
<1>3. /\ IsFiniteSet({n} \X (1..c))
      /\ Cardinality({n} \X (1..c)) = Cardinality({n}) * Cardinality(1..c)
  BY <1>1, <1>2, FS_Product
<1> QED
  BY <1>1, <1>2, <1>3

\* The assignment is made.
LEMMA AssignStep ==
    ASSUME WizardInv, Assign
    PROVE  WizardInv'
<1> DEFINE n == Len(assignments)
           r == [sensor |-> sensor, algorithm |-> algorithm, catalog |-> catalog,
                 locations |-> selected]
           new == {n + 1} \X (1..Len(selected))
<1>1. /\ UNCHANGED <<sensors, live, current_plugin, display_name, installed, changes, sensor,
                     catalog, algorithm, sensor_count, selected>>
      /\ step = "location" /\ Len(selected) = sensor_count /\ step' \in {"done", "more"}
      /\ assignments' = Append(assignments, r) /\ used' = used \cup {sensor}
      /\ occupied' = occupied \cup {selected[i] : i \in DOMAIN selected}
      /\ total' = total + sensor_count
  BY DEF Assign, given, current, Occupy, ToSet
<1>2. /\ selected \in Seq(Locations) /\ Len(selected) \in Nat /\ n \in Nat
      /\ DOMAIN selected = 1..Len(selected) /\ MaxPerSubject \in Nat
      /\ assignments \in Seq([sensor : Families, algorithm : Algorithms,
                              catalog : SUBSET Algorithms, locations : Seq(Locations)])
      /\ r \in [sensor : Families, algorithm : Algorithms, catalog : SUBSET Algorithms,
                locations : Seq(Locations)]
  BY RoomForSensors DEF WizardInv, TypeOK
<1>3. /\ sensor_count \in 1..(MaxPerSubject - total) /\ total \in 0..MaxPerSubject
      /\ total' \in 0..MaxPerSubject /\ sensor_count <= MaxPerSubject
  <2>1. sensor_count \in 1..(MaxPerSubject - total) /\ total \in 0..MaxPerSubject
    BY <1>1 DEF WizardInv, CountFits
  <2> QED
    BY <1>1, <1>2, <2>1
<1>4. sensor \in sensors \ used
  BY <1>1 DEF WizardInv, FamilyIsNew
<1>5. /\ r.sensor = sensor /\ r.algorithm = algorithm /\ r.catalog = catalog
      /\ r.locations = selected
  OBVIOUS
<1> HIDE DEF r
<1>6. /\ DOMAIN assignments = 1..n /\ DOMAIN assignments' = 1..(n + 1)
      /\ assignments'[n + 1] = r /\ \A i \in 1..n : assignments'[i] = assignments[i]
      /\ assignments' \in Seq([sensor : Families, algorithm : Algorithms,
                               catalog : SUBSET Algorithms, locations : Seq(Locations)])
  BY <1>1, <1>2
<1>7. TypeOK'
  <2>1. occupied' \subseteq Locations /\ used' \subseteq sensors'
    BY <1>1, <1>2, <1>4 DEF WizardInv, TypeOK
  <2> QED
    BY <1>1, <1>3, <1>6, <2>1 DEF WizardInv, TypeOK, Prompts, Ends
<1> HIDE DEF n
<1>8. FamilyIsNew'
  <2>1. /\ used = {assignments[i].sensor : i \in 1..n}
        /\ \A i, j \in 1..n : assignments[i].sensor = assignments[j].sensor => i = j
    BY <1>6 DEF WizardInv, FamilyIsNew
  <2>2. \A i \in 1..n : assignments'[i].sensor # sensor
    BY <1>4, <1>6, <2>1
  <2>3. \A i \in 1..(n + 1) : i \in 1..n \/ i = n + 1
    BY <1>2 DEF n
  <2>4. used' = {assignments'[i].sensor : i \in 1..(n + 1)}
    <3>1. 1..(n + 1) = (1..n) \cup {n + 1}
      BY <1>2 DEF n
    <3>2. {assignments'[i].sensor : i \in (1..n) \cup {n + 1}} =
             {assignments[i].sensor : i \in 1..n} \cup {sensor}
      BY <1>5, <1>6
    <3> QED
      BY <1>1, <2>1, <3>1, <3>2
  <2>5. \A i, j \in 1..(n + 1) : assignments'[i].sensor = assignments'[j].sensor => i = j
    BY <1>5, <1>6, <2>1, <2>2, <2>3
  <2> QED
    BY <1>1, <1>6, <2>4, <2>5 DEF FamilyIsNew
<1>9. AlgorithmsGo'
  <2>1. /\ \A i \in 1..n : assignments[i].algorithm \in
              Candidates(assignments[i].sensor, assignments[i].catalog)
        /\ algorithm \in Candidates(sensor, catalog)
    BY <1>1, <1>6 DEF WizardInv, AlgorithmsGo
  <2>2. \A i \in 1..(n + 1) : i \in 1..n \/ i = n + 1
    BY <1>2 DEF n
  <2> QED
    BY <1>1, <1>5, <1>6, <2>1, <2>2 DEF AlgorithmsGo, Candidates
<1>10. PlacesAreOccupied'
  <2>1. /\ Placed' = Placed \cup new
        /\ \A p \in Placed : p[1] \in 1..n /\ Place(p)' = Place(p)
        /\ \A p \in new : /\ p[1] = n + 1 /\ p[2] \in 1..Len(selected) /\ p = <<n + 1, p[2]>>
                          /\ Place(p)' = selected[p[2]]
    BY PlacedAfter DEF n
  <2>2. /\ \A i \in 1..n : Len(assignments[i].locations) <= MaxPerSubject
        /\ occupied = {Place(p) : p \in Placed}
        /\ \A p, q \in Placed : Place(p) = Place(q) => p = q
        /\ \A p \in Placed : Place(p) \in Supports[assignments[p[1]].sensor]
        /\ IsFiniteSet(Placed) /\ total = Cardinality(Placed)
    BY <1>6 DEF WizardInv, PlacesAreOccupied
  <2>3. /\ \A i \in 1..Len(selected) : selected[i] \in Supports[sensor] \ occupied
        /\ \A i, j \in 1..Len(selected) : selected[i] = selected[j] => i = j
    BY <1>1 DEF WizardInv, SelectionIsFree
  <2>4. n + 1 \notin 1..n /\ \A i \in 1..(n + 1) : i \in 1..n \/ i = n + 1
    BY <1>2 DEF n
  <2>5. \A i \in DOMAIN assignments' : Len(assignments'[i].locations) <= MaxPerSubject
    BY <1>1, <1>3, <1>5, <1>6, <2>2, <2>4
  <2>6. \A k \in 1..Len(selected) : \E p \in new : Place(p)' = selected[k]
    <3>1. ASSUME NEW k \in 1..Len(selected)
          PROVE  \E p \in new : p[2] = k
      <4>1. <<n + 1, k>> \in new /\ <<n + 1, k>>[2] = k
        OBVIOUS
      <4> HIDE DEF new
      <4> QED
        BY <4>1
    <3> QED
      BY <2>1, <3>1
  <2> HIDE DEF new
  <2>7. {Place(p)' : p \in Placed \cup new} =
           {Place(p) : p \in Placed} \cup {selected[i] : i \in DOMAIN selected}
    <3>1. {Place(p)' : p \in Placed} = {Place(p) : p \in Placed}
      BY <2>1
    <3>2. {Place(p)' : p \in new} = {selected[i] : i \in 1..Len(selected)}
      <4>1. \A x \in {Place(p)' : p \in new} : x \in {selected[i] : i \in 1..Len(selected)}
        BY <2>1
      <4>2. \A i \in 1..Len(selected) : selected[i] \in {Place(p)' : p \in new}
        BY <2>6
      <4> QED
        BY <4>1, <4>2
    <3> QED
      BY <1>2, <3>1, <3>2
  <2>8. occupied' = {Place(p) : p \in Placed}'
    BY <1>1, <2>1, <2>2, <2>7
  <2>9. ASSUME NEW p \in Placed', NEW q \in Placed',
               Place(p)' = Place(q)'
        PROVE  p = q
    <3>1. CASE p \in Placed /\ q \in Placed
      BY <2>1, <2>2, <2>9, <3>1
    <3>2. CASE p \in new /\ q \in new
      BY <2>1, <2>3, <2>6, <2>9, <3>2
    <3>3. CASE p \in Placed /\ q \in new
      <4>1. Place(p)' \in occupied
        BY <2>1, <2>2, <3>3
      <4>2. Place(q)' \notin occupied
        BY <2>1, <2>3, <2>6, <3>3
      <4> QED
        BY <2>9, <4>1, <4>2
    <3>4. CASE p \in new /\ q \in Placed
      <4>1. Place(q)' \in occupied
        BY <2>1, <2>2, <3>4
      <4>2. Place(p)' \notin occupied
        BY <2>1, <2>3, <2>6, <3>4
      <4> QED
        BY <2>9, <4>1, <4>2
    <3> QED
      BY <2>1, <3>1, <3>2, <3>3, <3>4
  <2>10. ASSUME NEW p \in Placed'
         PROVE  Place(p)' \in Supports[assignments'[p[1]].sensor]
    <3>1. CASE p \in Placed
      BY <1>6, <2>1, <2>2, <3>1
    <3>2. CASE p \in new
      <4>1. p[1] = n + 1 /\ p[2] \in 1..Len(selected) /\ Place(p)' = selected[p[2]]
        BY <2>1, <3>2
      <4>2. assignments'[p[1]].sensor = sensor
        BY <1>5, <1>6, <4>1
      <4>3. selected[p[2]] \in Supports[sensor]
        BY <2>3, <4>1
      <4> QED
        BY <4>1, <4>2, <4>3
    <3> QED
      BY <2>1, <3>1, <3>2
  <2>11. IsFiniteSet(Placed') /\ Cardinality(Placed') = total'
    <3>1. IsFiniteSet(new) /\ Cardinality(new) = sensor_count
      <4>1. n + 1 \in Nat /\ Len(selected) \in Nat
        BY <1>2 DEF n
      <4> QED
        BY <1>1, <4>1, NewPlaces DEF new
    <3>2. Placed \cap new = {}
      BY <2>1, <2>4, <2>6
    <3>3. IsFiniteSet({}) /\ Cardinality({}) = 0
      BY FS_EmptySet
    <3>4. /\ IsFiniteSet(Placed \cup new)
          /\ Cardinality(Placed \cup new) =
                Cardinality(Placed) + Cardinality(new) - Cardinality(Placed \cap new)
      BY <2>2, <3>1, FS_Union
    <3>5. Cardinality(Placed \cup new) = total + sensor_count - 0
      BY <2>2, <3>1, <3>2, <3>3, <3>4
    <3> QED
      BY <1>1, <1>3, <2>1, <3>4, <3>5
  <2> QED
    BY <2>5, <2>8, <2>9, <2>10, <2>11 DEF PlacesAreOccupied
<1>11. CountFits' /\ SelectionIsFree' /\ ShortOnlyIfOvercounted'
  BY <1>1, <1>3 DEF CountFits, SelectionIsFree, ShortOnlyIfOvercounted
<1>12. assignments' # << >>
  BY <1>2, <1>6 DEF n
<1>13. FirstIsCurrent'
  BY <1>12 DEF FirstIsCurrent
<1>14. CurrentIsTested'
  <2>1. CASE assignments = << >>
    <3>1. assignments'[1] = r
      BY <1>6, <2>1 DEF n
    <3> QED
      BY <1>1, <1>5, <2>1, <3>1 DEF WizardInv, FirstIsCurrent, CurrentIsTested,
        Candidates, IsTested
  <2>2. CASE assignments # << >>
    <3>1. assignments'[1] = assignments[1]
      BY <1>2, <1>6, <2>2 DEF n
    <3> QED
      BY <1>1, <2>2, <3>1 DEF WizardInv, CurrentIsTested, Candidates, IsTested
  <2> QED
    BY <2>1, <2>2
<1> QED
  BY <1>7, <1>8, <1>9, <1>10, <1>11, <1>13, <1>14 DEF WizardInv

\* Every step keeps the invariant.
LEMMA WizardStep ==
    ASSUME WizardInv, [Next]_vars
    PROVE  WizardInv'
<1>1. CASE UNCHANGED vars
  <2>1. /\ UNCHANGED <<sensors, live, current_plugin, display_name, installed, changes, step,
                       sensor, catalog, algorithm, sensor_count, selected, used, occupied, total,
                       assignments>>
        /\ UNCHANGED <<live, plan>>
    BY <1>1 DEF vars, given, current, plan
  <2>2. PlacesAreOccupied' /\ FamilyIsNew' /\ AlgorithmsGo'
    BY <2>1, PlanStays DEF WizardInv, FamilyIsNew, AlgorithmsGo
  <2>3. ShortOnlyIfOvercounted'
    BY <2>1 DEF WizardInv, ShortOnlyIfOvercounted, Placed, Place
  <2>4. TypeOK'
    BY <2>1 DEF WizardInv, TypeOK
  <2>5. CountFits' /\ SelectionIsFree'
    BY <2>1 DEF WizardInv, CountFits, SelectionIsFree
  <2>6. FirstIsCurrent'
    BY <2>1 DEF WizardInv, FirstIsCurrent, Candidates, IsCurrent, IsTested
  <2>7. CurrentIsTested'
    BY <2>1 DEF WizardInv, CurrentIsTested, Candidates, IsTested
  <2> QED
    BY <2>2, <2>3, <2>4, <2>5, <2>6, <2>7 DEF WizardInv
<1> QED
  BY <1>1, WizardTurns, CatalogStep, ChooseSensorStep, ReadAlgorithmsStep, ChooseAlgorithmStep,
    ChooseCountStep, ChooseLocationStep, NoLocationStep, AssignStep DEF Next

\* It holds of every reachable state.
LEMMA WizardInvariant ==
    Spec => []WizardInv
<1>1. ASSUME Init
      PROVE  WizardInv
  <2>1. sensor \in sensors /\ sensors \subseteq Families
    BY <1>1 DEF Init, SensorOptions
  <2>2. assignments = << >> /\ DOMAIN assignments = {} /\ selected = << >> /\ step = "sensor"
    BY <1>1 DEF Init
  <2>3. TypeOK
    <3>1. /\ selected \in Seq(Locations)
          /\ assignments \in Seq([sensor : Families, algorithm : Algorithms,
                                  catalog : SUBSET Algorithms, locations : Seq(Locations)])
      BY <2>2
    <3>2. /\ installed \subseteq Algorithms /\ live \subseteq AlgorithmNames
          /\ current_plugin \in Plugins \cup {None} /\ catalog \subseteq Algorithms
          /\ display_name \in AlgorithmNames \cup {None}
      BY <1>1 DEF Init, Contexts, Plugins
    <3>3. algorithm \in Algorithms /\ changes \in 0..MaxChanges /\ sensor_count \in 0..MaxPerSubject
          /\ total \in 0..MaxPerSubject
      BY <1>1, NamedAlgorithms, ChangeBound, RoomForSensors DEF Init
    <3> QED
      BY <1>1, <2>1, <3>1, <3>2, <3>3 DEF Init, TypeOK, Prompts
  <2>4. PlacesAreOccupied
    <3>1. Placed = {}
      BY <2>2 DEF Placed
    <3> QED
      BY <1>1, <2>2, <3>1, FS_EmptySet DEF Init, PlacesAreOccupied
  <2>5. FamilyIsNew /\ AlgorithmsGo /\ CountFits /\ SelectionIsFree /\ FirstIsCurrent
    BY <1>1, <2>2, <2>3 DEF Init, FamilyIsNew, AlgorithmsGo, CountFits, SelectionIsFree,
      FirstIsCurrent, TypeOK
  <2>6. ShortOnlyIfOvercounted /\ CurrentIsTested
    BY <2>2 DEF ShortOnlyIfOvercounted, CurrentIsTested
  <2> QED
    BY <2>3, <2>4, <2>5, <2>6 DEF WizardInv
<1> QED
  BY <1>1, WizardStep, PTL DEF Spec

\* The wizard's variables keep their types, and no subject gets more sensors than it may.
THEOREM WizardTypeCorrect ==
    Spec => []TypeOK
<1>1. WizardInv => TypeOK
  BY DEF WizardInv
<1> QED
  BY <1>1, WizardInvariant, PTL

\* However families, counts and locations are chosen and the catalog changes, the plan
\* fits the subject, each algorithm of it was a candidate when it was read, and the wizard
\* runs out of locations only after a count that was too large.
THEOREM WizardPlanIsSound ==
    Spec => []PlanIsSound
<1>1. WizardInv => PlanFitsSubject /\ ShortOnlyIfOvercounted
  BY RoomForSensors DEF WizardInv, FamilyIsNew, CountFits, PlacesAreOccupied, PlanFitsSubject
<1>2. ASSUME WizardInv
      PROVE  AlgorithmsAreKnown
  <2>1. \A i \in DOMAIN assignments :
           assignments[i].algorithm \in Candidates(assignments[i].sensor, assignments[i].catalog)
    BY <1>2 DEF WizardInv, AlgorithmsGo
  <2>2. \A i \in DOMAIN assignments :
           /\ assignments[i].algorithm \in Algorithms
           /\ Kept(assignments[i].algorithm, assignments[i].catalog)
    BY <2>1 DEF Candidates
  <2> QED
    BY <2>1, <2>2, KeptIsOne DEF AlgorithmsAreKnown
<1>3. WizardInv => PlanIsSound
  BY <1>1, <1>2 DEF PlanIsSound
<1> QED
  BY <1>3, WizardInvariant, PTL

\* The first assignment tests the current plugin, as far as it is among the options when
\* they are read: whatever ids, names and display names the plugins have, and however
\* the catalog changes.
THEOREM WizardTestsCurrent ==
    Spec => []CurrentIsTested
<1>1. WizardInv => CurrentIsTested
  BY DEF WizardInv
<1> QED
  BY <1>1, WizardInvariant, PTL

===============================================================================
