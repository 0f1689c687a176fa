---------------------- MODULE WatermarkCalculatorProofs ----------------------
(***************************************************************************)
(* Proofs about WatermarkCalculator, for every set of pods that an int32   *)
(* counts, every list of metrics, every load and every number of changes.  *)
(***************************************************************************)
EXTENDS WatermarkCalculator, WatermarkRulesProofs, NumberLemmas, SequenceTheorems

-----------------------------------------------------------------------------
(* The inductive invariant *)

InPass == pc \in {"next", "fetch", "list"}

\* There is a metric to work on, of the kind that the pass is at, unless all are done, and
\* what the calculator and the metrics server hold are functions.
PassInv ==
    /\ InPass => Len(results) < Len(spec)
    /\ pc = "done" => Len(results) = Len(spec)
    /\ pc = "fetch" => Metric.kind = "External"
    /\ pc = "list" => Metric.kind # "External"
    /\ counted <= Cardinality(Pods)
    /\ metrics = [p \in DOMAIN metrics |-> metrics[p]]
    /\ sample = [p \in DOMAIN sample |-> sample[p]]

\* A result is what the watermarks make of its load and its pods.
ResultsInv ==
    \A i \in DOMAIN results :
       /\ results[i].ready <= Cardinality(Pods)
       /\ results[i].count =
             ReplicaCount(spec[i].rule, current, results[i].ready, results[i].sum)

\* What TakesTheMaximum says holds of the metrics so far.
MaximumInv ==
    /\ results = <<>> => chosen = 0 /\ replicas = 0
    /\ results # <<>> => chosen \in DOMAIN results /\ replicas = results[chosen].count
    /\ \A i \in DOMAIN results : results[i].count <= replicas \/ results[i].count <= 0

\* While no pod changes, the cache and the samples stay as they were when the pass began.
SteadyInv ==
    /\ steady => lister = pods /\ DOMAIN sample = {p \in Pods : Running(p)}
    /\ steady /\ pc = "list" => DOMAIN metrics = {p \in Pods : Running(p)}
    /\ SumsWhatItCounts

IInv == TypeOK /\ PassInv /\ ResultsInv /\ MaximumInv /\ SteadyInv

-----------------------------------------------------------------------------
(* Pods and metrics *)

\* The numbers of pods that the pass compares.
LEMMA PodCounts ==
    /\ Cardinality(Pods) \in Nat /\ Cardinality(Pods) <= MaxInt32 /\ MaxInt32 \in Nat
    /\ \A S \in SUBSET Pods :
          Cardinality(S) \in Nat /\ Cardinality(S) <= Cardinality(Pods)
BY PodsAssumption, MaxInt32Assumption, FS_Subset, FS_CardinalityType

\* The metric at hand is one of the spec's.
LEMMA MetricType ==
    ASSUME spec \in Specs, NEW i \in 1..Len(spec)
    PROVE  spec[i] \in [rule : RuleType, kind : Kinds] /\ spec[i].rule \in RuleType
           /\ spec[i].kind \in Kinds
<1>1. spec[i] \in [rule : RuleType, kind : Kinds]
  BY SpecsAssumption, ElementOfSeq
<1>. QED  BY <1>1

\* What is left of the metrics: the samples of some pods.
LEMMA Remaining ==
    ASSUME TypeOK, PassInv, NEW kind
    PROVE  /\ RemainingMetrics(kind) \in [DOMAIN metrics \ IgnoredPods(kind) -> Loads]
           /\ DOMAIN RemainingMetrics(kind) = DOMAIN metrics \ IgnoredPods(kind)
           /\ SumFunction(RemainingMetrics(kind)) \in Int
<1>. DEFINE rest == DOMAIN metrics \ IgnoredPods(kind)
<1>1. rest \subseteq Pods /\ \A p \in rest : metrics[p] \in Loads
  BY DEF TypeOK
<1>2. RemainingMetrics(kind) = [p \in rest |-> metrics[p]]
  BY DEF RemainingMetrics, Restrict
<1>. HIDE DEF rest
<1>3. RemainingMetrics(kind) \in [rest -> Loads] /\ DOMAIN RemainingMetrics(kind) = rest
  BY <1>1, <1>2
<1>4. IsFiniteSet(rest)
  BY <1>1, PodsAssumption, FS_Subset
<1>5. SumFunction(RemainingMetrics(kind)) \in Int
  <2>1. PICK f : f = RemainingMetrics(kind)
    OBVIOUS
  <2>2. \A p \in rest : f[p] \in Int
    <3>1. f \in [rest -> Loads]
      BY <1>3, <2>1
    <3>2. \A load \in Loads : load \in Int
      BY LoadsAssumption
    <3>. QED  BY <3>1, <3>2
  <2>3. SumFunctionOnSet(f, rest) \in Int
    BY <1>4, <2>2, SumOfFinite
  <2>. QED  BY <1>3, <2>1, <2>3 DEF SumFunction
<1>. QED  BY <1>3, <1>5 DEF rest

-----------------------------------------------------------------------------
(* A proposal *)

\* A result more, which keeps what the invariant says of the earlier ones.
LEMMA Proposes ==
    ASSUME IInv, InPass, UNCHANGED <<spec, current>>,
           NEW ready \in 0..Cardinality(Pods), NEW sum \in Int, Propose(ready, sum),
           NEW n, n = Len(results)
    PROVE  /\ n \in Nat /\ DOMAIN results = 1..n /\ n + 1 \in 1..Len(spec)
           /\ results' \in Seq(Results) /\ Len(results') = n + 1 /\ DOMAIN results' = 1..n + 1
           /\ \A i \in 1..n : results'[i] = results[i]
           /\ results'[n + 1].ready = ready /\ results'[n + 1].sum = sum
           /\ replicas' \in Int /\ chosen' \in 0..Len(spec)
           /\ ResultsInv' /\ MaximumInv'
<1>1. /\ n \in Nat /\ DOMAIN results = 1..n /\ Len(spec) \in Nat /\ n + 1 \in 1..Len(spec)
      /\ results \in Seq(Results) /\ current \in Int /\ spec \in Specs
      /\ replicas \in Int /\ chosen \in 0..Len(spec) /\ ready \in Nat
      /\ \A i \in 1..n : results[i] \in Results /\ results[i].count \in Int
  <2>1. /\ results \in Seq(Results) /\ spec \in Seq([rule : RuleType, kind : Kinds])
        /\ n < Len(spec) /\ current \in Nat /\ spec \in Specs
        /\ replicas \in Int /\ chosen \in 0..Len(spec)
    BY SpecsAssumption DEF IInv, TypeOK, PassInv
  <2>2. n \in Nat /\ DOMAIN results = 1..n /\ Len(spec) \in Nat
    BY <2>1, LenProperties
  <2>3. \A i \in 1..n : results[i] \in Results
    BY <2>1, ElementOfSeq
  <2>. QED  BY <2>1, <2>2, <2>3, PodCounts DEF Results
<1>2. PICK result : result = [count |-> ReplicaCount(Metric.rule, current, ready, sum),
                              ready |-> ready, sum |-> sum]
  OBVIOUS
<1>3. /\ result \in Results /\ result.ready = ready /\ result.sum = sum
      /\ result.count = ReplicaCount(spec[n + 1].rule, current, ready, sum)
      /\ result.count \in Int
  <2>1. PICK count : count = ReplicaCount(spec[n + 1].rule, current, ready, sum)
    OBVIOUS
  <2>2. count \in Int
    BY <1>1, <2>1, MetricType, ReplicaCountType
  <2>. QED  BY <1>1, <1>2, <2>1, <2>2 DEF Metric, Results
<1>4. /\ results' = Append(results, result)
      /\ replicas' = IF Replaces(result) THEN result.count ELSE replicas
      /\ chosen' = IF Replaces(result) THEN n + 1 ELSE chosen
  BY <1>2 DEF Propose
<1>5. /\ results' \in Seq(Results) /\ Len(results') = n + 1 /\ DOMAIN results' = 1..n + 1
      /\ \A i \in 1..n : results'[i] = results[i]
      /\ results'[n + 1] = result
  BY <1>1, <1>3, <1>4, AppendProperties, LenProperties
<1>6. ResultsInv'
  <2>1. ASSUME NEW i \in 1..n + 1
        PROVE  /\ results'[i].ready <= Cardinality(Pods)
               /\ results'[i].count =
                    ReplicaCount(spec[i].rule, current, results'[i].ready, results'[i].sum)
    <3>1. CASE i \in 1..n
      BY <1>1, <1>5, <3>1 DEF IInv, ResultsInv
    <3>2. CASE i = n + 1
      BY <1>3, <1>5, <3>2, PodCounts
    <3>. QED  BY <1>1, <3>1, <3>2
  <2>. QED  BY <1>5, <2>1 DEF ResultsInv
<1>7. MaximumInv'
  <2>1. /\ n = 0 => replicas = 0
        /\ n # 0 => chosen \in 1..n /\ replicas = results[chosen].count
        /\ \A i \in 1..n : results[i].count <= replicas \/ results[i].count <= 0
    <3>1. n = 0 <=> results = <<>>
      BY <1>1, EmptySeq
    <3>. QED  BY <1>1, <3>1 DEF IInv, MaximumInv
  <2>2. chosen' \in 1..n + 1 /\ replicas' = results'[chosen'].count
    BY <1>1, <1>4, <1>5, <2>1 DEF Replaces
  <2>3. \A i \in 1..n + 1 : results'[i].count <= replicas' \/ results'[i].count <= 0
    BY <1>1, <1>3, <1>4, <1>5, <2>1 DEF Replaces
  <2>4. results' # <<>>
    BY <1>1, <1>5
  <2>. QED  BY <1>5, <2>2, <2>3, <2>4 DEF MaximumInv
<1>8. replicas' \in Int /\ chosen' \in 0..Len(spec)
  BY <1>1, <1>3, <1>4
<1>. QED  BY <1>1, <1>3, <1>5, <1>6, <1>7, <1>8

\* SumsWhatItCounts is about the pods, the results and the spec only.
LEMMA SumsStay ==
    ASSUME IInv, UNCHANGED <<envVars, spec, steady, results>>
    PROVE  SumsWhatItCounts'
<1>1. SumsWhatItCounts
  BY DEF IInv, SteadyInv
<1>2. \A kind : Measured(kind)' = Measured(kind)
  BY DEF Measured, envVars
<1>3. (\A p \in Foreign : ~Running(p))' = (\A p \in Foreign : ~Running(p))
  BY DEF Running, envVars
<1>. QED  BY <1>1, <1>2, <1>3 DEF SumsWhatItCounts

\* The calculator's part of the type invariant after a proposal.
LEMMA ProposeType ==
    ASSUME IInv, InPass, UNCHANGED <<envVars, spec, current, steady, changes>>,
           NEW ready \in 0..Cardinality(Pods), NEW sum \in Int, Propose(ready, sum)
    PROVE  TypeOK' /\ PassInv' /\ ResultsInv' /\ MaximumInv' /\ pc' \in {"next", "done"}
<1>1. PICK n : n = Len(results)
  OBVIOUS
<1>2. /\ n \in Nat /\ n + 1 \in 1..Len(spec)
      /\ results' \in Seq(Results) /\ Len(results') = n + 1
      /\ replicas' \in Int /\ chosen' \in 0..Len(spec)
      /\ ResultsInv' /\ MaximumInv'
  BY <1>1, Proposes
<1>3. /\ pc' = IF Len(results') = Len(spec) THEN "done" ELSE "next"
      /\ metrics' = NoMetrics /\ counted' = 0
  BY DEF Propose, NextMetric
<1>4. DOMAIN NoMetrics = {} /\ NoMetrics = [p \in DOMAIN NoMetrics |-> NoMetrics[p]]
  BY DEF NoMetrics
<1>5. Len(spec) \in Nat
  BY SpecsAssumption, LenProperties DEF IInv, TypeOK
<1>6. TypeOK'
  <2>. HIDE DEF NoMetrics
  <2>1. TypeOK /\ UNCHANGED <<pods, lister, sample, spec, current, steady, changes>>
    BY DEF IInv, envVars
  <2>2. /\ pc' \in {"idle", "next", "fetch", "list", "done", "failed"}
        /\ (pc' = "fetch") = (counted' > 0) /\ (pc' = "list") = (metrics' # NoMetrics)
    BY <1>3
  <2>3. Len(results') <= Len(spec)
    BY <1>2, <1>5
  <2>. QED  BY <1>2, <1>3, <1>4, <2>1, <2>2, <2>3 DEF TypeOK
<1>7. PassInv'
  BY <1>2, <1>3, <1>4, <1>5, PodCounts DEF IInv, PassInv, InPass, envVars
<1>. QED  BY <1>2, <1>3, <1>6, <1>7

\* A failed metric changes nothing but the end of the pass.
LEMMA FailType ==
    ASSUME IInv, UNCHANGED <<envVars, spec, current, steady, changes>>, Fail
    PROVE  TypeOK' /\ PassInv' /\ ResultsInv' /\ MaximumInv' /\ SteadyInv'
<1>1. DOMAIN NoMetrics = {} /\ NoMetrics = [p \in DOMAIN NoMetrics |-> NoMetrics[p]]
  BY DEF NoMetrics
<1>2. TypeOK'
  <2>. HIDE DEF NoMetrics
  <2>1. /\ pc' = "failed" /\ metrics' = NoMetrics /\ counted' = 0
        /\ UNCHANGED <<results, replicas, chosen>>
    BY DEF Fail
  <2>. QED  BY <1>1, <2>1 DEF IInv, TypeOK, envVars
<1>3. PassInv'
  BY <1>1, PodCounts DEF Fail, IInv, PassInv, InPass, envVars
<1>4. ResultsInv' /\ MaximumInv'
  BY DEF Fail, IInv, ResultsInv, MaximumInv
<1>5. SumsWhatItCounts'
  BY SumsStay DEF Fail
<1>6. SteadyInv'
  BY <1>5 DEF Fail, IInv, SteadyInv, Running, envVars
<1>. QED  BY <1>2, <1>3, <1>4, <1>6

-----------------------------------------------------------------------------
(* The steps *)

\* A pass begins with no result, at the first metric of its spec.
LEMMA BeginStep ==
    ASSUME IInv, Begin
    PROVE  IInv'
<1>1. DOMAIN NoMetrics = {} /\ NoMetrics = [p \in DOMAIN NoMetrics |-> NoMetrics[p]]
  BY DEF NoMetrics
<1>2. /\ spec' \in Specs /\ Len(spec') \in Nat /\ Len(spec') > 0
      /\ current' \in Nat
  <2>1. spec' \in Seq([rule : RuleType, kind : Kinds]) /\ spec' # <<>> /\ spec' \in Specs
    BY SpecsAssumption DEF Begin
  <2>2. Existing \in SUBSET Pods
    BY DEF Existing, Owned
  <2>. QED  BY <2>1, <2>2, EmptySeq, LenProperties, PodCounts DEF Begin
<1>3. results' = <<>> /\ results' \in Seq(Results) /\ Len(results') = 0 /\ DOMAIN results' = {}
  BY EmptySeq DEF Begin
<1>4. TypeOK'
  BY <1>1, <1>2, <1>3 DEF Begin, IInv, TypeOK, envVars
<1>5. PassInv'
  BY <1>1, <1>2, <1>3, PodCounts DEF Begin, IInv, PassInv, InPass, envVars
<1>6. ResultsInv' /\ MaximumInv'
  BY <1>3 DEF Begin, ResultsInv, MaximumInv
<1>7. SteadyInv'
  BY <1>3 DEF Begin, SteadyInv, SumsWhatItCounts, Running, envVars
<1>. QED  BY <1>4, <1>5, <1>6, <1>7 DEF IInv

\* The ready pods of an external metric are some of the pods, or the pass fails.
LEMMA CountPodsStep ==
    ASSUME IInv, CountPods
    PROVE  IInv'
<1>1. CASE Fail
  BY <1>1, FailType DEF CountPods, IInv
<1>2. CASE /\ ReadyPodsCount # 0 /\ counted' = ReadyPodsCount /\ pc' = "fetch"
           /\ UNCHANGED <<metrics, results, replicas, chosen>>
  <2>1. ReadyPodsCount \in Nat /\ ReadyPodsCount <= Cardinality(Pods)
    BY PodCounts DEF ReadyPodsCount
  <2>2. /\ UNCHANGED <<envVars, spec, current, steady, changes>>
        /\ pc = "next" /\ Metric.kind = "External"
    BY DEF CountPods
  <2>3. TypeOK'
    BY <1>2, <2>1, <2>2 DEF IInv, TypeOK, envVars
  <2>4. PassInv'
    BY <1>2, <2>1, <2>2 DEF IInv, PassInv, InPass, Metric, envVars
  <2>5. ResultsInv' /\ MaximumInv'
    BY <1>2, <2>2 DEF IInv, ResultsInv, MaximumInv
  <2>6. SumsWhatItCounts'
    BY <1>2, <2>2, SumsStay
  <2>7. SteadyInv'
    BY <1>2, <2>2, <2>6 DEF IInv, SteadyInv, Running, envVars
  <2>. QED  BY <2>3, <2>4, <2>5, <2>7 DEF IInv
<1>. QED  BY <1>1, <1>2 DEF CountPods

\* A proposal keeps SumsWhatItCounts if its sum is that of the pods it counts.
LEMMA SteadyProposal ==
    ASSUME IInv, InPass, UNCHANGED <<envVars, spec, current, steady, changes>>,
           NEW ready \in 0..Cardinality(Pods), NEW sum \in Int, Propose(ready, sum),
           /\ steady /\ (\A p \in Foreign : ~Running(p)) /\ Metric.kind # "External"
           => /\ ready = Cardinality(Measured(Metric.kind))
              /\ \E usage \in [Measured(Metric.kind) -> Loads] : sum = SumFunction(usage)
    PROVE  SteadyInv'
<1>1. PICK n : n = Len(results)
  OBVIOUS
<1>2. /\ n \in Nat /\ DOMAIN results = 1..n /\ DOMAIN results' = 1..n + 1
      /\ \A i \in 1..n : results'[i] = results[i]
      /\ results'[n + 1].ready = ready /\ results'[n + 1].sum = sum
  BY <1>1, Proposes
<1>3. \A kind : Measured(kind)' = Measured(kind)
  BY DEF Measured, envVars
<1>4. SumsWhatItCounts'
  <2>. SUFFICES ASSUME steady, \A p \in Foreign : ~Running(p), NEW i \in 1..n + 1,
                       spec[i].kind # "External"
                PROVE  /\ results'[i].ready = Cardinality(Measured(spec[i].kind))
                       /\ \E usage \in [Measured(spec[i].kind) -> Loads] :
                             results'[i].sum = SumFunction(usage)
    <3>1. (\A p \in Foreign : ~Running(p))' = (\A p \in Foreign : ~Running(p))
      BY DEF Running, envVars
    <3>. QED  BY <1>2, <1>3, <3>1 DEF SumsWhatItCounts
  <2>1. CASE i \in 1..n
    <3>1. SumsWhatItCounts
      BY DEF IInv, SteadyInv
    <3>2. /\ results[i].ready = Cardinality(Measured(spec[i].kind))
          /\ \E usage \in [Measured(spec[i].kind) -> Loads] :
                results[i].sum = SumFunction(usage)
      BY <1>2, <2>1, <3>1 DEF SumsWhatItCounts
    <3>3. results'[i] = results[i]
      BY <1>2, <2>1
    <3>. QED  BY <3>2, <3>3
  <2>2. CASE i = n + 1
    <3>1. Metric = spec[i]
      BY <1>1, <2>2 DEF Metric
    <3>. QED  BY <1>2, <2>2, <3>1
  <2>. QED  BY <1>2, <2>1, <2>2
<1>5. pc' # "list"
  BY ProposeType
<1>. QED  BY <1>4, <1>5 DEF IInv, SteadyInv, Running, envVars

\* An external metric is proposed for the pods counted before it was read.
LEMMA FetchExternalMetricStep ==
    ASSUME IInv, FetchExternalMetric
    PROVE  IInv'
<1>1. CASE Fail
  BY <1>1, FailType DEF FetchExternalMetric, IInv
<1>2. CASE \E sum \in Sums : Propose(counted, sum)
  <2>1. PICK sum \in Int : Propose(counted, sum)
    BY <1>2, LoadsAssumption
  <2>2. PICK ready \in 0..Cardinality(Pods) : ready = counted
    BY PodCounts DEF IInv, TypeOK, PassInv
  <2>3. Propose(ready, sum) /\ InPass /\ Metric.kind = "External"
    BY <2>1, <2>2 DEF FetchExternalMetric, InPass, IInv, PassInv
  <2>4. UNCHANGED <<envVars, spec, current, steady, changes>>
    BY DEF FetchExternalMetric
  <2>5. TypeOK' /\ PassInv' /\ ResultsInv' /\ MaximumInv'
    BY <2>3, <2>4, ProposeType
  <2>6. SteadyInv'
    BY <2>3, <2>4, SteadyProposal
  <2>. QED  BY <2>5, <2>6 DEF IInv
<1>. QED  BY <1>1, <1>2 DEF FetchExternalMetric

\* The samples that the calculator holds are those of the metrics server.
LEMMA FetchResourceMetricStep ==
    ASSUME IInv, FetchResourceMetric
    PROVE  IInv'
<1>1. CASE Fail
  BY <1>1, FailType DEF FetchResourceMetric, IInv
<1>2. CASE /\ DOMAIN sample # {} /\ metrics' = sample /\ pc' = "list"
           /\ UNCHANGED <<counted, results, replicas, chosen>>
  <2>1. /\ UNCHANGED <<envVars, spec, current, steady, changes>>
        /\ pc = "next" /\ Metric.kind # "External"
    BY DEF FetchResourceMetric
  <2>2. metrics' # NoMetrics
    BY <1>2 DEF NoMetrics
  <2>3. TypeOK'
    BY <1>2, <2>1, <2>2 DEF IInv, TypeOK, envVars
  <2>4. PassInv'
    BY <1>2, <2>1 DEF IInv, PassInv, InPass, Metric, envVars
  <2>5. ResultsInv' /\ MaximumInv'
    BY <1>2, <2>1 DEF IInv, ResultsInv, MaximumInv
  <2>6. SumsWhatItCounts'
    BY <1>2, <2>1, SumsStay
  <2>7. SteadyInv'
    BY <1>2, <2>1, <2>6 DEF IInv, SteadyInv, Running, envVars
  <2>. QED  BY <2>3, <2>4, <2>5, <2>7 DEF IInv
<1>. QED  BY <1>1, <1>2 DEF FetchResourceMetric

\* While no pod changes and no foreign one runs, the pods counted for a resource metric and
\* those whose samples are left are the same: the measured ones.
LEMMA CountsTheMeasured ==
    ASSUME IInv, pc = "list", steady, \A p \in Foreign : ~Running(p), NEW kind,
           kind \in {"cpu", "memory"}
    PROVE  /\ ReadyPods(kind) = Measured(kind)
           /\ DOMAIN metrics \ IgnoredPods(kind) = Measured(kind)
<1>1. /\ lister = pods /\ DOMAIN metrics = {p \in Pods : Running(p)}
      /\ pods \in [Pods -> Stages] /\ Owned = Pods \ Foreign
  BY DEF IInv, SteadyInv, TypeOK, Owned
<1>2. \A p \in DOMAIN metrics : p \in Owned /\ pods[p] \in {"starting", "ready", "unready"}
  BY <1>1 DEF Running
<1>3. \A p \in Measured(kind) : p \in DOMAIN metrics /\ p \in Owned
  BY <1>1 DEF Measured, Running
<1>4. \A p \in DOMAIN metrics :
         p \in IgnoredPods(kind) <=> kind = "cpu" /\ pods[p] = "starting"
  BY <1>1, <1>2 DEF IgnoredPods
<1>5. \A p \in DOMAIN metrics :
         p \in Measured(kind) <=> ~(kind = "cpu" /\ pods[p] = "starting")
  BY <1>2 DEF Measured
<1>6. \A p : p \in ReadyPods(kind) <=> p \in DOMAIN metrics /\ p \notin IgnoredPods(kind)
  BY <1>1, <1>2 DEF ReadyPods
<1>. QED  BY <1>3, <1>4, <1>5, <1>6

\* A resource metric is proposed for the pods whose samples are left.
LEMMA ListPodsStep ==
    ASSUME IInv, ListPods
    PROVE  IInv'
<1>1. CASE Fail
  BY <1>1, FailType DEF ListPods, IInv
<1>2. CASE Propose(Cardinality(ReadyPods(Metric.kind)),
                   SumFunction(RemainingMetrics(Metric.kind)))
  <2>1. PICK kind : kind = Metric.kind
    OBVIOUS
  <2>2. /\ RemainingMetrics(kind) \in [DOMAIN metrics \ IgnoredPods(kind) -> Loads]
        /\ SumFunction(RemainingMetrics(kind)) \in Int
    BY Remaining DEF IInv
  <2>3. PICK sum \in Int : sum = SumFunction(RemainingMetrics(kind))
    BY <2>2
  <2>4. PICK ready \in 0..Cardinality(Pods) : ready = Cardinality(ReadyPods(kind))
    <3>1. ReadyPods(kind) \in SUBSET Pods
      BY DEF ReadyPods, Owned
    <3>. QED  BY <3>1, PodCounts
  <2>5. Propose(ready, sum)
    BY <1>2, <2>1, <2>3, <2>4
  <2>6. /\ UNCHANGED <<envVars, spec, current, steady, changes>>
        /\ InPass /\ pc = "list" /\ kind # "External"
    BY <2>1 DEF ListPods, InPass, IInv, PassInv
  <2>7. kind \in Kinds
    <3>1. Len(results) + 1 \in 1..Len(spec) /\ spec \in Specs
      BY <2>6, LenProperties, SpecsAssumption DEF IInv, TypeOK, PassInv
    <3>. QED  BY <2>1, <3>1, MetricType DEF Metric
  <2>8. TypeOK' /\ PassInv' /\ ResultsInv' /\ MaximumInv'
    BY <2>5, <2>6, ProposeType
  <2>9. ASSUME steady, \A p \in Foreign : ~Running(p)
        PROVE  /\ ready = Cardinality(Measured(kind))
               /\ \E usage \in [Measured(kind) -> Loads] : sum = SumFunction(usage)
    <3>1. /\ ReadyPods(kind) = Measured(kind)
          /\ DOMAIN metrics \ IgnoredPods(kind) = Measured(kind)
      BY <2>6, <2>7, <2>9, CountsTheMeasured DEF Kinds
    <3>2. RemainingMetrics(kind) \in [Measured(kind) -> Loads]
      BY <2>2, <3>1
    <3>. QED  BY <2>3, <2>4, <3>1, <3>2
  <2>10. SteadyInv'
    BY <2>1, <2>5, <2>6, <2>9, SteadyProposal
  <2>. QED  BY <2>8, <2>10 DEF IInv
<1>. QED  BY <1>1, <1>2 DEF ListPods

\* A pod that changes leaves the pass alone and ends its steadiness.
LEMMA PodChangesStep ==
    ASSUME IInv, PodChanges
    PROVE  IInv'
<1>1. PICK p \in Pods :
        \E stage \in NextStages[pods[p]] \union Ends(pods[p]) :
           pods' = [pods EXCEPT ![p] = stage]
  BY DEF PodChanges
<1>2. steady' = FALSE /\ changes' \in Nat /\ UNCHANGED <<lister, sample, passVars>>
  BY DEF PodChanges, IInv, TypeOK
<1>3. pods \in [Pods -> Stages] /\ pods[p] \in Stages
  BY DEF IInv, TypeOK
<1>4. \A now \in Stages : NextStages[now] \subseteq Stages /\ Ends(now) \subseteq Stages
  BY DEF NextStages, Ends, Stages
<1>5. pods' \in [Pods -> Stages]
  BY <1>1, <1>3, <1>4
<1>6. TypeOK'
  BY <1>2, <1>5 DEF IInv, TypeOK, passVars
<1>7. PassInv' /\ ResultsInv' /\ MaximumInv'
  BY <1>2 DEF IInv, PassInv, InPass, Metric, ResultsInv, MaximumInv, passVars
<1>8. SteadyInv'
  BY <1>2 DEF SteadyInv, SumsWhatItCounts
<1>. QED  BY <1>6, <1>7, <1>8 DEF IInv

\* The cache of a steady pass has nothing to catch up with.
LEMMA SyncStep ==
    ASSUME IInv, Sync
    PROVE  IInv'
<1>1. /\ lister' = pods /\ UNCHANGED <<pods, sample, passVars, steady, changes>>
      /\ ~steady
  BY DEF Sync, IInv, SteadyInv
<1>2. TypeOK'
  BY <1>1 DEF IInv, TypeOK, passVars
<1>3. PassInv' /\ ResultsInv' /\ MaximumInv'
  BY <1>1 DEF IInv, PassInv, InPass, Metric, ResultsInv, MaximumInv, passVars
<1>4. SteadyInv'
  BY <1>1 DEF SteadyInv, SumsWhatItCounts
<1>. QED  BY <1>2, <1>3, <1>4 DEF IInv

\* A new measurement is of the pods that run.
LEMMA ScrapeStep ==
    ASSUME IInv, Scrape
    PROVE  IInv'
<1>1. /\ sample' \in [{p \in Pods : Running(p)} -> Loads]
      /\ UNCHANGED <<pods, lister, passVars, steady, changes>>
  BY DEF Scrape
<1>2. /\ DOMAIN sample' = {p \in Pods : Running(p)}
      /\ \A p \in DOMAIN sample' : sample'[p] \in Loads
      /\ sample' = [p \in DOMAIN sample' |-> sample'[p]]
  BY <1>1
<1>3. TypeOK'
  BY <1>1, <1>2 DEF IInv, TypeOK, passVars
<1>4. PassInv' /\ ResultsInv' /\ MaximumInv'
  BY <1>1, <1>2 DEF IInv, PassInv, InPass, Metric, ResultsInv, MaximumInv, passVars
<1>5. SteadyInv'
  BY <1>1, <1>2 DEF IInv, SteadyInv, SumsWhatItCounts, Measured, Running, passVars
<1>. QED  BY <1>3, <1>4, <1>5 DEF IInv

-----------------------------------------------------------------------------
(* The theorems *)

\* The invariant holds in every state, however pods, cache and samples change between the
\* calculator's two reads.
THEOREM InductiveInvariant == Spec => []IInv
<1>1. Init => IInv
  <2>. SUFFICES ASSUME Init PROVE IInv
    OBVIOUS
  <2>1. DOMAIN NoMetrics = {} /\ NoMetrics = [p \in DOMAIN NoMetrics |-> NoMetrics[p]]
    BY DEF NoMetrics
  <2>2. /\ spec \in Specs /\ Len(spec) \in Nat /\ results = <<>> /\ results \in Seq(Results)
        /\ Len(results) = 0 /\ DOMAIN results = {}
    BY SpecsAssumption, LenProperties, EmptySeq DEF Init
  <2>3. pods \in [Pods -> Stages] /\ lister \in [Pods -> Stages]
    BY DEF Init, Stages
  <2>4. /\ DOMAIN sample = {p \in Pods : Running(p)}
        /\ \A p \in DOMAIN sample : sample[p] \in Loads
        /\ sample = [p \in DOMAIN sample |-> sample[p]]
    BY DEF Init
  <2>5. TypeOK
    <3>1. /\ pc = "idle" /\ current = 0 /\ metrics = NoMetrics /\ counted = 0
          /\ replicas = 0 /\ chosen = 0 /\ steady = FALSE /\ changes = 0
      BY DEF Init
    <3>2. /\ DOMAIN sample \subseteq Pods /\ \A p \in DOMAIN sample : sample[p] \in Loads
          /\ DOMAIN metrics \subseteq Pods /\ \A p \in DOMAIN metrics : metrics[p] \in Loads
      BY <2>1, <2>4, <3>1
    <3>3. /\ pc \in {"idle", "next", "fetch", "list", "done", "failed"}
          /\ (pc = "fetch") = (counted > 0) /\ (pc = "list") = (metrics # NoMetrics)
      BY <3>1
    <3>4. /\ Len(results) <= Len(spec) /\ current \in Nat /\ counted \in Nat /\ replicas \in Int
          /\ chosen \in 0..Len(spec) /\ changes \in Nat
      BY <2>2, <3>1
    <3>. QED  BY <2>2, <2>3, <3>1, <3>2, <3>3, <3>4 DEF TypeOK
  <2>6. PassInv
    BY <2>1, <2>4, PodCounts DEF Init, PassInv, InPass
  <2>7. ResultsInv /\ MaximumInv /\ SteadyInv
    BY <2>2 DEF Init, ResultsInv, MaximumInv, SteadyInv, SumsWhatItCounts
  <2>. QED  BY <2>5, <2>6, <2>7 DEF IInv
<1>2. IInv /\ [Next]_vars => IInv'
  <2>. SUFFICES ASSUME IInv, [Next]_vars PROVE IInv'
    OBVIOUS
  <2>1. CASE UNCHANGED vars
    <3>. USE <2>1 DEF vars, envVars, passVars
    <3>1. TypeOK'
      BY DEF IInv, TypeOK
    <3>2. PassInv' /\ ResultsInv' /\ MaximumInv'
      BY DEF IInv, PassInv, InPass, Metric, ResultsInv, MaximumInv
    <3>3. SumsWhatItCounts'
      BY SumsStay
    <3>4. SteadyInv'
      BY <3>3 DEF IInv, SteadyInv, Running
    <3>. QED  BY <3>1, <3>2, <3>4 DEF IInv
  <2>. QED  BY <2>1, BeginStep, CountPodsStep, FetchExternalMetricStep, FetchResourceMetricStep,
               ListPodsStep, PodChangesStep, SyncStep, ScrapeStep DEF Next, Pass
<1>. QED  BY <1>1, <1>2, PTL DEF Spec

\* What the calculator holds always fits where it is, and every count is a number.
THEOREM CalculatorTypeCorrect == Spec => []TypeOK
<1>1. IInv => TypeOK
  BY DEF IInv
<1>. QED  BY <1>1, InductiveInvariant, PTL

\* computeReplicasForMetrics proposes what its most demanding metric does.
THEOREM MaximumIsTaken == Spec => []TakesTheMaximum
<1>1. IInv => TakesTheMaximum
  <2>. SUFFICES ASSUME IInv, pc = "done" PROVE results # <<>>
    BY DEF TakesTheMaximum, IInv, PassInv, MaximumInv
  <2>1. spec \in Seq([rule : RuleType, kind : Kinds]) /\ spec # <<>> /\ Len(results) = Len(spec)
    BY SpecsAssumption DEF IInv, TypeOK, PassInv
  <2>. QED  BY <2>1, EmptySeq, LenProperties
<1>. QED  BY <1>1, InductiveInvariant, PTL

\* The result of an ordinary metric is one that the rules' theorems are about.
LEMMA OrdinaryResult ==
    ASSUME IInv, NEW i \in DOMAIN results, Ordinary(i)
    PROVE  /\ spec[i].rule \in RuleType /\ current \in Int
           /\ results[i].ready \in 1..MaxInt32 /\ results[i].sum \in Int
           /\ Fits(spec[i].rule, results[i].ready, results[i].sum)
           /\ results[i].count =
                ReplicaCount(spec[i].rule, current, results[i].ready, results[i].sum)
<1>1. /\ results \in Seq(Results) /\ Len(results) <= Len(spec) /\ spec \in Specs
      /\ spec \in Seq([rule : RuleType, kind : Kinds]) /\ current \in Int
  <2>1. /\ results \in Seq(Results) /\ Len(results) <= Len(spec) /\ spec \in Specs
        /\ current \in Nat
    BY DEF IInv, TypeOK
  <2>2. spec \in Seq([rule : RuleType, kind : Kinds])
    BY <2>1, SpecsAssumption
  <2>3. current \in Int
    BY <2>1
  <2>. QED  BY <2>1, <2>2, <2>3
<1>2. i \in 1..Len(results) /\ i \in 1..Len(spec)
  BY <1>1, LenProperties
<1>3. results[i] \in Results /\ spec[i].rule \in RuleType
  BY <1>1, <1>2, ElementOfSeq, MetricType
<1>4. results[i].ready <= Cardinality(Pods)
  BY DEF IInv, ResultsInv
<1>5. results[i].ready \in 1..MaxInt32
  BY <1>3, <1>4, PodCounts DEF Results, Ordinary
<1>. QED  BY <1>1, <1>3, <1>5 DEF Results, Ordinary, IInv, ResultsInv

\* A load outside the marks moves the ready count in the right direction, in every pass.
THEOREM PassGivesDirection == Spec => []LoadGivesDirection
<1>1. IInv => LoadGivesDirection
  BY OrdinaryResult, DirectionIsRight DEF LoadGivesDirection
<1>. QED  BY <1>1, InductiveInvariant, PTL

\* The count that a pass finds for an average brings it back to its mark.
THEOREM PassFits == Spec => []AverageFits
<1>1. IInv => AverageFits
  BY OrdinaryResult, AboveFits, BelowFits DEF AverageFits
<1>. QED  BY <1>1, InductiveInvariant, PTL

\* While no pod changes, a resource metric's average is one of the pods it counts, though the
\* samples are taken before the pods are listed.
THEOREM PassSumsWhatItCounts == Spec => []SumsWhatItCounts
<1>1. IInv => SumsWhatItCounts
  BY DEF IInv, SteadyInv
<1>. QED  BY <1>1, InductiveInvariant, PTL
=============================================================================
