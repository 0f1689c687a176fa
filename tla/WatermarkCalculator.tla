------------------------ MODULE WatermarkCalculator ------------------------
(***************************************************************************)
(* computeReplicasForMetrics (src/controllers/shpa_controller.go) and the  *)
(* calculator it calls (src/algorithm/watermark/waterwark_calculator.go):  *)
(* one pass over a SHPA's metrics while pods come, become ready, fail and  *)
(* go.                                                                     *)
(*                                                                         *)
(* The calculator sees the pods through the cache of an informer and their *)
(* usage through the samples of a metrics server; both lag, and it reads   *)
(* the one after the other.                                                *)
(*                                                                         *)
(* What the calculator asks of a pod's phase, Ready condition, start time  *)
(* and times of transition is its stage:                                   *)
(*   absent       no such pod                                              *)
(*   unscheduled  Pending, without the condition or a start time           *)
(*   pulling      Pending, for less than the readiness delay               *)
(*   stuck        Pending, for longer                                      *)
(*   starting     Running, not ready since the delay after its start       *)
(*   ready        Running and ready                                        *)
(*   unready      Running, not ready since a later time                    *)
(*   failed       Failed                                                   *)
(***************************************************************************)
EXTENDS Integers, Sequences, FiniteSets, Functions, WatermarkRules

CONSTANTS
    Pods,        \* the pods that match the selectors
    Foreign,     \* those that another workload owns
    Specs,       \* the lists of metrics that a SHPA may have
    Loads,       \* the usage of one pod
    Sums,        \* the values of an external metric
    MaxChanges   \* bound: changes of pods, while the pass runs or before it

Kinds == {"External", "cpu", "memory"}

\* Replica counts are int32s in the API.
ASSUME PodsAssumption    ==
    Foreign \subseteq Pods /\ IsFiniteSet(Pods) /\ Cardinality(Pods) <= MaxInt32
ASSUME SpecsAssumption ==
    \A s \in Specs : s \in Seq([rule : RuleType, kind : Kinds]) /\ s # <<>>
ASSUME LoadsAssumption   == Loads \subseteq Nat /\ Sums \subseteq Int
ASSUME ChangesAssumption == MaxChanges \in Nat

Stages == {"absent", "unscheduled", "pulling", "stuck", "starting", "ready", "unready",
           "failed"}

VARIABLES
    pods,      \* the stage of every pod
    lister,    \* the same in the informer's cache
    sample,    \* what the metrics server last measured
    spec,      \* Spec.Metrics: the rules, with the kind of source of each
    pc,        \* where the pass is
    current,   \* scale.Status.Replicas as the pass read it
    metrics,   \* what the calculator holds between its two reads: samples,
    counted,   \* or the number of ready pods
    results,   \* the results so far, one per metric
    replicas,  \* computeReplicasForMetrics' result, and
    chosen,    \* the metric it took the timestamp from
    steady,    \* history: cache and samples are current, nothing changed since the pass began
    changes

envVars  == <<pods, lister, sample>>
passVars == <<spec, pc, current, metrics, counted, results, replicas, chosen>>
vars == <<envVars, passVars, steady, changes>>

Running(p) == pods[p] \in {"starting", "ready", "unready"}
Owned == Pods \ Foreign
Existing == {p \in Owned : pods[p] \notin {"absent", "failed"}}

NoMetrics == [p \in {} |-> 0]

-----------------------------------------------------------------------------
(* The calculator's view of the pods *)

\* getReadyPodsCount tolerates pods that are pulling their images.
CountsAsReady(p) == p \in Owned /\ lister[p] \in {"ready", "pulling"}

ReadyPodsCount == Cardinality({p \in Pods : CountsAsReady(p)})

\* A mistake to detect: pods that have not become ready yet are not ignored.
OnlyPendingIgnored(kind) ==
    {p \in Owned : lister[p] \in {"failed", "unscheduled", "pulling", "stuck"}}

\* groupPods: the pods whose metrics are removed, and
IgnoredPods(kind) ==
    {p \in Owned : \/ lister[p] \in {"failed", "unscheduled", "pulling", "stuck"}
                   \/ /\ kind = "cpu" /\ lister[p] = "starting"
                      /\ p \in DOMAIN metrics}

\* the ones that count as ready.
ReadyPods(kind) ==
    {p \in Owned : /\ lister[p] # "absent"
                   /\ p \in DOMAIN metrics
                   /\ p \notin IgnoredPods(kind)}

\* removeMetricsForPods.
RemainingMetrics(kind) == Restrict(metrics, DOMAIN metrics \ IgnoredPods(kind))

-----------------------------------------------------------------------------
(* The pass *)

Metric == spec[Len(results) + 1]

\* The pass goes on to the next metric, or ends.
NextMetric == pc' = IF Len(results') = Len(spec) THEN "done" ELSE "next"

\* A mistake to detect: the last metric decides.
LastWins(result) == TRUE

\* "replicas will end up being the max".
Replaces(result) == replicas = 0 \/ result.count > replicas

\* A metric's proposal; ready and sum are kept for the properties.
Propose(ready, sum) ==
    LET result == [count |-> ReplicaCount(Metric.rule, current, ready, sum),
                   ready |-> ready, sum |-> sum]
    IN  /\ results' = Append(results, result)
        /\ replicas' = IF Replaces(result) THEN result.count ELSE replicas
        /\ chosen'   = IF Replaces(result) THEN Len(results) + 1 ELSE chosen
        /\ NextMetric
        /\ metrics' = NoMetrics /\ counted' = 0

\* One metric's error is the error of the pass.
Fail == /\ pc' = "failed"
        /\ metrics' = NoMetrics /\ counted' = 0
        /\ UNCHANGED <<results, replicas, chosen>>

\* The controller has read the scale of a target that runs.
Begin ==
    /\ pc \in {"idle", "done", "failed"}
    /\ Existing # {} /\ current' = Cardinality(Existing)
    /\ spec' \in Specs
    /\ pc' = "next"
    /\ results' = <<>> /\ replicas' = 0 /\ chosen' = 0
    /\ metrics' = NoMetrics /\ counted' = 0
    /\ steady' = (lister = pods /\ DOMAIN sample = {p \in Pods : Running(p)})
    /\ UNCHANGED <<envVars, changes>>

\* A mistake to detect: that no pod is ready is no error.
CountPodsAnyway ==
    /\ pc = "next" /\ Metric.kind = "External"
    /\ counted' = ReadyPodsCount
    /\ pc' = "fetch"
    /\ UNCHANGED <<envVars, spec, current, metrics, results, replicas, chosen, steady, changes>>

\* computeForExternalMetricReplicas counts the pods first,
CountPods ==
    /\ pc = "next" /\ Metric.kind = "External"
    /\ IF ReadyPodsCount = 0 THEN Fail
       ELSE /\ counted' = ReadyPodsCount
            /\ pc' = "fetch"
            /\ UNCHANGED <<metrics, results, replicas, chosen>>
    /\ UNCHANGED <<envVars, spec, current, steady, changes>>

\* then asks for the metric.
FetchExternalMetric ==
    /\ pc = "fetch"
    /\ \/ \E sum \in Sums : Propose(counted, sum)
       \/ Fail
    /\ UNCHANGED <<envVars, spec, current, steady, changes>>

\* computeResourceCount asks for the metrics first; no sample is an error.
FetchResourceMetric ==
    /\ pc = "next" /\ Metric.kind # "External"
    /\ \/ /\ DOMAIN sample # {}
          /\ metrics' = sample
          /\ pc' = "list"
          /\ UNCHANGED <<counted, results, replicas, chosen>>
       \/ Fail
    /\ UNCHANGED <<envVars, spec, current, steady, changes>>

\* Then it lists the pods, groups them and sums up.
ListPods ==
    /\ pc = "list"
    /\ LET remaining == RemainingMetrics(Metric.kind) IN
       IF (\A p \in Pods : lister[p] = "absent") \/ DOMAIN remaining = {} THEN Fail
       ELSE Propose(Cardinality(ReadyPods(Metric.kind)), SumFunction(remaining))
    /\ UNCHANGED <<envVars, spec, current, steady, changes>>

-----------------------------------------------------------------------------
(* The environment *)

\* A pod may fail or go at any time.
Ends(stage) == {"absent", "failed"} \ (IF stage = "absent" THEN Stages ELSE {stage})

\* A pod's life otherwise.
NextStages ==
    [absent   |-> {"unscheduled"},      unscheduled |-> {"pulling"},
     pulling  |-> {"stuck", "starting"}, stuck      |-> {"starting"},
     starting |-> {"ready"},            ready       |-> {"unready", "starting"},
     unready  |-> {"ready"},            failed      |-> {}]

PodChanges ==
    /\ changes < MaxChanges
    /\ changes' = changes + 1
    /\ \E p \in Pods :
          \E stage \in NextStages[pods[p]] \union Ends(pods[p]) :
             pods' = [pods EXCEPT ![p] = stage]
    /\ steady' = FALSE
    /\ UNCHANGED <<lister, sample, passVars>>

\* The informer catches up.
Sync ==
    /\ lister # pods
    /\ lister' = pods
    /\ UNCHANGED <<pods, sample, passVars, steady, changes>>

\* The metrics server measures the pods that run.
Scrape ==
    /\ sample' \in [{p \in Pods : Running(p)} -> Loads]
    /\ UNCHANGED <<pods, lister, passVars, steady, changes>>

-----------------------------------------------------------------------------
(* The specification *)

\* Owned pods in any stage, foreign ones ready or absent.  The manager has just started:
\* nobody waits for the informer's first list, which fills the cache pod by pod.
Init ==
    /\ pods \in [Pods -> Stages] /\ \A p \in Foreign : pods[p] \in {"absent", "ready"}
    /\ \E listed \in SUBSET Pods :
          lister = [p \in Pods |-> IF p \in listed THEN pods[p] ELSE "absent"]
    /\ sample \in [{p \in Pods : Running(p)} -> Loads]
    /\ spec \in Specs
    /\ pc = "idle" /\ current = 0 /\ metrics = NoMetrics /\ counted = 0
    /\ results = <<>> /\ replicas = 0 /\ chosen = 0
    /\ steady = FALSE
    /\ changes = 0

Pass == Begin \/ CountPods \/ FetchExternalMetric \/ FetchResourceMetric \/ ListPods
Next == Pass \/ PodChanges \/ Sync \/ Scrape
Spec == Init /\ [][Next]_vars

-----------------------------------------------------------------------------
(* Properties *)

Results == [count : Int, ready : Nat, sum : Int]

\* Every variable has its type, and what the calculator holds fits where it is: some ready
\* pods while it fetches an external metric, some samples before it lists the pods.
TypeOK ==
    /\ pods \in [Pods -> Stages] /\ lister \in [Pods -> Stages]
    /\ DOMAIN sample \subseteq Pods /\ \A p \in DOMAIN sample : sample[p] \in Loads
    /\ DOMAIN metrics \subseteq Pods /\ \A p \in DOMAIN metrics : metrics[p] \in Loads
    /\ pc \in {"idle", "next", "fetch", "list", "done", "failed"}
    /\ spec \in Specs
    /\ current \in Nat /\ counted \in Nat
    /\ (pc = "fetch") = (counted > 0)
    /\ (pc = "list") = (metrics # NoMetrics)
    /\ results \in Seq(Results) /\ Len(results) <= Len(spec)
    /\ replicas \in Int /\ chosen \in 0..Len(spec)
    /\ steady \in BOOLEAN /\ changes \in Nat

\* A metric's result without what the next two properties leave out: no ready pod, and a
\* load whose count no int32 holds.
Ordinary(i) ==
    results[i].ready > 0 /\ Fits(spec[i].rule, results[i].ready, results[i].sum)

\* Under the average algorithm a load above the high mark gets the least count at which the
\* average per replica is down at the mark again, or one more where float64 rounds up; a
\* load below the low mark gets the greatest count at which it is still up at that mark, or
\* one less, but one at least.
AverageFits ==
    \A i \in DOMAIN results :
       LET rule == spec[i].rule
           n    == results[i].count
           sum  == results[i].sum
       IN  Averages(rule) /\ Ordinary(i) =>
              /\ Above(rule, results[i].ready, sum) =>
                    sum <= n * rule.high /\ (n - 1) * rule.high <= sum
              /\ Below(rule, results[i].ready, sum) /\ rule.low > 0 =>
                    /\ n >= 1 /\ (n > 1 => n * rule.low <= sum)
                    /\ sum <= (n + 1) * rule.low

\* A load outside the marks moves the ready count in the right direction.
LoadGivesDirection ==
    \A i \in DOMAIN results :
       LET rule == spec[i].rule  r == results[i] IN
       Ordinary(i) =>
          /\ Above(rule, r.ready, r.sum) => r.count > r.ready
          /\ Below(rule, r.ready, r.sum) => r.count <= r.ready

\* A pass that proposes has a result for every metric, and it proposes what the most
\* demanding one does, with that one's timestamp; computeReplicas takes every count below
\* one for zero.
TakesTheMaximum ==
    pc = "done" => /\ Len(results) = Len(spec)
                   /\ chosen \in DOMAIN results
                   /\ replicas = results[chosen].count
                   /\ \A i \in DOMAIN results :
                         results[i].count <= replicas \/ results[i].count <= 0

\* The pods a metric's load stands for when nothing moves and nobody shares the labels.
Measured(kind) ==
    {p \in Owned : \/ pods[p] \in {"ready", "unready"}
                   \/ kind = "memory" /\ pods[p] = "starting"}

\* As long as no pod changes, a resource metric sums the usage of just the pods it counts:
\* its average is one of these pods.
SumsWhatItCounts ==
    steady /\ (\A p \in Foreign : ~Running(p)) =>
       \A i \in DOMAIN results :
          spec[i].kind # "External" =>
             /\ results[i].ready = Cardinality(Measured(spec[i].kind))
             /\ \E usage \in [Measured(spec[i].kind) -> Loads] :
                   results[i].sum = SumFunction(usage)

\* The error of computeResourceCount says it: no proposal without metrics of ready pods.
ProposesForReadyPods == \A i \in DOMAIN results : results[i].ready > 0

\* groupPods scopes the pods to the target by their owner: so should the load, at least in
\* a pass that sees what there is, with cache and samples current and nothing moving.
LoadIsOfTarget ==
    [][\A i \in DOMAIN results' \ DOMAIN results :
          steady /\ spec[i].kind # "External" =>
             results'[i].sum = SumFunctionOnSet(metrics, ReadyPods(spec[i].kind))]_vars
=============================================================================
