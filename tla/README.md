# A TLA+ model of the SHPA controller

SHPA ("sidecar horizontal pod autoscaler") is a Kubernetes operator: for every
SHPA object it looks, again and again, at the replica count of a target and at
external or resource metrics, and writes a new count into the target's scale
subresource. This directory holds TLA+ modules translated from its Go source,
TLC configurations that check them on small instances, and TLAPS proofs.

Paths below are relative to the repository; `shpa_controller.go` is
`src/controllers/shpa_controller.go`.

## 1. Inventory

| Part | Source | State | Operations |
|---|---|---|---|
| Reconciler, the pass | `shpa_controller.go` | a copy of the SHPA, the scale it read, a snapshot of the status, the decision; nothing survives the pass | `Reconcile`, `reconcileSHPA`, `computeReplicas`, `rescaleReplicas`, `setStatus`, `updateStatusIfNeeded` |
| Decision rules | `shpa_controller.go` 342-448, 583-651, 702-711 | none | limits, normalisation, cooldown |
| Lifecycle | `shpa_controller.go` 175-246, `finalizer.go` | the same copy | finalizer, defaults, validity report |
| Defaults, validity | `api/v1/shpa_default.go` | none | `DefaultSHPA`, `IsDefaultSHPA`, `CheckSHPAValidity` |
| API objects | `api/v1/shpa_types.go` | spec and status on the API server, with a resource version | read through a cache, written with optimistic concurrency |
| Watermark calculator | `algorithm/watermark/waterwark_calculator.go` | a lister's cache, a metrics client | ready pods, sums, the watermark rule |
| Work queue, watch | vendored controller-runtime and client-go | dirty keys, delayed keys, the cache | `AddAfter`, `AddRateLimited`, event filter |
| List helpers | `controllers/util/list.go` | none | `ContainsString`, `RemoveString` |
| Pod informer | `algorithm/watermark/watermark_client.go` | the lister's cache | starts without waiting for its first list |
| Manager | `main.go`, `controllers/controller.go` | none | start-up |

How they interact: the API server's watch brings versions of the SHPA into the
manager's cache; an addition, a deletion or a change of the spec puts the key
into the work queue (`updatePredicate` drops the rest). One worker takes the
key, `Reconcile` reads the SHPA **from the cache**, settles the finalizer, the
defaults and the validity with calls that carry the cached resource version,
then `reconcileSHPA` reads the scale **from the API server**, asks the
calculator, writes the scale and at last the status. What `Reconcile` returns
decides whether the key comes back: an error or `Requeue` (rate limited),
`RequeueAfter` (15 s, or 1 s after an error), or nothing.

What is hard here:

* two objects are updated by two calls with the world moving before, between
  and after them: users edit the SHPA, people and the target's controller
  change the scale, the cache lags, a call fails or only its answer is lost,
  the manager restarts;
* the cooldown depends on a time stamp written by the second of these calls;
* errors are swallowed in several places, and updates are filtered, so whether
  a SHPA is ever looked at again depends on every single return path;
* the arithmetic goes through floating point, limits of steps and of the range
  interact, and the counts of "observed" and "wanted" replicas are different.

What makes each part correct: the pass never leaves the range, the step limits
or (as far as it can know) the forbidden windows, at the moment the update takes
effect; it respects a disabled target and a dry run; it never loses a recorded
rescale; it stores a status only over the spec it belongs to; the loop never
stops; a target ends up in range. The lifecycle works only behind its
finalizer, overwrites nobody's spec nor finalizers, reports what is invalid, and leaves a
SHPA alone only when nothing is left to do. All parts together settle: under a load that
stays, the target comes to rest between the watermarks and is left there.

## 2. Modules

| Module | Models | Depends on |
|---|---|---|
| `ReplicaRules` | the pure decision rules | |
| `SHPAController` | one valid SHPA, the pass step by step, its environment | `ReplicaRules` |
| `Autoscaler` | abstract: what the controller promises about a target, each change one atomic step | `ReplicaRules` |
| `SHPARefinement` | the refinement mapping: `SHPAController` implements `Autoscaler` | both |
| `SHPADefaults` | defaulting and validity of specs | |
| `ListHelpers` | the two list functions, with the slices they work on | |
| `SHPALifecycle` | one SHPA from creation to deletion, `reconcileSHPA` as one step | `SHPADefaults`, `ListHelpers` |
| `WatermarkRules` | the pure watermark rule, `getReplicaCount` | |
| `WatermarkCalculator` | one pass over several metrics, with the pods it counts and their samples | `WatermarkRules` |
| `ClosedLoop` | passes, calculator rules and target together under a constant load | `ReplicaRules`, `WatermarkRules` |
| `MCSHPAController`, `MCSHPALifecycle`, `MCWatermarkCalculator`, `MCClosedLoop` | small instances | |
| `ReplicaRulesProofs`, `SHPAControllerProofs`, `SHPARefinementProofs`, `SHPALifecycleProofs`, `WatermarkRulesProofs`, `WatermarkCalculatorProofs`, `ClosedLoopProofs` | lemmas and theorems about the module of that name | TLAPS |
| `NumberLemmas` | the least natural number, the greatest of a finite set, sums over finite sets | TLAPS |

### ReplicaRules

`ScaleUpLimit` and `ScaleDownLimit` are `calculateScaleUpLimit` and
`calculateScaleDownLimit`. `float64(f)/100*float64(n)` floors to one less than
the exact quotient only at some multiples of 100; the constant `RoundsDown` is
the set of those pairs, and its assumption says no more than that. The proofs
hold for every such set. `ConvertDesiredReplicas`, `ShouldScale`, `CanScale`,
`DecisionCase`, `FixedDecision` and `MetricDecision` follow the functions of the
same names and the cases of `computeReplicas`. Replica counts are unbounded
integers: `MaxReplicas` bounds them far below 2^31 in any cluster.

### SHPAController

| Variable | Code |
|---|---|
| `shpa`, `watch`, `cached` | the object on the API server, undelivered versions, the informer's cache |
| `dirty`, `due` | the key in the work queue, the time of its `AddAfter` |
| `target` | the scale subresource: `Spec.Replicas`, `Status.Replicas` |
| `inst`, `original`, `scale`, `plan`, `pc` | `instance`, `shpaStatusOriginal`, `currentScale`, the results of `computeReplicas`, the place in the pass |
| `scaledAt` | history: when the controller last changed the wanted count |

A copy carries the flag `fresh` in place of a resource version: the object has
not changed since, so an update with that version would be accepted. The pass
is `Begin`, `GetScale`, `Compute`, then `UpdateScale` or `UpdateScaleFails`,
`WriteStatusOfDryRun`, `WriteStatusOnError` or `WriteStatus`; each is one call
to the outside together with the code up to the next one. `GetScaleFails`,
`MetricsFail` and `MetricsPanic` are the error paths. `Deliver` is the watch with
`updatePredicate`, `TimerFires` the delaying queue, `Restart` a new manager that
lists the SHPA again. Failed calls may have taken effect. The metrics are
abstract: a proposal from `Proposals` with a timestamp at most `MetricLag` old.
The status keeps what later passes or users read: `LastScaleTime`, the counts,
the reasons of the conditions, and whether there are metric statuses.

### Autoscaler and SHPARefinement

`Autoscaler` has no pass, cache, queue or failing call. Its state is the clock, the target,
the stored version of the SHPA (its spec and `LastScaleTime`) and `known`, the versions the
controller may act on. `Rescale` reads the target, decides and writes in one step, with any
known version; `Wants` is `computeReplicas` as a relation. `Record` stores a
`LastScaleTime`, over the latest version and later than the one before. The remaining actions
are the world's.

`SHPARefinement` maps `SHPAController` onto it: `latest` is the API server's SHPA, `known` the
versions of that SHPA, of the undelivered and the cached copies, and of `inst` while there is a
pass. `ImplementsAutoscaler` then says that what happens between the read of the scale and its
update cannot be told from a pass in a single step: whoever scales the target meanwhile makes
the update conflict, and time that passes only opens windows. A history the code does allow,
and `Autoscaler` too, is a decision with an old version: a spec that was edited, or a
`LastScaleTime` that a lost status write never brought to the API server.

### ListHelpers

`RemoveString` deletes from the slice it ranges over: `range` fixes array and length at the
start, `append` shifts the rest of the same array in place. `RemovalLoop` follows that, with
the stale tail and the slice expression that panics when the tail holds another match.

### SHPALifecycle

`api`, `watch`, `cached`, `dirty`, `pc`, `inst`, `fresh` are as above, for an object
that may not exist, with its `uid`, deletion mark and its list of finalizers, those of other
controllers included; the constant `Finalizers` is the set of their names and `Lists` the lists that
people write, in which no name occurs twice. `Specs` are records of what the rules of
`SHPADefaults` read (`SpecType`), valid or not. `timer` is any pending `AddAfter` or `AddRateLimited`, whatever its delay. `AtFinalizer` and
`AfterFinalizer` are the branches of `handleFinalizer` and `Reconcile`;
`RemoveFinalizer`, `AddFinalizer`, `SetDefaults`, `ReportInvalid` and `Work` are the
calls they lead to. `Update` stores the whole copy, its finalizers and spec. `Get` reads a
synced cache, which returns the object or NotFound and nothing else. `lost` is a history
variable: the last pass dropped an error of `addFinalizer`.

The reference to the target, which the validity check only asks to be populated, is unset,
"resolved" or "dangling". `TargetNotReached` is a pass over a dangling one: the API version does
not parse, the kind is unknown or the target does not exist, so `reconcileSHPA` returns before it
stores anything, and the condition `FailedProcessSHPA` is set on a copy that nobody saves. That
may happen in every pass, or the target may appear. The failures of `CallFails` that are no
conflicts, as of a status write, are bounded by `MaxFaults`. After any failure of `Work` there is
another pass.
`SHPAController` is what happens inside `Work`; what it assumes of its
specs (`ValidRange`) is what `SHPALifecycle` lets through (`Valid`).

### WatermarkRules

`Above` and `Below` compare the usage with the thresholds without its division, so that
they mean the same when float64 divides by zero. `CountAbove` and `CountBelow` are the two
roundings with what float64 does to them: the average algorithm computes
`ready * (sum / ready) / mark`, which at some exact multiples is a little more or less than
the quotient (7 ready pods, a sum of 900 and a mark of 100 give 10, not 9). `RoundsUp` and
`RoundsShort` are the sets of those triples, restricted by an assumption to exact multiples.
`ToInt32` is the conversion on amd64, the architecture of the `Dockerfile`: infinities, NaN
and whatever does not fit become the smallest int32.

### WatermarkCalculator

| Variable | Code |
|---|---|
| `pods`, `lister`, `sample` | the pods, the informer's cache of them, the metrics server's last measurement |
| `pc`, `results`, `replicas`, `chosen` | `computeReplicasForMetrics`: where the loop is, what each metric proposed, `replicas`, the metric behind `timestamp` |
| `current` | `target.Status.Replicas` |
| `metrics`, `counted` | `metrics` of `computeResourceCount`, `currentReadyReplicas` of `computeForExternalMetricReplicas`, between their two reads |
| `steady` | history: the pass began with cache and samples up to date and no pod has changed since |

`CountPods` and `FetchExternalMetric` are the two halves of
`computeForExternalMetricReplicas`, `FetchResourceMetric` and `ListPods` those of
`computeResourceCount`; an external metric counts pods first and asks for the load then, a
resource metric the other way round, and pods, cache and samples change in between. A
pod's stage stands for what the code reads of it: phase, Ready condition, start time and time
of transition. `Foreign` pods match the selectors and fail `checkOwnerRef`. At first the
lister may lack any of the pods: `initializePodInformer` does not wait for the first list.
Any finite number of pods is allowed that an int32 counts, as replica counts are int32s.

### ClosedLoop

The state is a spec, a load (a rule and a sum per external metric), the target's two counts, how
many replicas are ready, and the age of `LastScaleTime`. `Pass` is one whole pass, which
`ImplementsAutoscaler` justifies; it uses the operators of `ReplicaRules` and `WatermarkRules`,
so that the modules meet here. A load names finitely many metrics. What does not vanish between the steps of a pass is kept: metrics
are up to `MetricLag` old, and each rescale may fail to store its `LastScaleTime`. `Progress` and
`GetsReady` are the target's controller and the kubelet. The initial states are all of them:
any counts, any number of ready replicas, any age, also targets that are disabled or out of range.

## 3. What the runs check

| Run | States | Shows |
|---|---|---|
| `controller_safety` | 4.4 million | the type and pass invariants, `LoopStaysAlive`, six action properties, and `ImplementsAutoscaler` |
| `controller_range` | 0.8 million | `RangeEventuallyEnforced` |
| `lifecycle_safety` | 0.86 million | `WorksBehindFinalizer`, `LeftAloneWhenDone`, `OthersFinalizersStay`, `OnlyDefaultsAreWritten`, `StatusIsOfStoredSpec`; `StatusSettles`, `WorkedOnForever`, `ValidDeletionCompletes` |
| `calculator_safety` | 5.4 million | `AverageFits`, `LoadGivesDirection`, `TakesTheMaximum`, `SumsWhatItCounts` |
| `loop_settles` | 64 thousand | the bounds of `TypeOK`, `Settles`, `EndsInBand`, `RestIsLeftAlone` |
| `controller_cooldown` | violation | a lost status write opens the forbidden window |
| `controller_metrics` | violation | `Status.CurrentMetrics` is never updated |
| `controller_dryrun` | violation | the `DryRun` condition goes stale |
| `lifecycle_deletion` | violation | an invalid SHPA cannot be deleted |
| `lifecycle_finalizer` | violation | a dropped error of `addFinalizer` abandons the SHPA |
| `calculator_ready` | violation | a count is proposed for zero ready pods |
| `calculator_owner` | violation | other workloads' samples are in the load, also when nothing moves |

`MCSHPALifecycle` also has assumptions that TLC evaluates: `RemoveString` removes a finalizer
that is listed once, and keeps the order of the others, in all lists of up to four names; and what
it does to duplicates.

*Bounds.* The clock stops at `MaxTime`; with `TimersExpire` timers still run out then,
so that liveness does not hang on the bound. `MaxEdits` and `MaxFaults` bound what
people do and what fails. In `controller_safety` one edit or manual scaling, one
failure and three ticks fit around two or three passes, with windows of one and two
ticks, ranges that overlap in part, targets that are disabled, in range and above it,
proposals of nothing, of the present and of too much; every hazard of the list needs
one disturbance at one place of a pass and shows in that pass or the next. `RoundsDown` is
empty in the runs of the controller, whose counts are far below 100: what float64 does to the
limits is covered by the theorems alone, which hold for every such set. The range of
the lifecycle run (four changes by people, two failures, specs of every kind, one of them with a
dangling target) covers creation,
edits, deletion and a second creation under the same name while the cache holds the
first. Lists of finalizers are empty or hold the controller's own before another one, so that
a removal has something to shift.

In `calculator_safety` two pods of the target and one of another workload start in every
combination of stages, two changes of pods fall between the steps of passes over an external
and a resource metric under either algorithm, and the int32 is small (`MaxInt32` is 5), so
that overflow happens within the range of the loads. The two pods of the target are
interchangeable there, and TLC uses that symmetry; the run has no liveness property.

`loop_settles` starts from every count up to 7 and every age up to 3, with windows of one and
two ticks, four specs (wide and narrow ranges, one of a single count, small and large step
limits, one whose range lies above most of the initial counts) and loads from none to
one that asks for more than the range, under both algorithms, and with two metrics that
disagree; one of the loads rounds up in float64. The high watermarks are at least twice the low
ones: closer together, the least count whose average is below the high mark may have an average
below the low one, and the target does go up and down for ever, also with marks that are equal,
which the validity check lets through (see section 5).

*Fairness.* Weak fairness of the worker, the watch, the timer, the target's own
controller and the clock: the worker is a goroutine that loops over the queue, informers
and the delaying queue run for as long as the manager does, and time passes. Users,
failures and restarts are never forced, and each pass's calls return (clients have
timeouts). Failures of calls are finitely many, those of passes over a dangling target are not. In `loop_settles`, passes go on because of `LoopStaysAlive`, the target's controller
creates and removes replicas, pods get ready, and time passes.

*Deadlock* is not checked: with the clock and the people at their bounds the models stop.

## 4. What is proved

`ReplicaRulesProofs`: for every valid spec, current count in its range and proposal, the
normalised count lies in the range (`NormalisedWithinRange`) and between the step limits
(`NormalisedWithinLimits`), and moves towards the proposal unless the range forbids it
(`NormalisedMakesProgress`). The two limits leave at least a step of one
(`LimitsLeaveAStep`) because of the `Max(1, ...)` in the code, whatever float64 does.

`SHPAControllerProofs`: `TypeCorrect`, `PassInvariant` and from it `RangeSafe`,
`StepsSafe`, `DisabledSafe`, `CooldownSafe`, `LastScaleSafe`, `StatusSafe`, `NeverAsleep`, for
every set of valid specs, of sizes and proposals, every lag, period and delay and all
bounds.

`WatermarkRulesProofs`: for every rule, number of ready pods and load, a proposal goes in
the direction of the load (`DirectionIsRight`) and fits it (`AboveFits`, `BelowFits`), for every
pair of sets `RoundsUp` and `RoundsShort`; the case of no ready pod and of a count that no int32
holds is excluded, because there the rule is wrong.

`WatermarkCalculatorProofs` carries these facts from the rule to the pass: `PassGivesDirection`
and `PassFits`, with `MaximumIsTaken`, `PassSumsWhatItCounts` and `CalculatorTypeCorrect`, for
every finite set of pods, foreign ones among them, every list of metrics, every load and any
number of changes of pods.

`SHPALifecycleProofs`: all six safety properties of the lifecycle, as `LifecycleTypeCorrect`,
`FinalizerBeforeWork`, `NeverForgotten`, `OthersFinalizersKept`, `SpecIsThePeoples` and
`StatusMatchesSpec`, for every set of specs, of finalizers and of lists without duplicates and
any number of edits and failures. They rest on two facts about lists of every length:
`RemoveString`'s loop over the array it shifts takes out a string that is listed once and does
not panic (`RemoveStringOnce`), and the finalizers of others are the same before and after
(`OthersAfterRemoval`, `OthersAfterAppend`).

`SHPARefinementProofs`: `Implements`, that `SHPAController` implements `Autoscaler`, and
`PlanStaysWanted`, which it rests on.

`ClosedLoopProofs`: `RestIsStable`, that passes leave a target at rest alone, for every valid
spec and every load: with no metric above its mark and one of them not below, every count is at
most the ready one and one is equal, the maximum is that count, the rules leave it as it is, and
the scale is written with the value it had, if at all. `LoopTypeCorrect` says that no count
goes above the limit or the one the loop began with; the proposal is a maximum over the metrics, and that a finite set of
counts has one is `NumberLemmas!GreatestOfFinite`.

The argument for `SHPAController`. The action properties are about one step, but what makes that step right
was established earlier: the plan was made when the scale was read. `PassInv` says what
stays true while the plan waits: (1) the cache followed by the watch ends in the API
server's version, so a copy read with nothing left in the watch is the latest; (2) a copy
that is still `fresh` agrees with the original, so an accepted update is an update of
what was read; (3) the plan obeys the range, the limits and the windows for the values
read, and only the clock can move, in the harmless direction; (4) no recorded rescale lies
in the future. Each action keeps them (lemmas `FinishKeepsInv`, `UpdateStatusKeepsInv`,
`AppendFollows` serve several), and an accepted update then meets the same values it was
made for.

The argument for the refinement adds `WantedPlan` to `PassInv`: a plan that waits for its update
is one that `Autoscaler` wants of the scale it was made for, at the present time. That survives
the clock because a window that is open stays open (`ShouldScale` is monotone in time), and an
accepted update meets the very scale it was made for because anybody else's update would have
made it conflict. A stored status is a `Record` or no step at all, because a copy that is still fresh
is the stored one; and what the cache, the watch or the pass hold is always among the known
versions, since versions only move from one of these places to the next.

The argument for `SHPALifecycle`. None of its properties is inductive: each depends on what the
cache and the watch still hold. The invariant has three parts beside the types.

* `HistoryInv`: the cache followed by the watch ends in the API server's object, and each of
  these states, as well as the copy in the pass, can be trusted about the finalizer
  (`Trusted`): if it shows it on a SHPA that is not marked for deletion, the SHPA of that `uid`
  still has it. This holds because the controller takes the finalizer off only with an up-to-date
  copy that is marked for deletion, and nobody takes a deletion mark back. `FinalizerBeforeWork`
  follows.
* `PassInv`: the pass is at the place its copy leads to, and a copy that is still `fresh` is the
  API server's object. The three action properties follow, because an accepted update is then
  made from what it replaces.
* `AttendedInv`, the strengthening of `LeftAloneWhenDone`: whenever some state on the way from the
  cache to the API server needs nothing more, either the latest one needs nothing more, too, or a
  later change on that way passes `updatePredicate`. An idle worker without a timer or a queued
  key has seen such a state. The hypothesis that no error of `addFinalizer` was dropped is
  needed in that last step only; section 5 shows what happens otherwise.

The argument for `WatermarkCalculator`. `ResultsInv` says that each result is the rule's count
for the ready pods and the sum kept beside it, so that the theorems on the rule apply to it;
`MaximumInv` is the loop invariant of `computeReplicasForMetrics`, with the count that a zero
maximum lets a negative one replace; `PassInv` bounds the pods, keeps the metric at hand
within the list and has a result for each of them at the end; `SteadyInv` says that in a pass during which no pod changed the samples held
between the two reads are those of the pods that run, so that the ready pods, computed from the
lister, and the remaining samples, computed from the metrics, are the same set, `Measured`. The
sum of the samples is a fold over a finite set; that it is an integer is
`NumberLemmas!SumOfFinite`, proved by a least counterexample on the size of the set because the
provers cannot use the library's induction theorems.

The assumptions are the named ones of the modules: valid specs, natural sizes and delays,
integer proposals, `NoTime` no integer, the rounding of `RoundsDown`, `RoundsUp` and
`RoundsShort`, lists of finalizers without duplicates, as many pods as an int32 counts, and
loads of finitely many metrics. TLC found every inductive invariant true of the instances of
section 3 before it was proved.

Only model-checked: all liveness (`RangeEventuallyEnforced`, `StatusSettles`,
`WorkedOnForever`, `ValidDeletionCompletes`, `Settles`, `EndsInBand`), because the prover handles
neither fairness nor ENABLED; what `RemoveString` does to lists with duplicates, which is a
matter of examples; and the seven violations of section 5.

## 5. Disagreements met

Seven runs expect a violation; `PROJECT.json` quotes the text each one contradicts.

1. *Cooldown lost* (`controller_cooldown`). `LastScaleTime` is saved after the scale
   update with the cached version of the SHPA; any edit in between makes the write
   conflict and the next pass, one second later, does not know of the rescale.
   `CooldownWhenKnown` is what does hold, and is proved.
2. *Metric statuses* (`controller_metrics`): assigned to a parameter, lost.
3. *DryRun condition* (`controller_dryrun`): set before the snapshot it is compared with.
4. *Deletion of an invalid SHPA* (`lifecycle_deletion`): marked for deletion, filtered.
5. *Dropped error* (`lifecycle_finalizer`). While exploring, the same path showed a second
   entrance: a pass that starts before the watch has delivered the controller's own
   finalizer tries to add it once more, conflicts, and drops the SHPA, finalizer and all.
   `LeftAloneWhenDone`, `WorkedOnForever` and `ValidDeletionCompletes` say that this dropped
   error is the only way a valid SHPA is lost.
6. *Zero ready pods* (`calculator_ready`): the sample of a pod that the lister does not hold,
   because it is gone or because the informer's first list is still on its way, gets past the
   guard; the average is infinite and the proposal the smallest int32.
7. *Other workloads' load* (`calculator_owner`): not counted, but summed. The property asks for
   it only in a pass during which nothing moves, over a cache that shows all pods, so that it is
   the missing owner check of the samples that breaks it and no lag.

Smaller things, without a run. A valid SHPA whose target cannot be found fails in every pass
before anything is stored, and the condition set after the failure (`shpa_controller.go:240`) is
on a copy that is dropped: a SHPA that was reported as invalid, and then edited to be valid but
without a target, goes on telling the error of the old spec. `StatusSettles` therefore speaks of
valid specs with a resolved target only, and `WorkedOnForever` of all valid ones. The first pass stamps `LastScaleTime` although it changes
no count (`ShouldScale` is true whenever there is none), and so does a dry run; the
windows then run from a rescale that never happened. One busy pod next to two that are
still pending gets a proposal of two: the rule scales the ready pods, the result is
compared with the observed ones, and the controller explains the downscale with "All
metrics below target". When a metric proposes zero and a later one the smallest int32,
the second one replaces the first, although the comment speaks of the maximum; the
controller takes both for zero, which is how `TakesTheMaximum` states it. A SHPA without
any metric is valid, and its pass proposes zero. The validity check's message asks for a low
watermark "strictly inferior" to the high one and lets equal ones pass
(`shpa_default.go:120`); under the average algorithm such marks, or marks closer than a factor
of two, make the target flap for some loads. A scale that still reports zero replicas while
three are wanted is below its range, so the pass takes the wanted count back to `MinReplicas`.
`RemoveString` panics on a list that holds the finalizer twice in the wrong places, and there
the panic is outside of `reconcileSHPA`'s recover: a SHPA with such a list cannot be deleted; the
controller itself never makes one.

## 6. Plan

Every safety property that a run checks is proved. What is left to prove:

1. What one module assumes of another: that a spec which `Valid` lets through and `DefaultSHPA`
   completes satisfies `ValidRange`, that the calculator's proposals are among the `Proposals`
   of `SHPAController`, and that no pass of `SHPALifecycle` meets a list on which `RemoveString`
   panics.
2. The safety part of the argument that the closed loop settles: a pass under a constant load
   does not move the target past its goal, so that the distance to it never grows.

### Not modelled

* Construction of clients, the registry of algorithms (one constant entry) and the manager's
  wiring: no state of their own. Leader election is off by default in `main.go` and on in
  `config/manager/manager.yaml`; two managers that work at once are not modelled.
* The vendored work queue beyond one key: rate limits, several keys, shutdown.
* Generated deep copies, and the calculator under `src/controllers/back`, which nothing imports.
* Logging, events and printing columns.

## 7. Running

    tlc -config MCSHPAController_safety.cfg MCSHPAController.tla
    tlapm SHPAControllerProofs.tla
    tlapm SHPARefinementProofs.tla
    tlapm SHPALifecycleProofs.tla
    tlapm WatermarkCalculatorProofs.tla
