--------------------------- MODULE SHPAController ---------------------------
(***************************************************************************)
(* The reconcile loop of the SHPA controller                               *)
(* (src/controllers/shpa_controller.go) for one SHPA that already has its  *)
(* finalizer, its defaults and a valid spec, against                       *)
(*                                                                         *)
(*   - the API server's copy of the SHPA, which users edit while the       *)
(*     controller works, and the watch that brings its versions to the     *)
(*     manager's cache one by one and late;                                *)
(*   - the scale subresource of the target, which the controller reads and *)
(*     writes directly, which people write too and whose observed count    *)
(*     follows the wanted one at its own pace;                             *)
(*   - the manager's work queue: a dirty mark for the SHPA's key and a     *)
(*     timer for AddAfter (one worker, so one pass at a time);             *)
(*   - failures: rejected calls, calls that took effect but whose answer   *)
(*     was lost, panics and restarts of the manager.                       *)
(*                                                                         *)
(* Resource versions are abstracted to the flag "fresh" of a copy: the     *)
(* object has not changed on the API server since the copy was taken, so   *)
(* an update that carries the copy's resourceVersion is accepted.          *)
(***************************************************************************)
EXTENDS Integers, Sequences, ReplicaRules

CONSTANTS
    Specs,        \* the valid, defaulted specs users give the SHPA
    Sizes,        \* the replica counts people give the target
    Proposals,    \* the counts computeReplicasForMetrics may return
    MetricLag,    \* how old a metrics timestamp may be
    SyncPeriod,   \* SHPAReconciler.syncPeriod
    RetryDelay,   \* the delay after an error of reconcileSHPA
    MaxTime,      \* bound: the clock stops there
    TimersExpire, \* bound: whether timers still run out when it has stopped
    MaxEdits,     \* bound: changes people make
    MaxFaults     \* bound: failed calls, panics and restarts

ASSUME SpecsAssumption ==
    Specs # {} /\ \A s \in Specs : s \in SpecType /\ ValidRange(s)
ASSUME SizesAssumption     == Sizes \subseteq Nat
ASSUME ProposalsAssumption == Proposals \subseteq Int
ASSUME DelaysAssumption    == MetricLag \in Nat /\ SyncPeriod \in Nat /\ RetryDelay \in Nat
ASSUME BoundsAssumption ==
    MaxTime \in Nat /\ TimersExpire \in BOOLEAN /\ MaxEdits \in Nat /\ MaxFaults \in Nat

VARIABLES
    now,        \* the clock
    shpa,       \* the API server's SHPA: spec and status
    watch,      \* its versions the cache has not seen yet, oldest first
    cached,     \* the version in the manager's cache
    dirty,      \* the key waits in the work queue
    due,        \* when the delaying queue adds the key, NoTime if it will not
    target,     \* the target's scale: wanted (spec) and observed (status) counts
    pc,         \* where the worker is in the pass
    inst,       \* Reconcile's instance
    original,   \* shpaStatusOriginal
    scale,      \* currentScale
    plan,       \* what computeReplicas decided
    scaledAt,   \* history: when the controller last changed the wanted count
    edits, faults

envVars   == <<shpa, watch, cached, target>>
queueVars == <<dirty, due>>
passVars  == <<pc, inst, original, scale, plan>>
vars == <<now, envVars, queueVars, passVars, scaledAt, edits, faults>>

-----------------------------------------------------------------------------
(* Data *)

Times == Nat \union {NoTime}

\* Reasons of the AbleToScale condition while its status is False.
UnableReasons ==
    {"BackoffBoth", "BackoffUpscale", "BackoffDownscale", "FailedUpdateScale"}
AbleReasons ==
    UnableReasons \union {"", "SucceededGetScale", "ReadyForScale", "SucceededRescale"}
LimitReasons ==
    {"", "ScaleDownLimit", "TooFewReplicas", "ScaleUpLimit", "TooManyReplicas",
     "DesiredWithinRange"}
DecisionCases == {"disabled", "aboveMax", "belowMin", "zero", "metrics"}

StatusType ==
    [lastScale : Times, current : Int, desired : Int, able : AbleReasons,
     active : {"", "ScalingDisabled", "ValidMetricFound"}, limited : LimitReasons,
     dryRun : {"", "enabled", "disabled"}, metrics : BOOLEAN]

Versions  == [spec : Specs, status : StatusType]
Instances == [spec : Specs, status : StatusType, fresh : BOOLEAN]
Scales    == [spec : Int, status : Int, fresh : BOOLEAN]
Plans     == [rescale : BOOLEAN, desired : Int, case : DecisionCases]

\* A new SHPA's status; metrics tells whether CurrentMetrics holds anything.
EmptyStatus ==
    [lastScale |-> NoTime, current |-> 0, desired |-> 0, able |-> "", active |-> "",
     limited |-> "", dryRun |-> "", metrics |-> FALSE]

\* The values of the pass's variables while there is no pass.
NoInstance ==
    [spec |-> CHOOSE s \in Specs : TRUE, status |-> EmptyStatus, fresh |-> FALSE]
NoScale == [spec |-> 0, status |-> 0, fresh |-> FALSE]
NoPlan  == [rescale |-> FALSE, desired |-> 0, case |-> "disabled"]

DryRunReason(spec) == IF spec.DryRun THEN "enabled" ELSE "disabled"

-----------------------------------------------------------------------------
(* Status updates *)

\* Mistakes to detect: the rescale is stamped with the age of its metrics; the
\* recreated status does not take LastScaleTime over.
StampedWithMetricsTime(status, current, desired, rescale) ==
    [status EXCEPT !.current = current, !.desired = desired,
                   !.metrics = original.metrics,
                   !.lastScale = IF rescale THEN now - MetricLag ELSE @]

LastScaleForgotten(status, current, desired, rescale) ==
    [status EXCEPT !.current = current, !.desired = desired,
                   !.metrics = original.metrics,
                   !.lastScale = IF rescale THEN now ELSE NoTime]

\* setStatus.  The metric statuses it gets are always the ones read with the
\* SHPA: what computeReplicas assigns to its parameter stays there.
SetStatus(status, current, desired, rescale) ==
    [status EXCEPT !.current = current, !.desired = desired,
                   !.metrics = original.metrics,
                   !.lastScale = IF rescale THEN now ELSE @]

\* AbleToScale is made True at the start of the pass, so finding it False again
\* means that setConditionInList stamped a new LastTransitionTime.
Restamped(status) == status.able \in UnableReasons

\* The API server stores an accepted status; an identical one is no new version.
StoreStatus(status) ==
    IF status = shpa.status /\ ~Restamped(status)
    THEN UNCHANGED <<shpa, watch>>
    ELSE /\ shpa' = [shpa EXCEPT !.status = status]
         /\ watch' = Append(watch, [shpa EXCEPT !.status = status])

\* A mistake to detect: the update does not carry a resourceVersion.
StatusOverwritten(status, err) ==
    IF err THEN FALSE
    ELSE IF status # original \/ Restamped(status)
         THEN StoreStatus(status) /\ UNCHANGED faults
         ELSE UNCHANGED <<shpa, watch, faults>>

\* updateStatusIfNeeded returns an error (err) or nil.  A stale copy conflicts;
\* the call may also fail before or after the server has stored the status.
UpdateStatusIfNeeded(status, err) ==
    LET needed == status # original \/ Restamped(status) IN
    \/ ~err /\ ~needed /\ UNCHANGED <<shpa, watch, faults>>
    \/ ~err /\ needed /\ inst.fresh /\ StoreStatus(status) /\ UNCHANGED faults
    \/ err /\ needed /\ ~inst.fresh /\ UNCHANGED <<shpa, watch, faults>>
    \/ /\ err /\ needed /\ inst.fresh
       /\ faults < MaxFaults
       /\ faults' = faults + 1
       /\ UNCHANGED <<shpa, watch>> \/ StoreStatus(status)

-----------------------------------------------------------------------------
(* The pass *)

\* A mistake to detect: the copy gets the latest resourceVersion, not the cached one.
VersionRefreshed ==
    /\ pc = "idle" /\ dirty
    /\ dirty' = FALSE
    /\ inst' = [spec   |-> cached.spec,
                status |-> [cached.status EXCEPT !.dryRun = DryRunReason(cached.spec)],
                fresh  |-> TRUE]
    /\ pc' = "get"
    /\ UNCHANGED <<now, envVars, due, original, scale, plan, scaledAt, edits, faults>>

\* The worker takes the key; Reconcile reads the SHPA from the cache and sets
\* the DryRun condition.
Begin ==
    /\ pc = "idle" /\ dirty
    /\ dirty' = FALSE
    /\ inst' = [spec   |-> cached.spec,
                status |-> [cached.status EXCEPT !.dryRun = DryRunReason(cached.spec)],
                fresh  |-> watch = <<>>]
    /\ pc' = "get"
    /\ UNCHANGED <<now, envVars, due, original, scale, plan, scaledAt, edits, faults>>

\* A mistake to detect: the result does not ask for another pass.
FinishForGood(delay) ==
    /\ pc' = "idle"
    /\ due' = due
    /\ inst' = NoInstance /\ original' = EmptyStatus
    /\ scale' = NoScale /\ plan' = NoPlan

\* The pass ends with RequeueAfter: delay.  Of two timers the sooner stays.
Finish(delay) ==
    /\ pc' = "idle"
    /\ due' = IF due # NoTime /\ due <= now + delay THEN due ELSE now + delay
    /\ inst' = NoInstance
    /\ original' = EmptyStatus
    /\ scale' = NoScale
    /\ plan' = NoPlan

GetScale ==
    /\ pc = "get"
    /\ scale' = [spec |-> target.spec, status |-> target.status, fresh |-> TRUE]
    /\ original' = inst.status
    /\ inst' = [inst EXCEPT !.status.able = "SucceededGetScale"]
    /\ pc' = "compute"
    /\ UNCHANGED <<now, envVars, queueVars, plan, scaledAt, edits, faults>>

\* reconcileSHPA returns the error; Reconcile retries soon.
GetScaleFails ==
    /\ pc = "get" /\ faults < MaxFaults
    /\ faults' = faults + 1
    /\ Finish(RetryDelay)
    /\ UNCHANGED <<now, envVars, dirty, scaledAt, edits>>

\* What follows computeReplicas: nothing to rescale, a dry run or the real one.
Decide(decision) ==
    /\ plan' = [rescale |-> decision.rescale,
                desired |-> IF decision.rescale THEN decision.desired ELSE scale.status,
                case    |-> decision.case]
    /\ inst' = [inst EXCEPT
                  !.status.able    = IF decision.rescale THEN "ReadyForScale" ELSE decision.able,
                  !.status.active  = decision.active,
                  !.status.limited = decision.limited]
    /\ pc' = IF ~decision.rescale THEN "statusWrite"
             ELSE IF inst.spec.DryRun THEN "dryWrite" ELSE "scaleWrite"

Compute ==
    /\ pc = "compute"
    /\ IF DecisionCase(inst.spec, scale.spec, scale.status) # "metrics"
       THEN Decide(FixedDecision(inst.spec, scale.spec, scale.status, inst.status))
       ELSE \E proposal \in Proposals, ts \in (now - MetricLag)..now :
               Decide(MetricDecision(inst.spec, scale.status, proposal, ts, now, inst.status))
    /\ UNCHANGED <<now, envVars, queueVars, original, scale, scaledAt, edits, faults>>

\* No metrics: computeReplicas saves the status and reconcileSHPA swallows the error.
MetricsFail ==
    /\ pc = "compute" /\ faults < MaxFaults
    /\ DecisionCase(inst.spec, scale.spec, scale.status) = "metrics"
    /\ faults' = faults + 1
    /\ pc' = "errorWrite"
    /\ UNCHANGED <<now, envVars, queueVars, inst, original, scale, plan, scaledAt, edits>>

\* reconcileSHPA recovers from a panic in the calculator and returns nil.
MetricsPanic ==
    /\ pc = "compute" /\ faults < MaxFaults
    /\ DecisionCase(inst.spec, scale.spec, scale.status) = "metrics"
    /\ faults' = faults + 1
    /\ Finish(SyncPeriod)
    /\ UNCHANGED <<now, envVars, dirty, scaledAt, edits>>

\* A mistake to detect: the scale update does not carry a resourceVersion.
ScaleOverwritten ==
    /\ target' = [target EXCEPT !.spec = plan.desired]
    /\ scaledAt' = IF target.spec # plan.desired THEN now ELSE scaledAt

\* What the API server does with the scale update when it accepts it.
StoreScale ==
    /\ scale.fresh
    /\ target' = [target EXCEPT !.spec = plan.desired]
    /\ scaledAt' = IF target.spec # plan.desired THEN now ELSE scaledAt

UpdateScale ==
    /\ pc = "scaleWrite"
    /\ StoreScale
    /\ inst' = [inst EXCEPT !.status.able = "SucceededRescale"]
    /\ scale' = [scale EXCEPT !.fresh = FALSE]
    /\ pc' = "statusWrite"
    /\ UNCHANGED <<now, shpa, watch, cached, queueVars, original, plan, edits, faults>>

\* A conflict, a rejection, or an update whose answer is lost.
UpdateScaleFails ==
    /\ pc = "scaleWrite"
    /\ \/ ~scale.fresh /\ UNCHANGED <<target, scaledAt, faults>>
       \/ /\ faults < MaxFaults
          /\ faults' = faults + 1
          /\ UNCHANGED <<target, scaledAt>> \/ StoreScale
    /\ inst' = [inst EXCEPT !.status = SetStatus([inst.status EXCEPT !.able = "FailedUpdateScale"],
                                                 scale.status, inst.status.desired, FALSE)]
    /\ scale' = [scale EXCEPT !.fresh = FALSE]
    /\ pc' = "errorWrite"
    /\ UNCHANGED <<now, shpa, watch, cached, queueVars, original, plan, edits>>

\* A mistake to detect: a failed pass is the last one.
GiveUpOnError ==
    /\ pc = "errorWrite"
    /\ \E err \in BOOLEAN : UpdateStatusIfNeeded(inst.status, err)
    /\ FinishForGood(SyncPeriod)
    /\ UNCHANGED <<now, cached, target, dirty, scaledAt, edits>>

\* The status write of a failed pass: whatever it returns, the next pass is a
\* full period away.
WriteStatusOnError ==
    /\ pc = "errorWrite"
    /\ \E err \in BOOLEAN : UpdateStatusIfNeeded(inst.status, err)
    /\ Finish(SyncPeriod)
    /\ UNCHANGED <<now, cached, target, dirty, scaledAt, edits>>

\* rescaleReplicas in DryRun mode: it saves the status as if it had rescaled.
WriteStatusOfDryRun ==
    /\ pc = "dryWrite"
    /\ LET status == SetStatus(inst.status, scale.status, plan.desired, TRUE) IN
       \/ /\ UpdateStatusIfNeeded(status, FALSE)
          /\ inst' = [inst EXCEPT !.status = status]
          /\ pc' = "statusWrite"
          /\ UNCHANGED <<due, original, scale, plan>>
       \/ /\ UpdateStatusIfNeeded(status, TRUE)
          /\ Finish(SyncPeriod)
    /\ UNCHANGED <<now, cached, target, dirty, scaledAt, edits>>

\* The end of reconcileSHPA.
WriteStatus ==
    /\ pc = "statusWrite"
    /\ LET status == SetStatus(inst.status, scale.status, plan.desired, plan.rescale) IN
       \E err \in BOOLEAN :
          /\ UpdateStatusIfNeeded(status, err)
          /\ Finish(IF err THEN RetryDelay ELSE SyncPeriod)
    /\ UNCHANGED <<now, cached, target, dirty, scaledAt, edits>>

-----------------------------------------------------------------------------
(* The manager around the pass *)

\* The cache takes the next version; updatePredicate lets spec changes through.
Deliver ==
    /\ watch # <<>>
    /\ cached' = Head(watch)
    /\ watch' = Tail(watch)
    /\ dirty' = (dirty \/ Head(watch).spec # cached.spec)
    /\ UNCHANGED <<now, shpa, target, due, passVars, scaledAt, edits, faults>>

\* With TimersExpire a timer also fires once the clock has reached its bound.
TimerFires ==
    /\ due # NoTime /\ (due <= now \/ (TimersExpire /\ now = MaxTime))
    /\ dirty' = TRUE
    /\ due' = NoTime
    /\ UNCHANGED <<now, envVars, passVars, scaledAt, edits, faults>>

\* The manager restarts: it lists the SHPA again and its key is enqueued.
Restart ==
    /\ faults < MaxFaults
    /\ faults' = faults + 1
    /\ cached' = shpa
    /\ watch' = <<>>
    /\ dirty' = TRUE
    /\ due' = NoTime
    /\ pc' = "idle" /\ inst' = NoInstance /\ original' = EmptyStatus
    /\ scale' = NoScale /\ plan' = NoPlan
    /\ UNCHANGED <<now, shpa, target, scaledAt, edits>>

-----------------------------------------------------------------------------
(* The environment *)

\* Somebody updates the SHPA; an edit of its metadata alone keeps the spec.
EditSHPA ==
    /\ edits < MaxEdits
    /\ edits' = edits + 1
    /\ \E spec \in Specs :
          /\ shpa' = [shpa EXCEPT !.spec = spec]
          /\ watch' = Append(watch, [shpa EXCEPT !.spec = spec])
    /\ inst' = [inst EXCEPT !.fresh = FALSE]
    /\ UNCHANGED <<now, cached, target, queueVars, pc, original, scale, plan, scaledAt, faults>>

ScaleByHand ==
    /\ edits < MaxEdits
    /\ edits' = edits + 1
    /\ \E n \in Sizes \ {target.spec} : target' = [target EXCEPT !.spec = n]
    /\ scale' = [scale EXCEPT !.fresh = FALSE]
    /\ UNCHANGED <<now, shpa, watch, cached, queueVars, pc, inst, original, plan, scaledAt, faults>>

\* One replica more or less is observed.
TargetProgress ==
    /\ target.status # target.spec
    /\ target' = [target EXCEPT !.status = IF @ < target.spec THEN @ + 1 ELSE @ - 1]
    /\ scale' = [scale EXCEPT !.fresh = FALSE]
    /\ UNCHANGED <<now, shpa, watch, cached, queueVars, pc, inst, original, plan, scaledAt,
                   edits, faults>>

Tick ==
    /\ now < MaxTime
    /\ now' = now + 1
    /\ UNCHANGED <<envVars, queueVars, passVars, scaledAt, edits, faults>>

-----------------------------------------------------------------------------
(* The specification *)

Init ==
    /\ now = 0
    /\ \E spec \in Specs : shpa = [spec |-> spec, status |-> EmptyStatus]
    /\ watch = <<>>
    /\ cached = shpa
    /\ dirty = TRUE
    /\ due = NoTime
    /\ \E n \in Sizes : target = [spec |-> n, status |-> n]
    /\ pc = "idle" /\ inst = NoInstance /\ original = EmptyStatus
    /\ scale = NoScale /\ plan = NoPlan
    /\ scaledAt = NoTime
    /\ edits = 0 /\ faults = 0

Pass == Begin \/ GetScale \/ Compute \/ UpdateScale \/ UpdateScaleFails
          \/ WriteStatusOnError \/ WriteStatusOfDryRun \/ WriteStatus

Next ==
    \/ Pass \/ GetScaleFails \/ MetricsFail \/ MetricsPanic
    \/ Deliver \/ TimerFires \/ Restart
    \/ EditSHPA \/ ScaleByHand \/ TargetProgress \/ Tick

Spec == Init /\ [][Next]_vars

\* The worker, the watch, the timer and the target's own controller keep going
\* and time passes; nobody has to edit, and nothing has to fail.
Fairness ==
    /\ WF_vars(Pass) /\ WF_vars(Deliver) /\ WF_vars(TimerFires)
    /\ WF_vars(TargetProgress) /\ WF_vars(Tick)

FairSpec == Spec /\ Fairness

-----------------------------------------------------------------------------
(* Properties *)

\* Every variable has its type.
TypeOK ==
    /\ now \in Nat
    /\ shpa \in Versions /\ cached \in Versions /\ watch \in Seq(Versions)
    /\ dirty \in BOOLEAN /\ due \in Times
    /\ target \in [spec : Int, status : Int]
    /\ pc \in {"idle", "get", "compute", "scaleWrite", "errorWrite", "dryWrite", "statusWrite"}
    /\ inst \in Instances /\ original \in StatusType
    /\ scale \in Scales /\ plan \in Plans
    /\ scaledAt \in Times
    /\ edits \in Nat /\ faults \in Nat

\* This step is the controller's scale update, and it changed the wanted count.
ControllerScales == pc = "scaleWrite" /\ pc' # pc /\ target'.spec # target.spec

\* Whatever happens between reading the SHPA and the scale update, the count the
\* controller writes lies within the range of the spec it works for, and that
\* spec does not ask for a dry run.
ScalesWithinRange ==
    [][ControllerScales =>
          /\ target'.spec \in inst.spec.MinReplicas..inst.spec.MaxReplicas
          /\ ~inst.spec.DryRun]_vars

\* A rescale the metrics ask for moves by no more than the scale limits allow from
\* the count observed when the update takes effect, not only from the one read.
ScalesByLimitedSteps ==
    [][ControllerScales /\ plan.case = "metrics" =>
          /\ target'.spec >= ScaleDownLimit(inst.spec, target.status)
          /\ target'.spec <= ScaleUpLimit(inst.spec, target.status)]_vars

\* A target scaled to zero is disabled: the controller never wakes it, not even
\* when somebody disables it between the controller's read and its update.
DisabledStaysDisabled == [][ControllerScales => target.spec # 0]_vars

\* The status this pass works from records the controller's last rescale.
KnowsLastScale ==
    scaledAt = NoTime \/ (inst.status.lastScale # NoTime /\ inst.status.lastScale >= scaledAt)

\* The time the windows ask for has passed since the controller's last rescale.
OutsideWindows ==
    scaledAt # NoTime =>
       /\ target'.spec > target.status => now >= scaledAt + inst.spec.UpscaleForbiddenWindow
       /\ target'.spec < target.status => now >= scaledAt + inst.spec.DownscaleForbiddenWindow

\* A pass that knows of the last rescale respects the cooldown windows as measured
\* from the moment the target was really changed to the moment it is changed again.
CooldownWhenKnown ==
    [][ControllerScales /\ plan.case = "metrics" /\ KnowsLastScale => OutsideWindows]_vars

\* shouldScale's comment: only upscale if there was no rescaling in the last window.
CooldownAlways ==
    [][ControllerScales /\ plan.case = "metrics" => OutsideWindows]_vars

\* LastScaleTime is never lost nor set back, though passes work from caches that
\* lag and users edit the SHPA under the controller's hands.
LastScaleNeverRegresses ==
    [][shpa'.status.lastScale # shpa.status.lastScale =>
          /\ shpa'.status.lastScale # NoTime
          /\ shpa.status.lastScale = NoTime \/ shpa'.status.lastScale > shpa.status.lastScale]_vars

\* A status is stored only over the spec it was computed for.
StatusIsOfStoredSpec == [][shpa'.status # shpa.status => inst.spec = shpa.spec]_vars

\* An idle worker will work again: no path through Reconcile drops the SHPA.
LoopStaysAlive == pc = "idle" => dirty \/ due # NoTime

\* The cache and the watch end in the API server's version.
CacheFollows == IF watch = <<>> THEN cached = shpa ELSE watch[Len(watch)] = shpa

\* A copy whose update would be accepted agrees with what it was copied from, and
\* the snapshot taken of its status still holds its LastScaleTime.
FreshCopiesAgree ==
    /\ inst.fresh => /\ pc # "idle"
                     /\ inst.spec = shpa.spec
                     /\ inst.status.lastScale = shpa.status.lastScale
    /\ scale.fresh => scale.spec = target.spec /\ scale.status = target.status
    /\ pc \in {"compute", "dryWrite"} => original.lastScale = inst.status.lastScale

\* A rescale of the metrics respects the limits and windows as the pass knows them.
LimitedPlan ==
    /\ plan.desired >= ScaleDownLimit(inst.spec, scale.status)
    /\ plan.desired <= ScaleUpLimit(inst.spec, scale.status)
    /\ inst.status.lastScale # NoTime =>
          /\ plan.desired > scale.status =>
                inst.status.lastScale + inst.spec.UpscaleForbiddenWindow <= now
          /\ plan.desired < scale.status =>
                inst.status.lastScale + inst.spec.DownscaleForbiddenWindow <= now

\* What the pass is about to do to the target is right for what it has read.
SoundPlan ==
    pc = "scaleWrite" =>
       /\ ~inst.spec.DryRun /\ scale.spec # 0
       /\ plan.desired \in inst.spec.MinReplicas..inst.spec.MaxReplicas
       /\ plan.case = "metrics" => LimitedPlan

\* No recorded rescale lies in the future.
LastScaleIsPast == shpa.status.lastScale # NoTime => shpa.status.lastScale <= now

\* The strengthening under which the safety properties are inductive: every copy
\* the controller may still write back agrees with the original, and every plan
\* was sound when it was made and has stayed so.
PassInv == CacheFollows /\ FreshCopiesAgree /\ SoundPlan /\ LastScaleIsPast

\* Once people stop, the wanted count of a target that is neither disabled nor in
\* dry run ends up in the range of the stored spec and stays there.
RangeEventuallyEnforced ==
    <>[](\/ shpa.spec.DryRun \/ target.spec = 0
         \/ target.spec \in shpa.spec.MinReplicas..shpa.spec.MaxReplicas)

\* setStatus promises to update the metric statuses: a valid metric is reported.
MetricsAreReported == shpa.status.active = "ValidMetricFound" => shpa.status.metrics

\* The DryRun condition users see ends up telling whether changes are applied.
DryRunConditionSettles == <>[](shpa.status.dryRun = DryRunReason(shpa.spec))
=============================================================================
