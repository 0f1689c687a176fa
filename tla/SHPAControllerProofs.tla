------------------------ MODULE SHPAControllerProofs ------------------------
(***************************************************************************)
(* Theorems about SHPAController, for every set of specs, sizes and        *)
(* proposals, every delay and every bound on time, edits and faults.       *)
(***************************************************************************)
EXTENDS SHPAController, ReplicaRulesProofs, SequenceTheorems

-----------------------------------------------------------------------------
(* Types of what the actions compute *)

DecisionType ==
    [rescale : BOOLEAN, desired : Int, case : DecisionCases, able : AbleReasons,
     active : {"", "ScalingDisabled", "ValidMetricFound"}, limited : LimitReasons]

\* The values of the pass's variables between passes have their types.
LEMMA NoPassType ==
    /\ NoInstance \in Instances /\ EmptyStatus \in StatusType
    /\ NoScale \in Scales /\ NoPlan \in Plans
<1>1. EmptyStatus \in StatusType
  BY DEF EmptyStatus, StatusType, Times, AbleReasons, UnableReasons, LimitReasons
<1>2. (CHOOSE s \in Specs : TRUE) \in Specs
  BY SpecsAssumption
<1>. QED  BY <1>1, <1>2 DEF NoInstance, NoScale, NoPlan, DecisionCases, Instances, Scales, Plans

\* The switch of computeReplicas without metrics yields a decision.
LEMMA FixedDecisionType ==
    ASSUME NEW spec \in SpecType, NEW specReplicas \in Int, NEW current \in Int,
           NEW status \in StatusType,
           DecisionCase(spec, specReplicas, current) # "metrics"
    PROVE  FixedDecision(spec, specReplicas, current, status) \in DecisionType
<1>1. spec.MinReplicas \in Int /\ spec.MaxReplicas \in Int
  BY DEF SpecType
<1>2. DecisionCase(spec, specReplicas, current)
         \in {"disabled", "aboveMax", "belowMin", "zero"}
  BY DEF DecisionCase
<1>3. /\ status.able \in AbleReasons /\ status.limited \in LimitReasons
      /\ status.active \in {"", "ScalingDisabled", "ValidMetricFound"}
  BY DEF StatusType
<1>. DEFINE case == DecisionCase(spec, specReplicas, current)
            desired == CASE case = "disabled" -> 0
                         [] case = "aboveMax" -> spec.MaxReplicas
                         [] case = "belowMin" -> spec.MinReplicas
                         [] case = "zero"     -> 1
            active == IF case = "disabled" THEN "ScalingDisabled" ELSE status.active
            rescale == case # "disabled"
            able == status.able
            limited == status.limited
<1>4. desired \in Int
  <2>1. CASE case = "disabled"
    BY <2>1
  <2>2. CASE case = "aboveMax"
    BY <1>1, <2>2
  <2>3. CASE case = "belowMin"
    BY <1>1, <2>3
  <2>4. CASE case = "zero"
    BY <2>4
  <2>. QED  BY <1>2, <2>1, <2>2, <2>3, <2>4
<1>5. case \in DecisionCases
  BY <1>2 DEF DecisionCases
<1>6. active \in {"", "ScalingDisabled", "ValidMetricFound"} /\ rescale \in BOOLEAN
  BY <1>3
<1>7. FixedDecision(spec, specReplicas, current, status) =
        [rescale |-> rescale, desired |-> desired, case |-> case, able |-> able,
         active |-> active, limited |-> limited]
  BY DEF FixedDecision
<1>8. able \in AbleReasons /\ limited \in LimitReasons
  BY <1>3
<1>. HIDE DEF case, desired, active, rescale, able, limited
<1>9. [rescale |-> rescale, desired |-> desired, case |-> case, able |-> able,
       active |-> active, limited |-> limited] \in DecisionType
  BY <1>4, <1>5, <1>6, <1>8 DEF DecisionType
<1>. QED  BY <1>7, <1>9

\* The metrics case yields a decision, whatever the metrics propose.
LEMMA MetricDecisionType ==
    ASSUME NEW spec \in SpecType, NEW current \in Int, NEW proposal \in Int,
           NEW ts \in Int, NEW present \in Int, NEW status \in StatusType
    PROVE  MetricDecision(spec, current, proposal, ts, present, status) \in DecisionType
<1>. DEFINE raw == Larger(0, proposal)
            when == IF proposal > 0 THEN ts ELSE present
            norm == ConvertDesiredReplicas(spec, current, raw)
<1>1. raw \in Int
  BY DEF Larger
<1>2. norm.replicas \in Int
  BY <1>1, ConvertType
<1>3. norm.reason \in LimitReasons
  BY DEF ConvertDesiredReplicas, LimitReasons
<1>4. ShouldScale(spec, status.lastScale, current, norm.replicas, when) \in BOOLEAN
  BY DEF ShouldScale
<1>5. BackoffReason(spec, status.lastScale, when, status.able) \in AbleReasons
  BY DEF BackoffReason, StatusType, AbleReasons, UnableReasons
<1>. HIDE DEF raw, when, norm
<1>6. MetricDecision(spec, current, proposal, ts, present, status) =
        [rescale |-> ShouldScale(spec, status.lastScale, current, norm.replicas, when),
         desired |-> norm.replicas, case |-> "metrics",
         able |-> BackoffReason(spec, status.lastScale, when, status.able),
         active |-> "ValidMetricFound", limited |-> norm.reason]
  BY DEF MetricDecision, raw, when, norm
<1>. QED  BY <1>2, <1>3, <1>4, <1>5, <1>6 DEF DecisionType, DecisionCases

\* setStatus makes a status out of a status.
LEMMA SetStatusType ==
    ASSUME NEW status \in StatusType, NEW current \in Int, NEW desired \in Int,
           NEW rescale \in BOOLEAN, original \in StatusType, now \in Nat
    PROVE  SetStatus(status, current, desired, rescale) \in StatusType
BY DEF SetStatus, StatusType, Times

\* A version of the SHPA with another status, or another spec, is a version.
LEMMA VersionType ==
    ASSUME NEW version \in Versions
    PROVE  /\ version.spec \in Specs /\ version.status \in StatusType
           /\ \A status \in StatusType : [version EXCEPT !.status = status] \in Versions
           /\ \A spec \in Specs : [version EXCEPT !.spec = spec] \in Versions
BY DEF Versions

\* A status write keeps the types of the SHPA and of the watch.
LEMMA UpdateStatusType ==
    ASSUME shpa \in Versions, watch \in Seq(Versions), faults \in Nat,
           NEW status \in StatusType, NEW err \in BOOLEAN,
           UpdateStatusIfNeeded(status, err)
    PROVE  shpa' \in Versions /\ watch' \in Seq(Versions) /\ faults' \in Nat
<1>1. [shpa EXCEPT !.status = status] \in Versions
  BY VersionType
<1>2. Append(watch, [shpa EXCEPT !.status = status]) \in Seq(Versions)
  BY <1>1
<1>3. CASE UNCHANGED <<shpa, watch>>
  BY <1>3 DEF UpdateStatusIfNeeded
<1>4. CASE StoreStatus(status)
  <2>1. shpa' \in Versions /\ watch' \in Seq(Versions)
    BY <1>1, <1>2, <1>4 DEF StoreStatus
  <2>2. faults' \in Nat
    BY DEF UpdateStatusIfNeeded
  <2>. QED  BY <2>1, <2>2
<1>. QED  BY <1>3, <1>4 DEF UpdateStatusIfNeeded

\* The end of a pass keeps the types of the timer and of the pass's variables.
LEMMA FinishType ==
    ASSUME due \in Times, now \in Nat, NEW delay \in Nat, Finish(delay)
    PROVE  /\ pc' = "idle" /\ due' \in Times
           /\ inst' \in Instances /\ original' \in StatusType
           /\ scale' \in Scales /\ plan' \in Plans
BY NoPassType DEF Finish, Times

\* What follows computeReplicas keeps the types of the pass's variables.
LEMMA DecideType ==
    ASSUME inst \in Instances, scale \in Scales, NEW decision \in DecisionType, Decide(decision)
    PROVE  /\ inst' \in Instances /\ plan' \in Plans
           /\ pc' \in {"statusWrite", "dryWrite", "scaleWrite"}
<1>1. /\ decision.rescale \in BOOLEAN /\ decision.desired \in Int /\ decision.case \in DecisionCases
      /\ decision.able \in AbleReasons /\ decision.limited \in LimitReasons
      /\ decision.active \in {"", "ScalingDisabled", "ValidMetricFound"}
  BY DEF DecisionType
<1>2. scale.status \in Int
  BY DEF Scales
<1>3. plan' \in Plans
  BY <1>1, <1>2 DEF Decide, Plans
<1>4. (IF decision.rescale THEN "ReadyForScale" ELSE decision.able) \in AbleReasons
  BY <1>1 DEF AbleReasons
<1>5. inst' \in Instances
  BY <1>1, <1>4 DEF Decide, Instances, StatusType
<1>6. pc' \in {"statusWrite", "dryWrite", "scaleWrite"}
  BY DEF Decide
<1>. QED  BY <1>3, <1>5, <1>6

-----------------------------------------------------------------------------
(* Type correctness *)

\* Every variable keeps its type in every action of the pass, of the manager
\* around it and of its environment.
THEOREM TypeCorrect == Spec => []TypeOK
<1>1. Init => TypeOK
  <2>. SUFFICES ASSUME Init PROVE TypeOK
    OBVIOUS
  <2>1. shpa \in Versions
    BY NoPassType DEF Init, Versions
  <2>2. target \in [spec : Int, status : Int]
    BY SizesAssumption DEF Init
  <2>. QED  BY <2>1, <2>2, NoPassType DEF Init, TypeOK, Times
<1>2. TypeOK /\ [Next]_vars => TypeOK'
  <2>. SUFFICES ASSUME TypeOK, [Next]_vars PROVE TypeOK'
    OBVIOUS
  <2>0. /\ MetricLag \in Nat /\ SyncPeriod \in Nat /\ RetryDelay \in Nat
        /\ inst.spec \in Specs /\ inst.spec \in SpecType /\ inst.status \in StatusType
        /\ scale.spec \in Int /\ scale.status \in Int
        /\ cached.spec \in Specs /\ cached.status \in StatusType
    BY DelaysAssumption, SpecsAssumption DEF TypeOK, Instances, Scales, Versions
  <2>1. CASE Begin
    <3>1. inst' \in Instances
      BY <2>0, <2>1 DEF Begin, Instances, StatusType, DryRunReason
    <3>. QED  BY <2>1, <3>1 DEF TypeOK, Begin, envVars
  <2>2. CASE GetScale
    <3>1. scale' \in Scales
      BY <2>2 DEF GetScale, TypeOK, Scales
    <3>2. inst' \in Instances
      BY <2>2 DEF GetScale, TypeOK, Instances, StatusType, AbleReasons
    <3>. QED  BY <2>0, <2>2, <3>1, <3>2 DEF TypeOK, GetScale, envVars, queueVars
  <2>3. CASE GetScaleFails
    BY <2>0, <2>3, FinishType DEF TypeOK, GetScaleFails, envVars
  <2>4. CASE Compute
    <3>1. PICK decision \in DecisionType : Decide(decision)
      <4>1. CASE DecisionCase(inst.spec, scale.spec, scale.status) # "metrics"
        BY <2>0, <2>4, <4>1, FixedDecisionType DEF Compute
      <4>2. CASE DecisionCase(inst.spec, scale.spec, scale.status) = "metrics"
        BY <2>0, <2>4, <4>2, MetricDecisionType, ProposalsAssumption DEF Compute, TypeOK
      <4>. QED  BY <4>1, <4>2
    <3>. QED  BY <2>4, <3>1, DecideType DEF TypeOK, Compute, envVars, queueVars
  <2>5. CASE MetricsFail
    BY <2>5 DEF TypeOK, MetricsFail, envVars, queueVars
  <2>6. CASE MetricsPanic
    BY <2>0, <2>6, FinishType DEF TypeOK, MetricsPanic, envVars
  <2>7. CASE UpdateScale
    <3>1. inst' \in Instances
      BY <2>7 DEF UpdateScale, TypeOK, Instances, StatusType, AbleReasons
    <3>2. target' \in [spec : Int, status : Int] /\ scaledAt' \in Times
      BY <2>7 DEF UpdateScale, StoreScale, TypeOK, Plans, Times
    <3>3. scale' \in Scales
      BY <2>7 DEF UpdateScale, TypeOK, Scales
    <3>. QED  BY <2>7, <3>1, <3>2, <3>3 DEF TypeOK, UpdateScale, queueVars
  <2>8. CASE UpdateScaleFails
    <3>1. inst' \in Instances
      <4>1. [inst.status EXCEPT !.able = "FailedUpdateScale"] \in StatusType
        BY <2>0 DEF StatusType, AbleReasons, UnableReasons
      <4>2. inst.status.desired \in Int
        BY <2>0 DEF StatusType
      <4>3. SetStatus([inst.status EXCEPT !.able = "FailedUpdateScale"],
                      scale.status, inst.status.desired, FALSE) \in StatusType
        BY <2>0, <4>1, <4>2, SetStatusType DEF TypeOK
      <4>. QED  BY <2>8, <4>3 DEF UpdateScaleFails, TypeOK, Instances
    <3>2. target' \in [spec : Int, status : Int] /\ scaledAt' \in Times /\ faults' \in Nat
      BY <2>8 DEF UpdateScaleFails, StoreScale, TypeOK, Plans, Times
    <3>3. scale' \in Scales
      BY <2>8 DEF UpdateScaleFails, TypeOK, Scales
    <3>. QED  BY <2>8, <3>1, <3>2, <3>3 DEF TypeOK, UpdateScaleFails, queueVars
  <2>9. CASE WriteStatusOnError
    BY <2>0, <2>9, FinishType, UpdateStatusType DEF TypeOK, WriteStatusOnError
  <2>10. CASE WriteStatusOfDryRun
    <3>. DEFINE status == SetStatus(inst.status, scale.status, plan.desired, TRUE)
    <3>1. status \in StatusType
      BY <2>0, SetStatusType DEF TypeOK, Plans
    <3>. HIDE DEF status
    <3>2. CASE /\ UpdateStatusIfNeeded(status, FALSE)
               /\ inst' = [inst EXCEPT !.status = status]
               /\ pc' = "statusWrite"
               /\ UNCHANGED <<due, original, scale, plan>>
      <4>1. inst' \in Instances
        BY <3>1, <3>2 DEF TypeOK, Instances
      <4>. QED  BY <2>10, <3>1, <3>2, <4>1, UpdateStatusType DEF TypeOK, WriteStatusOfDryRun
    <3>3. CASE UpdateStatusIfNeeded(status, TRUE) /\ Finish(SyncPeriod)
      BY <2>0, <2>10, <3>1, <3>3, FinishType, UpdateStatusType DEF TypeOK, WriteStatusOfDryRun
    <3>. QED  BY <2>10, <3>2, <3>3 DEF WriteStatusOfDryRun, status
  <2>11. CASE WriteStatus
    <3>. DEFINE status == SetStatus(inst.status, scale.status, plan.desired, plan.rescale)
    <3>1. status \in StatusType
      BY <2>0, SetStatusType DEF TypeOK, Plans
    <3>2. PICK err \in BOOLEAN : /\ UpdateStatusIfNeeded(status, err)
                                 /\ Finish(IF err THEN RetryDelay ELSE SyncPeriod)
      BY <2>11 DEF WriteStatus
    <3>. HIDE DEF status
    <3>. QED
      BY <2>0, <2>11, <3>1, <3>2, FinishType, UpdateStatusType DEF TypeOK, WriteStatus
  <2>12. CASE Deliver
    <3>1. Head(watch) \in Versions /\ Tail(watch) \in Seq(Versions)
      BY <2>12 DEF Deliver, TypeOK
    <3>. QED  BY <2>12, <3>1 DEF TypeOK, Deliver, passVars
  <2>13. CASE TimerFires
    BY <2>13 DEF TypeOK, TimerFires, envVars, passVars, Times
  <2>14. CASE Restart
    BY <2>14, NoPassType DEF TypeOK, Restart, Times
  <2>15. CASE EditSHPA
    <3>1. PICK spec \in Specs : /\ shpa' = [shpa EXCEPT !.spec = spec]
                                /\ watch' = Append(watch, [shpa EXCEPT !.spec = spec])
      BY <2>15 DEF EditSHPA
    <3>2. shpa' \in Versions
      BY <3>1, VersionType DEF TypeOK
    <3>3. watch' \in Seq(Versions)
      BY <3>1, <3>2 DEF TypeOK
    <3>4. inst' \in Instances
      BY <2>15 DEF EditSHPA, TypeOK, Instances
    <3>. QED  BY <2>15, <3>2, <3>3, <3>4 DEF TypeOK, EditSHPA, queueVars
  <2>16. CASE ScaleByHand
    <3>1. target' \in [spec : Int, status : Int]
      BY <2>16, SizesAssumption DEF ScaleByHand, TypeOK
    <3>2. scale' \in Scales
      BY <2>16 DEF ScaleByHand, TypeOK, Scales
    <3>. QED  BY <2>16, <3>1, <3>2 DEF TypeOK, ScaleByHand, queueVars
  <2>17. CASE TargetProgress
    <3>1. target' \in [spec : Int, status : Int]
      BY <2>17 DEF TargetProgress, TypeOK
    <3>2. scale' \in Scales
      BY <2>17 DEF TargetProgress, TypeOK, Scales
    <3>. QED  BY <2>17, <3>1, <3>2 DEF TypeOK, TargetProgress, queueVars
  <2>18. CASE Tick
    BY <2>18 DEF TypeOK, Tick, envVars, queueVars, passVars
  <2>19. CASE UNCHANGED vars
    BY <2>19 DEF TypeOK, vars, envVars, queueVars, passVars
  <2>. QED
    BY <2>1, <2>2, <2>3, <2>4, <2>5, <2>6, <2>7, <2>8, <2>9, <2>10, <2>11, <2>12, <2>13,
       <2>14, <2>15, <2>16, <2>17, <2>18, <2>19 DEF Next, Pass
<1>. QED  BY <1>1, <1>2, PTL DEF Spec

-----------------------------------------------------------------------------
(* The inductive invariant *)

\* A rescale of the metrics stays in the range, within the limits and, once a
\* rescale has been recorded, outside the window of its direction.
LEMMA MetricDecisionSound ==
    ASSUME NEW spec \in SpecType, ValidRange(spec),
           NEW current \in spec.MinReplicas..spec.MaxReplicas,
           NEW proposal \in Int, NEW present \in Int, NEW ts \in Int, ts <= present,
           NEW status \in StatusType,
           MetricDecision(spec, current, proposal, ts, present, status).rescale,
           NEW desired,
           desired = MetricDecision(spec, current, proposal, ts, present, status).desired
    PROVE  /\ desired \in spec.MinReplicas..spec.MaxReplicas
           /\ desired >= ScaleDownLimit(spec, current)
           /\ desired <= ScaleUpLimit(spec, current)
           /\ status.lastScale # NoTime =>
                 /\ desired > current =>
                       status.lastScale + spec.UpscaleForbiddenWindow <= present
                 /\ desired < current =>
                       status.lastScale + spec.DownscaleForbiddenWindow <= present
<1>. DEFINE raw == Larger(0, proposal)
            when == IF proposal > 0 THEN ts ELSE present
<1>1. raw \in Int /\ when \in Int /\ when <= present
  BY DEF Larger
<1>. HIDE DEF raw, when
<1>2. /\ desired = ConvertDesiredReplicas(spec, current, raw).replicas
      /\ ShouldScale(spec, status.lastScale, current, desired, when)
  BY DEF MetricDecision, raw, when
<1>3. desired \in spec.MinReplicas..spec.MaxReplicas
  BY <1>1, <1>2, NormalisedWithinRange
<1>4. desired >= ScaleDownLimit(spec, current) /\ desired <= ScaleUpLimit(spec, current)
  BY <1>1, <1>2, NormalisedWithinLimits
<1>5. ASSUME status.lastScale # NoTime
      PROVE  /\ desired > current =>
                   status.lastScale + spec.UpscaleForbiddenWindow <= present
             /\ desired < current =>
                   status.lastScale + spec.DownscaleForbiddenWindow <= present
  <2>1. /\ spec.UpscaleForbiddenWindow \in Nat /\ spec.DownscaleForbiddenWindow \in Nat
        /\ spec.MinReplicas \in Nat /\ spec.MaxReplicas \in Nat
    BY DEF SpecType
  <2>2. status.lastScale \in Nat
    BY <1>5 DEF StatusType, Times
  <2>3. CanScale(InUpscaleBackoff(spec, status.lastScale, when),
                 InDownscaleBackoff(spec, status.lastScale, when), current, desired)
    BY <1>2, <1>5 DEF ShouldScale
  <2>. QED
    BY <1>1, <1>3, <2>1, <2>2, <2>3 DEF CanScale, InUpscaleBackoff, InDownscaleBackoff
<1>. QED  BY <1>3, <1>4, <1>5

\* Only the default case of the switch sees a count within the range.
LEMMA MetricsCaseInRange ==
    ASSUME NEW spec \in SpecType, NEW specReplicas \in Int, NEW current \in Int,
           DecisionCase(spec, specReplicas, current) = "metrics"
    PROVE  specReplicas # 0 /\ current \in spec.MinReplicas..spec.MaxReplicas
BY DEF DecisionCase, SpecType

\* After the end of a pass there is no copy to write back and nothing planned.
LEMMA FinishKeepsInv ==
    ASSUME NEW delay, Finish(delay)
    PROVE  FreshCopiesAgree' /\ SoundPlan'
BY DEF Finish, FreshCopiesAgree, SoundPlan, NoInstance, NoScale

\* The latest version stays the last one of the watch.
LEMMA AppendFollows ==
    ASSUME watch \in Seq(Versions), NEW version \in Versions,
           shpa' = version, watch' = Append(watch, version)
    PROVE  CacheFollows'
<1>1. watch' # <<>> /\ Len(watch') = Len(watch) + 1 /\ watch'[Len(watch) + 1] = version
  OBVIOUS
<1>. QED  BY <1>1 DEF CacheFollows

\* A status write keeps the cache behind the API server, leaves the spec alone and
\* records no rescale of the future.
LEMMA UpdateStatusKeepsInv ==
    ASSUME TypeOK, PassInv, NEW status \in StatusType, NEW err \in BOOLEAN,
           status.lastScale = now \/ status.lastScale = inst.status.lastScale,
           UpdateStatusIfNeeded(status, err), UNCHANGED <<cached, now>>
    PROVE  /\ CacheFollows' /\ LastScaleIsPast' /\ shpa'.spec = shpa.spec
           /\ \/ shpa'.status = shpa.status
              \/ inst.fresh /\ shpa'.status = status
<1>1. CASE UNCHANGED <<shpa, watch>>
  BY <1>1 DEF PassInv, CacheFollows, LastScaleIsPast
<1>2. CASE /\ inst.fresh
           /\ shpa' = [shpa EXCEPT !.status = status]
           /\ watch' = Append(watch, [shpa EXCEPT !.status = status])
  <2>1. [shpa EXCEPT !.status = status] \in Versions
    BY VersionType DEF TypeOK
  <2>2. CacheFollows'
    BY <1>2, <2>1, AppendFollows DEF TypeOK
  <2>3. shpa'.spec = shpa.spec /\ shpa'.status = status
    BY <1>2 DEF TypeOK, Versions
  <2>4. LastScaleIsPast'
    <3>1. inst.status.lastScale # NoTime => inst.status.lastScale <= now
      BY <1>2 DEF PassInv, FreshCopiesAgree, LastScaleIsPast
    <3>. QED  BY <2>3, <3>1 DEF LastScaleIsPast, TypeOK
  <2>. QED  BY <1>2, <2>2, <2>3, <2>4
<1>. QED  BY <1>1, <1>2 DEF UpdateStatusIfNeeded, StoreStatus

\* setStatus stamps the present or keeps the recorded time.
LEMMA SetStatusLastScale ==
    ASSUME NEW status \in StatusType, NEW current, NEW desired, NEW rescale \in BOOLEAN
    PROVE  SetStatus(status, current, desired, rescale).lastScale
             = IF rescale THEN now ELSE status.lastScale
BY DEF SetStatus, StatusType

\* The strengthening holds initially and every action keeps it: it takes a stale
\* copy, a lost answer or a restart between any two calls into account.
THEOREM PassInvariant == Spec => []PassInv
<1>1. Init => PassInv
  <2>. SUFFICES ASSUME Init PROVE PassInv
    OBVIOUS
  <2>1. shpa.status = EmptyStatus
    BY DEF Init
  <2>2. LastScaleIsPast
    <3>1. EmptyStatus.lastScale = NoTime
      BY DEF EmptyStatus
    <3>. QED  BY <2>1, <3>1 DEF LastScaleIsPast
  <2>3. inst.fresh = FALSE /\ scale.fresh = FALSE
    BY DEF Init, NoInstance, NoScale
  <2>. QED  BY <2>2, <2>3 DEF Init, PassInv, CacheFollows, FreshCopiesAgree, SoundPlan
<1>2. TypeOK /\ PassInv /\ [Next]_vars => PassInv'
  <2>. SUFFICES ASSUME TypeOK, PassInv, [Next]_vars PROVE PassInv'
    OBVIOUS
  <2>0. /\ inst.spec \in Specs /\ inst.spec \in SpecType /\ ValidRange(inst.spec)
        /\ inst.status \in StatusType
        /\ scale.spec \in Int /\ scale.status \in Int /\ plan.desired \in Int
        /\ plan.rescale \in BOOLEAN
    BY SpecsAssumption DEF TypeOK, Instances, Scales, Plans
  <2>1. CASE Begin
    <3>1. /\ inst'.spec = cached.spec /\ inst'.status.lastScale = cached.status.lastScale
          /\ inst'.fresh = (watch = <<>>)
      BY <2>1 DEF Begin, TypeOK, Versions, StatusType
    <3>2. FreshCopiesAgree'
      BY <2>1, <3>1 DEF Begin, PassInv, CacheFollows, FreshCopiesAgree, envVars
    <3>. QED
      BY <2>1, <3>2 DEF Begin, PassInv, CacheFollows, SoundPlan, LastScaleIsPast, envVars
  <2>2. CASE GetScale
    <3>1. /\ inst'.spec = inst.spec /\ inst'.status.lastScale = inst.status.lastScale
          /\ inst'.fresh = inst.fresh
      BY <2>2 DEF GetScale, TypeOK, Instances, StatusType
    <3>2. FreshCopiesAgree'
      BY <2>2, <3>1 DEF GetScale, PassInv, FreshCopiesAgree, envVars
    <3>. QED
      BY <2>2, <3>2
      DEF GetScale, PassInv, CacheFollows, SoundPlan, LastScaleIsPast, envVars
  <2>3. CASE GetScaleFails
    BY <2>3, FinishKeepsInv
    DEF GetScaleFails, PassInv, CacheFollows, LastScaleIsPast, envVars
  <2>4. CASE Compute
    <3>1. PICK decision \in DecisionType :
             /\ Decide(decision)
             /\ decision.rescale =>
                  /\ scale.spec # 0
                  /\ decision.desired \in inst.spec.MinReplicas..inst.spec.MaxReplicas
                  /\ decision.case = "metrics" =>
                       /\ decision.desired >= ScaleDownLimit(inst.spec, scale.status)
                       /\ decision.desired <= ScaleUpLimit(inst.spec, scale.status)
                       /\ inst.status.lastScale # NoTime =>
                            /\ decision.desired > scale.status =>
                                 inst.status.lastScale + inst.spec.UpscaleForbiddenWindow <= now
                            /\ decision.desired < scale.status =>
                                 inst.status.lastScale + inst.spec.DownscaleForbiddenWindow <= now
      <4>1. CASE DecisionCase(inst.spec, scale.spec, scale.status) # "metrics"
        <5>. DEFINE decision == FixedDecision(inst.spec, scale.spec, scale.status, inst.status)
        <5>1. Decide(decision)
          BY <2>4, <4>1 DEF Compute
        <5>2. decision \in DecisionType
          BY <2>0, <4>1, FixedDecisionType
        <5>3. decision.rescale =>
                /\ scale.spec # 0
                /\ decision.desired \in inst.spec.MinReplicas..inst.spec.MaxReplicas
                /\ decision.case # "metrics"
          BY <2>0, <4>1, FixedDecisionSound
        <5>. HIDE DEF decision
        <5>. QED  BY <5>1, <5>2, <5>3
      <4>2. CASE DecisionCase(inst.spec, scale.spec, scale.status) = "metrics"
        <5>1. PICK proposal \in Proposals, ts \in (now - MetricLag)..now :
                 Decide(MetricDecision(inst.spec, scale.status, proposal, ts, now, inst.status))
          BY <2>4, <4>2 DEF Compute
        <5>2. /\ proposal \in Int /\ ts \in Int /\ ts <= now /\ now \in Int
          BY <5>1, ProposalsAssumption, DelaysAssumption DEF TypeOK
        <5>3. /\ scale.spec # 0
              /\ scale.status \in inst.spec.MinReplicas..inst.spec.MaxReplicas
          BY <2>0, <4>2, MetricsCaseInRange
        <5>. DEFINE decision ==
                      MetricDecision(inst.spec, scale.status, proposal, ts, now, inst.status)
        <5>4. decision \in DecisionType
          BY <2>0, <5>2, MetricDecisionType
        <5>5. decision.rescale =>
                /\ decision.desired \in inst.spec.MinReplicas..inst.spec.MaxReplicas
                /\ decision.desired >= ScaleDownLimit(inst.spec, scale.status)
                /\ decision.desired <= ScaleUpLimit(inst.spec, scale.status)
                /\ inst.status.lastScale # NoTime =>
                     /\ decision.desired > scale.status =>
                          inst.status.lastScale + inst.spec.UpscaleForbiddenWindow <= now
                     /\ decision.desired < scale.status =>
                          inst.status.lastScale + inst.spec.DownscaleForbiddenWindow <= now
          BY <2>0, <5>2, <5>3, MetricDecisionSound
        <5>. HIDE DEF decision
        <5>. QED  BY <5>1, <5>3, <5>4, <5>5 DEF decision
      <4>. QED  BY <4>1, <4>2
    <3>2. /\ inst'.spec = inst.spec /\ inst'.status.lastScale = inst.status.lastScale
          /\ inst'.fresh = inst.fresh
      BY <3>1 DEF Decide, TypeOK, Instances, StatusType
    <3>3. pc' = "scaleWrite" => /\ decision.rescale /\ ~inst.spec.DryRun
                                /\ plan'.desired = decision.desired
                                /\ plan'.case = decision.case
      BY <3>1 DEF Decide
    <3>4. SoundPlan'
      BY <2>4, <3>1, <3>2, <3>3 DEF Compute, SoundPlan, LimitedPlan
    <3>5. FreshCopiesAgree'
      BY <2>4, <3>1, <3>2
      DEF Compute, Decide, PassInv, FreshCopiesAgree, envVars
    <3>. QED
      BY <2>4, <3>4, <3>5 DEF Compute, PassInv, CacheFollows, LastScaleIsPast, envVars
  <2>5. CASE MetricsFail
    BY <2>5
    DEF MetricsFail, PassInv, CacheFollows, FreshCopiesAgree, SoundPlan, LastScaleIsPast, envVars
  <2>6. CASE MetricsPanic
    BY <2>6, FinishKeepsInv
    DEF MetricsPanic, PassInv, CacheFollows, LastScaleIsPast, envVars
  <2>7. CASE UpdateScale
    <3>1. /\ inst'.spec = inst.spec /\ inst'.status.lastScale = inst.status.lastScale
          /\ inst'.fresh = inst.fresh /\ scale'.fresh = FALSE
      BY <2>7 DEF UpdateScale, TypeOK, Instances, StatusType, Scales
    <3>2. FreshCopiesAgree'
      BY <2>7, <3>1 DEF UpdateScale, PassInv, FreshCopiesAgree
    <3>. QED
      BY <2>7, <3>2 DEF UpdateScale, PassInv, CacheFollows, SoundPlan, LastScaleIsPast
  <2>8. CASE UpdateScaleFails
    <3>. DEFINE failed == [inst.status EXCEPT !.able = "FailedUpdateScale"]
    <3>1. failed \in StatusType /\ failed.lastScale = inst.status.lastScale
      BY <2>0 DEF StatusType, AbleReasons, UnableReasons
    <3>. HIDE DEF failed
    <3>2. SetStatus(failed, scale.status, inst.status.desired, FALSE).lastScale
            = inst.status.lastScale
      BY <3>1 DEF SetStatus, StatusType
    <3>3. /\ inst'.spec = inst.spec /\ inst'.fresh = inst.fresh
          /\ inst'.status = SetStatus(failed, scale.status, inst.status.desired, FALSE)
          /\ scale'.fresh = FALSE
      BY <2>8 DEF UpdateScaleFails, TypeOK, Instances, Scales, failed
    <3>4. FreshCopiesAgree'
      BY <2>8, <3>2, <3>3 DEF UpdateScaleFails, PassInv, FreshCopiesAgree
    <3>. QED
      BY <2>8, <3>4 DEF UpdateScaleFails, PassInv, CacheFollows, SoundPlan, LastScaleIsPast
  <2>9. CASE WriteStatusOnError
    BY <2>0, <2>9, FinishKeepsInv, UpdateStatusKeepsInv DEF WriteStatusOnError, PassInv
  <2>10. CASE WriteStatusOfDryRun
    <3>. DEFINE status == SetStatus(inst.status, scale.status, plan.desired, TRUE)
    <3>1. status \in StatusType /\ status.lastScale = now
      <4>1. status \in StatusType
        BY <2>0, SetStatusType DEF TypeOK
      <4>2. status.lastScale = IF TRUE THEN now ELSE inst.status.lastScale
        BY <2>0 DEF SetStatus, StatusType
      <4>. QED  BY <4>1, <4>2
    <3>. HIDE DEF status
    <3>2. CASE /\ UpdateStatusIfNeeded(status, FALSE)
               /\ inst' = [inst EXCEPT !.status = status]
               /\ pc' = "statusWrite"
               /\ UNCHANGED <<due, original, scale, plan>>
      <4>1. /\ CacheFollows' /\ LastScaleIsPast' /\ shpa'.spec = shpa.spec
        BY <2>10, <3>1, <3>2, UpdateStatusKeepsInv DEF WriteStatusOfDryRun
      <4>2. /\ inst'.spec = inst.spec /\ inst'.fresh = inst.fresh /\ inst'.status = status
        BY <3>2 DEF TypeOK, Instances
      <4>3. inst.fresh => shpa'.status.lastScale = now
        <5>1. CASE status = original /\ UNCHANGED shpa
          BY <2>10, <3>1, <5>1 DEF WriteStatusOfDryRun, PassInv, FreshCopiesAgree
        <5>2. CASE StoreStatus(status)
          <6>1. shpa'.status = status
            BY <5>2 DEF StoreStatus, TypeOK, Versions
          <6>. QED  BY <3>1, <6>1
        <5>. QED  BY <3>2, <5>1, <5>2 DEF UpdateStatusIfNeeded
      <4>4. FreshCopiesAgree'
        BY <2>10, <3>1, <3>2, <4>1, <4>2, <4>3
        DEF WriteStatusOfDryRun, PassInv, FreshCopiesAgree
      <4>. QED  BY <3>2, <4>1, <4>4 DEF PassInv, SoundPlan
    <3>3. CASE UpdateStatusIfNeeded(status, TRUE) /\ Finish(SyncPeriod)
      BY <2>10, <3>1, <3>3, FinishKeepsInv, UpdateStatusKeepsInv DEF WriteStatusOfDryRun, PassInv
    <3>. QED  BY <2>10, <3>2, <3>3 DEF WriteStatusOfDryRun, status
  <2>11. CASE WriteStatus
    <3>. DEFINE status == SetStatus(inst.status, scale.status, plan.desired, plan.rescale)
    <3>1. /\ status \in StatusType
          /\ status.lastScale = now \/ status.lastScale = inst.status.lastScale
      BY <2>0, SetStatusType, SetStatusLastScale DEF TypeOK
    <3>2. PICK err \in BOOLEAN : /\ UpdateStatusIfNeeded(status, err)
                                 /\ Finish(IF err THEN RetryDelay ELSE SyncPeriod)
      BY <2>11 DEF WriteStatus
    <3>. HIDE DEF status
    <3>. QED
      BY <2>11, <3>1, <3>2, FinishKeepsInv, UpdateStatusKeepsInv DEF WriteStatus, PassInv
  <2>12. CASE Deliver
    <3>1. CacheFollows'
      <4>1. CASE Len(watch) = 1
        BY <2>12, <4>1 DEF Deliver, TypeOK, PassInv, CacheFollows
      <4>2. CASE Len(watch) > 1
        <5>1. /\ Tail(watch) # <<>> /\ Len(Tail(watch)) = Len(watch) - 1
              /\ Tail(watch)[Len(watch) - 1] = watch[Len(watch)]
          <6>1. watch \in Seq(Versions) /\ watch # <<>> /\ Len(watch) \in Nat
            BY <2>12 DEF Deliver, TypeOK
          <6>2. /\ Len(Tail(watch)) = Len(watch) - 1
                /\ \A i \in 1..Len(Tail(watch)) : Tail(watch)[i] = watch[i + 1]
            BY <6>1, HeadTailProperties
          <6>3. Len(watch) - 1 \in 1..Len(Tail(watch)) /\ (Len(watch) - 1) + 1 = Len(watch)
            BY <4>2, <6>1, <6>2
          <6>4. Tail(watch)[Len(watch) - 1] = watch[Len(watch)]
            BY <6>2, <6>3
          <6>5. Tail(watch) # <<>>
            <7>1. Len(Tail(watch)) # 0
              BY <4>2, <6>1, <6>2
            <7>2. Len(<<>>) = 0
              BY EmptySeq
            <7>. QED  BY <7>1, <7>2, Zenon
          <6>. QED  BY <6>2, <6>4, <6>5
        <5>2. watch[Len(watch)] = shpa
          BY <2>12 DEF Deliver, PassInv, CacheFollows
        <5>. QED  BY <2>12, <5>1, <5>2 DEF Deliver, CacheFollows
      <4>3. watch \in Seq(Versions) /\ watch # <<>>
        BY <2>12 DEF Deliver, TypeOK
      <4>4. Len(watch) \in Nat /\ Len(watch) # 0
        BY <4>3, EmptySeq
      <4>. QED  BY <4>1, <4>2, <4>4
    <3>. QED
      BY <2>12, <3>1
      DEF Deliver, PassInv, FreshCopiesAgree, SoundPlan, LimitedPlan, LastScaleIsPast, passVars
  <2>13. CASE TimerFires
    BY <2>13
    DEF TimerFires, PassInv, CacheFollows, FreshCopiesAgree, SoundPlan, LimitedPlan,
        LastScaleIsPast, envVars, passVars
  <2>14. CASE Restart
    BY <2>14
    DEF Restart, PassInv, CacheFollows, FreshCopiesAgree, SoundPlan, LastScaleIsPast,
        NoInstance, NoScale
  <2>15. CASE EditSHPA
    <3>1. PICK spec \in Specs : /\ shpa' = [shpa EXCEPT !.spec = spec]
                                /\ watch' = Append(watch, [shpa EXCEPT !.spec = spec])
      BY <2>15 DEF EditSHPA
    <3>2. [shpa EXCEPT !.spec = spec] \in Versions
      BY VersionType DEF TypeOK
    <3>3. CacheFollows'
      BY <3>1, <3>2, AppendFollows DEF TypeOK
    <3>4. shpa'.status = shpa.status
      BY <3>1 DEF TypeOK, Versions
    <3>5. inst'.spec = inst.spec /\ inst'.status = inst.status /\ inst'.fresh = FALSE
      BY <2>15 DEF EditSHPA, TypeOK, Instances
    <3>6. FreshCopiesAgree'
      BY <2>15, <3>5 DEF EditSHPA, PassInv, FreshCopiesAgree
    <3>7. SoundPlan'
      BY <2>15, <3>5 DEF EditSHPA, PassInv, SoundPlan, LimitedPlan
    <3>. QED  BY <2>15, <3>3, <3>4, <3>6, <3>7 DEF EditSHPA, PassInv, LastScaleIsPast
  <2>16. CASE ScaleByHand
    <3>1. scale'.spec = scale.spec /\ scale'.status = scale.status /\ scale'.fresh = FALSE
      BY <2>16 DEF ScaleByHand, TypeOK, Scales
    <3>. QED
      BY <2>16, <3>1
      DEF ScaleByHand, PassInv, CacheFollows, FreshCopiesAgree, SoundPlan, LimitedPlan,
          LastScaleIsPast
  <2>17. CASE TargetProgress
    <3>1. scale'.spec = scale.spec /\ scale'.status = scale.status /\ scale'.fresh = FALSE
      BY <2>17 DEF TargetProgress, TypeOK, Scales
    <3>. QED
      BY <2>17, <3>1
      DEF TargetProgress, PassInv, CacheFollows, FreshCopiesAgree, SoundPlan, LimitedPlan,
          LastScaleIsPast
  <2>18. CASE Tick
    <3>1. now' = now + 1 /\ now \in Nat
      BY <2>18 DEF Tick, TypeOK
    <3>2. /\ inst.spec.UpscaleForbiddenWindow \in Nat /\ inst.spec.DownscaleForbiddenWindow \in Nat
          /\ inst.status.lastScale # NoTime => inst.status.lastScale \in Nat
          /\ shpa.status.lastScale # NoTime => shpa.status.lastScale \in Nat
      BY <2>0 DEF SpecType, StatusType, Times, TypeOK, Versions
    <3>3. SoundPlan'
      BY <2>18, <3>1, <3>2 DEF Tick, PassInv, SoundPlan, LimitedPlan, passVars
    <3>4. LastScaleIsPast'
      BY <2>18, <3>1, <3>2 DEF Tick, PassInv, LastScaleIsPast, envVars
    <3>. QED
      BY <2>18, <3>3, <3>4 DEF Tick, PassInv, CacheFollows, FreshCopiesAgree, envVars, passVars
  <2>19. CASE UNCHANGED vars
    BY <2>19
    DEF vars, envVars, queueVars, passVars, PassInv, CacheFollows, FreshCopiesAgree, SoundPlan,
        LimitedPlan, LastScaleIsPast
  <2>. QED
    BY <2>1, <2>2, <2>3, <2>4, <2>5, <2>6, <2>7, <2>8, <2>9, <2>10, <2>11, <2>12, <2>13,
       <2>14, <2>15, <2>16, <2>17, <2>18, <2>19 DEF Next, Pass
<1>. QED  BY <1>1, <1>2, TypeCorrect, PTL DEF Spec

-----------------------------------------------------------------------------
(* What a step may never do *)

\* Only an update the API server accepts changes the target on the controller's
\* behalf, and it changes it as planned.
LEMMA ScaleStep ==
    ASSUME TypeOK, [Next]_vars, ControllerScales
    PROVE  /\ pc = "scaleWrite" /\ scale.fresh
           /\ target'.spec = plan.desired /\ target'.status = target.status
<1>1. CASE StoreScale
  BY <1>1 DEF ControllerScales, StoreScale, TypeOK
<1>2. CASE ~StoreScale
  <2>1. CASE UpdateScale \/ UpdateScaleFails
    BY <1>2, <2>1 DEF UpdateScale, UpdateScaleFails, ControllerScales
  <2>2. CASE Begin \/ GetScale \/ Compute \/ WriteStatusOnError \/ WriteStatusOfDryRun
               \/ WriteStatus \/ GetScaleFails \/ MetricsFail \/ MetricsPanic
    BY <2>2
    DEF Begin, GetScale, Compute, WriteStatusOnError, WriteStatusOfDryRun, WriteStatus,
        GetScaleFails, MetricsFail, MetricsPanic, ControllerScales
  <2>3. CASE Deliver \/ TimerFires \/ Restart \/ EditSHPA \/ Tick \/ UNCHANGED vars
    BY <2>3
    DEF Deliver, TimerFires, Restart, EditSHPA, Tick, ControllerScales, vars, envVars, passVars
  <2>4. CASE ScaleByHand \/ TargetProgress
    BY <2>4 DEF ScaleByHand, TargetProgress, ControllerScales
  <2>. QED  BY <2>1, <2>2, <2>3, <2>4 DEF Next, Pass
<1>. QED  BY <1>1, <1>2

\* The controller never writes a count outside the range of the spec it works for,
\* nor any count in a dry run.
THEOREM RangeSafe == Spec => ScalesWithinRange
<1>1. TypeOK /\ PassInv /\ [Next]_vars =>
        [ControllerScales =>
            /\ target'.spec \in inst.spec.MinReplicas..inst.spec.MaxReplicas
            /\ ~inst.spec.DryRun]_vars
  BY ScaleStep DEF PassInv, SoundPlan
<1>. QED  BY <1>1, TypeCorrect, PassInvariant, PTL DEF Spec, ScalesWithinRange

\* A rescale of the metrics keeps both rate limits as seen from the observed count
\* at the moment the update takes effect.
THEOREM StepsSafe == Spec => ScalesByLimitedSteps
<1>1. TypeOK /\ PassInv /\ [Next]_vars =>
        [ControllerScales /\ plan.case = "metrics" =>
            /\ target'.spec >= ScaleDownLimit(inst.spec, target.status)
            /\ target'.spec <= ScaleUpLimit(inst.spec, target.status)]_vars
  BY ScaleStep DEF PassInv, SoundPlan, LimitedPlan, FreshCopiesAgree
<1>. QED  BY <1>1, TypeCorrect, PassInvariant, PTL DEF Spec, ScalesByLimitedSteps

\* The controller never wakes a target that has been scaled to zero, whenever that
\* happened.
THEOREM DisabledSafe == Spec => DisabledStaysDisabled
<1>1. TypeOK /\ PassInv /\ [Next]_vars => [ControllerScales => target.spec # 0]_vars
  BY ScaleStep DEF PassInv, SoundPlan, FreshCopiesAgree
<1>. QED  BY <1>1, TypeCorrect, PassInvariant, PTL DEF Spec, DisabledStaysDisabled

\* A pass that has read of the controller's last rescale keeps the cooldown windows.
THEOREM CooldownSafe == Spec => CooldownWhenKnown
<1>1. TypeOK /\ PassInv /\ [Next]_vars =>
        [ControllerScales /\ plan.case = "metrics" /\ KnowsLastScale => OutsideWindows]_vars
  <2>. SUFFICES ASSUME TypeOK, PassInv, [Next]_vars, ControllerScales, plan.case = "metrics",
                       KnowsLastScale, scaledAt # NoTime
                PROVE  OutsideWindows
    BY DEF OutsideWindows
  <2>1. /\ pc = "scaleWrite" /\ scale.status = target.status
        /\ target'.spec = plan.desired /\ target'.status = target.status
    BY ScaleStep DEF PassInv, FreshCopiesAgree
  <2>2. /\ inst.status.lastScale # NoTime /\ scaledAt <= inst.status.lastScale
        /\ plan.desired > scale.status =>
              inst.status.lastScale + inst.spec.UpscaleForbiddenWindow <= now
        /\ plan.desired < scale.status =>
              inst.status.lastScale + inst.spec.DownscaleForbiddenWindow <= now
    BY <2>1 DEF KnowsLastScale, PassInv, SoundPlan, LimitedPlan
  <2>3. /\ scaledAt \in Nat /\ inst.status.lastScale \in Nat /\ now \in Nat
        /\ inst.spec.UpscaleForbiddenWindow \in Nat /\ inst.spec.DownscaleForbiddenWindow \in Nat
    BY <2>2, SpecsAssumption DEF TypeOK, Instances, StatusType, SpecType, Times
  <2>. QED  BY <2>1, <2>2, <2>3 DEF OutsideWindows
<1>. QED  BY <1>1, TypeCorrect, PassInvariant, PTL DEF Spec, CooldownWhenKnown

\* An accepted status comes from an up-to-date copy; all else leaves it alone.
LEMMA StatusStep ==
    ASSUME TypeOK, PassInv, [Next]_vars, shpa'.status # shpa.status
    PROVE  /\ inst.fresh /\ inst.spec = shpa.spec
           /\ \/ shpa'.status.lastScale = now
              \/ shpa'.status.lastScale = shpa.status.lastScale
<1>0. inst.status \in StatusType /\ plan.rescale \in BOOLEAN
  BY DEF TypeOK, Instances, Plans
<1>1. ASSUME NEW status, NEW err \in BOOLEAN, UpdateStatusIfNeeded(status, err),
             status.lastScale = now \/ status.lastScale = inst.status.lastScale
      PROVE  /\ inst.fresh /\ inst.spec = shpa.spec
             /\ \/ shpa'.status.lastScale = now
                \/ shpa'.status.lastScale = shpa.status.lastScale
  <2>1. inst.fresh /\ StoreStatus(status)
    BY <1>1 DEF UpdateStatusIfNeeded
  <2>2. shpa' = [shpa EXCEPT !.status = status]
    BY <2>1 DEF StoreStatus
  <2>3. shpa'.status = status
    BY <2>2 DEF TypeOK, Versions
  <2>. QED  BY <1>1, <2>1, <2>3 DEF PassInv, FreshCopiesAgree
<1>2. CASE WriteStatusOnError
  BY <1>1, <1>2 DEF WriteStatusOnError
<1>3. CASE WriteStatusOfDryRun
  <2>. DEFINE status == SetStatus(inst.status, scale.status, plan.desired, TRUE)
  <2>1. status.lastScale = IF TRUE THEN now ELSE inst.status.lastScale
    BY <1>0 DEF SetStatus, StatusType
  <2>. HIDE DEF status
  <2>2. PICK err \in BOOLEAN : UpdateStatusIfNeeded(status, err)
    BY <1>3 DEF WriteStatusOfDryRun, status
  <2>. QED  BY <1>1, <2>1, <2>2
<1>4. CASE WriteStatus
  <2>. DEFINE status == SetStatus(inst.status, scale.status, plan.desired, plan.rescale)
  <2>1. status.lastScale = IF plan.rescale THEN now ELSE inst.status.lastScale
    BY <1>0 DEF SetStatus, StatusType
  <2>2. PICK err \in BOOLEAN : UpdateStatusIfNeeded(status, err)
    BY <1>4 DEF WriteStatus
  <2>. HIDE DEF status
  <2>. QED  BY <1>0, <1>1, <2>1, <2>2
<1>5. CASE EditSHPA
  BY <1>5 DEF EditSHPA, TypeOK, Versions
<1>6. CASE Begin \/ GetScale \/ Compute \/ UpdateScale \/ UpdateScaleFails
             \/ GetScaleFails \/ MetricsFail \/ MetricsPanic
  BY <1>6
  DEF Begin, GetScale, Compute, UpdateScale, UpdateScaleFails, GetScaleFails, MetricsFail,
      MetricsPanic, envVars
<1>7. CASE Deliver \/ TimerFires \/ Restart \/ ScaleByHand \/ TargetProgress \/ Tick
             \/ UNCHANGED vars
  BY <1>7
  DEF Deliver, TimerFires, Restart, ScaleByHand, TargetProgress, Tick, vars, envVars
<1>. QED  BY <1>2, <1>3, <1>4, <1>5, <1>6, <1>7 DEF Next, Pass

\* LastScaleTime is neither lost nor set back.
THEOREM LastScaleSafe == Spec => LastScaleNeverRegresses
<1>1. TypeOK /\ PassInv /\ [Next]_vars =>
        [shpa'.status.lastScale # shpa.status.lastScale =>
            /\ shpa'.status.lastScale # NoTime
            /\ \/ shpa.status.lastScale = NoTime
               \/ shpa'.status.lastScale > shpa.status.lastScale]_vars
  <2>. SUFFICES ASSUME TypeOK, PassInv, [Next]_vars,
                       shpa'.status.lastScale # shpa.status.lastScale
                PROVE  /\ shpa'.status.lastScale # NoTime
                       /\ \/ shpa.status.lastScale = NoTime
                          \/ shpa'.status.lastScale > shpa.status.lastScale
    OBVIOUS
  <2>1. shpa'.status.lastScale = now
    BY StatusStep
  <2>2. now \in Nat /\ shpa.status.lastScale \in Times
    BY DEF TypeOK, Versions, StatusType
  <2>3. now # NoTime
    BY <2>2, NoTimeAssumption
  <2>. QED  BY <2>1, <2>2, <2>3 DEF PassInv, LastScaleIsPast, Times
<1>. QED  BY <1>1, TypeCorrect, PassInvariant, PTL DEF Spec, LastScaleNeverRegresses

\* A status is stored only over the spec it was computed for.
THEOREM StatusSafe == Spec => StatusIsOfStoredSpec
<1>1. TypeOK /\ PassInv /\ [Next]_vars =>
        [shpa'.status # shpa.status => inst.spec = shpa.spec]_vars
  BY StatusStep
<1>. QED  BY <1>1, TypeCorrect, PassInvariant, PTL DEF Spec, StatusIsOfStoredSpec

\* However a pass ends, the key is still queued or a timer will queue it.
THEOREM NeverAsleep == Spec => []LoopStaysAlive
<1>1. Init => LoopStaysAlive
  BY DEF Init, LoopStaysAlive
<1>2. ASSUME TypeOK, NEW delay \in Nat, Finish(delay)
      PROVE  LoopStaysAlive'
  <2>1. now + delay # NoTime
    BY <1>2, NoTimeAssumption DEF TypeOK
  <2>. QED  BY <1>2, <2>1 DEF Finish, LoopStaysAlive
<1>3. TypeOK /\ LoopStaysAlive /\ [Next]_vars => LoopStaysAlive'
  <2>. SUFFICES ASSUME TypeOK, LoopStaysAlive, [Next]_vars PROVE LoopStaysAlive'
    OBVIOUS
  <2>1. CASE GetScaleFails \/ MetricsPanic \/ WriteStatusOnError
    BY <1>2, <2>1, DelaysAssumption DEF GetScaleFails, MetricsPanic, WriteStatusOnError
  <2>2. CASE WriteStatusOfDryRun
    BY <1>2, <2>2, DelaysAssumption DEF WriteStatusOfDryRun, LoopStaysAlive
  <2>3. CASE WriteStatus
    <3>1. PICK err \in BOOLEAN : Finish(IF err THEN RetryDelay ELSE SyncPeriod)
      BY <2>3 DEF WriteStatus
    <3>. QED  BY <1>2, <3>1, DelaysAssumption
  <2>4. CASE Begin \/ GetScale \/ Compute \/ UpdateScale \/ UpdateScaleFails \/ MetricsFail
    BY <2>4
    DEF Begin, GetScale, Compute, Decide, UpdateScale, UpdateScaleFails, MetricsFail,
        LoopStaysAlive
  <2>5. CASE Deliver \/ TimerFires \/ Restart
    BY <2>5 DEF Deliver, TimerFires, Restart, LoopStaysAlive, passVars
  <2>6. CASE EditSHPA \/ ScaleByHand \/ TargetProgress \/ Tick \/ UNCHANGED vars
    BY <2>6
    DEF EditSHPA, ScaleByHand, TargetProgress, Tick, LoopStaysAlive, vars, queueVars, passVars
  <2>. QED  BY <2>1, <2>2, <2>3, <2>4, <2>5, <2>6 DEF Next, Pass
<1>. QED  BY <1>1, <1>3, TypeCorrect, PTL DEF Spec
=============================================================================
