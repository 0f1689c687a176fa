------------------------ MODULE SHPARefinementProofs ------------------------
(***************************************************************************)
(* SHPAController implements Autoscaler, for every set of specs, sizes and *)
(* proposals, every delay and every bound.                                 *)
(***************************************************************************)
EXTENDS SHPARefinement, SHPAControllerProofs

-----------------------------------------------------------------------------
(* What a version wants *)

\* The abstract specification decides by the same rules.
LEMMA SameRules ==
    ASSUME NEW spec, NEW lastScale, NEW specReplicas, NEW current, NEW desired, NEW time
    PROVE  /\ A!DecisionCase(spec, specReplicas, current)
                = DecisionCase(spec, specReplicas, current)
           /\ A!ConvertDesiredReplicas(spec, current, desired)
                = ConvertDesiredReplicas(spec, current, desired)
           /\ A!Larger(0, desired) = Larger(0, desired)
           /\ A!ShouldScale(spec, lastScale, current, desired, time)
                = ShouldScale(spec, lastScale, current, desired, time)
<1>1. A!DecisionCase(spec, specReplicas, current) = DecisionCase(spec, specReplicas, current)
  BY DEF A!DecisionCase, DecisionCase
<1>2. A!ConvertDesiredReplicas(spec, current, desired)
        = ConvertDesiredReplicas(spec, current, desired)
  BY DEF A!ConvertDesiredReplicas, ConvertDesiredReplicas, A!MinimumAllowed, MinimumAllowed,
         A!MaximumAllowed, MaximumAllowed, A!ScaleUpLimit, ScaleUpLimit, A!ScaleDownLimit,
         ScaleDownLimit, A!FloorPercent, FloorPercent, A!Larger, Larger, A!Smaller, Smaller
<1>3. A!Larger(0, desired) = Larger(0, desired)
  BY DEF A!Larger, Larger
<1>4. A!ShouldScale(spec, lastScale, current, desired, time)
        = ShouldScale(spec, lastScale, current, desired, time)
  BY DEF A!ShouldScale, ShouldScale, A!CanScale, CanScale, A!InUpscaleBackoff, InUpscaleBackoff,
         A!InDownscaleBackoff, InDownscaleBackoff
<1>. QED  BY <1>1, <1>2, <1>3, <1>4

\* What Wants says, in the controller's own terms.
LEMMA WantsMeans ==
    ASSUME NEW spec, NEW lastScale, NEW specReplicas, NEW current, NEW time, NEW n
    PROVE  A!Wants([spec |-> spec, lastScale |-> lastScale],
                   [spec |-> specReplicas, status |-> current], time, n)
             <=> LET case == DecisionCase(spec, specReplicas, current) IN
                 \/ case = "aboveMax" /\ n = spec.MaxReplicas
                 \/ case = "belowMin" /\ n = spec.MinReplicas
                 \/ case = "zero" /\ n = 1
                 \/ /\ case = "metrics"
                    /\ \E p \in Proposals :
                          n = ConvertDesiredReplicas(spec, current, Larger(0, p)).replicas
                    /\ ShouldScale(spec, lastScale, current, n, time)
<1>1. A!DecisionCase(spec, specReplicas, current) = DecisionCase(spec, specReplicas, current)
  BY SameRules
<1>2. \A p : A!ConvertDesiredReplicas(spec, current, A!Larger(0, p))
               = ConvertDesiredReplicas(spec, current, Larger(0, p))
  BY SameRules
<1>3. A!ShouldScale(spec, lastScale, current, n, time)
        = ShouldScale(spec, lastScale, current, n, time)
  BY SameRules
<1>. QED  BY <1>1, <1>2, <1>3 DEF A!Wants

\* The cases of the switch that ignore metrics plan what the version wants.
LEMMA WantedFixed ==
    ASSUME NEW spec \in SpecType, ValidRange(spec), NEW lastScale, NEW specReplicas \in Int,
           NEW current \in Int, NEW status, NEW time,
           DecisionCase(spec, specReplicas, current) # "metrics",
           FixedDecision(spec, specReplicas, current, status).rescale
    PROVE  A!Wants([spec |-> spec, lastScale |-> lastScale],
                   [spec |-> specReplicas, status |-> current], time,
                   FixedDecision(spec, specReplicas, current, status).desired)
<1>. DEFINE case == DecisionCase(spec, specReplicas, current)
            desired == CASE case = "disabled" -> 0
                         [] case = "aboveMax" -> spec.MaxReplicas
                         [] case = "belowMin" -> spec.MinReplicas
                         [] case = "zero"     -> 1
<1>1. /\ FixedDecision(spec, specReplicas, current, status).rescale = (case # "disabled")
      /\ FixedDecision(spec, specReplicas, current, status).desired = desired
  BY DEF FixedDecision
<1>2. case # "disabled"
  BY <1>1
<1>3. case \in {"aboveMax", "belowMin"}
  BY <1>2 DEF DecisionCase, SpecType, ValidRange
<1>4. /\ case = "aboveMax" => desired = spec.MaxReplicas
      /\ case = "belowMin" => desired = spec.MinReplicas
  <2>. HIDE DEF case
  <2>. QED  OBVIOUS
<1>. HIDE DEF desired
<1>. QED  BY <1>1, <1>3, <1>4, WantsMeans

\* The windows, once over, stay over: what may be done by the age of the metrics may
\* be done now, and what may be done now may be done later.
LEMMA ShouldScaleStays ==
    ASSUME NEW spec \in SpecType, NEW lastScale \in Times, NEW current \in Int,
           NEW desired \in Int, NEW ts \in Int, NEW time \in Int, ts <= time,
           ShouldScale(spec, lastScale, current, desired, ts)
    PROVE  ShouldScale(spec, lastScale, current, desired, time)
<1>1. CASE lastScale = NoTime
  BY <1>1 DEF ShouldScale
<1>2. CASE lastScale # NoTime
  <2>1. /\ lastScale \in Int
        /\ spec.UpscaleForbiddenWindow \in Int /\ spec.DownscaleForbiddenWindow \in Int
    BY <1>2 DEF Times, SpecType
  <2>. QED
    BY <1>2, <2>1 DEF ShouldScale, CanScale, InUpscaleBackoff, InDownscaleBackoff
<1>. QED  BY <1>1, <1>2

\* What a proposal becomes is a count.
LEMMA ProposalType ==
    ASSUME NEW spec \in SpecType, NEW current \in Int, NEW p \in Proposals
    PROVE  ConvertDesiredReplicas(spec, current, Larger(0, p)).replicas \in Int
<1>1. Larger(0, p) \in Int
  BY ProposalsAssumption DEF Larger
<1>. QED  BY <1>1, ConvertType

\* A plan made with the metrics is wanted at the time it is made.
LEMMA WantedMetrics ==
    ASSUME NEW spec \in SpecType, NEW status \in StatusType, NEW specReplicas \in Int,
           NEW current \in Int, NEW proposal \in Proposals, NEW present \in Int, NEW ts \in Int,
           ts <= present, DecisionCase(spec, specReplicas, current) = "metrics",
           MetricDecision(spec, current, proposal, ts, present, status).rescale
    PROVE  A!Wants([spec |-> spec, lastScale |-> status.lastScale],
                   [spec |-> specReplicas, status |-> current], present,
                   MetricDecision(spec, current, proposal, ts, present, status).desired)
<1>. DEFINE desired == ConvertDesiredReplicas(spec, current, Larger(0, proposal)).replicas
            when == IF proposal > 0 THEN ts ELSE present
<1>1. /\ MetricDecision(spec, current, proposal, ts, present, status).desired = desired
      /\ ShouldScale(spec, status.lastScale, current, desired, when)
  BY DEF MetricDecision
<1>2. status.lastScale \in Times /\ when \in Int /\ when <= present
  <2>1. status.lastScale \in Times
    BY DEF StatusType
  <2>2. when \in {ts, present}
    OBVIOUS
  <2>. HIDE DEF when
  <2>. QED  BY <2>1, <2>2
<1>3. desired \in Int
  BY ProposalType
<1>4. \E p \in Proposals : desired = ConvertDesiredReplicas(spec, current, Larger(0, p)).replicas
  OBVIOUS
<1>. HIDE DEF desired, when
<1>5. ShouldScale(spec, status.lastScale, current, desired, present)
  BY <1>1, <1>2, <1>3, ShouldScaleStays
<1>. QED  BY <1>1, <1>4, <1>5, WantsMeans

\* A wanted count stays wanted while time passes.
LEMMA WantedStays ==
    ASSUME NEW spec \in SpecType, NEW lastScale \in Times, NEW specReplicas \in Int,
           NEW current \in Int, NEW time \in Nat, NEW n,
           A!Wants([spec |-> spec, lastScale |-> lastScale],
                   [spec |-> specReplicas, status |-> current], time, n)
    PROVE  A!Wants([spec |-> spec, lastScale |-> lastScale],
                   [spec |-> specReplicas, status |-> current], time + 1, n)
<1>1. CASE DecisionCase(spec, specReplicas, current) = "metrics"
  <2>1. /\ \E p \in Proposals :
             n = ConvertDesiredReplicas(spec, current, Larger(0, p)).replicas
        /\ ShouldScale(spec, lastScale, current, n, time)
    BY <1>1, WantsMeans
  <2>2. n \in Int
    BY <2>1, ProposalType
  <2>3. ShouldScale(spec, lastScale, current, n, time + 1)
    BY <2>1, <2>2, ShouldScaleStays
  <2>. QED  BY <1>1, <2>1, <2>3, WantsMeans
<1>2. CASE DecisionCase(spec, specReplicas, current) # "metrics"
  BY <1>2, WantsMeans
<1>. QED  BY <1>1, <1>2

-----------------------------------------------------------------------------
(* A plan stays wanted until it is carried out *)

\* Nothing that can happen between the decision and the scale update makes the planned
\* count one that the version of the pass would not want for the scale it read.
THEOREM PlanStaysWanted == Spec => []WantedPlan
<1>1. Init => WantedPlan
  BY DEF Init, WantedPlan
<1>2. TypeOK /\ WantedPlan /\ [Next]_vars => WantedPlan'
  <2>. SUFFICES ASSUME TypeOK, WantedPlan, [Next]_vars, pc' = "scaleWrite" PROVE WantedPlan'
    BY DEF WantedPlan
  <2>0. /\ inst.spec \in SpecType /\ ValidRange(inst.spec) /\ inst.status \in StatusType
        /\ scale.spec \in Int /\ scale.status \in Int /\ now \in Nat
    BY SpecsAssumption DEF TypeOK, Instances, Scales
  <2>1. CASE Compute
    <3>1. PICK decision :
             /\ Decide(decision)
             /\ decision.rescale =>
                   A!Wants([spec |-> inst.spec, lastScale |-> inst.status.lastScale],
                           [spec |-> scale.spec, status |-> scale.status], now,
                           decision.desired)
      <4>1. CASE DecisionCase(inst.spec, scale.spec, scale.status) # "metrics"
        BY <2>0, <2>1, <4>1, WantedFixed DEF Compute
      <4>2. CASE DecisionCase(inst.spec, scale.spec, scale.status) = "metrics"
        <5>1. PICK proposal \in Proposals, ts \in (now - MetricLag)..now :
                 Decide(MetricDecision(inst.spec, scale.status, proposal, ts, now, inst.status))
          BY <2>1, <4>2 DEF Compute
        <5>2. ts \in Int /\ ts <= now /\ now \in Int
          BY <2>0, <5>1, DelaysAssumption
        <5>. QED  BY <2>0, <4>2, <5>1, <5>2, WantedMetrics
      <4>. QED  BY <4>1, <4>2
    <3>2. decision.rescale /\ plan'.desired = decision.desired
      BY <3>1 DEF Decide
    <3>3. inst'.spec = inst.spec /\ inst'.status.lastScale = inst.status.lastScale
      BY <3>1 DEF Decide, TypeOK, Instances, StatusType
    <3>4. UNCHANGED <<now, scale>>
      BY <2>1 DEF Compute
    <3>. QED  BY <3>1, <3>2, <3>3, <3>4 DEF WantedPlan, Version
  <2>2. CASE Tick
    <3>1. /\ A!Wants([spec |-> inst.spec, lastScale |-> inst.status.lastScale],
                     [spec |-> scale.spec, status |-> scale.status], now, plan.desired)
          /\ UNCHANGED <<inst, scale, plan>> /\ now' = now + 1
      BY <2>2 DEF Tick, WantedPlan, Version, passVars
    <3>2. inst.status.lastScale \in Times
      BY <2>0 DEF StatusType
    <3>3. A!Wants([spec |-> inst.spec, lastScale |-> inst.status.lastScale],
                  [spec |-> scale.spec, status |-> scale.status], now + 1, plan.desired)
      BY <2>0, <3>1, <3>2, WantedStays
    <3>. QED  BY <3>1, <3>3 DEF WantedPlan, Version
  <2>3. CASE EditSHPA \/ ScaleByHand \/ TargetProgress
    <3>1. /\ inst'.spec = inst.spec /\ inst'.status = inst.status
          /\ scale'.spec = scale.spec /\ scale'.status = scale.status
          /\ UNCHANGED <<now, pc, plan>>
      BY <2>3 DEF EditSHPA, ScaleByHand, TargetProgress, TypeOK, Instances, Scales
    <3>. QED  BY <3>1 DEF WantedPlan, Version
  <2>4. CASE Deliver \/ TimerFires \/ UNCHANGED vars
    BY <2>4 DEF Deliver, TimerFires, vars, passVars, WantedPlan
  <2>5. CASE Begin \/ GetScale \/ MetricsFail \/ UpdateScale \/ UpdateScaleFails
               \/ GetScaleFails \/ MetricsPanic \/ WriteStatusOnError \/ WriteStatusOfDryRun
               \/ WriteStatus \/ Restart
    BY <2>5
    DEF Begin, GetScale, MetricsFail, UpdateScale, UpdateScaleFails, GetScaleFails, MetricsPanic,
        WriteStatusOnError, WriteStatusOfDryRun, WriteStatus, Restart, Finish
  <2>. QED  BY <2>1, <2>2, <2>3, <2>4, <2>5 DEF Next, Pass
<1>. QED  BY <1>1, <1>2, TypeCorrect, PTL DEF Spec

-----------------------------------------------------------------------------
(* The versions that are known *)

\* The updates of a pass keep the version of Reconcile's copy, or make it the stored one.
LEMMA PassVersion ==
    ASSUME TypeOK, PassInv, [Next]_vars, pc' # "idle", ~Begin
    PROVE  /\ pc # "idle"
           /\ Version(inst') = Version(inst) \/ Version(inst') = Version(shpa')
<1>1. CASE WriteStatusOfDryRun
  <2>. DEFINE status == SetStatus(inst.status, scale.status, plan.desired, TRUE)
  <2>1. UpdateStatusIfNeeded(status, FALSE) /\ inst' = [inst EXCEPT !.status = status]
    BY <1>1 DEF WriteStatusOfDryRun, Finish
  <2>. HIDE DEF status
  <2>2. inst'.spec = inst.spec /\ inst'.status = status
    BY <2>1 DEF TypeOK, Instances
  <2>3. CASE status = original
    <3>1. original.lastScale = inst.status.lastScale
      BY <1>1 DEF WriteStatusOfDryRun, PassInv, FreshCopiesAgree
    <3>. QED  BY <1>1, <2>2, <2>3, <3>1 DEF Version, WriteStatusOfDryRun
  <2>4. CASE inst.fresh /\ StoreStatus(status)
    <3>1. shpa'.spec = shpa.spec /\ shpa'.status = status
      BY <2>4 DEF StoreStatus, TypeOK, Versions
    <3>. QED  BY <1>1, <2>2, <2>4, <3>1
              DEF Version, WriteStatusOfDryRun, PassInv, FreshCopiesAgree
  <2>. QED  BY <2>1, <2>3, <2>4 DEF UpdateStatusIfNeeded
<1>2. CASE UpdateScaleFails
  <2>. DEFINE failed == [inst.status EXCEPT !.able = "FailedUpdateScale"]
  <2>1. failed \in StatusType /\ failed.lastScale = inst.status.lastScale
    BY DEF TypeOK, Instances, StatusType, AbleReasons, UnableReasons
  <2>. HIDE DEF failed
  <2>2. SetStatus(failed, scale.status, inst.status.desired, FALSE).lastScale
          = inst.status.lastScale
    BY <2>1 DEF SetStatus, StatusType
  <2>. QED  BY <1>2, <2>2 DEF UpdateScaleFails, TypeOK, Instances, Version, failed
<1>3. CASE GetScale \/ UpdateScale \/ EditSHPA
  <2>1. inst'.spec = inst.spec /\ inst'.status.lastScale = inst.status.lastScale
    <3>1. CASE GetScale
      BY <3>1 DEF GetScale, TypeOK, Instances, StatusType
    <3>2. CASE UpdateScale
      BY <3>2 DEF UpdateScale, TypeOK, Instances, StatusType
    <3>3. CASE EditSHPA
      BY <3>3 DEF EditSHPA, TypeOK, Instances
    <3>. QED  BY <1>3, <3>1, <3>2, <3>3
  <2>2. pc # "idle"
    BY <1>3 DEF GetScale, UpdateScale, EditSHPA
  <2>. QED  BY <2>1, <2>2 DEF Version
<1>4. CASE Compute
  <2>1. PICK decision : Decide(decision)
    BY <1>4 DEF Compute
  <2>2. inst'.spec = inst.spec /\ inst'.status.lastScale = inst.status.lastScale
    BY <2>1 DEF Decide, TypeOK, Instances, StatusType
  <2>. QED  BY <1>4, <2>2 DEF Compute, Version
<1>5. CASE MetricsFail \/ Deliver \/ TimerFires \/ ScaleByHand \/ TargetProgress \/ Tick
             \/ UNCHANGED vars
  BY <1>5
  DEF MetricsFail, Deliver, TimerFires, ScaleByHand, TargetProgress, Tick, vars, passVars
<1>6. CASE GetScaleFails \/ MetricsPanic \/ WriteStatusOnError \/ WriteStatus \/ Restart
  BY <1>6 DEF GetScaleFails, MetricsPanic, WriteStatusOnError, WriteStatus, Restart, Finish
<1>. QED  BY <1>1, <1>2, <1>3, <1>4, <1>5, <1>6 DEF Next, Pass

\* What a step does to the watch and to the cache.
LEMMA WatchStep ==
    ASSUME TypeOK, [Next]_vars
    PROVE  /\ cached' \in {cached, shpa} \/ (watch # <<>> /\ cached' = Head(watch))
           /\ watch' \in {watch, <<>>, Append(watch, shpa')}
                \/ (watch # <<>> /\ watch' = Tail(watch))
<1>1. ASSUME NEW status, NEW err, UpdateStatusIfNeeded(status, err)
      PROVE  watch' \in {watch, Append(watch, shpa')}
  BY <1>1 DEF UpdateStatusIfNeeded, StoreStatus
<1>2. CASE WriteStatusOnError \/ WriteStatusOfDryRun \/ WriteStatus
  BY <1>1, <1>2 DEF WriteStatusOnError, WriteStatusOfDryRun, WriteStatus
<1>3. CASE EditSHPA \/ Deliver \/ Restart
  BY <1>3 DEF EditSHPA, Deliver, Restart
<1>4. CASE Begin \/ GetScale \/ Compute \/ UpdateScale \/ UpdateScaleFails
             \/ GetScaleFails \/ MetricsFail \/ MetricsPanic
  BY <1>4
  DEF Begin, GetScale, Compute, UpdateScale, UpdateScaleFails, GetScaleFails, MetricsFail,
      MetricsPanic, envVars
<1>5. CASE TimerFires \/ ScaleByHand \/ TargetProgress \/ Tick \/ UNCHANGED vars
  BY <1>5 DEF TimerFires, ScaleByHand, TargetProgress, Tick, vars, envVars
<1>. QED  BY <1>2, <1>3, <1>4, <1>5 DEF Next, Pass

\* A step makes no version known but the stored one.
LEMMA KnownStep ==
    ASSUME TypeOK, TypeOK', PassInv, [Next]_vars
    PROVE  KnownVersions' \subseteq KnownVersions \union {Version(shpa')}
<1>. DEFINE K == KnownVersions \union {Version(shpa')}
<1>1. /\ Version(shpa) \in K /\ Version(cached) \in K /\ Version(shpa') \in K
      /\ \A i \in 1..Len(watch) : Version(watch[i]) \in K
      /\ pc # "idle" => Version(inst) \in K
  BY DEF KnownVersions
<1>2. watch \in Seq(Versions) /\ shpa' \in Versions /\ Len(watch) \in Nat
  BY DEF TypeOK
<1>3. watch # <<>> => Head(watch) = watch[1] /\ 1 \in 1..Len(watch)
  BY <1>2, EmptySeq
<1>4. Version(cached') \in K
  BY <1>1, <1>3, WatchStep
<1>5. ASSUME NEW i \in 1..Len(watch') PROVE Version(watch'[i]) \in K
  <2>1. CASE watch' = watch
    BY <1>1, <1>5, <2>1
  <2>2. CASE watch' = <<>>
    BY <1>5, <2>2
  <2>3. CASE watch' = Append(watch, shpa')
    <3>1. \/ i \in 1..Len(watch) /\ watch'[i] = watch[i]
          \/ watch'[i] = shpa'
      BY <1>2, <1>5, <2>3
    <3>. QED  BY <1>1, <3>1
  <2>4. CASE watch # <<>> /\ watch' = Tail(watch)
    <3>1. i + 1 \in 1..Len(watch) /\ watch'[i] = watch[i + 1]
      BY <1>2, <1>5, <2>4, HeadTailProperties
    <3>. QED  BY <1>1, <3>1
  <2>. QED  BY <2>1, <2>2, <2>3, <2>4, WatchStep
<1>6. ASSUME pc' # "idle" PROVE Version(inst') \in K
  <2>1. CASE Begin
    <3>1. Version(inst') = Version(cached)
      BY <2>1 DEF Begin, Version, TypeOK, Versions, StatusType
    <3>. QED  BY <1>1, <3>1
  <2>2. CASE ~Begin
    BY <1>1, <1>6, <2>2, PassVersion
  <2>. QED  BY <2>1, <2>2
<1>. HIDE DEF K
<1>7. KnownVersions' \subseteq K
  BY <1>1, <1>4, <1>5, <1>6 DEF KnownVersions
<1>. QED  BY <1>7 DEF K

-----------------------------------------------------------------------------
(* The refinement *)

\* Only people change the stored spec; the controller's writes change the status alone,
\* and LastScaleTime only to the present.
LEMMA StoredStep ==
    ASSUME TypeOK, PassInv, [Next]_vars, ~EditSHPA
    PROVE  /\ shpa'.spec = shpa.spec
           /\ \/ shpa'.status.lastScale = shpa.status.lastScale
              \/ shpa'.status.lastScale = now
<1>1. ASSUME NEW status, NEW err, UpdateStatusIfNeeded(status, err)
      PROVE  shpa'.spec = shpa.spec
  BY <1>1 DEF UpdateStatusIfNeeded, StoreStatus, TypeOK, Versions
<1>2. shpa'.spec = shpa.spec
  <2>1. CASE WriteStatusOnError \/ WriteStatusOfDryRun \/ WriteStatus
    BY <1>1, <2>1 DEF WriteStatusOnError, WriteStatusOfDryRun, WriteStatus
  <2>2. CASE Begin \/ GetScale \/ Compute \/ UpdateScale \/ UpdateScaleFails
               \/ GetScaleFails \/ MetricsFail \/ MetricsPanic
    BY <2>2
    DEF Begin, GetScale, Compute, UpdateScale, UpdateScaleFails, GetScaleFails, MetricsFail,
        MetricsPanic, envVars
  <2>3. CASE Deliver \/ TimerFires \/ Restart \/ ScaleByHand \/ TargetProgress \/ Tick
               \/ UNCHANGED vars
    BY <2>3
    DEF Deliver, TimerFires, Restart, ScaleByHand, TargetProgress, Tick, vars, envVars
  <2>. QED  BY <2>1, <2>2, <2>3 DEF Next, Pass
<1>. QED  BY <1>2, StatusStep

\* An update of the scale is an atomic rescale.
LEMMA RescaleStep ==
    ASSUME TypeOK, PassInv, WantedPlan, [Next]_vars, ControllerScales
    PROVE  A!Rescale
<1>1. /\ pc = "scaleWrite" /\ scale.fresh
      /\ target'.spec = plan.desired /\ target'.status = target.status
  BY ScaleStep
<1>2. CASE (UpdateScale \/ UpdateScaleFails) /\ StoreScale
  <2>1. /\ UNCHANGED <<now, shpa, watch, cached>> /\ pc' \in {"statusWrite", "errorWrite"}
        /\ target' = [target EXCEPT !.spec = target'.spec]
    BY <1>1, <1>2 DEF UpdateScale, UpdateScaleFails, StoreScale
  <2>2. ~Begin
    BY <1>1 DEF Begin
  <2>3. Version(inst') = Version(inst) \/ Version(inst') = Version(shpa)
    BY <2>1, <2>2, PassVersion
  <2>4. Version(inst') = Version(inst)
    <3>1. CASE UpdateScale
      BY <3>1 DEF UpdateScale, TypeOK, Instances, StatusType, Version
    <3>2. CASE UpdateScaleFails
      <4>. DEFINE failed == [inst.status EXCEPT !.able = "FailedUpdateScale"]
      <4>1. failed \in StatusType /\ failed.lastScale = inst.status.lastScale
        BY DEF TypeOK, Instances, StatusType, AbleReasons, UnableReasons
      <4>. HIDE DEF failed
      <4>2. SetStatus(failed, scale.status, inst.status.desired, FALSE).lastScale
              = inst.status.lastScale
        BY <4>1 DEF SetStatus, StatusType
      <4>. QED  BY <3>2, <4>2 DEF UpdateScaleFails, TypeOK, Instances, Version, failed
    <3>. QED  BY <1>2, <3>1, <3>2
  <2>5. KnownVersions' = KnownVersions
    BY <1>1, <2>1, <2>4 DEF KnownVersions
  <2>6. Version(inst) \in KnownVersions
    BY <1>1 DEF KnownVersions
  <2>7. ~Version(inst).spec.DryRun
    BY <1>1 DEF PassInv, SoundPlan, Version
  <2>8. target = [spec |-> scale.spec, status |-> scale.status]
    BY <1>1 DEF PassInv, FreshCopiesAgree, TypeOK
  <2>9. A!Wants(Version(inst), target, now, target'.spec)
    BY <1>1, <2>8 DEF WantedPlan
  <2>10. target'.spec # target.spec
    BY DEF ControllerScales
  <2>11. UNCHANGED <<now, Version(shpa), KnownVersions>>
    BY <2>1, <2>5 DEF Version
  <2>. QED  BY <2>1, <2>6, <2>7, <2>9, <2>10, <2>11 DEF A!Rescale
<1>3. CASE ~((UpdateScale \/ UpdateScaleFails) /\ StoreScale)
  <2>1. UNCHANGED target
    <3>1. CASE UpdateScale \/ UpdateScaleFails
      BY <1>3, <3>1 DEF UpdateScale, UpdateScaleFails
    <3>2. CASE ~(UpdateScale \/ UpdateScaleFails)
      BY <1>1, <3>2
      DEF Next, Pass, Begin, GetScale, Compute, WriteStatusOnError, WriteStatusOfDryRun,
          WriteStatus, GetScaleFails, MetricsFail, MetricsPanic, Deliver, TimerFires, Restart,
          EditSHPA, ScaleByHand, TargetProgress, Tick, vars, envVars, passVars, ControllerScales
    <3>. QED  BY <3>1, <3>2
  <2>. QED  BY <2>1 DEF ControllerScales
<1>. QED  BY <1>2, <1>3

\* The other steps of the controller leave the target alone, but for a scale update
\* that writes the count the target has.
LEMMA QuietStep ==
    ASSUME TypeOK, PassInv, [Next]_vars,
           ~ControllerScales, ~ScaleByHand, ~TargetProgress, ~Tick
    PROVE  UNCHANGED <<now, target>>
<1>1. CASE UpdateScale \/ UpdateScaleFails
  <2>1. pc = "scaleWrite" /\ pc' # pc /\ UNCHANGED now
    BY <1>1 DEF UpdateScale, UpdateScaleFails
  <2>2. UNCHANGED target \/ StoreScale
    BY <1>1 DEF UpdateScale, UpdateScaleFails
  <2>3. target'.spec = target.spec
    BY <2>1 DEF ControllerScales
  <2>4. UNCHANGED target
    BY <2>2, <2>3 DEF StoreScale, TypeOK
  <2>. QED  BY <2>1, <2>4
<1>2. CASE WriteStatusOnError \/ WriteStatusOfDryRun \/ WriteStatus
  BY <1>2 DEF WriteStatusOnError, WriteStatusOfDryRun, WriteStatus
<1>3. CASE Begin \/ GetScale \/ Compute \/ GetScaleFails \/ MetricsFail \/ MetricsPanic
             \/ Deliver \/ TimerFires \/ Restart \/ EditSHPA \/ UNCHANGED vars
  BY <1>3
  DEF Begin, GetScale, Compute, GetScaleFails, MetricsFail, MetricsPanic, Deliver, TimerFires,
      Restart, EditSHPA, vars, envVars
<1>. QED  BY <1>1, <1>2, <1>3 DEF Next, Pass

\* Every step of the controller and its surroundings is one of the abstract
\* specification's, or is not seen there.
LEMMA StepRefines ==
    ASSUME TypeOK, TypeOK', PassInv, WantedPlan, [Next]_vars
    PROVE  [A!Next]_(A!vars)
<1>1. CASE ControllerScales
  BY <1>1, RescaleStep DEF A!Next
<1>2. CASE ScaleByHand \/ TargetProgress \/ Tick
  <2>1. UNCHANGED <<shpa, watch, cached, pc, inst>>
    BY <1>2 DEF ScaleByHand, TargetProgress, Tick, envVars, passVars
  <2>2. UNCHANGED <<Version(shpa), KnownVersions>>
    BY <2>1 DEF Version, KnownVersions
  <2>. QED
    BY <1>2, <2>2
    DEF ScaleByHand, TargetProgress, Tick, envVars, A!Next, A!ScaleByHand, A!Progress, A!Tick
<1>3. CASE ~ControllerScales /\ ~ScaleByHand /\ ~TargetProgress /\ ~Tick
  <2>1. UNCHANGED <<now, target>>
    BY <1>3, QuietStep
  <2>2. A!ShowLatest
    <3>1. Version(shpa') \in KnownVersions'
      BY DEF KnownVersions, Version
    <3>. QED  BY <3>1, KnownStep DEF A!ShowLatest, Version
  <2>3. CASE EditSHPA
    <3>1. PICK spec \in Specs : shpa' = [shpa EXCEPT !.spec = spec]
      BY <2>3 DEF EditSHPA
    <3>2. Version(shpa') = [Version(shpa) EXCEPT !.spec = spec]
      BY <3>1 DEF Version, TypeOK, Versions
    <3>3. A!Edit
      BY <2>1, <2>2, <3>2 DEF A!Edit, Version
    <3>. QED  BY <3>3 DEF A!Next
  <2>4. CASE ~EditSHPA /\ shpa'.status.lastScale = shpa.status.lastScale
    <3>1. UNCHANGED Version(shpa)
      BY <2>4, StoredStep DEF Version
    <3>. QED  BY <2>1, <2>2, <3>1 DEF A!Next, A!Drop
  <2>5. CASE ~EditSHPA /\ shpa'.status.lastScale # shpa.status.lastScale
    <3>1. shpa'.spec = shpa.spec /\ shpa'.status.lastScale = now
      BY <2>5, StoredStep
    <3>2. Version(shpa)' = [Version(shpa) EXCEPT !.lastScale = now]
      BY <3>1 DEF Version
    <3>3. shpa.status.lastScale = NoTime \/ shpa.status.lastScale < now
      <4>1. now \in Int /\ shpa.status.lastScale \in Times
        <5>1. now \in Int
          BY DEF TypeOK
        <5>2. shpa.status \in StatusType
          BY DEF TypeOK, Versions
        <5>3. shpa.status.lastScale \in Times
          BY <5>2 DEF StatusType
        <5>. QED  BY <5>1, <5>3
      <4>. QED  BY <2>5, <3>1, <4>1 DEF PassInv, LastScaleIsPast, Times
    <3>4. Version(shpa).lastScale = NoTime \/ Version(shpa).lastScale < now
      BY <3>3 DEF Version
    <3>5. A!Record
      BY <2>1, <2>2, <3>2, <3>4 DEF A!Record
    <3>. QED  BY <3>5 DEF A!Next
  <2>. QED  BY <2>3, <2>4, <2>5
<1>. QED  BY <1>1, <1>2, <1>3

\* The reconcile loop implements the abstract autoscaler: whatever a pass reads from a
\* cache that lags, and whatever fails, is edited or restarts between its calls, its
\* scale update is an atomic decision and its record is in order.
THEOREM Implements == Spec => ImplementsAutoscaler
<1>1. Init => A!Init
  <2>. SUFFICES ASSUME Init PROVE A!Init
    OBVIOUS
  <2>1. KnownVersions = {Version(shpa)}
    BY DEF Init, KnownVersions
  <2>2. \E spec \in Specs : Version(shpa) = [spec |-> spec, lastScale |-> NoTime]
    <3>1. PICK spec \in Specs : shpa = [spec |-> spec, status |-> EmptyStatus]
      BY DEF Init
    <3>. QED  BY <3>1 DEF Version, EmptyStatus
  <2>. QED  BY <2>1, <2>2 DEF Init, A!Init
<1>2. TypeOK /\ TypeOK' /\ PassInv /\ WantedPlan /\ [Next]_vars => [A!Next]_(A!vars)
  BY StepRefines
<1>. QED
  BY <1>1, <1>2, TypeCorrect, PassInvariant, PlanStaysWanted, PTL
  DEF Spec, ImplementsAutoscaler, A!Spec
=============================================================================
