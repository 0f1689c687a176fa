---------------------------- MODULE ReplicaRules ----------------------------
(***************************************************************************)
(* The pure decision rules of the SHPA controller                          *)
(* (src/controllers/shpa_controller.go): the two rate limits, the          *)
(* normalisation of a proposed replica count, the cooldown windows and the *)
(* case analysis of computeReplicas.                                       *)
(*                                                                         *)
(* A spec is a record that carries the fields of SHPASpec these functions  *)
(* read, under their Go names.  Replica counts are integers, times are     *)
(* ticks of an abstract clock and NoTime is Go's nil *metav1.Time.         *)
(***************************************************************************)
EXTENDS Integers

CONSTANTS
    NoTime,     \* the value of Status.LastScaleTime before the first rescale
    RoundsDown  \* the <<factor, replicas>> whose float64 product falls short

(***************************************************************************)
(* float64(factor)/100*float64(replicas) is exact enough for math.Floor    *)
(* except at some products that are multiples of 100 (29% of 100 evaluates *)
(* to 28.999999999999996).  RoundsDown is the set of those pairs.          *)
(***************************************************************************)
ASSUME NoTimeAssumption == NoTime \notin Int
ASSUME RoundsDownAssumption ==
    \A p \in RoundsDown : p[1] * p[2] > 0 /\ (p[1] * p[2]) % 100 = 0

Larger(a, b)  == IF a >= b THEN a ELSE b
Smaller(a, b) == IF a <= b THEN a ELSE b

SpecType ==
    [MinReplicas : Nat, MaxReplicas : Nat,
     ScaleUpLimitFactor : 1..100, ScaleDownLimitFactor : 1..100,
     UpscaleForbiddenWindow : Nat, DownscaleForbiddenWindow : Nat,
     DryRun : BOOLEAN]

\* CheckSHPAValidity's clause on the replica range.
ValidRange(spec) == spec.MinReplicas # 0 /\ spec.MinReplicas <= spec.MaxReplicas

-----------------------------------------------------------------------------
(* Rate limits *)

FloorPercent(factor, n) ==
    ((factor * n) \div 100) - (IF <<factor, n>> \in RoundsDown THEN 1 ELSE 0)

\* TO how many replicas one upscale may go.
ScaleUpLimit(spec, current) ==
    current + Larger(1, FloorPercent(spec.ScaleUpLimitFactor, current))

\* TO how many replicas one downscale may go.
ScaleDownLimit(spec, current) ==
    current - Larger(1, FloorPercent(spec.ScaleDownLimitFactor, current))

-----------------------------------------------------------------------------
(* Normalisation *)

MinimumAllowed(spec, current, desired) ==
    LET limit == ScaleDownLimit(spec, current) IN
    IF spec.MinReplicas = 0 THEN 1
    ELSE IF desired < limit THEN Larger(limit, spec.MinReplicas)
    ELSE spec.MinReplicas

\* A mistake to detect: the step limit replaces MaxReplicas.
StepLimitOnly(spec, current, desired) ==
    LET limit == ScaleUpLimit(spec, current) IN
    IF desired > limit THEN limit ELSE spec.MaxReplicas

MaximumAllowed(spec, current, desired) ==
    LET limit == ScaleUpLimit(spec, current) IN
    IF desired > limit THEN Smaller(limit, spec.MaxReplicas) ELSE spec.MaxReplicas

\* The normalised count together with the reason of the ScalingLimited condition.
ConvertDesiredReplicas(spec, current, desired) ==
    LET floor   == MinimumAllowed(spec, current, desired)
        ceiling == MaximumAllowed(spec, current, desired)
        below   == IF spec.MinReplicas = 0 THEN ""
                   ELSE IF desired < ScaleDownLimit(spec, current)
                        THEN "ScaleDownLimit" ELSE "TooFewReplicas"
        above   == IF desired > ScaleUpLimit(spec, current)
                   THEN "ScaleUpLimit" ELSE "TooManyReplicas"
    IN  IF desired < floor THEN [replicas |-> floor, reason |-> below]
        ELSE IF desired > ceiling THEN [replicas |-> ceiling, reason |-> above]
        ELSE [replicas |-> desired, reason |-> "DesiredWithinRange"]

-----------------------------------------------------------------------------
(* Cooldown *)

InDownscaleBackoff(spec, lastScale, ts) == lastScale + spec.DownscaleForbiddenWindow > ts
InUpscaleBackoff(spec, lastScale, ts)   == lastScale + spec.UpscaleForbiddenWindow > ts

\* A mistake to detect: each direction looks at the other one's window.
WindowsSwapped(backoffUp, backoffDown, current, desired) ==
    \/ ~backoffDown /\ desired > current
    \/ ~backoffUp /\ desired < current

\* canScale.
CanScale(backoffUp, backoffDown, current, desired) ==
    /\ desired # current
    /\ \/ ~backoffUp /\ desired > current
       \/ ~backoffDown /\ desired < current

\* shouldScale; ts is the metrics' timestamp, or the present without metrics.
ShouldScale(spec, lastScale, current, desired, ts) ==
    \/ lastScale = NoTime
    \/ CanScale(InUpscaleBackoff(spec, lastScale, ts),
                InDownscaleBackoff(spec, lastScale, ts), current, desired)

\* The reason shouldScale leaves in the AbleToScale condition.
BackoffReason(spec, lastScale, ts, able) ==
    IF lastScale = NoTime THEN able
    ELSE LET up   == InUpscaleBackoff(spec, lastScale, ts)
             down == InDownscaleBackoff(spec, lastScale, ts)
         IN  IF up /\ down THEN "BackoffBoth"
             ELSE IF up THEN "BackoffUpscale"
             ELSE IF down THEN "BackoffDownscale"
             ELSE able

-----------------------------------------------------------------------------
(***************************************************************************)
(* computeReplicas.  A decision is: whether to rescale, to how many        *)
(* replicas, which of the switch's cases decided, and the reasons left in  *)
(* the AbleToScale, ScalingActive and ScalingLimited conditions.           *)
(***************************************************************************)

\* A mistake to detect: a target scaled to zero is not taken for disabled.
DisabledOverlooked(spec, specReplicas, current) ==
    IF current > spec.MaxReplicas THEN "aboveMax"
    ELSE IF current < spec.MinReplicas THEN "belowMin"
    ELSE IF current = 0 THEN "zero"
    ELSE "metrics"

\* The case of the switch: only "metrics" consults the metrics.
DecisionCase(spec, specReplicas, current) ==
    IF specReplicas = 0 THEN "disabled"
    ELSE IF current > spec.MaxReplicas THEN "aboveMax"
    ELSE IF current < spec.MinReplicas THEN "belowMin"
    ELSE IF current = 0 THEN "zero"
    ELSE "metrics"

\* The cases that ignore metrics; they also ignore the cooldown windows.
FixedDecision(spec, specReplicas, current, status) ==
    LET case == DecisionCase(spec, specReplicas, current) IN
    [rescale |-> case # "disabled",
     desired |-> CASE case = "disabled" -> 0
                   [] case = "aboveMax" -> spec.MaxReplicas
                   [] case = "belowMin" -> spec.MinReplicas
                   [] case = "zero"     -> 1,
     case    |-> case,
     able    |-> status.able,
     active  |-> IF case = "disabled" THEN "ScalingDisabled" ELSE status.active,
     limited |-> status.limited]

\* The default case: the metrics propose a count, measured at ts.
MetricDecision(spec, current, proposal, ts, present, status) ==
    LET raw  == Larger(0, proposal)
        when == IF proposal > 0 THEN ts ELSE present
        norm == ConvertDesiredReplicas(spec, current, raw)
    IN  [rescale |-> ShouldScale(spec, status.lastScale, current, norm.replicas, when),
         desired |-> norm.replicas,
         case    |-> "metrics",
         able    |-> BackoffReason(spec, status.lastScale, when, status.able),
         active  |-> "ValidMetricFound",
         limited |-> norm.reason]
=============================================================================
