------------------------- MODULE ReplicaRulesProofs -------------------------
(***************************************************************************)
(* What the decision rules guarantee for every spec, every replica count   *)
(* and every proposal, whatever products float64 rounds down.              *)
(***************************************************************************)
EXTENDS ReplicaRules, TLAPS

\* FloorPercent stays an integer: it is a floor, one less for some pairs.
LEMMA FloorPercentType ==
    ASSUME NEW factor \in Int, NEW n \in Int
    PROVE  FloorPercent(factor, n) \in Int
<1>1. (factor * n) \div 100 \in Int
  OBVIOUS
<1>. QED  BY <1>1 DEF FloorPercent

\* Both limits leave room for at least one replica, so a ramp cannot stall.
LEMMA LimitsLeaveAStep ==
    ASSUME NEW spec \in SpecType, NEW current \in Int
    PROVE  /\ ScaleUpLimit(spec, current) \in Int
           /\ ScaleUpLimit(spec, current) >= current + 1
           /\ ScaleDownLimit(spec, current) \in Int
           /\ ScaleDownLimit(spec, current) <= current - 1
<1>1. spec.ScaleUpLimitFactor \in Int /\ spec.ScaleDownLimitFactor \in Int
  BY DEF SpecType
<1>2. /\ FloorPercent(spec.ScaleUpLimitFactor, current) \in Int
      /\ FloorPercent(spec.ScaleDownLimitFactor, current) \in Int
  BY <1>1, FloorPercentType
<1>. QED  BY <1>2 DEF ScaleUpLimit, ScaleDownLimit, Larger

\* convertDesiredReplicasWithRules returns an integer for whatever it is given.
LEMMA ConvertType ==
    ASSUME NEW spec \in SpecType, NEW current \in Int, NEW desired \in Int
    PROVE  ConvertDesiredReplicas(spec, current, desired).replicas \in Int
<1>1. spec.MinReplicas \in Int /\ spec.MaxReplicas \in Int
  BY DEF SpecType
<1>. QED
  BY <1>1, LimitsLeaveAStep
  DEF ConvertDesiredReplicas, MinimumAllowed, MaximumAllowed, Larger, Smaller

\* For a valid spec and a count within its range, the normalised count is within
\* the range too: "make sure the desiredReplicas is between the allowed boundaries".
THEOREM NormalisedWithinRange ==
    ASSUME NEW spec \in SpecType, ValidRange(spec),
           NEW current \in spec.MinReplicas..spec.MaxReplicas, NEW desired \in Int
    PROVE  ConvertDesiredReplicas(spec, current, desired).replicas
             \in spec.MinReplicas..spec.MaxReplicas
<1>1. /\ spec.MinReplicas \in Nat /\ spec.MaxReplicas \in Nat
      /\ spec.MinReplicas # 0 /\ spec.MinReplicas <= spec.MaxReplicas
      /\ current \in Int
  BY DEF SpecType, ValidRange
<1>. DEFINE up == ScaleUpLimit(spec, current)
            down == ScaleDownLimit(spec, current)
<1>2. up \in Int /\ up >= current + 1 /\ down \in Int /\ down <= current - 1
  BY <1>1, LimitsLeaveAStep
<1>. HIDE DEF up, down
<1>3. MinimumAllowed(spec, current, desired) \in spec.MinReplicas..spec.MaxReplicas
  BY <1>1, <1>2 DEF MinimumAllowed, Larger, down
<1>4. MaximumAllowed(spec, current, desired) \in spec.MinReplicas..spec.MaxReplicas
  BY <1>1, <1>2 DEF MaximumAllowed, Smaller, up
<1>. QED  BY <1>1, <1>3, <1>4 DEF ConvertDesiredReplicas

\* One normalised step stays within both rate limits.
THEOREM NormalisedWithinLimits ==
    ASSUME NEW spec \in SpecType, ValidRange(spec),
           NEW current \in spec.MinReplicas..spec.MaxReplicas, NEW desired \in Int
    PROVE  /\ ConvertDesiredReplicas(spec, current, desired).replicas
                >= ScaleDownLimit(spec, current)
           /\ ConvertDesiredReplicas(spec, current, desired).replicas
                <= ScaleUpLimit(spec, current)
<1>1. /\ spec.MinReplicas \in Nat /\ spec.MaxReplicas \in Nat
      /\ spec.MinReplicas # 0 /\ spec.MinReplicas <= spec.MaxReplicas
      /\ current \in Int
  BY DEF SpecType, ValidRange
<1>. DEFINE up == ScaleUpLimit(spec, current)
            down == ScaleDownLimit(spec, current)
<1>2. up \in Int /\ up >= current + 1 /\ down \in Int /\ down <= current - 1
  BY <1>1, LimitsLeaveAStep
<1>. HIDE DEF up, down
<1>3. CASE desired < down
  BY <1>1, <1>2, <1>3
  DEF ConvertDesiredReplicas, MinimumAllowed, MaximumAllowed, Larger, Smaller, up, down
<1>4. CASE desired >= down
  BY <1>1, <1>2, <1>4
  DEF ConvertDesiredReplicas, MinimumAllowed, MaximumAllowed, Larger, Smaller, up, down
<1>. QED  BY <1>2, <1>3, <1>4

\* A proposal above (below) the current count moves the count up (down) unless it
\* is at the end of the range, and never past the proposal: ramps do not stall,
\* overshoot or turn back.
THEOREM NormalisedMakesProgress ==
    ASSUME NEW spec \in SpecType, ValidRange(spec),
           NEW current \in spec.MinReplicas..spec.MaxReplicas, NEW desired \in Int
    PROVE  LET result == ConvertDesiredReplicas(spec, current, desired).replicas IN
           /\ desired > current /\ current < spec.MaxReplicas =>
                 result > current /\ result <= desired
           /\ desired < current /\ current > spec.MinReplicas =>
                 result < current /\ result >= desired
           /\ desired = current => result = current
<1>1. /\ spec.MinReplicas \in Nat /\ spec.MaxReplicas \in Nat
      /\ spec.MinReplicas # 0 /\ spec.MinReplicas <= spec.MaxReplicas
      /\ current \in Int
  BY DEF SpecType, ValidRange
<1>. DEFINE up == ScaleUpLimit(spec, current)
            down == ScaleDownLimit(spec, current)
<1>2. up \in Int /\ up >= current + 1 /\ down \in Int /\ down <= current - 1
  BY <1>1, LimitsLeaveAStep
<1>. HIDE DEF up, down
<1>3. CASE desired > current
  BY <1>1, <1>2, <1>3
  DEF ConvertDesiredReplicas, MinimumAllowed, MaximumAllowed, Larger, Smaller, up, down
<1>4. CASE desired < current
  BY <1>1, <1>2, <1>4
  DEF ConvertDesiredReplicas, MinimumAllowed, MaximumAllowed, Larger, Smaller, up, down
<1>5. CASE desired = current
  BY <1>1, <1>2, <1>5
  DEF ConvertDesiredReplicas, MinimumAllowed, MaximumAllowed, Larger, Smaller, up, down
<1>. QED  BY <1>1, <1>3, <1>4, <1>5

\* The cases of the switch that ignore metrics plan a count in the range.
LEMMA FixedDecisionSound ==
    ASSUME NEW spec \in SpecType, ValidRange(spec), NEW specReplicas \in Int,
           NEW current \in Int, NEW status,
           DecisionCase(spec, specReplicas, current) # "metrics",
           FixedDecision(spec, specReplicas, current, status).rescale
    PROVE  /\ specReplicas # 0
           /\ FixedDecision(spec, specReplicas, current, status).desired
                \in spec.MinReplicas..spec.MaxReplicas
           /\ FixedDecision(spec, specReplicas, current, status).case # "metrics"
<1>1. /\ spec.MinReplicas \in Nat /\ spec.MaxReplicas \in Nat
      /\ spec.MinReplicas # 0 /\ spec.MinReplicas <= spec.MaxReplicas
  BY DEF SpecType, ValidRange
<1>. DEFINE case == DecisionCase(spec, specReplicas, current)
            desired == CASE case = "disabled" -> 0
                         [] case = "aboveMax" -> spec.MaxReplicas
                         [] case = "belowMin" -> spec.MinReplicas
                         [] case = "zero"     -> 1
<1>2. /\ FixedDecision(spec, specReplicas, current, status).rescale = (case # "disabled")
      /\ FixedDecision(spec, specReplicas, current, status).desired = desired
      /\ FixedDecision(spec, specReplicas, current, status).case = case
  BY DEF FixedDecision
<1>3. case # "disabled"
  BY <1>2
<1>4. case \in {"aboveMax", "belowMin"} /\ specReplicas # 0
  BY <1>1, <1>3 DEF DecisionCase
<1>5. case = "aboveMax" => desired = spec.MaxReplicas
  <2>. HIDE DEF case
  <2>. QED  OBVIOUS
<1>6. case = "belowMin" => desired = spec.MinReplicas
  <2>. HIDE DEF case
  <2>. QED  OBVIOUS
<1>. HIDE DEF case, desired
<1>7. desired \in spec.MinReplicas..spec.MaxReplicas
  BY <1>1, <1>4, <1>5, <1>6
<1>. QED  BY <1>2, <1>4, <1>7
=============================================================================
