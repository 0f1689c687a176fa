-------------------------- MODULE ClosedLoopProofs --------------------------
(***************************************************************************)
(* The control loop leaves a target at rest alone, for every spec, every   *)
(* set of metrics with every watermarks, and every age of the last rescale *)
(* and of the metrics.                                                     *)
(***************************************************************************)
EXTENDS ClosedLoop, ReplicaRulesProofs, WatermarkRulesProofs, NumberLemmas

-----------------------------------------------------------------------------
(* Fixpoints *)

\* A load below its low mark never asks for more than the ready pods, also when its count
\* is too large for an int32.
LEMMA BelowAsksForLess ==
    ASSUME NEW rule \in RuleType, NEW n \in 1..MaxInt32, NEW sum \in Int,
           Below(rule, n, sum)
    PROVE  CountBelow(rule, n, sum) \in Int /\ CountBelow(rule, n, sum) <= n
<1>1. n \in Nat \ {0} /\ rule.low \in Nat
  BY MaxInt32Assumption, RuleNumbers
<1>2. CASE rule.low = 0
  BY <1>1, <1>2 DEF CountBelow, Undefined
<1>3. CASE rule.low > 0
  <2>1. Product(rule, n, sum) < n * rule.low
    BY <1>1, OutsideTheMarks
  <2>. QED  BY <1>3, <2>1, FloorFits
<1>. QED  BY <1>1, <1>2, <1>3

\* With all replicas ready, no metric above its mark and not all below theirs, the count
\* there is is the one the metrics ask for.
LEMMA ProposalAtRest ==
    ASSUME load \in Loads, NEW n \in 1..MaxInt32, target.status = n, ready = n,
           ~SomeAbove, ~AllBelow
    PROVE  Proposal = n
<1>. DEFINE counts == {ReplicaCount(m.rule, target.status, ready, m.sum) : m \in load}
<1>1. n \in Int
  BY MaxInt32Assumption
<1>2. ASSUME NEW m \in load
      PROVE  LET count == ReplicaCount(m.rule, target.status, ready, m.sum) IN
             /\ count \in Int /\ count <= n
             /\ ~Below(m.rule, ready, m.sum) => count = n
  <2>1. m.rule \in RuleType /\ m.sum \in Int /\ ~Above(m.rule, n, m.sum)
    BY <1>2, LoadsAssumption DEF SomeAbove
  <2>2. CASE Below(m.rule, n, m.sum)
    <3>1. ReplicaCount(m.rule, n, n, m.sum) = CountBelow(m.rule, n, m.sum)
      BY <2>1, <2>2 DEF ReplicaCount
    <3>. QED  BY <2>1, <2>2, <3>1, BelowAsksForLess
  <2>3. CASE ~Below(m.rule, n, m.sum)
    <3>1. ReplicaCount(m.rule, n, n, m.sum) = n
      BY <2>1, <2>3 DEF ReplicaCount
    <3>. QED  BY <1>1, <2>3, <3>1
  <2>. QED  BY <2>2, <2>3
<1>3. n \in counts
  <2>1. PICK m \in load : ~Below(m.rule, ready, m.sum)
    BY DEF AllBelow
  <2>2. ReplicaCount(m.rule, target.status, ready, m.sum) = n
    BY <1>2, <2>1
  <2>. QED  BY <2>2
<1>4. \A c \in counts : c \in Int /\ c <= n
  BY <1>2
<1>5. Proposal = CHOOSE c \in counts : \A other \in counts : other <= c
  BY DEF Proposal
<1>. HIDE DEF counts
<1>6. Proposal \in counts /\ \A other \in counts : other <= Proposal
  BY <1>3, <1>4, <1>5
<1>. QED  BY <1>1, <1>3, <1>4, <1>6

\* A pass over a target at rest wants the count there is.
LEMMA DecisionAtRest ==
    ASSUME spec \in Specs, load \in Loads, AtRest, NEW ts, NEW present
    PROVE  /\ DecisionCase(spec, target.spec, target.status) = "metrics"
           /\ MetricDecision(spec, target.status, Proposal, ts, present, Status).desired
                = target.spec
<1>1. /\ spec \in SpecType /\ ValidRange(spec) /\ spec.MaxReplicas <= MaxInt32
      /\ spec.MinReplicas \in Nat /\ spec.MaxReplicas \in Nat /\ spec.MinReplicas > 0
  BY LoopSpecsAssumption DEF SpecType, ValidRange
<1>2. /\ target.spec \in spec.MinReplicas..spec.MaxReplicas
      /\ target.status = target.spec /\ ready = target.spec
  BY DEF AtRest
<1>3. target.spec \in 1..MaxInt32 /\ target.spec \in Int
  BY <1>1, <1>2, MaxInt32Assumption
<1>4. Proposal = target.spec
  BY <1>2, <1>3, ProposalAtRest DEF AtRest
<1>5. Larger(0, Proposal) = target.spec
  BY <1>3, <1>4 DEF Larger
<1>6. ConvertDesiredReplicas(spec, target.spec, target.spec).replicas = target.spec
  BY <1>1, <1>2, <1>3, NormalisedMakesProgress
<1>7. DecisionCase(spec, target.spec, target.status) = "metrics"
  BY <1>1, <1>2, <1>3 DEF DecisionCase
<1>8. MetricDecision(spec, target.status, Proposal, ts, present, Status).desired
        = ConvertDesiredReplicas(spec, target.status, Larger(0, Proposal)).replicas
  BY DEF MetricDecision
<1>. QED  BY <1>2, <1>5, <1>6, <1>7, <1>8

-----------------------------------------------------------------------------
(* Rest *)

\* The spec and the load are the initial ones, and the target is a scale.
LoopInv ==
    /\ spec \in Specs /\ load \in Loads
    /\ target = [spec |-> target.spec, status |-> target.status]

\* A target at rest stays at rest: neither a metric that asks for less than another one,
\* nor a missing LastScaleTime, for which every proposal counts as a rescale, nor the age
\* of the metrics makes the controller change the wanted count.
THEOREM RestIsStable == FairSpec => RestIsLeftAlone
<1>1. Init => LoopInv
  BY DEF Init, LoopInv
<1>2. LoopInv /\ [Next]_vars => LoopInv'
  <2>. SUFFICES ASSUME LoopInv, [Next]_vars PROVE LoopInv'
    OBVIOUS
  <2>1. ASSUME NEW decision, Apply(decision) PROVE LoopInv'
    BY <2>1 DEF Apply, LoopInv
  <2>2. CASE Pass
    BY <2>1, <2>2 DEF Pass
  <2>3. CASE Progress \/ GetsReady \/ Tick \/ UNCHANGED vars
    BY <2>3 DEF Progress, GetsReady, Tick, vars, LoopInv
  <2>. QED  BY <2>2, <2>3 DEF Next
<1>3. LoopInv /\ [Next]_vars => [AtRest => AtRest']_vars
  <2>. SUFFICES ASSUME LoopInv, Next, AtRest PROVE AtRest'
    BY DEF vars, AtRest, SomeAbove, AllBelow
  <2>1. CASE Pass
    <3>1. PICK lag \in 0..MetricLag :
             Apply(MetricDecision(spec, target.status, Proposal, -lag, 0, Status))
      BY <2>1, DecisionAtRest DEF Pass, LoopInv
    <3>2. MetricDecision(spec, target.status, Proposal, -lag, 0, Status).desired = target.spec
      BY DecisionAtRest DEF LoopInv
    <3>3. target' = target /\ UNCHANGED <<spec, load, ready>>
      BY <3>1, <3>2 DEF Apply, LoopInv
    <3>. QED  BY <3>3 DEF AtRest, SomeAbove, AllBelow
  <2>2. CASE Tick
    BY <2>2 DEF Tick, AtRest, SomeAbove, AllBelow
  <2>3. ~Progress
    BY DEF Progress, AtRest
  <2>4. ~GetsReady
    <3>1. target.spec \in Int
      BY LoopSpecsAssumption DEF AtRest, LoopInv, SpecType
    <3>. QED  BY <3>1 DEF GetsReady, AtRest
  <2>. QED  BY <2>1, <2>2, <2>3, <2>4 DEF Next
<1>. QED  BY <1>1, <1>2, <1>3, PTL DEF FairSpec, RestIsLeftAlone

-----------------------------------------------------------------------------
(* Types *)

\* There is a most demanding metric: a load has finitely many, at least one.
LEMMA ProposalType ==
    ASSUME load \in Loads, target.status \in Int, ready \in Nat
    PROVE  Proposal \in Int
<1>. DEFINE f == [m \in load |-> ReplicaCount(m.rule, target.status, ready, m.sum)]
            counts == {ReplicaCount(m.rule, target.status, ready, m.sum) : m \in load}
<1>1. \A m \in load : f[m] \in Int
  BY LoadsAssumption, ReplicaCountType
<1>2. counts \subseteq Int /\ counts # {}
  BY <1>1, LoadsAssumption
<1>3. IsFiniteSet(counts)
  <2>1. f \in Surjection(load, counts) /\ IsFiniteSet(load)
    BY LoadsAssumption DEF Surjection
  <2>. HIDE DEF f, counts
  <2>. QED  BY <2>1, FS_Surjection, Zenon
<1>4. Proposal = CHOOSE n \in counts : \A other \in counts : other <= n
  BY DEF Proposal
<1>. HIDE DEF counts
<1>5. PICK n \in counts : \A other \in counts : other <= n
  BY <1>2, <1>3, GreatestOfFinite
<1>. QED  BY <1>2, <1>4, <1>5

\* The bounds of the counts are natural numbers, and Top bounds both.
LEMMA TopBounds ==
    ASSUME spec \in Specs
    PROVE  /\ Top \in Nat /\ MaxCount \in 0..Top /\ spec.MaxReplicas \in 0..Top
           /\ spec.MinReplicas \in Nat
<1>1. MaxCount \in Nat /\ spec.MinReplicas \in Nat /\ spec.MaxReplicas \in Nat
  BY LoopSpecsAssumption, LoopDelaysAssumption DEF SpecType
<1>. QED  BY <1>1 DEF Top, Larger

\* A count that the controller wants is one of the spec's range.
LEMMA PassType ==
    ASSUME TypeOK, Pass
    PROVE  /\ target'.spec \in spec.MinReplicas..spec.MaxReplicas
           /\ target'.status = target.status
<1>1. /\ spec \in SpecType /\ ValidRange(spec)
      /\ target \in [spec : 0..Top, status : 0..Top] /\ load \in Loads
      /\ target.spec \in Nat /\ target.status \in Nat /\ ready \in Nat
  BY LoopSpecsAssumption, TopBounds DEF TypeOK
<1>2. spec.MinReplicas \in Nat /\ spec.MaxReplicas \in Nat
  BY <1>1 DEF SpecType
<1>3. ASSUME NEW decision, Apply(decision),
             decision.desired \in spec.MinReplicas..spec.MaxReplicas
      PROVE  /\ target'.spec \in spec.MinReplicas..spec.MaxReplicas
             /\ target'.status = target.status
  BY <1>1, <1>2, <1>3 DEF Apply
<1>4. CASE DecisionCase(spec, target.spec, target.status) # "metrics"
  <2>1. PICK decision :
           decision = FixedDecision(spec, target.spec, target.status, Status)
    OBVIOUS
  <2>2. Apply(decision) /\ decision.rescale
    BY <1>4, <2>1 DEF Pass, Apply
  <2>. QED  BY <1>1, <1>3, <1>4, <2>1, <2>2, FixedDecisionSound
<1>5. CASE DecisionCase(spec, target.spec, target.status) = "metrics"
  <2>1. PICK lag \in 0..MetricLag :
           Apply(MetricDecision(spec, target.status, Proposal, -lag, 0, Status))
    BY <1>5 DEF Pass
  <2>2. PICK decision :
           decision = MetricDecision(spec, target.status, Proposal, -lag, 0, Status)
    OBVIOUS
  <2>3. Larger(0, Proposal) \in Int
    BY <1>1, ProposalType DEF Larger
  <2>4. target.status \in spec.MinReplicas..spec.MaxReplicas
    BY <1>1, <1>2, <1>5 DEF DecisionCase
  <2>5. decision.desired
          = ConvertDesiredReplicas(spec, target.status, Larger(0, Proposal)).replicas
    BY <2>2 DEF MetricDecision
  <2>6. decision.desired \in spec.MinReplicas..spec.MaxReplicas
    BY <1>1, <2>3, <2>4, <2>5, NormalisedWithinRange
  <2>. QED  BY <1>3, <2>1, <2>2, <2>6
<1>. QED  BY <1>4, <1>5

\* Every variable keeps its type: no pass takes the wanted count above the limit or the
\* count that the loop began with, and the ready replicas are never more than those observed.
THEOREM LoopTypeCorrect == FairSpec => []TypeOK
<1>1. Init => TypeOK
  <2>. SUFFICES ASSUME Init PROVE TypeOK
    OBVIOUS
  <2>1. 0..MaxCount \subseteq 0..Top
    BY TopBounds DEF Init
  <2>. QED  BY <2>1 DEF Init, TypeOK
<1>2. TypeOK /\ [Next]_vars => TypeOK'
  <2>. SUFFICES ASSUME TypeOK, [Next]_vars PROVE TypeOK'
    OBVIOUS
  <2>0. /\ target \in [spec : 0..Top, status : 0..Top]
        /\ target.status \in 0..Top /\ target.spec \in 0..Top
        /\ ready \in Nat /\ ready <= target.status /\ MaxAge \in Nat /\ Top \in Nat
    BY TopBounds, LoopDelaysAssumption DEF TypeOK
  <2>1. CASE Pass
    <3>1. /\ UNCHANGED <<spec, load, ready>> /\ age' \in {0, age}
          /\ \E n : target' = [target EXCEPT !.spec = n]
      BY <2>1 DEF Pass, Apply
    <3>2. target'.spec \in 0..Top /\ target'.status = target.status
      BY <2>1, PassType, TopBounds DEF TypeOK
    <3>3. target' \in [spec : 0..Top, status : 0..Top]
      BY <2>0, <3>1, <3>2
    <3>4. Top' = Top
      BY <3>1 DEF Top
    <3>. QED  BY <2>0, <3>1, <3>2, <3>3, <3>4 DEF TypeOK
  <2>2. CASE Progress
    <3>1. /\ target' \in [spec : 0..Top, status : 0..Top] /\ target'.status \in Nat
          /\ ready' = Smaller(ready, target'.status)
      BY <2>0, <2>2 DEF Progress
    <3>2. Top' = Top
      BY <2>2 DEF Progress, Top
    <3>. QED  BY <2>0, <2>2, <3>1, <3>2 DEF Progress, Smaller, TypeOK
  <2>3. CASE GetsReady
    BY <2>0, <2>3 DEF GetsReady, TypeOK, Top
  <2>4. CASE Tick
    BY <2>0, <2>4 DEF Tick, TypeOK, Top
  <2>5. CASE UNCHANGED vars
    BY <2>5 DEF vars, TypeOK, Top
  <2>. QED  BY <2>1, <2>2, <2>3, <2>4, <2>5 DEF Next
<1>. QED  BY <1>1, <1>2, PTL DEF FairSpec
=============================================================================
