----------------------------- MODULE ClosedLoop -----------------------------
(***************************************************************************)
(* The control loop as a whole: the passes of the SHPA controller, the     *)
(* replica counts its external metrics propose, and the target that        *)
(* follows the wanted count and gets its replicas ready, under a load that *)
(* stays as it is.                                                         *)
(*                                                                         *)
(* A pass is one step here: SHPARefinement shows that what happens between *)
(* its calls makes no difference to the wanted count.  The age of its      *)
(* metrics and a LastScaleTime that gets lost do, and are in this model.   *)
(***************************************************************************)
EXTENDS FiniteSets, ReplicaRules, WatermarkRules

CONSTANTS
    Specs,      \* the specs, of which one is used
    Loads,      \* the loads: what there is to know of each metric, a rule and a sum
    MaxCount,   \* bound: replicas there may be at first
    MetricLag,  \* how old a metrics timestamp may be
    MaxAge      \* bound: the age of a rescale is counted up to here

ASSUME LoopSpecsAssumption ==
    \A s \in Specs : s \in SpecType /\ ValidRange(s) /\ s.MaxReplicas <= MaxInt32 /\ ~s.DryRun
ASSUME LoadsAssumption ==
    \A load \in Loads : /\ load # {} /\ IsFiniteSet(load)
                        /\ \A m \in load : m.rule \in RuleType /\ m.sum \in Int
\* No window is longer than what can be told from the age.
ASSUME LoopDelaysAssumption ==
    /\ MaxCount \in Nat /\ MetricLag \in Nat /\ MaxAge \in Nat
    /\ \A s \in Specs : /\ s.UpscaleForbiddenWindow + MetricLag <= MaxAge
                        /\ s.DownscaleForbiddenWindow + MetricLag <= MaxAge

VARIABLES
    spec,    \* the SHPA's spec
    load,    \* the load, metric by metric
    target,  \* the target's wanted (spec) and observed (status) counts
    ready,   \* how many of the observed replicas are ready
    age      \* the time since LastScaleTime, NoTime if there is none

vars == <<spec, load, target, ready, age>>

-----------------------------------------------------------------------------
(* A pass *)

\* A mistake to detect: the metric that asks for the least decides.
LeastDemanding ==
    LET counts == {ReplicaCount(m.rule, target.status, ready, m.sum) : m \in load}
    IN  CHOOSE n \in counts : \A other \in counts : n <= other

\* computeReplicasForMetrics: the most demanding metric.
Proposal ==
    LET counts == {ReplicaCount(m.rule, target.status, ready, m.sum) : m \in load}
    IN  CHOOSE n \in counts : \A other \in counts : other <= n

\* What a decision depends on in the status, with the present as time zero.
Status ==
    [lastScale |-> IF age = NoTime THEN NoTime ELSE -age,
     able |-> "", active |-> "", limited |-> ""]

\* The scale update; the pass may fail to store LastScaleTime after it.
Apply(decision) ==
    /\ decision.rescale
    /\ target' = [target EXCEPT !.spec = decision.desired]
    /\ age' \in {0, age}
    /\ UNCHANGED <<spec, load, ready>>

\* Without a ready pod there is an error in place of a proposal.
Pass ==
    IF DecisionCase(spec, target.spec, target.status) # "metrics"
    THEN Apply(FixedDecision(spec, target.spec, target.status, Status))
    ELSE /\ ready > 0
         /\ \E lag \in 0..MetricLag :
               Apply(MetricDecision(spec, target.status, Proposal, -lag, 0, Status))

-----------------------------------------------------------------------------
(* The target *)

\* A replica more or less is observed; the ones that are not ready go first.
Progress ==
    /\ target.status # target.spec
    /\ target' = [target EXCEPT !.status = IF @ < target.spec THEN @ + 1 ELSE @ - 1]
    /\ ready' = Smaller(ready, target'.status)
    /\ UNCHANGED <<spec, load, age>>

GetsReady ==
    /\ ready < target.status
    /\ ready' = ready + 1
    /\ UNCHANGED <<spec, load, target, age>>

Tick ==
    /\ age # NoTime /\ age < MaxAge
    /\ age' = age + 1
    /\ UNCHANGED <<spec, load, target, ready>>

-----------------------------------------------------------------------------
(* The specification *)

\* Any state that edits, failures, disabled targets and unready pods may have left.
Init ==
    /\ spec \in Specs /\ load \in Loads
    /\ target \in [spec : 0..MaxCount, status : 0..MaxCount]
    /\ ready \in 0..target.status
    /\ age \in 0..MaxAge \union {NoTime}

Next == Pass \/ Progress \/ GetsReady \/ Tick

\* The controller's passes go on (LoopStaysAlive of SHPAController), the target's own
\* controller works, pods get ready and time passes.
Fairness == WF_vars(Pass) /\ WF_vars(Progress) /\ WF_vars(GetsReady) /\ WF_vars(Tick)

FairSpec == Init /\ [][Next]_vars /\ Fairness

-----------------------------------------------------------------------------
(* Properties *)

\* No replica count, wanted or observed, is above the limit and the one the loop began with.
Top == Larger(MaxCount, spec.MaxReplicas)

\* Every variable has its type: no pass, window or proposal takes a count out of bounds.
TypeOK ==
    /\ spec \in Specs /\ load \in Loads
    /\ target \in [spec : 0..Top, status : 0..Top]
    /\ ready \in 0..target.status
    /\ age \in 0..MaxAge \union {NoTime}

\* Under a load that does not change the wanted count stops changing: no metric, limit or
\* window of the controller makes it go up and down for ever, nor stop short of where the
\* target can stay.  Marks closer to each other than a factor of two are left out of the
\* loads: there may be no count between them, and the code flaps for ever.
Settles == <>[][UNCHANGED target]_vars

SomeAbove == \E m \in load : Above(m.rule, ready, m.sum)
AllBelow  == \A m \in load : Below(m.rule, ready, m.sum)

\* The load per ready replica ends up between the watermarks, unless the range of the spec
\* or a user who disabled the target keeps it out.  It takes marks that are a factor of two
\* apart, as for Settles.
EndsInBand ==
    <>[](\/ target.spec = 0
         \/ /\ target.spec \in spec.MinReplicas..spec.MaxReplicas
            /\ SomeAbove => target.spec = spec.MaxReplicas
            /\ AllBelow => target.spec = spec.MinReplicas)

\* All replicas that are wanted are there and ready, as many as the range and the
\* watermarks ask for.
AtRest ==
    /\ target.spec = target.status /\ target.status = ready
    /\ target.spec \in spec.MinReplicas..spec.MaxReplicas
    /\ ~SomeAbove /\ ~AllBelow

\* A target at rest is left there: though every proposal counts as a rescale when no
\* LastScaleTime is recorded, and though a metric below its mark asks for less.
RestIsLeftAlone == [][AtRest => AtRest']_vars
=============================================================================
