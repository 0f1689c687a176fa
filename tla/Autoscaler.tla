----------------------------- MODULE Autoscaler -----------------------------
(***************************************************************************)
(* What the SHPA controller promises about a target: every change it makes *)
(* to the wanted count is one atomic step, in which it reads the target,   *)
(* decides and writes, with a version of the SHPA it may still hold.       *)
(*                                                                         *)
(* There is no pass here, no cache, no queue and no failing call: those    *)
(* are SHPAController's, which implements this specification.  What is     *)
(* left of them is the set of versions that the controller has been shown  *)
(* and has not dropped yet; it never contains a version that the API       *)
(* server did not store.                                                   *)
(***************************************************************************)
EXTENDS Integers, ReplicaRules

CONSTANTS
    Specs,      \* the specs users give the SHPA
    Sizes,      \* the replica counts people give the target
    Proposals   \* the counts the metrics may propose

VARIABLES
    now,        \* the clock
    target,     \* the target's wanted (spec) and observed (status) counts
    latest,     \* the stored SHPA: its spec and LastScaleTime
    known       \* the versions that the controller may act on

vars == <<now, target, latest, known>>

\* A version wants n replicas of the target: the end of the range it is outside of, or
\* else what a proposal becomes within the rules.  It wants nothing of a disabled one.
Wants(v, t, time, n) ==
    LET case == DecisionCase(v.spec, t.spec, t.status) IN
    \/ case = "aboveMax" /\ n = v.spec.MaxReplicas
    \/ case = "belowMin" /\ n = v.spec.MinReplicas
    \/ case = "zero" /\ n = 1
    \/ /\ case = "metrics"
       /\ \E p \in Proposals :
             n = ConvertDesiredReplicas(v.spec, t.status, Larger(0, p)).replicas
       /\ ShouldScale(v.spec, v.lastScale, t.status, n, time)

Rescale ==
    /\ target'.spec # target.spec
    /\ \E v \in known : ~v.spec.DryRun /\ Wants(v, target, now, target'.spec)
    /\ target' = [target EXCEPT !.spec = target'.spec]
    /\ UNCHANGED <<now, latest, known>>

\* Versions are dropped, and the controller is shown the stored one.
ShowLatest == known' \subseteq known \union {latest'} /\ latest' \in known'

\* A rescale is recorded over the stored spec, and later than any other.
Record ==
    /\ latest' = [latest EXCEPT !.lastScale = now]
    /\ latest.lastScale = NoTime \/ latest.lastScale < now
    /\ ShowLatest
    /\ UNCHANGED <<now, target>>

Drop ==
    /\ ShowLatest
    /\ UNCHANGED <<now, target, latest>>

\* People edit the SHPA and scale the target; replicas come and go.
Edit ==
    /\ \E spec \in Specs : latest' = [latest EXCEPT !.spec = spec]
    /\ ShowLatest
    /\ UNCHANGED <<now, target>>

ScaleByHand ==
    /\ \E n \in Sizes \ {target.spec} : target' = [target EXCEPT !.spec = n]
    /\ UNCHANGED <<now, latest, known>>

Progress ==
    /\ target.status # target.spec
    /\ target' = [target EXCEPT !.status = IF @ < target.spec THEN @ + 1 ELSE @ - 1]
    /\ UNCHANGED <<now, latest, known>>

Tick ==
    /\ now' = now + 1
    /\ UNCHANGED <<target, latest, known>>

Init ==
    /\ now = 0
    /\ \E n \in Sizes : target = [spec |-> n, status |-> n]
    /\ \E spec \in Specs : latest = [spec |-> spec, lastScale |-> NoTime]
    /\ known = {latest}

Next == Rescale \/ Record \/ Drop \/ Edit \/ ScaleByHand \/ Progress \/ Tick

Spec == Init /\ [][Next]_vars
=============================================================================
