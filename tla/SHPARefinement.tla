--------------------------- MODULE SHPARefinement ---------------------------
(***************************************************************************)
(* The reconcile loop implements the abstract Autoscaler: what people,     *)
(* caches, timers and failing calls do between the steps of a pass cannot  *)
(* be told from passes that happen in one step.                            *)
(***************************************************************************)
EXTENDS SHPAController

\* What the controller's decisions depend on in a copy of the SHPA.
Version(copy) == [spec |-> copy.spec, lastScale |-> copy.status.lastScale]

\* The copies a pass may act on: stored, on the way to the cache, in it, or Reconcile's.
KnownVersions ==
    {Version(shpa), Version(cached)}
      \union {Version(watch[i]) : i \in 1..Len(watch)}
      \union (IF pc = "idle" THEN {} ELSE {Version(inst)})

A == INSTANCE Autoscaler WITH latest <- Version(shpa), known <- KnownVersions

\* Whatever happens between the read of the scale and its update, every change the
\* controller makes is one that a pass in a single step could have made at that moment
\* with a version of the SHPA that it had been shown; and rescales are recorded only
\* over the stored spec, in the order of time.
ImplementsAutoscaler == A!Spec

\* What a step of the pass needs for that: a plan that waits for its update is still
\* wanted for the scale it was made for, and the copy it was made with is Reconcile's.
WantedPlan ==
    pc = "scaleWrite" =>
       A!Wants(Version(inst), [spec |-> scale.spec, status |-> scale.status], now, plan.desired)
=============================================================================
