---------------------------- MODULE SHPADefaults ----------------------------
(***************************************************************************)
(* The defaulting and validity rules of a SHPA's spec                      *)
(* (src/api/v1/shpa_default.go).                                           *)
(*                                                                         *)
(* A spec is a record of what these rules read: the reference to the       *)
(* target, the replica range, the set of the other fields with a default   *)
(* that are still unset, and the metrics.  A metric tells its type, which  *)
(* of its parts are there and its two watermarks.                          *)
(*                                                                         *)
(* All that the rules ask of the reference is whether it is populated; a   *)
(* populated one may still lead nowhere, which only a pass finds out: its  *)
(* API version does not parse, its kind is unknown, its target is missing. *)
(***************************************************************************)
EXTENDS Integers, Sequences
LOCAL INSTANCE FiniteSetsExt

DefaultedFields ==
    {"Algorithm", "Tolerance", "ScaleUpLimitFactor", "ScaleDownLimitFactor",
     "DownscaleForbiddenWindowSeconds", "UpscaleForbiddenWindowSeconds"}

MetricType == [type : STRING, source : BOOLEAN, marks : BOOLEAN, selector : BOOLEAN,
               low : Int, high : Int]

References == {"unset", "dangling", "resolved"}

SpecType == [target : References, MinReplicas : Int, MaxReplicas : Int,
             unset : SUBSET DefaultedFields, metrics : Seq(MetricType)]

DefaultMinReplicas == 1

IsDefaultSHPA(spec) == spec.MinReplicas # 0 /\ spec.unset = {}

DefaultSHPA(spec) ==
    [spec EXCEPT !.unset = {}, !.MinReplicas = IF @ = 0 THEN DefaultMinReplicas ELSE @]

-----------------------------------------------------------------------------
(* An error is a tuple, the empty one is Go's nil. *)

NoError == <<>>

Errors ==
    {NoError, <<"target">>, <<"range">>} \union
    ({"incorrect type", "nil source", "no watermarks", "no selector", "crossed watermarks"}
        \X STRING)

\* One metric's error in checkSPAMetricsValidity.
MetricError(m) ==
    IF m.type \notin {"External", "Resource"} THEN <<"incorrect type", m.type>>
    ELSE IF ~m.source THEN <<"nil source", m.type>>
    ELSE IF ~m.marks THEN <<"no watermarks", m.type>>
    ELSE IF ~m.selector THEN <<"no selector", m.type>>
    ELSE IF m.high < m.low THEN <<"crossed watermarks", m.type>>
    ELSE NoError

\* checkSPAMetricsValidity returns the error of the first bad metric.
MetricsError(metrics) ==
    LET bad == {i \in DOMAIN metrics : MetricError(metrics[i]) # NoError} IN
    IF bad = {} THEN NoError ELSE MetricError(metrics[Min(bad)])

CheckSHPAValidity(spec) ==
    IF spec.target = "unset" THEN <<"target">>
    ELSE IF spec.MinReplicas = 0 \/ spec.MaxReplicas < spec.MinReplicas THEN <<"range">>
    ELSE MetricsError(spec.metrics)

Valid(spec) == CheckSHPAValidity(spec) = NoError
=============================================================================
