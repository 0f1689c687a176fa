---------------------------- MODULE MCClosedLoop ----------------------------
(* Small instances of ClosedLoop for TLC. *)
EXTENDS ClosedLoop

MCSpec(min, max, up, down) ==
    [MinReplicas |-> min, MaxReplicas |-> max,
     ScaleUpLimitFactor |-> up, ScaleDownLimitFactor |-> down,
     UpscaleForbiddenWindow |-> 1, DownscaleForbiddenWindow |-> 2,
     DryRun |-> FALSE]
MCSpecs == {MCSpec(1, 4, 50, 20), MCSpec(2, 5, 100, 100), MCSpec(3, 3, 50, 50),
            MCSpec(5, 12, 100, 50)}

MCMetric(algorithm, low, high, tolerance, sum) ==
    [rule |-> [algorithm |-> algorithm, tolerance |-> tolerance, low |-> low, high |-> high],
     sum  |-> sum]
MCAverage(sum) == MCMetric("average", 100, 200, 10, sum)

\* One metric from far below the marks to far above, the other algorithm, and two metrics
\* that disagree.  Every high mark is twice the low one: the code flaps between closer ones.
MCLoads ==
    {{MCAverage(sum)} : sum \in {0, 90, 230, 430, 660, 1800}}
      \union {{MCMetric("absolute", 100, 200, 0, sum)} : sum \in {50, 150, 300}}
      \union {{MCAverage(430), MCMetric("average", 300, 600, 0, 500)},
              {MCAverage(90), MCMetric("absolute", 100, 200, 0, 150)}}

\* float64 has 7 * (1800 / 7) / 200 a little above 9.
MCUp == {<<7, 1800, 200>>}
MCNone == {}
=============================================================================
