----------------------- MODULE MCWatermarkCalculator -----------------------
(* Small instances of WatermarkCalculator for TLC. *)
EXTENDS WatermarkCalculator, TLC

CONSTANTS a, b, x

\* The target's own pods may be exchanged.
MCSymmetry == Permutations({a, b})

MCRule(algorithm, low, high) ==
    [algorithm |-> algorithm, tolerance |-> 10, low |-> low, high |-> high]

MCSpecs ==
    {<<[rule |-> MCRule("average", 100, 200), kind |-> "External"],
       [rule |-> MCRule("average", 100, 100), kind |-> "cpu"]>>,
     <<[rule |-> MCRule("absolute", 100, 200), kind |-> "memory"],
       [rule |-> MCRule("absolute", 0, 100), kind |-> "External"]>>}
MCCPU == {<<[rule |-> MCRule("average", 100, 200), kind |-> "cpu"]>>}

\* As with seven ready pods and 900 milli-units against a mark of 100.
MCUp == {<<2, 600, 200>>}
MCShort == {}
MCSums == {-100, 90, 150, 600}
=============================================================================
