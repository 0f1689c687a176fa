--------------------------- MODULE WatermarkRules ---------------------------
(***************************************************************************)
(* The replica count a metric proposes                                     *)
(* (getReplicaCount in src/algorithm/watermark/waterwark_calculator.go).   *)
(*                                                                         *)
(* A rule is a record of what the function reads of the SHPA and of the    *)
(* metric: the algorithm, the tolerance in percent and the two watermarks. *)
(* Watermarks and loads are in milli-units; ready is the number of ready   *)
(* pods and sum the total load.  The usage the code compares with the      *)
(* watermarks is sum/ready under the "average" algorithm and sum otherwise; *)
(* the products below are that comparison without the division, which is   *)
(* why they also hold for zero ready pods, where float64 yields an         *)
(* infinity or a NaN.                                                      *)
(***************************************************************************)
EXTENDS Integers

CONSTANTS
    MaxInt32,     \* the largest int32
    RoundsUp,     \* the <<ready, sum, mark>> for which float64 computes a
                  \* little more than the whole number sum/mark,
    RoundsShort   \* and those for which it computes a little less

ASSUME MaxInt32Assumption == MaxInt32 \in Nat \ {0}
ASSUME WholeAssumption ==
    \A t \in RoundsUp \union RoundsShort : t[3] > 0 /\ t[2] % t[3] = 0

\* int32(f) on amd64: what does not fit, infinities and NaN yield the smallest one.
MinInt32 == -MaxInt32 - 1
ToInt32(n) == IF n > MaxInt32 \/ n < MinInt32 THEN MinInt32 ELSE n

\* checkSPAMetricsValidity lets such watermarks through.  The tolerance is a whole number
\* of milli-units: then float64's thresholds are exact, or so close to it that only a load
\* right at one of them can be taken for the other side; that rounding is left out.
RuleType ==
    {r \in [algorithm : {"average", "absolute"}, tolerance : 0..100, low : Nat, high : Nat] :
        /\ r.low <= r.high
        /\ (r.tolerance * r.low) % 100 = 0 /\ (r.tolerance * r.high) % 100 = 0}

Averages(rule) == rule.algorithm = "average"

\* What the usage is divided by.
Divisor(rule, ready) == IF Averages(rule) THEN ready ELSE 1

Above(rule, ready, sum) ==
    100 * sum > Divisor(rule, ready) * rule.high * (100 + rule.tolerance)

Below(rule, ready, sum) ==
    100 * sum < Divisor(rule, ready) * rule.low * (100 - rule.tolerance)

\* ready * usage / mark is a quotient of integers: sum or ready * sum over mark.
Product(rule, ready, sum) == IF Averages(rule) THEN sum ELSE ready * sum

\* The load asks for a count that an int32 holds.
Fits(rule, ready, sum) ==
    rule.high > 0 /\ Product(rule, ready, sum) < MaxInt32 * rule.high

\* The quotient is no number, or infinite.
Undefined(rule, ready, mark) == mark = 0 \/ (Averages(rule) /\ ready = 0)

\* A mistake to detect: rounding down, so that the load still does not fit.
FlooredAbove(rule, ready, sum) ==
    IF Undefined(rule, ready, rule.high) THEN MinInt32
    ELSE ToInt32(Product(rule, ready, sum) \div rule.high)

CountAbove(rule, ready, sum) ==
    IF Undefined(rule, ready, rule.high) THEN MinInt32
    ELSE LET ceiling == -((-Product(rule, ready, sum)) \div rule.high) IN
         ToInt32(IF Averages(rule) /\ <<ready, sum, rule.high>> \in RoundsUp
                 THEN ceiling + 1 ELSE ceiling)

\* At least one replica stays.
CountBelow(rule, ready, sum) ==
    IF Undefined(rule, ready, rule.low) THEN 1
    ELSE LET floor == Product(rule, ready, sum) \div rule.low
             count == ToInt32(IF Averages(rule) /\ <<ready, sum, rule.low>> \in RoundsShort
                              THEN floor - 1 ELSE floor)
         IN  IF count > 1 THEN count ELSE 1

\* getReplicaCount; current is the observed count of the target.
ReplicaCount(rule, current, ready, sum) ==
    IF Above(rule, ready, sum) THEN CountAbove(rule, ready, sum)
    ELSE IF Below(rule, ready, sum) THEN CountBelow(rule, ready, sum)
    ELSE current
=============================================================================
