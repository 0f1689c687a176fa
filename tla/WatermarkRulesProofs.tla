------------------------ MODULE WatermarkRulesProofs ------------------------
(***************************************************************************)
(* What getReplicaCount proposes for every rule, every number of ready     *)
(* pods and every load, whatever quotients float64 gets wrong.             *)
(***************************************************************************)
EXTENDS WatermarkRules, TLAPS

\* The quotient rounded down leaves less than one divisor, and nothing at exact multiples.
LEMMA Quotient ==
    ASSUME NEW p \in Int, NEW m \in Nat, m > 0
    PROVE  /\ p \div m \in Int
           /\ (p \div m) * m <= p /\ p < (p \div m + 1) * m
           /\ p % m = 0 => (p \div m) * m = p
<1>1. /\ p \div m \in Int /\ p % m \in 0..(m - 1)
      /\ p = m * (p \div m) + (p % m)
  OBVIOUS
<1>. QED  BY <1>1, Z3

\* A rule's numbers; a load is an integer of milli-units, whatever the algorithm.
LEMMA RuleNumbers ==
    ASSUME NEW rule \in RuleType, NEW ready \in Nat, NEW sum \in Int
    PROVE  /\ rule.low \in Nat /\ rule.high \in Nat /\ rule.low <= rule.high
           /\ rule.tolerance \in 0..100
           /\ Product(rule, ready, sum) \in Int
  BY DEF RuleType, Product

\* A count is a number, also when the marks, the ready pods or the load are not ordinary.
LEMMA ReplicaCountType ==
    ASSUME NEW rule \in RuleType, NEW current \in Int, NEW ready \in Nat, NEW sum \in Int
    PROVE  ReplicaCount(rule, current, ready, sum) \in Int
<1>. DEFINE product == Product(rule, ready, sum)
<1>1. product \in Int /\ -product \in Int /\ rule.low \in Nat /\ rule.high \in Nat
  BY RuleNumbers
<1>2. \A n \in Int : ToInt32(n) \in Int
  BY MaxInt32Assumption DEF ToInt32, MinInt32
<1>3. MinInt32 \in Int
  BY MaxInt32Assumption DEF MinInt32
<1>. HIDE DEF product
<1>4. CountAbove(rule, ready, sum) \in Int
  <2>. DEFINE ceiling == -((-product) \div rule.high)
              exactUp == Averages(rule) /\ <<ready, sum, rule.high>> \in RoundsUp
  <2>1. rule.high > 0 => ceiling \in Int
    BY <1>1, Quotient
  <2>2. CountAbove(rule, ready, sum) =
          IF Undefined(rule, ready, rule.high) THEN MinInt32
          ELSE ToInt32(IF exactUp THEN ceiling + 1 ELSE ceiling)
    BY DEF CountAbove, product
  <2>. HIDE DEF ceiling, exactUp
  <2>. QED  BY <1>1, <1>2, <1>3, <2>1, <2>2 DEF Undefined
<1>5. CountBelow(rule, ready, sum) \in Int
  <2>. DEFINE floor == product \div rule.low
              exactShort == Averages(rule) /\ <<ready, sum, rule.low>> \in RoundsShort
              count == ToInt32(IF exactShort THEN floor - 1 ELSE floor)
  <2>1. rule.low > 0 => floor \in Int
    BY <1>1, Quotient
  <2>2. CountBelow(rule, ready, sum) =
          IF Undefined(rule, ready, rule.low) THEN 1 ELSE IF count > 1 THEN count ELSE 1
    BY DEF CountBelow, product
  <2>. HIDE DEF floor, exactShort
  <2>3. rule.low > 0 => count \in Int
    BY <1>2, <2>1
  <2>. HIDE DEF count
  <2>. QED  BY <1>1, <2>2, <2>3 DEF Undefined
<1>. QED  BY <1>4, <1>5 DEF ReplicaCount

\* The rounding up: the least count whose share of the load is at most the mark, or, under the
\* average algorithm, one more at an exact multiple that float64 computes too large.
LEMMA CeilingFits ==
    ASSUME NEW rule \in RuleType, NEW ready \in Nat \ {0}, NEW sum \in Int,
           Fits(rule, ready, sum), Product(rule, ready, sum) > 0
    PROVE  LET product == Product(rule, ready, sum)
               count   == CountAbove(rule, ready, sum)
           IN  /\ count \in Int
               /\ product <= count * rule.high
               /\ (count - 1) * rule.high <= product
<1>. DEFINE product == Product(rule, ready, sum)
            ceiling == -((-product) \div rule.high)
            exactUp == Averages(rule) /\ <<ready, sum, rule.high>> \in RoundsUp
<1>1. /\ product \in Int /\ product > 0 /\ rule.high \in Nat /\ rule.high > 0
      /\ MaxInt32 \in Nat /\ product < MaxInt32 * rule.high
  BY RuleNumbers, MaxInt32Assumption DEF Fits
<1>2. /\ ceiling \in Int
      /\ product <= ceiling * rule.high /\ (ceiling - 1) * rule.high < product
  <2>1. -product \in Int
    BY <1>1
  <2>2. /\ (-product) \div rule.high \in Int
        /\ ((-product) \div rule.high) * rule.high <= -product
        /\ -product < ((-product) \div rule.high + 1) * rule.high
    BY <1>1, <2>1, Quotient
  <2>. QED  BY <1>1, <2>2
<1>3. ASSUME exactUp
      PROVE  ceiling * rule.high = product
  <2>1. product % rule.high = 0
    BY <1>3, WholeAssumption DEF Product
  <2>2. product = (product \div rule.high) * rule.high /\ product \div rule.high \in Int
    BY <1>1, <2>1, Quotient
  <2>. HIDE DEF product, ceiling
  <2>. QED  BY <1>1, <1>2, <2>2, Z3
<1>. DEFINE result == IF exactUp THEN ceiling + 1 ELSE ceiling
<1>4. /\ result \in Int /\ MinInt32 < result /\ result <= MaxInt32
      /\ product <= result * rule.high /\ (result - 1) * rule.high <= product
  <2>1. ceiling > 0
    <3>. HIDE DEF product, ceiling
    <3>. QED  BY <1>1, <1>2, Z3
  <2>2. ceiling <= MaxInt32
    <3>. HIDE DEF product, ceiling
    <3>. QED  BY <1>1, <1>2, Z3
  <2>3. exactUp => ceiling < MaxInt32
    <3>. HIDE DEF product, ceiling, exactUp
    <3>. QED  BY <1>1, <1>2, <1>3, Z3
  <2>4. CASE exactUp
    <3>1. result = ceiling + 1
      BY <2>4
    <3>. HIDE DEF product, ceiling, exactUp, result
    <3>. QED  BY <1>1, <1>2, <1>3, <2>1, <2>3, <2>4, <3>1, Z3 DEF MinInt32
  <2>5. CASE ~exactUp
    <3>1. result = ceiling
      BY <2>5
    <3>. HIDE DEF product, ceiling, exactUp, result
    <3>. QED  BY <1>1, <1>2, <2>1, <2>2, <3>1, Z3 DEF MinInt32
  <2>. QED  BY <2>4, <2>5
<1>5. CountAbove(rule, ready, sum) = result
  <2>1. ~Undefined(rule, ready, rule.high)
    BY <1>1 DEF Undefined
  <2>2. CountAbove(rule, ready, sum) = ToInt32(result)
    BY <2>1 DEF CountAbove
  <2>3. ToInt32(result) = result
    <3>. HIDE DEF result
    <3>. QED  BY <1>1, <1>4 DEF ToInt32, MinInt32
  <2>. QED  BY <2>2, <2>3
<1>. HIDE DEF result
<1>. QED  BY <1>4, <1>5

\* The rounding down, for a load that asks for at most the ready pods: the greatest count
\* whose share of the load is at least the mark, or one less at an exact multiple that
\* float64 computes too small; but one replica stays.
LEMMA FloorFits ==
    ASSUME NEW rule \in RuleType, NEW ready \in 1..MaxInt32, NEW sum \in Int,
           rule.low > 0, Product(rule, ready, sum) < ready * rule.low
    PROVE  LET product == Product(rule, ready, sum)
               count   == CountBelow(rule, ready, sum)
           IN  /\ count \in Int /\ count >= 1 /\ count <= ready
               /\ count > 1 => count * rule.low <= product
               /\ product <= (count + 1) * rule.low
<1>. DEFINE product == Product(rule, ready, sum)
            floor   == product \div rule.low
            short   == Averages(rule) /\ <<ready, sum, rule.low>> \in RoundsShort
            rounded == IF short THEN floor - 1 ELSE floor
<1>1. /\ product \in Int /\ rule.low \in Nat /\ rule.low > 0
      /\ MaxInt32 \in Nat /\ ready \in Nat /\ ready >= 1 /\ ready <= MaxInt32
      /\ product < ready * rule.low
  BY RuleNumbers, MaxInt32Assumption
<1>2. /\ floor \in Int /\ floor * rule.low <= product /\ product < (floor + 1) * rule.low
  BY <1>1, Quotient
<1>3. ASSUME short
      PROVE  floor * rule.low = product
  <2>1. product % rule.low = 0
    BY <1>3, WholeAssumption DEF Product
  <2>. QED  BY <1>1, <2>1, Quotient
<1>4. /\ rounded \in Int /\ rounded < ready
      /\ rounded * rule.low <= product /\ product <= (rounded + 1) * rule.low
  <2>1. floor < ready
    <3>. HIDE DEF product, floor
    <3>. QED  BY <1>1, <1>2, Z3
  <2>2. CASE short
    <3>1. rounded = floor - 1
      BY <2>2
    <3>. HIDE DEF product, floor, short, rounded
    <3>. QED  BY <1>1, <1>2, <1>3, <2>1, <2>2, <3>1, Z3
  <2>3. CASE ~short
    <3>1. rounded = floor
      BY <2>3
    <3>. HIDE DEF product, floor, short, rounded
    <3>. QED  BY <1>1, <1>2, <2>1, <3>1, Z3
  <2>. QED  BY <2>2, <2>3
<1>. DEFINE kept == IF ToInt32(rounded) > 1 THEN ToInt32(rounded) ELSE 1
<1>5. CountBelow(rule, ready, sum) = kept
  <2>1. ~Undefined(rule, ready, rule.low)
    BY <1>1 DEF Undefined
  <2>. QED  BY <2>1 DEF CountBelow
<1>6. kept = IF rounded > 1 THEN rounded ELSE 1
  <2>. HIDE DEF rounded
  <2>. QED  BY <1>1, <1>4 DEF ToInt32, MinInt32
<1>7. CASE rounded > 1
  <2>1. kept = rounded
    BY <1>6, <1>7
  <2>. HIDE DEF rounded, kept, product
  <2>. QED  BY <1>1, <1>4, <1>5, <1>7, <2>1, Z3 DEF product
<1>8. CASE ~(rounded > 1)
  <2>1. kept = 1
    BY <1>6, <1>8
  <2>2. product <= 2 * rule.low
    <3>. HIDE DEF rounded, product
    <3>. QED  BY <1>1, <1>4, <1>8, Z3
  <2>. HIDE DEF rounded, kept
  <2>. QED  BY <1>1, <1>5, <2>1, <2>2
<1>. QED  BY <1>7, <1>8

\* Above the high mark there is more load than the ready pods may carry, below the low mark
\* less: the tolerance only widens the marks.
LEMMA OutsideTheMarks ==
    ASSUME NEW rule \in RuleType, NEW ready \in Nat \ {0}, NEW sum \in Int
    PROVE  /\ Above(rule, ready, sum) => Product(rule, ready, sum) > ready * rule.high
           /\ Below(rule, ready, sum) => Product(rule, ready, sum) < ready * rule.low
<1>1. /\ rule.low \in Nat /\ rule.high \in Nat /\ rule.tolerance \in Nat
      /\ rule.tolerance <= 100 /\ ready \in Nat /\ ready > 0
  BY DEF RuleType
<1>. DEFINE up   == rule.high * (100 + rule.tolerance)
            down == rule.low * (100 - rule.tolerance)
<1>2. /\ up \in Int /\ up >= 100 * rule.high
      /\ down \in Int /\ down <= 100 * rule.low
  BY <1>1, Z3
<1>3. CASE Averages(rule)
  <2>1. /\ Above(rule, ready, sum) => 100 * sum > ready * up
        /\ Below(rule, ready, sum) => 100 * sum < ready * down
    BY <1>1, <1>3, Z3 DEF Above, Below, Divisor
  <2>. HIDE DEF up, down
  <2>. QED  BY <1>1, <1>2, <1>3, <2>1, Z3 DEF Product
<1>4. CASE ~Averages(rule)
  <2>1. /\ Above(rule, ready, sum) => 100 * sum > up
        /\ Below(rule, ready, sum) => 100 * sum < down
    BY <1>1, <1>4, Z3 DEF Above, Below, Divisor
  <2>2. /\ Above(rule, ready, sum) => sum > rule.high
        /\ Below(rule, ready, sum) => sum < rule.low
    <3>. HIDE DEF up, down
    <3>. QED  BY <1>1, <1>2, <2>1, Z3
  <2>. QED  BY <1>1, <1>4, <2>2, Z3 DEF Product
<1>. QED  BY <1>3, <1>4

\* A load above the high mark raises the ready count, and a load below the low mark does
\* not: the tolerance and the roundings never turn the direction.
THEOREM DirectionIsRight ==
    ASSUME NEW rule \in RuleType, NEW ready \in 1..MaxInt32, NEW sum \in Int,
           NEW current \in Int, Fits(rule, ready, sum)
    PROVE  LET count == ReplicaCount(rule, current, ready, sum)
           IN  /\ Above(rule, ready, sum) => count > ready
               /\ Below(rule, ready, sum) => count <= ready
<1>. DEFINE product == Product(rule, ready, sum)
            count   == ReplicaCount(rule, current, ready, sum)
<1>1. /\ rule.low \in Nat /\ rule.high \in Nat /\ rule.high > 0 /\ rule.low <= rule.high
      /\ ready \in Nat \ {0} /\ product \in Int
  <2>1. ready \in Nat \ {0}
    BY MaxInt32Assumption
  <2>. QED  BY <2>1, RuleNumbers DEF Fits
<1>2. /\ Above(rule, ready, sum) => product > ready * rule.high
      /\ Below(rule, ready, sum) => product < ready * rule.low
  BY <1>1, OutsideTheMarks
<1>3. ASSUME Above(rule, ready, sum)
      PROVE  count > ready
  <2>1. product > ready * rule.high
    BY <1>2, <1>3
  <2>2. product > 0
    <3>. HIDE DEF product
    <3>. QED  BY <1>1, <2>1, Z3
  <2>3. count = CountAbove(rule, ready, sum)
    BY <1>3 DEF ReplicaCount
  <2>4. count \in Int /\ product <= count * rule.high
    BY <1>1, <2>2, <2>3, CeilingFits
  <2>. HIDE DEF product, count
  <2>. QED  BY <1>1, <2>1, <2>4, Z3
<1>4. ASSUME Below(rule, ready, sum), ~Above(rule, ready, sum)
      PROVE  count <= ready
  <2>1. count = CountBelow(rule, ready, sum)
    BY <1>4 DEF ReplicaCount
  <2>2. CASE rule.low > 0
    BY <1>2, <1>4, <2>1, <2>2, FloorFits
  <2>3. CASE rule.low = 0
    BY <1>1, <2>1, <2>3 DEF CountBelow, Undefined
  <2>. QED  BY <1>1, <2>2, <2>3
<1>5. ~(Above(rule, ready, sum) /\ Below(rule, ready, sum))
  <2>. HIDE DEF product
  <2>. QED  BY <1>1, <1>2, Z3
<1>. QED  BY <1>3, <1>4, <1>5

\* Under the average algorithm a load above the high mark gets the least count at which the
\* average per replica is down at the mark again, or one more where float64 rounds up.
THEOREM AboveFits ==
    ASSUME NEW rule \in RuleType, NEW ready \in 1..MaxInt32, NEW sum \in Int,
           NEW current \in Int, Fits(rule, ready, sum), Averages(rule),
           Above(rule, ready, sum)
    PROVE  LET count == ReplicaCount(rule, current, ready, sum)
           IN  sum <= count * rule.high /\ (count - 1) * rule.high <= sum
<1>1. Product(rule, ready, sum) = sum
  BY DEF Product
<1>2. /\ rule.high \in Nat /\ rule.high > 0 /\ ready \in Nat \ {0}
  BY MaxInt32Assumption DEF Fits, RuleType
<1>3. sum > ready * rule.high
  BY <1>1, <1>2, OutsideTheMarks
<1>4. sum > 0
  BY <1>2, <1>3, Z3
<1>. QED  BY <1>1, <1>2, <1>4, CeilingFits DEF ReplicaCount

\* And a load below the low mark gets the greatest count at which it is still up at that
\* mark, or one less, but one at least.
THEOREM BelowFits ==
    ASSUME NEW rule \in RuleType, NEW ready \in 1..MaxInt32, NEW sum \in Int,
           NEW current \in Int, Averages(rule), rule.low > 0,
           Below(rule, ready, sum)
    PROVE  LET count == ReplicaCount(rule, current, ready, sum)
           IN  /\ count >= 1 /\ (count > 1 => count * rule.low <= sum)
               /\ sum <= (count + 1) * rule.low
<1>1. Product(rule, ready, sum) = sum
  BY DEF Product
<1>2. ready \in Nat \ {0} /\ rule.low \in Nat /\ rule.high \in Nat /\ rule.low <= rule.high
  BY MaxInt32Assumption DEF RuleType
<1>3. sum < ready * rule.low /\ (Above(rule, ready, sum) => sum > ready * rule.high)
  BY <1>1, <1>2, OutsideTheMarks
<1>4. ~Above(rule, ready, sum)
  BY <1>2, <1>3, Z3
<1>. QED  BY <1>1, <1>3, <1>4, FloorFits DEF ReplicaCount
=============================================================================
