----------------------------- MODULE Aggregation -----------------------------
(***************************************************************************)
(* The arithmetic of the aggregators (pkg/server/aggregator): median with  *)
(* a 10% outlier test, weighted average, and the adaptive filter by        *)
(* standard deviation.  An entry is a source's price of one symbol with    *)
(* the source's weight: [source, symbol, price, weight].                   *)
(*                                                                         *)
(* The entries of a symbol are collected from two Go maps and sorted with  *)
(* sort.Slice, which is not stable: which order equal prices have is       *)
(* anybody's guess, and Orders has them all.  Prices and weights are       *)
(* natural numbers, small multiples of the smallest unit; a division drops *)
(* what decimal.Decimal rounds at its 16th digit.  The code adds weights   *)
(* as float64, one after another: where the exact sum is half of the       *)
(* total, what the comparison with it says is left open (Roundings).       *)
(***************************************************************************)
EXTENDS Integers, Sequences, FiniteSets, SequencesExt, FiniteSetsExt, Functions

CONSTANTS SensitivityNum, SensitivityDen    \* adaptive.sensitivity, a fraction

ASSUME SensitivityAssumption ==
    SensitivityNum \in Nat \ {0} /\ SensitivityDen \in Nat \ {0}

Modes == {"median", "average", "adaptive average", "adaptive median"}

\* The aggregator divides by zero and panics; net/http ends the request.
Panic == -1

Distance(a, b) == IF a < b THEN b - a ELSE a - b
Square(a) == a * a

Orders(entries) ==
    {s \in SetToSeqs(entries) : \A i \in 1..Len(s) - 1 : s[i].price <= s[i + 1].price}

\* The entries at some positions of an order.
Selected(s, positions) == {s[i] : i \in positions}
Elements(s) == Selected(s, 1..Len(s))

Weight(entries) == SumFunction([e \in entries |-> e.weight])

\* computeSimpleMedian
SimpleMedian(s) ==
    LET n == Len(s) IN
    IF n % 2 = 1 THEN s[n \div 2 + 1].price
    ELSE (s[n \div 2].price + s[n \div 2 + 1].price) \div 2

\* Where exactly half of the weight is reached, the sum of float64 weights is at
\* half of their total or an ulp below or above it, as the weights and their order
\* have it: .1 + .2 + .4 is more than .7, and .1 + .4 + .2 is not.
Roundings == {"below", "exact", "above"}

\* How the two medians of one aggregation fall.
Ties == [initial : Roundings, final : Roundings]

\* The median of the entries at the given positions if amount[i] of all of them
\* lies at or before position i.  A sum below half goes on to the next entry.
MedianBy(s, positions, amount, all, rounding) ==
    LET half == Min({i \in positions : 2 * amount[i] >= all})
        after == {i \in positions : i > half}
        tie == 2 * amount[half] = all /\ after # {}
    IN  CASE tie /\ rounding = "below" -> s[Min(after)].price
          [] tie /\ rounding = "exact" -> (s[half].price + s[Min(after)].price) \div 2
          [] OTHER -> s[half].price

UpTo(positions, i) == {j \in positions : j <= i}

\* Every entry counts the same.
WeightedMedianUnweighted(s, positions, rounding) ==
    MedianBy(s, positions, [i \in positions |-> Cardinality(UpTo(positions, i))],
             Cardinality(positions), rounding)

\* median, computeWeightedMedian: the first price at which half of the weight is
\* reached, and halfway to the next one if that is exactly half.
WeightedMedian(s, positions, rounding) ==
    MedianBy(s, positions, [i \in positions |-> Weight(Selected(s, UpTo(positions, i)))],
             Weight(Selected(s, positions)), rounding)

\* computeWeightedAverage
WeightedAverage(entries) ==
    IF Weight(entries) = 0 THEN 0
    ELSE SumFunction([e \in entries |-> e.price * e.weight]) \div Weight(entries)

\* What passes the outlier test is kept; if nothing does, everything is.
Filtered(s, passing) == IF passing = {} THEN 1..Len(s) ELSE passing

\* No more than 10% away from the median.
Near(price, median) == 10 * Distance(price, median) <= median

\* What the outlier test leaves for the second median.
NearMedian(s, median) == Filtered(s, {i \in 1..Len(s) : Near(s[i].price, median)})

\* The outlier test looks at the distance from the average.
MedianPriceByAverage(s, ties) ==
    LET average == WeightedAverage(Elements(s))
    IN  CASE Len(s) = 1 -> s[1].price
          [] Len(s) > 1 /\ average = 0 -> Panic
          [] OTHER -> WeightedMedian(s, NearMedian(s, average), ties.final)

\* computeMedianWithOutlierRejection
MedianPrice(s, ties) ==
    LET median == WeightedMedian(s, 1..Len(s), ties.initial)
    IN  CASE Len(s) = 1 -> s[1].price
          [] Len(s) > 1 /\ median = 0 -> Panic
          [] OTHER -> WeightedMedian(s, NearMedian(s, median), ties.final)

SquaredDeviations(entries, median) ==
    SumFunction([e \in entries |-> Square(Distance(e.price, median))])

\* The sample variance, over one entry less.
WithinSensitivitySample(price, s, median) ==
    Square(Distance(price, median)) * (Len(s) - 1) * Square(SensitivityDen)
        <= Square(SensitivityNum) * SquaredDeviations(Elements(s), median)

\* |price - median| <= sensitivity * standard deviation, both sides squared.
WithinSensitivity(price, s, median) ==
    Square(Distance(price, median)) * Len(s) * Square(SensitivityDen)
        <= Square(SensitivityNum) * SquaredDeviations(Elements(s), median)

\* What the adaptive filter leaves.
WithinThreshold(s) ==
    Filtered(s, {i \in 1..Len(s) : WithinSensitivity(s[i].price, s, SimpleMedian(s))})

\* computeAdaptivePrice
AdaptivePrice(s, final, rounding) ==
    CASE Len(s) = 1 -> s[1].price
      [] Len(s) > 1 /\ final = "average" -> WeightedAverage(Selected(s, WithinThreshold(s)))
      [] Len(s) > 1 /\ final = "median" -> WeightedMedian(s, WithinThreshold(s), rounding)

\* The price of a symbol from its sorted entries.
Aggregated(mode, s, ties) ==
    CASE mode = "median" -> MedianPrice(s, ties)
      [] mode = "average" -> WeightedAverage(Elements(s))
      [] mode = "adaptive average" -> AdaptivePrice(s, "average", ties.final)
      [] mode = "adaptive median" -> AdaptivePrice(s, "median", ties.final)

\* Exactly half of the weight lies at or below one of the prices.
Halved(entries) ==
    \E cut \in {e.price : e \in entries} :
        /\ \E e \in entries : cut < e.price
        /\ 2 * Weight({e \in entries : e.price <= cut}) = Weight(entries)

\* A median of this aggregation is taken of entries that are halved.
Balanced(mode, s) ==
    \/ mode = "median" /\ Halved(Elements(s))
    \/ /\ mode = "median"
       /\ Halved(Selected(s, NearMedian(s, WeightedMedian(s, 1..Len(s), "exact"))))
    \/ mode = "adaptive median" /\ Halved(Selected(s, WithinThreshold(s)))
=============================================================================
