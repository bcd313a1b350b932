-------------------------- MODULE TakeProfitSplit --------------------------
(***************************************************************************)
(* How an exit is divided among its take-profit levels: splitTakeProfit-   *)
(* Sizes of server/index.ts, in lots of the instrument (a size times       *)
(* 10^sizeDecimals), so that the parts are integers.  Rules and requests   *)
(* have one to three levels, so the fall-back of equal weights is not      *)
(* reached and not modelled.  Weights are in hundredths; the code's are    *)
(* doubles, which may order equal fractions differently.                   *)
(***************************************************************************)
EXTENDS Integers, FiniteSets

Levels == 1..3

Weight(n, i) ==
  IF n = 1 THEN 100 ELSE IF n = 2 THEN 50 ELSE IF i = 1 THEN 34 ELSE 33

(* targetUnits, its integer part and its fraction                          *)
Target(t, n, i)   == t * Weight(n, i)
Floored(t, n, i)  == Target(t, n, i) \div 100
Fraction(t, n, i) == Target(t, n, i) % 100

(* remainderUnits: what the floors of all levels leave of t.               *)
Remainder(t, n) ==
  t - Floored(t, n, 1) - (IF n >= 2 THEN Floored(t, n, 2) ELSE 0)
                       - (IF n >= 3 THEN Floored(t, n, 3) ELSE 0)

(* ranked: the order in which left-over lots are handed out.               *)
Before(t, n, j, i) ==
  \/ Fraction(t, n, j) > Fraction(t, n, i)
  \/ /\ Fraction(t, n, j) = Fraction(t, n, i)
     /\ \/ Target(t, n, j) > Target(t, n, i)
        \/ Target(t, n, j) = Target(t, n, i) /\ j < i

Rank(t, n, i) == Cardinality({j \in 1..n : Before(t, n, j, i)})

(* splitTakeProfitSizes; fewer lots are left over than there are levels,   *)
(* so one pass over ranked hands them all out.                             *)
Split(t, n) ==
  [i \in 1..n |-> Floored(t, n, i) + (IF Rank(t, n, i) < Remainder(t, n) THEN 1 ELSE 0)]

Total(s, n) == s[1] + (IF n >= 2 THEN s[2] ELSE 0) + (IF n >= 3 THEN s[3] ELSE 0)
=============================================================================
