------------------------------ MODULE Fractions -----------------------------
(* Exact fractions for averages over small prices: [n, d] in lowest terms. *)
EXTENDS Integers

LOCAL Abs(a) == IF a < 0 THEN -a ELSE a
LOCAL Gcd[a \in Nat, b \in Nat] == IF b = 0 THEN a ELSE Gcd[b, a % b]

Frac(n, d) == LET g == Gcd[Abs(n), d] IN [n |-> n \div g, d |-> d \div g]
Whole(n)   == [n |-> n, d |-> 1]

Plus(a, b)  == Frac(a.n * b.d + b.n * a.d, a.d * b.d)
Minus(a, b) == Frac(a.n * b.d - b.n * a.d, a.d * b.d)
Times(a, b) == Frac(a.n * b.n, a.d * b.d)
(* b is positive.                                                          *)
Over(a, b)  == Frac(a.n * b.d, a.d * b.n)
Leq(a, b)   == a.n * b.d <= b.n * a.d
=============================================================================
