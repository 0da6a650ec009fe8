------------------------------- MODULE Fractions -------------------------------
(***************************************************************************)
(* The numbers of the curve arithmetic.  Python's floats are modelled as   *)
(* exact fractions <<n, d>> in lowest terms with d > 0, and the values     *)
(* that are not finite as <<0, 0>>: rounding is left out, the tests for    *)
(* finite values and for a divisor of zero are not.                        *)
(***************************************************************************)
EXTENDS Integers

RECURSIVE Gcd(_, _)
Gcd(a, b) == IF b = 0 THEN a ELSE Gcd(b, a % b)

Magnitude(n) == IF n < 0 THEN -n ELSE n

NaN       == <<0, 0>>
Finite(q) == q[2] # 0

Divided(n, d, g) == <<n \div g, d \div g>>

\* n/d in lowest terms; not finite when d is zero.
Frac(n, d) ==
    IF d = 0 THEN NaN
    ELSE Divided(IF d < 0 THEN -n ELSE n, Magnitude(d), Gcd(Magnitude(n), Magnitude(d)))

Whole(n) == <<n, 1>>
Nought   == Whole(0)

Plus(p, q)    == Frac(p[1] * q[2] + q[1] * p[2], p[2] * q[2])
Neg(p)        == <<-p[1], p[2]>>
Minus(p, q)   == Plus(p, Neg(q))
Times(p, q)   == Frac(p[1] * q[1], p[2] * q[2])
Over(p, q)    == Frac(p[1] * q[2], p[2] * q[1])
Less(p, q)    == p[1] * q[2] < q[1] * p[2]
AtMost(p, q)  == p[1] * q[2] <= q[1] * p[2]
Absolute(q)    == <<Magnitude(q[1]), q[2]>>
Distance(p, q) == Absolute(Minus(p, q))

================================================================================
