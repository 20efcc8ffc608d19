-------------------------------- MODULE Timing ---------------------------------
(***************************************************************************)
(* The arithmetic of lengths that the media adapters share.                *)
(***************************************************************************)
EXTENDS Integers

CeilDiv(a, b)  == (a + b - 1) \div b
AtMost(a, b)   == IF a < b THEN a ELSE b
AtLeast(a, b)  == IF a > b THEN a ELSE b
Drift(a, b)    == IF a > b THEN a - b ELSE b - a

\* The sum of a function's values at 1 to n.
SumTo(n, f) == LET sum[i \in 0..n] == IF i = 0 THEN 0 ELSE sum[i - 1] + f[i] IN sum[n]

\* Python's round: to the nearest, halves to the even.
Rounded(a, b) ==
    LET q == a \div b
        r == 2 * (a % b)
    IN  IF r > b \/ (r = b /\ q % 2 = 1) THEN q + 1 ELSE q

\* duration_tolerance: a floor, or three hundredths of what was expected.
Within(drift, expected, floor) == 100 * drift <= AtLeast(100 * floor, 3 * expected)

=============================================================================
