------------------------------- MODULE Rounding -------------------------------
(***************************************************************************)
(* The one rounding rule of the ledger: integers only, half to even.        *)
(***************************************************************************)
EXTENDS Integers

Magnitude(v) == IF v < 0 THEN -v ELSE v

WithSignOf(v, m) == IF v < 0 THEN -m ELSE m

\* Mutant: a remainder of one half always goes up.
HalfUp(num, den) ==
  LET a == Magnitude(num)
      q == a \div den
      twice == 2 * (a % den)
  IN WithSignOf(num, IF twice >= den THEN q + 1 ELSE q)

\* The reference's algorithm for num / den with den > 0: the magnitude is divided,
\* twice the remainder is compared with den, and the sign is put back.
RoundHalfEven(num, den) ==
  LET a == Magnitude(num)
      q == a \div den
      twice == 2 * (a % den)
      up == twice > den \/ (twice = den /\ q % 2 = 1)
  IN WithSignOf(num, IF up THEN q + 1 ELSE q)

\* v is a nearest integer of num / den, the even one when two are equally near.
IsNearestEven(v, num, den) ==
  /\ Magnitude(2 * (num - v * den)) <= den
  /\ Magnitude(2 * (num - v * den)) = den => v % 2 = 0

\* ROUNDED MODE IS NEAREST-EVEN: what the language promises of the quotient.
NearestEven(num, den) ==
  LET q == num \div den
  IN IF IsNearestEven(q, num, den) THEN q ELSE q + 1

\* The closed form the parity script expects of (2q + 1) / 2.
HalfToEven(q) == IF q % 2 = 0 THEN q ELSE q + 1
=============================================================================
