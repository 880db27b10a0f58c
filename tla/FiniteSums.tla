----------------------------- MODULE FiniteSums -----------------------------
(* Sums, as a recursive function so that theorems can use them. *)
EXTENDS Integers, FiniteSets

PartialSums(f, N) ==
  LET s[n \in 0..N] == IF n = 0 THEN 0 ELSE s[n - 1] + f[n] IN s

\* f[1] + ... + f[N].
SumUpTo(f, N) == PartialSums(f, N)[N]

\* The elements of a finite set in some order, each once.
Listing(S) ==
  CHOOSE e \in [1..Cardinality(S) -> S] : \A i, j \in DOMAIN e : e[i] = e[j] => i = j

\* The sum of f over a finite set.
SumOver(f, S) ==
  LET e == Listing(S) IN SumUpTo([i \in DOMAIN e |-> f[e[i]]], Cardinality(S))
=============================================================================
