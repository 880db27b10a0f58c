-------------------------- MODULE FiniteSumsProofs --------------------------
(***************************************************************************)
(* Finite sums are additive.  Induction is by least counterexample: the     *)
(* order of the naturals is well-founded.                                    *)
(***************************************************************************)
EXTENDS FiniteSums, WellFoundedInduction, FiniteSetTheorems, TLAPS

\* Every non-empty set of naturals has a least element.
LEMMA LeastNat ==
  ASSUME NEW T \in SUBSET Nat, T # {}
  PROVE  \E m \in T : \A k \in T : m <= k
<1>1. IsWellFoundedOn(OpToRel(<, Nat), Nat)
  BY NatLessThanWellFounded
<1>2. PICK m \in T : \A k \in T : ~ (<<k, m>> \in OpToRel(<, Nat))
  BY <1>1, WFMin
<1>3. \A k \in T : ~ (k < m)
  BY <1>2 DEF OpToRel
<1> QED BY <1>3

\* u is the sequence of partial sums of f up to N.
IsSums(u, f, N) ==
  u = [n \in 0..N |-> IF n = 0 THEN 0 ELSE u[n - 1] + f[n]]

\* A table of sums exists for every length: the least length without one would extend its predecessor.
LEMMA SumsExist ==
  ASSUME NEW N \in Nat, NEW f
  PROVE  \E u : IsSums(u, f, N)
<1> DEFINE Bad == {n \in Nat : ~ \E u : IsSums(u, f, n)}
<1>1. SUFFICES Bad = {}
  OBVIOUS
<1>2. SUFFICES ASSUME Bad # {} PROVE FALSE
  OBVIOUS
<1>3. PICK m \in Bad : \A k \in Bad : m <= k
  BY <1>2, LeastNat
<1>4. CASE m = 0
  <2>1. IsSums([n \in 0..0 |-> 0], f, 0)
    BY DEF IsSums
  <2> QED BY <1>3, <1>4, <2>1
<1>5. CASE m # 0
  <2>1. m \in Nat /\ m - 1 \in Nat /\ m - 1 \notin Bad
    BY <1>3, <1>5
  <2>2. PICK u : IsSums(u, f, m - 1)
    BY <2>1
  <2> DEFINE w == [n \in 0..m |-> IF n = m THEN u[m - 1] + f[m] ELSE u[n]]
  <2>3. IsSums(w, f, m)
    <3>1. DOMAIN u = 0..(m - 1)
      BY <2>2 DEF IsSums
    <3>2. \A n \in 0..(m - 1) : u[n] = IF n = 0 THEN 0 ELSE u[n - 1] + f[n]
      BY <2>2 DEF IsSums
    <3>3. \A n \in 0..m : w[n] = IF n = 0 THEN 0 ELSE w[n - 1] + f[n]
      <4> TAKE n \in 0..m
      <4>1. CASE n = m
        BY <4>1, <1>5, <2>1
      <4>2. CASE n # m /\ n = 0
        BY <4>2, <3>2, <2>1
      <4>3. CASE n # m /\ n # 0
        BY <4>3, <3>2, <2>1
      <4> QED BY <4>1, <4>2, <4>3
    <3>4. w = [n \in 0..m |-> w[n]]
      OBVIOUS
    <3> QED BY <3>3, <3>4 DEF IsSums
  <2> QED BY <1>3, <2>3
<1> QED BY <1>4, <1>5

\* The recursion that defines a partial sum.
LEMMA SumsEquation ==
  ASSUME NEW N \in Nat, NEW f
  PROVE  /\ PartialSums(f, N)[0] = 0
         /\ \A n \in 1..N : PartialSums(f, N)[n] = PartialSums(f, N)[n - 1] + f[n]
<1>1. PICK u : IsSums(u, f, N)
  BY SumsExist
<1>2. IsSums(PartialSums(f, N), f, N)
  BY <1>1 DEF IsSums, PartialSums
<1>3. \A n \in 0..N : PartialSums(f, N)[n] =
        IF n = 0 THEN 0 ELSE PartialSums(f, N)[n - 1] + f[n]
  BY <1>2 DEF IsSums
<1> QED BY <1>3

\* A sum of integers is an integer.
LEMMA SumType ==
  ASSUME NEW N \in Nat, NEW f \in [1..N -> Int]
  PROVE  SumUpTo(f, N) \in Int
<1> DEFINE S == PartialSums(f, N)
           Bad == {n \in 0..N : S[n] \notin Int}
<1>1. S[0] = 0 /\ \A n \in 1..N : S[n] = S[n - 1] + f[n]
  BY SumsEquation
<1> HIDE DEF S
<1>2. Bad = {}
  <2> SUFFICES ASSUME Bad # {} PROVE FALSE
    OBVIOUS
  <2>0. Bad \in SUBSET Nat
    OBVIOUS
  <2>1. PICK m \in Bad : \A k \in Bad : m <= k
    BY <2>0, LeastNat
  <2>2. m # 0
    BY <1>1, <2>1
  <2>3. m - 1 \notin Bad /\ m \in 1..N
    BY <2>1, <2>2
  <2>4. S[m - 1] \in Int
    BY <2>3
  <2> QED BY <1>1, <2>1, <2>3, <2>4
<1>3. S[N] \in Int
  BY <1>2
<1> QED BY <1>3 DEF SumUpTo, S

\* Sums add pointwise.
LEMMA SumAdd ==
  ASSUME NEW N \in Nat, NEW f \in [1..N -> Int], NEW g \in [1..N -> Int],
         NEW h \in [1..N -> Int], \A n \in 1..N : h[n] = f[n] + g[n]
  PROVE  SumUpTo(h, N) = SumUpTo(f, N) + SumUpTo(g, N)
<1> DEFINE F == PartialSums(f, N)
           G == PartialSums(g, N)
           H == PartialSums(h, N)
           Good(n) == F[n] \in Int /\ G[n] \in Int /\ H[n] = F[n] + G[n]
           Bad == {n \in 0..N : ~ Good(n)}
<1>1. /\ F[0] = 0 /\ \A n \in 1..N : F[n] = F[n - 1] + f[n]
      /\ G[0] = 0 /\ \A n \in 1..N : G[n] = G[n - 1] + g[n]
      /\ H[0] = 0 /\ \A n \in 1..N : H[n] = H[n - 1] + h[n]
  BY SumsEquation
<1> HIDE DEF F, G, H
<1>2. Bad = {}
  <2> SUFFICES ASSUME Bad # {} PROVE FALSE
    OBVIOUS
  <2>0. Bad \in SUBSET Nat
    OBVIOUS
  <2>1. PICK m \in Bad : \A k \in Bad : m <= k
    BY <2>0, LeastNat
  <2>2. m # 0
    BY <1>1, <2>1
  <2>3. m - 1 \notin Bad /\ m \in 1..N
    BY <2>1, <2>2
  <2>4. Good(m - 1)
    BY <2>3
  <2>5. f[m] \in Int /\ g[m] \in Int /\ h[m] = f[m] + g[m]
    BY <2>3
  <2>6. /\ F[m] = F[m - 1] + f[m] /\ G[m] = G[m - 1] + g[m]
        /\ H[m] = H[m - 1] + h[m]
    BY <1>1, <2>3
  <2>7. /\ F[m - 1] \in Int /\ G[m - 1] \in Int
        /\ H[m - 1] = F[m - 1] + G[m - 1]
    BY <2>4
  <2>8. F[m] \in Int /\ G[m] \in Int /\ H[m] = F[m] + G[m]
    <3>1. PICK p \in Int, q \in Int : p = F[m - 1] /\ q = G[m - 1]
      BY <2>7
    <3>2. PICK x \in Int, y \in Int : x = f[m] /\ y = g[m]
      BY <2>5
    <3>3. F[m] = p + x /\ G[m] = q + y /\ H[m] = (p + q) + (x + y)
      BY <2>5, <2>6, <2>7, <3>1, <3>2
    <3> QED BY <3>3
  <2> QED BY <2>1, <2>8
<1>3. Good(N)
  BY <1>2
<1> QED BY <1>3 DEF SumUpTo, F, G, H

\* A sum of zeros is zero.
LEMMA SumZero ==
  ASSUME NEW N \in Nat, NEW f \in [1..N -> Int], \A n \in 1..N : f[n] = 0
  PROVE  SumUpTo(f, N) = 0
<1>1. SumUpTo(f, N) = SumUpTo(f, N) + SumUpTo(f, N)
  BY SumAdd
<1>2. SumUpTo(f, N) \in Int
  BY SumType
<1> QED BY <1>1, <1>2

\* A sum with one term that is not zero.
LEMMA SumSingle ==
  ASSUME NEW N \in Nat, NEW i \in 1..N, NEW f \in [1..N -> Int],
         \A n \in 1..N : n # i => f[n] = 0
  PROVE  SumUpTo(f, N) = f[i]
<1> DEFINE S == PartialSums(f, N)
           Bad == {n \in 0..N : S[n] # IF n < i THEN 0 ELSE f[i]}
<1>1. S[0] = 0 /\ \A n \in 1..N : S[n] = S[n - 1] + f[n]
  BY SumsEquation
<1> HIDE DEF S
<1>2. Bad = {}
  <2> SUFFICES ASSUME Bad # {} PROVE FALSE
    OBVIOUS
  <2>0. Bad \in SUBSET Nat
    OBVIOUS
  <2>1. PICK m \in Bad : \A k \in Bad : m <= k
    BY <2>0, LeastNat
  <2>2. m # 0
    BY <1>1, <2>1
  <2>3. m - 1 \notin Bad /\ m \in 1..N
    BY <2>1, <2>2
  <2>4. S[m - 1] = IF m - 1 < i THEN 0 ELSE f[i]
    BY <2>3
  <2>5. S[m] = S[m - 1] + f[m]
    BY <1>1, <2>3
  <2>6. CASE m = i
    BY <2>1, <2>4, <2>5, <2>6
  <2>7. CASE m # i
    BY <2>1, <2>3, <2>4, <2>5, <2>7
  <2> QED BY <2>6, <2>7
<1>3. S[N] = f[i]
  BY <1>2
<1> QED BY <1>3 DEF SumUpTo, S

\* Partial sums depend only on the terms that are summed.
LEMMA PartialAgree ==
  ASSUME NEW M \in Nat, NEW N \in Nat, NEW K \in Nat, K <= M, K <= N, NEW f, NEW g,
         \A n \in 1..K : f[n] = g[n]
  PROVE  PartialSums(f, M)[K] = PartialSums(g, N)[K]
<1> DEFINE F == PartialSums(f, M)
           G == PartialSums(g, N)
           Bad == {n \in 0..K : F[n] # G[n]}
<1>1. /\ F[0] = 0 /\ \A n \in 1..M : F[n] = F[n - 1] + f[n]
      /\ G[0] = 0 /\ \A n \in 1..N : G[n] = G[n - 1] + g[n]
  BY SumsEquation
<1> HIDE DEF F, G
<1>2. Bad = {}
  <2> SUFFICES ASSUME Bad # {} PROVE FALSE
    OBVIOUS
  <2>0. Bad \in SUBSET Nat
    OBVIOUS
  <2>1. PICK m \in Bad : \A j \in Bad : m <= j
    BY <2>0, LeastNat
  <2>2. m # 0
    BY <1>1, <2>1
  <2>3. m - 1 \notin Bad /\ m - 1 \in 0..K /\ m \in 1..K /\ m \in 1..M /\ m \in 1..N
    BY <2>1, <2>2
  <2>4. F[m - 1] = G[m - 1]
    BY <2>3
  <2>5. F[m] = F[m - 1] + f[m] /\ G[m] = G[m - 1] + g[m] /\ f[m] = g[m]
    BY <1>1, <2>3
  <2>6. F[m] = G[m]
    BY <2>4, <2>5
  <2> QED BY <2>1, <2>6
<1>3. F[K] = G[K]
  BY <1>2
<1> QED BY <1>3 DEF F, G

\* A sum with one more term.
LEMMA SumExtend ==
  ASSUME NEW N \in Nat, NEW f, NEW g, \A n \in 1..N : f[n] = g[n]
  PROVE  SumUpTo(g, N + 1) = SumUpTo(f, N) + g[N + 1]
<1>1. PartialSums(g, N + 1)[N] = PartialSums(f, N)[N]
  BY PartialAgree
<1>2. N + 1 \in Nat /\ N + 1 \in 1..(N + 1) /\ (N + 1) - 1 = N
  OBVIOUS
<1>3. PartialSums(g, N + 1)[N + 1] = PartialSums(g, N + 1)[(N + 1) - 1] + g[N + 1]
  BY <1>2, SumsEquation
<1> QED BY <1>1, <1>2, <1>3 DEF SumUpTo

\* A sum without terms.
LEMMA SumEmpty ==
  ASSUME NEW f
  PROVE  SumUpTo(f, 0) = 0
  BY SumsEquation DEF SumUpTo

----------------------------------------------------------------------------
(* Sums of sums *)

\* The order in which a table is added up does not matter.
LEMMA SumSwap ==
  ASSUME NEW N \in Nat, NEW M \in Nat, NEW f,
         \A i \in 1..N, j \in 1..M : f[i][j] \in Int
  PROVE  SumUpTo([i \in 1..N |-> SumUpTo([j \in 1..M |-> f[i][j]], M)], N)
           = SumUpTo([j \in 1..M |-> SumUpTo([i \in 1..N |-> f[i][j]], N)], M)
<1> DEFINE Row(i) == SumUpTo([j \in 1..M |-> f[i][j]], M)
           Col(n, j) == SumUpTo([i \in 1..n |-> f[i][j]], n)
           ByRow(n) == SumUpTo([i \in 1..n |-> Row(i)], n)
           ByCol(n) == SumUpTo([j \in 1..M |-> Col(n, j)], M)
           Bad == {n \in 0..N : ByRow(n) # ByCol(n)}
<1>1. \A n \in 0..N, j \in 1..M : Col(n, j) \in Int
  <2> TAKE n \in 0..N, j \in 1..M
  <2>1. n \in Nat /\ [i \in 1..n |-> f[i][j]] \in [1..n -> Int]
    OBVIOUS
  <2> QED
    BY <2>1, SumType
<1>2. \A i \in 1..N : Row(i) \in Int
  <2> TAKE i \in 1..N
  <2>1. [j \in 1..M |-> f[i][j]] \in [1..M -> Int]
    OBVIOUS
  <2> QED
    BY <2>1, SumType
<1>3. ByRow(0) = 0 /\ ByCol(0) = 0
  <2>1. ByRow(0) = 0 /\ \A j \in 1..M : Col(0, j) = 0
    BY SumEmpty
  <2>2. [j \in 1..M |-> Col(0, j)] \in [1..M -> Int]
    BY <2>1
  <2> HIDE DEF Col, Row
  <2> DEFINE g == [j \in 1..M |-> Col(0, j)]
  <2>3. g \in [1..M -> Int] /\ \A j \in 1..M : g[j] = 0
    BY <2>1
  <2> HIDE DEF g
  <2>4. SumUpTo(g, M) = 0
    BY <2>3, SumZero
  <2> QED
    BY <2>1, <2>4 DEF g
<1>4. ASSUME NEW m \in 1..N
      PROVE  ByRow(m) = ByRow(m - 1) + Row(m) /\ ByCol(m) = ByCol(m - 1) + Row(m)
  <2>1. m - 1 \in Nat /\ (m - 1) + 1 = m /\ m \in 1..m /\ m \in Nat /\ m - 1 \in 0..N /\ m \in 0..N
    OBVIOUS
  <2>2. ByRow(m) = ByRow(m - 1) + Row(m)
    <3> HIDE DEF Row
    <3> DEFINE g == [i \in 1..(m - 1) |-> Row(i)]
               h == [i \in 1..m |-> Row(i)]
    <3>1. (\A n \in 1..(m - 1) : g[n] = h[n]) /\ h[(m - 1) + 1] = Row(m)
      BY <2>1
    <3> HIDE DEF g, h
    <3>2. SumUpTo(h, (m - 1) + 1) = SumUpTo(g, m - 1) + h[(m - 1) + 1]
      BY <2>1, <3>1, SumExtend
    <3> QED
      BY <2>1, <3>1, <3>2 DEF g, h
  <2>3. \A j \in 1..M : Col(m, j) = Col(m - 1, j) + f[m][j]
    <3> TAKE j \in 1..M
    <3> DEFINE g == [i \in 1..(m - 1) |-> f[i][j]]
               h == [i \in 1..m |-> f[i][j]]
    <3>1. (\A n \in 1..(m - 1) : g[n] = h[n]) /\ h[(m - 1) + 1] = f[m][j]
      BY <2>1
    <3> HIDE DEF g, h
    <3>2. SumUpTo(h, (m - 1) + 1) = SumUpTo(g, m - 1) + h[(m - 1) + 1]
      BY <2>1, <3>1, SumExtend
    <3> QED
      BY <2>1, <3>1, <3>2 DEF g, h
  <2>4. ByCol(m) = ByCol(m - 1) + Row(m)
    <3> DEFINE a == [j \in 1..M |-> Col(m - 1, j)]
               b == [j \in 1..M |-> f[m][j]]
               c == [j \in 1..M |-> Col(m, j)]
    <3> HIDE DEF Col
    <3>1. /\ a \in [1..M -> Int] /\ b \in [1..M -> Int] /\ c \in [1..M -> Int]
          /\ \A j \in 1..M : c[j] = a[j] + b[j]
      BY <1>1, <2>1, <2>3
    <3> HIDE DEF a, b, c
    <3>2. SumUpTo(c, M) = SumUpTo(a, M) + SumUpTo(b, M)
      BY <3>1, SumAdd
    <3> QED
      BY <3>2 DEF a, b, c
  <2> QED
    BY <2>2, <2>4
<1> HIDE DEF ByRow, ByCol, Row, Col
<1>5. Bad = {}
  <2> SUFFICES ASSUME Bad # {} PROVE FALSE
    OBVIOUS
  <2>0. Bad \in SUBSET Nat
    OBVIOUS
  <2>1. PICK m \in Bad : \A k \in Bad : m <= k
    BY <2>0, LeastNat
  <2>2. m # 0
    BY <1>3, <2>1
  <2>3. m - 1 \notin Bad /\ m - 1 \in 0..N /\ m \in 1..N
    BY <2>1, <2>2
  <2>4. ByRow(m - 1) = ByCol(m - 1)
    BY <2>3
  <2> QED
    BY <1>4, <2>1, <2>3, <2>4
<1>6. ByRow(N) = ByCol(N)
  BY <1>5
<1> QED
  BY <1>6 DEF ByRow, ByCol, Row, Col

\* A listing of a finite set names every element exactly once.
LEMMA ListingLists ==
  ASSUME NEW S, IsFiniteSet(S)
  PROVE  /\ Cardinality(S) \in Nat
         /\ Listing(S) \in [1..Cardinality(S) -> S]
         /\ \A i, j \in 1..Cardinality(S) : Listing(S)[i] = Listing(S)[j] => i = j
         /\ \A x \in S : \E i \in 1..Cardinality(S) : Listing(S)[i] = x
<1> DEFINE n == Cardinality(S)
           Once(e) == \A i, j \in DOMAIN e : e[i] = e[j] => i = j
<1>1. n \in Nat /\ ExistsBijection(1..n, S)
  BY FS_CardinalityType
<1>2. PICK b \in Bijection(1..n, S) : TRUE
  BY <1>1 DEF ExistsBijection
<1>3. b \in [1..n -> S] /\ Once(b)
  BY <1>2 DEF Bijection, Injection, IsInjective
<1>4. Listing(S) \in [1..n -> S] /\ Once(Listing(S))
  BY <1>3 DEF Listing
<1>5. Listing(S) \in Injection(1..n, S)
  BY <1>4 DEF Injection, IsInjective
<1>6. Cardinality(1..n) = n
  BY <1>1, FS_Interval
<1>7. Listing(S) \in Surjection(1..n, S)
  BY <1>5, <1>6, FS_Injection
<1> QED
  BY <1>1, <1>4, <1>7 DEF Surjection

\* The sum over a set is a sum of the terms listed.
LEMMA SumOverListed ==
  ASSUME NEW S, IsFiniteSet(S), NEW f
  PROVE  SumOver(f, S) = SumUpTo([i \in 1..Cardinality(S) |-> f[Listing(S)[i]]], Cardinality(S))
BY ListingLists DEF SumOver

\* Sums over a set depend on the terms only, and have their type.
LEMMA SumOverTerms ==
  ASSUME NEW S, IsFiniteSet(S), NEW f
  PROVE  /\ (\A x \in S : f[x] \in Int) => SumOver(f, S) \in Int
         /\ (\A x \in S : f[x] = 0) => SumOver(f, S) = 0
         /\ \A g : (\A x \in S : f[x] = g[x]) => SumOver(f, S) = SumOver(g, S)
<1> DEFINE n == Cardinality(S)
           t(h) == [i \in 1..n |-> h[Listing(S)[i]]]
<1>1. n \in Nat /\ \A i \in 1..n : Listing(S)[i] \in S
  BY ListingLists
<1>2. ASSUME \A x \in S : f[x] \in Int PROVE SumOver(f, S) \in Int
  <2>1. t(f) \in [1..n -> Int]
    BY <1>1, <1>2
  <2> QED
    BY <1>1, <2>1, SumType, SumOverListed
<1>3. ASSUME \A x \in S : f[x] = 0 PROVE SumOver(f, S) = 0
  <2> DEFINE u == t(f)
  <2>1. u \in [1..n -> Int] /\ \A i \in 1..n : u[i] = 0
    BY <1>1, <1>3
  <2>2. SumOver(f, S) = SumUpTo(u, n)
    BY SumOverListed
  <2> HIDE DEF u, n
  <2> QED
    BY <1>1, <2>1, <2>2, SumZero
<1>4. ASSUME NEW g, \A x \in S : f[x] = g[x] PROVE SumOver(f, S) = SumOver(g, S)
  <2>1. t(f) = t(g)
    BY <1>1, <1>4
  <2> QED
    BY <2>1, SumOverListed
<1> QED
  BY <1>2, <1>3, <1>4

\* A sum over a set of sums.
LEMMA SumOverSwap ==
  ASSUME NEW S, IsFiniteSet(S), NEW N \in Nat, NEW f,
         \A x \in S, i \in 1..N : f[x][i] \in Int
  PROVE  SumOver([x \in S |-> SumUpTo([i \in 1..N |-> f[x][i]], N)], S)
           = SumUpTo([i \in 1..N |-> SumOver([x \in S |-> f[x][i]], S)], N)
<1> DEFINE n == Cardinality(S)
           e == Listing(S)
           g == [k \in 1..n |-> f[e[k]]]
<1>1. n \in Nat /\ \A k \in 1..n : e[k] \in S
  BY ListingLists
<1> HIDE DEF n, e
<1>2. \A k \in 1..n, i \in 1..N : g[k][i] \in Int /\ g[k][i] = f[e[k]][i]
  BY <1>1
<1>3. SumUpTo([k \in 1..n |-> SumUpTo([i \in 1..N |-> g[k][i]], N)], n)
        = SumUpTo([i \in 1..N |-> SumUpTo([k \in 1..n |-> g[k][i]], n)], N)
  <2> HIDE DEF g
  <2> QED
    BY <1>1, <1>2, SumSwap
<1>4. SumOver([x \in S |-> SumUpTo([i \in 1..N |-> f[x][i]], N)], S)
        = SumUpTo([k \in 1..n |-> SumUpTo([i \in 1..N |-> g[k][i]], N)], n)
  <2> DEFINE h == [x \in S |-> SumUpTo([i \in 1..N |-> f[x][i]], N)]
  <2>1. SumOver(h, S) = SumUpTo([k \in 1..n |-> h[e[k]]], n)
    BY SumOverListed DEF n, e
  <2>2. \A k \in 1..n : h[e[k]] = SumUpTo([i \in 1..N |-> f[e[k]][i]], N)
    BY <1>1
  <2>3. \A k \in 1..n : [i \in 1..N |-> f[e[k]][i]] = [i \in 1..N |-> g[k][i]]
    OBVIOUS
  <2>4. \A k \in 1..n : h[e[k]] = SumUpTo([i \in 1..N |-> g[k][i]], N)
    <3> HIDE DEF g, h
    <3> QED
      BY <2>2, <2>3
  <2> HIDE DEF h, g
  <2>5. [k \in 1..n |-> h[e[k]]] = [k \in 1..n |-> SumUpTo([i \in 1..N |-> g[k][i]], N)]
    BY <2>4
  <2> QED
    BY <2>1, <2>5 DEF h
<1>5. ASSUME NEW i \in 1..N
      PROVE  SumOver([x \in S |-> f[x][i]], S) = SumUpTo([k \in 1..n |-> g[k][i]], n)
  <2> DEFINE h == [x \in S |-> f[x][i]]
  <2>1. SumOver(h, S) = SumUpTo([k \in 1..n |-> h[e[k]]], n)
    BY SumOverListed DEF n, e
  <2>2. [k \in 1..n |-> h[e[k]]] = [k \in 1..n |-> g[k][i]]
    BY <1>1
  <2> QED
    BY <2>1, <2>2
<1> HIDE DEF g
<1>6. [i \in 1..N |-> SumOver([x \in S |-> f[x][i]], S)]
        = [i \in 1..N |-> SumUpTo([k \in 1..n |-> g[k][i]], n)]
  BY <1>5
<1> QED
  BY <1>3, <1>4, <1>6

\* A sum over a set with one term at most.
LEMMA SumOverPick ==
  ASSUME NEW S, IsFiniteSet(S), NEW k, NEW v \in Int
  PROVE  SumOver([x \in S |-> IF k = x THEN v ELSE 0], S) = IF k \in S THEN v ELSE 0
<1> DEFINE n == Cardinality(S)
           e == Listing(S)
           h == [x \in S |-> IF k = x THEN v ELSE 0]
           u == [i \in 1..n |-> h[e[i]]]
<1>1. /\ n \in Nat /\ \A i \in 1..n : e[i] \in S
      /\ \A i, j \in 1..n : e[i] = e[j] => i = j
      /\ \A x \in S : \E i \in 1..n : e[i] = x
  BY ListingLists
<1>2. SumOver(h, S) = SumUpTo(u, n)
  BY SumOverListed
<1> HIDE DEF n, e
<1>3. \A i \in 1..n : u[i] = IF k = e[i] THEN v ELSE 0
  BY <1>1
<1>4. u \in [1..n -> Int]
  BY <1>1
<1> HIDE DEF h, u
<1>5. CASE k \in S
  <2>1. PICK i \in 1..n : e[i] = k
    BY <1>1, <1>5
  <2>2. u[i] = v /\ \A j \in 1..n : j # i => u[j] = 0
    BY <1>1, <1>3, <2>1
  <2>3. SumUpTo(u, n) = u[i]
    BY <1>1, <1>4, <2>2, SumSingle
  <2> QED
    BY <1>2, <1>5, <2>2, <2>3 DEF h
<1>6. CASE k \notin S
  <2>1. \A j \in 1..n : u[j] = 0
    BY <1>1, <1>3, <1>6
  <2>2. SumUpTo(u, n) = 0
    BY <1>1, <1>4, <2>1, SumZero
  <2> QED
    BY <1>2, <1>6, <2>2 DEF h
<1> QED
  BY <1>5, <1>6

\* Terms sorted by a key: adding up each key's terms, over a set of keys, adds up the
\* terms whose key is in the set.
LEMMA SumByKey ==
  ASSUME NEW S, IsFiniteSet(S), NEW N \in Nat, NEW key, NEW v \in [1..N -> Int]
  PROVE  SumOver([x \in S |-> SumUpTo([i \in 1..N |-> IF key[i] = x THEN v[i] ELSE 0], N)], S)
           = SumUpTo([i \in 1..N |-> IF key[i] \in S THEN v[i] ELSE 0], N)
<1> DEFINE f == [x \in S |-> [i \in 1..N |-> IF key[i] = x THEN v[i] ELSE 0]]
<1>1. \A x \in S, i \in 1..N : f[x][i] = (IF key[i] = x THEN v[i] ELSE 0) /\ f[x][i] \in Int
  OBVIOUS
<1>2. \A x \in S : [i \in 1..N |-> f[x][i]] = [i \in 1..N |-> IF key[i] = x THEN v[i] ELSE 0]
  OBVIOUS
<1>3. \A i \in 1..N : [x \in S |-> f[x][i]] = [x \in S |-> IF key[i] = x THEN v[i] ELSE 0]
  OBVIOUS
<1> HIDE DEF f
<1>4. SumOver([x \in S |-> SumUpTo([i \in 1..N |-> f[x][i]], N)], S)
        = SumUpTo([i \in 1..N |-> SumOver([x \in S |-> f[x][i]], S)], N)
  <2>1. \A x \in S, i \in 1..N : f[x][i] \in Int
    BY <1>1
  <2> QED
    BY <2>1, SumOverSwap
<1>5. \A i \in 1..N : SumOver([x \in S |-> f[x][i]], S) = IF key[i] \in S THEN v[i] ELSE 0
  <2> TAKE i \in 1..N
  <2>1. v[i] \in Int
    OBVIOUS
  <2> DEFINE k == key[i]
             w == v[i]
  <2>2. SumOver([x \in S |-> IF k = x THEN w ELSE 0], S) = IF k \in S THEN w ELSE 0
    <3> HIDE DEF k, w
    <3>1. w \in Int
      BY <2>1 DEF w
    <3> QED
      BY <3>1, SumOverPick
  <2> QED
    BY <1>3, <2>2
<1>6. [i \in 1..N |-> SumOver([x \in S |-> f[x][i]], S)]
        = [i \in 1..N |-> IF key[i] \in S THEN v[i] ELSE 0]
  BY <1>5
<1>7. [x \in S |-> SumUpTo([i \in 1..N |-> f[x][i]], N)]
        = [x \in S |-> SumUpTo([i \in 1..N |-> IF key[i] = x THEN v[i] ELSE 0], N)]
  BY <1>2
<1> QED
  BY <1>4, <1>6, <1>7

\* Two sums over sets are exchanged.
LEMMA SumOverOver ==
  ASSUME NEW S, IsFiniteSet(S), NEW T, IsFiniteSet(T), NEW f,
         \A x \in S, y \in T : f[x][y] \in Int
  PROVE  SumOver([x \in S |-> SumOver([y \in T |-> f[x][y]], T)], S)
           = SumOver([y \in T |-> SumOver([x \in S |-> f[x][y]], S)], T)
<1> DEFINE n == Cardinality(T)
           e == Listing(T)
           g == [x \in S |-> [i \in 1..n |-> f[x][e[i]]]]
<1>1. n \in Nat /\ \A i \in 1..n : e[i] \in T
  BY ListingLists
<1>2. ASSUME NEW x \in S
      PROVE  SumOver([y \in T |-> f[x][y]], T) = SumUpTo([i \in 1..n |-> g[x][i]], n)
  <2> DEFINE h == [y \in T |-> f[x][y]]
  <2>1. SumOver(h, T) = SumUpTo([i \in 1..n |-> h[e[i]]], n)
    BY SumOverListed
  <2>2. [i \in 1..n |-> h[e[i]]] = [i \in 1..n |-> g[x][i]]
    BY <1>1
  <2> QED
    BY <2>1, <2>2
<1>3. \A x \in S, i \in 1..n : g[x][i] \in Int /\ g[x][i] = f[x][e[i]]
  BY <1>1
<1>4. SumOver([y \in T |-> SumOver([x \in S |-> f[x][y]], S)], T)
        = SumUpTo([i \in 1..n |-> SumOver([x \in S |-> g[x][i]], S)], n)
  <2> DEFINE h == [y \in T |-> SumOver([x \in S |-> f[x][y]], S)]
  <2>1. SumOver(h, T) = SumUpTo([i \in 1..n |-> h[e[i]]], n)
    BY SumOverListed
  <2>2. \A i \in 1..n : h[e[i]] = SumOver([x \in S |-> f[x][e[i]]], S)
    BY <1>1
  <2>3. \A i \in 1..n : [x \in S |-> f[x][e[i]]] = [x \in S |-> g[x][i]]
    BY <1>3
  <2>4. \A i \in 1..n : h[e[i]] = SumOver([x \in S |-> g[x][i]], S)
    <3> HIDE DEF h, g, e, n
    <3> QED
      BY <2>2, <2>3
  <2> HIDE DEF h, g, e, n
  <2>5. [i \in 1..n |-> h[e[i]]] = [i \in 1..n |-> SumOver([x \in S |-> g[x][i]], S)]
    BY <2>4
  <2> QED
    BY <2>1, <2>5 DEF h
<1> HIDE DEF n, e, g
<1>5. SumOver([x \in S |-> SumUpTo([i \in 1..n |-> g[x][i]], n)], S)
        = SumUpTo([i \in 1..n |-> SumOver([x \in S |-> g[x][i]], S)], n)
  BY <1>1, <1>3, SumOverSwap
<1>6. [x \in S |-> SumOver([y \in T |-> f[x][y]], T)]
        = [x \in S |-> SumUpTo([i \in 1..n |-> g[x][i]], n)]
  BY <1>2
<1> QED
  BY <1>4, <1>5, <1>6
=============================================================================
