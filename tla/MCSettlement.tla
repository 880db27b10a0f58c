---------------------------- MODULE MCSettlement ----------------------------
EXTENDS Settlement

entry(a, s, m, n, d) == [account |-> a, sign |-> s, amount |-> m, num |-> n, den |-> d]

EntryRecs ==
  {entry("A", s, m, 3, 2) : s \in {1, -1}, m \in {1, 3}}
  \cup {entry("B", -1, 3, 3, 2), entry("C", 1, 99, 9, 1)}

LoanRecs ==
  {[principal |-> p, num |-> i, den |-> d, n |-> t] :
     p \in {1, 7, 99}, i \in {0, 1, 3}, d \in {2, 10}, t \in {1, 3}}

ClaimRecs ==
  {[method |-> "S", principal |-> p, num |-> 3, den |-> 2, days |-> t, basis |-> b, n |-> 0] :
     p \in {3, 60}, t \in {1, 2}, b \in {1, 3}}
  \cup {[method |-> "C", principal |-> p, num |-> i, den |-> 2, days |-> 0, basis |-> 0, n |-> t] :
     p \in {1, 60}, i \in {1, 9}, t \in {0, 2, 3}}

AssetRecs ==
  {[method |-> "L", cost |-> c, salvage |-> 2, num |-> 0, den |-> 1, n |-> t] :
     c \in {5, 7}, t \in 1 .. 4}
  \cup {[method |-> "D", cost |-> c, salvage |-> 4, num |-> i, den |-> 2, n |-> 3] :
     c \in {9, 99}, i \in {1, 3}}

DetailRecs == {[account |-> "A", balance |-> b] : b \in {-999, 600}}

Batch(p, S, most) == {[prog |-> p, recs |-> r] : r \in UNION {[1 .. n -> S] : n \in 0 .. most}}

\* A table that fills up, a sum past the working storage that comes back.
Long(recs) == {[prog |-> "settle", recs |-> recs]}

MCFiles ==
  Batch("settle", EntryRecs, 2)
  \cup Long(<<entry("A", 1, 1, 1, 1), entry("B", -1, 1, 1, 1), entry("C", 1, 1, 1, 1)>>)
  \cup Long(<<entry("C", 1, 99, 9, 1), entry("C", 1, 99, 9, 1), entry("C", -1, 99, 9, 1)>>)
  \cup Batch("amort", LoanRecs, 1) \cup Batch("interest", ClaimRecs, 1)
  \cup Batch("deprec", AssetRecs, 1)
  \cup {[prog |-> "deprec", recs |-> <<x, y>>] : x \in {z \in AssetRecs : z.n = 2}, y \in AssetRecs}
  \cup Batch("report", DetailRecs, 3)
=============================================================================
