-------------------------- MODULE LocalStoreProofs --------------------------
(***************************************************************************)
(* The ledger a browser keeps for itself, for any tabs, codes, bodies and     *)
(* bounds: identities and order hold whatever tabs do together, codes and     *)
(* references until a write is raced, and until then the store does, step by  *)
(* step, what the ledger in memory does.                                      *)
(*                                                                           *)
(* A book is a pair of rows of accounts and rows of transactions that may     *)
(* become the contents of the stores: what they hold, what an export has      *)
(* read, what a backup kept.  The invariant speaks of all of them, because an *)
(* import brings any of them back.                                            *)
(***************************************************************************)
EXTENDS LocalStore, FiniteSumsProofs, FiniteSetTheorems, SequenceTheorems

----------------------------------------------------------------------------
(* The sample ledger *)

\* u flattens the first sequences of seqs, one more at each place.
IsFlat(u, seqs, N) ==
  u = [i \in 1..N |-> IF i = 1 THEN seqs[i] ELSE u[i - 1] \o seqs[i]]

\* Such a table exists for every length: the least length without one would extend its predecessor's.
LEMMA FlatExists ==
  ASSUME NEW N \in Nat, NEW seqs
  PROVE  \E u : IsFlat(u, seqs, N)
<1> DEFINE Bad == {n \in Nat : ~ \E u : IsFlat(u, seqs, n)}
<1>1. SUFFICES ASSUME Bad # {} PROVE FALSE
  OBVIOUS
<1>2. PICK m \in Bad : \A k \in Bad : m <= k
  BY <1>1, LeastNat
<1>3. CASE m = 0
  <2>1. IsFlat([i \in 1..0 |-> <<>>], seqs, 0)
    BY DEF IsFlat
  <2> QED
    BY <1>2, <1>3, <2>1
<1>4. CASE m # 0
  <2>1. m \in Nat /\ m - 1 \in Nat /\ m - 1 \notin Bad
    BY <1>2, <1>4
  <2>2. PICK u : IsFlat(u, seqs, m - 1)
    BY <2>1
  <2> DEFINE step(v, i) == IF i = 1 THEN seqs[i] ELSE v[i - 1] \o seqs[i]
             w == [i \in 1..m |-> IF i = m THEN step(u, m) ELSE u[i]]
  <2>3. /\ DOMAIN u = 1..(m - 1)
        /\ \A i \in 1..(m - 1) : u[i] = step(u, i)
    BY <2>2 DEF IsFlat
  <2>4. \A i \in 1..m : w[i] = step(w, i)
    <3> SUFFICES ASSUME NEW i \in 1..m PROVE w[i] = step(w, i)
      OBVIOUS
    <3>1. CASE i = m
      <4>1. i # 1 => w[m - 1] = u[m - 1]
        BY <2>1, <3>1
      <4> QED
        BY <2>1, <3>1, <4>1
    <3>2. CASE i # m
      <4>0. i \in 1..(m - 1)
        BY <2>1, <3>2
      <4>1. w[i] = u[i] /\ u[i] = step(u, i)
        BY <2>3, <3>2, <4>0
      <4>2. i # 1 => w[i - 1] = u[i - 1]
        BY <2>1, <4>0
      <4> QED
        BY <4>1, <4>2
    <3> QED
      BY <3>1, <3>2
  <2>5. w = [i \in 1..m |-> step(w, i)]
    BY <2>4
  <2>6. IsFlat(w, seqs, m)
    BY <2>5 DEF IsFlat
  <2> QED
    BY <1>2, <2>6
<1> QED
  BY <1>3, <1>4

\* Flattening sequences over S, none shorter than p, gives a sequence over S p times as long.
LEMMA FlatSound ==
  ASSUME NEW S, NEW seqs \in Seq(Seq(S)), NEW p \in Nat,
         \A i \in 1 .. Len(seqs) : Len(seqs[i]) >= p
  PROVE  FlattenSeq(seqs) \in Seq(S) /\ Len(FlattenSeq(seqs)) >= Len(seqs) * p
<1>0. CASE Len(seqs) = 0
  <2>1. seqs = <<>> /\ <<>> \in Seq(S)
    BY <1>0
  <2>2. FlattenSeq(seqs) = seqs
    BY <1>0 DEF FlattenSeq
  <2>3. FlattenSeq(seqs) \in Seq(S)
    BY <2>1, <2>2
  <2>4. Len(seqs) * p = 0 /\ Len(FlattenSeq(seqs)) = 0
    BY <1>0, <2>2
  <2>5. Len(FlattenSeq(seqs)) >= Len(seqs) * p
    BY <2>4
  <2> QED
    BY <2>3, <2>5
<1>1. CASE Len(seqs) # 0
  <2> DEFINE N == Len(seqs)
             U == CHOOSE u : IsFlat(u, seqs, N)
             Good(i) == U[i] \in Seq(S) /\ Len(U[i]) >= i * p
             Bad == {i \in 1..N : ~ Good(i)}
  <2>0. N \in Nat /\ N # 0
    BY <1>1
  <2>1. IsFlat(U, seqs, N)
    BY <2>0, FlatExists
  <2>2. FlattenSeq(seqs) = U[N]
    BY <1>1 DEF FlattenSeq, IsFlat
  <2>3. \A i \in 1..N : U[i] = IF i = 1 THEN seqs[i] ELSE U[i - 1] \o seqs[i]
    BY <2>1 DEF IsFlat
  <2> HIDE DEF U
  <2>4. Bad = {}
    <3> SUFFICES ASSUME Bad # {} PROVE FALSE
      OBVIOUS
    <3>0. Bad \in SUBSET Nat
      OBVIOUS
    <3>1. PICK m \in Bad : \A k \in Bad : m <= k
      BY <3>0, LeastNat
    <3>2. seqs[m] \in Seq(S) /\ Len(seqs[m]) \in Nat /\ Len(seqs[m]) >= p
      OBVIOUS
    <3>3. m # 1
      BY <2>3, <3>1, <3>2
    <3>4. m - 1 \in 1..N /\ m - 1 \notin Bad
      BY <2>0, <3>1, <3>3
    <3>5. U[m - 1] \in Seq(S) /\ Len(U[m - 1]) \in Nat /\ Len(U[m - 1]) >= (m - 1) * p
      BY <3>4
    <3>6. /\ U[m - 1] \o seqs[m] \in Seq(S)
          /\ Len(U[m - 1] \o seqs[m]) = Len(U[m - 1]) + Len(seqs[m])
      BY <3>2, <3>5
    <3>7. m \in Nat
      BY <3>0, <3>1
    <3>8. \A a, b \in Nat : a >= (m - 1) * p /\ b >= p => a + b >= m * p
      BY <3>7
    <3>9. U[m] = U[m - 1] \o seqs[m]
      BY <2>3, <3>1, <3>3
    <3>10. Good(m)
      BY <3>2, <3>5, <3>6, <3>8, <3>9
    <3> QED
      BY <3>1, <3>10
  <2>5. Good(N)
    BY <2>0, <2>4
  <2> QED
    BY <2>2, <2>5
<1> QED
  BY <1>0, <1>1

\* What the sample is asked for.
LEMMA SampleAsked ==
  /\ SampleRows \in Nat \ {0} /\ SampleMonths \in Nat \ {0}
  /\ Fixed \in Seq([every : Nat \ {0}, offset : Nat])
BY LocalAssumption DEF LocalAssumption

\* A month holds at least its share of the rows, each on the month's second day.
LEMMA MonthDays ==
  ASSUME NEW mi \in 0 .. SampleMonths - 1
  PROVE  /\ MonthRows(mi) \in Seq(Nat \ {0})
         /\ PerMonth \in Nat /\ Len(MonthRows(mi)) >= PerMonth
<1> USE SampleAsked
<1>1. Cardinality(DueIn(mi)) \in Nat
  <2>1. DOMAIN Fixed = 1 .. Len(Fixed) /\ Len(Fixed) \in Nat
    OBVIOUS
  <2>2. IsFiniteSet(1 .. Len(Fixed))
    BY <2>1, FS_Interval
  <2>3. DueIn(mi) \subseteq 1 .. Len(Fixed)
    BY <2>1 DEF DueIn
  <2> QED
    BY <2>2, <2>3, FS_Subset, FS_CardinalityType
<1>2. PerMonth \in Nat
  <2>1. Len(Fixed) \in Nat
    OBVIOUS
  <2>2. (SampleRows + SampleMonths - 1) \div SampleMonths \in Nat
    OBVIOUS
  <2> QED
    BY <2>1, <2>2 DEF PerMonth
<1> DEFINE due == Cardinality(DueIn(mi))
           n == due + IF PerMonth > due THEN PerMonth - due ELSE 0
<1>3. n \in Nat /\ n >= PerMonth
  BY <1>1, <1>2
<1>4. 2 * (SampleMonths - mi) \in Nat \ {0}
  OBVIOUS
<1>5. MonthRows(mi) = [i \in 1 .. n |-> 2 * (SampleMonths - mi)]
  BY DEF MonthRows
<1> HIDE DEF n
<1>6. MonthRows(mi) \in Seq(Nat \ {0}) /\ Len(MonthRows(mi)) = n
  BY <1>3, <1>4, <1>5
<1> QED
  BY <1>2, <1>3, <1>6

\* The months hold all the rows that are asked for: rounding up leaves no row out.
LEMMA SampleDays ==
  BuildLedger \in Seq(Nat \ {0}) /\ Len(BuildLedger) = SampleRows
<1> USE SampleAsked
<1> DEFINE months == [mi \in 1 .. SampleMonths |-> MonthRows(mi - 1)]
           days == FlattenSeq(months)
<1>1. \A mi \in 1 .. SampleMonths : /\ MonthRows(mi - 1) \in Seq(Nat \ {0})
                                    /\ Len(MonthRows(mi - 1)) >= PerMonth
  BY MonthDays
<1>2. months \in Seq(Seq(Nat \ {0})) /\ Len(months) = SampleMonths
  BY <1>1
<1>3. PerMonth \in Nat
  <2>1. 0 \in 0 .. SampleMonths - 1
    OBVIOUS
  <2> QED
    BY <2>1, MonthDays
<1>4. \A i \in 1 .. Len(months) : Len(months[i]) >= PerMonth
  BY <1>1, <1>2
<1> HIDE DEF months
<1>5. days \in Seq(Nat \ {0}) /\ Len(days) >= SampleMonths * PerMonth
  BY <1>2, <1>3, <1>4, FlatSound
<1>6. SampleMonths * PerMonth >= SampleRows
  <2> DEFINE share == (SampleRows + SampleMonths - 1) \div SampleMonths
  <2>1. share \in Nat /\ share * SampleMonths >= SampleRows
    OBVIOUS
  <2>2. Len(Fixed) \in Nat /\ PerMonth = IF share > Len(Fixed) THEN share ELSE Len(Fixed)
    BY DEF PerMonth
  <2> HIDE DEF share
  <2>3. share <= PerMonth
    BY <2>1, <2>2
  <2>4. \A a, b, c \in Nat : a <= b => a * c <= b * c
    OBVIOUS
  <2>5. share * SampleMonths <= PerMonth * SampleMonths
    BY <1>3, <2>1, <2>3, <2>4
  <2> QED
    BY <1>3, <2>1, <2>5
<1>7. BuildLedger = SubSeq(days, 1, IF Len(days) < SampleRows THEN Len(days) ELSE SampleRows)
  BY DEF BuildLedger, months
<1> HIDE DEF days
<1>8. Len(days) \in Nat /\ Len(days) >= SampleRows
  BY <1>3, <1>5, <1>6
<1>9. BuildLedger = SubSeq(days, 1, SampleRows)
  BY <1>7, <1>8
<1> QED
  BY <1>5, <1>8, <1>9

\* Every row of the sample has a number of its own.
LEMMA SampleCount ==
  IsFiniteSet(SampleTxns) /\ Cardinality(SampleTxns) = SampleRows
<1> DEFINE f == [i \in 1 .. SampleRows |-> MkTxn(i, BuildLedger[i])]
<1>1. DOMAIN BuildLedger = 1 .. SampleRows /\ SampleRows \in Nat
  BY SampleDays, LocalAssumption DEF LocalAssumption
<1>2. \A i \in 1 .. SampleRows : f[i] \in SampleTxns /\ f[i].id = <<"s", i>>
  BY <1>1 DEF SampleTxns, MkTxn
<1>3. \A x \in SampleTxns : \E i \in 1 .. SampleRows : f[i] = x
  BY <1>1 DEF SampleTxns
<1>4. f \in [1 .. SampleRows -> SampleTxns]
  BY <1>2
<1> HIDE DEF f
<1>5. f \in Surjection(1 .. SampleRows, SampleTxns)
  BY <1>3, <1>4 DEF Surjection
<1>6. \A i, j \in 1 .. SampleRows : f[i] = f[j] => i = j
  BY <1>2
<1>7. f \in Injection(1 .. SampleRows, SampleTxns)
  BY <1>4, <1>6 DEF Injection, IsInjective
<1>8. IsFiniteSet(1 .. SampleRows) /\ Cardinality(1 .. SampleRows) = SampleRows
  BY <1>1, FS_Interval
<1> QED
  BY <1>5, <1>7, <1>8, FS_Surjection

\* An entry and its mirror image cancel out in every currency.
LEMMA PairBalances ==
  ASSUME NEW a, NEW b, NEW cur
  PROVE  Balanced(<< [account |-> a, direction |-> "debit", amount |-> 1, currency |-> cur],
                     [account |-> b, direction |-> "credit", amount |-> 1, currency |-> cur] >>)
<1> DEFINE es == << [account |-> a, direction |-> "debit", amount |-> 1, currency |-> cur],
                    [account |-> b, direction |-> "credit", amount |-> 1, currency |-> cur] >>
           f(c) == [i \in DOMAIN es |->
                      IF es[i].currency = c THEN SignedAmount(es[i]) ELSE 0]
<1>1. Len(es) = 2 /\ DOMAIN es = 1..2
  OBVIOUS
<1>2. ASSUME NEW c \in Currencies(es) PROVE NetIn(es, c) = 0
  <2>1. c = cur
    BY <1>1, <1>2 DEF Currencies
  <2>2. f(c)[1] = 1 /\ f(c)[2] = -1
    BY <1>1, <2>1 DEF SignedAmount
  <2> HIDE DEF f
  <2>3. /\ PartialSums(f(c), 2)[0] = 0
        /\ \A n \in 1..2 : PartialSums(f(c), 2)[n] = PartialSums(f(c), 2)[n - 1] + f(c)[n]
    BY SumsEquation
  <2>4. PartialSums(f(c), 2)[1] = 1
    BY <2>2, <2>3
  <2>5. PartialSums(f(c), 2)[2] = 0
    BY <2>2, <2>3, <2>4
  <2>6. NetIn(es, c) = SumUpTo(f(c), 2)
    BY <1>1 DEF NetIn, f
  <2> QED
    BY <2>5, <2>6 DEF SumUpTo
<1> QED
  BY <1>2 DEF Balanced

\* The sample is a ledger: its transactions are valid over its own accounts.
LEMMA SampleSound ==
  /\ Consistent(SampleAccounts, SampleTxns)
  /\ \A x \in SampleTxns : Len(x.entries) = 2
<1> DEFINE acc == <<"s", CHOOSE c \in Codes : TRUE>>
           es == << [account |-> acc, direction |-> "debit", amount |-> 1, currency |-> "KRW"],
                    [account |-> acc, direction |-> "credit", amount |-> 1, currency |-> "KRW"] >>
<1>1. acc \in {a.id : a \in SampleAccounts}
  <2>1. PICK c \in Codes : acc = <<"s", c>>
    BY LocalAssumption DEF LocalAssumption
  <2>2. [id |-> <<"s", c>>, code |-> c] \in SampleAccounts
    BY DEF SampleAccounts
  <2> QED
    BY <2>1, <2>2
<1> HIDE DEF acc
<1>2. ASSUME NEW x \in SampleTxns
      PROVE  Len(x.entries) = 2 /\ ValidateTxnBody(SampleAccounts, x)
  <2>1. PICK i \in DOMAIN BuildLedger : x = MkTxn(i, BuildLedger[i])
    BY DEF SampleTxns
  <2>2. x.entries = es /\ x.day = BuildLedger[i]
    BY <2>1 DEF MkTxn, acc
  <2>3. x.day > 0
    BY <2>2, SampleDays
  <2>4. Balanced(es)
    BY PairBalances
  <2> DEFINE ids == {a.id : a \in SampleAccounts}
  <2>5. \A j \in DOMAIN es : ValidEntry(ids, es[j])
    BY <1>1 DEF ValidEntry
  <2> HIDE DEF es, ids
  <2>6. Len(es) = 2
    BY DEF es
  <2> QED
    BY <2>2, <2>3, <2>4, <2>5, <2>6 DEF ValidateTxnBody, ids
<1> QED
  BY <1>2 DEF Consistent

----------------------------------------------------------------------------
(* The invariant *)

\* Everything that is, or may become again, the content of a store.
AccountBooks ==
  {accounts} \cup {scan[t].accounts.rows : t \in Tab} \cup {b.accounts : b \in backups}

TxnBooks ==
  {txns} \cup {scan[t].txns.rows : t \in Tab} \cup {b.txns : b \in backups}

\* Records have their fields, and counters are within their bounds.
TabState == [counter : Nat, reloads : Nat, empty : BOOLEAN, checks : BOOLEAN]

Write(p) == p \in [op : {"account", "txn"}, stale : BOOLEAN, row : {p.row}]

PendShape(p) == p = None \/ Write(p)

ReadShape(r) == r \in [read : BOOLEAN, rows : {r.rows}]

ScanShape(s) ==
  /\ s \in [accounts : {s.accounts}, txns : {s.txns}, clean : BOOLEAN]
  /\ ReadShape(s.accounts) /\ ReadShape(s.txns)

BackupShape(b) == b \in [accounts : {b.accounts}, txns : {b.txns}, clean : BOOLEAN]

Shapes ==
  /\ tab \in [Tab -> TabState] /\ \A t \in Tab : tab[t].counter <= 2 * made
  /\ DOMAIN pend = Tab /\ \A t \in Tab : PendShape(pend[t])
  /\ DOMAIN scan = Tab /\ \A t \in Tab : ScanShape(scan[t])
  /\ \A b \in backups : BackupShape(b)
  /\ made \in Nat /\ made <= MaxMade /\ wipes \in Nat /\ wipes <= MaxWipes
  /\ raced \in BOOLEAN

\* Identifiers are those of the sample, were handed out or were typed into a file.  Codes
\* need not be unique: an import does not look at them.
AccountBook(S, n) ==
  \A a \in S : a.id \in ({"s"} \X Codes) \cup ({"a"} \X (1 .. n)) \cup {TypedId}

\* Of two rows one session entered, the later has the higher number.
InOrder(x, y) ==
  x.by = y.by /\ x.by[1] \in Tab =>
    (x.id[2] > y.id[2] => x.seq > y.seq) /\ (y.id[2] > x.id[2] => y.seq > x.seq)

\* A row of the sample, or one entered under a number its tab had reached.
Stamped(x, tabs, n) ==
  \/ x.id \in {"s"} \X Nat /\ x.by = <<"s", 0>>
  \/ \E t \in Tab, k \in Nat :
       /\ x.by = <<t, k>> /\ k <= tabs[t].reloads
       /\ x.id \in {"t"} \X (1 .. n) /\ x.seq \in Nat
       /\ k = tabs[t].reloads => x.seq <= tabs[t].counter

TxnRow(x, tabs, n) ==
  /\ x \in [id : {x.id}, seq : {x.seq}, by : {x.by}, day : {x.day}, entries : {x.entries}]
  /\ Stamped(x, tabs, n) /\ Len(x.entries) >= 2

TxnBook(S, tabs, n) ==
  \A x \in S : TxnRow(x, tabs, n) /\ \A y \in S : InOrder(x, y)

Unused(id, books) == \A S \in books : \A x \in S : x.id # id

\* A row validated and not yet written has an identifier nobody else has.
AccountPend(row, books, n) ==
  /\ row \in [id : {row.id}, code : Codes]
  /\ row.id \in {"a"} \X (1 .. n) /\ Unused(row.id, books)

TxnPend(row, t, books, tabs, n) ==
  /\ TxnRow(row, tabs, n) /\ row.by = <<t, tabs[t].reloads>>
  /\ row.id \in {"t"} \X (1 .. n) /\ Unused(row.id, books)
  /\ \A S \in books : \A x \in S : InOrder(x, row)

Identities ==
  /\ \A S \in AccountBooks : AccountBook(S, made)
  /\ \A S \in TxnBooks : TxnBook(S, tab, made)
  /\ \A t \in Tab :
       /\ pend[t].op = "account" => AccountPend(pend[t].row, AccountBooks, made)
       /\ pend[t].op = "txn" => TxnPend(pend[t].row, t, TxnBooks, tab, made)
  /\ \A t, u \in Tab : t # u /\ pend[t] # None /\ pend[u] # None
                       => pend[t].row.id # pend[u].row.id

\* What a form submitted, resolved against the accounts and accepted.
Accepted(row, body, book) ==
  LET b == Resolve(book, body)
  IN row.day = b.day /\ row.entries = b.entries /\ ValidateTxnBody(book, b)

\* A write that is not stale is still valid.
StillValid(p, book) ==
  /\ p.op = "account" => \A a \in book : a.code # p.row.code
  /\ p.op = "txn" => \E body \in NewBodies : Accepted(p.row, body, book)

\* An export between two writes has read what is there, or a consistent pair.
QuietScan(s, book, rows) ==
  /\ s.accounts.read /\ ~ s.txns.read => s.accounts.rows = book
  /\ s.txns.read /\ ~ s.accounts.read => s.txns.rows = rows
  /\ s.accounts.read /\ s.txns.read => Consistent(s.accounts.rows, s.txns.rows)

\* Until a write is raced.
Unbroken ==
  ~ raced =>
    /\ Consistent(accounts, txns)
    /\ \A t \in Tab : pend[t] # None /\ ~ pend[t].stale => StillValid(pend[t], accounts)
    /\ \A t \in Tab : scan[t].clean => QuietScan(scan[t], accounts, txns)

Restorable == \A b \in backups : b.clean => Consistent(b.accounts, b.txns)

\* The bound counts the exports under way.
Exports == {t \in Tab : Exporting(t)}

ExportBound ==
  IsFiniteSet(backups) /\ Cardinality(backups) + Cardinality(Exports) <= MaxBackups

LocalInv == Shapes /\ Identities /\ Unbroken /\ Restorable /\ ExportBound

----------------------------------------------------------------------------
(* Shapes *)

\* No row is validated or written, no export under way, and no book has a row.
LEMMA InitShapes ==
  ASSUME Init
  PROVE  Shapes
<1>1. NewTab \in TabState /\ NewTab.counter = 0
  BY DEF NewTab, TabState
<1>2. ScanShape(Idle)
  BY DEF ScanShape, ReadShape, Idle, Unread
<1>3. PendShape(None)
  BY DEF PendShape
<1>4. tab \in [Tab -> TabState] /\ \A t \in Tab : tab[t].counter <= 2 * made
  BY <1>1 DEF Init
<1>5. made \in Nat /\ made <= MaxMade /\ wipes \in Nat /\ wipes <= MaxWipes
  BY LocalAssumption DEF LocalAssumption, Init
<1>6. raced \in BOOLEAN
  BY DEF Init
<1> QED
  BY <1>2, <1>3, <1>4, <1>5, <1>6 DEF Init, Shapes

\* The fields of a tab, a pending row and an export are set one at a time.
LEMMA TabFields ==
  ASSUME NEW r \in TabState, NEW n \in Nat, NEW e \in BOOLEAN, NEW c \in BOOLEAN
  PROVE  /\ [r EXCEPT !.counter = n] \in TabState /\ [r EXCEPT !.checks = c] \in TabState
         /\ [r EXCEPT !.empty = e, !.checks = c] \in TabState
         /\ [r EXCEPT !.counter = n].counter = n /\ [r EXCEPT !.checks = c].counter = r.counter
         /\ [r EXCEPT !.empty = e, !.checks = c].counter = r.counter
         /\ [r EXCEPT !.counter = n].reloads = r.reloads
         /\ [r EXCEPT !.checks = c].reloads = r.reloads
         /\ [r EXCEPT !.empty = e, !.checks = c].reloads = r.reloads
BY DEF TabState

\* A write that has become stale differs in nothing else.
LEMMA StaleFields ==
  ASSUME NEW p, Write(p)
  PROVE  LET q == [p EXCEPT !.stale = TRUE]
         IN Write(q) /\ q.op = p.op /\ q.row = p.row /\ q.stale = TRUE
BY DEF Write

\* What each reading step of an export sets, and what it leaves.
LEMMA ScanFields ==
  ASSUME NEW s, ScanShape(s), NEW rows
  PROVE  /\ LET q == [s EXCEPT !.clean = FALSE]
            IN ScanShape(q) /\ q.accounts = s.accounts /\ q.txns = s.txns /\ q.clean = FALSE
         /\ LET q == [s EXCEPT !.accounts = [read |-> TRUE, rows |-> rows]]
            IN /\ ScanShape(q) /\ q.accounts.read = TRUE /\ q.accounts.rows = rows
               /\ q.txns = s.txns /\ q.clean = s.clean
         /\ LET q == [s EXCEPT !.txns = [read |-> TRUE, rows |-> rows]]
            IN /\ ScanShape(q) /\ q.txns.read = TRUE /\ q.txns.rows = rows
               /\ q.accounts = s.accounts /\ q.clean = s.clean
BY DEF ScanShape, ReadShape

\* Staleness is all that a write elsewhere changes in a pending row.
LEMMA DisturbedShape ==
  ASSUME NEW p, NEW all \in BOOLEAN, DOMAIN p = Tab, \A t \in Tab : PendShape(p[t])
  PROVE  /\ DOMAIN Disturbed(p, all) = Tab
         /\ \A t \in Tab :
              LET q == Disturbed(p, all)[t]
              IN /\ PendShape(q) /\ q.op = p[t].op
                 /\ p[t] = None => q = None
                 /\ p[t] # None => Write(q) /\ q # None /\ q.row = p[t].row
                 /\ p[t] # None => (q.stale <=> p[t].stale \/ all \/ p[t].op = "account")
<1>1. DOMAIN Disturbed(p, all) = Tab
  BY DEF Disturbed
<1>2. ASSUME NEW t \in Tab
      PROVE  LET q == Disturbed(p, all)[t]
             IN /\ PendShape(q) /\ q.op = p[t].op
                /\ p[t] = None => q = None
                /\ p[t] # None => Write(q) /\ q # None /\ q.row = p[t].row
                /\ p[t] # None => (q.stale <=> p[t].stale \/ all \/ p[t].op = "account")
  <2>1. Disturbed(p, all)[t] = IF p[t].op # "none" /\ (all \/ p[t].op = "account")
                               THEN [p[t] EXCEPT !.stale = TRUE] ELSE p[t]
    BY DEF Disturbed
  <2>2. CASE p[t] = None
    BY <2>1, <2>2 DEF PendShape, None
  <2>3. CASE p[t] # None
    <3>1. Write(p[t]) /\ p[t].op \in {"account", "txn"} /\ p[t].stale \in BOOLEAN
      BY <2>3 DEF PendShape, Write
    <3> DEFINE w == [p[t] EXCEPT !.stale = TRUE]
    <3>2. Write(w) /\ w.op = p[t].op /\ w.row = p[t].row /\ w.stale = TRUE
      BY <3>1, StaleFields
    <3>3. w # None
      BY <3>1, <3>2 DEF None
    <3> HIDE DEF w
    <3>4. Disturbed(p, all)[t] = IF all \/ p[t].op = "account" THEN w ELSE p[t]
      BY <2>1, <3>1 DEF w
    <3>5. CASE all \/ p[t].op = "account"
      BY <2>3, <3>2, <3>3, <3>4, <3>5 DEF PendShape
    <3>6. CASE ~ (all \/ p[t].op = "account")
      BY <2>3, <3>1, <3>4, <3>6 DEF PendShape
    <3> QED
      BY <3>5, <3>6
  <2> QED
    BY <2>2, <2>3
<1> QED
  BY <1>1, <1>2

\* An export that a write tears keeps what it has read.
LEMMA TornShape ==
  ASSUME Shapes
  PROVE  /\ DOMAIN TornScans = Tab
         /\ \A t \in Tab :
              /\ ScanShape(TornScans[t])
              /\ TornScans[t].accounts = scan[t].accounts /\ TornScans[t].txns = scan[t].txns
              /\ TornScans[t].clean <=>
                   scan[t].clean /\ scan[t].accounts.read = scan[t].txns.read
<1>1. ASSUME NEW t \in Tab
      PROVE  /\ ScanShape(TornScans[t])
             /\ TornScans[t].accounts = scan[t].accounts /\ TornScans[t].txns = scan[t].txns
             /\ TornScans[t].clean <=>
                  scan[t].clean /\ scan[t].accounts.read = scan[t].txns.read
  <2> DEFINE s == scan[t]
             w == [s EXCEPT !.clean = FALSE]
  <2>1. ScanShape(s)
    BY DEF Shapes
  <2>2. TornScans[t] = IF s.accounts.read # s.txns.read THEN w ELSE s
    BY DEF TornScans
  <2>3. ScanShape(w) /\ w.accounts = s.accounts /\ w.txns = s.txns /\ w.clean = FALSE
    BY <2>1, ScanFields
  <2> HIDE DEF w
  <2> QED
    BY <2>1, <2>2, <2>3
<1>2. DOMAIN TornScans = Tab
  BY DEF TornScans
<1> QED
  BY <1>1, <1>2

\* One tab's state is replaced by another that has its shape.
LEMMA OneTab ==
  ASSUME Shapes, NEW t \in Tab, NEW v \in TabState, NEW n \in Nat, made <= n, v.counter <= 2 * n,
         tab' = [tab EXCEPT ![t] = v]
  PROVE  tab' \in [Tab -> TabState] /\ \A u \in Tab : tab'[u].counter <= 2 * n
<1>1. tab \in [Tab -> TabState] /\ made \in Nat
  BY DEF Shapes
<1>2. tab' \in [Tab -> TabState]
  BY <1>1
<1>3. ASSUME NEW u \in Tab PROVE tab'[u].counter <= 2 * n
  <2>1. CASE u = t
    BY <1>1, <2>1
  <2>2. CASE u # t
    <3>1. tab'[u] = tab[u] /\ tab[u].counter <= 2 * made /\ tab[u].counter \in Nat
      BY <1>1, <2>2 DEF Shapes, TabState
    <3> QED
      BY <1>1, <3>1
  <2> QED
    BY <2>1, <2>2
<1> QED
  BY <1>2, <1>3

\* One tab's export is replaced by another that has its shape.
LEMMA OneScan ==
  ASSUME Shapes, NEW t \in Tab, NEW v, ScanShape(v), scan' = [scan EXCEPT ![t] = v]
  PROVE  DOMAIN scan' = Tab /\ \A u \in Tab : ScanShape(scan'[u])
BY DEF Shapes

\* An import replaces the stores, and the tab looks at the ledger again or not.
LEMMA ImportReplaces ==
  ASSUME Shapes, NEW t \in Tab, ImportData(t)
  PROVE  /\ \E A, X : ReplaceStores(A, X)
         /\ \E c \in BOOLEAN : tab' = [tab EXCEPT ![t].checks = c]
         /\ UNCHANGED <<backups, made, raced>>
<1>1. PICK b \in backups : \E f \in {b} \cup Cut(b) \cup Recoded(b) :
        \/ ReplaceStores(f.accounts, f.txns) /\ tab' = [tab EXCEPT ![t].checks = TRUE]
        \/ TornReplace(f) /\ UNCHANGED tab
  BY DEF ImportData
<1>2. \E A, X : ReplaceStores(A, X)
  BY <1>1 DEF TornReplace
<1>3. tab' = tab \/ tab' = [tab EXCEPT ![t].checks = TRUE]
  BY <1>1
<1>4. tab[t].checks \in BOOLEAN /\ tab = [tab EXCEPT ![t].checks = tab[t].checks]
  BY DEF Shapes, TabState
<1>5. \E c \in BOOLEAN : tab' = [tab EXCEPT ![t].checks = c]
  BY <1>3, <1>4
<1> QED
  BY <1>2, <1>5 DEF ImportData

\* Every step keeps the fields and the bounds.
LEMMA ShapesStep ==
  ASSUME Shapes, [Next]_vars
  PROVE  Shapes'
<1>0. SUFFICES ASSUME NEW t \in Tab, TabStep(t) PROVE Shapes'
  <2>1. CASE UNCHANGED vars
    BY <2>1 DEF Shapes, vars
  <2>2. CASE Next
    BY <2>2 DEF Next
  <2> QED
    BY <2>1, <2>2
<1> DEFINE Tabs(f, n) == f \in [Tab -> TabState] /\ \A u \in Tab : f[u].counter <= 2 * n
           Pends(f) == DOMAIN f = Tab /\ \A u \in Tab : PendShape(f[u])
           Scans(f) == DOMAIN f = Tab /\ \A u \in Tab : ScanShape(f[u])
<1>a. tab[t] \in TabState /\ tab[t].counter \in Nat /\ tab[t].counter <= 2 * made
  BY DEF Shapes, TabState
<1>b. made \in Nat /\ made <= made /\ 0 <= 2 * made
  BY DEF Shapes
<1>c. Tabs(tab, made) /\ Pends(pend) /\ Scans(scan) /\ ScanShape(scan[t])
  BY DEF Shapes
<1>d. Pends([pend EXCEPT ![t] = None])
  BY <1>c DEF PendShape
<1>e. ASSUME Tabs(tab', made'), Pends(pend'), Scans(scan'), \A b \in backups' : BackupShape(b),
             made' \in Nat, made' <= MaxMade, wipes' \in Nat, wipes' <= MaxWipes,
             raced' \in BOOLEAN
      PROVE  Shapes'
  BY <1>e DEF Shapes
<1>f. /\ made <= MaxMade /\ wipes \in Nat /\ wipes <= MaxWipes /\ raced \in BOOLEAN
      /\ \A b \in backups : BackupShape(b)
  BY DEF Shapes
<1>g. ASSUME NEW k \in {1, 2}, made < MaxMade, made' = made + 1,
             tab' = [tab EXCEPT ![t].counter = @ + k], NEW v, Write(v), pend' = [pend EXCEPT ![t] = v],
             UNCHANGED <<scan, backups, wipes, raced>>
      PROVE  Shapes'
  <2> DEFINE w == [tab[t] EXCEPT !.counter = @ + k]
  <2>1. made' \in Nat /\ made' <= MaxMade /\ made <= made'
    BY <1>b, <1>g, LocalAssumption DEF LocalAssumption
  <2>2. tab' = [tab EXCEPT ![t] = w]
    BY <1>g
  <2>3. w \in TabState /\ w.counter = tab[t].counter + k
    <3>1. tab[t].counter + k \in Nat
      BY <1>a
    <3> QED
      BY <1>a, <3>1, TabFields
  <2>4. w.counter <= 2 * made'
    BY <1>a, <1>b, <1>g, <2>3
  <2> HIDE DEF w
  <2>5. Tabs(tab', made')
    BY <2>1, <2>2, <2>3, <2>4, OneTab
  <2>6. Pends(pend')
    BY <1>c, <1>g DEF PendShape
  <2> HIDE DEF Tabs, Pends, Scans
  <2> QED
    BY <1>c, <1>e, <1>f, <1>g, <2>1, <2>5, <2>6
<1>1. CASE \E c \in Codes : CreateAccount(t, c)
  <2>1. PICK c \in Codes : CreateAccount(t, c)
    BY <1>1
  <2> DEFINE v == [op |-> "account", stale |-> FALSE,
                   row |-> [id |-> NewId(t, "a"), code |-> c]]
  <2>2. Write(v)
    BY DEF Write
  <2>3. /\ made < MaxMade /\ made' = made + 1 /\ tab' = [tab EXCEPT ![t].counter = @ + 1]
        /\ pend' = [pend EXCEPT ![t] = v] /\ UNCHANGED <<scan, backups, wipes, raced>>
    BY <2>1 DEF CreateAccount
  <2> HIDE DEF v
  <2> QED
    BY <1>g, <2>2, <2>3
<1>2. CASE \E b \in NewBodies : CreateTxn(t, b)
  <2>1. PICK b \in NewBodies : CreateTxn(t, b)
    BY <1>2
  <2> DEFINE v == [op |-> "txn", stale |-> FALSE,
                   row |-> [id |-> NewId(t, "t"), seq |-> tab[t].counter + 2,
                            by |-> <<t, tab[t].reloads>>, day |-> Resolve(accounts, b).day,
                            entries |-> Resolve(accounts, b).entries]]
  <2>2. Write(v)
    BY DEF Write
  <2>3. /\ made < MaxMade /\ made' = made + 1 /\ tab' = [tab EXCEPT ![t].counter = @ + 2]
        /\ pend' = [pend EXCEPT ![t] = v] /\ UNCHANGED <<scan, backups, wipes, raced>>
    BY <2>1 DEF CreateTxn
  <2> HIDE DEF v
  <2> QED
    BY <1>g, <2>2, <2>3
<1>3. CASE PutRow(t)
  <2>1. Scans(scan')
    BY <1>3, TornShape DEF PutRow
  <2> DEFINE p == [pend EXCEPT ![t] = None]
  <2>2. Pends(p)
    BY <1>d
  <2>3. pend' = p \/ pend' = Disturbed(p, FALSE)
    BY <1>3 DEF PutRow
  <2> HIDE DEF p
  <2>4. Pends(pend')
    BY <2>2, <2>3, DisturbedShape
  <2>5. raced' \in BOOLEAN /\ UNCHANGED <<tab, backups, made, wipes>>
    BY <1>3 DEF PutRow
  <2> HIDE DEF Tabs, Pends, Scans
  <2> QED
    BY <1>b, <1>c, <1>e, <1>f, <2>1, <2>4, <2>5
<1>4. ASSUME NEW v, ScanShape(v), scan' = [scan EXCEPT ![t] = v],
             \A b \in backups' : BackupShape(b),
             UNCHANGED <<accounts, txns, tab, pend, made, wipes, raced>>
      PROVE  Shapes'
  <2>1. Scans(scan')
    BY <1>4, OneScan
  <2> HIDE DEF Tabs, Pends, Scans
  <2> QED
    BY <1>b, <1>c, <1>e, <1>f, <1>4, <2>1
<1>5. CASE ReadAccounts(t)
  <2> DEFINE v == [scan[t] EXCEPT !.accounts = [read |-> TRUE, rows |-> accounts]]
  <2>1. ScanShape(v)
    BY <1>c, ScanFields
  <2>2. /\ scan' = [scan EXCEPT ![t] = v]
        /\ UNCHANGED <<accounts, txns, tab, pend, backups, made, wipes, raced>>
    BY <1>5 DEF ReadAccounts
  <2> HIDE DEF v
  <2> QED
    BY <1>4, <1>f, <2>1, <2>2
<1>6. CASE ReadTxns(t)
  <2> DEFINE v == [scan[t] EXCEPT !.txns = [read |-> TRUE, rows |-> txns]]
  <2>1. ScanShape(v)
    BY <1>c, ScanFields
  <2>2. /\ scan' = [scan EXCEPT ![t] = v]
        /\ UNCHANGED <<accounts, txns, tab, pend, backups, made, wipes, raced>>
    BY <1>6 DEF ReadTxns
  <2> HIDE DEF v
  <2> QED
    BY <1>4, <1>f, <2>1, <2>2
<1>7. CASE ExportData(t)
  <2> DEFINE c == scan[t].clean /\ ~ raced
             n == [accounts |-> scan[t].accounts.rows, txns |-> scan[t].txns.rows, clean |-> c]
  <2>1. c \in BOOLEAN
    OBVIOUS
  <2>2. backups' = backups \cup {n} /\ scan' = [scan EXCEPT ![t] = Idle]
        /\ UNCHANGED <<accounts, txns, tab, pend, made, wipes, raced>>
    BY <1>7 DEF ExportData
  <2> HIDE DEF c
  <2>3. BackupShape(n)
    BY <2>1 DEF BackupShape
  <2>4. ScanShape(Idle)
    BY DEF ScanShape, ReadShape, Idle, Unread
  <2> HIDE DEF n
  <2> QED
    BY <1>4, <1>f, <2>2, <2>3, <2>4
<1>8. CASE IsEmpty(t)
  <2>1. PICK more \in BOOLEAN :
          tab' = [tab EXCEPT ![t].empty = (accounts = {} /\ txns = {}), ![t].checks = more]
    BY <1>8 DEF IsEmpty
  <2> DEFINE e == accounts = {} /\ txns = {}
             v == [tab[t] EXCEPT !.empty = e, !.checks = more]
  <2>2. e \in BOOLEAN
    OBVIOUS
  <2>3. tab' = [tab EXCEPT ![t] = v]
    BY <1>c, <2>1
  <2> HIDE DEF e
  <2>4. v \in TabState /\ v.counter = tab[t].counter
    BY <1>a, <2>2, TabFields
  <2> HIDE DEF v
  <2>5. Tabs(tab', made)
    BY <1>a, <1>b, <2>3, <2>4, OneTab
  <2>6. UNCHANGED <<pend, scan, backups, made, wipes, raced>>
    BY <1>8 DEF IsEmpty
  <2> HIDE DEF Tabs, Pends, Scans
  <2> QED
    BY <1>b, <1>c, <1>e, <1>f, <2>5, <2>6
<1>9. ASSUME NEW A, NEW X, NEW c \in BOOLEAN, ReplaceStores(A, X), tab' = [tab EXCEPT ![t].checks = c],
             UNCHANGED <<backups, made, raced>>
      PROVE  Shapes'
  <2> DEFINE v == [tab[t] EXCEPT !.checks = c]
  <2>1. tab' = [tab EXCEPT ![t] = v]
    BY <1>9
  <2>2. v \in TabState /\ v.counter = tab[t].counter
    BY <1>a, <1>b, TabFields
  <2> HIDE DEF v
  <2>3. Tabs(tab', made)
    BY <1>a, <1>b, <2>1, <2>2, OneTab
  <2>4. Scans(scan')
    BY <1>9, TornShape DEF ReplaceStores
  <2>5. Pends(pend')
    BY <1>c, <1>9, DisturbedShape DEF ReplaceStores
  <2>6. wipes' \in Nat /\ wipes' <= MaxWipes
    BY <1>9, <1>f, LocalAssumption DEF ReplaceStores, LocalAssumption
  <2> HIDE DEF Tabs, Pends, Scans
  <2> QED
    BY <1>b, <1>e, <1>f, <1>9, <2>3, <2>4, <2>5, <2>6
<1>10. CASE ImportData(t)
  BY <1>9, <1>10, ImportReplaces
<1>11. CASE SeedSample(t)
  BY <1>9, <1>11 DEF SeedSample
<1>12. CASE ResetData(t)
  BY <1>9, <1>12 DEF ResetData
<1>13. CASE Reload(t)
  <2> DEFINE v == [NewTab EXCEPT !.reloads = tab[t].reloads + 1]
  <2>1. tab' = [tab EXCEPT ![t] = v]
    BY <1>13 DEF Reload
  <2>2. tab[t].reloads + 1 \in Nat
    BY <1>a DEF TabState
  <2>3. v \in TabState /\ v.counter = 0
    BY <2>2 DEF NewTab, TabState
  <2> HIDE DEF v
  <2>4. Tabs(tab', made)
    BY <1>b, <2>1, <2>3, OneTab
  <2>5. Pends(pend')
    BY <1>d, <1>13 DEF Reload
  <2>6. ScanShape(Idle)
    BY DEF ScanShape, ReadShape, Idle, Unread
  <2>7. Scans(scan')
    BY <1>13, <2>6, OneScan DEF Reload
  <2>8. UNCHANGED <<backups, made, wipes, raced>>
    BY <1>13 DEF Reload
  <2> HIDE DEF Tabs, Pends, Scans
  <2> QED
    BY <1>b, <1>c, <1>e, <1>f, <2>4, <2>5, <2>7, <2>8
<1> QED
  BY <1>0, <1>1, <1>2, <1>3, <1>5, <1>6, <1>7, <1>8, <1>10, <1>11, <1>12, <1>13 DEF TabStep

----------------------------------------------------------------------------
(* What a step of a tab does *)

\* A pending row stays pending, and its tab is not loaded again.
Kept(u) ==
  /\ pend[u] # None /\ pend'[u] # None /\ pend'[u].op = pend[u].op
  /\ pend'[u].row = pend[u].row /\ tab'[u].reloads = tab[u].reloads

\* A new row is validated.
Validated(u) ==
  \/ \E c \in Codes : CreateAccount(u, c)
  \/ \E b \in NewBodies : CreateTxn(u, b)

\* Within a session the counter never falls.
Grown(u) ==
  /\ tab[u].reloads <= tab'[u].reloads
  /\ tab[u].reloads = tab'[u].reloads => tab[u].counter <= tab'[u].counter

\* Pending rows of other tabs stay, and sessions and counters go forward.
LEMMA TabEffect ==
  ASSUME Shapes, NEW t \in Tab, TabStep(t)
  PROVE  /\ made' \in Nat /\ made <= made'
         /\ \A u \in Tab : Grown(u)
         /\ \A u \in Tab : pend'[u] = None \/ Kept(u) \/ (u = t /\ Validated(t))
         /\ PutRow(t) => pend'[t] = None
<1>0. SUFFICES /\ made' \in Nat /\ made <= made'
               /\ \A u \in Tab : Grown(u)
               /\ \A u \in Tab : pend'[u] = None \/ Kept(u) \/ (u = t /\ Validated(t))
  <2>1. ASSUME PutRow(t), Kept(t) PROVE FALSE
    <3> DEFINE p == [pend EXCEPT ![t] = None]
    <3>1. DOMAIN p = Tab /\ p[t] = None /\ \A u \in Tab : PendShape(p[u])
      BY DEF Shapes, PendShape
    <3>2. pend' = p \/ pend' = Disturbed(p, FALSE)
      BY <2>1 DEF PutRow
    <3> HIDE DEF p
    <3>3. Disturbed(p, FALSE)[t] = None
      BY <3>1, DisturbedShape
    <3> QED
      BY <2>1, <3>1, <3>2, <3>3 DEF Kept
  <2>2. ASSUME PutRow(t), Validated(t) PROVE FALSE
    BY <2>2 DEF PutRow, Validated, CreateAccount, CreateTxn
  <2> QED
    BY <2>1, <2>2
<1>a. tab[t] \in TabState /\ tab[t].counter \in Nat /\ tab[t].reloads \in Nat
      /\ tab[t].counter <= tab[t].counter /\ DOMAIN tab = Tab
  BY DEF Shapes, TabState
<1>b. made \in Nat /\ made <= made
  BY DEF Shapes
<1>c. \A u \in Tab : tab[u].reloads \in Nat /\ tab[u].counter \in Nat
  BY DEF Shapes, TabState
<1>d. DOMAIN pend = Tab /\ \A u \in Tab : PendShape(pend[u])
  BY DEF Shapes
<1>1. ASSUME NEW v, tab' = [tab EXCEPT ![t] = v], v.reloads = tab[t].reloads,
             tab[t].counter <= v.counter
      PROVE  \A u \in Tab : Grown(u) /\ tab'[u].reloads = tab[u].reloads
  <2> SUFFICES ASSUME NEW u \in Tab PROVE Grown(u) /\ tab'[u].reloads = tab[u].reloads
    OBVIOUS
  <2>1. CASE u = t
    BY <1>1, <1>a, <2>1 DEF Grown
  <2>2. CASE u # t
    <3>1. tab'[u] = tab[u]
      BY <1>1, <1>a, <2>2
    <3> QED
      BY <1>c, <3>1 DEF Grown
  <2> QED
    BY <2>1, <2>2
<1>2. ASSUME UNCHANGED tab
      PROVE  \A u \in Tab : Grown(u) /\ tab'[u].reloads = tab[u].reloads
  BY <1>2, <1>c DEF Grown
<1>3. ASSUME NEW u \in Tab, pend'[u] = pend[u], tab'[u].reloads = tab[u].reloads
      PROVE  pend'[u] = None \/ Kept(u)
  BY <1>3 DEF Kept
<1>4. CASE Validated(t)
  <2>a. \E k \in {1, 2} : \E v :
          /\ made' = made + 1 /\ tab' = [tab EXCEPT ![t].counter = @ + k]
          /\ pend' = [pend EXCEPT ![t] = v]
    <3>1. CASE \E c \in Codes : CreateAccount(t, c)
      BY <3>1 DEF CreateAccount
    <3>2. CASE \E b \in NewBodies : CreateTxn(t, b)
      BY <3>2 DEF CreateTxn
    <3> QED
      BY <1>4, <3>1, <3>2 DEF Validated
  <2>b. PICK k \in {1, 2} :
          \E v : /\ made' = made + 1 /\ tab' = [tab EXCEPT ![t].counter = @ + k]
                /\ pend' = [pend EXCEPT ![t] = v]
    BY <2>a
  <2>1. PICK v : /\ made' = made + 1 /\ tab' = [tab EXCEPT ![t].counter = @ + k]
                 /\ pend' = [pend EXCEPT ![t] = v]
    BY <2>b
  <2> DEFINE w == [tab[t] EXCEPT !.counter = @ + k]
  <2>2. tab' = [tab EXCEPT ![t] = w]
    BY <2>1
  <2>3. tab[t].counter + k \in Nat /\ tab[t].counter <= tab[t].counter + k
    BY <1>a
  <2>4. w.reloads = tab[t].reloads /\ w.counter = tab[t].counter + k
    BY <1>a, <2>3, TabFields
  <2> HIDE DEF w
  <2>5. \A u \in Tab : Grown(u) /\ tab'[u].reloads = tab[u].reloads
    BY <1>1, <2>2, <2>3, <2>4
  <2>6. \A u \in Tab : u # t => pend'[u] = pend[u]
    BY <1>d, <2>1
  <2>7. made' \in Nat /\ made <= made'
    BY <1>b, <2>1
  <2> QED
    BY <1>3, <1>4, <2>5, <2>6, <2>7
<1>5. CASE PutRow(t)
  <2>1. UNCHANGED <<tab, made>>
    BY <1>5 DEF PutRow
  <2> DEFINE p == [pend EXCEPT ![t] = None]
  <2>2. DOMAIN p = Tab /\ \A u \in Tab : PendShape(p[u])
    BY <1>d DEF PendShape
  <2>3. pend' = p \/ pend' = Disturbed(p, FALSE)
    BY <1>5 DEF PutRow
  <2>4. p[t] = None /\ \A u \in Tab : u # t => p[u] = pend[u]
    BY <1>d
  <2> HIDE DEF p
  <2>3a. \A u \in Tab :
           /\ p[u] = None => pend'[u] = None
           /\ p[u] # None => pend'[u] # None /\ pend'[u].op = p[u].op /\ pend'[u].row = p[u].row
    <3>1. CASE pend' = p
      BY <3>1
    <3>2. CASE pend' = Disturbed(p, FALSE)
      BY <2>2, <3>2, DisturbedShape
    <3> QED
      BY <2>3, <3>1, <3>2
  <2>5. pend'[t] = None
    BY <2>3a, <2>4
  <2>6. ASSUME NEW u \in Tab, u # t PROVE pend'[u] = None \/ Kept(u)
    <3>1. tab'[u].reloads = tab[u].reloads
      BY <2>1
    <3>2. CASE pend[u] = None
      BY <2>3a, <2>4, <2>6, <3>2
    <3>3. CASE pend[u] # None
      <4>1. pend'[u] # None /\ pend'[u].op = pend[u].op /\ pend'[u].row = pend[u].row
        BY <2>3a, <2>4, <2>6, <3>3
      <4> QED
        BY <3>1, <3>3, <4>1 DEF Kept
    <3> QED
      BY <3>2, <3>3
  <2>7. \A u \in Tab : Grown(u)
    BY <1>2, <2>1
  <2> QED
    BY <1>b, <2>1, <2>5, <2>6, <2>7
<1>6. CASE ReadAccounts(t) \/ ReadTxns(t) \/ ExportData(t)
  <2>1. UNCHANGED <<tab, pend, made>>
    BY <1>6 DEF ReadAccounts, ReadTxns, ExportData
  <2> QED
    BY <1>b, <1>2, <1>3, <2>1
<1>7. CASE IsEmpty(t)
  <2>1. PICK more \in BOOLEAN :
          tab' = [tab EXCEPT ![t].empty = (accounts = {} /\ txns = {}), ![t].checks = more]
    BY <1>7 DEF IsEmpty
  <2> DEFINE e == accounts = {} /\ txns = {}
             v == [tab[t] EXCEPT !.empty = e, !.checks = more]
  <2>2. e \in BOOLEAN
    OBVIOUS
  <2>3. tab' = [tab EXCEPT ![t] = v]
    BY <1>a, <2>1
  <2> HIDE DEF e
  <2>4. v.reloads = tab[t].reloads /\ v.counter = tab[t].counter
    BY <1>a, <2>2, TabFields
  <2> HIDE DEF v
  <2>5. \A u \in Tab : Grown(u) /\ tab'[u].reloads = tab[u].reloads
    BY <1>1, <1>a, <2>3, <2>4
  <2>6. UNCHANGED <<pend, made>>
    BY <1>7 DEF IsEmpty
  <2> QED
    BY <1>b, <1>3, <2>5, <2>6
<1>8. ASSUME NEW A, NEW X, NEW c \in BOOLEAN, ReplaceStores(A, X), tab' = [tab EXCEPT ![t].checks = c],
             UNCHANGED made
      PROVE  /\ made' \in Nat /\ made <= made'
             /\ \A u \in Tab : Grown(u) /\ (pend'[u] = None \/ Kept(u))
  <2> DEFINE v == [tab[t] EXCEPT !.checks = c]
  <2>1. tab' = [tab EXCEPT ![t] = v]
    BY <1>8
  <2>2. v.reloads = tab[t].reloads /\ v.counter = tab[t].counter
    BY <1>a, <1>b, TabFields
  <2> HIDE DEF v
  <2>3. \A u \in Tab : Grown(u) /\ tab'[u].reloads = tab[u].reloads
    BY <1>1, <1>a, <2>1, <2>2
  <2>4. pend' = Disturbed(pend, TRUE)
    BY <1>8 DEF ReplaceStores
  <2>5. ASSUME NEW u \in Tab PROVE pend'[u] = None \/ Kept(u)
    <3>1. CASE pend[u] = None
      BY <1>d, <2>4, <3>1, DisturbedShape
    <3>2. CASE pend[u] # None
      <4>1. pend'[u] # None /\ pend'[u].op = pend[u].op /\ pend'[u].row = pend[u].row
        BY <1>d, <2>4, <3>2, DisturbedShape
      <4> QED
        BY <2>3, <3>2, <4>1 DEF Kept
    <3> QED
      BY <3>1, <3>2
  <2> QED
    BY <1>b, <1>8, <2>3, <2>5
<1>9. CASE ImportData(t) \/ SeedSample(t) \/ ResetData(t)
  <2>1. \E A, X : ReplaceStores(A, X)
    BY <1>9, ImportReplaces DEF SeedSample, ResetData
  <2>2. (\E c \in BOOLEAN : tab' = [tab EXCEPT ![t].checks = c]) /\ UNCHANGED made
    BY <1>9, ImportReplaces DEF SeedSample, ResetData
  <2> QED
    BY <1>8, <2>1, <2>2
<1>10. CASE Reload(t)
  <2> DEFINE v == [NewTab EXCEPT !.reloads = tab[t].reloads + 1]
  <2>1. tab' = [tab EXCEPT ![t] = v]
    BY <1>10 DEF Reload
  <2>2. v.reloads = tab[t].reloads + 1
    BY DEF NewTab
  <2> HIDE DEF v
  <2>3. tab'[t] = v /\ \A u \in Tab : u # t => tab'[u] = tab[u]
    BY <1>a, <2>1
  <2>4. Grown(t)
    BY <1>a, <2>2, <2>3 DEF Grown
  <2>5. \A u \in Tab : u # t => Grown(u)
    BY <1>c, <2>3 DEF Grown
  <2>6. pend'[t] = None /\ \A u \in Tab : u # t => pend'[u] = pend[u]
    BY <1>d, <1>10 DEF Reload
  <2>7. UNCHANGED made
    BY <1>10 DEF Reload
  <2> QED
    BY <1>b, <1>3, <2>3, <2>4, <2>5, <2>6, <2>7
<1> QED
  BY <1>4, <1>5, <1>6, <1>7, <1>9, <1>10 DEF TabStep, Validated

\* An export keeps what it has read, reads what is stored, or starts anew.
LEMMA ScanEffect ==
  ASSUME Shapes, NEW t \in Tab, TabStep(t), NEW u \in Tab
  PROVE  /\ scan'[u].accounts.rows \in {scan[u].accounts.rows, accounts, {}}
         /\ scan'[u].txns.rows \in {scan[u].txns.rows, txns, {}}
<1>a. DOMAIN scan = Tab /\ ScanShape(scan[t])
  BY DEF Shapes
<1>1. CASE UNCHANGED scan
  BY <1>1
<1>2. CASE scan' = TornScans
  BY <1>2, TornShape
<1>3. CASE ReadAccounts(t)
  <2> DEFINE v == [scan[t] EXCEPT !.accounts = [read |-> TRUE, rows |-> accounts]]
  <2>1. scan' = [scan EXCEPT ![t] = v]
    BY <1>3 DEF ReadAccounts
  <2>2. v.accounts.rows = accounts /\ v.txns = scan[t].txns
    BY <1>a, ScanFields
  <2> HIDE DEF v
  <2> QED
    BY <1>a, <2>1, <2>2
<1>4. CASE ReadTxns(t)
  <2> DEFINE v == [scan[t] EXCEPT !.txns = [read |-> TRUE, rows |-> txns]]
  <2>1. scan' = [scan EXCEPT ![t] = v]
    BY <1>4 DEF ReadTxns
  <2>2. v.txns.rows = txns /\ v.accounts = scan[t].accounts
    BY <1>a, ScanFields
  <2> HIDE DEF v
  <2> QED
    BY <1>a, <2>1, <2>2
<1>5. CASE scan' = [scan EXCEPT ![t] = Idle]
  <2>1. Idle.accounts.rows = {} /\ Idle.txns.rows = {}
    BY DEF Idle, Unread
  <2> QED
    BY <1>a, <1>5, <2>1
<1>6. \/ UNCHANGED scan \/ scan' = TornScans \/ ReadAccounts(t) \/ ReadTxns(t)
      \/ scan' = [scan EXCEPT ![t] = Idle]
  BY ImportReplaces DEF TabStep, CreateAccount, CreateTxn, PutRow, ExportData, IsEmpty, SeedSample,
     ResetData, Reload, ReplaceStores
<1> QED
  BY <1>1, <1>2, <1>3, <1>4, <1>5, <1>6

\* The transactions of a backup, or those with the entries of a row cut off, if all of them
\* have two entries.
Restored(S) ==
  \E b \in backups :
    \/ S = b.txns
    \/ \E x \in b.txns :
         /\ S = (b.txns \ {x}) \cup {[x EXCEPT !.entries = SubSeq(x.entries, 1, 1)]}
         /\ \A y \in S : Len(y.entries) >= 2

\* Accounts that have identifiers of some book, whatever their codes, or the typed one.
Renamed(S) ==
  \E T \in AccountBooks : \A a \in S : a.id = TypedId \/ \E x \in T : x.id = a.id

\* A file that is imported has identifiers of a backup and transactions of it.
LEMMA FileEffect ==
  ASSUME Shapes, NEW b \in backups, NEW f \in {b} \cup Cut(b) \cup Recoded(b), Importable(f)
  PROVE  Renamed(f.accounts) /\ Restored(f.txns)
<1>1. BackupShape(b) /\ b.accounts \in AccountBooks
  BY DEF Shapes, AccountBooks
<1>2. \A y \in f.txns : Len(y.entries) >= 2
  BY DEF Importable, ValidateTxnBody
<1>3. Renamed(b.accounts)
  BY <1>1 DEF Renamed
<1>4. CASE f = b
  BY <1>3, <1>4 DEF Restored
<1>5. CASE f \in Cut(b)
  <2>1. PICK x \in b.txns :
          f = [b EXCEPT !.txns =
                 (b.txns \ {x}) \cup {[x EXCEPT !.entries = SubSeq(x.entries, 1, 1)]}]
    BY <1>5 DEF Cut
  <2> DEFINE S == (b.txns \ {x}) \cup {[x EXCEPT !.entries = SubSeq(x.entries, 1, 1)]}
  <2>2. f = [b EXCEPT !.txns = S]
    BY <2>1
  <2> HIDE DEF S
  <2>3. f.accounts = b.accounts /\ f.txns = S
    BY <1>1, <2>2 DEF BackupShape
  <2> QED
    BY <1>2, <1>3, <2>3 DEF Restored, S
<1>6. CASE f \in Recoded(b)
  <2> DEFINE ids == {a.id : a \in b.accounts} \cup {TypedId}
  <2>0. PICK kept \in SUBSET ids : \E code \in [kept -> Codes] :
          f = [b EXCEPT !.accounts = {[id |-> i, code |-> code[i]] : i \in kept}]
    BY <1>6 DEF Recoded
  <2>1. PICK code \in [kept -> Codes] :
          f = [b EXCEPT !.accounts = {[id |-> i, code |-> code[i]] : i \in kept}]
    BY <2>0
  <2> DEFINE A == {[id |-> i, code |-> code[i]] : i \in kept}
  <2>2. f = [b EXCEPT !.accounts = A]
    BY <2>1
  <2>3. \A a \in A : a.id \in ids
    OBVIOUS
  <2> HIDE DEF A
  <2>4. f.accounts = A /\ f.txns = b.txns
    BY <1>1, <2>2 DEF BackupShape
  <2>5. Renamed(A)
    BY <1>1, <2>3 DEF Renamed
  <2> QED
    BY <2>4, <2>5 DEF Restored
<1> QED
  BY <1>4, <1>5, <1>6

\* An import puts all of a file into the stores, or a consistent part of it.
LEMMA ImportEffect ==
  ASSUME Shapes, NEW t \in Tab, ImportData(t)
  PROVE  \E A, X, S :
           /\ ReplaceStores(A, X) /\ Consistent(A, X)
           /\ Renamed(A) /\ Restored(S) /\ X \subseteq S
<1>1. PICK b \in backups : \E f \in {b} \cup Cut(b) \cup Recoded(b) :
        Importable(f) /\ (ReplaceStores(f.accounts, f.txns) \/ TornReplace(f))
  BY DEF ImportData
<1>2. PICK f \in {b} \cup Cut(b) \cup Recoded(b) :
        Importable(f) /\ (ReplaceStores(f.accounts, f.txns) \/ TornReplace(f))
  BY <1>1
<1>3. Renamed(f.accounts) /\ Restored(f.txns)
  BY <1>2, FileEffect
<1>4. \A X \in SUBSET f.txns : Consistent(f.accounts, X)
  BY <1>2 DEF Importable, Consistent
<1>5. CASE ReplaceStores(f.accounts, f.txns)
  BY <1>3, <1>4, <1>5
<1>6. ASSUME NEW A \in SUBSET f.accounts, ReplaceStores(A, {})
      PROVE  ReplaceStores(A, {}) /\ Consistent(A, {}) /\ Renamed(A) /\ {} \subseteq f.txns
  BY <1>3, <1>6 DEF Consistent, Renamed
<1>7. ASSUME NEW X \in SUBSET f.txns, ReplaceStores(f.accounts, X)
      PROVE  ReplaceStores(f.accounts, X) /\ Consistent(f.accounts, X) /\ X \subseteq f.txns
  BY <1>4, <1>7
<1>8. CASE TornReplace(f)
  <2>1. CASE \E A \in SUBSET f.accounts : ReplaceStores(A, {})
    BY <1>3, <1>6, <2>1
  <2>2. CASE \E X \in SUBSET f.txns : ReplaceStores(f.accounts, X)
    BY <1>3, <1>7, <2>2
  <2> QED
    BY <1>8, <2>1, <2>2 DEF TornReplace
<1> QED
  BY <1>2, <1>5, <1>8

\* Where the contents of the stores come from.
LEMMA StoreEffect ==
  ASSUME Shapes, NEW t \in Tab, TabStep(t)
  PROVE  /\ \/ Renamed(accounts') \/ accounts' = SampleAccounts
            \/ PutRow(t) /\ pend[t].op = "account" /\ accounts' = Put(accounts, pend[t].row)
         /\ \/ txns' \in {txns, {}, SampleTxns} \/ \E S : Restored(S) /\ txns' \subseteq S
            \/ PutRow(t) /\ pend[t].op = "txn" /\ txns' = Put(txns, pend[t].row)
<1>0. Renamed(accounts) /\ Renamed({})
  BY DEF Renamed, AccountBooks
<1>1. CASE UNCHANGED <<accounts, txns>>
  <2>1. Renamed(accounts')
    BY <1>0, <1>1
  <2> QED
    BY <1>1, <2>1
<1>2. CASE PutRow(t)
  <2>1. pend[t].op \in {"account", "txn"}
    BY <1>2 DEF PutRow, Shapes, PendShape, Write
  <2>2. CASE pend[t].op = "account"
    BY <1>2, <2>2 DEF PutRow
  <2>3. CASE pend[t].op = "txn"
    <3>1. accounts' = accounts /\ txns' = Put(txns, pend[t].row)
      BY <1>2, <2>3 DEF PutRow
    <3> QED
      BY <1>0, <1>2, <2>3, <3>1
  <2> QED
    BY <2>1, <2>2, <2>3
<1>3. CASE ImportData(t)
  <2>1. PICK A, X, S : ReplaceStores(A, X) /\ Renamed(A) /\ Restored(S) /\ X \subseteq S
    BY <1>3, ImportEffect
  <2> QED
    BY <2>1 DEF ReplaceStores
<1>4. CASE SeedSample(t)
  BY <1>4 DEF SeedSample, ReplaceStores
<1>5. CASE ResetData(t)
  <2>1. accounts' = {} /\ txns' = {}
    BY <1>5 DEF ResetData, ReplaceStores
  <2> QED
    BY <1>0, <2>1
<1> QED
  BY <1>1, <1>2, <1>3, <1>4, <1>5 DEF TabStep, CreateAccount, CreateTxn, ReadAccounts, ReadTxns,
     ExportData, IsEmpty, Reload

\* Where books come from.
LEMMA BookEffect ==
  ASSUME Shapes, NEW t \in Tab, TabStep(t)
  PROVE  /\ \A S \in AccountBooks' :
              S \in AccountBooks \/ S = {} \/ S = accounts'
         /\ \A S \in TxnBooks' :
              S \in TxnBooks \/ S = {} \/ S = txns'
<1>1. \A u \in Tab : /\ scan'[u].accounts.rows \in AccountBooks \cup {{}}
                     /\ scan'[u].txns.rows \in TxnBooks \cup {{}}
  BY ScanEffect DEF AccountBooks, TxnBooks
<1>2. \A b \in backups' : b.accounts \in AccountBooks /\ b.txns \in TxnBooks
  <2>1. CASE UNCHANGED backups
    BY <2>1 DEF AccountBooks, TxnBooks
  <2>2. CASE ExportData(t)
    <3> DEFINE c == scan[t].clean /\ ~ raced
               n == [accounts |-> scan[t].accounts.rows, txns |-> scan[t].txns.rows, clean |-> c]
    <3>1. backups' = backups \cup {n}
      BY <2>2 DEF ExportData
    <3> HIDE DEF c
    <3>2. n.accounts \in AccountBooks /\ n.txns \in TxnBooks
      BY DEF AccountBooks, TxnBooks
    <3>3. \A b \in backups : b.accounts \in AccountBooks /\ b.txns \in TxnBooks
      BY DEF AccountBooks, TxnBooks
    <3> HIDE DEF n
    <3> QED
      BY <3>1, <3>2, <3>3
  <2>3. UNCHANGED backups \/ ExportData(t)
    BY DEF TabStep, CreateAccount, CreateTxn, PutRow, ReadAccounts, ReadTxns, IsEmpty, ImportData,
       SeedSample, ResetData, Reload
  <2> QED
    BY <2>1, <2>2, <2>3
<1>3. \A S \in AccountBooks' : \/ S = accounts' \/ \E u \in Tab : S = scan'[u].accounts.rows
                               \/ \E b \in backups' : S = b.accounts
  BY DEF AccountBooks
<1>4. \A S \in TxnBooks' : \/ S = txns' \/ \E u \in Tab : S = scan'[u].txns.rows
                           \/ \E b \in backups' : S = b.txns
  BY DEF TxnBooks
<1> QED
  BY <1>1, <1>2, <1>3, <1>4

----------------------------------------------------------------------------
(* Identities *)

\* Order is symmetric, and a row is in order with itself.
LEMMA OrderSymmetric ==
  ASSUME NEW x, NEW y, InOrder(x, y)
  PROVE  InOrder(y, x)
BY DEF InOrder

\* What was handed out stays handed out as sessions and counters go forward.
LEMMA RowStays ==
  ASSUME Shapes, Shapes', made <= made', \A u \in Tab : Grown(u), NEW x, TxnRow(x, tab, made)
  PROVE  TxnRow(x, tab', made')
<1>1. made \in Nat /\ made' \in Nat
  BY DEF Shapes
<1>2. Stamped(x, tab, made)
  BY DEF TxnRow
<1>3. CASE x.id \in {"s"} \X Nat /\ x.by = <<"s", 0>>
  BY <1>3 DEF TxnRow, Stamped
<1>4. CASE ~ (x.id \in {"s"} \X Nat /\ x.by = <<"s", 0>>)
  <2>1. PICK t \in Tab, k \in Nat :
          /\ x.by = <<t, k>> /\ k <= tab[t].reloads
          /\ x.id \in {"t"} \X (1 .. made) /\ x.seq \in Nat
          /\ k = tab[t].reloads => x.seq <= tab[t].counter
    BY <1>2, <1>4 DEF Stamped
  <2>2. /\ tab[t].reloads \in Nat /\ tab'[t].reloads \in Nat
        /\ tab[t].counter \in Nat /\ tab'[t].counter \in Nat
    BY DEF Shapes, TabState
  <2>3. k <= tab'[t].reloads /\ (k = tab'[t].reloads => x.seq <= tab'[t].counter)
    BY <2>1, <2>2 DEF Grown
  <2>4. x.id \in {"t"} \X (1 .. made')
    BY <1>1, <2>1
  <2>5. Stamped(x, tab', made')
    BY <2>1, <2>3, <2>4 DEF Stamped
  <2> QED
    BY <2>5 DEF TxnRow
<1> QED
  BY <1>3, <1>4

\* Accounts the stores hold next have identifiers that were handed out.
LEMMA NextAccounts ==
  ASSUME Shapes, Shapes', Identities, NEW t \in Tab, TabStep(t)
  PROVE  AccountBook(accounts', made')
<1>1. made \in Nat /\ made' \in Nat /\ made <= made'
  BY TabEffect DEF Shapes
<1>2. \A S \in AccountBooks : AccountBook(S, made')
  BY <1>1 DEF Identities, AccountBook
<1>3. AccountBook(SampleAccounts, made')
  BY DEF AccountBook, SampleAccounts
<1>4. CASE pend[t].op = "account" /\ accounts' = Put(accounts, pend[t].row)
  <2>1. pend[t].row.id \in {"a"} \X (1 .. made)
    BY <1>4 DEF Identities, AccountPend
  <2>2. pend[t].row.id \in {"a"} \X (1 .. made')
    BY <1>1, <2>1
  <2>3. AccountBook(accounts, made')
    BY <1>2 DEF AccountBooks
  <2> QED
    BY <1>4, <2>2, <2>3 DEF AccountBook, Put
<1>5. CASE Renamed(accounts')
  <2>1. PICK T \in AccountBooks : \A a \in accounts' : a.id = TypedId \/ \E x \in T : x.id = a.id
    BY <1>5 DEF Renamed
  <2> QED
    BY <1>2, <2>1 DEF AccountBook
<1> QED
  BY <1>3, <1>4, <1>5, StoreEffect

\* Transactions of a book, the sample, a restored file and a row that is written are in order.
LEMMA NextTxns ==
  ASSUME Shapes, Shapes', Identities, NEW t \in Tab, TabStep(t)
  PROVE  TxnBook(txns', tab', made')
<1>1. made <= made' /\ \A u \in Tab : Grown(u)
  BY TabEffect
<1>2. ASSUME NEW S \in TxnBooks PROVE TxnBook(S, tab', made')
  <2>1. TxnBook(S, tab, made)
    BY DEF Identities
  <2> QED
    BY <1>1, <2>1, RowStays DEF TxnBook
<1>3. TxnBook(SampleTxns, tab', made')
  <2>1. ASSUME NEW x \in SampleTxns PROVE TxnRow(x, tab', made') /\ x.by = <<"s", 0>>
    <3>1. PICK i \in DOMAIN BuildLedger : x = MkTxn(i, BuildLedger[i])
      BY DEF SampleTxns
    <3>2. i \in Nat
      BY SampleDays
    <3>3. x.id = <<"s", i>> /\ x.by = <<"s", 0>>
      BY <3>1 DEF MkTxn
    <3>4. x \in [id : {x.id}, seq : {x.seq}, by : {x.by}, day : {x.day}, entries : {x.entries}]
      BY <3>1 DEF MkTxn
    <3>5. Len(x.entries) >= 2
      BY SampleSound
    <3> QED
      BY <3>2, <3>3, <3>4, <3>5 DEF TxnRow, Stamped
  <2>2. \A x, y \in SampleTxns : InOrder(x, y)
    BY <2>1, LocalAssumption DEF InOrder, LocalAssumption
  <2> QED
    BY <2>1, <2>2 DEF TxnBook
<1>4. ASSUME NEW S, Restored(S) PROVE TxnBook(S, tab', made')
  <2>1. PICK b \in backups :
          \/ S = b.txns
          \/ \E x \in b.txns :
               /\ S = (b.txns \ {x}) \cup {[x EXCEPT !.entries = SubSeq(x.entries, 1, 1)]}
               /\ \A y \in S : Len(y.entries) >= 2
    BY <1>4 DEF Restored
  <2>2. b.txns \in TxnBooks /\ TxnBook(b.txns, tab', made')
    BY <1>2 DEF TxnBooks
  <2>3. CASE S = b.txns
    BY <2>2, <2>3
  <2>4. ASSUME NEW x \in b.txns,
               S = (b.txns \ {x}) \cup {[x EXCEPT !.entries = SubSeq(x.entries, 1, 1)]},
               \A y \in S : Len(y.entries) >= 2
        PROVE  TxnBook(S, tab', made')
    <3> DEFINE cut == [x EXCEPT !.entries = SubSeq(x.entries, 1, 1)]
    <3>1. TxnRow(x, tab', made')
      BY <2>2 DEF TxnBook
    <3>2. /\ cut.id = x.id /\ cut.seq = x.seq /\ cut.by = x.by
          /\ cut \in [id : {cut.id}, seq : {cut.seq}, by : {cut.by}, day : {cut.day},
                      entries : {cut.entries}]
      BY <3>1 DEF TxnRow
    <3>3. S = (b.txns \ {x}) \cup {cut}
      BY <2>4
    <3> HIDE DEF cut
    <3>4. TxnRow(cut, tab', made')
      BY <2>4, <3>1, <3>2, <3>3 DEF TxnRow, Stamped
    <3>5. \A y \in S : \E z \in b.txns : y.id = z.id /\ y.seq = z.seq /\ y.by = z.by
      BY <3>2, <3>3
    <3>6. \A y, z \in S : InOrder(y, z)
      <4> SUFFICES ASSUME NEW y \in S, NEW z \in S PROVE InOrder(y, z)
        OBVIOUS
      <4>1. PICK p \in b.txns, q \in b.txns : /\ y.id = p.id /\ y.seq = p.seq /\ y.by = p.by
                                              /\ z.id = q.id /\ z.seq = q.seq /\ z.by = q.by
        BY <3>5
      <4>2. InOrder(p, q)
        BY <2>2 DEF TxnBook
      <4> QED
        BY <4>1, <4>2 DEF InOrder
    <3> QED
      BY <2>2, <3>3, <3>4, <3>6 DEF TxnBook
  <2> QED
    BY <2>1, <2>3, <2>4
<1>5. CASE pend[t].op = "txn" /\ txns' = Put(txns, pend[t].row)
  <2> DEFINE row == pend[t].row
  <2>1. TxnPend(row, t, TxnBooks, tab, made)
    BY <1>5 DEF Identities
  <2>2. txns \in TxnBooks /\ TxnBook(txns, tab', made')
    BY <1>2 DEF TxnBooks
  <2>3. TxnRow(row, tab', made')
    BY <1>1, <2>1, RowStays DEF TxnPend
  <2>4. \A x \in txns : InOrder(x, row) /\ InOrder(row, x)
    BY <2>1, <2>2, OrderSymmetric DEF TxnPend
  <2>5. InOrder(row, row)
    <3>1. row.id[2] \in Nat
      BY <2>1 DEF TxnPend
    <3> QED
      BY <3>1 DEF InOrder
  <2> HIDE DEF row
  <2>6. \A x \in txns' : x \in txns \/ x = row
    BY <1>5 DEF Put, row
  <2> QED
    BY <2>2, <2>3, <2>4, <2>5, <2>6 DEF TxnBook
<1>6. TxnBook({}, tab', made') /\ txns \in TxnBooks
  BY DEF TxnBook, TxnBooks
<1>7. ASSUME NEW S, Restored(S), txns' \subseteq S PROVE TxnBook(txns', tab', made')
  BY <1>4, <1>7 DEF TxnBook
<1> QED
  BY <1>2, <1>3, <1>5, <1>6, <1>7, StoreEffect

\* A row that is being validated gets an identifier and a number that no row has.
LEMMA NewRow ==
  ASSUME Shapes, Shapes', Identities, NEW t \in Tab, Validated(t)
  PROVE  /\ pend[t] = None /\ made' = made + 1 /\ pend'[t].row.id[2] = made'
         /\ AccountBooks' = AccountBooks /\ TxnBooks' = TxnBooks
         /\ pend'[t].op = "account" => AccountPend(pend'[t].row, AccountBooks, made')
         /\ pend'[t].op = "txn" => TxnPend(pend'[t].row, t, TxnBooks, tab', made')
<1>1. DOMAIN pend = Tab /\ DOMAIN tab = Tab /\ made \in Nat
  BY DEF Shapes
<1>2. UNCHANGED <<accounts, txns, scan, backups>> /\ pend[t] = None /\ made' = made + 1
  BY DEF Validated, CreateAccount, CreateTxn
<1>3. AccountBooks' = AccountBooks /\ TxnBooks' = TxnBooks
  BY <1>2 DEF AccountBooks, TxnBooks
<1>4. ASSUME NEW c \in Codes, CreateAccount(t, c)
      PROVE  /\ pend'[t].row.id[2] = made' /\ pend'[t].op = "account"
             /\ AccountPend(pend'[t].row, AccountBooks, made')
  <2> DEFINE row == [id |-> <<"a", made + 1>>, code |-> c]
  <2>1. pend'[t] = [op |-> "account", stale |-> FALSE, row |-> row]
    BY <1>1, <1>4 DEF CreateAccount, NewId
  <2>2. row.id \in {"a"} \X (1 .. made')
    BY <1>1, <1>2
  <2>3. ASSUME NEW S \in AccountBooks, NEW a \in S PROVE a.id # row.id
    <3>1. a.id \in ({"s"} \X Codes) \cup ({"a"} \X (1 .. made)) \cup {TypedId}
      BY DEF Identities, AccountBook
    <3> QED
      BY <1>1, <3>1 DEF TypedId
  <2>4. row \in [id : {row.id}, code : Codes]
    OBVIOUS
  <2>5. row.id[2] = made'
    BY <1>2
  <2> HIDE DEF row
  <2> QED
    BY <2>1, <2>2, <2>3, <2>4, <2>5 DEF AccountPend, Unused
<1>5. ASSUME NEW b \in NewBodies, CreateTxn(t, b)
      PROVE  /\ pend'[t].row.id[2] = made' /\ pend'[t].op = "txn"
             /\ TxnPend(pend'[t].row, t, TxnBooks, tab', made')
  <2> DEFINE n == Resolve(accounts, b)
             row == [id |-> <<"t", made + 1>>, seq |-> tab[t].counter + 2,
                     by |-> <<t, tab[t].reloads>>, day |-> n.day, entries |-> n.entries]
  <2>1. pend'[t] = [op |-> "txn", stale |-> FALSE, row |-> row]
    BY <1>1, <1>5 DEF CreateTxn, NewId
  <2>2. Len(n.entries) >= 2
    BY <1>5 DEF CreateTxn, ValidateTxnBody
  <2>3. /\ tab[t].counter \in Nat /\ tab[t].reloads \in Nat
        /\ tab'[t].counter = tab[t].counter + 2 /\ tab'[t].reloads = tab[t].reloads
    <3> DEFINE w == [tab[t] EXCEPT !.counter = @ + 2]
    <3>1. tab[t] \in TabState
      BY DEF Shapes
    <3>2. tab[t].counter \in Nat /\ tab[t].reloads \in Nat /\ tab[t].counter + 2 \in Nat
      BY <3>1 DEF TabState
    <3>3. w.counter = tab[t].counter + 2 /\ w.reloads = tab[t].reloads
      BY <3>1, <3>2, TabFields
    <3>4. tab' = [tab EXCEPT ![t] = w]
      BY <1>5 DEF CreateTxn
    <3> HIDE DEF w
    <3> QED
      BY <1>1, <3>2, <3>3, <3>4
  <2> HIDE DEF n
  <2>4. /\ row.id \in {"t"} \X (1 .. made') /\ row.id[2] = made + 1 /\ row.seq \in Nat
        /\ row.by = <<t, tab'[t].reloads>> /\ row.seq = tab'[t].counter /\ row.id[1] = "t"
    BY <1>1, <1>2, <2>3
  <2>5. row \in [id : {row.id}, seq : {row.seq}, by : {row.by}, day : {row.day},
                 entries : {row.entries}]
    OBVIOUS
  <2>6. Len(row.entries) >= 2
    BY <2>2
  <2>7. row.seq = tab[t].counter + 2 /\ row.by = <<t, tab[t].reloads>> /\ row.id = <<"t", made + 1>>
    OBVIOUS
  <2> HIDE DEF row
  <2>8. TxnRow(row, tab', made')
    <3>1. row.by = <<t, tab'[t].reloads>> /\ tab'[t].reloads \in Nat
      BY <2>3, <2>4
    <3>2. tab'[t].reloads <= tab'[t].reloads /\ row.seq <= tab'[t].counter
      BY <2>3, <2>4
    <3> QED
      BY <2>4, <2>5, <2>6, <3>1, <3>2 DEF TxnRow, Stamped
  <2>9. ASSUME NEW S \in TxnBooks, NEW x \in S PROVE x.id # row.id /\ InOrder(x, row)
    <3>1. Stamped(x, tab, made)
      BY DEF Identities, TxnBook, TxnRow
    <3>2. CASE x.id \in {"s"} \X Nat /\ x.by = <<"s", 0>>
      <4>1. x.id # row.id
        BY <2>7, <3>2
      <4>2. x.by # row.by
        BY <2>7, <3>2, LocalAssumption DEF LocalAssumption
      <4> QED
        BY <4>1, <4>2 DEF InOrder
    <3>3. ASSUME NEW u \in Tab, NEW k \in Nat, x.by = <<u, k>>, k <= tab[u].reloads,
                 x.id \in {"t"} \X (1 .. made), x.seq \in Nat,
                 k = tab[u].reloads => x.seq <= tab[u].counter
          PROVE  x.id # row.id /\ InOrder(x, row)
      <4>1. x.id[2] \in 1 .. made /\ row.id[2] = made + 1
        BY <3>3, <2>7
      <4>2. x.id # row.id /\ ~ (x.id[2] > row.id[2])
        BY <1>1, <4>1
      <4>3. x.by = row.by => u = t /\ k = tab[t].reloads
        BY <2>7, <3>3
      <4>4. x.by = row.by => row.seq > x.seq
        BY <2>3, <2>7, <3>3, <4>3
      <4> QED
        BY <4>2, <4>4 DEF InOrder
    <3> QED
      BY <3>1, <3>2, <3>3 DEF Stamped
  <2>10. row.id[2] = made'
    BY <1>2, <2>7
  <2> QED
    BY <2>1, <2>4, <2>8, <2>9, <2>10 DEF TxnPend, Unused
<1> QED
  BY <1>2, <1>3, <1>4, <1>5 DEF Validated

\* A pending row keeps its identifier to itself whatever the stores hold next.
LEMMA KeptAccount ==
  ASSUME Shapes, Shapes', Identities, NEW t \in Tab, TabStep(t), NEW u \in Tab, Kept(u),
         pend[u].op = "account"
  PROVE  AccountPend(pend[u].row, AccountBooks', made')
<1> DEFINE row == pend[u].row
<1>1. AccountPend(row, AccountBooks, made)
  BY DEF Identities
<1>2. made \in Nat /\ made' \in Nat /\ made <= made'
  BY TabEffect DEF Shapes
<1>3. row.id \in {"a"} \X (1 .. made')
  BY <1>1, <1>2 DEF AccountPend
<1>4. \A S \in AccountBooks : \A x \in S : x.id # row.id
  BY <1>1 DEF AccountPend, Unused
<1>5. \A x \in SampleAccounts : x.id # row.id
  BY <1>3 DEF SampleAccounts
<1>6. ASSUME PutRow(t), pend[t].op = "account", accounts' = Put(accounts, pend[t].row)
      PROVE  \A x \in accounts' : x.id # row.id
  <2>1. u # t /\ pend[t] # None
    BY <1>6, TabEffect DEF Kept, PutRow
  <2>2. pend[t].row.id # row.id
    BY <2>1 DEF Identities, Kept
  <2>3. \A x \in accounts : x.id # row.id
    BY <1>4 DEF AccountBooks
  <2> HIDE DEF row
  <2> QED
    BY <1>6, <2>2, <2>3 DEF Put
<1> HIDE DEF row
<1>7. ASSUME Renamed(accounts') PROVE \A x \in accounts' : x.id # row.id
  <2>1. PICK T \in AccountBooks : \A a \in accounts' : a.id = TypedId \/ \E x \in T : x.id = a.id
    BY <1>7 DEF Renamed
  <2>2. row.id # TypedId
    BY <1>3 DEF TypedId
  <2> QED
    BY <1>4, <2>1, <2>2
<1>8. \A x \in accounts' : x.id # row.id
  BY <1>5, <1>6, <1>7, StoreEffect
<1>9. Unused(row.id, AccountBooks')
  BY <1>4, <1>8, BookEffect DEF Unused
<1> QED
  BY <1>1, <1>3, <1>9 DEF AccountPend, row

\* A pending transaction keeps its identifier and its place in the session's order.
LEMMA KeptTxn ==
  ASSUME Shapes, Shapes', Identities, NEW t \in Tab, TabStep(t), NEW u \in Tab, Kept(u),
         pend[u].op = "txn"
  PROVE  TxnPend(pend[u].row, u, TxnBooks', tab', made')
<1> DEFINE row == pend[u].row
           Apart(x) == x.id # row.id /\ InOrder(x, row)
<1>1. TxnPend(row, u, TxnBooks, tab, made)
  BY DEF Identities
<1>2. made \in Nat /\ made' \in Nat /\ made <= made' /\ \A v \in Tab : Grown(v)
  BY TabEffect DEF Shapes
<1>3. row.id \in {"t"} \X (1 .. made')
  BY <1>1, <1>2 DEF TxnPend
<1>4. TxnRow(row, tab', made') /\ row.by = <<u, tab'[u].reloads>>
  BY <1>1, <1>2, RowStays DEF TxnPend, Kept
<1>5. \A S \in TxnBooks : \A x \in S : Apart(x)
  BY <1>1 DEF TxnPend, Unused
<1>6. \A x \in SampleTxns : Apart(x)
  <2> SUFFICES ASSUME NEW x \in SampleTxns PROVE Apart(x)
    OBVIOUS
  <2>1. PICK i \in DOMAIN BuildLedger : x = MkTxn(i, BuildLedger[i])
    BY DEF SampleTxns
  <2>2. x.id = <<"s", i>> /\ x.by = <<"s", 0>>
    BY <2>1 DEF MkTxn
  <2>3. row.by = <<u, tab'[u].reloads>> /\ "s" # u
    BY <1>4, LocalAssumption DEF LocalAssumption
  <2> HIDE DEF row
  <2>4. x.id # row.id /\ x.by # row.by
    BY <1>3, <2>2, <2>3
  <2> QED
    BY <2>4 DEF InOrder
<1>7. ASSUME NEW S, Restored(S), NEW x \in S PROVE Apart(x)
  <2>1. PICK b \in backups :
          \/ S = b.txns
          \/ \E y \in b.txns : S = (b.txns \ {y}) \cup {[y EXCEPT !.entries = SubSeq(y.entries, 1, 1)]}
    BY <1>7 DEF Restored
  <2>2. b.txns \in TxnBooks /\ TxnBook(b.txns, tab, made)
    BY DEF TxnBooks, Identities
  <2>3. CASE x \in b.txns
    BY <1>5, <2>2, <2>3
  <2>4. CASE x \notin b.txns
    <3>1. PICK y \in b.txns : x = [y EXCEPT !.entries = SubSeq(y.entries, 1, 1)]
      BY <2>1, <2>4
    <3>2. TxnRow(y, tab, made)
      BY <2>2 DEF TxnBook
    <3>3. x.id = y.id /\ x.seq = y.seq /\ x.by = y.by
      BY <3>1, <3>2 DEF TxnRow
    <3>4. Apart(y)
      BY <1>5, <2>2
    <3> QED
      BY <3>3, <3>4 DEF InOrder
  <2> QED
    BY <2>3, <2>4
<1>8. ASSUME PutRow(t), pend[t].op = "txn", txns' = Put(txns, pend[t].row)
      PROVE  \A x \in txns' : Apart(x)
  <2>1. u # t /\ pend[t] # None
    BY <1>8, TabEffect DEF Kept, PutRow
  <2>2. pend[t].row.id # row.id
    BY <2>1 DEF Identities, Kept
  <2>3. pend[t].row.by = <<t, tab[t].reloads>> /\ row.by = <<u, tab[u].reloads>>
    BY <1>1, <1>8 DEF Identities, TxnPend
  <2>4. Apart(pend[t].row)
    BY <2>1, <2>2, <2>3 DEF InOrder
  <2>5. \A x \in txns : Apart(x)
    BY <1>5 DEF TxnBooks
  <2> HIDE DEF Apart
  <2> QED
    BY <1>8, <2>4, <2>5 DEF Put
<1>9. txns \in TxnBooks
  BY DEF TxnBooks
<1> HIDE DEF Apart
<1>10. \A x \in txns' : Apart(x)
  BY <1>5, <1>6, <1>7, <1>8, <1>9, StoreEffect
<1>11. \A S \in TxnBooks' : \A x \in S : Apart(x)
  BY <1>5, <1>10, BookEffect
<1> QED
  BY <1>3, <1>4, <1>11 DEF TxnPend, Unused, Apart, row

\* Every step keeps identities and the order of a session.
LEMMA IdentitiesStep ==
  ASSUME Shapes, Shapes', Identities, [Next]_vars
  PROVE  Identities'
<1> SUFFICES ASSUME NEW t \in Tab, TabStep(t) PROVE Identities'
  <2>1. CASE UNCHANGED vars
    BY <2>1 DEF Identities, vars, AccountBooks, TxnBooks
  <2>2. CASE Next
    BY <2>2 DEF Next
  <2> QED
    BY <2>1, <2>2
<1>1. \A S \in AccountBooks' : AccountBook(S, made')
  <2>1. made \in Nat /\ made' \in Nat /\ made <= made'
    BY TabEffect DEF Shapes
  <2>2. \A S \in AccountBooks : AccountBook(S, made')
    BY <2>1 DEF Identities, AccountBook
  <2>3. AccountBook({}, made')
    BY DEF AccountBook
  <2> QED
    BY <2>2, <2>3, BookEffect, NextAccounts
<1>2. \A S \in TxnBooks' : TxnBook(S, tab', made')
  <2>1. made <= made' /\ \A u \in Tab : Grown(u)
    BY TabEffect
  <2>2. \A S \in TxnBooks : TxnBook(S, tab', made')
    BY <2>1, RowStays DEF Identities, TxnBook
  <2>3. TxnBook({}, tab', made')
    BY DEF TxnBook
  <2> QED
    BY <2>2, <2>3, BookEffect, NextTxns
<1>3. ASSUME NEW u \in Tab
      PROVE  /\ pend'[u].op = "account" => AccountPend(pend'[u].row, AccountBooks', made')
             /\ pend'[u].op = "txn" => TxnPend(pend'[u].row, u, TxnBooks', tab', made')
  <2>1. CASE pend'[u] = None
    BY <2>1 DEF None
  <2>2. CASE Kept(u)
    BY <2>2, KeptAccount, KeptTxn DEF Kept
  <2>3. CASE u = t /\ Validated(t)
    BY <2>3, NewRow
  <2> QED
    BY <2>1, <2>2, <2>3, TabEffect
<1>4. ASSUME NEW u \in Tab, NEW v \in Tab, u # v, pend'[u] # None, pend'[v] # None
      PROVE  pend'[u].row.id # pend'[v].row.id
  <2>1. ASSUME NEW w \in Tab, Kept(w), Validated(t) PROVE w # t /\ pend'[w].row.id[2] # made'
    <3>1. pend[w].op \in {"account", "txn"}
      BY <2>1 DEF Kept, Shapes, PendShape, Write
    <3>2. \E k \in 1 .. made : pend[w].row.id[2] = k
      BY <3>1 DEF Identities, AccountPend, TxnPend
    <3>3. made' = made + 1 /\ made \in Nat /\ pend[t] = None
      BY <2>1, NewRow DEF Shapes
    <3> QED
      BY <2>1, <3>2, <3>3 DEF Kept
  <2>2. CASE Kept(u) /\ Kept(v)
    BY <1>4, <2>2 DEF Kept, Identities
  <2>3. CASE u = t /\ Validated(t) /\ Kept(v)
    BY <2>1, <2>3, NewRow
  <2>4. CASE v = t /\ Validated(t) /\ Kept(u)
    BY <2>1, <2>4, NewRow
  <2> QED
    BY <1>4, <2>2, <2>3, <2>4, TabEffect
<1> QED
  BY <1>1, <1>2, <1>3, <1>4 DEF Identities

\* Nothing has been handed out and nothing is stored.
LEMMA InitIdentities ==
  ASSUME Init
  PROVE  Identities
<1>1. \A S \in AccountBooks : S = {}
  BY DEF Init, AccountBooks, Idle, Unread
<1>2. \A S \in TxnBooks : S = {}
  BY DEF Init, TxnBooks, Idle, Unread
<1>3. \A t \in Tab : pend[t] = None /\ pend[t].op = "none"
  BY DEF Init, None
<1> QED
  BY <1>1, <1>2, <1>3 DEF Identities, AccountBook, TxnBook

----------------------------------------------------------------------------
(* Validity *)

\* More accounts make no transaction invalid.
LEMMA ValidMore ==
  ASSUME NEW S, NEW T, S \subseteq T, NEW b, ValidateTxnBody(S, b)
  PROVE  ValidateTxnBody(T, b)
BY DEF ValidateTxnBody, ValidEntry

\* Only the day and the entries count.
LEMMA ValidSame ==
  ASSUME NEW S, NEW b, NEW r, r.day = b.day, r.entries = b.entries, ValidateTxnBody(S, b)
  PROVE  ValidateTxnBody(S, r)
BY DEF ValidateTxnBody

\* A body that was accepted means the same when an account of another code is added.
LEMMA ResolveStays ==
  ASSUME NEW S, NEW row, \A a \in S : a.code # row.code, \A a \in S : a.id[1] # "none",
         NEW body \in NewBodies, ValidateTxnBody(S, Resolve(S, body))
  PROVE  Resolve(S \cup {row}, body) = Resolve(S, body)
<1> DEFINE es == body.entries
           T == S \cup {row}
           E(A) == [i \in DOMAIN es |-> [es[i] EXCEPT !.account = IdOf(A, es[i].account)]]
<1>1. "entries" \in DOMAIN body /\ \A i \in DOMAIN es : "account" \in DOMAIN es[i]
  BY LocalAssumption DEF LocalAssumption
<1>2. \A A : Resolve(A, body) = [body EXCEPT !.entries = E(A)]
  BY DEF Resolve
<1>3. [body EXCEPT !.entries = E(S)].entries = E(S)
  BY <1>1
<1> HIDE DEF E
<1>4. \A i \in DOMAIN E(S) : ValidEntry({a.id : a \in S}, E(S)[i])
  BY <1>2, <1>3 DEF ValidateTxnBody
<1>5. ASSUME NEW i \in DOMAIN es PROVE IdOf(S, es[i].account) = IdOf(T, es[i].account)
  <2> DEFINE c == es[i].account
  <2>1. E(S)[i].account = IdOf(S, c) /\ i \in DOMAIN E(S)
    BY <1>1 DEF E
  <2>2. IdOf(S, c) \in {a.id : a \in S}
    BY <1>4, <2>1 DEF ValidEntry
  <2>3. ASSUME {a \in S : a.code = c} = {} PROVE FALSE
    <3>1. IdOf(S, c) = <<"none", c>>
      BY <2>3 DEF IdOf
    <3>2. PICK a \in S : a.id = <<"none", c>>
      BY <2>2, <3>1
    <3> QED
      BY <3>2
  <2>4. row.code # c
    BY <2>3
  <2>5. {a \in T : a.code = c} = {a \in S : a.code = c}
    BY <2>4
  <2> DEFINE Pick(named) == IF named = {} THEN <<"none", c>> ELSE (CHOOSE a \in named : TRUE).id
  <2>6. IdOf(S, c) = Pick({a \in S : a.code = c}) /\ IdOf(T, c) = Pick({a \in T : a.code = c})
    BY DEF IdOf
  <2> HIDE DEF Pick
  <2> QED
    BY <2>5, <2>6
<1>6. E(S) = E(T)
  BY <1>5 DEF E
<1> QED
  BY <1>2, <1>6

\* An identifier that is not there: put adds the row.
LEMMA PutKeeps ==
  ASSUME NEW store, NEW row, \A x \in store : x.id # row.id
  PROVE  Put(store, row) = store \cup {row}
BY DEF Put

\* A row that is written replaces none.
LEMMA PutFresh ==
  ASSUME Shapes, Identities, NEW t \in Tab, pend[t] # None
  PROVE  /\ pend[t].op \in {"account", "txn"}
         /\ pend[t].op = "account" => Put(accounts, pend[t].row) = accounts \cup {pend[t].row}
         /\ pend[t].op = "txn" => Put(txns, pend[t].row) = txns \cup {pend[t].row}
<1>1. pend[t].op \in {"account", "txn"}
  BY DEF Shapes, PendShape, Write
<1>2. accounts \in AccountBooks /\ txns \in TxnBooks
  BY DEF AccountBooks, TxnBooks
<1>3. pend[t].op = "account" => \A x \in accounts : x.id # pend[t].row.id
  BY <1>2 DEF Identities, AccountPend, Unused
<1>4. pend[t].op = "txn" => \A x \in txns : x.id # pend[t].row.id
  BY <1>2 DEF Identities, TxnPend, Unused
<1> QED
  BY <1>1, <1>3, <1>4, PutKeeps

\* Identifiers of stored accounts are none of those that stand for an unknown code.
LEMMA KnownIds ==
  ASSUME Identities
  PROVE  \A a \in accounts : a.id[1] # "none"
<1>1. AccountBook(accounts, made)
  BY DEF Identities, AccountBooks
<1> QED
  BY <1>1 DEF AccountBook, TypedId

\* Tearing leaves quiet only the exports that have read both stores or none.
LEMMA TornQuiet ==
  ASSUME Shapes, Unbroken, ~ raced, scan' = TornScans, NEW u \in Tab, scan'[u].clean
  PROVE  QuietScan(scan'[u], accounts', txns')
<1>1. /\ scan'[u].accounts = scan[u].accounts /\ scan'[u].txns = scan[u].txns
      /\ scan[u].clean /\ scan[u].accounts.read = scan[u].txns.read
  BY TornShape
<1>2. QuietScan(scan[u], accounts, txns)
  BY <1>1 DEF Unbroken
<1>3. scan[u].accounts.read \in BOOLEAN /\ scan[u].txns.read \in BOOLEAN
  BY DEF Shapes, ScanShape, ReadShape
<1> QED
  BY <1>1, <1>2, <1>3 DEF QuietScan

\* Every step keeps a ledger that no race has broken.
LEMMA UnbrokenStep ==
  ASSUME Shapes, Shapes', Identities, Unbroken, [Next]_vars
  PROVE  Unbroken'
<1>0. CASE UNCHANGED vars
  BY <1>0 DEF Unbroken, vars, AccountBooks
<1> SUFFICES ASSUME NEW t \in Tab, TabStep(t), ~ raced' PROVE Unbroken'
  BY <1>0 DEF Next, Unbroken
<1>a. ~ raced
  BY DEF TabStep, CreateAccount, CreateTxn, PutRow, ReadAccounts, ReadTxns, ExportData, IsEmpty,
     ImportData, SeedSample, ResetData, Reload
<1>c. /\ Consistent(accounts, txns)
      /\ \A u \in Tab : pend[u] # None /\ ~ pend[u].stale => StillValid(pend[u], accounts)
      /\ \A u \in Tab : scan[u].clean => QuietScan(scan[u], accounts, txns)
  BY <1>a DEF Unbroken
<1>d. DOMAIN pend = Tab /\ DOMAIN scan = Tab /\ \A u \in Tab : PendShape(pend[u])
  BY DEF Shapes
<1>e. ASSUME Consistent(accounts', txns'),
             \A u \in Tab : pend'[u] # None /\ ~ pend'[u].stale => StillValid(pend'[u], accounts'),
             \A u \in Tab : scan'[u].clean => QuietScan(scan'[u], accounts', txns')
      PROVE  Unbroken'
  BY <1>e DEF Unbroken
<1>1. CASE Validated(t)
  <2>1. UNCHANGED <<accounts, txns, scan>> /\ \A u \in Tab : u # t => pend'[u] = pend[u]
    BY <1>1, <1>d DEF Validated, CreateAccount, CreateTxn
  <2>2. ASSUME NEW c \in Codes, CreateAccount(t, c) PROVE StillValid(pend'[t], accounts)
    <3>1. pend'[t].op = "account" /\ pend'[t].row.code = c
      BY <1>d, <2>2 DEF CreateAccount
    <3>2. \A a \in accounts : a.code # c
      BY <2>2 DEF CreateAccount, ValidateAccountBody
    <3> QED
      BY <3>1, <3>2 DEF StillValid
  <2>3. ASSUME NEW b \in NewBodies, CreateTxn(t, b) PROVE StillValid(pend'[t], accounts)
    <3> DEFINE n == Resolve(accounts, b)
    <3>1. pend'[t].op = "txn" /\ pend'[t].row.day = n.day /\ pend'[t].row.entries = n.entries
      BY <1>d, <2>3 DEF CreateTxn
    <3>2. ValidateTxnBody(accounts, n)
      BY <2>3 DEF CreateTxn
    <3> HIDE DEF n
    <3>3. Accepted(pend'[t].row, b, accounts)
      BY <3>1, <3>2 DEF Accepted, n
    <3> QED
      BY <3>1, <3>3 DEF StillValid
  <2>4. StillValid(pend'[t], accounts)
    BY <1>1, <2>2, <2>3 DEF Validated
  <2> QED
    BY <1>c, <1>e, <2>1, <2>4
<1>2. CASE PutRow(t)
  <2> DEFINE row == pend[t].row
             p == [pend EXCEPT ![t] = None]
  <2>1. pend[t] # None /\ ~ pend[t].stale /\ scan' = TornScans
    BY <1>2 DEF PutRow
  <2>2. StillValid(pend[t], accounts)
    BY <1>c, <2>1
  <2>3. DOMAIN p = Tab /\ p[t] = None /\ \A u \in Tab : PendShape(p[u]) /\ (u # t => p[u] = pend[u])
    BY <1>d DEF PendShape
  <2> HIDE DEF p
  <2>4. \A u \in Tab : scan'[u].clean => QuietScan(scan'[u], accounts', txns')
    BY <1>a, <2>1, TornQuiet
  <2>5. CASE pend[t].op = "account"
    <3>1. /\ accounts' = accounts \cup {row} /\ txns' = txns /\ pend' = Disturbed(p, FALSE)
      BY <1>2, <2>1, <2>5, PutFresh DEF PutRow, p
    <3>3. \A a \in accounts : a.code # row.code
      BY <2>2, <2>5 DEF StillValid, row
    <3> HIDE DEF row
    <3>2. Consistent(accounts', txns')
      BY <1>c, <3>1, ValidMore DEF Consistent
    <3>4. ASSUME NEW u \in Tab, pend'[u] # None, ~ pend'[u].stale
          PROVE  StillValid(pend'[u], accounts')
      <4>0. /\ p[u] = None => pend'[u] = None
            /\ p[u] # None => (pend'[u].stale <=> p[u].stale \/ p[u].op = "account")
        BY <2>3, <3>1, DisturbedShape
      <4>1. p[u] # None /\ u # t /\ p[u] = pend[u]
        BY <2>3, <3>4, <4>0
      <4>2. pend'[u].op = pend[u].op /\ pend'[u].row = pend[u].row
        <5>1. p[u] # None => pend'[u].op = p[u].op /\ pend'[u].row = p[u].row
          BY <2>3, <3>1, DisturbedShape
        <5> QED
          BY <4>1, <5>1
      <4>3. ~ pend[u].stale /\ pend[u].op # "account"
        BY <3>4, <4>0, <4>1
      <4>4. pend[u].op = "txn"
        BY <4>1, <4>3, PutFresh
      <4>5. PICK body \in NewBodies : Accepted(pend[u].row, body, accounts)
        BY <1>c, <4>1, <4>3, <4>4 DEF StillValid
      <4>6. accounts \subseteq accounts'
        BY <3>1
      <4>7. Resolve(accounts', body) = Resolve(accounts, body)
        BY <3>1, <3>3, <4>5, ResolveStays, KnownIds DEF Accepted
      <4>8. Accepted(pend[u].row, body, accounts')
        BY <4>5, <4>6, <4>7, ValidMore DEF Accepted
      <4> QED
        BY <4>2, <4>4, <4>8 DEF StillValid
    <3> QED
      BY <1>e, <2>4, <3>2, <3>4
  <2>6. CASE pend[t].op = "txn"
    <3>1. txns' = txns \cup {row} /\ accounts' = accounts /\ pend' = p
      BY <1>2, <2>1, <2>6, PutFresh DEF PutRow, p
    <3>2. PICK body \in NewBodies : Accepted(row, body, accounts)
      BY <2>2, <2>6 DEF StillValid
    <3> HIDE DEF row
    <3>3. ValidateTxnBody(accounts, row)
      BY <3>2, ValidSame DEF Accepted
    <3>4. Consistent(accounts', txns')
      BY <1>c, <3>1, <3>3 DEF Consistent
    <3>5. \A u \in Tab : pend'[u] # None /\ ~ pend'[u].stale => StillValid(pend'[u], accounts')
      BY <1>c, <2>3, <3>1
    <3> QED
      BY <1>e, <2>4, <3>4, <3>5
  <2> QED
    BY <2>1, <2>5, <2>6, PutFresh
<1>3. CASE ReadAccounts(t) \/ ReadTxns(t) \/ ExportData(t)
  <2>1. UNCHANGED <<accounts, txns, pend>> /\ \A u \in Tab : u # t => scan'[u] = scan[u]
    BY <1>3, <1>d DEF ReadAccounts, ReadTxns, ExportData
  <2>2. ASSUME scan'[t].clean PROVE QuietScan(scan'[t], accounts, txns)
    <3>0. ScanShape(scan[t]) /\ scan[t].accounts.read \in BOOLEAN /\ scan[t].txns.read \in BOOLEAN
      BY DEF Shapes, ScanShape, ReadShape
    <3>1. CASE ReadAccounts(t)
      <4> DEFINE v == [scan[t] EXCEPT !.accounts = [read |-> TRUE, rows |-> accounts]]
      <4>1. scan'[t] = v /\ ~ scan[t].accounts.read
        BY <1>d, <3>1 DEF ReadAccounts
      <4>2. /\ v.accounts.read = TRUE /\ v.accounts.rows = accounts
            /\ v.txns = scan[t].txns /\ v.clean = scan[t].clean
        BY <3>0, ScanFields
      <4> HIDE DEF v
      <4>3. QuietScan(scan[t], accounts, txns)
        BY <1>c, <2>2, <4>1, <4>2
      <4> QED
        BY <1>c, <3>0, <4>1, <4>2, <4>3 DEF QuietScan
    <3>2. CASE ReadTxns(t)
      <4> DEFINE v == [scan[t] EXCEPT !.txns = [read |-> TRUE, rows |-> txns]]
      <4>1. scan'[t] = v /\ ~ scan[t].txns.read
        BY <1>d, <3>2 DEF ReadTxns
      <4>2. /\ v.txns.read = TRUE /\ v.txns.rows = txns
            /\ v.accounts = scan[t].accounts /\ v.clean = scan[t].clean
        BY <3>0, ScanFields
      <4> HIDE DEF v
      <4>3. QuietScan(scan[t], accounts, txns)
        BY <1>c, <2>2, <4>1, <4>2
      <4> QED
        BY <1>c, <3>0, <4>1, <4>2, <4>3 DEF QuietScan
    <3>3. CASE ExportData(t)
      <4>1. scan'[t] = Idle
        BY <1>d, <3>3 DEF ExportData
      <4> QED
        BY <4>1 DEF QuietScan, Idle, Unread
    <3> QED
      BY <1>3, <3>1, <3>2, <3>3
  <2> QED
    BY <1>c, <1>e, <2>1, <2>2
<1>4. CASE IsEmpty(t)
  BY <1>c, <1>e, <1>4 DEF IsEmpty
<1>5. ASSUME NEW A, NEW X, ReplaceStores(A, X), Consistent(A, X) PROVE Unbroken'
  <2>1. /\ accounts' = A /\ txns' = X /\ pend' = Disturbed(pend, TRUE) /\ scan' = TornScans
    BY <1>5 DEF ReplaceStores
  <2>2. \A u \in Tab : pend'[u] # None => pend'[u].stale
    BY <1>d, <2>1, DisturbedShape
  <2>3. \A u \in Tab : scan'[u].clean => QuietScan(scan'[u], accounts', txns')
    BY <1>a, <2>1, TornQuiet
  <2> QED
    BY <1>5, <1>e, <2>1, <2>2, <2>3
<1>6. CASE ImportData(t)
  BY <1>5, <1>6, ImportEffect
<1>7. CASE SeedSample(t)
  BY <1>5, <1>7, SampleSound DEF SeedSample
<1>8. CASE ResetData(t)
  BY <1>5, <1>8 DEF ResetData, Consistent
<1>9. CASE Reload(t)
  <2>1. UNCHANGED <<accounts, txns>> /\ pend'[t] = None /\ scan'[t] = Idle
        /\ \A u \in Tab : u # t => pend'[u] = pend[u] /\ scan'[u] = scan[u]
    BY <1>9, <1>d DEF Reload
  <2>2. QuietScan(Idle, accounts, txns)
    BY DEF QuietScan, Idle, Unread
  <2> QED
    BY <1>c, <1>e, <2>1, <2>2
<1> QED
  BY <1>1, <1>2, <1>3, <1>4, <1>6, <1>7, <1>8, <1>9 DEF TabStep, Validated

\* A clean backup was taken of a consistent pair.
LEMMA RestorableStep ==
  ASSUME Shapes, Unbroken, Restorable, [Next]_vars
  PROVE  Restorable'
<1>1. CASE UNCHANGED backups
  BY <1>1 DEF Restorable
<1>2. ASSUME NEW t \in Tab, ExportData(t) PROVE Restorable'
  <2> DEFINE c == scan[t].clean /\ ~ raced
             n == [accounts |-> scan[t].accounts.rows, txns |-> scan[t].txns.rows, clean |-> c]
  <2>1. backups' = backups \cup {n} /\ scan[t].accounts.read /\ scan[t].txns.read
    BY <1>2 DEF ExportData
  <2>2. c => Consistent(scan[t].accounts.rows, scan[t].txns.rows)
    BY <2>1 DEF Unbroken, QuietScan
  <2> HIDE DEF c
  <2>3. n.clean => Consistent(n.accounts, n.txns)
    BY <2>2
  <2> HIDE DEF n
  <2> QED
    BY <2>1, <2>3 DEF Restorable
<1>3. UNCHANGED backups \/ \E t \in Tab : ExportData(t)
  BY DEF Next, vars, TabStep, CreateAccount, CreateTxn, PutRow, ReadAccounts, ReadTxns, IsEmpty,
     ImportData, SeedSample, ResetData, Reload
<1> QED
  BY <1>1, <1>2, <1>3

----------------------------------------------------------------------------
(* Exports *)

\* The tabs that export are finitely many.
LEMMA ExportsFinite ==
  ASSUME NEW S \in SUBSET Tab
  PROVE  IsFiniteSet(S) /\ Cardinality(S) \in Nat
BY LocalAssumption, FS_Subset, FS_CardinalityType DEF LocalAssumption

\* Whether a tab exports, as a function of what it has read.
Reading(s) == s.accounts.read \/ s.txns.read

\* Where an export and a backup of the next state come from.
LEMMA ExportsOf ==
  /\ Exports = {u \in Tab : Reading(scan[u])}
  /\ Exports' = {u \in Tab : Reading(scan'[u])}
BY DEF Exports, Exporting, Reading

\* A step that lets no tab start and makes no backup keeps the bound.
LEMMA NoMoreExports ==
  ASSUME Shapes, ExportBound, UNCHANGED backups, \A u \in Tab : Reading(scan'[u]) => Reading(scan[u])
  PROVE  ExportBound'
<1>1. Exports' \subseteq Exports /\ Exports \in SUBSET Tab
  BY ExportsOf
<1>2. Cardinality(Exports') <= Cardinality(Exports)
  BY <1>1, ExportsFinite, FS_Subset
<1>3. Cardinality(Exports') \in Nat /\ Cardinality(Exports) \in Nat
  BY <1>1, ExportsFinite
<1>4. IsFiniteSet(backups) /\ Cardinality(backups) \in Nat /\ MaxBackups \in Nat
      /\ Cardinality(backups) + Cardinality(Exports) <= MaxBackups
  BY FS_CardinalityType, LocalAssumption DEF ExportBound, LocalAssumption
<1>5. Cardinality(backups) + Cardinality(Exports') <= MaxBackups
  BY <1>2, <1>3, <1>4
<1> QED
  BY <1>4, <1>5 DEF ExportBound

\* An export that starts is counted before its backup is there.
LEMMA ExportBoundStep ==
  ASSUME Shapes, ExportBound, [Next]_vars
  PROVE  ExportBound'
<1>0. CASE UNCHANGED vars
  BY <1>0, NoMoreExports DEF vars
<1> SUFFICES ASSUME NEW t \in Tab, TabStep(t) PROVE ExportBound'
  BY <1>0 DEF Next
<1>a. DOMAIN scan = Tab /\ ScanShape(scan[t])
  BY DEF Shapes
<1>b. /\ IsFiniteSet(backups) /\ Cardinality(backups) \in Nat /\ MaxBackups \in Nat
      /\ Cardinality(backups) + Cardinality(Exports) <= MaxBackups
      /\ IsFiniteSet(Exports) /\ Cardinality(Exports) \in Nat
  BY FS_CardinalityType, LocalAssumption, ExportsFinite DEF ExportBound, LocalAssumption, Exports
<1>1. CASE UNCHANGED <<scan, backups>>
  BY <1>1, NoMoreExports
<1>2. CASE scan' = TornScans /\ UNCHANGED backups
  BY <1>2, TornShape, NoMoreExports DEF Reading
<1>3. CASE ReadAccounts(t) \/ ReadTxns(t)
  <2>1. /\ MayExport(t) /\ UNCHANGED backups
        /\ \A u \in Tab : u # t => scan'[u] = scan[u]
    BY <1>3, <1>a DEF ReadAccounts, ReadTxns
  <2>2. CASE Exporting(t)
    BY <2>1, <2>2, NoMoreExports DEF Exporting, Reading
  <2>3. CASE ~ Exporting(t)
    <3>1. Cardinality(backups) + Cardinality(Exports) < MaxBackups /\ t \notin Exports
      BY <2>1, <2>3 DEF MayExport, Exports
    <3>2. Exports' \subseteq Exports \cup {t} /\ Exports' \in SUBSET Tab
      BY <2>1, ExportsOf
    <3>3. IsFiniteSet(Exports \cup {t}) /\ Cardinality(Exports \cup {t}) = Cardinality(Exports) + 1
      BY <1>b, <3>1, FS_AddElement
    <3>4. Cardinality(Exports') <= Cardinality(Exports) + 1
      BY <3>2, <3>3, FS_Subset
    <3>5. Cardinality(Exports') \in Nat
      BY <3>2, ExportsFinite
    <3>6. Cardinality(backups) + Cardinality(Exports') <= MaxBackups
      BY <1>b, <3>1, <3>4, <3>5
    <3> QED
      BY <1>b, <2>1, <3>6 DEF ExportBound
  <2> QED
    BY <2>2, <2>3
<1>4. CASE ExportData(t)
  <2> DEFINE n == [accounts |-> scan[t].accounts.rows, txns |-> scan[t].txns.rows,
                   clean |-> scan[t].clean /\ ~ raced]
  <2>1. backups' = backups \cup {n} /\ scan'[t] = Idle /\ Exporting(t)
        /\ \A u \in Tab : u # t => scan'[u] = scan[u]
    BY <1>4, <1>a DEF ExportData, Exporting
  <2> HIDE DEF n
  <2>2. ~ Reading(Idle)
    BY DEF Reading, Idle, Unread
  <2>3. Exports' \subseteq Exports \ {t} /\ t \in Exports /\ Exports' \in SUBSET Tab
    BY <2>1, <2>2, ExportsOf DEF Exporting, Reading
  <2>4. IsFiniteSet(Exports \ {t}) /\ Cardinality(Exports \ {t}) = Cardinality(Exports) - 1
    BY <1>b, <2>3, FS_RemoveElement
  <2>5. Cardinality(Exports') <= Cardinality(Exports) - 1 /\ Cardinality(Exports') \in Nat
    BY <2>3, <2>4, FS_Subset, ExportsFinite
  <2>6. IsFiniteSet(backups') /\ Cardinality(backups') <= Cardinality(backups) + 1
        /\ Cardinality(backups') \in Nat
    <3>1. CASE n \in backups
      <4>1. backups' = backups
        BY <2>1, <3>1
      <4> QED
        BY <1>b, <4>1
    <3>2. CASE n \notin backups
      <4>1. IsFiniteSet(backups') /\ Cardinality(backups') = Cardinality(backups) + 1
        BY <1>b, <2>1, <3>2, FS_AddElement
      <4> QED
        BY <1>b, <4>1
    <3> QED
      BY <3>1, <3>2
  <2>7. Cardinality(backups') + Cardinality(Exports') <= MaxBackups
    BY <1>b, <2>5, <2>6
  <2> QED
    BY <2>6, <2>7 DEF ExportBound
<1>5. CASE Reload(t)
  <2>1. /\ scan'[t] = Idle /\ UNCHANGED backups
        /\ \A u \in Tab : u # t => scan'[u] = scan[u]
    BY <1>5, <1>a DEF Reload
  <2>2. ~ Reading(Idle)
    BY DEF Reading, Idle, Unread
  <2> QED
    BY <2>1, <2>2, NoMoreExports
<1>6. \/ UNCHANGED <<scan, backups>>
      \/ scan' = TornScans /\ UNCHANGED backups
      \/ ReadAccounts(t) \/ ReadTxns(t) \/ ExportData(t) \/ Reload(t)
  BY <1>a, ImportReplaces DEF TabStep, CreateAccount, CreateTxn, PutRow, IsEmpty, SeedSample, ResetData,
     ReplaceStores
<1> QED
  BY <1>1, <1>2, <1>3, <1>4, <1>5, <1>6

----------------------------------------------------------------------------
(* Theorems *)

\* Empty stores are a ledger that nothing has broken.
LEMMA InitUnbroken ==
  ASSUME Init
  PROVE  Unbroken /\ Restorable /\ ExportBound
<1>1. \A S \in AccountBooks : S = {}
  BY DEF Init, AccountBooks, Idle, Unread
<1>2. \A t \in Tab : scan[t] = Idle /\ pend[t] = None
  BY DEF Init
<1>3. QuietScan(Idle, accounts, txns) /\ ~ Reading(Idle)
  BY DEF QuietScan, Reading, Idle, Unread
<1>4. Unbroken
  BY <1>1, <1>2, <1>3 DEF Init, Unbroken, Consistent
<1>5. Restorable
  BY DEF Init, Restorable
<1>6. Exports = {} /\ backups = {}
  BY <1>2, <1>3, ExportsOf DEF Init
<1>7. ExportBound
  BY <1>6, FS_EmptySet, LocalAssumption DEF ExportBound, LocalAssumption
<1> QED
  BY <1>4, <1>5, <1>7

\* Identities, order, references and clean backups are kept whatever tabs do together.
THEOREM LocalInvariant == Spec => []LocalInv
<1>1. Init => LocalInv
  BY InitShapes, InitIdentities, InitUnbroken DEF LocalInv
<1>2. LocalInv /\ [Next]_vars => LocalInv'
  BY ShapesStep, IdentitiesStep, UnbrokenStep, RestorableStep, ExportBoundStep DEF LocalInv
<1> QED
  BY <1>1, <1>2, PTL DEF Spec

\* A stored or pending transaction has two lines or more, and flags, counters and bounds are kept.
THEOREM TypeCorrect == Spec => []TypeOK
<1>1. ASSUME LocalInv PROVE TypeOK
  <2>1. \A x \in txns : Len(x.entries) >= 2
    BY <1>1 DEF LocalInv, Identities, TxnBooks, TxnBook, TxnRow
  <2>2. ASSUME NEW t \in Tab
        PROVE  /\ tab[t].counter \in 0 .. 2 * MaxMade /\ tab[t].empty \in BOOLEAN
               /\ pend[t].op \in {"none", "account", "txn"}
               /\ pend[t].op = "txn" => Len(pend[t].row.entries) >= 2
    <3>1. tab[t].counter \in Nat /\ tab[t].empty \in BOOLEAN
      BY <1>1 DEF LocalInv, Shapes, TabState
    <3>2. tab[t].counter <= 2 * made /\ made \in Nat /\ made <= MaxMade /\ MaxMade \in Nat
      BY <1>1, LocalAssumption DEF LocalInv, Shapes, LocalAssumption
    <3>3. pend[t].op \in {"none", "account", "txn"}
      BY <1>1 DEF LocalInv, Shapes, PendShape, Write, None
    <3>4. pend[t].op = "txn" => Len(pend[t].row.entries) >= 2
      BY <1>1 DEF LocalInv, Identities, TxnPend, TxnRow
    <3> QED
      BY <3>1, <3>2, <3>3, <3>4
  <2>3. Cardinality(backups) <= MaxBackups
    <3>1. Cardinality(Exports) \in Nat
      BY ExportsFinite DEF Exports
    <3>2. Cardinality(backups) \in Nat /\ Cardinality(backups) + Cardinality(Exports) <= MaxBackups
      BY <1>1, FS_CardinalityType DEF LocalInv, ExportBound
    <3> QED
      BY <3>1, <3>2, LocalAssumption DEF LocalAssumption
  <2>4. made \in 0 .. MaxMade /\ wipes \in 0 .. MaxWipes /\ raced \in BOOLEAN
    BY <1>1, LocalAssumption DEF LocalInv, Shapes, LocalAssumption
  <2> QED
    BY <2>1, <2>2, <2>3, <2>4 DEF TypeOK
<1> QED
  BY <1>1, LocalInvariant, PTL

\* Until a write is raced, every entry names an account that is stored.
THEOREM EntriesKnown == Spec => []EntriesKnownUnlessRaced
<1>1. LocalInv => EntriesKnownUnlessRaced
  BY DEF LocalInv, Unbroken, Consistent, ValidateTxnBody, ValidEntry, EntriesKnownUnlessRaced
<1> QED
  BY <1>1, LocalInvariant, PTL

\* Until a write is raced, a created account has a code of its own, even in a ledger into
\* which a file has brought one code twice.
THEOREM NewCodesUnique == Spec => NewCodesUniqueUnlessRaced
<1> DEFINE Added == wipes' = wipes /\ ~ raced'
             => \A a \in accounts' \ accounts : \A b \in accounts' : b.code = a.code => b = a
<1>1. ASSUME LocalInv, [Next]_vars, wipes' = wipes, ~ raced',
             NEW a \in accounts' \ accounts, NEW b \in accounts', b.code = a.code
      PROVE  b = a
  <2>0. CASE UNCHANGED vars
    BY <1>1, <2>0 DEF vars
  <2> SUFFICES ASSUME NEW t \in Tab, TabStep(t) PROVE b = a
    BY <1>1, <2>0 DEF Next
  <2>1. CASE PutRow(t)
    <3>1. pend[t] # None /\ ~ pend[t].stale /\ ~ raced /\ Shapes /\ Identities
      BY <1>1, <2>1 DEF PutRow, LocalInv
    <3>2. pend[t].op = "account"
      BY <1>1, <2>1 DEF PutRow
    <3>3. accounts' = accounts \cup {pend[t].row}
      BY <2>1, <3>1, <3>2, PutFresh DEF PutRow
    <3>4. \A x \in accounts : x.code # pend[t].row.code
      BY <1>1, <3>1, <3>2 DEF LocalInv, Unbroken, StillValid
    <3> QED
      BY <1>1, <3>3, <3>4
  <2>2. CASE \E A, X : ReplaceStores(A, X)
    <3>1. wipes' = wipes + 1 /\ wipes \in Nat
      BY <1>1, <2>2 DEF ReplaceStores, LocalInv, Shapes
    <3> QED
      BY <1>1, <3>1
  <2>3. CASE UNCHANGED accounts
    BY <1>1, <2>3
  <2>4. ImportData(t) => \E A, X : ReplaceStores(A, X)
    BY <1>1, ImportReplaces DEF LocalInv
  <2> QED
    BY <2>1, <2>2, <2>3, <2>4 DEF TabStep, CreateAccount, CreateTxn, ReadAccounts, ReadTxns,
       ExportData, IsEmpty, SeedSample, ResetData, Reload
<1>2. LocalInv /\ [Next]_vars => [Added]_vars
  BY <1>1
<1> QED
  BY <1>2, LocalInvariant, PTL DEF Spec, NewCodesUniqueUnlessRaced

\* A backup whose stores were read between two writes can be restored.
THEOREM BackupRestores == Spec => []QuietBackupRestores
<1>1. LocalInv => QuietBackupRestores
  BY DEF LocalInv, Restorable, Consistent, QuietBackupRestores, Importable
<1> QED
  BY <1>1, LocalInvariant, PTL

\* Rows one session entered on a day are listed the later first, whatever was imported since.
THEOREM SessionsInOrder == Spec => []SessionOrder
<1>1. LocalInv => SessionOrder
  BY DEF LocalInv, Identities, TxnBooks, TxnBook, InOrder, SessionOrder, ListsBefore
<1> QED
  BY <1>1, LocalInvariant, PTL

\* The sample has the rows it is asked for, whatever is due in its months.
THEOREM SampleIsComplete == Spec => SampleComplete
<1>1. ASSUME NEW t \in Tab, SeedSample(t) PROVE Cardinality(txns') = SampleRows
  BY <1>1, SampleCount DEF SeedSample, ReplaceStores
<1>2. [Next]_vars => [\A t \in Tab : SeedSample(t) => Cardinality(txns') = SampleRows]_vars
  BY <1>1
<1> QED
  BY <1>2, PTL DEF Spec, SampleComplete

\* Until the ledger is replaced, a row that was saved stays.
THEOREM SavedStay == Spec => SavedRowsStay
<1>1. ASSUME LocalInv, [Next]_vars, wipes' = wipes
      PROVE  accounts \subseteq accounts' /\ txns \subseteq txns'
  <2>0. CASE UNCHANGED vars
    BY <2>0 DEF vars
  <2> SUFFICES ASSUME NEW t \in Tab, TabStep(t)
               PROVE  accounts \subseteq accounts' /\ txns \subseteq txns'
    BY <1>1, <2>0 DEF Next
  <2>1. CASE PutRow(t)
    <3>1. pend[t] # None /\ Shapes /\ Identities
      BY <1>1, <2>1 DEF PutRow, LocalInv
    <3>2. CASE pend[t].op = "account"
      BY <2>1, <3>1, <3>2, PutFresh DEF PutRow
    <3>3. CASE pend[t].op # "account"
      BY <2>1, <3>1, <3>3, PutFresh DEF PutRow
    <3> QED
      BY <3>2, <3>3
  <2>2. CASE \E A, X : ReplaceStores(A, X)
    <3>1. wipes' = wipes + 1 /\ wipes \in Nat
      BY <1>1, <2>2 DEF ReplaceStores, LocalInv, Shapes
    <3> QED
      BY <1>1, <3>1
  <2>3. CASE UNCHANGED <<accounts, txns>>
    BY <2>3
  <2>4. ImportData(t) => \E A, X : ReplaceStores(A, X)
    BY <1>1, ImportReplaces DEF LocalInv
  <2> QED
    BY <2>1, <2>2, <2>3, <2>4 DEF TabStep, CreateAccount, CreateTxn, ReadAccounts, ReadTxns,
       ExportData, IsEmpty, SeedSample, ResetData, Reload
<1> QED
  BY <1>1, LocalInvariant, PTL DEF Spec, SavedRowsStay

----------------------------------------------------------------------------
(* Balance *)

\* The entries of a transaction that was validated: amounts and directions are known, and
\* every currency balances.
SoundRow(es) ==
  /\ Len(es) \in Nat /\ DOMAIN es = 1 .. Len(es)
  /\ \A i \in DOMAIN es : es[i].amount \in Nat /\ es[i].direction \in {"debit", "credit"}
  /\ Balanced(es)

\* What the entries add up.
Moves(es) == [i \in DOMAIN es |-> SignedAmount(es[i])]

\* Images of finite sets are finite.
LEMMA ImageFinite ==
  ASSUME NEW S, IsFiniteSet(S), NEW f
  PROVE  IsFiniteSet({f[x] : x \in S})
<1> DEFINE T == {f[x] : x \in S}
           g == [x \in S |-> f[x]]
<1>1. g \in [S -> T] /\ \A y \in T : \E x \in S : g[x] = y
  OBVIOUS
<1> HIDE DEF g, T
<1>2. g \in Surjection(S, T)
  BY <1>1 DEF Surjection
<1>3. IsFiniteSet(T)
  BY <1>2, FS_Surjection
<1> QED
  BY <1>3 DEF T

\* Signed amounts are integers.
LEMMA MovesType ==
  ASSUME NEW es, SoundRow(es)
  PROVE  Len(es) \in Nat /\ DOMAIN es = 1 .. Len(es) /\ Moves(es) \in [1 .. Len(es) -> Int]
<1>1. Len(es) \in Nat /\ DOMAIN es = 1 .. Len(es)
  BY DEF SoundRow
<1>2. \A i \in DOMAIN es : SignedAmount(es[i]) \in Int
  BY DEF SoundRow, SignedAmount
<1> QED
  BY <1>1, <1>2 DEF Moves

\* A currency that does not occur balances too.
LEMMA NetInZero ==
  ASSUME NEW es, SoundRow(es), NEW c
  PROVE  NetIn(es, c) = 0
<1>1. CASE c \in Currencies(es)
  BY <1>1 DEF SoundRow, Balanced
<1>2. CASE c \notin Currencies(es)
  <2> DEFINE n == Len(es)
             f == [i \in DOMAIN es |-> IF es[i].currency = c THEN SignedAmount(es[i]) ELSE 0]
  <2>1. n \in Nat /\ DOMAIN es = 1 .. n
    BY MovesType
  <2>2. \A i \in DOMAIN es : es[i].currency # c
    BY <1>2 DEF Currencies
  <2>3. f \in [1 .. n -> Int] /\ \A i \in 1 .. n : f[i] = 0
    BY <2>1, <2>2
  <2> HIDE DEF f, n
  <2>4. SumUpTo(f, n) = 0
    BY <2>1, <2>3, SumZero
  <2> QED
    BY <2>4 DEF NetIn, f, n
<1> QED
  BY <1>1, <1>2

\* A transaction whose currencies balance balances as a whole.
LEMMA NetOfZero ==
  ASSUME NEW es, SoundRow(es)
  PROVE  NetOf(es) = 0
<1> DEFINE n == Len(es)
           v == Moves(es)
           cur == [i \in 1 .. n |-> es[i].currency]
           K == {cur[i] : i \in 1 .. n}
           share == [c \in K |-> SumUpTo([i \in 1 .. n |-> IF cur[i] = c THEN v[i] ELSE 0], n)]
<1>1. n \in Nat /\ DOMAIN es = 1 .. n /\ v \in [1 .. n -> Int]
  BY MovesType
<1>2. IsFiniteSet(K)
  <2> HIDE DEF n, cur
  <2>1. IsFiniteSet(1 .. n)
    BY <1>1, FS_Interval
  <2> QED
    BY <2>1, ImageFinite
<1>3. ASSUME NEW c \in K PROVE share[c] = 0
  <2>1. [i \in 1 .. n |-> IF cur[i] = c THEN v[i] ELSE 0]
          = [i \in DOMAIN es |-> IF es[i].currency = c THEN SignedAmount(es[i]) ELSE 0]
    BY <1>1 DEF Moves
  <2>2. share[c] = NetIn(es, c)
    BY <2>1 DEF NetIn
  <2> QED
    BY <2>2, NetInZero
<1>4. [i \in 1 .. n |-> IF cur[i] \in K THEN v[i] ELSE 0] = v
  BY <1>1
<1> HIDE DEF n, v, cur, K
<1>5. SumOver(share, K) = SumUpTo([i \in 1 .. n |-> IF cur[i] \in K THEN v[i] ELSE 0], n)
  BY <1>1, <1>2, SumByKey
<1> HIDE DEF share
<1>6. SumOver(share, K) = 0
  BY <1>2, <1>3, SumOverTerms
<1> QED
  BY <1>4, <1>5, <1>6 DEF NetOf, Moves, n, v

\* Its debits are its credits.
LEMMA SidesEven ==
  ASSUME NEW es, SoundRow(es)
  PROVE  SumByDirection(es)["debit"] = SumByDirection(es)["credit"]
<1> DEFINE n == Len(es)
           v == Moves(es)
           side(d) == [i \in DOMAIN es |-> IF (es[i].direction = "debit") = (d = "debit")
                                           THEN es[i].amount ELSE 0]
           D == side("debit")
           C == side("credit")
<1>1. n \in Nat /\ DOMAIN es = 1 .. n /\ v \in [1 .. n -> Int]
  BY MovesType
<1>2. \A i \in 1 .. n : es[i].amount \in Nat /\ es[i].direction \in {"debit", "credit"}
  BY <1>1 DEF SoundRow
<1>3. D \in [1 .. n -> Int] /\ C \in [1 .. n -> Int]
  BY <1>1, <1>2
<1>4. \A i \in 1 .. n : D[i] = C[i] + v[i]
  BY <1>1, <1>2 DEF Moves, SignedAmount
<1>5. SumByDirection(es)["debit"] = SumUpTo(D, n) /\ SumByDirection(es)["credit"] = SumUpTo(C, n)
  BY DEF SumByDirection
<1>6. SumUpTo(v, n) = 0
  BY NetOfZero DEF NetOf, Moves
<1> HIDE DEF n, v, D, C
<1>7. SumUpTo(D, n) = SumUpTo(C, n) + SumUpTo(v, n)
  BY <1>1, <1>3, <1>4, SumAdd
<1>8. SumUpTo(C, n) \in Int
  BY <1>1, <1>3, SumType
<1> QED
  BY <1>5, <1>6, <1>7, <1>8

\* The totals of any sound rows are even.
LEMMA TotalsEven ==
  ASSUME NEW S, IsFiniteSet(S), \A x \in S : SoundRow(x.entries)
  PROVE  Totals(S)["debit"] = Totals(S)["credit"]
<1> DEFINE f == [x \in S |-> SumByDirection(x.entries)["debit"]]
           g == [x \in S |-> SumByDirection(x.entries)["credit"]]
<1>1. \A x \in S : f[x] = g[x]
  BY SidesEven
<1>2. Totals(S)["debit"] = SumOver(f, S) /\ Totals(S)["credit"] = SumOver(g, S)
  BY DEF Totals
<1> HIDE DEF f, g
<1>3. SumOver(f, S) = SumOver(g, S)
  BY <1>1, SumOverTerms
<1> QED
  BY <1>2, <1>3

\* Finitely many accounts and currencies occur in finitely many rows.
LEMMA KeysFinite ==
  ASSUME NEW S, IsFiniteSet(S), \A x \in S : SoundRow(x.entries)
  PROVE  IsFiniteSet(DOMAIN ComputeBalances(S))
<1> DEFINE keys == [x \in S |-> {KeyOf(x.entries[i]) : i \in DOMAIN x.entries}]
<1>1. ASSUME NEW x \in S PROVE IsFiniteSet(keys[x])
  <2> DEFINE n == Len(x.entries)
             k == [i \in 1 .. n |-> KeyOf(x.entries[i])]
  <2>1. n \in Nat /\ DOMAIN x.entries = 1 .. n
    BY MovesType
  <2>2. keys[x] = {k[i] : i \in 1 .. n}
    BY <2>1
  <2> HIDE DEF k, n
  <2>3. IsFiniteSet(1 .. n)
    BY <2>1, FS_Interval
  <2>4. IsFiniteSet({k[i] : i \in 1 .. n})
    BY <2>3, ImageFinite
  <2> QED
    BY <2>2, <2>4
<1>2. DOMAIN ComputeBalances(S) = UNION {keys[x] : x \in S}
  BY DEF ComputeBalances
<1> HIDE DEF keys
<1>3. IsFiniteSet({keys[x] : x \in S})
  BY ImageFinite
<1>4. IsFiniteSet(UNION {keys[x] : x \in S})
  BY <1>1, <1>3, FS_UNION
<1> QED
  BY <1>2, <1>4

\* What a row moves on the accounts of one currency adds up to nothing.
LEMMA RowCancels ==
  ASSUME NEW es, SoundRow(es), NEW c, NEW K, IsFiniteSet(K),
         \A k \in K : k[2] = c,
         \A i \in DOMAIN es : es[i].currency = c => KeyOf(es[i]) \in K
  PROVE  /\ \A k \in K : NetAt(es, k) \in Int
         /\ SumOver([k \in K |-> NetAt(es, k)], K) = 0
<1> DEFINE n == Len(es)
           v == Moves(es)
           key == [i \in 1 .. n |-> KeyOf(es[i])]
           part(k) == [i \in 1 .. n |-> IF key[i] = k THEN v[i] ELSE 0]
           own == [i \in 1 .. n |-> IF key[i] \in K THEN v[i] ELSE 0]
<1>1. n \in Nat /\ DOMAIN es = 1 .. n /\ v \in [1 .. n -> Int]
  BY MovesType
<1>2. ASSUME NEW k PROVE NetAt(es, k) = SumUpTo(part(k), n) /\ part(k) \in [1 .. n -> Int]
  <2>1. part(k) = [i \in DOMAIN es |-> IF KeyOf(es[i]) = k THEN SignedAmount(es[i]) ELSE 0]
    BY <1>1 DEF Moves
  <2>2. part(k) \in [1 .. n -> Int]
    BY <1>1
  <2> QED
    BY <2>1, <2>2 DEF NetAt
<1>3. \A k \in K : NetAt(es, k) \in Int
  <2> TAKE k \in K
  <2> HIDE DEF part, n
  <2> QED
    BY <1>1, <1>2, SumType
<1>4. [k \in K |-> NetAt(es, k)] = [k \in K |-> SumUpTo(part(k), n)]
  BY <1>2
<1>5. SumUpTo(own, n) = 0
  <2>1. \A i \in 1 .. n : key[i] \in K <=> es[i].currency = c
    BY <1>1 DEF KeyOf
  <2>2. own = [i \in DOMAIN es |-> IF es[i].currency = c THEN SignedAmount(es[i]) ELSE 0]
    BY <1>1, <2>1 DEF Moves
  <2> QED
    BY <2>2, NetInZero DEF NetIn
<1>6. SumOver([k \in K |-> SumUpTo(part(k), n)], K) = SumUpTo(own, n)
  <2> HIDE DEF n, v, key
  <2> QED
    BY <1>1, SumByKey
<1> QED
  BY <1>3, <1>4, <1>5, <1>6

\* The balances of sound rows add up to nothing in every currency.
LEMMA BalancesZero ==
  ASSUME NEW S, IsFiniteSet(S), \A x \in S : SoundRow(x.entries), NEW c
  PROVE  LET bal == ComputeBalances(S)
         IN SumOver(bal, {key \in DOMAIN bal : key[2] = c}) = 0
<1> DEFINE bal == ComputeBalances(S)
           K == {key \in DOMAIN bal : key[2] = c}
           f == [k \in K |-> [x \in S |-> NetAt(x.entries, k)]]
<1>1. IsFiniteSet(K)
  BY KeysFinite, FS_Subset
<1>2. ASSUME NEW x \in S
      PROVE  /\ \A k \in K : f[k][x] \in Int
             /\ SumOver([k \in K |-> f[k][x]], K) = 0
  <2>1. \A i \in DOMAIN x.entries : KeyOf(x.entries[i]) \in DOMAIN bal
    BY DEF ComputeBalances
  <2>2. \A i \in DOMAIN x.entries : x.entries[i].currency = c => KeyOf(x.entries[i]) \in K
    BY <2>1 DEF KeyOf
  <2>3. \A k \in K : k[2] = c
    OBVIOUS
  <2>4. \A k \in K : f[k][x] = NetAt(x.entries, k)
    OBVIOUS
  <2>5. [k \in K |-> f[k][x]] = [k \in K |-> NetAt(x.entries, k)]
    BY <2>4
  <2>6. SoundRow(x.entries)
    OBVIOUS
  <2> HIDE DEF K, f, bal
  <2>7. /\ \A k \in K : NetAt(x.entries, k) \in Int
        /\ SumOver([k \in K |-> NetAt(x.entries, k)], K) = 0
    BY <1>1, <2>2, <2>3, <2>6, RowCancels
  <2> QED
    BY <2>4, <2>5, <2>7
<1>3. \A k \in K : bal[k] = SumOver([x \in S |-> f[k][x]], S)
  <2> TAKE k \in K
  <2>1. [x \in S |-> f[k][x]] = [x \in S |-> NetAt(x.entries, k)]
    OBVIOUS
  <2>2. bal[k] = SumOver([x \in S |-> NetAt(x.entries, k)], S)
    BY DEF ComputeBalances
  <2> QED
    BY <2>1, <2>2
<1> HIDE DEF f, K, bal
<1> DEFINE g == [k \in K |-> SumOver([x \in S |-> f[k][x]], S)]
           h == [x \in S |-> SumOver([k \in K |-> f[k][x]], K)]
<1>4. SumOver(g, K) = SumOver(h, S)
  BY <1>1, <1>2, SumOverOver
<1>5. \A k \in K : bal[k] = g[k]
  BY <1>3
<1>6. \A x \in S : h[x] = 0
  BY <1>2
<1> HIDE DEF g, h
<1>7. SumOver(bal, K) = SumOver(g, K)
  BY <1>1, <1>5, SumOverTerms
<1>8. SumOver(h, S) = 0
  BY <1>6, SumOverTerms
<1> QED
  BY <1>4, <1>7, <1>8 DEF K, bal
----------------------------------------------------------------------------
(* Whatever comes in is sound *)

\* Every book that is, or may become again, the content of the store, and every row on
\* its way into it.
BooksSound ==
  /\ \A S \in TxnBooks : IsFiniteSet(S) /\ \A x \in S : SoundRow(x.entries)
  /\ \A t \in Tab : pend[t].op = "txn" => SoundRow(pend[t].row.entries)

\* Validated entries are sound.
LEMMA ValidSound ==
  ASSUME NEW book, NEW body, ValidateTxnBody(book, body),
         Len(body.entries) \in Nat, DOMAIN body.entries = 1 .. Len(body.entries)
  PROVE  SoundRow(body.entries)
BY DEF ValidateTxnBody, ValidEntry, SoundRow

\* A form's entries are resolved one by one.
LEMMA ResolvedEntries ==
  ASSUME NEW book, NEW body \in NewBodies
  PROVE  LET es == Resolve(book, body).entries
         IN Len(es) \in Nat /\ DOMAIN es = 1 .. Len(es)
<1> DEFINE es == body.entries
           f == [i \in DOMAIN es |-> [es[i] EXCEPT !.account = IdOf(book, es[i].account)]]
<1>1. "entries" \in DOMAIN body /\ es \in Seq(Range(es))
  BY LocalAssumption DEF LocalAssumption
<1>2. Len(es) \in Nat /\ DOMAIN es = 1 .. Len(es)
  BY <1>1
<1>3. Resolve(book, body).entries = f
  BY <1>1 DEF Resolve
<1>4. DOMAIN f = 1 .. Len(es)
  BY <1>2
<1> HIDE DEF f, es
<1>5. Len(f) = Len(es)
  BY <1>2, <1>4
<1> QED
  BY <1>2, <1>3, <1>4, <1>5

\* The rows of the sample are sound.
LEMMA SampleRowsSound ==
  ASSUME NEW x \in SampleTxns
  PROVE  SoundRow(x.entries)
<1>1. ValidateTxnBody(SampleAccounts, x)
  BY SampleSound DEF Consistent
<1>2. Len(x.entries) \in Nat /\ DOMAIN x.entries = 1 .. Len(x.entries)
  <2>1. PICK i \in DOMAIN BuildLedger : x = MkTxn(i, BuildLedger[i])
    BY DEF SampleTxns
  <2>2. x.entries = MkTxn(i, BuildLedger[i]).entries
    BY <2>1
  <2> QED
    BY <2>2 DEF MkTxn
<1> QED
  BY <1>1, <1>2, ValidSound

\* A row whose entries were cut off has one entry.
LEMMA CutIsShort ==
  ASSUME NEW es, SoundRow(es), Len(es) >= 2
  PROVE  Len(SubSeq(es, 1, 1)) = 1
BY DEF SoundRow

\* What is written to the store is sound.
LEMMA StoredSound ==
  ASSUME Shapes, Identities, BooksSound, NEW t \in Tab, TabStep(t)
  PROVE  IsFiniteSet(txns') /\ \A x \in txns' : SoundRow(x.entries)
<1> DEFINE Fine(S) == IsFiniteSet(S) /\ \A x \in S : SoundRow(x.entries)
<1>a. Fine(txns) /\ \A b \in backups : Fine(b.txns)
  BY DEF BooksSound, TxnBooks
<1>1. CASE txns' \in {txns, {}, SampleTxns}
  <2>1. Fine({})
    BY FS_EmptySet
  <2>2. Fine(SampleTxns)
    BY SampleCount, SampleRowsSound
  <2> QED
    BY <1>1, <1>a, <2>1, <2>2
<1>2. ASSUME NEW S, Restored(S), txns' \subseteq S PROVE Fine(txns')
  <2>1. PICK b \in backups :
          \/ S = b.txns
          \/ \E x \in b.txns :
               /\ S = (b.txns \ {x}) \cup {[x EXCEPT !.entries = SubSeq(x.entries, 1, 1)]}
               /\ \A y \in S : Len(y.entries) >= 2
    BY <1>2 DEF Restored
  <2>2. ASSUME NEW x \in b.txns,
               S = (b.txns \ {x}) \cup {[x EXCEPT !.entries = SubSeq(x.entries, 1, 1)]},
               \A y \in S : Len(y.entries) >= 2
        PROVE  FALSE
    <3> DEFINE cut == SubSeq(x.entries, 1, 1)
               y == [x EXCEPT !.entries = cut]
    <3>1. TxnRow(x, tab, made)
      BY DEF Identities, TxnBooks, TxnBook
    <3>2. y.entries = cut
      BY <3>1 DEF TxnRow
    <3>3. Len(y.entries) >= 2
      BY <2>2
    <3>4. SoundRow(x.entries) /\ Len(x.entries) >= 2
      BY <1>a, <3>1 DEF TxnRow
    <3>5. Len(cut) = 1
      BY <3>4, CutIsShort
    <3> QED
      BY <3>2, <3>3, <3>5
  <2>3. txns' \subseteq b.txns
    BY <1>2, <2>1, <2>2
  <2>4. IsFiniteSet(txns')
    BY <1>a, <2>3, FS_Subset
  <2> QED
    BY <1>a, <2>3, <2>4
<1>3. CASE PutRow(t) /\ pend[t].op = "txn" /\ txns' = Put(txns, pend[t].row)
  <2>1. pend[t] # None /\ txns' = txns \cup {pend[t].row}
    BY <1>3, PutFresh DEF PutRow
  <2>2. SoundRow(pend[t].row.entries)
    BY <1>3 DEF BooksSound
  <2>3. IsFiniteSet(txns')
    BY <1>a, <2>1, FS_AddElement
  <2> QED
    BY <1>a, <2>1, <2>2, <2>3
<1> QED
  BY <1>1, <1>2, <1>3, StoreEffect

\* A form's body is sound when it is accepted.
LEMMA PendSound ==
  ASSUME Shapes, BooksSound, NEW t \in Tab, TabStep(t), NEW u \in Tab, pend'[u].op = "txn"
  PROVE  SoundRow(pend'[u].row.entries)
<1>1. CASE Kept(u)
  BY <1>1 DEF Kept, BooksSound
<1>2. CASE pend'[u] = None
  BY <1>2 DEF None
<1>3. CASE u = t /\ Validated(t)
  <2>0. DOMAIN pend = Tab
    BY DEF Shapes
  <2>1. ASSUME NEW c \in Codes, CreateAccount(t, c) PROVE FALSE
    BY <1>3, <2>0, <2>1 DEF CreateAccount
  <2>2. PICK b \in NewBodies : CreateTxn(t, b)
    BY <1>3, <2>1 DEF Validated
  <2> DEFINE n == Resolve(accounts, b)
  <2>3. pend'[u].row.entries = n.entries /\ ValidateTxnBody(accounts, n)
    BY <1>3, <2>0, <2>2 DEF CreateTxn
  <2>4. Len(n.entries) \in Nat /\ DOMAIN n.entries = 1 .. Len(n.entries)
    BY ResolvedEntries
  <2> HIDE DEF n
  <2> QED
    BY <2>3, <2>4, ValidSound
<1> QED
  BY <1>1, <1>2, <1>3, TabEffect

\* Soundness is kept by every step.
LEMMA BooksStep ==
  ASSUME Shapes, Identities, BooksSound, [Next]_vars
  PROVE  BooksSound'
<1>0. CASE UNCHANGED vars
  BY <1>0 DEF BooksSound, vars, TxnBooks
<1> SUFFICES ASSUME NEW t \in Tab, TabStep(t) PROVE BooksSound'
  BY <1>0 DEF Next
<1>1. IsFiniteSet(txns') /\ \A x \in txns' : SoundRow(x.entries)
  BY StoredSound
<1>2. ASSUME NEW S \in TxnBooks' PROVE IsFiniteSet(S) /\ \A x \in S : SoundRow(x.entries)
  <2>1. S \in TxnBooks \/ S = {} \/ S = txns'
    BY BookEffect
  <2> QED
    BY <1>1, <2>1, FS_EmptySet DEF BooksSound
<1>3. \A u \in Tab : pend'[u].op = "txn" => SoundRow(pend'[u].row.entries)
  BY PendSound
<1> QED
  BY <1>2, <1>3 DEF BooksSound

\* Nothing is stored, read, kept or on its way.
LEMMA InitBooks ==
  ASSUME Init
  PROVE  BooksSound
<1>1. \A S \in TxnBooks : S = {}
  BY DEF Init, TxnBooks, Idle, Unread
<1>2. \A t \in Tab : pend[t].op = "none"
  BY DEF Init, None
<1> QED
  BY <1>1, <1>2, FS_EmptySet DEF BooksSound

\* However rows come in, the ledger balances: in every currency over all accounts, in
\* every month, and in any selection of rows the page may show.
THEOREM BooksAlwaysBalance == Spec => []BooksBalance
<1>1. Init => BooksSound
  BY InitBooks
<1>2. LocalInv /\ BooksSound /\ [Next]_vars => BooksSound'
  BY BooksStep DEF LocalInv
<1>3. ASSUME BooksSound PROVE BooksBalance
  <2>1. IsFiniteSet(txns) /\ \A x \in txns : SoundRow(x.entries)
    BY <1>3 DEF BooksSound, TxnBooks
  <2>2. \A c : LET bal == ComputeBalances(txns)
               IN SumOver(bal, {key \in DOMAIN bal : key[2] = c}) = 0
    BY <2>1, BalancesZero
  <2>3. ASSUME NEW rows \in SUBSET txns PROVE Totals(rows)["debit"] = Totals(rows)["credit"]
    <3>1. IsFiniteSet(rows) /\ \A x \in rows : SoundRow(x.entries)
      BY <2>1, FS_Subset
    <3> QED
      BY <3>1, TotalsEven
  <2>4. ASSUME NEW m \in DOMAIN PeriodTotals(txns)
        PROVE  PeriodTotals(txns)[m]["debit"] = PeriodTotals(txns)[m]["credit"]
    <3>1. PeriodTotals(txns)[m] = Totals({x \in txns : MonthOf(x.day) = m})
      BY DEF PeriodTotals
    <3>2. {x \in txns : MonthOf(x.day) = m} \in SUBSET txns
      OBVIOUS
    <3> QED
      BY <2>3, <3>1, <3>2
  <2>5. \A rows \in SUBSET txns : PageTotals(rows)["debit"] = PageTotals(rows)["credit"]
    BY <2>3 DEF PageTotals
  <2> QED
    BY <2>2, <2>4, <2>5 DEF BooksBalance
<1> QED
  BY <1>1, <1>2, <1>3, LocalInvariant, PTL DEF Spec

----------------------------------------------------------------------------
(* Refinement *)

\* A transaction as the ledger in memory has it.
Row(x) == [id |-> x.id, day |-> x.day, entries |-> x.entries]

\* The rules the ledger in memory applies are those of the local store.
LEMMA SameRules ==
  /\ \A S, b : Memory!ValidateTxnBody(S, b) <=> ValidateTxnBody(S, b)
  /\ \A S, b : Memory!ValidateAccountBody(S, b) <=> ValidateAccountBody(S, b)
  /\ \A S, b : Memory!Resolve(S, b) = Resolve(S, b)
<1>1. \A e : Memory!SignedAmount(e) = SignedAmount(e)
  BY DEF Memory!SignedAmount, SignedAmount
<1>2. \A f, n : Memory!SumUpTo(f, n) = SumUpTo(f, n)
  BY DEF Memory!SumUpTo, SumUpTo, Memory!PartialSums, PartialSums
<1>3. \A es, c : Memory!NetIn(es, c) = NetIn(es, c)
  BY <1>1, <1>2 DEF Memory!NetIn, NetIn
<1>4. \A es : Memory!Balanced(es) <=> Balanced(es)
  BY <1>3 DEF Memory!Balanced, Balanced, Memory!Currencies, Currencies
<1>5. \A S, b : Memory!ValidateTxnBody(S, b) <=> ValidateTxnBody(S, b)
  BY <1>4 DEF Memory!ValidateTxnBody, ValidateTxnBody, Memory!ValidEntry, ValidEntry
<1>6. \A S, b : Memory!ValidateAccountBody(S, b) <=> ValidateAccountBody(S, b)
  BY DEF Memory!ValidateAccountBody, ValidateAccountBody
<1>7. \A S, b : Memory!Resolve(S, b) = Resolve(S, b)
  BY DEF Memory!Resolve, Resolve, Memory!IdOf, IdOf
<1> QED
  BY <1>5, <1>6, <1>7

\* An empty ledger is a profile.
LEMMA EmptyProfile == Consistent({}, {})
BY DEF Consistent

\* What is consistent in the stores is consistent as a profile.
LEMMA ProfileOf ==
  ASSUME NEW A, NEW X, Consistent(A, X)
  PROVE  Consistent(A, {Row(x) : x \in X})
<1>1. \A x \in X : ValidateTxnBody(A, Row(x))
  BY ValidSame DEF Consistent, Row
<1> QED
  BY <1>1 DEF Consistent

\* The write of a row that is still valid creates it in the ledger in memory.
LEMMA PutCreates ==
  ASSUME LocalInv, LocalInv', NEW t \in Tab, PutRow(t), ~ raced, ~ raced'
  PROVE  Memory!Next
<1> DEFINE row == pend[t].row
           rows == {Row(x) : x \in txns}
<1>1. pend[t] # None /\ ~ pend[t].stale /\ wipes' = wipes /\ Shapes /\ Identities
  BY DEF PutRow, LocalInv
<1>2. StillValid(pend[t], accounts)
  BY <1>1 DEF LocalInv, Unbroken
<1>3. made \in Nat /\ made <= MaxMade /\ MaxMade \in Nat
  BY LocalAssumption DEF LocalInv, Shapes, LocalAssumption
<1>4. \A a \in accounts : a.id[1] \in {"s", "a", "f"}
  BY <1>1 DEF Identities, AccountBooks, AccountBook, TypedId
<1>5. \A x \in txns : x.id[1] \in {"s", "t"}
  BY <1>1 DEF Identities, TxnBooks, TxnBook, TxnRow, Stamped
<1>6. <<wipes, raced>>' = <<wipes, raced>>
  <2>1. raced = FALSE /\ raced' = FALSE
    BY DEF LocalInv, Shapes
  <2> QED
    BY <1>1, <2>1
<1>7. /\ Unraced(accounts) = accounts /\ Unraced(accounts)' = accounts'
      /\ Unraced({Row(x) : x \in txns}) = rows
      /\ Unraced({Row(x) : x \in txns})' = rows'
  BY DEF Unraced
<1>8. CASE pend[t].op = "account"
  <2>1. AccountPend(row, AccountBooks, made)
    BY <1>1, <1>8 DEF Identities
  <2>2. accounts' = accounts \cup {row} /\ txns' = txns
    BY <1>1, <1>8, PutFresh DEF PutRow
  <2>3. row.id \in {"a"} \X (1 .. MaxMade) /\ row.code \in Codes /\ row.id[1] = "a"
    BY <1>3, <2>1 DEF AccountPend
  <2>4. row = [id |-> row.id, code |-> row.code]
    BY <2>1 DEF AccountPend
  <2>5. ValidateAccountBody(accounts, [code |-> row.code, sound |-> TRUE])
    BY <1>2, <1>8 DEF StillValid, ValidateAccountBody
  <2>6. \A x \in accounts : x.id # row.id
    BY <2>1 DEF AccountPend, Unused, AccountBooks
  <2>7. \A x \in rows : x.id # row.id
    BY <1>5, <2>3 DEF Row
  <2> HIDE DEF row
  <2>8. Memory!Fresh(row.id)
    BY <1>7, <2>6, <2>7 DEF Memory!Fresh, Row
  <2>9. Memory!CreateAccount
    BY <1>6, <1>7, <2>2, <2>3, <2>4, <2>5, <2>8, SameRules DEF Memory!CreateAccount, Row
  <2> QED
    BY <2>9 DEF Memory!Next
<1>9. CASE pend[t].op = "txn"
  <2>1. TxnPend(row, t, TxnBooks, tab, made)
    BY <1>1, <1>9 DEF Identities
  <2>2. txns' = txns \cup {row} /\ accounts' = accounts
    BY <1>1, <1>9, PutFresh DEF PutRow
  <2>3. row.id \in {"t"} \X (1 .. MaxMade) /\ row.id[1] = "t"
    BY <1>3, <2>1 DEF TxnPend
  <2>4. PICK body \in NewBodies : Accepted(row, body, accounts)
    BY <1>2, <1>9 DEF StillValid
  <2>5. \A x \in accounts : x.id # row.id
    BY <1>4, <2>3
  <2>6. \A x \in rows : x.id # row.id
    BY <2>1 DEF Row, TxnPend, Unused, TxnBooks
  <2> HIDE DEF row
  <2>7. Memory!Fresh(row.id)
    BY <1>7, <2>5, <2>6 DEF Memory!Fresh, Row
  <2>8. rows' = rows \cup {Row(row)}
    BY <2>2
  <2> DEFINE norm == Resolve(accounts, body)
  <2>9. /\ Row(row) = [id |-> row.id, day |-> norm.day, entries |-> norm.entries]
        /\ ValidateTxnBody(accounts, norm)
    BY <2>4 DEF Accepted, Row
  <2>10. Memory!Resolve(accounts, body) = norm /\ Memory!ValidateTxnBody(accounts, norm)
    BY <2>9, SameRules
  <2> HIDE DEF norm, rows
  <2>11. Memory!CreateTxn
    BY <1>6, <1>7, <2>2, <2>3, <2>7, <2>8, <2>9, <2>10 DEF Memory!CreateTxn, Row
  <2> QED
    BY <2>11 DEF Memory!Next
<1> QED
  BY <1>1, <1>8, <1>9, PutFresh

\* A replacement, and a write that is raced, load another profile.
LEMMA ReplaceLoads ==
  ASSUME LocalInv, LocalInv', <<wipes', raced'>> # <<wipes, raced>>
  PROVE  Memory!Next
<1>1. CASE raced'
  <2>1. Unraced(accounts)' = {} /\ Unraced({Row(x) : x \in txns})' = {}
    BY <1>1 DEF Unraced
  <2> QED
    BY <2>1, EmptyProfile DEF Memory!Next, Memory!SetDemoProfile, Row
<1>2. CASE ~ raced'
  <2>1. /\ Unraced(accounts)' = accounts'
        /\ Unraced({Row(x) : x \in txns})' = {Row(x) : x \in txns}'
    BY <1>2 DEF Unraced
  <2>2. Consistent(accounts', txns')
    BY <1>2 DEF LocalInv, Unbroken
  <2>3. Consistent(accounts', {Row(x) : x \in txns'})
    BY <2>2, ProfileOf
  <2> QED
    BY <2>1, <2>3 DEF Memory!Next, Memory!SetDemoProfile, Row
<1> QED
  BY <1>1, <1>2

\* The local store does what the ledger in memory does, one operation at a time, until a write is raced.
THEOREM Refinement == Spec => ActsLikeMemory
<1>1. Init => Memory!Init
  BY EmptyProfile DEF Init, Memory!Init, Unraced
<1>2. ASSUME LocalInv, LocalInv', [Next]_vars PROVE [Memory!Next]_(Memory!vars)
  <2>1. CASE <<wipes', raced'>> # <<wipes, raced>>
    BY <1>2, <2>1, ReplaceLoads
  <2>2. CASE wipes' = wipes /\ raced' = raced /\ raced
    BY <2>2 DEF Memory!vars, Unraced
  <2>3. CASE wipes' = wipes /\ raced' = raced /\ ~ raced
    <3>1. ASSUME NEW t \in Tab, PutRow(t) PROVE Memory!Next
      BY <1>2, <2>3, <3>1, PutCreates
    <3>2. ASSUME UNCHANGED <<accounts, txns>> PROVE UNCHANGED Memory!vars
      BY <2>3, <3>2 DEF Memory!vars, Unraced
    <3>3. ASSUME NEW A, NEW X, ReplaceStores(A, X) PROVE FALSE
      BY <1>2, <2>3, <3>3 DEF ReplaceStores, LocalInv, Shapes
    <3>4. \/ UNCHANGED <<accounts, txns>> \/ \E t \in Tab : PutRow(t)
          \/ \E A, X : ReplaceStores(A, X)
      <4>1. \A t \in Tab : ImportData(t) => \E A, X : ReplaceStores(A, X)
        BY <1>2, ImportReplaces DEF LocalInv
      <4> QED
        BY <1>2, <4>1 DEF Next, vars, TabStep, CreateAccount, CreateTxn, ReadAccounts, ReadTxns,
           ExportData, IsEmpty, SeedSample, ResetData, Reload
    <3> QED
      BY <3>1, <3>2, <3>3, <3>4
  <2> QED
    BY <2>1, <2>2, <2>3
<1> QED
  BY <1>1, <1>2, LocalInvariant, PTL DEF Spec, ActsLikeMemory, Memory!Spec
=============================================================================
