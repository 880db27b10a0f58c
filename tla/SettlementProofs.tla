---------------------------- MODULE SettlementProofs ----------------------------
(***************************************************************************)
(* Theorems about the closing batches, for every width, table size and set of *)
(* files: the two rounding rules are one function, both sides print the same    *)
(* lines of a file or the program stops, no schedule leaves its bounds and each  *)
(* one closes to the last unit, a balanced book stays balanced in KRW, and a     *)
(* check without a finding has compared what is stored.                         *)
(***************************************************************************)
EXTENDS Settlement, FiniteSumsProofs, FiniteSetTheorems

(* Division *)

\* Quotient and remainder of any integer.
LEMMA DivMod ==
  ASSUME NEW a \in Int, NEW den \in Nat, den # 0
  PROVE  \E q \in Int, r \in Nat :
           /\ q = a \div den /\ r = a % den
           /\ r < den /\ a = den * q + r
<1>1. a \div den \in Int /\ a % den \in Nat /\ a % den < den
  BY SMT
<1>2. ASSUME NEW q \in Int, NEW r \in Nat, q = a \div den, r = a % den
      PROVE  a = den * q + r
  BY <1>2, SMTT(30)
<1> QED
  BY <1>1, <1>2

\* Multiples of den that differ are at least den apart.
LEMMA Apart ==
  ASSUME NEW den \in Nat, NEW x \in Int, NEW y \in Int, x < y
  PROVE  den * x + den <= den * y
<1>1. PICK d \in Nat : y = x + 1 + d
  <2>1. y - x - 1 \in Nat /\ y = x + 1 + (y - x - 1)
    OBVIOUS
  <2> QED
    BY <2>1
<1>2. den * y = den * x + den + den * d
  BY <1>1, SMT
<1>3. den * d \in Nat /\ den * x \in Int
  BY SMT
<1> QED
  BY <1>2, <1>3

\* Quotient and remainder are unique.
LEMMA DivUnique ==
  ASSUME NEW den \in Nat, NEW x \in Int, NEW y \in Int, NEW r \in Nat, NEW s \in Nat,
         r < den, s < den, den * x + r = den * y + s
  PROVE  x = y /\ r = s
<1>1. ~ (x < y)
  <2>1. SUFFICES ASSUME x < y PROVE FALSE
    OBVIOUS
  <2>2. den * x + den <= den * y
    BY <2>1, Apart
  <2>3. den * x \in Int /\ den * y \in Int
    BY SMT
  <2> QED
    BY <2>2, <2>3
<1>2. ~ (y < x)
  <2>1. SUFFICES ASSUME y < x PROVE FALSE
    OBVIOUS
  <2>2. den * y + den <= den * x
    BY <2>1, Apart
  <2>3. den * x \in Int /\ den * y \in Int
    BY SMT
  <2> QED
    BY <2>2, <2>3
<1>3. x = y
  BY <1>1, <1>2
<1>4. den * x \in Int
  BY SMT
<1> QED
  BY <1>3, <1>4

(* The two roundings *)

\* The reference's rounding yields an integer.
LEMMA RoundHalfEvenInt ==
  ASSUME NEW num \in Int, NEW den \in Nat, den # 0
  PROVE  RoundHalfEven(num, den) \in Int
  BY DEF RoundHalfEven, Magnitude, WithSignOf

\* ROUNDED MODE IS NEAREST-EVEN yields an integer.
LEMMA NearestEvenInt ==
  ASSUME NEW num \in Int, NEW den \in Nat, den # 0
  PROVE  NearestEven(num, den) \in Int
  BY DEF NearestEven

\* The algorithm of scripts/parity/lib.mjs, which rounds the magnitude and puts the
\* sign back, is the language's NEAREST-EVEN of the signed quotient, for every
\* numerator and denominator: INV-7 cannot break on a rounding.
THEOREM RoundingAgrees ==
  ASSUME NEW num \in Int, NEW den \in Nat, den # 0
  PROVE  RoundHalfEven(num, den) = NearestEven(num, den)
<1>1. CASE num >= 0
  <2>1. PICK q \in Int, r \in Nat :
          q = num \div den /\ r = num % den /\ r < den /\ num = den * q + r
    BY DivMod
  <2>2. Magnitude(num) = num
    BY <1>1 DEF Magnitude
  <2>3. 2 * (num - q * den) = 2 * r
    <3>1. den * q = q * den /\ den * q \in Int
      BY SMT
    <3> QED
      BY <2>1, <3>1
  <2>4. Magnitude(2 * (num - q * den)) = 2 * r
    BY <2>3 DEF Magnitude
  <2>5. IsNearestEven(q, num, den) <=> ~ (2 * r > den \/ (2 * r = den /\ q % 2 = 1))
    BY <2>4 DEF IsNearestEven
  <2>6. NearestEven(num, den) =
          IF 2 * r > den \/ (2 * r = den /\ q % 2 = 1) THEN q + 1 ELSE q
    BY <2>1, <2>5 DEF NearestEven
  <2>7. RoundHalfEven(num, den) =
          IF 2 * r > den \/ (2 * r = den /\ q % 2 = 1) THEN q + 1 ELSE q
    BY <1>1, <2>1, <2>2 DEF RoundHalfEven, WithSignOf
  <2> QED
    BY <2>6, <2>7
<1>2. CASE num < 0
  <2> DEFINE a == -num
  <2>0. a \in Int
    OBVIOUS
  <2>1. PICK q \in Int, r \in Nat :
          q = a \div den /\ r = a % den /\ r < den /\ a = den * q + r
    BY <2>0, DivMod
  <2>2. PICK p \in Int, s \in Nat :
          p = num \div den /\ s = num % den /\ s < den /\ num = den * p + s
    BY DivMod
  <2>a. -num = den * q + r /\ num = den * p + s
    BY <2>1, <2>2
  <2>3. den * q \in Int /\ den * p \in Int /\ den * (-q) = -(den * q)
        /\ den * (-q - 1) = -(den * q) - den /\ p * den = den * p
    BY SMT
  <2>4. Magnitude(2 * (num - p * den)) = 2 * s
    BY <2>2, <2>3 DEF Magnitude
  <2>5. IsNearestEven(p, num, den) <=> (2 * s < den \/ (2 * s = den /\ p % 2 = 0))
    BY <2>4 DEF IsNearestEven
  <2>6. NearestEven(num, den) =
          IF 2 * s < den \/ (2 * s = den /\ p % 2 = 0) THEN p ELSE p + 1
    BY <2>2, <2>5 DEF NearestEven
  <2>7. RoundHalfEven(num, den) =
          -(IF 2 * r > den \/ (2 * r = den /\ q % 2 = 1) THEN q + 1 ELSE q)
    BY <1>2, <2>1 DEF RoundHalfEven, WithSignOf, Magnitude
  <2>8. CASE r = 0
    <3> DEFINE u == -q
    <3>1. u \in Int /\ den * u = -(den * q) /\ den * q \in Int /\ den * p \in Int
      BY <2>3
    <3> HIDE DEF u
    <3>2. den * p + s = den * u + r
      BY <2>a, <2>8, <3>1
    <3>3. p = u /\ s = r
      <4>1. r < den /\ s < den
        BY <2>1, <2>2
      <4> QED
        BY <4>1, <3>1, <3>2, DivUnique
    <3> QED
      BY <3>3, <2>6, <2>7, <2>8 DEF u
  <2>9. CASE r # 0
    <3>1. den * p + s = den * (-q - 1) + (den - r)
      BY <2>1, <2>2, <2>3
    <3>2. -q - 1 \in Int /\ den - r \in Nat /\ den - r < den
      BY <2>1, <2>9
    <3>3. p = -q - 1 /\ s = den - r
      BY <3>1, <3>2, <2>2, DivUnique
    <3>4. (p % 2 = 0) <=> (q % 2 = 1)
      BY <3>3, SMT
    <3> QED
      BY <3>3, <3>4, <2>6, <2>7
  <2> QED
    BY <2>8, <2>9
<1> QED
  BY <1>1, <1>2

\* Half of an odd number goes to the even neighbour, for either sign.
LEMMA HalfOfOdd ==
  ASSUME NEW q \in Nat, NEW s \in {1, -1}
  PROVE  RoundHalfEven(s * (2 * q + 1), 2) = s * HalfToEven(q)
<1>1. CASE s = 1
  BY <1>1 DEF RoundHalfEven, Magnitude, WithSignOf, HalfToEven
<1>2. CASE s = -1
  BY <1>2 DEF RoundHalfEven, Magnitude, WithSignOf, HalfToEven
<1> QED
  BY <1>1, <1>2

\* The closed form the parity script tries for 200 values holds for every value a
\* field can hold, on both sides and for both signs.
THEOREM HalfBoundaryHolds == Spec => []HalfBoundary
<1>1. HalfBoundary
  <2>1. SUFFICES ASSUME NEW q \in 0 .. MaxField, NEW s \in {1, -1}, NEW m \in Side
                 PROVE  HalfRow(m, s, q) = s * HalfToEven(q)
    BY DEF HalfBoundary
  <2>2. q \in Nat
    BY BatchAssumption
  <2>3. RoundHalfEven(s * (2 * q + 1), 2) = s * HalfToEven(q)
    BY <2>2, HalfOfOdd
  <2>4. s * (2 * q + 1) \in Int
    BY <2>2, SMT
  <2>5. NearestEven(s * (2 * q + 1), 2) = s * HalfToEven(q)
    BY <2>3, <2>4, RoundingAgrees
  <2> QED
    BY <2>3, <2>5 DEF HalfRow, Rounded
<1> QED
  BY <1>1, PTL

----------------------------------------------------------------------------
(* Schedules *)

\* Records the generator has accepted.
Accepted(f) == \A i \in DOMAIN f.recs : FormatIn(f.prog, f.recs[i])

Shaped(w) == w = [balance |-> w.balance, accum |-> w.accum, totals |-> w.totals]

\* Working storage suits record i of f.
Suits(f, i, w) ==
  i \in DOMAIN f.recs =>
    /\ f.prog = "amort" => w.balance \in 0 .. f.recs[i].principal
    /\ f.prog = "deprec" =>
         /\ w.balance \in f.recs[i].salvage .. f.recs[i].cost
         /\ w.accum + w.balance = f.recs[i].cost
         /\ w.accum \in Int

\* The inductive invariant: the file in work is an accepted one, and while a side is
\* at work its storage suits the record it is at.
SchedInv ==
  /\ file \in Files \cup {NoFile} /\ Accepted(file)
  /\ at \in Nat \ {0}
  /\ Shaped(work)
  /\ stage \in Side => Suits(file, at, work)

\* The records of a file are a sequence of records of one program.
LEMMA RecordSeq ==
  ASSUME NEW f \in Files \cup {NoFile}
  PROVE  f.recs \in Seq(Entry) \cup Seq(Loan) \cup Seq(Claim) \cup Seq(Asset) \cup Seq(Detail)
<1>1. CASE f \in Files
  BY <1>1, BatchAssumption DEF File
<1>2. CASE f = NoFile
  <2>1. << >> \in Seq(Entry)
    OBVIOUS
  <2> QED
    BY <1>2, <2>1 DEF NoFile
<1> QED
  BY <1>1, <1>2

\* What the generator accepts of a loan.
LEMMA AmortRecord ==
  ASSUME NEW f \in Files \cup {NoFile}, Accepted(f), f.prog = "amort",
         NEW i \in DOMAIN f.recs
  PROVE  /\ f.recs[i].principal \in Nat /\ f.recs[i].num \in Nat
         /\ f.recs[i].den \in Nat /\ f.recs[i].den # 0
         /\ Payment(f.recs[i]) \in Nat
<1>1. FormatAmortIn(f.recs[i])
  BY DEF Accepted, FormatIn
<1> QED
  BY <1>1, BatchAssumption DEF FormatAmortIn, Fits

\* What the generator accepts of an asset: its salvage value is at most its cost.
LEMMA DeprecRecord ==
  ASSUME NEW f \in Files \cup {NoFile}, Accepted(f), f.prog = "deprec",
         NEW i \in DOMAIN f.recs
  PROVE  /\ f.recs[i].cost \in Nat /\ f.recs[i].salvage \in Nat
         /\ f.recs[i].salvage <= f.recs[i].cost
         /\ f.recs[i].num \in Nat /\ f.recs[i].den \in Nat
         /\ f.recs[i].method # "L" => f.recs[i].den # 0
         /\ f.recs[i].n \in Nat /\ f.recs[i].n # 0
<1>1. FormatDeprecIn(f.recs[i])
  BY DEF Accepted, FormatIn
<1>2. f.recs \in Seq(Asset)
  BY BatchAssumption DEF File, NoFile
<1>3. f.recs[i] \in Asset
  BY <1>2
<1> QED
  BY <1>1, <1>3, BatchAssumption DEF FormatDeprecIn, Fits, Asset

\* Both sides round to an integer.
LEMMA RoundedInt ==
  ASSUME NEW m \in Side, NEW num \in Int, NEW den \in Nat, den # 0
  PROVE  Rounded(m, num, den) \in Int
  BY RoundHalfEvenInt, NearestEvenInt DEF Rounded

\* A record that is opened suits working storage.
LEMMA OpenSuits ==
  ASSUME NEW f \in Files \cup {NoFile}, Accepted(f), NEW i \in Nat \ {0}, NEW w, Shaped(w)
  PROVE  Shaped(Open(f, i, w)) /\ Suits(f, i, Open(f, i, w))
<1>1. Shaped(Open(f, i, w))
  BY DEF Shaped, Open
<1>2. f.recs \in Seq(Entry) \cup Seq(Loan) \cup Seq(Claim) \cup Seq(Asset) \cup Seq(Detail)
  BY RecordSeq
<1>3. ASSUME i \in DOMAIN f.recs PROVE ~ (i > Len(f.recs))
  BY <1>2, <1>3
<1>4. ASSUME i \in DOMAIN f.recs, f.prog = "amort"
      PROVE  Open(f, i, w).balance \in 0 .. f.recs[i].principal
  BY <1>3, <1>4, AmortRecord DEF Open, Shaped
<1>5. ASSUME i \in DOMAIN f.recs, f.prog = "deprec"
      PROVE  /\ Open(f, i, w).balance \in f.recs[i].salvage .. f.recs[i].cost
             /\ Open(f, i, w).accum + Open(f, i, w).balance = f.recs[i].cost
             /\ Open(f, i, w).accum \in Int
  BY <1>3, <1>5, DeprecRecord DEF Open, Shaped
<1> QED
  BY <1>1, <1>4, <1>5 DEF Suits

\* Nothing is running at the start.
LEMMA SchedInit == Init => SchedInv
  BY DEF Init, SchedInv, Accepted, NoFile, Shaped, Side

\* The next record starts from storage that suits it.
LEMMA SchedNextRecord ==
  ASSUME SchedInv, NEW w, Shaped(w), NextRecord(w), UNCHANGED file
  PROVE  SchedInv'
<1>1. at + 1 \in Nat \ {0} /\ file \in Files \cup {NoFile} /\ Accepted(file)
  BY DEF SchedInv
<1>2. Shaped(Open(file, at + 1, w)) /\ Suits(file, at + 1, Open(file, at + 1, w))
  BY <1>1, OpenSuits
<1> QED
  BY <1>1, <1>2 DEF SchedInv, NextRecord, Accepted, Shaped, Suits

\* A side that stops is not running.
LEMMA SchedStop ==
  ASSUME SchedInv, NEW m \in Side, Stop(m), UNCHANGED file
  PROVE  SchedInv'
<1>1. stage' \notin Side
  BY DEF Stop, Side
<1> QED
  BY <1>1 DEF SchedInv, Stop, Accepted, Shaped

\* Storage that suits the record suits its next period, or the next record is opened.
LEMMA SchedNextPeriod ==
  ASSUME SchedInv, NEW w, Shaped(w), Suits(file, at, w), NextPeriod(w), UNCHANGED file
  PROVE  SchedInv'
<1>1. CASE NextRecord(w)
  BY <1>1, SchedNextRecord
<1>2. CASE work' = w /\ UNCHANGED at
  BY <1>2 DEF SchedInv, Accepted, Shaped, Suits
<1> QED
  BY <1>1, <1>2 DEF NextPeriod

\* A period of a loan leaves the balance between zero and the principal.
LEMMA SchedAmort ==
  ASSUME SchedInv, NEW m \in Side, AmortPeriod(m), UNCHANGED file
  PROVE  SchedInv'
<1> DEFINE interest == Rounded(m, work.balance * Rec.num, Rec.den)
           princ == IF k + 1 = Rec.n THEN work.balance
                    ELSE Clamp(Payment(Rec) - interest, work.balance)
           w == [work EXCEPT !.balance = @ - princ]
<1>1. CASE Stop(m)
  BY <1>1, SchedStop
<1>2. CASE NextPeriod(w)
  <2>1. /\ file.prog = "amort" /\ at \in DOMAIN file.recs
        /\ work.balance \in 0 .. Rec.principal /\ Shaped(work)
    <3>1. file.recs \in Seq(Loan)
      BY BatchAssumption DEF File, NoFile, AmortPeriod, Running, SchedInv
    <3>2. at \in DOMAIN file.recs
      BY <3>1 DEF AmortPeriod, Running, SchedInv
    <3> QED
      BY <3>2 DEF AmortPeriod, Running, SchedInv, Suits, Rec
  <2>2. /\ Rec.principal \in Nat /\ Rec.num \in Nat /\ Rec.den \in Nat /\ Rec.den # 0
        /\ Payment(Rec) \in Nat
    BY <2>1, AmortRecord DEF SchedInv, Rec
  <2>3. interest \in Int
    <3>1. work.balance * Rec.num \in Int
      BY <2>1, <2>2, SMT
    <3> QED
      BY <3>1, <2>2, RoundedInt
  <2>4. princ \in 0 .. work.balance
    <3> HIDE DEF interest
    <3> QED
      BY <2>1, <2>2, <2>3 DEF Clamp
  <2>5. Shaped(w) /\ w.balance = work.balance - princ
    <3> HIDE DEF princ
    <3> QED
      BY <2>1 DEF Shaped
  <2>6. w.balance \in 0 .. Rec.principal
    <3> HIDE DEF princ, w
    <3> QED
      BY <2>1, <2>2, <2>4, <2>5
  <2>7. Suits(file, at, w)
    <3> HIDE DEF w
    <3> QED
      BY <2>1, <2>6 DEF Suits, Rec
  <2> HIDE DEF w
  <2> QED
    BY <1>2, <2>5, <2>7, SchedNextPeriod
<1> QED
  BY <1>1, <1>2 DEF AmortPeriod

\* A period of an asset leaves the book value between salvage value and cost.
LEMMA SchedDeprec ==
  ASSUME SchedInv, NEW m \in Side, DeprecPeriod(m), UNCHANGED file
  PROVE  SchedInv'
<1> DEFINE dep == IF k + 1 = Rec.n THEN work.balance - Rec.salvage
                  ELSE Clamp(Deprec(m), Room(m))
           w == [balance |-> work.balance - dep, accum |-> work.accum + dep,
                 totals |-> work.totals]
<1>1. CASE Stop(m)
  BY <1>1, SchedStop
<1>2. CASE NextPeriod(w)
  <2>1. /\ file.prog = "deprec" /\ at \in DOMAIN file.recs /\ Shaped(work)
        /\ work.balance \in Rec.salvage .. Rec.cost
        /\ work.accum + work.balance = Rec.cost /\ work.accum \in Int
    <3>1. file.recs \in Seq(Asset)
      BY BatchAssumption DEF File, NoFile, DeprecPeriod, Running, SchedInv
    <3>2. at \in DOMAIN file.recs
      BY <3>1 DEF DeprecPeriod, Running, SchedInv
    <3> QED
      BY <3>2 DEF DeprecPeriod, Running, SchedInv, Suits, Rec
  <2>2. /\ Rec.cost \in Nat /\ Rec.salvage \in Nat /\ Rec.salvage <= Rec.cost
        /\ Rec.num \in Nat /\ Rec.den \in Nat
        /\ Rec.method # "L" => Rec.den # 0
        /\ Rec.n \in Nat /\ Rec.n # 0
    BY <2>1, DeprecRecord DEF SchedInv, Rec
  <2>3. Deprec(m) \in Int
    <3>1. Rec.cost - Rec.salvage \in Int
      BY <2>2
    <3>2. work.balance * Rec.num \in Int
      BY <2>1, <2>2, SMT
    <3>3. CASE Rec.method = "L"
      BY <3>1, <3>3, <2>2, RoundedInt DEF Deprec
    <3>4. CASE Rec.method # "L"
      BY <3>2, <3>4, <2>2, RoundedInt DEF Deprec
    <3> QED
      BY <3>3, <3>4
  <2>4. Room(m) = work.balance - Rec.salvage
    BY <2>1, <2>2 DEF Room
  <2>5. dep \in 0 .. work.balance - Rec.salvage
    BY <2>1, <2>2, <2>3, <2>4 DEF Clamp
  <2>6. Shaped(w) /\ w.balance = work.balance - dep /\ w.accum = work.accum + dep
    <3> HIDE DEF dep
    <3> QED
      BY DEF Shaped
  <2>7. /\ w.balance \in Rec.salvage .. Rec.cost /\ w.accum + w.balance = Rec.cost
        /\ w.accum \in Int
    <3> HIDE DEF dep, w
    <3> QED
      BY <2>1, <2>2, <2>5, <2>6
  <2>8. Suits(file, at, w)
    <3> HIDE DEF w
    <3> QED
      BY <2>1, <2>7 DEF Suits, Rec
  <2> HIDE DEF w
  <2> QED
    BY <1>2, <2>6, <2>8, SchedNextPeriod
<1> QED
  BY <1>1, <1>2 DEF DeprecPeriod

\* The other programs keep no schedule.
LEMMA SchedOther ==
  ASSUME SchedInv, NEW m \in Side, UNCHANGED file,
         SettleEntry(m) \/ SimpleInterest(m) \/ CompoundInterest(m) \/ InterestRecord(m)
           \/ ReportDetail(m) \/ EndOfFile(m)
  PROVE  SchedInv'
<1>1. CASE SettleEntry(m)
  <2> DEFINE w == [work EXCEPT !.totals =
                 [a \in DOMAIN @ \cup {Rec.account} |->
                    IF a = Rec.account THEN Added(m, Rec) ELSE @[a]]]
  <2>1. Stop(m) \/ NextRecord(w)
    BY <1>1 DEF SettleEntry
  <2>2. Shaped(w)
    BY DEF SchedInv, Shaped
  <2> HIDE DEF w
  <2> QED
    BY <2>1, <2>2, SchedStop, SchedNextRecord
<1>2. CASE SimpleInterest(m)
  BY <1>2 DEF SimpleInterest, Running, SchedInv, Shaped, Suits, Accepted
<1>3. CASE CompoundInterest(m)
  <2>1. CASE Stop(m)
    BY <2>1, SchedStop
  <2>2. CASE ~ Stop(m)
    BY <1>3, <2>2 DEF CompoundInterest, Running, SchedInv, Shaped, Suits, Accepted
  <2> QED
    BY <2>1, <2>2
<1>4. CASE InterestRecord(m)
  <2>1. Stop(m) \/ NextRecord(work)
    BY <1>4 DEF InterestRecord
  <2> QED
    BY <2>1, SchedStop, SchedNextRecord DEF SchedInv
<1>5. CASE ReportDetail(m)
  <2> DEFINE w == [work EXCEPT !.accum = @ + Rec.balance]
  <2>1. Stop(m) \/ NextRecord(w)
    BY <1>5 DEF ReportDetail
  <2>2. Shaped(w)
    BY DEF SchedInv, Shaped
  <2> HIDE DEF w
  <2> QED
    BY <2>1, <2>2, SchedStop, SchedNextRecord
<1>6. CASE EndOfFile(m)
  <2>1. stage' \notin Side /\ UNCHANGED <<at, work>>
    BY <1>6 DEF EndOfFile, Stop, Side
  <2> QED
    BY <2>1 DEF SchedInv, Accepted, Shaped
<1> QED
  BY <1>1, <1>2, <1>3, <1>4, <1>5, <1>6

\* A side starts on a file.
LEMMA ClearedSuits ==
  ASSUME NEW f \in Files \cup {NoFile}, Accepted(f)
  PROVE  Shaped(Cleared(f)) /\ Suits(f, 1, Cleared(f))
<1>1. Shaped([balance |-> 0, accum |-> 0, totals |-> << >>])
  BY DEF Shaped
<1> QED
  BY <1>1, OpenSuits DEF Cleared

\* Every step preserves the invariant.
LEMMA SchedNext == SchedInv /\ [Next]_vars => SchedInv'
<1> SUFFICES ASSUME SchedInv, [Next]_vars PROVE SchedInv'
  OBVIOUS
<1>1. ASSUME NEW f \in Files, Generate(f) PROVE SchedInv'
  <2>1. f \in Files \cup {NoFile} /\ Accepted(f)
    BY <1>1 DEF Generate, Accepted
  <2>2. Shaped(Cleared(f)) /\ Suits(f, 1, Cleared(f))
    BY <2>1, ClearedSuits
  <2>3. file' = f /\ at' = 1 /\ work' = Cleared(f)
    BY <1>1 DEF Generate
  <2> QED
    BY <2>1, <2>2, <2>3 DEF SchedInv, Accepted, Shaped, Suits
<1>2. ASSUME NEW m \in Side, SideStep(m) PROVE SchedInv'
  <2>1. UNCHANGED file
    BY <1>2 DEF SideStep
  <2> QED
    BY <1>2, <2>1, SchedAmort, SchedDeprec, SchedOther DEF SideStep
<1>3. CASE WritePair \/ WriteInputOnly \/ Tear
  BY <1>3 DEF WritePair, WriteInputOnly, Tear, SchedInv, Accepted, Shaped, Side
<1>4. CASE RunCobol
  <2>1. Shaped(Cleared(file)) /\ Suits(file, 1, Cleared(file))
    BY ClearedSuits DEF SchedInv
  <2>2. CASE stage' = "cobol" /\ at' = 1 /\ work' = Cleared(file)
    BY <1>4, <2>1, <2>2 DEF RunCobol, SchedInv, Accepted, Shaped, Suits
  <2>3. CASE stage' = "judged" /\ UNCHANGED <<at, work>>
    BY <1>4, <2>3 DEF RunCobol, SchedInv, Accepted, Shaped, Side
  <2> QED
    BY <1>4, <2>2, <2>3 DEF RunCobol
<1>5. CASE UNCHANGED vars
  BY <1>5 DEF vars, SchedInv, Accepted, Shaped, Suits
<1> QED
  BY <1>1, <1>2, <1>3, <1>4, <1>5 DEF Next

\* No loan leaves the range from zero to its principal and no asset the range from
\* salvage to cost, on either side, for any accepted file and any widths; what is
\* written off and what is left always make up the cost.
THEOREM ScheduleStaysInHolds == Spec => []ScheduleStaysIn
<1>1. SchedInv => ScheduleStaysIn
  <2> SUFFICES ASSUME SchedInv, stage \in Side, at <= Len(file.recs)
               PROVE  /\ file.prog = "amort" => work.balance \in 0 .. Rec.principal
                      /\ file.prog = "deprec" =>
                           /\ work.balance \in Rec.salvage .. Rec.cost
                           /\ work.accum + work.balance = Rec.cost
    BY DEF ScheduleStaysIn
  <2>1. file.recs \in Seq(Entry) \cup Seq(Loan) \cup Seq(Claim) \cup Seq(Asset) \cup Seq(Detail)
    BY RecordSeq DEF SchedInv
  <2>2. at \in DOMAIN file.recs
    BY <2>1 DEF SchedInv
  <2> QED
    BY <2>2 DEF SchedInv, Suits, Rec
<1> QED
  BY <1>1, SchedInit, SchedNext, PTL DEF Spec

----------------------------------------------------------------------------
(* Types *)

\* Working storage holds numbers, and totals are kept per account.
Numeric(w) ==
  /\ w.balance \in Int /\ w.accum \in Int
  /\ DOMAIN w.totals \subseteq Code /\ \A a \in DOMAIN w.totals : w.totals[a] \in Int

\* The file, the position in it and working storage.
Position ==
  /\ SchedInv
  /\ at \in 1 .. Len(file.recs) + 1 /\ k \in Nat
  /\ Numeric(work)

\* The rest of the types, which no program's arithmetic touches.
Frame ==
  /\ torn \subseteq DOMAIN file.recs
  /\ stage \in {"idle", "js", "made", "written", "cobol", "judged"}
  /\ lines = [m \in Side |-> lines[m]]
  /\ outcome \in [Side -> {"none", "done", "stopped"}]
  /\ verdict \subseteq {"differs", "stale", "open", "crash"}
  /\ gens \in 0 .. MaxGen

TypeInv == Position /\ Frame

\* A file is a sequence of records of its program's kind.
LEMMA RecordKind ==
  ASSUME NEW f \in Files \cup {NoFile}
  PROVE  /\ Len(f.recs) \in Nat /\ DOMAIN f.recs = 1 .. Len(f.recs)
         /\ f.prog = "settle" => \A i \in DOMAIN f.recs : f.recs[i] \in Entry
         /\ f.prog = "amort" => \A i \in DOMAIN f.recs : f.recs[i] \in Loan
         /\ f.prog = "interest" => \A i \in DOMAIN f.recs : f.recs[i] \in Claim
         /\ f.prog = "deprec" => \A i \in DOMAIN f.recs : f.recs[i] \in Asset
         /\ f.prog = "report" => \A i \in DOMAIN f.recs : f.recs[i] \in Detail
         /\ f.recs # << >> => f.prog \in Prog
<1>1. CASE f = NoFile
  BY <1>1 DEF NoFile
<1>2. CASE f \in Files
  <2>1. f \in File
    BY <1>2, BatchAssumption
  <2>2. CASE f.prog = "settle"
    <3>1. f.recs \in Seq(Entry)
      BY <2>1, <2>2 DEF File
    <3> QED
      BY <2>2, <3>1 DEF Prog
  <2>3. CASE f.prog = "amort"
    <3>1. f.recs \in Seq(Loan)
      BY <2>1, <2>3 DEF File
    <3> QED
      BY <2>3, <3>1 DEF Prog
  <2>4. CASE f.prog = "interest"
    <3>1. f.recs \in Seq(Claim)
      BY <2>1, <2>4 DEF File
    <3> QED
      BY <2>4, <3>1 DEF Prog
  <2>5. CASE f.prog = "deprec"
    <3>1. f.recs \in Seq(Asset)
      BY <2>1, <2>5 DEF File
    <3> QED
      BY <2>5, <3>1 DEF Prog
  <2>6. CASE f.prog = "report"
    <3>1. f.recs \in Seq(Detail)
      BY <2>1, <2>6 DEF File
    <3> QED
      BY <2>6, <3>1 DEF Prog
  <2>7. f.prog \in {"settle", "amort", "interest", "deprec", "report"}
    BY <2>1 DEF File
  <2> QED
    BY <2>2, <2>3, <2>4, <2>5, <2>6, <2>7
<1> QED
  BY <1>1, <1>2

\* The record a running program is at.
LEMMA CurrentRecord ==
  ASSUME Position, NEW m \in Side, NEW p, Running(m, p)
  PROVE  /\ at \in DOMAIN file.recs /\ Rec = file.recs[at] /\ file.prog = p
         /\ FormatIn(p, Rec) /\ Suits(file, at, work)
         /\ p = "settle" => Rec \in Entry
         /\ p = "amort" => Rec \in Loan
         /\ p = "interest" => Rec \in Claim
         /\ p = "deprec" => Rec \in Asset
         /\ p = "report" => Rec \in Detail
<1>1. file \in Files \cup {NoFile}
  BY DEF Position, SchedInv
<1>2. at \in DOMAIN file.recs
  BY <1>1, RecordKind DEF Position, Running
<1>3. file.prog = p /\ stage = m
  BY DEF Running
<1>4. FormatIn(file.prog, file.recs[at]) /\ Suits(file, at, work)
  BY <1>2, <1>3 DEF Position, SchedInv, Accepted
<1> QED
  BY <1>1, <1>2, <1>3, <1>4, RecordKind DEF Rec

\* A product of naturals is a natural, and is zero only if one of them is.
LEMMA Products ==
  ASSUME NEW x \in Int, NEW y \in Int
  PROVE  /\ x * y \in Int
         /\ x \in Nat /\ y \in Nat => x * y \in Nat
         /\ x # 0 /\ y # 0 => x * y # 0
  BY SMT

\* Opening a record keeps the numbers.
LEMMA OpenNumeric ==
  ASSUME NEW f \in Files \cup {NoFile}, NEW i \in Nat \ {0}, NEW w, Shaped(w), Numeric(w)
  PROVE  Numeric(Open(f, i, w))
<1>1. CASE i > Len(f.recs) \/ f.prog \in {"settle", "report"}
  BY <1>1 DEF Open
<1>2. CASE ~ (i > Len(f.recs) \/ f.prog \in {"settle", "report"})
  <2>1. i \in DOMAIN f.recs /\ f.prog \in Prog
    BY <1>2, RecordKind
  <2>2. CASE f.prog = "deprec"
    <3>1. f.recs[i].cost \in Int
      BY <2>1, <2>2, RecordKind DEF Asset
    <3> QED
      BY <1>2, <2>2, <3>1 DEF Open, Numeric, Shaped
  <2>3. CASE f.prog \in {"amort", "interest"}
    <3>1. f.recs[i].principal \in Int
      BY <2>1, <2>3, RecordKind DEF Loan, Claim
    <3> QED
      BY <1>2, <2>3, <3>1 DEF Open, Numeric, Shaped
  <2> QED
    BY <1>2, <2>1, <2>2, <2>3 DEF Prog
<1> QED
  BY <1>1, <1>2

\* The next record is one further.
LEMMA PositionNextRecord ==
  ASSUME Position, NEW w, Shaped(w), Numeric(w), NextRecord(w), at <= Len(file.recs),
         UNCHANGED file
  PROVE  Position'
<1>1. SchedInv'
  BY SchedNextRecord DEF Position
<1>2. Len(file.recs) \in Nat
  BY RecordKind DEF Position, SchedInv
<1>3. Numeric(Open(file, at + 1, w))
  BY OpenNumeric DEF Position, SchedInv
<1> QED
  BY <1>1, <1>2, <1>3 DEF Position, NextRecord, Numeric

\* So is the next period, or the record is left.
LEMMA PositionNextPeriod ==
  ASSUME Position, NEW w, Shaped(w), Numeric(w), NextPeriod(w), at <= Len(file.recs),
         UNCHANGED file, SchedInv'
  PROVE  Position'
<1>1. CASE NextRecord(w)
  BY <1>1, PositionNextRecord
<1>2. CASE k' = k + 1 /\ work' = w /\ UNCHANGED at
  BY <1>2 DEF Position, Numeric
<1> QED
  BY <1>1, <1>2 DEF NextPeriod

\* A side that stops stays where it is.
LEMMA PositionStop ==
  ASSUME Position, NEW m \in Side, Stop(m), UNCHANGED file
  PROVE  Position'
<1>1. SchedInv'
  BY SchedStop DEF Position
<1> QED
  BY <1>1 DEF Stop, Position, Numeric

\* What a side computes of an entry is a number.
LEMMA SignedInt ==
  ASSUME Position, NEW m \in Side, Running(m, "settle"), NEW s \in Side
  PROVE  /\ Rec.account \in Code
         /\ Signed(s, Rec) \in Int /\ Added(s, Rec) \in Int
         /\ Rec.sign \in {1, -1} /\ Rec.amount * Rec.num \in Int
         /\ Rec.den \in Nat /\ Rec.den # 0
<1>1. Rec \in Entry /\ FormatSettleIn(Rec)
  BY CurrentRecord DEF FormatIn
<1>2. Rec.amount * Rec.num \in Int /\ Rec.den \in Nat /\ Rec.den # 0 /\ Rec.sign \in {1, -1}
      /\ Rec.account \in Code
  BY <1>1, Products DEF Entry, FormatSettleIn
<1>3. Rounded(s, Rec.amount * Rec.num, Rec.den) \in Int
  BY <1>2, RoundedInt
<1>4. Signed(s, Rec) \in Int
  BY <1>2, <1>3 DEF Signed
<1>5. Added(s, Rec) \in Int
  <2>1. CASE Known(Rec)
    <3>1. work.totals[Rec.account] \in Int
      BY <2>1 DEF Known, Position, Numeric
    <3> QED
      BY <1>4, <2>1, <3>1 DEF Added
  <2> QED
    BY <1>4, <2>1 DEF Added
<1> QED
  BY <1>2, <1>4, <1>5

\* The interest of a period and its payment are numbers.
LEMMA AmortInt ==
  ASSUME Position, NEW m \in Side, Running(m, "amort"), NEW s \in Side
  PROVE  /\ Rounded(s, work.balance * Rec.num, Rec.den) \in Int
         /\ work.balance * Rec.num \in Int /\ Rec.den \in Nat /\ Rec.den # 0
         /\ Payment(Rec) \in Nat /\ work.balance \in 0 .. Rec.principal /\ Rec.principal \in Nat
<1>1. /\ Rec.principal \in Nat /\ Rec.num \in Nat /\ Rec.den \in Nat /\ Rec.den # 0
      /\ Payment(Rec) \in Nat
  BY CurrentRecord, AmortRecord DEF Position, SchedInv
<1>2. work.balance \in 0 .. Rec.principal
  BY CurrentRecord DEF Suits
<1>3. work.balance * Rec.num \in Int
  BY <1>1, <1>2, Products
<1> QED
  BY <1>1, <1>2, <1>3, RoundedInt

\* The depreciation of a period is a number.
LEMMA DeprecInt ==
  ASSUME Position, NEW m \in Side, Running(m, "deprec"), NEW s \in Side
  PROVE  /\ Deprec(s) \in Int
         /\ Rec.cost \in Nat /\ Rec.salvage \in Nat /\ Rec.salvage <= Rec.cost
         /\ Rec.cost - Rec.salvage \in Int /\ Rec.n \in Nat /\ Rec.n # 0
         /\ work.balance * Rec.num \in Int /\ Rec.den \in Nat
         /\ Rec.method # "L" => Rec.den # 0
         /\ work.balance \in Rec.salvage .. Rec.cost /\ work.accum + work.balance = Rec.cost
<1>1. /\ Rec.cost \in Nat /\ Rec.salvage \in Nat /\ Rec.salvage <= Rec.cost
      /\ Rec.num \in Nat /\ Rec.den \in Nat
      /\ Rec.method # "L" => Rec.den # 0
      /\ Rec.n \in Nat /\ Rec.n # 0
  BY CurrentRecord, DeprecRecord DEF Position, SchedInv
<1>2. work.balance \in Rec.salvage .. Rec.cost /\ work.accum + work.balance = Rec.cost
  BY CurrentRecord DEF Suits
<1>3. work.balance * Rec.num \in Int /\ Rec.cost - Rec.salvage \in Int
  BY <1>1, <1>2, Products
<1>4. CASE Rec.method = "L"
  BY <1>1, <1>2, <1>3, <1>4, RoundedInt DEF Deprec
<1>5. CASE Rec.method # "L"
  BY <1>1, <1>2, <1>3, <1>5, RoundedInt DEF Deprec
<1> QED
  BY <1>1, <1>2, <1>3, <1>4, <1>5

\* The interest of a claim is a number.
LEMMA InterestInt ==
  ASSUME Position, NEW m \in Side, Running(m, "interest"), NEW s \in Side
  PROVE  /\ Rec.principal \in Nat /\ Rec.n \in Nat /\ Rec.method \in {"S", "C"}
         /\ work.balance * Rec.num \in Int /\ Rec.den \in Nat /\ Rec.den # 0
         /\ Rounded(s, work.balance * Rec.num, Rec.den) \in Int
         /\ Rec.method = "S" =>
              /\ work.balance * Rec.num * Rec.days \in Int
              /\ Rec.den * Rec.basis \in Nat /\ Rec.den * Rec.basis # 0
              /\ Rounded(s, work.balance * Rec.num * Rec.days, Rec.den * Rec.basis) \in Int
<1>1. Rec \in Claim /\ FormatInterestIn(Rec)
  BY CurrentRecord DEF FormatIn
<1>2. /\ Rec.principal \in Nat /\ Rec.n \in Nat /\ Rec.method \in {"S", "C"}
      /\ Rec.num \in Nat /\ Rec.den \in Nat /\ Rec.days \in Nat /\ Rec.basis \in Nat
      /\ Rec.den # 0
      /\ Rec.method = "S" => Rec.basis # 0
  BY <1>1 DEF Claim, FormatInterestIn
<1>3. work.balance * Rec.num \in Int
  BY <1>2, Products DEF Position, Numeric
<1>4. work.balance * Rec.num * Rec.days \in Int
  BY <1>2, <1>3, Products
<1>5. Rec.method = "S" => Rec.den * Rec.basis \in Nat /\ Rec.den * Rec.basis # 0
  BY <1>2, Products
<1> QED
  BY <1>2, <1>3, <1>4, <1>5, RoundedInt

\* An entry adds to the total of its account.
LEMMA PositionSettle ==
  ASSUME Position, NEW m \in Side, SettleEntry(m), UNCHANGED file
  PROVE  Position'
<1> DEFINE w == [work EXCEPT !.totals =
               [a \in DOMAIN @ \cup {Rec.account} |->
                  IF a = Rec.account THEN Added(m, Rec) ELSE @[a]]]
<1>1. Running(m, "settle") /\ (Stop(m) \/ NextRecord(w))
  BY DEF SettleEntry
<1>2. Rec.account \in Code /\ Added(m, Rec) \in Int
  BY <1>1, SignedInt
<1>3. Shaped(w) /\ Numeric(w)
  BY <1>2 DEF Position, SchedInv, Shaped, Numeric
<1>4. at <= Len(file.recs)
  BY <1>1 DEF Running
<1> HIDE DEF w
<1> QED
  BY <1>1, <1>3, <1>4, PositionStop, PositionNextRecord

\* A period of a loan.
LEMMA PositionAmort ==
  ASSUME Position, NEW m \in Side, AmortPeriod(m), UNCHANGED file
  PROVE  Position'
<1> DEFINE princ == IF k + 1 = Rec.n THEN work.balance
                    ELSE Clamp(Payment(Rec) - Rounded(m, work.balance * Rec.num, Rec.den),
                               work.balance)
           w == [work EXCEPT !.balance = @ - princ]
<1>1. Running(m, "amort") /\ (Stop(m) \/ NextPeriod(w))
  BY DEF AmortPeriod
<1>2. princ \in Int
  BY <1>1, AmortInt DEF Clamp
<1>3. Shaped(w) /\ Numeric(w)
  BY <1>2 DEF Position, SchedInv, Shaped, Numeric
<1>4. at <= Len(file.recs)
  BY <1>1 DEF Running
<1>5. SchedInv'
  BY SchedAmort DEF Position
<1> HIDE DEF w
<1> QED
  BY <1>1, <1>3, <1>4, <1>5, PositionStop, PositionNextPeriod

\* A period of an asset.
LEMMA PositionDeprec ==
  ASSUME Position, NEW m \in Side, DeprecPeriod(m), UNCHANGED file
  PROVE  Position'
<1> DEFINE dep == IF k + 1 = Rec.n THEN work.balance - Rec.salvage
                  ELSE Clamp(Deprec(m), Room(m))
           w == [balance |-> work.balance - dep, accum |-> work.accum + dep,
                 totals |-> work.totals]
<1>1. Running(m, "deprec") /\ (Stop(m) \/ NextPeriod(w))
  BY DEF DeprecPeriod
<1>2. dep \in Int
  BY <1>1, DeprecInt DEF Clamp, Room, Position, Numeric
<1>3. Shaped(w) /\ Numeric(w)
  BY <1>2 DEF Position, SchedInv, Shaped, Numeric
<1>4. at <= Len(file.recs)
  BY <1>1 DEF Running
<1>5. SchedInv'
  BY SchedDeprec DEF Position
<1> HIDE DEF w
<1> QED
  BY <1>1, <1>3, <1>4, <1>5, PositionStop, PositionNextPeriod

\* Interest, the report and the end of a file.
LEMMA PositionOther ==
  ASSUME Position, NEW m \in Side, UNCHANGED file,
         SimpleInterest(m) \/ CompoundInterest(m) \/ InterestRecord(m)
           \/ ReportDetail(m) \/ EndOfFile(m)
  PROVE  Position'
<1>0. SchedInv'
  BY SchedOther DEF Position
<1>1. CASE SimpleInterest(m)
  <2>1. Rounded(m, work.balance * Rec.num * Rec.days, Rec.den * Rec.basis) \in Int
    BY <1>1, InterestInt DEF SimpleInterest
  <2> QED
    BY <1>0, <1>1, <2>1 DEF SimpleInterest, Position, Numeric
<1>2. CASE CompoundInterest(m)
  <2>1. CASE Stop(m)
    BY <2>1, PositionStop
  <2>2. CASE ~ Stop(m)
    <3>1. Rounded(m, work.balance * Rec.num, Rec.den) \in Int
      BY <1>2, InterestInt DEF CompoundInterest
    <3>2. /\ k' = k + 1 /\ UNCHANGED at
          /\ work' = [work EXCEPT !.balance = @ + Rounded(m, work.balance * Rec.num, Rec.den)]
      BY <1>2, <2>2 DEF CompoundInterest
    <3> QED
      BY <1>0, <3>1, <3>2 DEF Position, Numeric
  <2> QED
    BY <2>1, <2>2
<1>3. CASE InterestRecord(m)
  <2>1. (Stop(m) \/ NextRecord(work)) /\ at <= Len(file.recs)
    BY <1>3 DEF InterestRecord, Running
  <2> QED
    BY <2>1, PositionStop, PositionNextRecord DEF Position, SchedInv
<1>4. CASE ReportDetail(m)
  <2> DEFINE w == [work EXCEPT !.accum = @ + Rec.balance]
  <2>1. Running(m, "report") /\ (Stop(m) \/ NextRecord(w)) /\ at <= Len(file.recs)
    BY <1>4 DEF ReportDetail, Running
  <2>2. Rec.balance \in Int
    BY <2>1, CurrentRecord DEF Detail
  <2>a. w = [balance |-> work.balance, accum |-> work.accum + Rec.balance,
             totals |-> work.totals]
    BY DEF Position, SchedInv, Shaped
  <2>3. Shaped(w) /\ Numeric(w)
    <3> HIDE DEF w
    <3> QED
      BY <2>2, <2>a DEF Position, Shaped, Numeric
  <2> HIDE DEF w
  <2> QED
    BY <2>1, <2>3, PositionStop, PositionNextRecord
<1>5. CASE EndOfFile(m)
  <2>1. UNCHANGED <<at, k, work>>
    BY <1>5 DEF EndOfFile, Stop
  <2> QED
    BY <1>0, <2>1 DEF Position, Numeric
<1> QED
  BY <1>1, <1>2, <1>3, <1>4, <1>5

\* What a side's step does to the stage, the outcome and the verdict: it goes on, it
\* stops, or it comes to the end of the file.
LEMMA SideEnds ==
  ASSUME NEW m \in Side, SideStep(m)
  PROVE  Goes \/ Stop(m) \/ (EndOfFile(m) /\ TailFits)
<1>1. CASE SettleEntry(m)
  BY <1>1 DEF SettleEntry
<1>2. CASE AmortPeriod(m)
  BY <1>2 DEF AmortPeriod
<1>3. CASE DeprecPeriod(m)
  BY <1>3 DEF DeprecPeriod
<1>4. CASE SimpleInterest(m)
  BY <1>4 DEF SimpleInterest
<1>5. CASE CompoundInterest(m)
  BY <1>5 DEF CompoundInterest
<1>6. CASE InterestRecord(m)
  BY <1>6 DEF InterestRecord
<1>7. CASE ReportDetail(m)
  BY <1>7 DEF ReportDetail
<1>8. CASE EndOfFile(m)
  BY <1>8 DEF EndOfFile
<1> QED
  BY <1>1, <1>2, <1>3, <1>4, <1>5, <1>6, <1>7, <1>8 DEF SideStep

\* A side prints nothing of the other's.
LEMMA SidePrints ==
  ASSUME NEW m \in Side, SideStep(m)
  PROVE  lines' = lines \/ \E e : lines' = [lines EXCEPT ![m] = e]
<1>1. CASE SettleEntry(m)
  BY <1>1 DEF SettleEntry, Stop
<1>2. CASE AmortPeriod(m)
  BY <1>2 DEF AmortPeriod, Stop, Emit
<1>3. CASE DeprecPeriod(m)
  BY <1>3 DEF DeprecPeriod, Stop, Emit
<1>4. CASE SimpleInterest(m)
  BY <1>4 DEF SimpleInterest
<1>5. CASE CompoundInterest(m)
  BY <1>5 DEF CompoundInterest, Stop
<1>6. CASE InterestRecord(m)
  BY <1>6 DEF InterestRecord, Stop, Emit
<1>7. CASE ReportDetail(m)
  BY <1>7 DEF ReportDetail, Stop
<1>8. CASE EndOfFile(m)
  BY <1>8 DEF EndOfFile, Stop
<1> QED
  BY <1>1, <1>2, <1>3, <1>4, <1>5, <1>6, <1>7, <1>8 DEF SideStep

\* Every step preserves the types.
LEMMA TypeNext == TypeInv /\ [Next]_vars => TypeInv'
<1> SUFFICES ASSUME TypeInv, [Next]_vars PROVE TypeInv'
  OBVIOUS
<1>0. SchedInv'
  BY SchedNext DEF TypeInv, Position
<1>1. ASSUME NEW f \in Files, Generate(f) PROVE TypeInv'
  <2>1. f \in Files \cup {NoFile} /\ Len(f.recs) \in Nat
    BY RecordKind
  <2>2. Shaped([balance |-> 0, accum |-> 0, totals |-> << >>])
        /\ Numeric([balance |-> 0, accum |-> 0, totals |-> << >>])
    BY DEF Shaped, Numeric
  <2>3. Numeric(Cleared(f))
    BY <2>1, <2>2, OpenNumeric DEF Cleared
  <2>4. Position'
    BY <1>0, <1>1, <2>1, <2>3 DEF Generate, Position, Numeric
  <2>5. Frame'
    BY <1>1, BatchAssumption DEF Generate, Frame, TypeInv
  <2> QED
    BY <2>4, <2>5 DEF TypeInv
<1>2. ASSUME NEW m \in Side, SideStep(m) PROVE TypeInv'
  <2>1. UNCHANGED <<file, torn, gens>>
    BY <1>2 DEF SideStep
  <2>2. Position'
    BY <1>2, <2>1, PositionSettle, PositionAmort, PositionDeprec, PositionOther
       DEF SideStep, TypeInv
  <2>b. \/ lines' = lines
        \/ \E e : lines' = [lines EXCEPT ![m] = e]
    BY <1>2, SidePrints
  <2>a. lines' = [s \in Side |-> lines'[s]]
    BY <2>b DEF Frame, TypeInv
  <2>3. ASSUME Goes PROVE Frame'
    BY <2>1, <2>a, <2>3 DEF Goes, Frame, TypeInv
  <2>4. ASSUME Stop(m) PROVE Frame'
    BY <2>1, <2>a, <2>4 DEF Stop, Frame, TypeInv
  <2>5. ASSUME EndOfFile(m), TailFits PROVE Frame'
    BY <2>1, <2>a, <2>5 DEF EndOfFile, Verdict, Frame, TypeInv
  <2>6. Goes \/ Stop(m) \/ (EndOfFile(m) /\ TailFits)
    BY <1>2, SideEnds
  <2>7. Frame'
    BY <2>1, <2>3, <2>4, <2>5, <2>6 DEF Frame, TypeInv
  <2> QED
    BY <2>2, <2>7 DEF TypeInv
<1>3. CASE WritePair \/ WriteInputOnly \/ Tear
  <2>1. UNCHANGED <<file, at, k, work>>
    BY <1>3 DEF WritePair, WriteInputOnly, Tear
  <2>2. Position'
    BY <1>0, <2>1 DEF Position, Numeric, TypeInv
  <2>3. Frame'
    BY <1>3 DEF WritePair, WriteInputOnly, Tear, Frame, TypeInv
  <2> QED
    BY <2>2, <2>3 DEF TypeInv
<1>4. CASE RunCobol
  <2>1. file \in Files \cup {NoFile} /\ Len(file.recs) \in Nat
    BY RecordKind DEF TypeInv, Position, SchedInv
  <2>2. Shaped([balance |-> 0, accum |-> 0, totals |-> << >>])
        /\ Numeric([balance |-> 0, accum |-> 0, totals |-> << >>])
    BY DEF Shaped, Numeric
  <2>3. Numeric(Cleared(file))
    BY <2>1, <2>2, OpenNumeric DEF Cleared
  <2>4. Position'
    BY <1>0, <1>4, <2>1, <2>3 DEF RunCobol, Position, Numeric, TypeInv
  <2>5. Frame'
    BY <1>4 DEF RunCobol, Frame, TypeInv
  <2> QED
    BY <2>4, <2>5 DEF TypeInv
<1>5. CASE UNCHANGED vars
  BY <1>0, <1>5 DEF vars, TypeInv, Position, Numeric, Frame
<1> QED
  BY <1>1, <1>2, <1>3, <1>4, <1>5 DEF Next

\* Nothing is running at the start.
LEMMA TypeInit == Init => TypeInv
<1> SUFFICES ASSUME Init PROVE TypeInv
  OBVIOUS
<1>1. SchedInv
  BY SchedInit
<1>2. DOMAIN << >> = {}
  OBVIOUS
<1>3. Position
  BY <1>1, <1>2 DEF Init, Position, Numeric, NoFile
<1>4. Frame
  BY BatchAssumption DEF Init, Frame, Side
<1> QED
  BY <1>3, <1>4 DEF TypeInv

\* Working storage, positions and verdicts keep their types, whatever the files and the
\* widths are.
THEOREM SettlementTypeCorrect == Spec => []TypeOK
<1>1. TypeInv => TypeOK
  BY DEF TypeInv, Position, Frame, SchedInv, Numeric, TypeOK
<1> QED
  BY <1>1, TypeInit, TypeNext, PTL DEF Spec

----------------------------------------------------------------------------
(* What a check that passes has seen *)

\* Damage is done only to a file that waits for its check, and only the files of two
\* programs are damaged.
Damage ==
  /\ torn # {} => file.prog \in {"settle", "amort"}
  /\ stage \in {"js", "made", "cobol"} => torn = {}

PassInv == TypeInv /\ Damage /\ PassIsSound

\* The check that comes to the end of the file without a finding has compared the
\* reference's lines with the program's and with the stored ones.
LEMMA CleanVerdict ==
  ASSUME NEW ref, NEW actual, Verdict(ref, actual) = {}
  PROVE  /\ ref = actual
         /\ golden[file.prog] \subseteq {ref}
         /\ file.prog # "settle" => golden[file.prog] # {}
<1>1. "differs" \notin Verdict(ref, actual) /\ "stale" \notin Verdict(ref, actual)
  OBVIOUS
<1>2. ref = actual /\ ~ Stale(ref)
  BY <1>1 DEF Verdict, DiffLines
<1> QED
  BY <1>2 DEF Stale, DiffLines

\* A damaged line is found when the input is read back.
LEMMA DamageIsRead ==
  ASSUME PassInv, RunCobol, torn # {}
  PROVE  stage' = "judged" /\ verdict' = {"crash"}
<1>1. PICK i \in DOMAIN file.recs : i \in torn
  BY DEF PassInv, TypeInv, Frame
<1>2. ~ Readable(i)
  BY <1>1 DEF Readable, ParseSettleIn, ParseAmortIn, SliceDigits, PassInv, Damage
<1> QED
  BY <1>2 DEF RunCobol

\* Every step preserves the invariant.
LEMMA PassNext == PassInv /\ [Next]_vars => PassInv'
<1> SUFFICES ASSUME PassInv, [Next]_vars PROVE Damage' /\ PassIsSound'
  BY TypeNext DEF PassInv
<1>1. ASSUME NEW f \in Files, Generate(f) PROVE Damage' /\ PassIsSound'
  BY <1>1 DEF Generate, Damage, PassIsSound
<1>2. ASSUME NEW m \in Side, SideStep(m) PROVE Damage' /\ PassIsSound'
  <2>1. UNCHANGED <<file, torn, golden>>
    BY <1>2 DEF SideStep
  <2>2. stage = m
    BY <1>2 DEF SideStep, SettleEntry, AmortPeriod, DeprecPeriod, SimpleInterest,
                CompoundInterest, InterestRecord, ReportDetail, EndOfFile, Running
  <2>3. torn = {}
    BY <2>2 DEF PassInv, Damage, Side
  <2>4. Damage'
    BY <2>1, <2>3 DEF PassInv, Damage
  <2>5. ASSUME Goes PROVE PassIsSound'
    BY <2>2, <2>5 DEF Goes, PassIsSound, Side
  <2>6. ASSUME Stop(m) PROVE PassIsSound'
    BY <2>6 DEF Stop, PassIsSound, Side
  <2>7. ASSUME EndOfFile(m), TailFits PROVE PassIsSound'
    <3>1. CASE m = "js"
      BY <3>1, <2>7 DEF EndOfFile, PassIsSound
    <3>2. CASE m = "cobol"
      <4>1. /\ verdict' = Verdict(lines["js"], AllLines("cobol"))
            /\ lines' = [lines EXCEPT !["cobol"] = AllLines("cobol")]
        BY <3>2, <2>7 DEF EndOfFile
      <4>2. ASSUME verdict' = {}
            PROVE  /\ lines'["cobol"] = lines["js"]
                   /\ golden[file.prog] \subseteq {lines["js"]}
                   /\ file.prog # "settle" => golden[file.prog] # {}
        <5>1. /\ lines["js"] = AllLines("cobol")
              /\ golden[file.prog] \subseteq {lines["js"]}
              /\ file.prog # "settle" => golden[file.prog] # {}
          BY <4>1, <4>2, CleanVerdict
        <5> HIDE DEF AllLines
        <5>2. DOMAIN lines = Side
          BY DEF PassInv, TypeInv, Frame
        <5> QED
          BY <4>1, <5>1, <5>2 DEF Side
      <4> QED
        BY <2>1, <2>3, <4>2 DEF PassIsSound
    <3> QED
      BY <3>1, <3>2 DEF Side
  <2> QED
    BY <1>2, <2>4, <2>5, <2>6, <2>7, SideEnds
<1>3. CASE WritePair \/ WriteInputOnly \/ Tear
  BY <1>3 DEF WritePair, WriteInputOnly, Tear, PassInv, Damage, PassIsSound
<1>4. CASE RunCobol
  <2>1. CASE torn = {}
    BY <1>4, <2>1 DEF RunCobol, Damage, PassIsSound
  <2>2. CASE torn # {}
    BY <1>4, <2>2, DamageIsRead DEF RunCobol, PassInv, Damage, PassIsSound
  <2> QED
    BY <2>1, <2>2
<1>5. CASE UNCHANGED vars
  BY <1>5 DEF vars, PassInv, Damage, PassIsSound
<1> QED
  BY <1>1, <1>2, <1>3, <1>4, <1>5 DEF Next

\* A check without a finding has compared what is stored, whatever a generator that
\* died or a hand that edited the input left behind.
THEOREM PassSound == Spec => []PassIsSound
<1>1. Init => PassInv
  BY TypeInit DEF Init, PassInv, Damage, PassIsSound
<1>2. PassInv => PassIsSound
  BY DEF PassInv
<1> QED
  BY <1>1, <1>2, PassNext, PTL DEF Spec

----------------------------------------------------------------------------
(* Parity *)

\* What a side has come to: its position, its working storage and its lines.
At(m) == [at |-> at, k |-> k, work |-> work, lines |-> lines[m]]

\* Where both sides start on a file.
Start(f) == [at |-> 1, k |-> 0, work |-> Cleared(f), lines |-> << >>]

Printing(x, row) == Append(x.lines, [of |-> x.at, row |-> row])

AfterRecord(f, x, w, out) ==
  [at |-> x.at + 1, k |-> 0, work |-> Open(f, x.at + 1, w), lines |-> out]

InRecord(x, w, out) == [at |-> x.at, k |-> x.k + 1, work |-> w, lines |-> out]

AfterPeriod(f, x, w, out) ==
  IF x.k + 1 < f.recs[x.at].n THEN InRecord(x, w, out) ELSE AfterRecord(f, x, w, out)

(* What the reference does at x, by program: values of one record and period. *)

Converted(r) == r.sign * RoundHalfEven(r.amount * r.num, r.den)

TotalsWith(r, totals) ==
  [a \in DOMAIN totals \cup {r.account} |->
     IF a = r.account
     THEN Converted(r) + IF a \in DOMAIN totals THEN totals[a] ELSE 0
     ELSE totals[a]]

LoanInterest(r, w) == RoundHalfEven(w.balance * r.num, r.den)

Repaid(r, i, w) ==
  IF i + 1 = r.n THEN w.balance ELSE Clamp(Payment(r) - LoanInterest(r, w), w.balance)

LoanRow(r, i, w) ==
  <<Repaid(r, i, w) + LoanInterest(r, w), LoanInterest(r, w), Repaid(r, i, w),
    w.balance - Repaid(r, i, w)>>

Written(r, i, w) ==
  IF i + 1 = r.n THEN w.balance - r.salvage
  ELSE Clamp(IF r.method = "L" THEN RoundHalfEven(r.cost - r.salvage, r.n)
             ELSE RoundHalfEven(w.balance * r.num, r.den), w.balance - r.salvage)

AssetRow(r, i, w) ==
  <<Written(r, i, w), w.accum + Written(r, i, w), w.balance - Written(r, i, w)>>

ClaimRow(r, w) == <<w.balance - r.principal, w.balance>>

SettleTo(f, x) ==
  AfterRecord(f, x, [x.work EXCEPT !.totals = TotalsWith(f.recs[x.at], x.work.totals)], x.lines)

AmortTo(f, x) ==
  AfterPeriod(f, x, [x.work EXCEPT !.balance = @ - Repaid(f.recs[x.at], x.k, x.work)],
              Printing(x, LoanRow(f.recs[x.at], x.k, x.work)))

DeprecTo(f, x) ==
  AfterPeriod(f, x, [balance |-> x.work.balance - Written(f.recs[x.at], x.k, x.work),
                     accum |-> x.work.accum + Written(f.recs[x.at], x.k, x.work),
                     totals |-> x.work.totals],
              Printing(x, AssetRow(f.recs[x.at], x.k, x.work)))

SimpleTo(f, x) ==
  InRecord(x, [x.work EXCEPT !.balance =
                 @ + RoundHalfEven(@ * f.recs[x.at].num * f.recs[x.at].days,
                                   f.recs[x.at].den * f.recs[x.at].basis)], x.lines)

CompoundTo(f, x) ==
  InRecord(x, [x.work EXCEPT !.balance =
                 @ + RoundHalfEven(@ * f.recs[x.at].num, f.recs[x.at].den)], x.lines)

ClaimTo(f, x) == AfterRecord(f, x, x.work, Printing(x, ClaimRow(f.recs[x.at], x.work)))

ReportTo(f, x) ==
  AfterRecord(f, x, [x.work EXCEPT !.accum = @ + f.recs[x.at].balance], x.lines)

\* The reference goes from x to y: each row it prints fits its fields.
Advance(f, x, y) ==
  /\ x.at <= Len(f.recs)
  /\ f.prog = "settle" => y = SettleTo(f, x)
  /\ f.prog = "amort" => y = AmortTo(f, x) /\ FormatAmortOut(LoanRow(f.recs[x.at], x.k, x.work))
  /\ f.prog = "deprec" =>
       y = DeprecTo(f, x) /\ FormatDeprecOut(AssetRow(f.recs[x.at], x.k, x.work))
  /\ f.prog = "interest" =>
       IF f.recs[x.at].method = "S"
       THEN IF x.k = 0 THEN y = SimpleTo(f, x) ELSE y = ClaimTo(f, x)
       ELSE IF x.k < f.recs[x.at].n THEN y = CompoundTo(f, x) ELSE y = ClaimTo(f, x)
  /\ f.prog = "report" => y = ReportTo(f, x)

\* Both sides round alike.
LEMMA RoundedAlike ==
  ASSUME NEW m \in Side, NEW num \in Int, NEW den \in Nat, den # 0
  PROVE  Rounded(m, num, den) = RoundHalfEven(num, den)
  BY RoundingAgrees DEF Rounded

\* A value that fits its field is moved there whole.
LEMMA MoveWhole ==
  ASSUME NEW v, Fits(v)
  PROVE  v % (MaxField + 1) = v
<1> DEFINE den == MaxField + 1
<1>1. v \in Nat /\ v < den /\ den \in Nat /\ den # 0
  BY BatchAssumption DEF Fits
<1> HIDE DEF den
<1>2. PICK q \in Int, r \in Nat : q = v \div den /\ r = v % den /\ r < den /\ v = den * q + r
  BY <1>1, DivMod
<1>3. den * 0 = 0
  BY <1>1, SMT
<1>4. den * 0 + v = den * q + r
  BY <1>1, <1>2, <1>3
<1>5. v = r
  BY <1>1, <1>2, <1>4, DivUnique
<1> QED
  BY <1>2, <1>5 DEF den

\* A row whose fields fit is printed alike by both sides.
LEMMA PrintedAlike ==
  ASSUME NEW m \in Side, NEW n \in Nat, NEW row, row = [i \in 1 .. n |-> row[i]],
         \A i \in 1 .. n : Fits(row[i])
  PROVE  Printed(m, row) = row
<1>1. \A i \in 1 .. n : row[i] % (MaxField + 1) = row[i]
  BY MoveWhole
<1>2. DOMAIN row = 1 .. n
  OBVIOUS
<1>3. [i \in DOMAIN row |-> row[i] % (MaxField + 1)] = [i \in 1 .. n |-> row[i]]
  BY <1>1, <1>2
<1> QED
  BY <1>3 DEF Printed, MoveRow

\* Leaving a record, as a step of the state of a side.
LEMMA LeaveRecord ==
  ASSUME TypeInv, NEW m \in Side, NEW w, NEW out, NextRecord(w), lines'[m] = out, UNCHANGED file
  PROVE  At(m)' = AfterRecord(file, At(m), w, out)
  BY DEF At, AfterRecord, NextRecord

\* Ending a period, as a step of the state of a side.
LEMMA EndPeriod ==
  ASSUME TypeInv, NEW m \in Side, NEW w, NEW out, NextPeriod(w), lines'[m] = out, UNCHANGED file
  PROVE  At(m)' = AfterPeriod(file, At(m), w, out)
<1>1. CASE k + 1 < Rec.n
  BY <1>1 DEF At, AfterPeriod, InRecord, NextPeriod, Rec
<1>2. CASE ~ (k + 1 < Rec.n)
  BY <1>2, LeaveRecord DEF At, AfterPeriod, NextPeriod, Rec
<1> QED
  BY <1>1, <1>2

\* A line printed.
LEMMA EmitLine ==
  ASSUME TypeInv, NEW m \in Side, NEW row, Emit(m, row), Printed(m, row) = row
  PROVE  lines'[m] = Printing(At(m), row)
  BY DEF Emit, Printing, At, TypeInv, Frame

\* An entry of the settlement.
LEMMA SettleAlike ==
  ASSUME TypeInv, NEW m \in Side, SettleEntry(m), ~ Stop(m), UNCHANGED file
  PROVE  At(m)' = SettleTo(file, At(m))
<1> DEFINE t == [a \in DOMAIN work.totals \cup {Rec.account} |->
                   IF a = Rec.account THEN Added(m, Rec) ELSE work.totals[a]]
<1>1. Running(m, "settle") /\ NextRecord([work EXCEPT !.totals = t]) /\ UNCHANGED lines
  BY DEF SettleEntry
<1>2. Rounded(m, Rec.amount * Rec.num, Rec.den) = RoundHalfEven(Rec.amount * Rec.num, Rec.den)
  BY <1>1, SignedInt, RoundedAlike DEF TypeInv
<1>3. Added(m, Rec) = Converted(Rec)
        + IF Rec.account \in DOMAIN work.totals THEN work.totals[Rec.account] ELSE 0
  BY <1>2 DEF Added, Signed, Known, Converted
<1>4. t = TotalsWith(Rec, work.totals)
  BY <1>3 DEF TotalsWith
<1> HIDE DEF t
<1>5. At(m)' = AfterRecord(file, At(m), [work EXCEPT !.totals = t], lines[m])
  BY <1>1, LeaveRecord
<1> QED
  BY <1>4, <1>5 DEF SettleTo, At, Rec

\* A period of a loan, when the row fits.
LEMMA AmortAlike ==
  ASSUME TypeInv, NEW m \in Side, AmortPeriod(m), ~ Stop(m), UNCHANGED file,
         m = "cobol" => FormatAmortOut(LoanRow(Rec, k, work))
  PROVE  At(m)' = AmortTo(file, At(m)) /\ FormatAmortOut(LoanRow(Rec, k, work))
<1>1. Running(m, "amort")
  BY DEF AmortPeriod
<1>2. Rounded(m, work.balance * Rec.num, Rec.den) = LoanInterest(Rec, work)
  BY <1>1, AmortInt, RoundedAlike DEF TypeInv, LoanInterest
<1>3. /\ ~ (m = "js" /\ ~ FormatAmortOut(LoanRow(Rec, k, work)))
      /\ Emit(m, LoanRow(Rec, k, work))
      /\ NextPeriod([work EXCEPT !.balance = @ - Repaid(Rec, k, work)])
  BY <1>2 DEF AmortPeriod, LoanRow, Repaid
<1>4. FormatAmortOut(LoanRow(Rec, k, work))
  BY <1>3 DEF Side
<1>5. Printed(m, LoanRow(Rec, k, work)) = LoanRow(Rec, k, work)
  <2>1. LoanRow(Rec, k, work) = [i \in 1 .. 4 |-> LoanRow(Rec, k, work)[i]]
    BY DEF LoanRow
  <2> QED
    BY <1>4, <2>1, PrintedAlike DEF FormatAmortOut
<1>6. lines'[m] = Printing(At(m), LoanRow(Rec, k, work))
  BY <1>3, <1>5, EmitLine
<1>7. At(m)' = AfterPeriod(file, At(m), [work EXCEPT !.balance = @ - Repaid(Rec, k, work)],
                           Printing(At(m), LoanRow(Rec, k, work)))
  BY <1>3, <1>6, EndPeriod
<1> QED
  BY <1>4, <1>7 DEF AmortTo, At, Rec

\* A period of an asset, when the row fits: the two rooms are the same.
LEMMA DeprecAlike ==
  ASSUME TypeInv, NEW m \in Side, DeprecPeriod(m), ~ Stop(m), UNCHANGED file,
         m = "cobol" => FormatDeprecOut(AssetRow(Rec, k, work))
  PROVE  At(m)' = DeprecTo(file, At(m)) /\ FormatDeprecOut(AssetRow(Rec, k, work))
<1>1. Running(m, "deprec")
  BY DEF DeprecPeriod
<1>2. Deprec(m) = IF Rec.method = "L" THEN RoundHalfEven(Rec.cost - Rec.salvage, Rec.n)
                  ELSE RoundHalfEven(work.balance * Rec.num, Rec.den)
  BY <1>1, DeprecInt, RoundedAlike DEF TypeInv, Deprec
<1>a. Room(m) = work.balance - Rec.salvage
  <2>1. /\ work.balance \in Int /\ work.accum \in Int /\ Rec.cost \in Int /\ Rec.salvage \in Int
        /\ work.accum + work.balance = Rec.cost
    BY <1>1, DeprecInt DEF TypeInv, Position, Numeric
  <2> QED
    BY <2>1 DEF Room
<1>b. Written(Rec, k, work) = IF k + 1 = Rec.n THEN work.balance - Rec.salvage
                              ELSE Clamp(Deprec(m), Room(m))
  BY <1>2, <1>a DEF Written
<1>3. /\ ~ (m = "js" /\ ~ FormatDeprecOut(AssetRow(Rec, k, work)))
      /\ Emit(m, AssetRow(Rec, k, work))
      /\ NextPeriod([balance |-> work.balance - Written(Rec, k, work),
                     accum |-> work.accum + Written(Rec, k, work), totals |-> work.totals])
  BY <1>b DEF DeprecPeriod, AssetRow
<1>4. FormatDeprecOut(AssetRow(Rec, k, work))
  BY <1>3 DEF Side
<1>5. Printed(m, AssetRow(Rec, k, work)) = AssetRow(Rec, k, work)
  <2>1. AssetRow(Rec, k, work) = [i \in 1 .. 3 |-> AssetRow(Rec, k, work)[i]]
    BY DEF AssetRow
  <2> QED
    BY <1>4, <2>1, PrintedAlike DEF FormatDeprecOut
<1>6. lines'[m] = Printing(At(m), AssetRow(Rec, k, work))
  BY <1>3, <1>5, EmitLine
<1>7. At(m)' = AfterPeriod(file, At(m),
                 [balance |-> work.balance - Written(Rec, k, work),
                  accum |-> work.accum + Written(Rec, k, work), totals |-> work.totals],
                 Printing(At(m), AssetRow(Rec, k, work)))
  BY <1>3, <1>6, EndPeriod
<1> QED
  BY <1>4, <1>7 DEF DeprecTo, At, Rec

\* The interest of a claim, and its line.
LEMMA InterestAlike ==
  ASSUME TypeInv, NEW m \in Side, ~ Stop(m), UNCHANGED file,
         SimpleInterest(m) \/ CompoundInterest(m) \/ InterestRecord(m)
  PROVE  IF Rec.method = "S"
         THEN IF k = 0 THEN At(m)' = SimpleTo(file, At(m)) ELSE At(m)' = ClaimTo(file, At(m))
         ELSE IF k < Rec.n THEN At(m)' = CompoundTo(file, At(m)) ELSE At(m)' = ClaimTo(file, At(m))
<1>1. Running(m, "interest")
  BY DEF SimpleInterest, CompoundInterest, InterestRecord
<1>2. /\ Rec.n \in Nat /\ k \in Nat /\ Rec.method \in {"S", "C"}
      /\ Rounded(m, work.balance * Rec.num, Rec.den) = RoundHalfEven(work.balance * Rec.num, Rec.den)
  BY <1>1, InterestInt, RoundedAlike DEF TypeInv, Position
<1>3. CASE SimpleInterest(m)
  <2>1. Rounded(m, work.balance * Rec.num * Rec.days, Rec.den * Rec.basis)
          = RoundHalfEven(work.balance * Rec.num * Rec.days, Rec.den * Rec.basis)
    BY <1>1, <1>3, InterestInt, RoundedAlike DEF TypeInv, SimpleInterest
  <2>2. /\ k = 0 /\ k' = 1 /\ at' = at /\ lines' = lines /\ Rec.method = "S"
        /\ work' = [work EXCEPT !.balance =
             @ + RoundHalfEven(@ * Rec.num * Rec.days, Rec.den * Rec.basis)]
    BY <1>3, <2>1 DEF SimpleInterest
  <2>3. At(m)' = SimpleTo(file, At(m))
    BY <2>2 DEF At, SimpleTo, InRecord, Rec
  <2> QED
    BY <2>2, <2>3
<1>4. CASE CompoundInterest(m)
  <2>1. /\ k < Rec.n /\ k' = k + 1 /\ at' = at /\ lines' = lines /\ Rec.method = "C"
        /\ work' = [work EXCEPT !.balance = @ + RoundHalfEven(@ * Rec.num, Rec.den)]
    BY <1>2, <1>4 DEF CompoundInterest
  <2>2. At(m)' = CompoundTo(file, At(m))
    BY <2>1 DEF At, CompoundTo, InRecord, Rec
  <2> QED
    BY <2>1, <2>2
<1>5. CASE InterestRecord(m)
  <2>1. /\ FormatInterestOut(ClaimRow(Rec, work)) /\ Emit(m, ClaimRow(Rec, work))
        /\ NextRecord(work)
        /\ k = IF Rec.method = "S" THEN 1 ELSE Rec.n
    BY <1>5 DEF InterestRecord, ClaimRow
  <2>2. Printed(m, ClaimRow(Rec, work)) = ClaimRow(Rec, work)
    <3>1. ClaimRow(Rec, work) = [i \in 1 .. 2 |-> ClaimRow(Rec, work)[i]]
      BY DEF ClaimRow
    <3>2. \A i \in 1 .. 2 : Fits(ClaimRow(Rec, work)[i])
      <4>1. \A i \in 1 .. 2 : i = 1 \/ i = 2
        OBVIOUS
      <4> QED
        BY <2>1, <4>1 DEF FormatInterestOut
    <3> QED
      BY <3>1, <3>2, PrintedAlike
  <2>3. lines'[m] = Printing(At(m), ClaimRow(Rec, work))
    BY <2>1, <2>2, EmitLine
  <2>4. At(m)' = AfterRecord(file, At(m), work, Printing(At(m), ClaimRow(Rec, work)))
    BY <2>1, <2>3, LeaveRecord
  <2>5. At(m)' = ClaimTo(file, At(m))
    BY <2>4 DEF ClaimTo, At, Rec
  <2> QED
    BY <1>2, <2>1, <2>5
<1> QED
  BY <1>3, <1>4, <1>5

\* A detail of the report.
LEMMA ReportAlike ==
  ASSUME TypeInv, NEW m \in Side, ReportDetail(m), ~ Stop(m), UNCHANGED file
  PROVE  At(m)' = ReportTo(file, At(m))
<1> DEFINE w == [work EXCEPT !.accum = @ + Rec.balance]
<1>1. NextRecord(w) /\ UNCHANGED lines
  BY DEF ReportDetail
<1> HIDE DEF w
<1>2. At(m)' = AfterRecord(file, At(m), w, lines[m])
  BY <1>1, LeaveRecord
<1> QED
  BY <1>2 DEF w, ReportTo, At, Rec

\* A step in the middle of a file, of either side.
Within(m) ==
  \/ SettleEntry(m) \/ AmortPeriod(m) \/ DeprecPeriod(m)
  \/ SimpleInterest(m) \/ CompoundInterest(m) \/ InterestRecord(m) \/ ReportDetail(m)

\* Within a file a program is running.
LEMMA WithinRuns ==
  ASSUME NEW m \in Side, Within(m)
  PROVE  /\ stage = m /\ at <= Len(file.recs)
         /\ file.prog = "settle" => SettleEntry(m)
         /\ file.prog = "amort" => AmortPeriod(m)
         /\ file.prog = "deprec" => DeprecPeriod(m)
         /\ file.prog = "interest" => SimpleInterest(m) \/ CompoundInterest(m) \/ InterestRecord(m)
         /\ file.prog = "report" => ReportDetail(m)
  BY DEF Within, SettleEntry, AmortPeriod, DeprecPeriod, SimpleInterest, CompoundInterest,
         InterestRecord, ReportDetail, Running

\* Each step of the reference is one of its advances.
LEMMA ReferenceAdvances ==
  ASSUME TypeInv, Within("js"), ~ Stop("js"), UNCHANGED file
  PROVE  Advance(file, At("js"), At("js")')
<1>1. "js" \in Side
  BY DEF Side
<1>2. At("js").at = at /\ At("js").k = k /\ At("js").work = work /\ file.recs[At("js").at] = Rec
  BY DEF At, Rec
<1>3. at <= Len(file.recs)
  BY <1>1, WithinRuns
<1>4. file.prog = "settle" => At("js")' = SettleTo(file, At("js"))
  BY <1>1, WithinRuns, SettleAlike
<1>5. file.prog = "amort" =>
        At("js")' = AmortTo(file, At("js")) /\ FormatAmortOut(LoanRow(Rec, k, work))
  BY <1>1, WithinRuns, AmortAlike
<1>6. file.prog = "deprec" =>
        At("js")' = DeprecTo(file, At("js")) /\ FormatDeprecOut(AssetRow(Rec, k, work))
  BY <1>1, WithinRuns, DeprecAlike
<1>7. file.prog = "interest" =>
         IF Rec.method = "S"
         THEN IF k = 0 THEN At("js")' = SimpleTo(file, At("js"))
              ELSE At("js")' = ClaimTo(file, At("js"))
         ELSE IF k < Rec.n THEN At("js")' = CompoundTo(file, At("js"))
              ELSE At("js")' = ClaimTo(file, At("js"))
  BY <1>1, WithinRuns, InterestAlike
<1>8. file.prog = "report" => At("js")' = ReportTo(file, At("js"))
  BY <1>1, WithinRuns, ReportAlike
<1> QED
  BY <1>2, <1>3, <1>4, <1>5, <1>6, <1>7, <1>8 DEF Advance

\* Where the reference goes on, the program goes to the same place or stops.
LEMMA ProgramFollows ==
  ASSUME TypeInv, Within("cobol"), ~ Stop("cobol"), UNCHANGED file,
         NEW y, Advance(file, At("cobol"), y)
  PROVE  At("cobol")' = y
<1>1. "cobol" \in Side
  BY DEF Side
<1>2. /\ At("cobol").at = at /\ At("cobol").k = k /\ At("cobol").work = work
      /\ file.recs[At("cobol").at] = Rec
  BY DEF At, Rec
<1>3. file.prog \in Prog
  <2>1. Running("cobol", file.prog)
    BY <1>1, WithinRuns DEF Running
  <2>2. at \in DOMAIN file.recs
    BY <1>1, <2>1, CurrentRecord DEF TypeInv
  <2>3. file.recs # << >>
    BY <2>2
  <2> QED
    BY <2>3, RecordKind DEF TypeInv, Position, SchedInv
<1>4. CASE file.prog = "settle"
  BY <1>1, <1>4, WithinRuns, SettleAlike DEF Advance
<1>5. CASE file.prog = "amort"
  <2>1. y = AmortTo(file, At("cobol")) /\ FormatAmortOut(LoanRow(Rec, k, work))
    BY <1>2, <1>5 DEF Advance
  <2> QED
    BY <1>1, <1>5, <2>1, WithinRuns, AmortAlike
<1>6. CASE file.prog = "deprec"
  <2>1. y = DeprecTo(file, At("cobol")) /\ FormatDeprecOut(AssetRow(Rec, k, work))
    BY <1>2, <1>6 DEF Advance
  <2> QED
    BY <1>1, <1>6, <2>1, WithinRuns, DeprecAlike
<1>7. CASE file.prog = "interest"
  <2>1. IF Rec.method = "S"
        THEN IF k = 0 THEN y = SimpleTo(file, At("cobol")) ELSE y = ClaimTo(file, At("cobol"))
        ELSE IF k < Rec.n THEN y = CompoundTo(file, At("cobol")) ELSE y = ClaimTo(file, At("cobol"))
    BY <1>2, <1>7 DEF Advance
  <2>2. IF Rec.method = "S"
        THEN IF k = 0 THEN At("cobol")' = SimpleTo(file, At("cobol"))
             ELSE At("cobol")' = ClaimTo(file, At("cobol"))
        ELSE IF k < Rec.n THEN At("cobol")' = CompoundTo(file, At("cobol"))
             ELSE At("cobol")' = ClaimTo(file, At("cobol"))
    BY <1>1, <1>7, WithinRuns, InterestAlike
  <2> QED
    BY <2>1, <2>2
<1>8. CASE file.prog = "report"
  BY <1>1, <1>8, WithinRuns, ReportAlike DEF Advance
<1> QED
  BY <1>3, <1>4, <1>5, <1>6, <1>7, <1>8 DEF Prog

(* Runs of the reference *)

\* s[0] .. s[n] is a run of the reference over f.
IsRun(f, s, n) == s[0] = Start(f) /\ \A i \in 0 .. n - 1 : Advance(f, s[i], s[i + 1])

\* The reference comes to x.
Reaches(f, x) == \E n \in Nat : \E s : IsRun(f, s, n) /\ s[n] = x

\* The lines at the end of a file.
EndLines(f, x) ==
  IF f.prog = "settle" THEN Append(x.lines, x.work.totals)
  ELSE IF f.prog = "report" THEN Append(x.lines, <<Len(f.recs), x.work.accum>>)
  ELSE x.lines

\* The reference comes through x to the end of the file, and prints out.
Finishes(f, x, out) ==
  \E n \in Nat : \E j \in 0 .. n : \E s :
    /\ IsRun(f, s, n) /\ s[j] = x
    /\ s[n].at > Len(f.recs) /\ EndLines(f, s[n]) = out

\* A run starts.
LEMMA RunStarts ==
  ASSUME NEW f
  PROVE  Reaches(f, Start(f))
<1> DEFINE s == [i \in {0} |-> Start(f)]
<1>1. IsRun(f, s, 0) /\ s[0] = Start(f)
  BY DEF IsRun
<1> QED
  BY <1>1 DEF Reaches

\* A run goes on.
LEMMA RunGoesOn ==
  ASSUME NEW f, NEW x, NEW y, Reaches(f, x), Advance(f, x, y)
  PROVE  Reaches(f, y)
<1>1. PICK n \in Nat : \E s : IsRun(f, s, n) /\ s[n] = x
  BY DEF Reaches
<1>2. PICK s : IsRun(f, s, n) /\ s[n] = x
  BY <1>1
<1> DEFINE z == [i \in 0 .. n + 1 |-> IF i <= n THEN s[i] ELSE y]
<1>3. z[0] = s[0] /\ z[n] = x /\ z[n + 1] = y
  BY <1>2
<1>4. ASSUME NEW i \in 0 .. n PROVE Advance(f, z[i], z[i + 1])
  <2>1. CASE i = n
    BY <1>2, <1>3, <2>1
  <2>2. CASE i # n
    <3>1. i \in 0 .. n - 1 /\ z[i] = s[i] /\ z[i + 1] = s[i + 1]
      BY <2>2
    <3> HIDE DEF z
    <3> QED
      BY <1>2, <3>1 DEF IsRun
  <2> QED
    BY <2>1, <2>2
<1> HIDE DEF z
<1>5. IsRun(f, z, n + 1)
  BY <1>2, <1>3, <1>4 DEF IsRun
<1> QED
  BY <1>3, <1>5 DEF Reaches

\* A run that has come to the end started at the start.
LEMMA RunEnds ==
  ASSUME NEW f, NEW x, Reaches(f, x), x.at > Len(f.recs)
  PROVE  Finishes(f, Start(f), EndLines(f, x))
<1>1. PICK n \in Nat : \E s : IsRun(f, s, n) /\ s[n] = x
  BY DEF Reaches
<1>2. PICK s : IsRun(f, s, n) /\ s[n] = x
  BY <1>1
<1>3. s[0] = Start(f) /\ 0 \in 0 .. n
  BY <1>2 DEF IsRun
<1> QED
  BY <1>2, <1>3 DEF Finishes

\* Before the end of the file the reference goes on from x.
LEMMA RunContinues ==
  ASSUME NEW f, Len(f.recs) \in Nat, NEW x, x.at \in Nat, x.at <= Len(f.recs), NEW out,
         Finishes(f, x, out)
  PROVE  \E y : Advance(f, x, y) /\ Finishes(f, y, out)
<1>a. PICK n \in Nat : \E j \in 0 .. n : \E s :
        /\ IsRun(f, s, n) /\ s[j] = x
        /\ s[n].at > Len(f.recs) /\ EndLines(f, s[n]) = out
  BY DEF Finishes
<1>1. PICK j \in 0 .. n : \E s :
        /\ IsRun(f, s, n) /\ s[j] = x
        /\ s[n].at > Len(f.recs) /\ EndLines(f, s[n]) = out
  BY <1>a
<1>2. PICK s : /\ IsRun(f, s, n) /\ s[j] = x
               /\ s[n].at > Len(f.recs) /\ EndLines(f, s[n]) = out
  BY <1>1
<1>3. j # n
  <2>1. SUFFICES ASSUME j = n PROVE FALSE
    OBVIOUS
  <2>2. x.at > Len(f.recs)
    BY <1>2, <2>1
  <2> QED
    BY <2>2
<1>4. j \in 0 .. n - 1 /\ j + 1 \in 0 .. n
  BY <1>3
<1>5. Advance(f, x, s[j + 1])
  BY <1>2, <1>4 DEF IsRun
<1> QED
  BY <1>2, <1>4, <1>5 DEF Finishes

\* At the end of the file the lines are those of the reference.
LEMMA RunIsOver ==
  ASSUME NEW f, Len(f.recs) \in Nat, NEW x, x.at \in Nat, x.at > Len(f.recs), NEW out,
         Finishes(f, x, out)
  PROVE  EndLines(f, x) = out
<1>a. PICK n \in Nat : \E j \in 0 .. n : \E s :
        /\ IsRun(f, s, n) /\ s[j] = x
        /\ s[n].at > Len(f.recs) /\ EndLines(f, s[n]) = out
  BY DEF Finishes
<1>1. PICK j \in 0 .. n : \E s :
        /\ IsRun(f, s, n) /\ s[j] = x
        /\ s[n].at > Len(f.recs) /\ EndLines(f, s[n]) = out
  BY <1>a
<1>2. PICK s : /\ IsRun(f, s, n) /\ s[j] = x
               /\ s[n].at > Len(f.recs) /\ EndLines(f, s[n]) = out
  BY <1>1
<1>3. j = n
  <2>1. SUFFICES ASSUME j # n PROVE FALSE
    OBVIOUS
  <2>2. j \in 0 .. n - 1
    BY <2>1
  <2>3. Advance(f, x, s[j + 1])
    BY <1>2, <2>2 DEF IsRun
  <2>4. x.at <= Len(f.recs)
    BY <2>3 DEF Advance
  <2> QED
    BY <2>4
<1> QED
  BY <1>2, <1>3

\* The inductive invariant.  While the reference works it is on a run; once it is done its
\* lines are the end of one, and the program, while it works, is on that run.
Parity ==
  /\ stage = "js" => Reaches(file, At("js"))
  /\ stage \in {"js", "made", "written"} => lines["cobol"] = << >>
  /\ stage \in {"js", "made", "written", "cobol"} => outcome["cobol"] = "none"
  /\ stage \in {"made", "written"} => Finishes(file, Start(file), lines["js"])
  /\ stage = "cobol" => Finishes(file, At("cobol"), lines["js"])
  /\ ParityHolds

ParityInv == TypeInv /\ Parity

\* A side leaves the other's lines alone.
LEMMA OthersLines ==
  ASSUME TypeInv, NEW m \in Side, SideStep(m), NEW o \in Side, o # m
  PROVE  lines'[o] = lines[o]
<1>1. \/ lines' = lines
      \/ \E e : lines' = [lines EXCEPT ![m] = e]
  BY SidePrints
<1>2. DOMAIN lines = Side
  BY DEF TypeInv, Frame
<1> QED
  BY <1>1, <1>2

\* What the end of a file prints.
LEMMA LastLines ==
  ASSUME TypeInv, NEW m \in Side, EndOfFile(m), TailFits
  PROVE  /\ stage = m /\ at > Len(file.recs)
         /\ lines' = [lines EXCEPT ![m] = EndLines(file, At(m))]
         /\ outcome' = [outcome EXCEPT ![m] = "done"]
         /\ stage' = IF m = "js" THEN "made" ELSE "judged"
<1>1. EndLines(file, At(m)) = AllLines(m)
  BY DEF EndLines, AllLines, At
<1> QED
  BY <1>1 DEF EndOfFile

\* The reference keeps to its run.
LEMMA ParityReference ==
  ASSUME ParityInv, SideStep("js")
  PROVE  Parity'
<1>1. /\ "js" \in Side /\ "cobol" \in Side /\ "js" # "cobol"
      /\ DOMAIN lines = Side /\ DOMAIN outcome = Side /\ file' = file
      /\ at \in Nat /\ Len(file.recs) \in Nat
  BY RecordKind DEF Side, ParityInv, TypeInv, Frame, SideStep, Position, SchedInv
<1>2. stage = "js"
  BY WithinRuns, <1>1 DEF SideStep, Within, EndOfFile
<1>3. lines'["cobol"] = << >>
  BY <1>1, <1>2, OthersLines DEF ParityInv, Parity
<1>4. outcome["cobol"] = "none" /\ Reaches(file, At("js"))
  BY <1>2 DEF ParityInv, Parity
<1>5. ASSUME Stop("js") PROVE Parity'
  BY <1>1, <1>4, <1>5 DEF Stop, Parity, ParityHolds
<1>6. ASSUME EndOfFile("js"), TailFits PROVE Parity'
  <2>1. /\ at > Len(file.recs)
        /\ lines' = [lines EXCEPT !["js"] = EndLines(file, At("js"))]
        /\ outcome' = [outcome EXCEPT !["js"] = "done"]
        /\ stage' = "made"
    BY <1>1, <1>6, LastLines DEF ParityInv
  <2>2. At("js").at > Len(file.recs)
    BY <2>1 DEF At
  <2>3. Finishes(file, Start(file), EndLines(file, At("js")))
    BY <1>4, <2>2, RunEnds
  <2>4. lines'["js"] = EndLines(file, At("js")) /\ outcome'["cobol"] = "none"
    BY <1>1, <1>4, <2>1
  <2> QED
    BY <1>1, <1>3, <2>1, <2>3, <2>4 DEF Parity, ParityHolds
<1>7. ASSUME Goes, Within("js"), ~ Stop("js") PROVE Parity'
  <2>1. Advance(file, At("js"), At("js")')
    BY <1>1, <1>7, ReferenceAdvances DEF ParityInv
  <2>2. Reaches(file, At("js")')
    BY <1>4, <2>1, RunGoesOn
  <2>3. stage' = "js" /\ outcome' = outcome
    BY <1>2, <1>7 DEF Goes
  <2> QED
    BY <1>1, <1>3, <1>4, <2>2, <2>3 DEF Parity, ParityHolds
<1>8. Goes \/ Stop("js") \/ (EndOfFile("js") /\ TailFits)
  BY <1>1, SideEnds
<1>9. Within("js") \/ EndOfFile("js")
  BY DEF SideStep, Within
<1>10. EndOfFile("js") => Stop("js") \/ TailFits
  BY DEF EndOfFile
<1> QED
  BY <1>5, <1>6, <1>7, <1>8, <1>9, <1>10

\* The program keeps to the reference's run, or stops.
LEMMA ParityProgram ==
  ASSUME ParityInv, SideStep("cobol")
  PROVE  Parity'
<1>1. /\ "js" \in Side /\ "cobol" \in Side /\ "js" # "cobol"
      /\ DOMAIN lines = Side /\ DOMAIN outcome = Side /\ file' = file
      /\ at \in Nat /\ Len(file.recs) \in Nat
  BY RecordKind DEF Side, ParityInv, TypeInv, Frame, SideStep, Position, SchedInv
<1>2. stage = "cobol"
  BY WithinRuns, <1>1 DEF SideStep, Within, EndOfFile
<1>3. lines'["js"] = lines["js"]
  BY <1>1, OthersLines DEF ParityInv
<1>4. outcome["cobol"] = "none" /\ Finishes(file, At("cobol"), lines["js"])
      /\ At("cobol").at = at
  BY <1>2 DEF ParityInv, Parity, At
<1>5. ASSUME Stop("cobol") PROVE Parity'
  <2>1. stage' = "judged" /\ outcome'["cobol"] = "stopped"
    BY <1>1, <1>5 DEF Stop
  <2> QED
    BY <2>1 DEF Parity, ParityHolds
<1>6. ASSUME EndOfFile("cobol"), TailFits PROVE Parity'
  <2>1. /\ at > Len(file.recs)
        /\ lines' = [lines EXCEPT !["cobol"] = EndLines(file, At("cobol"))]
        /\ stage' = "judged"
    BY <1>1, <1>6, LastLines DEF ParityInv
  <2>2. EndLines(file, At("cobol")) = lines["js"]
    BY <1>1, <1>4, <2>1, RunIsOver
  <2>3. lines'["cobol"] = lines'["js"]
    BY <1>1, <1>3, <2>1, <2>2
  <2> QED
    BY <2>1, <2>3 DEF Parity, ParityHolds
<1>7. ASSUME Goes, Within("cobol"), ~ Stop("cobol") PROVE Parity'
  <2>1. at <= Len(file.recs)
    BY <1>1, <1>7, WithinRuns
  <2>2. PICK y : Advance(file, At("cobol"), y) /\ Finishes(file, y, lines["js"])
    BY <1>1, <1>4, <2>1, RunContinues
  <2>3. At("cobol")' = y
    BY <1>1, <1>7, <2>2, ProgramFollows DEF ParityInv
  <2>4. stage' = "cobol" /\ outcome' = outcome
    BY <1>2, <1>7 DEF Goes
  <2>5. Finishes(file', At("cobol")', lines'["js"])
    BY <1>1, <1>3, <2>2, <2>3
  <2> QED
    BY <1>1, <1>4, <2>4, <2>5 DEF Parity, ParityHolds
<1>8. Goes \/ Stop("cobol") \/ (EndOfFile("cobol") /\ TailFits)
  BY <1>1, SideEnds
<1>9. Within("cobol") \/ EndOfFile("cobol")
  BY DEF SideStep, Within
<1>10. EndOfFile("cobol") => Stop("cobol") \/ TailFits
  BY DEF EndOfFile
<1> QED
  BY <1>5, <1>6, <1>7, <1>8, <1>9, <1>10

\* Every step preserves the invariant.
LEMMA ParityNext == ParityInv /\ [Next]_vars => ParityInv'
<1> SUFFICES ASSUME ParityInv, [Next]_vars PROVE Parity'
  BY TypeNext DEF ParityInv
<1>1. ASSUME NEW f \in Files, Generate(f) PROVE Parity'
  <2>1. /\ file' = f /\ stage' = "js" /\ at' = 1 /\ k' = 0 /\ work' = Cleared(f)
        /\ lines' = [m \in Side |-> << >>] /\ outcome' = [m \in Side |-> "none"]
    BY <1>1 DEF Generate
  <2>2. At("js")' = Start(f)
    BY <2>1 DEF At, Start, Side
  <2>3. Reaches(file', At("js")')
    BY <2>1, <2>2, RunStarts
  <2>4. lines'["cobol"] = << >> /\ outcome'["cobol"] = "none"
    BY <2>1 DEF Side
  <2> QED
    BY <2>1, <2>3, <2>4 DEF Parity, ParityHolds
<1>2. ASSUME NEW m \in Side, SideStep(m) PROVE Parity'
  BY <1>2, ParityReference, ParityProgram DEF Side
<1>3. CASE WritePair \/ WriteInputOnly \/ Tear
  <2>1. /\ stage' = "written" /\ stage \in {"made", "written"}
        /\ UNCHANGED <<file, at, k, work, lines, outcome>>
    BY <1>3 DEF WritePair, WriteInputOnly, Tear
  <2>2. /\ lines["cobol"] = << >> /\ outcome["cobol"] = "none"
        /\ Finishes(file, Start(file), lines["js"])
    BY <2>1 DEF ParityInv, Parity
  <2> QED
    BY <2>1, <2>2 DEF Parity, ParityHolds
<1>4. CASE RunCobol
  <2>1. /\ lines["cobol"] = << >> /\ outcome["cobol"] = "none"
        /\ Finishes(file, Start(file), lines["js"]) /\ UNCHANGED <<file, lines, outcome>>
    BY <1>4 DEF RunCobol, ParityInv, Parity
  <2>2. CASE stage' = "cobol" /\ at' = 1 /\ k' = 0 /\ work' = Cleared(file)
    <3>1. At("cobol")' = Start(file)
      BY <2>1, <2>2 DEF At, Start
    <3> QED
      BY <2>1, <2>2, <3>1 DEF Parity, ParityHolds
  <2>3. CASE stage' = "judged"
    BY <2>1, <2>3 DEF Parity, ParityHolds
  <2> QED
    BY <1>4, <2>2, <2>3 DEF RunCobol
<1>5. CASE UNCHANGED vars
  <2>1. At("js")' = At("js") /\ At("cobol")' = At("cobol")
    BY <1>5 DEF vars, At
  <2> QED
    BY <1>5, <2>1 DEF vars, ParityInv, Parity, ParityHolds
<1> QED
  BY <1>1, <1>2, <1>3, <1>4, <1>5 DEF Next

\* INV-7: whenever the COBOL program comes to the end of a file, it has printed exactly the
\* lines of the JavaScript reference, for every accepted file and every width: the
\* roundings, the two ways to cap a depreciation, the overflow checks and the truncating
\* moves can make the program stop but never print something else.
THEOREM ParityHoldsAlways == Spec => []ParityHolds
<1>1. Init => ParityInv
  <2>1. Init => Parity
    BY DEF Init, Parity, ParityHolds, Side
  <2> QED
    BY <2>1, TypeInit DEF ParityInv
<1>2. ParityInv => ParityHolds
  BY DEF ParityInv, Parity
<1> QED
  BY <1>1, <1>2, ParityNext, PTL DEF Spec

----------------------------------------------------------------------------
(* Schedules close *)

\* The field of a row that is written off, and the field of what is left.
PaidField(f) == IF f.prog = "amort" THEN 3 ELSE 1
LeftField(f) == IF f.prog = "amort" THEN 4 ELSE 3

\* What record i starts with, and what it is to end with.
Opened(f, i) == IF f.prog = "amort" THEN f.recs[i].principal ELSE f.recs[i].cost
Residue(f, i) == IF f.prog = "amort" THEN 0 ELSE f.recs[i].salvage

Row == [1 .. 4 -> Int] \cup [1 .. 3 -> Int]
Line == [of : Nat, row : Row]

\* Record i is done.
Done(f, out, i) ==
  Closes(out, i, PaidField(f), Opened(f, i) - Residue(f, i), LeftField(f), Residue(f, i))

\* The lines so far: finished records are closed, and of the record at work the lines
\* account for what is gone of it.
Books(f, x) ==
  /\ x.lines \in Seq(Line)
  /\ \A j \in DOMAIN x.lines : x.lines[j].of <= x.at /\ (x.k = 0 => x.lines[j].of # x.at)
  /\ \A i \in DOMAIN f.recs : i < x.at => Done(f, x.lines, i)
  /\ x.at \in DOMAIN f.recs =>
       /\ Column(x.lines, x.at, PaidField(f)) = Opened(f, x.at) - x.work.balance
       /\ x.k < f.recs[x.at].n

\* What one line adds to a column.
Share(l, i, c) == IF l.of = i THEN l.row[c] ELSE 0

\* A line adds its share to a column.
LEMMA ColumnAppend ==
  ASSUME NEW out \in Seq(Line), NEW l \in Line, NEW i, NEW c
  PROVE  Column(Append(out, l), i, c) = Column(out, i, c) + Share(l, i, c)
<1> DEFINE more == Append(out, l)
           f == [j \in DOMAIN out |-> IF out[j].of = i THEN out[j].row[c] ELSE 0]
           g == [j \in DOMAIN more |-> IF more[j].of = i THEN more[j].row[c] ELSE 0]
           N == Len(out)
<1>1. /\ N \in Nat /\ DOMAIN out = 1 .. N /\ DOMAIN more = 1 .. N + 1 /\ Len(more) = N + 1
      /\ more[N + 1] = l /\ \A j \in 1 .. N : more[j] = out[j]
  OBVIOUS
<1> HIDE DEF more, N
<1>2. \A j \in 1 .. N : f[j] = g[j]
  BY <1>1
<1>3. g[N + 1] = Share(l, i, c)
  BY <1>1 DEF Share
<1> HIDE DEF f, g
<1>4. SumUpTo(g, N + 1) = SumUpTo(f, N) + g[N + 1]
  BY <1>1, <1>2, SumExtend
<1> QED
  BY <1>1, <1>3, <1>4 DEF Column, f, g, N, more

\* A column of integers is an integer; without a line of the record it is zero.
LEMMA ColumnType ==
  ASSUME NEW out \in Seq(Line), NEW i, NEW c \in 1 .. 3
  PROVE  /\ Column(out, i, c) \in Int
         /\ (\A j \in DOMAIN out : out[j].of # i) => Column(out, i, c) = 0
<1> DEFINE f == [j \in DOMAIN out |-> IF out[j].of = i THEN out[j].row[c] ELSE 0]
<1>1. DOMAIN out = 1 .. Len(out) /\ Len(out) \in Nat
  OBVIOUS
<1>2. \A j \in DOMAIN out : out[j].row[c] \in Int
  <2> TAKE j \in DOMAIN out
  <2>1. out[j] \in Line
    OBVIOUS
  <2>2. out[j].row \in Row
    BY <2>1 DEF Line
  <2> QED
    BY <2>2 DEF Row
<1>3. f \in [1 .. Len(out) -> Int]
  BY <1>1, <1>2
<1>4. (\A j \in DOMAIN out : out[j].of # i) => \A j \in 1 .. Len(out) : f[j] = 0
  BY <1>1
<1> HIDE DEF f
<1>5. SumUpTo(f, Len(out)) \in Int
  BY <1>1, <1>3, SumType
<1>6. (\A j \in DOMAIN out : out[j].of # i) => SumUpTo(f, Len(out)) = 0
  BY <1>1, <1>3, <1>4, SumZero
<1> QED
  BY <1>5, <1>6 DEF Column, f

\* A line of another record leaves a closed one closed.
LEMMA DoneStays ==
  ASSUME NEW f, NEW out \in Seq(Line), NEW l \in Line, NEW i, Done(f, out, i), l.of # i
  PROVE  Done(f, Append(out, l), i)
<1> DEFINE c == PaidField(f)
           more == Append(out, l)
<1>1. c \in 1 .. 3
  BY DEF PaidField
<1>2. Share(l, i, c) = 0
  BY DEF Share
<1>3. Column(more, i, c) = Column(out, i, c)
  <2>1. Column(out, i, c) \in Int
    BY <1>1, ColumnType
  <2>2. Column(more, i, c) = Column(out, i, c) + Share(l, i, c)
    BY ColumnAppend
  <2> QED
    BY <1>2, <2>1, <2>2
<1>4. PICK j \in DOMAIN out : LastOf(out, i, j) /\ out[j].row[LeftField(f)] = Residue(f, i)
  BY DEF Done, Closes
<1>5. /\ DOMAIN more = 1 .. Len(out) + 1 /\ DOMAIN out = 1 .. Len(out) /\ Len(out) \in Nat
      /\ more[Len(out) + 1] = l /\ \A h \in DOMAIN out : more[h] = out[h]
  OBVIOUS
<1> HIDE DEF more
<1>6. \A h \in DOMAIN more : h \in DOMAIN out \/ h = Len(out) + 1
  BY <1>5
<1>7. LastOf(more, i, j) /\ more[j].row[LeftField(f)] = Residue(f, i) /\ j \in DOMAIN more
  BY <1>4, <1>5, <1>6 DEF LastOf
<1> QED
  BY <1>3, <1>7 DEF Done, Closes, more

\* One more line of the record at work: it is the last one, and what is left of the
\* record is what the line says.
LEMMA BooksLine ==
  ASSUME NEW f, DOMAIN f.recs = 1 .. Len(f.recs), Len(f.recs) \in Nat,
         NEW x, Books(f, x), x.at \in DOMAIN f.recs, x.k \in Nat,
         f.recs[x.at].n \in Nat, \A i \in DOMAIN f.recs : f.recs[i].n \in Nat \ {0},
         \A i \in DOMAIN f.recs : Opened(f, i) \in Int,
         f.prog \in {"amort", "deprec"},
         x.work.balance \in Int,
         NEW w, Shaped(w), w.balance \in Int,
         NEW row \in Row, row[PaidField(f)] = x.work.balance - w.balance,
         row[LeftField(f)] = w.balance,
         x.k + 1 = f.recs[x.at].n => w.balance = Residue(f, x.at),
         NEW y, y = AfterPeriod(f, x, w, Printing(x, row))
  PROVE  Books(f, y)
<1> DEFINE l == [of |-> x.at, row |-> row]
           more == Append(x.lines, l)
           c == PaidField(f)
<1>1. l \in Line /\ l.of = x.at /\ l.row = row /\ x.at \in Nat
  BY DEF Line
<1>2. more \in Seq(Line)
  BY <1>1 DEF Books
<1>3. /\ DOMAIN more = 1 .. Len(x.lines) + 1 /\ DOMAIN x.lines = 1 .. Len(x.lines)
      /\ Len(x.lines) \in Nat /\ more[Len(x.lines) + 1] = l
      /\ \A h \in DOMAIN x.lines : more[h] = x.lines[h]
  BY <1>1 DEF Books
<1>4. c \in 1 .. 3
  BY DEF PaidField
<1>5. Column(more, x.at, c) = Opened(f, x.at) - w.balance
  <2>1. Column(more, x.at, c) = Column(x.lines, x.at, c) + Share(l, x.at, c)
    BY <1>1, ColumnAppend DEF Books
  <2>2. Share(l, x.at, c) = x.work.balance - w.balance
    BY <1>1 DEF Share
  <2>3. Column(x.lines, x.at, c) = Opened(f, x.at) - x.work.balance /\ Opened(f, x.at) \in Int
    BY DEF Books
  <2> QED
    BY <2>1, <2>2, <2>3
<1>6. \A j \in DOMAIN more : more[j].of <= x.at
  <2> TAKE j \in DOMAIN more
  <2>1. CASE j \in DOMAIN x.lines
    BY <1>3, <2>1 DEF Books
  <2>2. CASE j = Len(x.lines) + 1
    BY <1>1, <1>3, <2>2
  <2> QED
    BY <1>3, <2>1, <2>2
<1>7. \A i \in DOMAIN f.recs : i < x.at => Done(f, more, i)
  <2> SUFFICES ASSUME NEW i \in DOMAIN f.recs, i < x.at PROVE Done(f, more, i)
    OBVIOUS
  <2>1. Done(f, x.lines, i) /\ l.of # i
    BY <1>1 DEF Books
  <2> HIDE DEF l
  <2> QED
    BY <1>1, <2>1, DoneStays DEF Books
<1>8. LastOf(more, x.at, Len(x.lines) + 1) /\ more[Len(x.lines) + 1].row[LeftField(f)] = w.balance
  BY <1>1, <1>3 DEF LastOf
<1>9. Printing(x, row) = more
  BY DEF Printing
<1> HIDE DEF more, l
<1>10. CASE x.k + 1 < f.recs[x.at].n
  <2>1. y = [at |-> x.at, k |-> x.k + 1, work |-> w, lines |-> more]
    BY <1>9, <1>10 DEF AfterPeriod, InRecord
  <2>2. y.at = x.at /\ y.k = x.k + 1 /\ y.work = w /\ y.lines = more /\ y.k # 0
    BY <2>1
  <2> QED
    BY <1>2, <1>5, <1>6, <1>7, <1>10, <2>2 DEF Books
<1>11. CASE ~ (x.k + 1 < f.recs[x.at].n)
  <2>1. x.k + 1 = f.recs[x.at].n
    BY <1>11 DEF Books
  <2>2. y = [at |-> x.at + 1, k |-> 0, work |-> Open(f, x.at + 1, w), lines |-> more]
    BY <1>9, <1>11 DEF AfterPeriod, AfterRecord
  <2>3. y.at = x.at + 1 /\ y.k = 0 /\ y.work = Open(f, x.at + 1, w) /\ y.lines = more
    BY <2>2
  <2>4. Done(f, more, x.at)
    <3>1. w.balance = Residue(f, x.at)
      BY <2>1
    <3>2. Len(x.lines) + 1 \in DOMAIN more
      BY <1>3
    <3> QED
      BY <1>5, <1>8, <3>1, <3>2 DEF Done, Closes
  <2>5. \A i \in DOMAIN f.recs : i < x.at + 1 => Done(f, more, i)
    <3>1. \A i \in DOMAIN f.recs : i < x.at + 1 => i < x.at \/ i = x.at
      BY <1>1
    <3> QED
      BY <1>7, <2>4, <3>1
  <2>6. \A j \in DOMAIN more : more[j].of \in Nat /\ more[j].of <= x.at + 1
                               /\ more[j].of # x.at + 1
    <3> TAKE j \in DOMAIN more
    <3>1. more[j] \in Line
      BY <1>2
    <3>2. more[j].of \in Nat /\ more[j].of <= x.at
      BY <1>6, <3>1 DEF Line
    <3> QED
      BY <1>1, <3>2
  <2>7. ASSUME x.at + 1 \in DOMAIN f.recs
        PROVE  /\ Column(more, x.at + 1, c) = Opened(f, x.at + 1) - Open(f, x.at + 1, w).balance
               /\ 0 < f.recs[x.at + 1].n
    <3>1. Column(more, x.at + 1, c) = 0
      BY <1>2, <1>4, <2>6, ColumnType
    <3>2. Open(f, x.at + 1, w).balance = Opened(f, x.at + 1)
      BY <2>7 DEF Open, Opened, Shaped
    <3> QED
      BY <2>7, <3>1, <3>2
  <2> QED
    BY <1>2, <2>3, <2>5, <2>6, <2>7 DEF Books
<1> QED
  BY <1>10, <1>11

\* What is known of a loan or an asset that the generator has accepted.
LEMMA ScheduleRecord ==
  ASSUME NEW f \in Files \cup {NoFile}, Accepted(f), f.prog \in {"amort", "deprec"}
  PROVE  /\ \A i \in DOMAIN f.recs : f.recs[i].n \in Nat \ {0}
         /\ \A i \in DOMAIN f.recs : Opened(f, i) \in Int /\ Residue(f, i) \in Int
<1>1. CASE f.prog = "amort"
  <2> SUFFICES ASSUME NEW i \in DOMAIN f.recs
               PROVE  f.recs[i].n \in Nat \ {0} /\ Opened(f, i) \in Int /\ Residue(f, i) \in Int
    OBVIOUS
  <2>1. FormatAmortIn(f.recs[i])
    BY <1>1 DEF Accepted, FormatIn
  <2>2. f.recs[i].n \in 1 .. MaxPeriods /\ Fits(f.recs[i].principal)
    BY <2>1 DEF FormatAmortIn
  <2> QED
    BY <1>1, <2>2, BatchAssumption DEF Fits, Opened, Residue
<1>2. CASE f.prog = "deprec"
  BY <1>2, DeprecRecord DEF Opened, Residue
<1> QED
  BY <1>1, <1>2

\* The reference's accounts stay in order when it goes on.
LEMMA BooksAdvance ==
  ASSUME NEW f \in Files \cup {NoFile}, Accepted(f), f.prog \in {"amort", "deprec"},
         NEW x, Books(f, x), x.at \in Nat \ {0}, x.k \in Nat, Shaped(x.work),
         x.work.balance \in Int, x.work.accum \in Int,
         NEW y, Advance(f, x, y)
  PROVE  Books(f, y)
<1>1. /\ x.at \in DOMAIN f.recs /\ DOMAIN f.recs = 1 .. Len(f.recs) /\ Len(f.recs) \in Nat
  BY RecordKind DEF Advance
<1>2. /\ \A i \in DOMAIN f.recs : f.recs[i].n \in Nat \ {0}
      /\ \A i \in DOMAIN f.recs : Opened(f, i) \in Int /\ Residue(f, i) \in Int
  BY ScheduleRecord
<1> DEFINE r == f.recs[x.at]
<1>3. CASE f.prog = "amort"
  <2> DEFINE row == LoanRow(r, x.k, x.work)
             p == Repaid(r, x.k, x.work)
             w == [x.work EXCEPT !.balance = @ - p]
  <2>1. FormatAmortOut(row) /\ y = AfterPeriod(f, x, w, Printing(x, row))
    BY <1>3 DEF Advance, AmortTo
  <2>2. /\ row[1] = p + LoanInterest(r, x.work) /\ row[2] = LoanInterest(r, x.work)
        /\ row[3] = p /\ row[4] = x.work.balance - p
        /\ row = [i \in 1 .. 4 |-> row[i]]
    BY DEF LoanRow
  <2>3. \A i \in 1 .. 4 : row[i] \in Int
    BY <2>1 DEF FormatAmortOut, Fits
  <2>4. row \in Row
    <3> HIDE DEF row
    <3>1. row \in [1 .. 4 -> Int]
      BY <2>2, <2>3
    <3> QED
      BY <3>1 DEF Row
  <2>5. p \in Int
    BY <2>2, <2>3
  <2>6. x.k + 1 = r.n => p = x.work.balance
    BY DEF Repaid
  <2> HIDE DEF row, p
  <2>7. Shaped(w) /\ w.balance = x.work.balance - p
    BY DEF Shaped
  <2>8. /\ w.balance \in Int /\ row[PaidField(f)] = x.work.balance - w.balance
        /\ row[LeftField(f)] = w.balance
        /\ x.k + 1 = r.n => w.balance = Residue(f, x.at)
    <3> HIDE DEF w
    <3> QED
      BY <1>3, <2>2, <2>5, <2>6, <2>7 DEF PaidField, LeftField, Residue
  <2> HIDE DEF w
  <2> QED
    BY <1>1, <1>2, <2>1, <2>4, <2>7, <2>8, BooksLine
<1>4. CASE f.prog = "deprec"
  <2> DEFINE row == AssetRow(r, x.k, x.work)
             p == Written(r, x.k, x.work)
             w == [balance |-> x.work.balance - p, accum |-> x.work.accum + p,
                   totals |-> x.work.totals]
  <2>1. FormatDeprecOut(row) /\ y = AfterPeriod(f, x, w, Printing(x, row))
    BY <1>4 DEF Advance, DeprecTo
  <2>2. /\ row[1] = p /\ row[2] = x.work.accum + p /\ row[3] = x.work.balance - p
        /\ row = [i \in 1 .. 3 |-> row[i]]
    BY DEF AssetRow
  <2>3. \A i \in 1 .. 3 : row[i] \in Int
    BY <2>1 DEF FormatDeprecOut, Fits
  <2>4. row \in Row
    <3> HIDE DEF row
    <3>1. row \in [1 .. 3 -> Int]
      BY <2>2, <2>3
    <3> QED
      BY <3>1 DEF Row
  <2>5. p \in Int
    BY <2>2, <2>3
  <2>6. x.k + 1 = r.n => p = x.work.balance - r.salvage
    BY DEF Written
  <2>7. r.salvage \in Int
    BY <1>1, <1>2, <1>4 DEF Residue
  <2> HIDE DEF row, p
  <2>8. Shaped(w) /\ w.balance = x.work.balance - p
    BY DEF Shaped
  <2>9. /\ w.balance \in Int /\ row[PaidField(f)] = x.work.balance - w.balance
        /\ row[LeftField(f)] = w.balance
        /\ x.k + 1 = r.n => w.balance = Residue(f, x.at)
    <3> HIDE DEF w
    <3> QED
      BY <1>4, <2>2, <2>5, <2>6, <2>7, <2>8 DEF PaidField, LeftField, Residue
  <2> HIDE DEF w
  <2> QED
    BY <1>1, <1>2, <2>1, <2>4, <2>8, <2>9, BooksLine
<1> QED
  BY <1>3, <1>4

\* The accounts are in order before the first line.
LEMMA BooksStart ==
  ASSUME NEW f \in Files \cup {NoFile}, Accepted(f), f.prog \in {"amort", "deprec"}
  PROVE  Books(f, Start(f))
<1>1. DOMAIN f.recs = 1 .. Len(f.recs) /\ Len(f.recs) \in Nat
  BY RecordKind
<1>2. << >> \in Seq(Line) /\ DOMAIN << >> = {}
  OBVIOUS
<1>3. Column(<< >>, 1, PaidField(f)) = 0
  <2>1. PaidField(f) \in 1 .. 3
    BY DEF PaidField
  <2> QED
    BY <1>2, <2>1, ColumnType
<1>4. ASSUME 1 \in DOMAIN f.recs
      PROVE  /\ Opened(f, 1) - Cleared(f).balance = 0 /\ 0 < f.recs[1].n
  <2>1. Cleared(f).balance = Opened(f, 1)
    BY <1>1, <1>4 DEF Cleared, Open, Opened
  <2>2. Opened(f, 1) \in Int /\ f.recs[1].n \in Nat \ {0}
    BY <1>4, ScheduleRecord
  <2> QED
    BY <2>1, <2>2
<1> QED
  BY <1>1, <1>2, <1>3, <1>4 DEF Books, Start

\* The schedules of a file are done.
AllDone(f, out) ==
  f.prog \in {"amort", "deprec"} => \A i \in DOMAIN f.recs : Done(f, out, i)

\* The inductive invariant: the reference's accounts are in order while it works, its
\* lines close every schedule once it is done, and the program is never done before it.
Accounting ==
  /\ stage = "js" /\ file.prog \in {"amort", "deprec"} => Books(file, At("js"))
  /\ outcome["js"] = "done" => AllDone(file, lines["js"])
  /\ stage \in {"made", "written", "cobol"} => outcome["js"] = "done"
  /\ stage = "js" => outcome["js"] = "none"
  /\ outcome["cobol"] = "done" => outcome["js"] = "done"

CloseInv == ParityInv /\ Accounting

\* The reference keeps its accounts.
LEMMA CloseReference ==
  ASSUME CloseInv, SideStep("js")
  PROVE  Accounting'
<1>1. /\ "js" \in Side /\ "cobol" \in Side /\ "js" # "cobol"
      /\ DOMAIN lines = Side /\ DOMAIN outcome = Side /\ file' = file
      /\ at \in Nat \ {0} /\ k \in Nat /\ Len(file.recs) \in Nat /\ DOMAIN file.recs = 1 .. Len(file.recs)
      /\ file \in Files \cup {NoFile} /\ Accepted(file) /\ Shaped(work) /\ Numeric(work)
  BY RecordKind DEF Side, CloseInv, ParityInv, TypeInv, Frame, SideStep, Position, SchedInv
<1>2. stage = "js"
  BY WithinRuns, <1>1 DEF SideStep, Within, EndOfFile
<1>3. outcome["js"] = "none" /\ outcome["cobol"] = "none"
  BY <1>2 DEF CloseInv, Accounting, ParityInv, Parity
<1>5. ASSUME Stop("js") PROVE Accounting'
  <2>1. outcome'["js"] = "stopped" /\ outcome'["cobol"] = "none" /\ stage' = "idle"
    BY <1>1, <1>3, <1>5 DEF Stop
  <2> QED
    BY <2>1 DEF Accounting
<1>6. ASSUME EndOfFile("js"), TailFits PROVE Accounting'
  <2>1. /\ at > Len(file.recs)
        /\ lines' = [lines EXCEPT !["js"] = EndLines(file, At("js"))]
        /\ outcome' = [outcome EXCEPT !["js"] = "done"]
        /\ stage' = "made"
    BY <1>1, <1>6, LastLines DEF CloseInv, ParityInv
  <2>2. outcome'["js"] = "done" /\ lines'["js"] = EndLines(file, At("js"))
    BY <1>1, <2>1
  <2>3. AllDone(file, EndLines(file, At("js")))
    <3> SUFFICES ASSUME file.prog \in {"amort", "deprec"}, NEW i \in DOMAIN file.recs
                 PROVE  Done(file, EndLines(file, At("js")), i)
      BY DEF AllDone
    <3>1. Books(file, At("js")) /\ EndLines(file, At("js")) = At("js").lines /\ At("js").at = at
      BY <1>2 DEF CloseInv, Accounting, EndLines, At
    <3>2. i < at
      BY <1>1, <2>1
    <3> QED
      BY <3>1, <3>2 DEF Books
  <2> QED
    BY <1>1, <2>1, <2>2, <2>3 DEF Accounting
<1>7. ASSUME Goes, Within("js"), ~ Stop("js") PROVE Accounting'
  <2>1. Advance(file, At("js"), At("js")')
    BY <1>1, <1>7, ReferenceAdvances DEF CloseInv, ParityInv
  <2>2. stage' = "js" /\ outcome' = outcome
    BY <1>2, <1>7 DEF Goes
  <2>3. file.prog \in {"amort", "deprec"} => Books(file, At("js")')
    <3> SUFFICES ASSUME file.prog \in {"amort", "deprec"} PROVE Books(file, At("js")')
      OBVIOUS
    <3>1. Books(file, At("js"))
      BY <1>2 DEF CloseInv, Accounting
    <3>2. At("js").at = at /\ At("js").k = k /\ At("js").work = work
      BY DEF At
    <3>3. work.balance \in Int /\ work.accum \in Int
      BY <1>1 DEF Numeric
    <3> QED
      BY <1>1, <2>1, <3>1, <3>2, <3>3, BooksAdvance
  <2> QED
    BY <1>1, <1>3, <2>2, <2>3 DEF Accounting
<1>8. Goes \/ Stop("js") \/ (EndOfFile("js") /\ TailFits)
  BY <1>1, SideEnds
<1>9. Within("js") \/ EndOfFile("js")
  BY DEF SideStep, Within
<1>10. EndOfFile("js") => Stop("js") \/ TailFits
  BY DEF EndOfFile
<1> QED
  BY <1>5, <1>6, <1>7, <1>8, <1>9, <1>10

\* Every step preserves the invariant.
LEMMA CloseNext == CloseInv /\ [Next]_vars => CloseInv'
<1> SUFFICES ASSUME CloseInv, [Next]_vars PROVE Accounting'
  BY ParityNext DEF CloseInv
<1>1. ASSUME NEW f \in Files, Generate(f) PROVE Accounting'
  <2>1. /\ file' = f /\ stage' = "js" /\ at' = 1 /\ k' = 0 /\ work' = Cleared(f)
        /\ lines' = [m \in Side |-> << >>] /\ outcome' = [m \in Side |-> "none"]
        /\ Accepted(f)
    BY <1>1 DEF Generate, Accepted
  <2>2. At("js")' = Start(f)
    BY <2>1 DEF At, Start, Side
  <2>3. f.prog \in {"amort", "deprec"} => Books(f, Start(f))
    BY <2>1, BooksStart
  <2>4. outcome'["js"] = "none" /\ outcome'["cobol"] = "none"
    BY <2>1 DEF Side
  <2> QED
    BY <2>1, <2>2, <2>3, <2>4 DEF Accounting
<1>2. ASSUME NEW m \in Side, SideStep(m) PROVE Accounting'
  <2>1. CASE m = "js"
    BY <1>2, <2>1, CloseReference
  <2>2. CASE m = "cobol"
    <3>1. /\ "cobol" \in Side /\ DOMAIN outcome = Side /\ file' = file
      BY <1>2, <2>2 DEF Side, CloseInv, ParityInv, TypeInv, Frame, SideStep
    <3>2. stage = "cobol"
      BY <1>2, <2>2, <3>1, WithinRuns DEF SideStep, Within, EndOfFile
    <3>3. lines'["js"] = lines["js"]
      BY <1>2, <2>2, OthersLines DEF Side, CloseInv, ParityInv
    <3>4. outcome["js"] = "done" /\ AllDone(file, lines["js"])
      BY <3>2 DEF CloseInv, Accounting
    <3>5. outcome'["js"] = "done" /\ stage' # "js"
      <4>1. CASE Goes
        BY <3>2, <3>4, <4>1 DEF Goes
      <4>2. CASE Stop(m)
        <5>1. stage' = "judged" /\ outcome' = [outcome EXCEPT !["cobol"] = "stopped"]
          BY <2>2, <4>2 DEF Stop
        <5> QED
          BY <3>1, <3>4, <5>1
      <4>3. CASE EndOfFile(m) /\ TailFits
        <5>1. stage' = "judged" /\ outcome' = [outcome EXCEPT !["cobol"] = "done"]
          BY <2>2, <4>3 DEF EndOfFile
        <5> QED
          BY <3>1, <3>4, <5>1
      <4> QED
        BY <1>2, <4>1, <4>2, <4>3, SideEnds
    <3> QED
      BY <3>1, <3>3, <3>4, <3>5 DEF Accounting
  <2> QED
    BY <2>1, <2>2 DEF Side
<1>3. CASE WritePair \/ WriteInputOnly \/ Tear
  <2>1. /\ stage' = "written" /\ stage \in {"made", "written"}
        /\ UNCHANGED <<file, at, k, work, lines, outcome>>
    BY <1>3 DEF WritePair, WriteInputOnly, Tear
  <2> QED
    BY <2>1 DEF CloseInv, Accounting
<1>4. CASE RunCobol
  <2>1. stage = "written" /\ stage' \in {"cobol", "judged"} /\ UNCHANGED <<file, lines, outcome>>
    BY <1>4 DEF RunCobol
  <2> QED
    BY <2>1 DEF CloseInv, Accounting
<1>5. CASE UNCHANGED vars
  <2>1. At("js")' = At("js")
    BY <1>5 DEF vars, At
  <2> QED
    BY <1>5, <2>1 DEF vars, CloseInv, Accounting
<1> QED
  BY <1>1, <1>2, <1>3, <1>4, <1>5 DEF Next

\* What either side prints of a loan or an asset closes it to the last unit, for every
\* accepted file: the clamps, the rounding of each period and the last period that takes
\* what is left never leave or lose anything.
THEOREM SchedulesCloseHolds == Spec => []SchedulesClose
<1>1. Init => CloseInv
  <2>1. Init => ParityInv
    BY TypeInit DEF Init, ParityInv, Parity, ParityHolds, Side
  <2>2. Init => Accounting
    BY DEF Init, Accounting, Side
  <2> QED
    BY <2>1, <2>2 DEF CloseInv
<1>2. CloseInv => SchedulesClose
  <2> SUFFICES ASSUME CloseInv, NEW m \in Side, outcome[m] = "done",
                      NEW i \in DOMAIN file.recs
               PROVE  /\ file.prog = "amort" =>
                           Closes(lines[m], i, 3, file.recs[i].principal, 4, 0)
                      /\ file.prog = "deprec" =>
                           Closes(lines[m], i, 1, file.recs[i].cost - file.recs[i].salvage, 3,
                                  file.recs[i].salvage)
    BY DEF SchedulesClose
  <2>1. outcome["js"] = "done" /\ lines[m] = lines["js"]
    BY DEF CloseInv, Accounting, ParityInv, Parity, ParityHolds, Side
  <2>2. AllDone(file, lines[m])
    BY <2>1 DEF CloseInv, Accounting
  <2>3. file \in Files \cup {NoFile} /\ Accepted(file)
    BY DEF CloseInv, ParityInv, TypeInv, Position, SchedInv
  <2>4. ASSUME file.prog = "amort"
        PROVE  Closes(lines[m], i, 3, file.recs[i].principal, 4, 0)
    <3>1. Closes(lines[m], i, 3, file.recs[i].principal - 0, 4, 0)
      BY <2>2, <2>4 DEF AllDone, Done, PaidField, LeftField, Opened, Residue
    <3>2. file.recs[i].principal \in Nat
      BY <2>3, <2>4, AmortRecord
    <3>3. file.recs[i].principal - 0 = file.recs[i].principal
      BY <3>2
    <3> QED
      BY <3>1, <3>3
  <2>5. ASSUME file.prog = "deprec"
        PROVE  Closes(lines[m], i, 1, file.recs[i].cost - file.recs[i].salvage, 3,
                      file.recs[i].salvage)
    BY <2>2, <2>5 DEF AllDone, Done, PaidField, LeftField, Opened, Residue
  <2> QED
    BY <2>4, <2>5
<1> QED
  BY <1>1, <1>2, CloseNext, PTL DEF Spec

----------------------------------------------------------------------------
(* A balanced book *)

\* The accounts are finitely many.
LEMMA AccountCount == Cardinality(Code) \in Nat
  BY BatchAssumption, FS_CardinalityType

\* Nothing is in a table without accounts.
LEMMA TotalEmpty ==
  ASSUME NEW e \in Accounts
  PROVE  Total(e, << >>) = 0
<1> DEFINE N == Cardinality(Code)
           f == [i \in DOMAIN e |-> IF e[i] \in DOMAIN << >> THEN (<< >>)[e[i]] ELSE 0]
<1>1. DOMAIN e = 1 .. N
  BY DEF Accounts, Bijection, Injection
<1>2. \A i \in DOMAIN e : f[i] = 0
  OBVIOUS
<1>3. N \in Nat
  BY AccountCount
<1> HIDE DEF N
<1>4. f \in [1 .. N -> Int] /\ \A i \in 1 .. N : f[i] = 0
  BY <1>1, <1>2
<1> HIDE DEF f
<1>5. SumUpTo(f, N) = 0
  BY <1>3, <1>4, SumZero
<1> QED
  BY <1>5 DEF Total, f, N

\* An entry adds its conversion to the total of all accounts, whether its account is in the
\* table or not.
LEMMA TotalAdds ==
  ASSUME NEW e \in Accounts, NEW t, \A a \in DOMAIN t : t[a] \in Int,
         NEW r, r.account \in Code, Converted(r) \in Int
  PROVE  Total(e, TotalsWith(r, t)) = Total(e, t) + Converted(r)
<1> DEFINE N == Cardinality(Code)
           v == Converted(r)
           u == TotalsWith(r, t)
           f == [i \in DOMAIN e |-> IF e[i] \in DOMAIN t THEN t[e[i]] ELSE 0]
           g == [i \in DOMAIN e |-> IF e[i] = r.account THEN v ELSE 0]
           h == [i \in DOMAIN e |-> IF e[i] \in DOMAIN u THEN u[e[i]] ELSE 0]
<1>1. /\ N \in Nat /\ v \in Int
  BY AccountCount
<1>2. /\ DOMAIN e = 1 .. N /\ \A i \in 1 .. N, j \in 1 .. N : e[i] = e[j] => i = j
      /\ \A a \in Code : \E i \in 1 .. N : e[i] = a
  BY DEF Accounts, Bijection, Injection, Surjection, IsInjective
<1>3. u = [a \in DOMAIN t \cup {r.account} |->
             IF a = r.account THEN v + IF a \in DOMAIN t THEN t[a] ELSE 0 ELSE t[a]]
  BY DEF TotalsWith
<1> HIDE DEF N, v, u
<1>4. f \in [1 .. N -> Int] /\ g \in [1 .. N -> Int]
  BY <1>1, <1>2
<1>5. \A i \in 1 .. N : h[i] = f[i] + g[i]
  <2> TAKE i \in 1 .. N
  <2>1. CASE e[i] = r.account
    BY <1>1, <1>2, <1>3, <2>1
  <2>2. CASE e[i] # r.account
    BY <1>2, <1>3, <2>2
  <2> QED
    BY <2>1, <2>2
<1>6. PICK i \in 1 .. N : e[i] = r.account
  BY <1>2
<1>7. g[i] = v /\ \A n \in 1 .. N : n # i => g[n] = 0
  BY <1>2, <1>6
<1>8. h = [n \in 1 .. N |-> h[n]] /\ \A n \in 1 .. N : f[n] \in Int /\ g[n] \in Int
  BY <1>2, <1>4
<1> HIDE DEF f, g, h
<1>9. h \in [1 .. N -> Int]
  BY <1>5, <1>8
<1>10. SumUpTo(h, N) = SumUpTo(f, N) + SumUpTo(g, N)
  BY <1>1, <1>4, <1>5, <1>9, SumAdd
<1>11. SumUpTo(g, N) = v
  BY <1>1, <1>4, <1>7, SumSingle
<1> QED
  BY <1>10, <1>11 DEF Total, f, g, h, N, u, v

\* The inductive invariant: after a whole number of pairs the totals sum to zero, after a
\* debit or credit alone to its conversion.
Balancing ==
  Paired(file) => \A e \in Accounts :
    Total(e, work.totals) = IF at % 2 = 1 THEN 0 ELSE Converted(file.recs[at - 1])

\* Conversions are integers.
LEMMA ConvertedInt ==
  ASSUME NEW f \in Files \cup {NoFile}, Accepted(f), f.prog = "settle", NEW i \in DOMAIN f.recs
  PROVE  /\ Converted(f.recs[i]) \in Int /\ f.recs[i].account \in Code
         /\ f.recs[i].sign \in {1, -1}
         /\ RoundHalfEven(f.recs[i].amount * f.recs[i].num, f.recs[i].den) \in Int
<1> DEFINE r == f.recs[i]
<1>1. r \in Entry /\ FormatSettleIn(r)
  BY RecordKind DEF Accepted, FormatIn
<1>2. r.amount \in Nat /\ r.num \in Nat /\ r.den \in Nat /\ r.den # 0 /\ r.sign \in {1, -1}
      /\ r.account \in Code
  BY <1>1 DEF Entry, FormatSettleIn
<1> HIDE DEF r
<1>3. RoundHalfEven(r.amount * r.num, r.den) \in Int
  BY <1>2, Products, RoundHalfEvenInt
<1>4. Converted(r) \in Int
  BY <1>2, <1>3 DEF Converted
<1> QED
  BY <1>2, <1>3, <1>4 DEF r

\* Odd and even positions alternate.
LEMMA Alternates ==
  ASSUME NEW n \in Int
  PROVE  n % 2 \in {0, 1} /\ (n % 2 = 1 <=> (n + 1) % 2 # 1)
  BY SMT

\* An entry that is added.
LEMMA BalancingEntry ==
  ASSUME TypeInv, Balancing, Paired(file), NEW m \in Side, SettleEntry(m), ~ Stop(m),
         UNCHANGED file
  PROVE  Balancing'
<1>1. Running(m, "settle")
  BY DEF SettleEntry
<1>2. /\ file \in Files \cup {NoFile} /\ Accepted(file) /\ file.prog = "settle"
      /\ at \in DOMAIN file.recs /\ Rec = file.recs[at] /\ at \in Nat \ {0}
      /\ DOMAIN file.recs = 1 .. Len(file.recs) /\ Len(file.recs) \in Nat
  BY <1>1, CurrentRecord, RecordKind DEF TypeInv, Position, SchedInv
<1>3. /\ At(m).work = work /\ At(m).at = at /\ file.recs[At(m).at] = Rec
      /\ At(m).lines = lines[m]
  BY <1>2 DEF At, Rec
<1>4. at' = at + 1 /\ work'.totals = TotalsWith(Rec, work.totals)
  <2>1. At(m)' = SettleTo(file, At(m))
    BY SettleAlike
  <2>2. At(m)' = AfterRecord(file, At(m), [work EXCEPT !.totals = TotalsWith(Rec, work.totals)],
                             At(m).lines)
    BY <1>3, <2>1 DEF SettleTo
  <2>3. Open(file, at + 1, [work EXCEPT !.totals = TotalsWith(Rec, work.totals)])
          = [work EXCEPT !.totals = TotalsWith(Rec, work.totals)]
    BY <1>2 DEF Open
  <2>4. at' = at + 1 /\ work' = [work EXCEPT !.totals = TotalsWith(Rec, work.totals)]
    <3>1. At(m)' = [at |-> at + 1, k |-> 0,
                    work |-> [work EXCEPT !.totals = TotalsWith(Rec, work.totals)],
                    lines |-> lines[m]]
      BY <1>3, <2>2, <2>3 DEF AfterRecord
    <3>2. At(m)' = [at |-> at', k |-> k', work |-> work', lines |-> lines'[m]]
      BY DEF At
    <3> QED
      BY <3>1, <3>2
  <2>5. DOMAIN work = {"balance", "accum", "totals"}
    BY DEF TypeInv, Position, SchedInv, Shaped
  <2> QED
    BY <2>4, <2>5
<1>5. Rec.account \in Code /\ Converted(Rec) \in Int
  BY <1>2, ConvertedInt
<1>6. ASSUME NEW e \in Accounts
      PROVE  Total(e, work'.totals) = Total(e, work.totals) + Converted(Rec)
  BY <1>4, <1>5, TotalAdds DEF TypeInv, Position, Numeric
<1>7. ASSUME NEW e \in Accounts
      PROVE  Total(e, work'.totals) = IF at' % 2 = 1 THEN 0 ELSE Converted(file.recs[at' - 1])
  <2>1. CASE at % 2 = 1
    <3>1. Total(e, work.totals) = 0
      BY <2>1 DEF Balancing
    <3>2. at' % 2 # 1 /\ at' - 1 = at
      BY <1>2, <1>4, <2>1
    <3> QED
      BY <1>2, <1>5, <1>6, <3>1, <3>2
  <2>2. CASE at % 2 # 1
    <3>1. Total(e, work.totals) = Converted(file.recs[at - 1])
      BY <2>2 DEF Balancing
    <3>2. at' % 2 = 1 /\ at - 1 \in DOMAIN file.recs /\ (at - 1) % 2 = 1 /\ (at - 1) + 1 = at
      <4>1. at - 1 \in Int /\ at \in Int /\ (at - 1) + 1 = at /\ at' = at + 1
        BY <1>2, <1>4
      <4>2. at' % 2 = 1
        <5>1. at % 2 = 1 <=> (at + 1) % 2 # 1
          BY <4>1, Alternates
        <5> QED
          BY <2>2, <4>1, <5>1
      <4>3. (at - 1) % 2 = 1
        <5>1. (at - 1) % 2 = 1 <=> ((at - 1) + 1) % 2 # 1
          BY <4>1, Alternates
        <5> QED
          BY <2>2, <4>1, <5>1
      <4>4. at # 1
        <5>1. 1 % 2 = 1
          BY SMT
        <5> QED
          BY <2>2, <5>1
      <4>5. at - 1 \in DOMAIN file.recs
        BY <1>2, <4>4
      <4> QED
        BY <4>1, <4>2, <4>3, <4>5
    <3>3. /\ file.recs[at - 1].sign = -Rec.sign
          /\ file.recs[at - 1].amount = Rec.amount
          /\ file.recs[at - 1].num = Rec.num /\ file.recs[at - 1].den = Rec.den
      BY <1>2, <3>2 DEF Paired
    <3>4. Rec.sign \in {1, -1} /\ RoundHalfEven(Rec.amount * Rec.num, Rec.den) \in Int
      BY <1>2, ConvertedInt
    <3>5. Converted(file.recs[at - 1]) + Converted(Rec) = 0
      BY <3>3, <3>4 DEF Converted
    <3> QED
      BY <1>6, <3>1, <3>2, <3>5
  <2> QED
    BY <2>1, <2>2
<1> QED
  BY <1>7 DEF Balancing

\* Every step preserves it.
LEMMA BalancingNext == TypeInv /\ Balancing /\ [Next]_vars => Balancing'
<1> SUFFICES ASSUME TypeInv, Balancing, [Next]_vars PROVE Balancing'
  OBVIOUS
<1>1. ASSUME file' = file, at' = at, work' = work PROVE Balancing'
  BY <1>1 DEF Balancing
<1>2. ASSUME at' = 1, work' = Cleared(file') PROVE Balancing'
  <2> SUFFICES ASSUME Paired(file'), NEW e \in Accounts
               PROVE  Total(e, work'.totals) = IF at' % 2 = 1 THEN 0
                                               ELSE Converted(file'.recs[at' - 1])
    BY DEF Balancing
  <2>1. work'.totals = << >>
    BY <1>2 DEF Paired, Cleared, Open
  <2> QED
    BY <1>2, <2>1, TotalEmpty
<1>3. ASSUME NEW f \in Files, Generate(f) PROVE Balancing'
  BY <1>2, <1>3 DEF Generate
<1>4. ASSUME NEW m \in Side, SideStep(m) PROVE Balancing'
  <2>1. file' = file
    BY <1>4 DEF SideStep
  <2>2. CASE ~ Paired(file)
    BY <2>1, <2>2 DEF Balancing
  <2>3. CASE Stop(m)
    BY <1>1, <2>1, <2>3 DEF Stop
  <2>4. CASE EndOfFile(m)
    BY <1>1, <2>1, <2>4 DEF EndOfFile, Stop
  <2>5. CASE Paired(file) /\ ~ Stop(m) /\ ~ EndOfFile(m)
    <3>1. Within(m) /\ file.prog = "settle"
      BY <1>4, <2>5 DEF SideStep, Within, Paired
    <3>2. SettleEntry(m)
      BY <3>1, WithinRuns
    <3> QED
      BY <2>1, <2>5, <3>2, BalancingEntry
  <2> QED
    BY <2>2, <2>3, <2>4, <2>5
<1>5. CASE WritePair \/ WriteInputOnly \/ Tear
  BY <1>1, <1>5 DEF WritePair, WriteInputOnly, Tear
<1>6. CASE RunCobol
  <2>1. file' = file
    BY <1>6 DEF RunCobol
  <2>2. \/ at' = at /\ work' = work
        \/ at' = 1 /\ work' = Cleared(file)
    BY <1>6 DEF RunCobol
  <2>3. CASE at' = at /\ work' = work
    BY <1>1, <2>1, <2>3
  <2>4. CASE at' = 1 /\ work' = Cleared(file)
    BY <1>2, <2>1, <2>4
  <2> QED
    BY <2>2, <2>3, <2>4
<1>7. CASE UNCHANGED vars
  BY <1>1, <1>7 DEF vars
<1> QED
  BY <1>3, <1>4, <1>5, <1>6, <1>7 DEF Next

\* A book that balances in its own currencies balances in KRW, on both sides, for every
\* accepted file: a debit and its credit are converted apart and to the same figure.
THEOREM BalancedBookZero == Spec => []BalancedBookTotalsZero
<1>1. Init => Balancing
  BY DEF Init, Balancing, NoFile, Paired
<1>2. TypeInv /\ Balancing => BalancedBookTotalsZero
  <2> SUFFICES ASSUME TypeInv, Balancing, Paired(file), at > Len(file.recs), NEW e \in Accounts
               PROVE  Total(e, work.totals) = 0
    BY DEF BalancedBookTotalsZero
  <2>1. Len(file.recs) \in Nat /\ at \in 1 .. Len(file.recs) + 1
    BY RecordKind DEF TypeInv, Position, SchedInv
  <2>2. Len(file.recs) % 2 = 0
    BY DEF Paired
  <2>3. at % 2 = 1
    <3> DEFINE n == Len(file.recs)
    <3>1. n \in Nat /\ at \in 1 .. n + 1 /\ at > n /\ n % 2 = 0
      BY <2>1, <2>2
    <3> HIDE DEF n
    <3>2. at = n + 1 /\ n \in Int
      BY <3>1
    <3>3. n % 2 = 1 <=> (n + 1) % 2 # 1
      BY <3>2, Alternates
    <3> QED
      BY <3>1, <3>2, <3>3
  <2> QED
    BY <2>3 DEF Balancing
<1> QED
  BY <1>1, <1>2, TypeInit, TypeNext, BalancingNext, PTL DEF Spec
=============================================================================
