------------------------------ MODULE Settlement ------------------------------
(***************************************************************************)
(* The closing batches and their parity check.  The generator turns records  *)
(* into a fixed-width input file, runs the JavaScript reference over it and   *)
(* stores the expected lines; the check reads the input back, runs the COBOL  *)
(* program, whose working storage has limited width, and compares the lines.  *)
(* Both sides work record by record and period by period.                     *)
(*                                                                           *)
(* Records and lines are values: padding, alignment and headings are left     *)
(* out, widths are kept as bounds.  Both sides sort by code, so balances per   *)
(* account are a function and their order is left out.  The reference is pure, *)
(* so its run for the generator also stands for its run in the check.          *)
(***************************************************************************)
EXTENDS Rounding, FiniteSums, Sequences, FiniteSets, Functions

CONSTANTS Code,        \* account codes
          Files,       \* record sequences the generator may be given
          MaxField,    \* largest value of PIC 9(15)
          MaxWork,     \* largest value of PIC S9(18)
          MaxPeriods,  \* contract limit of periods
          TableSize,   \* OCCURS limit of the settlement's account table
          MaxCount,    \* largest account count of the report
          MaxGen       \* bound: times files are generated

Entry  == [account : Code, sign : {1, -1}, amount : Nat, num : Nat, den : Nat]
Loan   == [principal : Nat, num : Nat, den : Nat, n : Nat]
Claim  == [method : {"S", "C"}, principal : Nat, num : Nat, den : Nat,
           days : Nat, basis : Nat, n : Nat]
Asset  == [method : {"L", "D"}, cost : Nat, salvage : Nat, num : Nat,
           den : Nat, n : Nat]
Detail == [account : Code, balance : Int]

Prog == {"settle", "amort", "interest", "deprec", "report"}

File == [prog : {"settle"}, recs : Seq(Entry)]
   \cup [prog : {"amort"}, recs : Seq(Loan)]
   \cup [prog : {"interest"}, recs : Seq(Claim)]
   \cup [prog : {"deprec"}, recs : Seq(Asset)]
   \cup [prog : {"report"}, recs : Seq(Detail)]

NoFile == [prog |-> "none", recs |-> << >>]

ASSUME BatchAssumption ==
  /\ Files \subseteq File /\ IsFiniteSet(Code)
  /\ MaxField \in Nat /\ MaxWork \in Nat /\ MaxField <= MaxWork
  /\ MaxPeriods \in Nat /\ TableSize \in Nat /\ MaxCount \in Nat /\ MaxGen \in Nat

VARIABLES
  file,     \* records in work, then the input file on disk
  torn,     \* lines of the input file that are damaged
  stage,    \* "idle", the side at work ("js", "cobol"), "made", "written", "judged"
  at, k,    \* record in work, periods of it done
  work,     \* working storage: balance and accum of the record, per-account totals
  lines,    \* lines printed by each side
  outcome,  \* of each side: "none", "done", "stopped"
  golden,   \* per program the stored expected lines: {} or {lines}
  verdict,  \* failures the check reports
  gens      \* generations so far

vars == <<file, torn, stage, at, k, work, lines, outcome, golden, verdict, gens>>

Side == {"js", "cobol"}
Fits(v) == v \in 0 .. MaxField
InWork(v) == v \in -MaxWork .. MaxWork

----------------------------------------------------------------------------
(* Records the generator accepts *)

\* One width stands for the widths of all numeric fields.
FormatSettleIn(e) == Fits(e.amount) /\ Fits(e.num) /\ Fits(e.den) /\ e.den # 0

\* (den + num)^n and den^n are exact; the quotient is rounded once.
LevelPayment(principal, num, den, n) ==
  IF num = 0 THEN RoundHalfEven(principal, n)
  ELSE LET base == (den + num) ^ n
       IN RoundHalfEven(principal * num * base, den * (base - den ^ n))

Payment(loan) == LevelPayment(loan.principal, loan.num, loan.den, loan.n)

FormatAmortIn(a) ==
  /\ Fits(a.principal) /\ Fits(a.num) /\ Fits(a.den) /\ a.den # 0
  /\ a.n \in 1 .. MaxPeriods
  /\ Fits(Payment(a))

FormatInterestIn(r) ==
  /\ Fits(r.principal) /\ Fits(r.num) /\ Fits(r.den) /\ r.den # 0
  /\ Fits(r.days) /\ Fits(r.basis) /\ Fits(r.n)
  /\ r.method = "S" => r.basis # 0

FormatDeprecIn(r) ==
  /\ Fits(r.cost) /\ Fits(r.salvage) /\ r.salvage <= r.cost
  /\ Fits(r.num) /\ Fits(r.den)
  /\ r.method = "D" => r.den # 0
  /\ r.n \in 1 .. MaxPeriods

FormatReportDetailIn(d) == InWork(d.balance)

FormatIn(prog, r) ==
  \/ prog = "settle" /\ FormatSettleIn(r)
  \/ prog = "amort" /\ FormatAmortIn(r)
  \/ prog = "interest" /\ FormatInterestIn(r)
  \/ prog = "deprec" /\ FormatDeprecIn(r)
  \/ prog = "report" /\ FormatReportDetailIn(r)

(* Lines read back: another length, or a number that is not all digits, is      *)
(* refused; the values of an intact line are the ones that were formatted.      *)

\* A field of a damaged line is no number.
SliceDigits(i) == i \notin torn

ParseSettleIn(i) == SliceDigits(i)

ParseAmortIn(i) == SliceDigits(i)

(* Lines printed: the widths of their fields *)

FormatSettleOut(total) == InWork(total)

\* Payment, interest, principal, balance.
FormatAmortOut(row) == \A i \in 1 .. 4 : Fits(row[i])

\* Interest, balance.
FormatInterestOut(row) == Fits(row[1]) /\ Fits(row[2])

\* Depreciation, accumulated, book value.
FormatDeprecOut(row) == \A i \in 1 .. 3 : Fits(row[i])

EditCount(n) == n <= MaxCount

\* The width of the net total is checked after the details.
FormatReport(count, total) == InWork(total) /\ EditCount(count)

\* MOVE of a working-storage value to a PIC 9(15) field keeps the low digits.
MoveRow(row) == [i \in DOMAIN row |-> row[i] % (MaxField + 1)]

Printed(m, row) == IF m = "js" THEN row ELSE MoveRow(row)

\* Each side divides with its own rounding.
Rounded(m, num, den) ==
  IF m = "js" THEN RoundHalfEven(num, den) ELSE NearestEven(num, den)

----------------------------------------------------------------------------
(* One side at work *)

Rec == file.recs[at]

Running(m, prog) == stage = m /\ file.prog = prog /\ at <= Len(file.recs)

\* Mutant: the accumulated depreciation of the record before is kept.
OpenKeepingAccum(f, i, w) ==
  IF i > Len(f.recs) \/ f.prog \in {"settle", "report"} THEN w
  ELSE [w EXCEPT !.balance = IF f.prog = "deprec" THEN f.recs[i].cost
                             ELSE f.recs[i].principal]

\* Working storage when record i of f is opened; totals live on.
Open(f, i, w) ==
  IF i > Len(f.recs) \/ f.prog \in {"settle", "report"} THEN w
  ELSE [w EXCEPT !.balance = IF f.prog = "deprec" THEN f.recs[i].cost
                             ELSE f.recs[i].principal,
                 !.accum = 0]

Cleared(f) == Open(f, 1, [balance |-> 0, accum |-> 0, totals |-> << >>])

\* An exception of the reference ends the generator before it writes; ERROR
\* STATUS 8 of the program ends the check.
Stop(m) ==
  /\ outcome' = [outcome EXCEPT ![m] = "stopped"]
  /\ stage' = IF m = "js" THEN "idle" ELSE "judged"
  /\ verdict' = IF m = "js" THEN verdict ELSE {"crash"}
  /\ UNCHANGED <<at, k, work, lines>>

Emit(m, row) ==
  lines' = [lines EXCEPT ![m] = Append(@, [of |-> at, row |-> Printed(m, row)])]

\* Mutant: the loop reads the next record before it is done with this one.
SkipRecord(w) == at' = at + 2 /\ k' = 0 /\ work' = w

NextRecord(w) == at' = at + 1 /\ k' = 0 /\ work' = Open(file, at + 1, w)

\* Mutant: the loop ends before its last period.
ShortPeriods(w) ==
  IF k + 2 < Rec.n THEN k' = k + 1 /\ work' = w /\ UNCHANGED at ELSE NextRecord(w)

NextPeriod(w) ==
  IF k + 1 < Rec.n THEN k' = k + 1 /\ work' = w /\ UNCHANGED at ELSE NextRecord(w)

Goes == UNCHANGED <<stage, outcome, verdict>>

(* Settlement: balance per account in KRW *)

\* Mutant: the signed amount is divided, and rounded down.
SignedFloor(m, e) == (e.sign * e.amount * e.num) \div e.den

\* convertToKrw of the amount, which carries no sign; a credit is negated after.
Signed(m, e) == e.sign * Rounded(m, e.amount * e.num, e.den)

Known(e) == e.account \in DOMAIN work.totals

Added(m, e) == Signed(m, e) + IF Known(e) THEN work.totals[e.account] ELSE 0

\* ON SIZE ERROR of the conversion and of the sum, and the table limit.
SettleOverflows(e) ==
  \/ ~ InWork(Signed("cobol", e)) \/ ~ InWork(Added("cobol", e))
  \/ ~ Known(e) /\ Cardinality(DOMAIN work.totals) >= TableSize

SettleEntry(m) ==
  /\ Running(m, "settle")
  /\ IF m = "cobol" /\ SettleOverflows(Rec) THEN Stop(m)
     ELSE /\ NextRecord([work EXCEPT !.totals =
                 [a \in DOMAIN @ \cup {Rec.account} |->
                    IF a = Rec.account THEN Added(m, Rec) ELSE @[a]]])
          /\ UNCHANGED lines
          /\ Goes

(* Amortisation *)

Clamp(v, most) == IF v < 0 THEN 0 ELSE IF v > most THEN most ELSE v

\* ON SIZE ERROR of the interest and of the payment.
AmortOverflows(row) == row[2] > MaxWork \/ row[1] > MaxWork

\* The last period takes what is left.
AmortPeriod(m) ==
  /\ Running(m, "amort")
  /\ LET interest == Rounded(m, work.balance * Rec.num, Rec.den)
         princ == IF k + 1 = Rec.n THEN work.balance
                  ELSE Clamp(Payment(Rec) - interest, work.balance)
         row == <<princ + interest, interest, princ, work.balance - princ>>
     IN IF \/ m = "js" /\ ~ FormatAmortOut(row)
           \/ m = "cobol" /\ AmortOverflows(row)
        THEN Stop(m)
        ELSE /\ Emit(m, row)
             /\ NextPeriod([work EXCEPT !.balance = @ - princ])
             /\ Goes

(* Depreciation *)

\* Straight line, or the declining balance of this period.
Deprec(m) ==
  IF Rec.method = "L" THEN Rounded(m, Rec.cost - Rec.salvage, Rec.n)
  ELSE Rounded(m, work.balance * Rec.num, Rec.den)

\* What may still be written off: the reference takes it from the accumulated
\* depreciation when the method is straight line, COBOL always from the book value.
Room(m) ==
  IF m = "js" /\ Rec.method = "L" THEN Rec.cost - Rec.salvage - work.accum
  ELSE work.balance - Rec.salvage

DeprecPeriod(m) ==
  /\ Running(m, "deprec")
  /\ LET last == k + 1 = Rec.n
         dep == IF last THEN work.balance - Rec.salvage ELSE Clamp(Deprec(m), Room(m))
         row == <<dep, work.accum + dep, work.balance - dep>>
     IN IF \/ m = "js" /\ ~ FormatDeprecOut(row)
           \/ m = "cobol" /\ ~ last /\ ~ InWork(Deprec(m))
        THEN Stop(m)
        ELSE /\ Emit(m, row)
             /\ NextPeriod([balance |-> work.balance - dep, accum |-> work.accum + dep,
                            totals |-> work.totals])
             /\ Goes

(* Interest *)

\* One rounding over the whole span of days.
SimpleInterest(m) ==
  /\ Running(m, "interest") /\ Rec.method = "S" /\ k = 0
  /\ k' = 1
  /\ work' = [work EXCEPT !.balance =
                @ + Rounded(m, @ * Rec.num * Rec.days, Rec.den * Rec.basis)]
  /\ UNCHANGED <<at, lines>>
  /\ Goes

\* One rounding per period.
CompoundInterest(m) ==
  /\ Running(m, "interest") /\ Rec.method = "C" /\ k < Rec.n
  /\ LET interest == Rounded(m, work.balance * Rec.num, Rec.den)
     IN IF m = "cobol" /\ ~ (InWork(interest) /\ InWork(work.balance + interest))
        THEN Stop(m)
        ELSE /\ k' = k + 1
             /\ work' = [work EXCEPT !.balance = @ + interest]
             /\ UNCHANGED <<at, lines>>
             /\ Goes

\* Both sides refuse a result that is wider than its field.
InterestRecord(m) ==
  /\ Running(m, "interest")
  /\ k = IF Rec.method = "S" THEN 1 ELSE Rec.n
  /\ LET row == <<work.balance - Rec.principal, work.balance>>
     IN IF ~ FormatInterestOut(row) THEN Stop(m)
        ELSE Emit(m, row) /\ NextRecord(work) /\ Goes

(* Report *)

ReportDetail(m) ==
  /\ Running(m, "report")
  /\ IF m = "cobol" /\ at > MaxCount THEN Stop(m)
     ELSE /\ NextRecord([work EXCEPT !.accum = @ + Rec.balance])
          /\ UNCHANGED lines
          /\ Goes

----------------------------------------------------------------------------
(* End of the records *)

TailFits ==
  /\ file.prog = "settle" => \A a \in DOMAIN work.totals : FormatSettleOut(work.totals[a])
  /\ file.prog = "report" => FormatReport(Len(file.recs), work.accum)

\* The lines a side ends up with: balances and totals come after the last record.
AllLines(m) ==
  IF file.prog = "settle" THEN Append(lines[m], work.totals)
  ELSE IF file.prog = "report" THEN Append(lines[m], <<Len(file.recs), work.accum>>)
  ELSE lines[m]

\* The lines differ at some position, or one side has more of them.
DiffLines(expected, actual) == expected # actual

\* Mutant: a missing or an outdated file of expected lines is not looked at.
NeverStale(ref) == FALSE

\* The settlement may lack its stored lines; the other programs may not.
Stale(ref) ==
  IF golden[file.prog] = {} THEN file.prog # "settle"
  ELSE \E g \in golden[file.prog] : DiffLines(ref, g)

ParseAmortOut(line) == [loan_id |-> line.of, balance |-> line.row[4]]

\* The last line of a loan leaves a balance.
LoanOpen(actual) ==
  file.prog = "amort" /\
  \E i \in DOMAIN actual :
    /\ ParseAmortOut(actual[i]).balance # 0
    /\ \A j \in DOMAIN actual :
         j > i => ParseAmortOut(actual[j]).loan_id # ParseAmortOut(actual[i]).loan_id

Verdict(ref, actual) ==
  {v \in {"differs", "stale", "open"} :
     \/ v = "differs" /\ DiffLines(ref, actual)
     \/ v = "stale" /\ Stale(ref)
     \/ v = "open" /\ LoanOpen(actual)}

EndOfFile(m) ==
  /\ stage = m /\ at > Len(file.recs)
  /\ IF ~ TailFits THEN Stop(m)
     ELSE /\ lines' = [lines EXCEPT ![m] = AllLines(m)]
          /\ outcome' = [outcome EXCEPT ![m] = "done"]
          /\ stage' = IF m = "js" THEN "made" ELSE "judged"
          /\ verdict' = IF m = "js" THEN verdict ELSE Verdict(lines["js"], AllLines(m))
          /\ UNCHANGED <<at, k, work>>

SideStep(m) ==
  /\ \/ SettleEntry(m) \/ AmortPeriod(m) \/ DeprecPeriod(m)
     \/ SimpleInterest(m) \/ CompoundInterest(m) \/ InterestRecord(m)
     \/ ReportDetail(m) \/ EndOfFile(m)
  /\ UNCHANGED <<file, torn, golden, gens>>

----------------------------------------------------------------------------
(* The generator and the check *)

\* Records are formatted, and the reference starts on them; a record that is
\* refused ends the generator before anything is written.
Generate(f) ==
  /\ stage \in {"idle", "judged"} /\ gens < MaxGen
  /\ \A i \in DOMAIN f.recs : FormatIn(f.prog, f.recs[i])
  /\ file' = f /\ torn' = {}
  /\ stage' = "js" /\ at' = 1 /\ k' = 0 /\ work' = Cleared(f)
  /\ lines' = [m \in Side |-> << >>]
  /\ outcome' = [m \in Side |-> "none"]
  /\ verdict' = {}
  /\ gens' = gens + 1
  /\ UNCHANGED golden

\* The input file, then the expected lines.
WritePair ==
  /\ stage = "made"
  /\ stage' = "written"
  /\ golden' = [golden EXCEPT ![file.prog] = {lines["js"]}]
  /\ UNCHANGED <<file, torn, at, k, work, lines, outcome, verdict, gens>>

\* The generator dies between the two.
WriteInputOnly ==
  /\ stage = "made"
  /\ stage' = "written"
  /\ UNCHANGED <<file, torn, at, k, work, lines, outcome, golden, verdict, gens>>

\* A line of a reviewed input file is damaged by hand.  The check reads only the
\* files of these two programs back.
Tear ==
  /\ stage = "written" /\ file.prog \in {"settle", "amort"}
  /\ \E i \in DOMAIN file.recs \ torn : torn' = torn \cup {i}
  /\ UNCHANGED <<file, stage, at, k, work, lines, outcome, golden, verdict, gens>>

Readable(i) ==
  \/ file.prog = "settle" /\ ParseSettleIn(i)
  \/ file.prog = "amort" /\ ParseAmortIn(i)
  \/ file.prog \notin {"settle", "amort"}

\* The whole input is read before the program is started.
RunCobol ==
  /\ stage = "written"
  /\ IF \A i \in DOMAIN file.recs : Readable(i)
     THEN /\ stage' = "cobol" /\ at' = 1 /\ k' = 0 /\ work' = Cleared(file)
          /\ UNCHANGED verdict
     ELSE /\ stage' = "judged" /\ verdict' = {"crash"}
          /\ UNCHANGED <<at, k, work>>
  /\ UNCHANGED <<file, torn, lines, outcome, golden, gens>>

Init ==
  /\ file = NoFile /\ torn = {}
  /\ stage = "idle" /\ at = 1 /\ k = 0
  /\ work = [balance |-> 0, accum |-> 0, totals |-> << >>]
  /\ lines = [m \in Side |-> << >>]
  /\ outcome = [m \in Side |-> "none"]
  /\ golden = [p \in Prog |-> {}]
  /\ verdict = {}
  /\ gens = 0

Next ==
  \/ \E f \in Files : Generate(f)
  \/ \E m \in Side : SideStep(m)
  \/ WritePair \/ WriteInputOnly \/ Tear \/ RunCobol

Spec == Init /\ [][Next]_vars

----------------------------------------------------------------------------
(* Properties *)

\* Working storage and positions stay in their ranges while the batches run.
TypeOK ==
  /\ file \in Files \cup {NoFile}
  /\ torn \subseteq DOMAIN file.recs
  /\ stage \in {"idle", "js", "made", "written", "cobol", "judged"}
  /\ at \in 1 .. Len(file.recs) + 1
  /\ k \in Nat
  /\ work.balance \in Int /\ work.accum \in Int
  /\ DOMAIN work.totals \subseteq Code /\ \A a \in DOMAIN work.totals : work.totals[a] \in Int
  /\ outcome \in [Side -> {"none", "done", "stopped"}]
  /\ verdict \subseteq {"differs", "stale", "open", "crash"}
  /\ gens \in 0 .. MaxGen

\* INV-7: when both sides come to the end of a file, they have printed the same
\* lines, although they round, clamp and overflow in their own ways.
ParityHolds ==
  outcome["js"] = "done" /\ outcome["cobol"] = "done" => lines["js"] = lines["cobol"]

\* A schedule never leaves its bounds on either side: a loan is paid down between
\* zero and its principal, an asset written off between its salvage value and
\* its cost, and depreciation accumulated and book value add up to the cost.
ScheduleStaysIn ==
  stage \in Side /\ at <= Len(file.recs) =>
    /\ file.prog = "amort" => work.balance \in 0 .. Rec.principal
    /\ file.prog = "deprec" =>
         /\ work.balance \in Rec.salvage .. Rec.cost
         /\ work.accum + work.balance = Rec.cost

\* A column of the lines printed of record i, added up.
Column(out, i, c) ==
  SumUpTo([j \in DOMAIN out |-> IF out[j].of = i THEN out[j].row[c] ELSE 0], Len(out))

LastOf(out, i, j) == out[j].of = i /\ \A h \in DOMAIN out : h > j => out[h].of # i

Closes(out, i, c, sum, l, rest) ==
  /\ Column(out, i, c) = sum
  /\ \E j \in DOMAIN out : LastOf(out, i, j) /\ out[j].row[l] = rest

\* What a side prints of a finished record closes it: the principal parts of a loan
\* add up to its principal and the last line leaves nothing, the depreciation
\* of an asset adds up to cost less salvage and the last book value is the salvage.
SchedulesClose ==
  \A m \in Side : outcome[m] = "done" =>
    \A i \in DOMAIN file.recs :
      LET r == file.recs[i]
      IN /\ file.prog = "amort" => Closes(lines[m], i, 3, r.principal, 4, 0)
         /\ file.prog = "deprec" => Closes(lines[m], i, 1, r.cost - r.salvage, 3, r.salvage)

\* A file of pairs: a debit and its credit, of one amount at one rate.
Paired(f) ==
  /\ f.prog = "settle" /\ Len(f.recs) % 2 = 0
  /\ \A i \in DOMAIN f.recs : i % 2 = 1 =>
       /\ f.recs[i].sign = -f.recs[i + 1].sign
       /\ f.recs[i].amount = f.recs[i + 1].amount
       /\ f.recs[i].num = f.recs[i + 1].num /\ f.recs[i].den = f.recs[i + 1].den

Accounts == Bijection(1 .. Cardinality(Code), Code)

Total(e, totals) ==
  SumUpTo([i \in DOMAIN e |-> IF e[i] \in DOMAIN totals THEN totals[e[i]] ELSE 0],
          Cardinality(Code))

\* A book of transactions that balance in their own currency balances in KRW: each
\* debit and its credit are converted apart, yet the totals sum to zero, in
\* whichever order the accounts are added up.
BalancedBookTotalsZero ==
  Paired(file) /\ at > Len(file.recs) => \A e \in Accounts : Total(e, work.totals) = 0

\* A check that reports no failure has compared what is stored: the lines on disk,
\* when there are any, are the lines the program prints of the file on disk,
\* whatever an earlier generator or a damaged line left there.
PassIsSound ==
  stage = "judged" /\ verdict = {} =>
    /\ torn = {}
    /\ golden[file.prog] \subseteq {lines["cobol"]}
    /\ file.prog # "settle" => golden[file.prog] # {}

\* The balance of an account with the one entry 2q+1 at the rate 1/2.
HalfRow(m, sign, q) == Rounded(m, sign * (2 * q + 1), 2)

\* On the half boundary both sides and the closed form agree, for either sign.
HalfBoundary ==
  stage = "idle" =>
    \A q \in 0 .. MaxField : \A s \in {1, -1} : \A m \in Side :
      HalfRow(m, s, q) = s * HalfToEven(q)
=============================================================================
