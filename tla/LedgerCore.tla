------------------------------ MODULE LedgerCore ------------------------------
(***************************************************************************)
(* The ledger rules the browser applies where there is no server: validation  *)
(* of new accounts and transactions, balances and monthly totals.             *)
(*                                                                           *)
(* An account body is [code, sound]: sound says that every required field is   *)
(* there and well formed.  An entry is [account, direction, amount, currency], *)
(* a transaction body [day, entries]; day 0 is a malformed date, amount 0 a    *)
(* string that is no positive minor amount.                                   *)
(***************************************************************************)
EXTENDS Integers, Sequences, FiniteSets, SequencesExt, FiniteSums

\* Mutant: the code may be taken.
ValidateFields(existing, body) == body.sound

ValidateAccountBody(existing, body) ==
  body.sound /\ \A a \in existing : a.code # body.code

SignedAmount(e) == IF e.direction = "debit" THEN e.amount ELSE -e.amount

\* Debits less credits.
NetOf(entries) == SumUpTo([i \in DOMAIN entries |-> SignedAmount(entries[i])], Len(entries))

Currencies(entries) == {entries[i].currency : i \in DOMAIN entries}

\* Mutant: amounts of different currencies are added up.
BalancedOverall(entries) == NetOf(entries) = 0

\* The difference of one currency.
NetIn(entries, c) ==
  SumUpTo([i \in DOMAIN entries |->
             IF entries[i].currency = c THEN SignedAmount(entries[i]) ELSE 0], Len(entries))

\* Debits equal credits in every currency of the transaction.
Balanced(entries) == \A c \in Currencies(entries) : NetIn(entries, c) = 0

\* Mutant: the accounts of the entries are not looked up.
ValidAmount(ids, e) == e.amount \in Nat \ {0} /\ e.direction \in {"debit", "credit"}

ValidEntry(ids, e) ==
  e.amount \in Nat \ {0} /\ e.direction \in {"debit", "credit"} /\ e.account \in ids

\* Mutant: a transaction without entries is let through.
ValidateEntries(accounts, body) ==
  /\ body.day > 0
  /\ LET ids == {a.id : a \in accounts}
     IN \A i \in DOMAIN body.entries : ValidEntry(ids, body.entries[i])
  /\ Balanced(body.entries)

ValidateTxnBody(accounts, body) ==
  /\ Len(body.entries) >= 2
  /\ body.day > 0
  /\ LET ids == {a.id : a \in accounts}
     IN \A i \in DOMAIN body.entries : ValidEntry(ids, body.entries[i])
  /\ Balanced(body.entries)

KeyOf(e) == <<e.account, e.currency>>

\* What the entries move on one account in one currency.
NetAt(entries, key) ==
  SumUpTo([i \in DOMAIN entries |->
             IF KeyOf(entries[i]) = key THEN SignedAmount(entries[i]) ELSE 0], Len(entries))

\* Net balance per account and currency, for the pairs that occur.
ComputeBalances(txns) ==
  [key \in UNION {{KeyOf(t.entries[i]) : i \in DOMAIN t.entries} : t \in txns} |->
     SumOver([t \in txns |-> NetAt(t.entries, key)], txns)]

\* The sides of one row: what is no debit counts as a credit.
SumByDirection(entries) ==
  [d \in {"debit", "credit"} |->
     SumUpTo([i \in DOMAIN entries |->
                IF (entries[i].direction = "debit") = (d = "debit")
                THEN entries[i].amount ELSE 0], Len(entries))]

\* Debit and credit totals of some rows; every amount counts, whatever its currency.
Totals(rows) ==
  [d \in {"debit", "credit"} |-> SumOver([t \in rows |-> SumByDirection(t.entries)[d]], rows)]

\* A month has two days.
MonthOf(day) == (day + 1) \div 2

PeriodTotals(txns) ==
  [m \in {MonthOf(t.day) : t \in txns} |-> Totals({t \in txns : MonthOf(t.day) = m})]

----------------------------------------------------------------------------
(* What the page makes of the ledger *)

\* The totals row: the sides of the rows that the filter lets through.
PageTotals(filtered) == Totals(filtered)

\* The account that has a code, one of them, or none.
IdOf(rows, code) ==
  LET named == {a \in rows : a.code = code}
  IN IF named = {} THEN <<"none", code>> ELSE (CHOOSE a \in named : TRUE).id

\* A form names accounts by code; it holds the rows it has loaded.
Resolve(rows, body) ==
  [body EXCEPT !.entries = [i \in DOMAIN body.entries |->
     [body.entries[i] EXCEPT !.account = IdOf(rows, body.entries[i].account)]]]
=============================================================================
