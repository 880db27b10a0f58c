------------------------------ MODULE LedgerDB ------------------------------
(***************************************************************************)
(* The double-entry tables of the ledger database and the triggers that     *)
(* guard them, under concurrent READ COMMITTED transactions.                 *)
(*                                                                           *)
(* A session runs one transaction at a time.  What it has written and not    *)
(* committed is kept apart from the committed tables, as an overlay that     *)
(* only the session itself sees; the row a session wrote is locked by it     *)
(* until the transaction ends, so the domains of the overlays ARE the        *)
(* exclusive row locks.  `share' holds the weaker FOR SHARE locks the entry  *)
(* triggers take on the parent transaction row.                              *)
(*                                                                           *)
(* A statement, with every trigger it fires, is one action, enabled when     *)
(* each row lock it needs can be had.  This loses no outcome: everything a   *)
(* trigger reads is read under a lock held until the transaction ends, so    *)
(* the statement could as well have happened at its last lock acquisition.   *)
(* A statement that raises, a deadlock victim, a client that gives up and a  *)
(* lost connection all end in the same ROLLBACK, which is always enabled.    *)
(***************************************************************************)
EXTENDS Integers, FiniteSets, FiniteSums

CONSTANTS Session,      \* database connections
          Txn,          \* keys of table txn
          Account,      \* keys of table account (held fixed here)
          CurrencyOf,   \* the currency column of an account
          MaxEntry,     \* entry ids are 1..MaxEntry
          Amount,       \* signed entry amounts: debit > 0, credit < 0
          MaxBalance,   \* the CHECK bound on account_balance.balance_minor
          MaxWrites,    \* bound: rows of entry and txn one transaction writes
          NewStatus,    \* bound: the statuses statements write
          NoEntry       \* the absent row of table entry

ASSUME LedgerAssumption ==
  /\ MaxEntry \in Nat
  /\ Amount \subseteq Int \ {0}
  /\ MaxBalance \in Nat
  /\ MaxWrites \in Nat
  /\ CurrencyOf = [a \in Account |-> CurrencyOf[a]]

EntryId  == 1..MaxEntry
EntryRow == [txn : Txn, account : Account, amount : Amount]

\* Enum txn_status, in its order, and "none" for a row that does not exist.
Status     == {"draft", "classified", "posted", "settled"}
InLedger   == {"posted", "settled"}
RowStatus  == Status \cup {"none"}

ASSUME StatusAssumption == NewStatus \subseteq Status

ASSUME NoEntryAssumption == NoEntry \notin EntryRow

VARIABLES
  status,    \* committed txn table: key -> status or "none"
  entry,     \* committed entry table: id -> row or NoEntry
  balance,   \* committed account_balance: account -> balance_minor (0: no row)
  phase,     \* per session: "open", or "committing" once the deferred checks ran
  txnW,      \* per session: uncommitted txn rows (and FOR UPDATE locks)
  entryW,    \* per session: uncommitted entry rows
  balW,      \* per session: uncommitted account_balance rows
  share      \* per session: txn rows locked FOR SHARE

vars == <<status, entry, balance, phase, txnW, entryW, balW, share>>

----------------------------------------------------------------------------
(* Views and locks *)

Empty == [x \in {} |-> 0]

\* A table as one session sees it: its own writes over the committed rows.
Overlay(w, table) == [x \in DOMAIN table |-> IF x \in DOMAIN w THEN w[x] ELSE table[x]]

Put(w, x, v) == [y \in DOMAIN w \cup {x} |-> IF y = x THEN v ELSE w[y]]

StatusSeen(s)  == Overlay(txnW[s], status)
EntrySeen(s)   == Overlay(entryW[s], entry)
BalanceSeen(s) == Overlay(balW[s], balance)

\* FOR UPDATE / FOR NO KEY UPDATE: nobody else wrote or share-locked the row.
CanLockTxn(s, t) == \A r \in Session \ {s} : t \notin DOMAIN txnW[r] \cup share[r]

\* Mutant: a plain SELECT, so an uncommitted status change does not delay it.
CanShareTxnUnlocked(s, t) == \A r \in Session \ {s} :
  t \in DOMAIN txnW[r] => txnW[r][t] # "none"

\* FOR SHARE: nobody else wrote the row; other FOR SHARE locks do not matter.
CanShareTxn(s, t) == \A r \in Session \ {s} : t \notin DOMAIN txnW[r]

CanLockEntry(s, e) == \A r \in Session \ {s} : e \notin DOMAIN entryW[r]

CanLockBalances(s, A) == \A r \in Session \ {s} : A \cap DOMAIN balW[r] = {}

Writes(s) == Cardinality(DOMAIN txnW[s]) + Cardinality(DOMAIN entryW[s])

----------------------------------------------------------------------------
(* Sums over the entry table *)

\* A sum over all entry ids.
Total(f) == SumUpTo(f, MaxEntry)

OfTxn(en, t) == {e \in EntryId : en[e] # NoEntry /\ en[e].txn = t}

\* What the entries of one transaction row add to one account.
TxnSum(en, t, a) ==
  Total([e \in EntryId |-> IF e \in OfTxn(en, t) /\ en[e].account = a
                           THEN en[e].amount ELSE 0])

\* What an entry row adds to an account when its parent is in the ledger.
Contribution(st, en, e, a) ==
  IF en[e] = NoEntry THEN 0
  ELSE IF en[e].account = a /\ st[en[e].txn] \in InLedger THEN en[e].amount ELSE 0

PostedSum(st, en, a) == Total([e \in EntryId |-> Contribution(st, en, e, a)])

\* Debits equal credits in every currency of transaction row t.
Balanced(en, t) ==
  \A c \in {CurrencyOf[a] : a \in Account} :
    Total([e \in EntryId |-> IF e \in OfTxn(en, t) /\ CurrencyOf[en[e].account] = c
                             THEN en[e].amount ELSE 0]) = 0

----------------------------------------------------------------------------
(* Balance maintenance and deferred check *)

\* Mutant: account_balance without its CHECK.
ApplyBalanceUnchecked(s, A, delta) ==
  /\ CanLockBalances(s, A)
  /\ balW' = [balW EXCEPT ![s] =
                [a \in DOMAIN balW[s] \cup A |->
                   IF a \in A THEN BalanceSeen(s)[a] + delta[a] ELSE balW[s][a]]]

\* fn_bal_apply / fn_bal_apply_txn: an upsert adding delta[a] to the rows of A.
\* A row already locked by another session makes it wait; the CHECK on
\* balance_minor makes it raise.
ApplyBalance(s, A, delta) ==
  /\ CanLockBalances(s, A)
  /\ \A a \in A : BalanceSeen(s)[a] + delta[a] \in -MaxBalance..MaxBalance
  /\ balW' = [balW EXCEPT ![s] =
                [a \in DOMAIN balW[s] \cup A |->
                   IF a \in A THEN BalanceSeen(s)[a] + delta[a] ELSE balW[s][a]]]

\* Mutant: no constraint trigger on table entry.
CheckQueueTxnOnly(s) == DOMAIN txnW[s]

\* Rows whose change queued a deferred INV-1 check: written txn rows, and the
\* parents of written entries, which their triggers share-locked.
CheckQueue(s) == DOMAIN txnW[s] \cup share[s]

\* fn_inv1_check on the state the session sees.
Inv1Check(s, t) ==
  StatusSeen(s)[t] \in InLedger =>
    /\ OfTxn(EntrySeen(s), t) # {}
    /\ Balanced(EntrySeen(s), t)

----------------------------------------------------------------------------
Init ==
  /\ status = [t \in Txn |-> "none"]
  /\ entry = [e \in EntryId |-> NoEntry]
  /\ balance = [a \in Account |-> 0]
  /\ phase = [s \in Session |-> "open"]
  /\ txnW = [s \in Session |-> Empty]
  /\ entryW = [s \in Session |-> Empty]
  /\ balW = [s \in Session |-> Empty]
  /\ share = [s \in Session |-> {}]

Running(s) == phase[s] = "open" /\ Writes(s) < MaxWrites

\* INSERT INTO txn with a fresh key.  fn_bal_txn leaves balances to the entries.
InsertTxn(s, t, st) ==
  /\ Running(s)
  /\ status[t] = "none"
  /\ \A r \in Session : t \notin DOMAIN txnW[r] \cup share[r]
  /\ txnW' = [txnW EXCEPT ![s] = Put(@, t, st)]
  /\ UNCHANGED <<status, entry, balance, phase, entryW, balW, share>>

\* UPDATE txn SET status.  A settled row is refused (JL003); a step across the
\* posted boundary moves the sums of the row's entries into or out of balances.
UpdateStatus(s, t, st) ==
  LET seen  == StatusSeen(s)[t]
      en    == EntrySeen(s)
      sign  == IF st \in InLedger THEN 1 ELSE -1
  IN /\ Running(s)
     /\ CanLockTxn(s, t)
     /\ seen \notin {"none", "settled"}
     /\ txnW' = [txnW EXCEPT ![s] = Put(@, t, st)]
     /\ IF (seen \in InLedger) # (st \in InLedger)
        THEN ApplyBalance(s, {en[e].account : e \in OfTxn(en, t)},
                          [a \in Account |-> sign * TxnSum(en, t, a)])
        ELSE UNCHANGED balW
     /\ UNCHANGED <<status, entry, balance, phase, entryW, share>>

\* DELETE FROM txn.  Balances are reverted before the cascade removes the
\* entries, whose own triggers then find no parent and add nothing.
DeleteTxn(s, t) ==
  LET seen == StatusSeen(s)[t]
      en   == EntrySeen(s)
      gone == OfTxn(en, t)
  IN /\ Running(s)
     /\ CanLockTxn(s, t)
     /\ seen \notin {"none", "settled"}
     /\ \A e \in gone : CanLockEntry(s, e)
     /\ IF seen \in InLedger
        THEN ApplyBalance(s, {en[e].account : e \in gone},
                          [a \in Account |-> -TxnSum(en, t, a)])
        ELSE UNCHANGED balW
     /\ txnW' = [txnW EXCEPT ![s] = Put(@, t, "none")]
     /\ entryW' = [entryW EXCEPT ![s] =
                     [e \in DOMAIN entryW[s] \cup gone |->
                        IF e \in gone THEN NoEntry ELSE entryW[s][e]]]
     /\ UNCHANGED <<status, entry, balance, phase, share>>

\* Mutant: the entry trigger locks the parent but forgets the settled test.
LockParentsAnyStatus(s, T) ==
  /\ \A t \in T : CanShareTxn(s, t)
  /\ share' = [share EXCEPT ![s] = @ \cup T]

\* Parents an entry trigger must find, not settled, and share-lock.
LockParents(s, T) ==
  /\ \A t \in T : CanShareTxn(s, t) /\ StatusSeen(s)[t] # "settled"
  /\ share' = [share EXCEPT ![s] = @ \cup T]

\* What an old and a new version of an entry row do to the balances.
Moves(s, rows, a) ==
  LET part(sign, row) ==
        IF row.account = a /\ StatusSeen(s)[row.txn] \in InLedger
        THEN sign * row.amount ELSE 0
  IN  (IF rows.old = NoEntry THEN 0 ELSE part(-1, rows.old))
    + (IF rows.new = NoEntry THEN 0 ELSE part(1, rows.new))

MovedAccounts(s, rows) ==
  {row.account : row \in {r \in {rows.old, rows.new} \ {NoEntry} :
                            StatusSeen(s)[r.txn] \in InLedger}}

\* The part common to INSERT, UPDATE and DELETE on entry.
ChangeEntry(s, e, rows) ==
  /\ Running(s)
  /\ CanLockEntry(s, e)
  /\ LockParents(s, {row.txn : row \in {rows.old, rows.new} \ {NoEntry}})
  /\ ApplyBalance(s, MovedAccounts(s, rows),
                  [a \in Account |-> Moves(s, rows, a)])
  /\ entryW' = [entryW EXCEPT ![s] = Put(@, e, rows.new)]
  /\ UNCHANGED <<status, entry, balance, phase, txnW>>

\* An id nobody uses: entry_id_seq hands out the next one.
FreeEntry == {e \in EntryId : /\ entry[e] = NoEntry
                              /\ \A r \in Session : e \notin DOMAIN entryW[r]}

InsertEntry(s, row) ==
  /\ StatusSeen(s)[row.txn] # "none"
  /\ \E e \in FreeEntry :
       /\ \A f \in FreeEntry : e <= f
       /\ ChangeEntry(s, e, [old |-> NoEntry, new |-> row])

UpdateEntry(s, e, row) ==
  /\ EntrySeen(s)[e] # NoEntry
  /\ StatusSeen(s)[row.txn] # "none"
  /\ ChangeEntry(s, e, [old |-> EntrySeen(s)[e], new |-> row])

DeleteEntry(s, e) ==
  /\ EntrySeen(s)[e] # NoEntry
  /\ ChangeEntry(s, e, [old |-> EntrySeen(s)[e], new |-> NoEntry])

\* COMMIT, first half: the deferred constraint triggers run, each on a fresh
\* snapshot; the transaction is not yet visible to anyone.
RunDeferred(s) ==
  /\ phase[s] = "open"
  /\ Writes(s) > 0
  /\ \A t \in CheckQueue(s) : Inv1Check(s, t)
  /\ phase' = [phase EXCEPT ![s] = "committing"]
  /\ UNCHANGED <<status, entry, balance, txnW, entryW, balW, share>>

\* The transaction ends: nothing private is left and every lock is released.
EndTransaction(s) ==
  /\ phase' = [phase EXCEPT ![s] = "open"]
  /\ txnW' = [txnW EXCEPT ![s] = Empty]
  /\ entryW' = [entryW EXCEPT ![s] = Empty]
  /\ balW' = [balW EXCEPT ![s] = Empty]
  /\ share' = [share EXCEPT ![s] = {}]

\* COMMIT, second half: the writes become visible and the locks are released.
Commit(s) ==
  /\ phase[s] = "committing"
  /\ status' = StatusSeen(s)
  /\ entry' = EntrySeen(s)
  /\ balance' = BalanceSeen(s)
  /\ EndTransaction(s)

\* ROLLBACK: an error, a deadlock victim, a client that gives up, a crash.
Rollback(s) ==
  /\ Writes(s) > 0
  /\ EndTransaction(s)
  /\ UNCHANGED <<status, entry, balance>>

Step(s) ==
  \/ \E t \in Txn, st \in NewStatus : InsertTxn(s, t, st)
  \/ \E t \in Txn, st \in NewStatus : UpdateStatus(s, t, st)
  \/ \E t \in Txn : DeleteTxn(s, t)
  \/ \E row \in EntryRow : InsertEntry(s, row)
  \/ \E e \in EntryId, row \in EntryRow : UpdateEntry(s, e, row)
  \/ \E e \in EntryId : DeleteEntry(s, e)
  \/ RunDeferred(s)
  \/ Commit(s)
  \/ Rollback(s)

Next == \E s \in Session : Step(s)

Spec == Init /\ [][Next]_vars

----------------------------------------------------------------------------
(* Properties *)

IsPartial(w, D, R) == DOMAIN w \subseteq D /\ w \in [DOMAIN w -> R]

\* Every table and overlay holds rows of its schema, and no balance leaves the
\* range its CHECK constraint allows.
TypeOK ==
  /\ status \in [Txn -> RowStatus]
  /\ entry \in [EntryId -> EntryRow \cup {NoEntry}]
  /\ balance \in [Account -> -MaxBalance..MaxBalance]
  /\ phase \in [Session -> {"open", "committing"}]
  /\ share \in [Session -> SUBSET Txn]
  /\ DOMAIN txnW = Session /\ DOMAIN entryW = Session /\ DOMAIN balW = Session
  /\ \A s \in Session :
       /\ IsPartial(txnW[s], Txn, RowStatus)
       /\ IsPartial(entryW[s], EntryId, EntryRow \cup {NoEntry})
       /\ IsPartial(balW[s], Account, -MaxBalance..MaxBalance)

\* The incrementally kept account_balance equals, in every committed state, the
\* sum of all committed entries of posted and settled transactions: no
\* interleaving of status changes, entry changes and deletes loses or doubles
\* an entry (db/tests compares the two after sequential scripts only).
BalanceIsPostedSum == \A a \in Account : balance[a] = PostedSum(status, entry, a)

\* INV-1: a committed posted or settled transaction balances per currency, also
\* when several sessions changed its entries at once.
PostedIsBalanced == \A t \in Txn : status[t] \in InLedger => Balanced(entry, t)

\* The other half of the INV-1 check: such a transaction has an entry at all.
PostedHasEntries == \A t \in Txn : status[t] \in InLedger => OfTxn(entry, t) # {}

\* INV-3: once a transaction is committed as settled, no later commit changes
\* its status or any of its entries, adds one, or takes one away.
SettledIsFrozen ==
  [][\A t \in Txn : status[t] = "settled" =>
       /\ status'[t] = "settled"
       /\ OfTxn(entry', t) = OfTxn(entry, t)
       /\ \A e \in OfTxn(entry, t) : entry'[e] = entry[e]]_vars
=============================================================================
