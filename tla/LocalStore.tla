------------------------------ MODULE LocalStore ------------------------------
(***************************************************************************)
(* The browser app that keeps its ledger in IndexedDB.  Several tabs share the *)
(* stores accounts and txns; each IndexedDB transaction is atomic, but an      *)
(* operation of the app is often two of them: it reads and validates, then     *)
(* writes, and anything may happen in between.  The sequence counter, the       *)
(* "empty ledger" flag and operations under way belong to a tab and are lost    *)
(* when it is reloaded.  Identifiers are fresh (randomUUID).                   *)
(***************************************************************************)
EXTENDS LedgerCore

CONSTANTS Tab,
          Codes,        \* account codes
          NewBodies,    \* transaction bodies a form may submit, over codes
          SampleRows,   \* rows of the sample ledger
          SampleMonths, \* months it spans
          Fixed,        \* monthly entries of the sample: [every, offset]
          MaxMade,      \* bound: rows created
          MaxReload,    \* bound: reloads of all tabs
          MaxBackups,   \* bound: exports
          MaxWipes      \* bound: imports, resets and samples

\* The sample has accounts; "s" stands for it and is no tab.
ASSUME LocalAssumption ==
  /\ IsFiniteSet(Tab) /\ "s" \notin Tab /\ Codes # {}
  /\ SampleRows \in Nat \ {0} /\ SampleMonths \in Nat \ {0}
  /\ Fixed \in Seq([every : Nat \ {0}, offset : Nat])
  /\ \A b \in NewBodies : /\ {"day", "entries"} \subseteq DOMAIN b
                          /\ b.entries \in Seq(Range(b.entries))
                          /\ \A i \in DOMAIN b.entries : "account" \in DOMAIN b.entries[i]
  /\ MaxMade \in Nat /\ MaxReload \in Nat /\ MaxBackups \in Nat /\ MaxWipes \in Nat

VARIABLES
  accounts,  \* object store: rows [id, code]
  txns,      \* object store: rows [id, seq, by, day, entries]
  tab,       \* per tab: counter, reloads, the empty flag, whether a check is under way
  pend,      \* per tab: the row validated and not yet written, or none
  scan,      \* per tab: what an export has read so far
  backups,   \* files exported: accounts, txns, clean
  made,      \* rows created so far
  wipes,     \* replacements so far
  raced      \* history: a row was written after the accounts it was checked
             \* against had changed

vars == <<accounts, txns, tab, pend, scan, backups, made, wipes, raced>>

None == [op |-> "none"]
Unread == [read |-> FALSE, rows |-> {}]
\* A page that is loaded checks whether the ledger is empty.
NewTab == [counter |-> 0, reloads |-> 0, empty |-> FALSE, checks |-> TRUE]
Idle == [accounts |-> Unread, txns |-> Unread, clean |-> TRUE]

----------------------------------------------------------------------------
(* The sample ledger *)

\* Mutant: the share of a month is rounded down, whatever is due in it.
PerMonthDown == SampleRows \div SampleMonths

\* Months count down from the anchor; a month holds the fixed entries that are due,
\* then daily entries up to its share of the rows.
PerMonth ==
  LET share == (SampleRows + SampleMonths - 1) \div SampleMonths
  IN IF share > Len(Fixed) THEN share ELSE Len(Fixed)

DueIn(mi) == {i \in DOMAIN Fixed : mi % Fixed[i].every = Fixed[i].offset}

MonthRows(mi) ==
  LET due == Cardinality(DueIn(mi))
      daily == IF PerMonth > due THEN PerMonth - due ELSE 0
  IN [i \in 1 .. due + daily |-> 2 * (SampleMonths - mi)]

\* Days of the rows: later months first, cut off when there are enough.
BuildLedger ==
  LET days == FlattenSeq([mi \in 1 .. SampleMonths |-> MonthRows(mi - 1)])
  IN SubSeq(days, 1, IF Len(days) < SampleRows THEN Len(days) ELSE SampleRows)

\* Accounts and rows of the sample have identifiers of their own.
SampleAccounts == {[id |-> <<"s", c>>, code |-> c] : c \in Codes}

MkTxn(i, day) ==
  [id |-> <<"s", i>>, seq |-> i, by |-> <<"s", 0>>, day |-> day,
   entries |-> << [account |-> <<"s", CHOOSE c \in Codes : TRUE>>, direction |-> "debit",
                   amount |-> 1, currency |-> "KRW"],
                  [account |-> <<"s", CHOOSE c \in Codes : TRUE>>, direction |-> "credit",
                   amount |-> 1, currency |-> "KRW"] >>]

SampleTxns == {MkTxn(i, BuildLedger[i]) : i \in DOMAIN BuildLedger}

----------------------------------------------------------------------------
(* Object stores *)

\* Every write under way that was checked against other accounts is stale now.
Disturbed(p, accountsToo) ==
  [t \in Tab |-> IF p[t].op # "none" /\ (accountsToo \/ p[t].op = "account")
                 THEN [p[t] EXCEPT !.stale = TRUE] ELSE p[t]]

\* Every export that has read one store only is torn.
TornScans ==
  [t \in Tab |-> IF scan[t].accounts.read # scan[t].txns.read
                 THEN [scan[t] EXCEPT !.clean = FALSE] ELSE scan[t]]

\* One transaction over both stores.
ReplaceStores(newAccounts, newTxns) ==
  /\ wipes < MaxWipes /\ wipes' = wipes + 1
  /\ accounts' = newAccounts /\ txns' = newTxns
  /\ pend' = Disturbed(pend, TRUE)
  /\ scan' = TornScans

----------------------------------------------------------------------------
(* Creating rows *)

\* Mutant: the counter of the tab is the identifier.
CounterId(t, kind) == <<kind, tab[t].counter + 1>>

\* randomUUID: no other row has it.
NewId(t, kind) == <<kind, made + 1>>

\* put: a row with the same identifier is replaced.
Put(store, row) == {x \in store : x.id # row.id} \cup {row}

\* The accounts are read and the body is checked against them.
CreateAccount(t, code) ==
  /\ pend[t] = None /\ made < MaxMade
  /\ ValidateAccountBody(accounts, [code |-> code, sound |-> TRUE])
  /\ made' = made + 1
  /\ tab' = [tab EXCEPT ![t].counter = @ + 1]
  /\ pend' = [pend EXCEPT ![t] = [op |-> "account", stale |-> FALSE,
                                  row |-> [id |-> NewId(t, "a"), code |-> code]]]
  /\ UNCHANGED <<accounts, txns, scan, backups, wipes, raced>>

CreateTxn(t, body) ==
  /\ pend[t] = None /\ made < MaxMade
  /\ LET b == Resolve(accounts, body)
     IN /\ ValidateTxnBody(accounts, b)
        /\ pend' = [pend EXCEPT ![t] =
             [op |-> "txn", stale |-> FALSE,
              row |-> [id |-> NewId(t, "t"), seq |-> tab[t].counter + 2,
                       by |-> <<t, tab[t].reloads>>, day |-> b.day, entries |-> b.entries]]]
  /\ made' = made + 1
  /\ tab' = [tab EXCEPT ![t].counter = @ + 2]
  /\ UNCHANGED <<accounts, txns, scan, backups, wipes, raced>>

\* The put of the row that was checked before.
PutRow(t) ==
  /\ pend[t] # None
  /\ IF pend[t].op = "account"
     THEN /\ accounts' = Put(accounts, pend[t].row) /\ UNCHANGED txns
          /\ pend' = Disturbed([pend EXCEPT ![t] = None], FALSE)
     ELSE /\ txns' = Put(txns, pend[t].row) /\ UNCHANGED accounts
          /\ pend' = [pend EXCEPT ![t] = None]
  /\ raced' = (raced \/ pend[t].stale)
  /\ scan' = TornScans
  /\ UNCHANGED <<tab, backups, made, wipes>>

----------------------------------------------------------------------------
(* Export and emptiness *)

Exporting(t) == scan[t].accounts.read \/ scan[t].txns.read

\* The bound counts the exports under way.
MayExport(t) ==
  Exporting(t) \/ Cardinality(backups) + Cardinality({x \in Tab : Exporting(x)}) < MaxBackups

\* The two stores are read in two transactions, in either order.
ReadAccounts(t) ==
  /\ ~ scan[t].accounts.read /\ MayExport(t)
  /\ scan' = [scan EXCEPT ![t].accounts = [read |-> TRUE, rows |-> accounts]]
  /\ UNCHANGED <<accounts, txns, tab, pend, backups, made, wipes, raced>>

ReadTxns(t) ==
  /\ ~ scan[t].txns.read /\ MayExport(t)
  /\ scan' = [scan EXCEPT ![t].txns = [read |-> TRUE, rows |-> txns]]
  /\ UNCHANGED <<accounts, txns, tab, pend, backups, made, wipes, raced>>

ExportData(t) ==
  /\ scan[t].accounts.read /\ scan[t].txns.read
  /\ backups' = backups \cup {[accounts |-> scan[t].accounts.rows, txns |-> scan[t].txns.rows,
                               clean |-> scan[t].clean /\ ~ raced]}
  /\ scan' = [scan EXCEPT ![t] = Idle]
  /\ UNCHANGED <<accounts, txns, tab, pend, made, wipes, raced>>

\* A check that was started answers at some time; the last answer stands.  Its two
\* reads are taken as one: to tear them another tab must replace the ledger in between.
IsEmpty(t) ==
  /\ tab[t].checks
  /\ \E more \in BOOLEAN :
       tab' = [tab EXCEPT ![t].empty = (accounts = {} /\ txns = {}), ![t].checks = more]
  /\ UNCHANGED <<accounts, txns, pend, scan, backups, made, wipes, raced>>

----------------------------------------------------------------------------
(* Data management *)

\* Mutant: the file is checked against the accounts that are there.
ImportableHere(b) == \A x \in b.txns : ValidateTxnBody(accounts, x)

\* The transactions of the file are checked against its own accounts.
Importable(b) == \A x \in b.txns : ValidateTxnBody(b.accounts, x)

\* An account typed into the file.
TypedId == <<"f", 1>>

\* A row of the file edited by hand: an entry that has lost its other side.
Cut(b) ==
  {[b EXCEPT !.txns = (b.txns \ {x}) \cup {[x EXCEPT !.entries = SubSeq(x.entries, 1, 1)]}]
   : x \in b.txns}

\* Accounts of the file edited by hand: some are gone, one may be new, and each has
\* whatever code, that of another account too.
Recoded(b) ==
  UNION {{[b EXCEPT !.accounts = {[id |-> i, code |-> code[i]] : i \in kept}]
          : code \in [kept -> Codes]}
         : kept \in SUBSET ({a.id : a \in b.accounts} \cup {TypedId})}

\* A row of the file has no identifier: put throws, and what the transaction was asked to
\* do before, both stores cleared and the rows ahead of that one, is committed.
TornReplace(f) ==
  \/ \E rows \in SUBSET f.accounts : ReplaceStores(rows, {})
  \/ \E rows \in SUBSET f.txns : ReplaceStores(f.accounts, rows)

\* A backup, as it was written or edited since.  Only the transactions are checked; an
\* import that fails does not look at the ledger again.
ImportData(t) ==
  /\ \E b \in backups : \E f \in {b} \cup Cut(b) \cup Recoded(b) :
       /\ Importable(f)
       /\ \/ ReplaceStores(f.accounts, f.txns) /\ tab' = [tab EXCEPT ![t].checks = TRUE]
          \/ TornReplace(f) /\ UNCHANGED tab
  /\ UNCHANGED <<backups, made, raced>>

\* Offered while the tab believes the ledger is empty.
SeedSample(t) ==
  /\ tab[t].empty
  /\ ReplaceStores(SampleAccounts, SampleTxns)
  /\ tab' = [tab EXCEPT ![t].checks = TRUE]
  /\ UNCHANGED <<backups, made, raced>>

ResetData(t) ==
  /\ ReplaceStores({}, {})
  /\ tab' = [tab EXCEPT ![t].checks = TRUE]
  /\ UNCHANGED <<backups, made, raced>>

\* The page is loaded again: what was under way and the counter are gone.
Reload(t) ==
  /\ SumOver([u \in Tab |-> tab[u].reloads], Tab) < MaxReload
  /\ tab' = [tab EXCEPT ![t] = [NewTab EXCEPT !.reloads = tab[t].reloads + 1]]
  /\ pend' = [pend EXCEPT ![t] = None]
  /\ scan' = [scan EXCEPT ![t] = Idle]
  /\ UNCHANGED <<accounts, txns, backups, made, wipes, raced>>

Init ==
  /\ accounts = {} /\ txns = {} /\ backups = {}
  /\ tab = [t \in Tab |-> NewTab]
  /\ pend = [t \in Tab |-> None]
  /\ scan = [t \in Tab |-> Idle]
  /\ made = 0 /\ wipes = 0 /\ raced = FALSE

TabStep(t) ==
  \/ \E c \in Codes : CreateAccount(t, c)
  \/ \E b \in NewBodies : CreateTxn(t, b)
  \/ PutRow(t)
  \/ ReadAccounts(t) \/ ReadTxns(t) \/ ExportData(t) \/ IsEmpty(t)
  \/ ImportData(t) \/ SeedSample(t) \/ ResetData(t) \/ Reload(t)

Next == \E t \in Tab : TabStep(t)

Spec == Init /\ [][Next]_vars

----------------------------------------------------------------------------
(* Reading the ledger *)

\* Mutant: within a day the lower sequence number first.
ListsAscending(x, y) == x.day > y.day \/ (x.day = y.day /\ x.seq < y.seq)

\* listTxns: the later day first, within a day the higher sequence number.
ListsBefore(x, y) == x.day > y.day \/ (x.day = y.day /\ x.seq > y.seq)

----------------------------------------------------------------------------
(* Properties *)

\* A transaction, stored or about to be, has at least two lines; flags, counters and
\* bounds are kept.
TypeOK ==
  /\ \A x \in txns : Len(x.entries) >= 2
  /\ \A t \in Tab :
       /\ tab[t].counter \in 0 .. 2 * MaxMade /\ tab[t].empty \in BOOLEAN
       /\ pend[t].op \in {"none", "account", "txn"}
       /\ pend[t].op = "txn" => Len(pend[t].row.entries) >= 2
  /\ Cardinality(backups) <= MaxBackups
  /\ made \in 0 .. MaxMade /\ wipes \in 0 .. MaxWipes /\ raced \in BOOLEAN

\* However rows come in (a form, a file, the sample), the ledger as a whole balances:
\* balances sum to zero in every currency, every month has equal sides, and so has the
\* totals row of the page whatever the filter lets through.
BooksBalance ==
  LET bal == ComputeBalances(txns)
      months == PeriodTotals(txns)
      Even(sides) == sides["debit"] = sides["credit"]
  IN /\ \A c \in {key[2] : key \in DOMAIN bal} :
          SumOver(bal, {key \in DOMAIN bal : key[2] = c}) = 0
     /\ \A m \in DOMAIN months : Even(months[m])
     /\ \A rows \in SUBSET txns : Even(PageTotals(rows))

\* Every entry names a stored account, unless a row was written after the accounts
\* it was checked against had been replaced.
EntriesKnownUnlessRaced ==
  ~ raced => \A x \in txns : \A i \in DOMAIN x.entries :
               \E a \in accounts : a.id = x.entries[i].account

\* A backup of which both stores were read between two writes can be restored.
QuietBackupRestores == \A b \in backups : b.clean => Importable(b)

\* Of two rows of one day that one session entered, the later entered comes first.
SessionOrder ==
  \A x, y \in txns :
    x.by = y.by /\ x.by[1] \in Tab /\ x.day = y.day /\ x.id[2] > y.id[2]
      => ListsBefore(x, y)

\* Saving a row overwrites none: until a replacement, every saved row stays.
SavedRowsStay ==
  [][wipes' = wipes => accounts \subseteq accounts' /\ txns \subseteq txns']_vars

\* Whatever codes a file has brought in twice, an account that is created has a code of
\* its own, unless its check was overtaken.
NewCodesUniqueUnlessRaced ==
  [][wipes' = wipes /\ ~ raced'
       => \A a \in accounts' \ accounts : \A b \in accounts' : b.code = a.code => b = a]_vars

\* The sample has as many rows as it is asked for.
SampleComplete ==
  [][\A t \in Tab : SeedSample(t) => Cardinality(txns') = SampleRows]_vars

\* What a backup, the sample or a reset may put in the place of a ledger.
Consistent(book, rows) == \A x \in rows : ValidateTxnBody(book, x)

\* A ledger in which a write has been raced counts as replaced by an empty one.
Unraced(rows) == IF raced THEN {} ELSE rows

Memory == INSTANCE DemoLedger WITH
  accounts <- Unraced(accounts),
  txns     <- Unraced({[id |-> x.id, day |-> x.day, entries |-> x.entries] : x \in txns}),
  profile  <- <<wipes, raced>>,
  AccountIds <- {"a"} \X (1 .. MaxMade),
  TxnIds   <- {"t"} \X (1 .. MaxMade),
  IsProfile <- Consistent

\* The two API modules that stand in for the server do the same: until a write is
\* raced, the operations of all tabs are those of the ledger in memory, one at a time.
ActsLikeMemory == Memory!Spec

\* The sample is for looking around in an empty ledger: it replaces nothing.
SeedOnlyIntoEmpty ==
  [][\A t \in Tab : SeedSample(t) => accounts = {} /\ txns = {}]_vars
=============================================================================
