# TLA+ verification of just-ledger

TLA+ models of the parts of just-ledger whose correctness depends on
interleaving, failure and order, TLC configurations that check them on small
instances, and TLAPS proofs for every value of the constants. The reference is
the code under `src/`; `PROJECT.json` maps each definition to its lines.

Check a run with `tlc -workers 2 -config MCLedgerDB.cfg MCLedgerDB`, a proof with
`tlapm LedgerDBProofs.tla` (likewise the other `*Proofs` modules).

## 1. The system

Double-entry bookkeeping for one household. A browser app talks to a Fastify
server (`apps/web/server`), which works in short PostgreSQL transactions; a Go
worker (`services/worker`) drafts transactions out of uploaded bank statements;
an Elixir service (`services/realtime`) forwards database notifications to
browsers; batch programs in COBOL, R, Julia, Haskell and Prolog compute over
finished data.

| component | state | operations | talks to |
|---|---|---|---|
| ledger tables (`db/`) | `txn`, `entry`, `account_balance`, row locks | insert, status change, delete of a transaction; insert, update, delete of an entry; deferred INV-1 check, INV-3 refusal, incremental balances | server and worker (SQL), realtime (NOTIFY) |
| account hierarchy | `account.parent_id` | POST, PATCH, DELETE `/api/accounts`; trigger walk | server (SQL) |
| ingestion | `ingest_batch`, payload, draft rows; hint queue, job list of a worker | upload, hint, scan, `ProcessBatch`, `markFailed` | server to worker over a Unix socket, worker to database |
| realtime feed | Listener connection and flag, channel mailboxes, browser store | LISTEN, dispatch, join, snapshot push, merge, `loadAll` | database to Listener to channel to browser |
| browser socket hook | socket, timers, `closed` flag | connect, close, effect re-run | channel |
| budget alerts | `budget_alert_log` | observe, evaluate, claim, broadcast | Listener, database |
| transfer links | `transfer_link`, member rows | create, delete, refuse change | ledger tables |
| Lua sandbox, exchange rates, fixed-width records (Go) | action list; rate rows | run rule; upsert; encode | worker |
| settlement (COBOL, JavaScript reference) | input and expected files; account table, balances, positions | generate, accumulate, round, clamp, emit, read back, compare | files |
| classification (Prolog), rules DSL (Haskell) | rule base | match, explain; parse, check, evaluate | HTTP / stdin |
| statement parser (Rust in the browser) | none | decode, parse, normalise, hash, encrypt | upload |
| local mode of the browser app | IndexedDB stores; per tab a sequence counter, the empty flag, calls under way | create account and transaction, list, export, import, sample, reset | other tabs |
| ledger page of the browser app | store, form, upload panel, worker thread, filter, cursor | load, submit, upload and poll, keys, error page | server (HTTP), worker thread |
| analytics (R), simulation (Julia), contracts, scripts, infrastructure | none | - | files |

What is hard in it:

* concurrent READ COMMITTED transactions over triggers, with deferred checks
  that run before the commit is visible;
* a worker that can die anywhere, lose the answer of its COMMIT, or meet a
  second worker, with hints that may be lost, late or repeated;
* notifications that are lost while nobody listens, merged inside one
  transaction, or overtaken by snapshots and HTTP answers;
* two programs that compute the same figures with different integer widths,
  rounding rules and overflow behaviour, and must print the same lines;
* tabs that share one IndexedDB, where an operation validates in one database
  transaction and writes in another;
* a page whose handlers interleave at every `await` and whose components are
  unmounted by an error while their calls go on.

What makes each component correct:

* ledger: INV-1 (posted transactions balance and have entries), INV-3 (settled
  ones never change), stored balance = sum of posted entries, balances in range;
* hierarchy: a forest, without dangling parents; every trigger run ends;
* ingestion: a batch ends once and atomically, one draft per fingerprint;
* feed: once everything is quiet the browser shows the committed balance;
* settlement: both sides print the same (INV-7), schedules close to the last
  unit, a check that passes has compared what is stored;
* local mode: the books balance however rows come in, saved rows stay, a backup
  restores; one tab at a time it behaves like the demo's ledger in memory;
* page: nothing is entered twice or reported and not shown, uploads end;
* planned parts: no alert twice, one link per transaction.

## 2. Modules

| module | models | lines of code it stands for |
|---|---|---|
| `FiniteSums` | sums over `1..N` as a recursive function, and over finite sets | SQL `sum(...)`, `Map` accumulators |
| `LedgerDB` | ledger tables and triggers | `inv_triggers.pgsql`, `balance_notify.pgsql` 1-120, `txns.js`, `db.js` |
| `AccountTree` | account hierarchy | `inv_triggers.pgsql` 144-178, `accounts.js` |
| `IngestPromise` | what ingestion promises: atomic, once | - |
| `Ingest` | upload, hints, scan, `ProcessBatch`, faults | `processor.go`, `queue.go`, `socket.go`, `ingest.js`, `db.go` |
| `BalanceFeed` | one balance from COMMIT to the browser's store | `balance_notify.pgsql` 122-234, `listener.ex`, `ledger_channel.ex`, `ledgerStore.js` |
| `Rounding` | half-even division as both sides write it | `settlement.mjs`, the ROUNDED clauses of the COBOL programs |
| `Settlement` | generator, both sides, parity check | `settle.cbl`, `amort.cbl`, `deprec.cbl`, `interest.cbl`, `report.cbl`, `scripts/parity/`, `fixtures/settlement/gen.mjs` |
| `LedgerCore` | validation, balances, monthly totals in the browser | `lib/ledgerCore.js`, `sumByDirection` of `lib/money.js`, totals row of `LedgerPage.jsx` |
| `DemoLedger` | the ledger in memory, also the abstract specification of the local one | `lib/demo/mockApi.js` |
| `LocalStore` | two stores and their tabs | `lib/local/*`, `lib/demo/seed.js` |
| `LedgerPage` | the page of one browser | `LedgerPage.jsx`, `ledgerStore.js`, `LedgerTable.jsx`, `TxnForm.jsx`, `IngestPanel.jsx`, `useLedgerKeyboard.js`, `useIngestWorker.js` |
| `MC*` | values for TLC | - |
| `FiniteSumsProofs`, `LedgerDBProofs`, `AccountTreeProofs`, `IngestProofs`, `BalanceFeedProofs`, `SettlementProofs`, `LocalStoreProofs`, `LedgerPageProofs` | theorems about the module they are named after | - |

### LedgerDB

The committed tables are `status`, `entry` and `balance`; what a session has
written and not committed lies over them in `txnW`, `entryW`, `balW`. A written
row is locked until the transaction ends, so the domains of these overlays are
the exclusive row locks; `share` holds the FOR SHARE locks of the entry triggers.
Each SQL statement is one action with all its triggers: everything a trigger
reads is read under a lock that lasts until the transaction ends, so no other
session can change it between two reads. COMMIT is two actions, since the
deferred check (`RunDeferred`) reads the database before the session's writes
become visible (`Commit`). Every failure is a `Rollback`, enabled at any time.
Account rows are fixed, there is one owner, and an entry's direction and amount
are a signed amount. Entry identifiers of a bounded instance are used again
when free. A second `COMMIT` statement, savepoints and `SET CONSTRAINTS` do not
occur in the code.

### AccountTree

The trigger's walk reads one ancestor per SELECT without locks, and under READ
COMMITTED each SELECT sees what is committed when it runs, so each is an action
(`WalkStep`). Row locks are read off the statement in progress (`work`). A patch
that leaves the parent alone fires the trigger as well and is a move to the old
parent. `overlapped` is a history variable: two moves were in flight together.

### Ingest and IngestPromise

`state` is the committed state of a batch: 'drafting' is overwritten before the
COMMIT and never visible. `held` are the fingerprints a worker inserted and did
not commit, which make the unique index delay others. A record is reduced to its
fingerprint and the branch it takes: good, zero, malformed, or foreign (refused
by the composite foreign key on account and currency). The ticker may fire at
any time something is pending. Faults are crashes, failing statements, a COMMIT
whose answer is lost, and a failing `markFailed`. `KeepsPromise` states that
`Ingest` implements `IngestPromise` under the identity on the shared variables.

### BalanceFeed

A single balance and a single browser. `pend` are the notifications of an open
transaction, where PostgreSQL keeps equal payloads once; `wire` are committed
ones, lost when the connection is; `inbox` is the channel's mailbox, where
events and sync requests queue; `socket` the frames under way; `shown` the
store. `upset` is a history variable that records which of five causes occurred
after which the browser may keep a wrong balance:

| cause | in the code |
|---|---|
| `repeat` | an equal payload of the same transaction is dropped though another value came between |
| `resend` | a balance read without a lock is sent after a draft is deleted |
| `restart` | a new Listener process sends no resync when it connects first |
| `snapshot` | the query connection is away and an empty snapshot is pushed |
| `load` | an HTTP answer replaces newer frames |

`QuietAgrees` says that these are all: any other mix of overlapping commits,
rollbacks, lost connections, joins and resyncs converges. It cannot see one of
the five getting worse. A channel process that crashes alone, with the Listener
and the socket alive, is not modelled.

### Rounding and Settlement

A file of records passes through `stage`: the reference computes it (`js`), the
generator writes input and expected lines (`WritePair`, or only the input when it
dies in between), a line may be damaged by hand (`Tear`), the check reads the
input back and runs the program (`cobol`), and `verdict` is what it reports. Both
sides are one set of actions with the side as a parameter, because they loop
alike; where they differ (`Rounded`, `Room`, `SettleOverflows`, `Stop`, the width
of a field in `Printed`) the definition says which side does what. `work` is a
program's working storage while one record is computed.

Widths are bounds: `MaxField` stands for PIC 9(15), `MaxWork` for S9(18). A line is
the tuple of its fields. Sorting by code is left out, so balances per account
are a function. Only settlement and amortisation inputs are read back by
`settlement.mjs`; the other three programs are compared by
`modules/settlement/tests/run.sh`, and `Tear` and `Readable` keep them apart.

Seen while translating, and outside the model's inputs: `amort.cbl:105-108` moves
S9(18) results into 15 digits, which drops high digits where
`copybook/amort-io.cpy:27-29` says that none are lost (the reference stops
instead; `Printed` keeps the MOVE); the loop counter of `interest.cbl:124`, PIC
9(03), cannot pass the 999 periods its input field admits.

### LedgerCore, LocalStore and DemoLedger

Each transaction on IndexedDB is atomic and is one action; an operation of the app
is often two. Creation reads and validates (`CreateAccount`, `CreateTxn`) and
puts the row later (`PutRow`); an export reads the two stores apart
(`ReadAccounts`, `ReadTxns`). Import, sample and reset exchange both stores in one
transaction. Identifiers are fresh UUIDs: the fallback of `localApi.js:27`, counter
and time where the browser has no `randomUUID`, is left out. The sequence counter
belongs to a tab and is lost with it (`Reload`). `raced` records that a row was written after the
accounts it had been checked against changed; the properties that need it say
so.

A backup may be edited by hand before it is imported: a transaction cut to one
line (`Cut`), or the accounts changed, some gone, one typed in, codes exchanged or
given twice (`Recoded`). `importData` checks the transactions against
the accounts of the file and the accounts not at all, so codes are not unique in
the ledger; what holds is that the app itself adds no second account of a code
(`NewCodesUniqueUnlessRaced`). Of several accounts of one code a form's entry means
one (`IdOf`), since nothing the rules look at tells them apart. Sequence numbers and
dates are not edited: `SessionOrder` is about rows as the app wrote them.

A row of the file may lack its identifier, which nothing checks either. Then `put`
throws in the middle of `replaceAll`; no one aborts the IndexedDB transaction, so
the two `clear()` and the rows put ahead are committed (`TornReplace`), though
`idb.js:80` calls the replacement atomic and `localApi.js:112` says that a wrong file is
refused. The old ledger is gone then; no run states it as a property, and those
that are stated hold of what is left.

`DemoLedger` is the demo's ledger in memory, whose operations do their work at
once. `ActsLikeMemory` states that the local store implements it: `profile` is
mapped to `<<wipes, raced>>`, so that a replacement is a change of profile, and
`accounts` and `txns` count as empty from the moment a write is raced. Until then
the operations of all tabs are those of one ledger in memory, one at a time.

`BooksBalance` is about what `computeBalances`, `periodTotals` and the totals row make
of the stored rows: zero in every currency, equal sides in every month and in
every selection of rows, since a filter lets any of them through. Both totals add
amounts of all currencies together, as the code does; that the sides are equal
all the same follows from each currency's balance.

`isEmpty` reads both stores; its two reads are taken as one. A month is two days
(`MonthOf`). The comment of `listTxns` that a day is listed in the reverse order
of entry holds within a session only, which is what `SessionOrder` states, since
a new tab starts its counter anew.

### LedgerPage

Every `await` is a point where any other handler may run: a load consists of two
reads of the server at different times and an answer (`ReadRows`, `ReadBalances`,
`LoadAll`), a submission of a request, its effect, its answer and the load that
follows, an upload of reading the file, two answers of the worker thread, a
request and its polls. `loadNos` numbers loads so that properties can speak of
answers out of order. A failed load replaces the page by an error
(`LoadFails`): form, panel and worker thread go, calls under way go on, and an
upload that waited for the worker is lost without a word. `live` marks work whose
component is still mounted; `lost` are the items of which the page never learnt
the outcome, `told` those it reported as entered.

`App.jsx` gives the page no socket at this commit, so no frame reaches the store
here; `BalanceFeed` models the merge. `listTxns` limits the list to 100 rows: left
out. Accounts do not vanish under an open form (a reset in local mode with an
account still selected is not modelled). What is typed while a submission is
under way is cleared by its success, as in the code.

## 3. Runs

| run | instance | checks | states |
|---|---|---|---|
| `ledger_db` | 2 sessions, 2 transactions, 2 entries, 2 accounts, amounts -1 and 1, at most 2 row writes per transaction, balance in -1..1 | `TypeOK`, `BalanceIsPostedSum`, `PostedIsBalanced`, `SettledIsFrozen` | 275 thousand |
| `ledger_skew` | one posted transaction with two balanced pairs | violates `PostedHasEntries` | stops early |
| `account_tree` | 3 accounts, 2 sessions, depth limit 3 | `TypeOK`, `AcyclicUnlessOverlapped`, `ParentIsLive`, `WalkEnds` | 87 thousand |
| `account_race` | the same | violates `Acyclic` | stops early |
| `ingest` | 2 workers, any 2 of 3 files, 2 fingerprints, 1 fault, hint queue of 1 | `TypeOK`, `OneDraftPerHash`, `DoneIsFinal`, `EveryBatchEnds`, `KeepsPromise` | 85 thousand |
| `balance_feed` | 2 sessions, 2 values, 3 notifying statements, 2 losses, 1 request | `TypeOK`, `QuietAgrees`, `CatchesUp` | 867 thousand |
| `feed_restart` | the same | violates `KilledListenerRecovers` | stops early |
| `feed_resend` | the same | violates `ResendIsHarmless` | stops early |
| `settlement` | files of up to 2 entries (3 where the table fills or a sum overflows), 1 loan or claim, 2 assets, 3 details; up to 3 periods, fields to 99, sums to 999, 2 generator runs | `TypeOK`, `ParityHolds`, `ScheduleStaysIn`, `SchedulesClose`, `BalancedBookTotalsZero`, `PassIsSound`, `HalfBoundary` | 208 thousand |
| `local_store` | 2 tabs, 1 code, 4 bodies (balanced; balanced only across currencies; empty; of no account), 2 rows, 1 reload in all, 1 backup and its hand edits, 2 replacements, sample of 3 rows in 2 months | `TypeOK`, `BooksBalance`, `EntriesKnownUnlessRaced`, `QuietBackupRestores`, `SessionOrder`, `NewCodesUniqueUnlessRaced`, `SavedRowsStay`, `SampleComplete`, `ActsLikeMemory` | 864 thousand |
| `local_seed` | 1 tab | violates `SeedOnlyIntoEmpty` | stops early |
| `ledger_page` | 2 drafts, 1 file, 3 user actions, 2 failures, 1 poll | `TypeOK`, `DuplicateOnlyAfterLoss`, `ReportedIsShown`, `QuietShowsAll`, `DoneIsDone`, `OneUploadUnlessOverlapped`, `KeysReachEveryRow`, `UploadEnds` | 570 thousand |

Why the bounds are enough for what they show. The ledger's hazards need two
sessions and one row they share; two entries make one balanced pair, and a
second transaction gives an entry a place to move to. Two writes per transaction
allow a status change together with an entry change. A balance bound of 1 is
reached, so that the CHECK bites. A cycle that the walk must stop in needs a
third account that is not on it. Two workers, two fingerprints in opposite
orders and one fault give every conflict, one deadlock and one retry; two faults
add nothing new, since a fault leaves a state from which the scan starts anew.
In the feed three statements suffice for the sequence `v, w, v` that
deduplication merges, two losses for a loss during the recovery from another.
In the settlement the widths shrink to two and three digits, so that every
overflow and every half occurs with small numbers, and three periods have a
first, a middle and a last one; two generator runs leave old expected lines
beside a new input. Two tabs give every order of one check and one write, and two
replacements an import over a sample or a reset; the sample's months do not
divide its rows, so that the share is rounded. Three user actions allow a
submission, a retry and an upload, or the same file twice; two failures a load
that fails after a request did.

Deadlock checking is off in all runs: each bounded instance may use up its
bounds and stop.

The violations are disagreements of the code with its own documents. They are
listed as findings in `PROJECT.json`, with the line that states the contrary:

* `ledger_skew`: two sessions delete different pairs of one posted transaction;
  each deferred check still sees the other pair; no entry is left.
* `account_race`: two concurrent moves build a cycle, on which the recursive
  query of the roll-up does not end.
* `feed_restart`: after the Listener is killed joined browsers are not resynced.
* `feed_resend`: the balance sent for a deleted draft overtakes a newer one.
* `local_seed`: whether the ledger is empty is not asked again when a transaction
  is saved, so the sample is offered on a ledger in use and replaces it.

### Fairness

* `AccountTree`: weak fairness of `WalkStep`: the server process executes the
  function it has entered. Nothing is assumed of clients.
* `Ingest`: weak fairness of each worker's own steps, its restart included (the
  service manager restarts it and `Run` scans at the start and at every tick).
  Nothing is assumed of uploads and hints. Faults are bounded, which the
  property says: a database that fails for ever ends no batch.
* `BalanceFeed`: weak fairness of reconnect timers, mailboxes, the socket's
  frames and the end of a request. Changes, losses and requests are not fair.
* `LedgerPage`: weak fairness of `Settle`: the browser settles its awaits in some
  order, that is, requests end, the worker answers, timers fire. Nothing is
  assumed of the user, of failures, or of the server finishing a batch: the poll
  limit, not the server, ends an upload (`UploadEnds`). That the worker thread
  answers is an assumption: `useIngestWorker.js` has no `onerror`, and a worker that
  never loads would leave the panel waiting.
* `LedgerDB`, `Settlement` and `LocalStore` have only safety properties.

## 4. Proofs

All theorems hold for any values of the constants: any sets of sessions,
transactions, accounts and files, any amounts, widths and bounds. They rest on
the named assumptions on constants, each evaluated by TLC in its run:

| assumption | says |
|---|---|
| `LedgerAssumption`, `StatusAssumption`, `NoEntryAssumption` | amounts are integers other than zero, bounds are naturals, a new transaction has a status of the enum, the absent entry is no entry |
| `TreeAssumption` | the three markers for "no parent", "unused" and "gone" are distinct and no accounts |
| `IngestAssumption` | each file is a sequence of records, bounds are naturals |
| `FeedAssumption` | zero is an amount, "none" is not |
| `BatchAssumption` | files are sequences of records of one program, account codes are finitely many, a field is not wider than working storage |
| `LocalAssumption` | tabs are finitely many and "s" is none of them, there is a code, a body has a day and a sequence of entries that name accounts, the sample has a month and a row |
| `PageAssumption` | a transaction is no file, an upload polls at least once |

Every property of a passing run is a theorem, the four of liveness excepted.

| module | theorem | says |
|---|---|---|
| `LedgerDBProofs` | `TypeCorrect` | `[]TypeOK`: shapes, and every balance, committed or not, within its CHECK |
| | `FrozenInvariant`, `SettledFrozen` | `SettledIsFrozen` (INV-3) and its invariant |
| | `BalanceCorrect` | `[]BalanceIsPostedSum` |
| | `PostedBalanced` | `[]PostedIsBalanced` (INV-1) |
| `AccountTreeProofs` | `TreeTypeCorrect` | `[]TypeOK` |
| | `ParentsLive` | `[]ParentIsLive` |
| | `ForestUnlessOverlapped` | `[]AcyclicUnlessOverlapped` |
| `IngestProofs` | `IngestInvariant`, `TypeCorrect` | the inductive invariant, `[]TypeOK` |
| | `OneDraft` | `[]OneDraftPerHash` |
| | `DoneForGood` | `DoneIsFinal` |
| | `Refinement` | `KeepsPromise`: `Ingest` implements `IngestPromise` |
| `BalanceFeedProofs` | `FeedTypeCorrect` | `[]TypeOK` |
| | `QuietAgreesHolds` | `[]QuietAgrees` |
| `SettlementProofs` | `SettlementTypeCorrect` | `[]TypeOK` |
| | `RoundingAgrees` | rounding by remainders and NEAREST-EVEN are the same function, for every numerator and every positive denominator |
| | `HalfBoundaryHolds` | `[]HalfBoundary` |
| | `ScheduleStaysInHolds` | `[]ScheduleStaysIn` |
| | `ParityHoldsAlways` | `[]ParityHolds` (INV-7) |
| | `SchedulesCloseHolds` | `[]SchedulesClose` |
| | `BalancedBookZero` | `[]BalancedBookTotalsZero` |
| | `PassSound` | `[]PassIsSound` |
| `LocalStoreProofs` | `LocalInvariant`, `TypeCorrect` | the inductive invariant, `[]TypeOK` |
| | `BooksAlwaysBalance` | `[]BooksBalance` |
| | `EntriesKnown` | `[]EntriesKnownUnlessRaced` |
| | `BackupRestores` | `[]QuietBackupRestores` |
| | `SessionsInOrder` | `[]SessionOrder` |
| | `NewCodesUnique`, `SavedStay`, `SampleIsComplete` | the action properties `NewCodesUniqueUnlessRaced`, `SavedRowsStay` and `SampleComplete` |
| | `Refinement` | `ActsLikeMemory`: `LocalStore` implements `DemoLedger` until a write is raced |
| `LedgerPageProofs` | `PageInvariant`, `TypeCorrect` | the inductive invariant, `[]TypeOK` |
| | `EnteredTwiceOnlyAfterLoss` | `[]DuplicateOnlyAfterLoss` |
| | `ReportedShown`, `QuietShows` | `[]ReportedIsShown`, `[]QuietShowsAll` |
| | `PanelTellsTheTruth`, `OneUpload` | `[]DoneIsDone`, `[]OneUploadUnlessOverlapped` |
| | `KeysSuffice` | `[]KeysReachEveryRow` |
| `FiniteSumsProofs` | lemmas only | additivity (`SumAdd`), type, zero and single terms, extension by a term, exchange of two sums, sums over a set sorted by a key |

### LedgerDB

`TypeOK` is inductive by itself once every statement is seen as the same kind of
step: it puts values of the schema into the overlays and leaves the committed
tables alone (`StatementOf` in `LedgerDBProofs`, one lemma per statement).

`SettledIsFrozen` is not inductive: a COMMIT could bring an entry of a
transaction that another session settled in the meantime. `FrozenInv` adds what
the triggers' locks guarantee: locks of two sessions on a row never conflict, a
session that wrote an entry of a transaction, before or after the change, still
holds a lock on the parent, and a parent it only share-locked is not settled.
Then a committed settled transaction is in no other session's overlay, and
COMMIT cannot change it (`CommitFrozen`).

`BalanceIsPostedSum` says nothing of uncommitted work, so it is not inductive
either. `BalanceInv` adds to `FrozenInv`:

* `SeenAgrees(s)`: in what session `s` sees, its own writes included, every
  balance is the sum of the entries in the ledger. A COMMIT then only publishes
  a fact that holds already.
* `MovesOnlyLocked(s)`: on an account whose balance row `s` has not locked, what
  `s` sees adds up to what is committed, entry by entry. This is what lets two
  sessions be added: of two that both moved an account, one would have waited.
* `ParentsExist`: every entry has a parent, committed and in each view. Without
  it `InsertTxn` could bring orphaned entries into the ledger.

A statement moves balances and sums by the same amount on the accounts it locks
and changes no contribution elsewhere (`ViewStep`, one lemma per statement,
from the lemmas on sums). When `s` commits, each entry is to another session
`r` either as `r` saw it and untouched by `s`, or as `s` saw it and untouched by
`r` (`CommitRows`, from the locks of `FrozenInv` on rows and parents); an account
is then settled by whichever of the two may have locked it (`CommitAgrees`).

`PostedIsBalanced` needs what a session's checks have found to last until its
COMMIT, though others commit in between. `PostedInv` adds `CheckedInv`: while a
session is committing, each transaction it has to check balances in what it sees.
A commit of another session changes what it sees of a transaction only where both
hold it in share mode, and then neither has changed its status. In that case
(`MergedBalance`) the transaction as both see it is the committed one plus the
changes of each, which no entry has twice: three balanced versions make a
balanced fourth. A transaction that two sessions empty together (`ledger_skew`)
balances all the same.

### Sums

The sums of `FiniteSums` are a recursive function; its existence, defining
equation and additivity are proved from the least counterexample (`LeastNat`),
without an induction theorem over operators. A sum over a finite set goes through
a listing of its elements, each once (`ListingLists`); that the order does not
matter is `SumSwap` applied to a table with one term in each row (`SumOverPick`),
and gives `SumByKey`: sums of the terms with each key, added up over a set of
keys, are the sum of the terms whose key is in the set.

### AccountTree

`ParentIsLive` is not inductive: a COMMIT publishes a parent that was looked up
earlier. `LiveInv` adds that the parent of a row that is written and not
committed is live and nobody's delete is about it (`WrittenUnderLive`, the FOR KEY
SHARE lock), and that a row being deleted has no committed child
(`DeletedIsBare`).

`AcyclicUnlessOverlapped` needs to say what a walk has established while the rows
behind it go on changing. `WalkInside`: take any set B that holds the new parent
of the moved account and the parents of all its other members, that is, a set the
move would close to a cycle; the walk has not left B. A turn of the walk stays in
B since the account it looks at is another member (or the trigger raises).
Commits of others do not break it: a deleted row is in no such set, an inserted
one is nobody's parent and can be taken out of B (this is where `ParentIsLive` is
used), and no other move is in flight. At COMMIT the walk has come to the top,
which is outside every B (`WrittenAtTop`); so the move closes no cycle. No
induction over the length of a path is needed. The depth limit plays no part: it
only refuses more.

### Ingest

`OneDraftPerHash` and `DoneIsFinal` follow from `IngestInv`: queues hold uploaded
batches only (`Queues`), a worker outside the transaction holds nothing and one
inside holds fingerprints of its own batch (`Place`), and a held fingerprint is
held by one worker and drafted nowhere (`HeldFresh`, what the unique index
guarantees before the COMMIT). For the refinement `Place` also says of every
record before the one at hand that it has been passed: it is well formed, and its
fingerprint was drafted at some time or is held. So at COMMIT every fingerprint of
the batch has been drafted, which is the atomic step of `IngestPromise`; a scan,
hint, crash, deadlock or failing statement changes nothing there, and marking
refuses a batch only if it has not ended. `DoneIsFinal` is an action property:
`markFailed` changes only rows that are not terminal, which the code does in the
statement's WHERE clause rather than by what it read before.

### BalanceFeed

`QuietAgrees` speaks of a state in which nothing is on its way. `Flow` says for each
stage of the pipeline what holds once all stages before it are empty: a
transaction noted last the value it holds (`LastNoted`), the wire ends with the
committed balance (`WireEnds`), then the mailbox ends with it or with a request
to read it (`InboxEnds`), then the last frame carries it (`SocketEnds`), then the
store shows it (`StoreEnds`). A step that empties a stage hands its last element to
the next, so that what held of the one holds of the other. `FlowInv` claims this
only while `upset` is empty: each of the five causes is a step that appends, drops
or overwrites something else than the balance committed last.

### Settlement

`RoundingAgrees` compares the two definitions by cases on the remainder; uniqueness
of quotient and remainder (`DivUnique`) carries the signs. `SchedInv`, the
inductive invariant for `ScheduleStaysIn`, keeps for whichever side is running
that the balance is between its limits, that accumulated depreciation and book
value add up to the cost, and that the record at hand has passed the generator's
format check; the clamp to what is left is all that the proof uses of the
formulas, so it holds whatever the rounding.

`TypeInv` adds to `SchedInv` the numbers in working storage (`Position`) and what no
arithmetic touches (`Frame`). `PassInv` adds that a file is damaged only while it
waits for its check (`Damage`): a damaged line is then found when the input is
read back, and a check without a finding has seen the lines that belong to it.

`ParityHolds` cannot be shown by comparing two programs that run one after the
other, unless the first one's work is remembered. `Advance` is one step of the
reference as a relation between positions; a run of the reference is a function
`s` with `s[0] = Start(f)` and `Advance(f, s[i], s[i + 1])` (`IsRun`). `ParityInv`
says that while the reference works it is on such a run (`Reaches`), that once it
is done the run from the start finishes with its lines (`Finishes`), and that the
program under check is at a position through which this run passes. `Advance` is a
function, so the program's next step, which computes the same figure because of
`RoundingAgrees` or stops at its own width, stays on the run; at the end of the
file it has printed the same lines.

`SchedulesClose` is proved for the reference by `Accounting`: of a finished record the
column of repaid parts adds up to what was to be repaid, and of the record at hand
the lines so far account for what is gone of its balance (`Books`, from `SumExtend`
as each line is appended). The program's lines are then the reference's. For
`BalancedBookTotalsZero` the totals of all accounts add up to zero whenever a whole
number of pairs is worked off, and to the first entry's figure in between; a
debit and its credit are converted to the same figure, on either side because of
`RoundingAgrees`. The totals are added over any order of the accounts, so codes are
finitely many.

### LocalStore

`LocalInv` speaks of every book that may become the contents of the stores
(`AccountBooks`, `TxnBooks`): what is stored, what an export has read, what a backup
holds. Only so is it inductive, as an import may bring any of them back. Its
parts: records have their fields (`Shapes`); identifiers were handed out or typed
into a file, a
pending row has one nobody has, and rows of a session are numbered in the order
they were entered, in every book (`Identities`); until a write is raced
stored rows are valid over the stored accounts, a write that is not stale is
still valid and an export that is clean has read a valid pair (`Unbroken`), which
says nothing of codes, since a file may bring one twice; clean backups can be
restored (`Restorable`); exports under way count against the bound
(`ExportBound`). `SampleIsComplete` needs that flattening
months of at least `PerMonth` rows leaves no row out (`FlatSound`, by least
counterexample on the fold's own table).

`BooksBalance` holds even when writes are raced. `BooksSound` says of every book,
and of every row on its way, that its entries have natural amounts and one of two
directions and balance in each currency they use (`SoundRow`): a form's body, the
sample and a file are validated for it, against whichever accounts, and a row
edited by hand to one entry is refused for its length. From there it is about
sums alone: a transaction that balances in each currency balances as a whole
(`NetOfZero`, `SumByKey` with currencies as keys), so its debits are its credits
(`SidesEven`) and so are those of any selection of rows (`TotalsEven`); the
balances of one currency are a sum over its accounts of sums over rows, and
exchanged (`SumOverOver`) the inner sum is what one row moves in that currency,
which is nothing (`RowCancels`).

For `ActsLikeMemory` a `PutRow` is mapped to the creation of the row: a write that
is not stale is still valid (`Unbroken`), and its body resolves to the same
accounts as when it was read (`ResolveStays`: an account that was added since has
another code, so the accounts of the body's codes are the same, one or several).
`NewCodesUnique` follows from the same fact about a pending account. All that
goes before it is a stutter, and a replacement is a change of profile.

### LedgerPage

`PageInv` follows three things through the awaits. A transaction that is not
counted as lost is stored once at most, not before its submission is, and is
neither submitted nor in the form once it was reported (`Entered`). A batch that
may enter rows is followed by a run, reported or lost (`Accounted`), a run knows
its batch (`RunsSound`), and a file's rows are those of a batch that is done
(`Filed`). Of an item that was reported there is a load that brings it (`Carried`):
one that started after the item was stored, and has ended or is under way, so that
it and every later one shows the item (`Brought`). Loads that end out of order are
why `ReportedIsShown` asks for the last load to end to be the last that started.

### Only model-checked

Liveness (`WalkEnds`, `EveryBatchEnds`, `CatchesUp`, `UploadEnds`): weak fairness is
defined by ENABLED, which the provers do not handle. The properties that runs
show violated have no theorem.

## 5. Plan

Done: `LedgerDB`, `AccountTree`, `Ingest`, `BalanceFeed`, `Settlement`, `LocalStore`
over `LedgerCore` and `DemoLedger`, `LedgerPage`; theorems for every property that
a run shows to hold, liveness apart.

Left:

1. Modules: `BudgetWatch` (threshold, claim, broadcast, crashes), `TransferLinks`
   (INV-5 beside `LedgerDB`), `LedgerSocket` (the hook's timers and effect
   re-runs), `RuleSandbox` (action cap, timeout), with their theorems.
2. Pure algorithms: amount parsing at 18 digits, rule priority and explanation,
   evaluation of the rules DSL, against reference definitions.

## 6. Not modelled

Row-level security and several owners (one owner's rows never meet another's in
a statement); authentication; budget alerts, transfer links, the Go worker's
sandbox, rates and records, classification rules and rules DSL (planned above);
text decoding, parsing and cryptography of statements; statistics and simulation;
rendering, theme, sidebar, the contents of the details, names and memos, the
install prompt and the service worker of the installed app; contracts, code
generation, build and infrastructure scripts. `PROJECT.json` lists every component
with its status, and the hazards no property covers with the reason.
