------------------------------ MODULE LedgerPage ------------------------------
(***************************************************************************)
(* The ledger page of one browser: the store that loads the ledger, the form *)
(* for a manual transaction, the panel that uploads statements through a      *)
(* worker thread, the filter and the keyboard cursor.  Every await is a point *)
(* where any other handler may run.  The server is external: it saves a        *)
(* submission, answers reads, and processes a batch in its own time.           *)
(*                                                                           *)
(* App.jsx gives the page no socket, so no frame reaches the store here        *)
(* (BalanceFeed models the merge).  While the store's last load has failed the *)
(* page shows an error instead of its children: they are unmounted, their      *)
(* state is lost and the worker thread is terminated, but calls under way go    *)
(* on.                                                                        *)
(***************************************************************************)
EXTENDS Integers, FiniteSets

CONSTANTS Drafts,     \* transactions the user means to enter, each once
          Files,      \* statements to upload
          Filters,    \* what the period, account and search fields let through
          MaxPolls,   \* polls of a batch before the panel gives up
          MaxActs,    \* bound: submissions, files chosen and retries
          MaxFaults   \* bound: requests, reads and parses that fail

ASSUME PageAssumption ==
  /\ Drafts \cap Files = {} /\ MaxPolls \in Nat \ {0}
  /\ MaxActs \in Nat /\ MaxFaults \in Nat

VARIABLES
  saved,    \* rows of the server: <<item, copy>>
  batch,    \* per upload: its file and its state
  store,    \* rows, balances (the rows they count), accounts loaded, failed
  loads,    \* loads under way: no, what was read of rows and of balances
  loadNos,  \* loads started, the latest that ended, the one shown
  form,     \* what is typed, and whether its button is disabled
  subs,     \* submissions under way
  panel,    \* phase, and the file whose summary is kept
  runs,     \* uploads under way
  told,     \* history: items that the page reported as entered
  lost,     \* history: items whose outcome the page did not learn
  overlapped, \* history: a file was chosen while another was being read
  acts, faults

server == <<saved, batch>>
loading == <<store, loads, loadNos>>
entry  == <<form, subs>>
upload == <<panel, runs, overlapped>>
vars   == <<server, loading, entry, upload, told, lost, acts, faults>>

None == "none"
Unread == [read |-> FALSE, rows |-> {}]
EmptyForm == [draft |-> None, busy |-> FALSE]
IdlePanel == [phase |-> "idle", summary |-> None]

Items == Drafts \cup Files

Fault == faults < MaxFaults /\ faults' = faults + 1 /\ UNCHANGED acts

Act == acts < MaxActs /\ acts' = acts + 1 /\ UNCHANGED faults

----------------------------------------------------------------------------
(* Loading *)

\* The three requests leave together; the one for accounts gives what never changes here.
Started(ls, no) == ls \cup {[no |-> no, rows |-> Unread, balances |-> Unread]}

StartLoad ==
  /\ loads' = Started(loads, loadNos.started + 1)
  /\ loadNos' = [loadNos EXCEPT !.started = @ + 1]
  /\ UNCHANGED store

\* The button of the error page stays enabled while a load is under way.
Retry ==
  /\ store.failed /\ Act /\ StartLoad
  /\ UNCHANGED <<server, entry, upload, told, lost>>

ReadRows(l) ==
  /\ ~ l.rows.read
  /\ loads' = (loads \ {l}) \cup {[l EXCEPT !.rows = [read |-> TRUE, rows |-> saved]]}
  /\ UNCHANGED <<server, store, loadNos, entry, upload, told, lost, acts, faults>>

ReadBalances(l) ==
  /\ ~ l.balances.read
  /\ loads' = (loads \ {l}) \cup {[l EXCEPT !.balances = [read |-> TRUE, rows |-> saved]]}
  /\ UNCHANGED <<server, store, loadNos, entry, upload, told, lost, acts, faults>>

Later(a, b) == IF a > b THEN a ELSE b

\* Submissions that wait for load no: addTxn returns whether it succeeds or not.
WaitFor(no) == {s \in subs : s.stage = "loading" /\ s.load = no}

\* setMemo and setRawAmount clear whatever is typed by then.
Resolve(no) ==
  /\ subs' = subs \ WaitFor(no)
  /\ form' = IF \E s \in WaitFor(no) : s.live THEN EmptyForm ELSE form
  /\ told' = told \cup {s.draft : s \in WaitFor(no)}

\* Mutant: the balances are left to the channel.
RowsOnly(l) ==
  [rows |-> l.rows.rows, balances |-> store.balances, accounts |-> TRUE, failed |-> FALSE]

Answer(l) ==
  [rows |-> l.rows.rows, balances |-> l.balances.rows, accounts |-> TRUE, failed |-> FALSE]

LoadAll(l) ==
  /\ l.rows.read /\ l.balances.read
  /\ store' = Answer(l)
  /\ loads' = loads \ {l}
  /\ loadNos' = [loadNos EXCEPT !.ended = Later(@, l.no), !.shown = l.no]
  /\ Resolve(l.no)
  /\ UNCHANGED <<server, upload, lost, acts, faults>>

\* terminate: an upload that waits for the worker, or is yet to call it, gets no answer.
Terminated == {r \in runs : r.live /\ r.stage \in {"reading", "parsing", "encrypting"}}

\* One of the requests fails; the children are unmounted.
LoadFails(l) ==
  /\ Fault
  /\ store' = [store EXCEPT !.failed = TRUE]
  /\ loads' = loads \ {l}
  /\ loadNos' = [loadNos EXCEPT !.ended = Later(@, l.no)]
  /\ form' = EmptyForm /\ panel' = IdlePanel
  /\ subs' = {[s EXCEPT !.live = FALSE] : s \in subs \ WaitFor(l.no)}
  /\ runs' = {[r EXCEPT !.live = FALSE] : r \in runs \ Terminated}
  /\ told' = told \cup {s.draft : s \in WaitFor(l.no)}
  /\ lost' = lost \cup {s.draft : s \in {x \in subs \ WaitFor(l.no) : x.live}}
                  \cup {r.file : r \in {x \in runs : x.live}}
  /\ UNCHANGED <<server, overlapped>>

----------------------------------------------------------------------------
(* The form *)

Copies(d) == {x \in saved : x[1] = d}

\* The user enters what the page neither shows nor has reported.  The fields stay
\* enabled while a submission is under way.
Type(d) ==
  /\ ~ store.failed /\ store.accounts
  /\ form.draft # d /\ d \notin told
  /\ \A x \in store.rows : x[1] # d
  /\ \A s \in subs : s.live => s.draft # d
  /\ form' = [form EXCEPT !.draft = d]
  /\ UNCHANGED <<server, loading, subs, upload, told, lost, acts, faults>>

\* Mutant: the button stays enabled.
SubmittableAlways == form.draft # None

Submittable == form.draft # None /\ ~ form.busy

\* A complete draft; an incomplete one returns before anything is sent.
HandleSubmit ==
  /\ ~ store.failed /\ Submittable /\ Act
  /\ form' = [form EXCEPT !.busy = TRUE]
  /\ subs' = subs \cup {[no |-> acts + 1, draft |-> form.draft, stage |-> "posting",
                         load |-> 0, live |-> TRUE]}
  /\ UNCHANGED <<server, loading, upload, told, lost>>

Advance(s, stage, no) == subs' = (subs \ {s}) \cup {[s EXCEPT !.stage = stage, !.load = no]}

\* External: POST /api/txns inserts the row.
Save(s) ==
  /\ s.stage = "posting"
  /\ saved' = saved \cup {<<s.draft, Cardinality(Copies(s.draft)) + 1>>}
  /\ Advance(s, "saved", 0)
  /\ UNCHANGED <<batch, loading, form, upload, told, lost, acts, faults>>

\* Mutant: the list is not loaded again.
AddTxnOnly(s) ==
  /\ s.stage = "saved"
  /\ subs' = subs \ {s}
  /\ form' = IF s.live THEN EmptyForm ELSE form
  /\ told' = told \cup {s.draft}
  /\ UNCHANGED <<server, loading, upload, lost, acts, faults>>

\* The answer of createTxn arrives, and addTxn loads the list.
AddTxn(s) ==
  /\ s.stage = "saved"
  /\ StartLoad
  /\ Advance(s, "loading", loadNos.started + 1)
  /\ UNCHANGED <<server, form, upload, told, lost, acts, faults>>

\* Mutant: no finally.
KeepBusy(s) == form' = form

FreeButton(s) == form' = IF s.live THEN [form EXCEPT !.busy = FALSE] ELSE form

\* createTxn throws: refused, or its answer is lost.
AddTxnFails(s) ==
  /\ s.stage \in {"posting", "saved"} /\ Fault
  /\ subs' = subs \ {s}
  /\ FreeButton(s)
  /\ lost' = IF s.stage = "saved" THEN lost \cup {s.draft} ELSE lost
  /\ UNCHANGED <<server, loading, upload, told>>

----------------------------------------------------------------------------
(* The upload panel *)

\* Mutant: the fields are enabled while the file is sent.
BusyButUploading == panel.phase \in {"parsing", "encrypting", "processing"}

Busy == panel.phase \in {"parsing", "encrypting", "uploading", "processing"}

\* The phase is set once the file has been read, so a second file may be chosen before.
ChooseFile(f) ==
  /\ ~ store.failed /\ store.accounts /\ ~ Busy /\ Act
  /\ runs' = runs \cup {[no |-> acts + 1, file |-> f, stage |-> "reading", polls |-> 0,
                         seen |-> "received", live |-> TRUE]}
  /\ panel' = [panel EXCEPT !.summary = None]
  /\ overlapped' = (overlapped \/ \E r \in runs : r.live /\ r.stage = "reading")
  /\ UNCHANGED <<server, loading, entry, told, lost>>

SetPhase(r, phase) == panel' = IF r.live THEN [panel EXCEPT !.phase = phase] ELSE panel

Goto(r, stage) == runs' = (runs \ {r}) \cup {[r EXCEPT !.stage = stage]} /\ SetPhase(r, stage)

BytesRead(r) ==
  /\ r.stage = "reading" /\ Goto(r, "parsing")
  /\ UNCHANGED <<server, loading, entry, overlapped, told, lost, acts, faults>>

\* The worker answers the message with the run's id.
Answered(r, stage, next) ==
  /\ r.stage = stage /\ Goto(r, next)
  /\ UNCHANGED <<server, loading, entry, overlapped, told, lost, acts, faults>>

Parsed(r) == Answered(r, "parsing", "encrypting")

Encrypted(r) == Answered(r, "encrypting", "uploading")

Received(r) == [file |-> r.file, state |-> "received"]

\* POST /api/ingest inserts the batch and answers.
Uploaded(r) ==
  /\ r.stage = "uploading"
  /\ batch' = [batch EXCEPT ![r.no] = Received(r)]
  /\ Goto(r, "processing")
  /\ UNCHANGED <<saved, loading, entry, overlapped, told, lost, acts, faults>>

\* External: the batch is processed; rows that are there already are not made again.
Process(n) ==
  /\ batch[n].state = "received"
  /\ \E outcome \in {"done", "failed"} :
       /\ batch' = [batch EXCEPT ![n].state = outcome]
       /\ saved' = IF outcome = "done" THEN saved \cup {<<batch[n].file, 1>>} ELSE saved
  /\ UNCHANGED <<loading, entry, upload, told, lost, acts, faults>>

Ended(r) == r.seen \in {"done", "failed"}

\* Mutant: the loop has no limit.
PollForever(r) ==
  /\ r.stage = "processing" /\ ~ Ended(r)
  /\ runs' = (runs \ {r}) \cup {[r EXCEPT !.seen = batch[r.no].state]}
  /\ UNCHANGED <<server, loading, entry, panel, overlapped, told, lost, acts, faults>>

Poll(r) ==
  /\ r.stage = "processing" /\ ~ Ended(r) /\ r.polls < MaxPolls
  /\ runs' = (runs \ {r}) \cup {[r EXCEPT !.polls = @ + 1, !.seen = batch[r.no].state]}
  /\ UNCHANGED <<server, loading, entry, panel, overlapped, told, lost, acts, faults>>

\* Mutant: what has not failed is done.
NotFailed(r) == r.seen # "failed"

Succeeded(r) == r.seen = "done"

\* The summary and the phase are set, and onDone loads the list.
RunDone(r) ==
  /\ r.stage = "processing" /\ (Ended(r) \/ r.polls = MaxPolls) /\ Succeeded(r)
  /\ runs' = runs \ {r}
  /\ panel' = IF r.live THEN [phase |-> "done", summary |-> r.file] ELSE panel
  /\ StartLoad
  /\ told' = told \cup {r.file}
  /\ UNCHANGED <<server, entry, overlapped, lost, acts, faults>>

\* The time limit, or a batch that failed.
RunGivesUp(r) ==
  /\ r.stage = "processing" /\ (Ended(r) \/ r.polls = MaxPolls) /\ ~ Succeeded(r)
  /\ runs' = runs \ {r} /\ SetPhase(r, "error")
  /\ lost' = IF Ended(r) THEN lost ELSE lost \cup {r.file}
  /\ UNCHANGED <<server, loading, entry, overlapped, told, acts, faults>>

\* Any await throws; the upload may have arrived.
RunFails(r) ==
  /\ Fault
  /\ runs' = runs \ {r} /\ SetPhase(r, "error")
  /\ \E arrived \in {FALSE, r.stage = "uploading"} :
       batch' = IF arrived THEN [batch EXCEPT ![r.no] = Received(r)] ELSE batch
  /\ lost' = IF r.stage \in {"uploading", "processing"} THEN lost \cup {r.file} ELSE lost
  /\ UNCHANGED <<saved, loading, entry, overlapped, told>>

----------------------------------------------------------------------------
(* Filter and cursor *)

\* The cursor is the index of a row in the filtered list, -1 for none; a filter or a
\* reload changes the list under it.
Filtered(p) == {x \in store.rows : x[1] \in p}

\* Mutant: the last row is never reached.
DownShort(i, count) == IF i + 1 < count - 2 THEN i + 1 ELSE count - 2

\* The keys j and k.
Down(i, count) == IF i + 1 < count - 1 THEN i + 1 ELSE count - 1

Up(i, count) == Later((IF i < 0 THEN count ELSE i) - 1, 0)

\* The highlighted row; a cursor that an earlier list has left beyond the end has none.
Active(i, count) == i \in 0 .. (count - 1)

\* onEnter and onEdit open the details; a settled row has nothing to edit.
Open(c, count) == IF Active(c.at, count) THEN [c EXCEPT !.detail = c.at] ELSE c

\* onEscape closes the details and leaves the search field.
Close(c) == [c EXCEPT !.detail = -1, !.focus = IF @ = "search" THEN "page" ELSE @]

IsTypingTarget(focus) == focus # "page"

\* Escape works everywhere, the other keys not in a field one types in.
KeyDown(key, c, count) ==
  IF key # "Escape" /\ IsTypingTarget(c.focus) THEN c
  ELSE CASE key = "Escape" -> Close(c)
         [] key = "j"      -> [c EXCEPT !.at = Down(@, count)]
         [] key = "k"      -> [c EXCEPT !.at = Up(@, count)]
         [] key = "Enter"  -> Open(c, count)
         [] key = "/"      -> [c EXCEPT !.focus = "search"]

\* The table scrolls to the cursor, if it is one of its rows.
Followed(c, count) == c.at >= 0 /\ c.at < count

----------------------------------------------------------------------------
(* Specification *)

\* The page has been mounted and its effect has started the first load.
Init ==
  /\ saved = {} /\ batch = [n \in 1 .. MaxActs |-> [file |-> None, state |-> None]]
  /\ store = [rows |-> {}, balances |-> {}, accounts |-> FALSE, failed |-> FALSE]
  /\ loads = Started({}, 1) /\ loadNos = [started |-> 1, ended |-> 0, shown |-> 0]
  /\ form = EmptyForm /\ subs = {}
  /\ panel = IdlePanel /\ runs = {}
  /\ told = {} /\ lost = {} /\ overlapped = FALSE /\ acts = 0 /\ faults = 0

\* The awaits that end as they should.
Settle ==
  \/ \E l \in loads : ReadRows(l) \/ ReadBalances(l) \/ LoadAll(l)
  \/ \E s \in subs : Save(s) \/ AddTxn(s)
  \/ \E r \in runs : \/ BytesRead(r) \/ Parsed(r) \/ Encrypted(r) \/ Uploaded(r)
                     \/ Poll(r) \/ RunDone(r) \/ RunGivesUp(r)

Failure ==
  \/ \E l \in loads : LoadFails(l)
  \/ \E s \in subs : AddTxnFails(s)
  \/ \E r \in runs : RunFails(r)

User ==
  \/ Retry \/ HandleSubmit
  \/ \E d \in Drafts : Type(d)
  \/ \E f \in Files : ChooseFile(f)

Next ==
  \/ Settle \/ Failure \/ User
  \/ \E n \in 1 .. MaxActs : Process(n)

\* The browser settles its awaits, in any order: requests end, the worker answers,
\* timers fire.  Nothing is assumed of the user and of the server's batches.
Fairness == WF_vars(Settle)

Spec == Init /\ [][Next]_vars /\ Fairness

----------------------------------------------------------------------------
(* Properties *)

\* Only a mounted page has live work, a busy button belongs to a live submission, and
\* numbers stay in their bounds.
TypeOK ==
  /\ store.failed => \A x \in subs \cup runs : ~ x.live
  /\ form.busy = (\E s \in subs : s.live)
  /\ Cardinality({s \in subs : s.live}) <= 1
  /\ loadNos.shown <= loadNos.ended /\ loadNos.ended <= loadNos.started
  /\ \A r \in runs : r.polls \in 0 .. MaxPolls
  /\ store.rows \subseteq saved
  /\ told \cup lost \subseteq Items /\ faults \in 0 .. MaxFaults

\* addTxn keeps a failed reload apart from a failed save, and the button is disabled
\* meanwhile: a transaction is entered twice only if the outcome of the first attempt
\* was lost, on the way or with the form.
DuplicateOnlyAfterLoss ==
  \A d \in Drafts : Cardinality(Copies(d)) > 1 => d \in lost

\* No answer is shown that an answer of a later load preceded.
InOrder == loadNos.shown = loadNos.ended

\* Once no load is under way, all that the page reported as entered is in the list and
\* in the balances, unless the last answer was out of order.
ReportedIsShown ==
  loads = {} /\ ~ store.failed /\ InOrder
    => \A i \in told : <<i, 1>> \in store.rows \cap store.balances

\* Once nothing is under way the list and the balances are those of the server, though
\* they are read apart, unless the page lost track of a request.
QuietShowsAll ==
  /\ loads = {} /\ subs = {} /\ runs = {} /\ lost = {}
  /\ ~ store.failed /\ InOrder
  => store.rows = saved /\ store.balances = saved

\* The panel says that a file is entered only when its batch is done.
DoneIsDone ==
  panel.phase = "done" /\ panel.summary # None
    => \E n \in 1 .. MaxActs : batch[n] = [file |-> panel.summary, state |-> "done"]

\* The panel uploads one file at a time, unless a file was chosen before the one
\* before it had been read.
OneUploadUnlessOverlapped ==
  ~ overlapped => Cardinality({r \in runs : r.live}) <= 1

Distance(a, b) == IF a > b THEN a - b ELSE b - a

\* Every row of the list can be reached and opened by keys alone, whatever the filter,
\* wherever an earlier, longer list has left the cursor, from the page or the search
\* field: one of the keys brings the cursor closer, and the table follows.
KeysReachEveryRow ==
  \A p \in Filters, focus \in {"page", "search"} :
    LET count == Cardinality(Filtered(p))
    IN \A at \in -1 .. Cardinality(saved), row \in 0 .. (count - 1) :
         LET c == KeyDown("Escape", [at |-> at, detail |-> -1, focus |-> focus], count)
         IN IF at = row THEN KeyDown("Enter", c, count).detail = row
            ELSE \E key \in {"j", "k"} :
                   LET next == KeyDown(key, c, count)
                   IN Followed(next, count) /\ Distance(next.at, row) < Distance(at, row)

\* Every upload the panel shows ends, whatever the worker and the server do.
UploadEnds ==
  \A f \in Files : LET on == \E r \in runs : r.live /\ r.file = f IN on ~> ~ on
=============================================================================
