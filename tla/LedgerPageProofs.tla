-------------------------- MODULE LedgerPageProofs --------------------------
(***************************************************************************)
(* The ledger page, for any transactions, files, filters and bounds: what it  *)
(* shows, reports and enters, whatever awaits interleave and whatever fails.  *)
(*                                                                           *)
(* The invariant follows three things across the awaits: a transaction from   *)
(* the form through its submission to its row; a file from its run through    *)
(* its batch to its rows; and an item that was reported to the load that      *)
(* brings it, which is one that started after the item was stored.            *)
(***************************************************************************)
EXTENDS LedgerPage, FiniteSetTheorems, TLAPS

Read(S) == [read : BOOLEAN, rows : SUBSET S]

LoadsOf(S, n) == [no : 1 .. n, rows : Read(S), balances : Read(S)]

Subs == [no : Nat, draft : Drafts, stage : {"posting", "saved", "loading"}, load : Nat,
         live : BOOLEAN]

Runs == [no : 1 .. MaxActs, file : Files,
         stage : {"reading", "parsing", "encrypting", "uploading", "processing"},
         polls : 0 .. MaxPolls, seen : {None, "received", "done", "failed"}, live : BOOLEAN]

Batches == [file : Files, state : {"received", "done", "failed"}] \cup [file : {None}, state : {None}]

ServerShape ==
  /\ saved \subseteq Items \X (Nat \ {0}) /\ IsFiniteSet(saved)
  /\ batch \in [1 .. MaxActs -> Batches]

LoadShape ==
  /\ store \in [rows : SUBSET saved, balances : SUBSET saved, accounts : BOOLEAN, failed : BOOLEAN]
  /\ loadNos \in [started : Nat, ended : Nat, shown : Nat]
  /\ loadNos.shown <= loadNos.ended /\ loadNos.ended <= loadNos.started
  /\ loads \subseteq LoadsOf(saved, loadNos.started)

EntryShape ==
  /\ form \in [draft : Drafts \cup {None}, busy : BOOLEAN]
  /\ subs \subseteq Subs

UploadShape ==
  /\ panel \in [phase : {"idle", "parsing", "encrypting", "uploading", "processing", "done", "error"},
                summary : Files \cup {None}]
  /\ runs \subseteq Runs /\ overlapped \in BOOLEAN

HistoryShape ==
  /\ told \subseteq Items /\ lost \subseteq Items
  /\ acts \in 0 .. MaxActs /\ faults \in 0 .. MaxFaults

Shapes == ServerShape /\ LoadShape /\ EntryShape /\ UploadShape /\ HistoryShape

----------------------------------------------------------------------------
(* Shapes *)

\* Requests that read, and numbers that are given to loads.
LEMMA LoadFields ==
  ASSUME NEW S, NEW n \in Nat, NEW l \in LoadsOf(S, n), NEW S2, S \subseteq S2
  PROVE  /\ l \in LoadsOf(S2, n) /\ l \in LoadsOf(S2, n + 1)
         /\ LET q == [l EXCEPT !.rows = [read |-> TRUE, rows |-> S]]
            IN q \in LoadsOf(S, n) /\ q.no = l.no /\ q.balances = l.balances
               /\ q.rows.read = TRUE /\ q.rows.rows = S
         /\ LET q == [l EXCEPT !.balances = [read |-> TRUE, rows |-> S]]
            IN q \in LoadsOf(S, n) /\ q.no = l.no /\ q.rows = l.rows
               /\ q.balances.read = TRUE /\ q.balances.rows = S
<1>1. l \in LoadsOf(S2, n) /\ l \in LoadsOf(S2, n + 1)
  <2>1. Read(S) \subseteq Read(S2) /\ 1 .. n \subseteq 1 .. (n + 1)
    BY DEF Read
  <2> QED
    BY <2>1 DEF LoadsOf
<1>2. [read |-> TRUE, rows |-> S] \in Read(S)
  BY DEF Read
<1> DEFINE x == [read |-> TRUE, rows |-> S]
<1>3. x \in Read(S) /\ x.read = TRUE /\ x.rows = S
  BY <1>2
<1> HIDE DEF x
<1>4. /\ LET q == [l EXCEPT !.rows = x]
         IN q \in LoadsOf(S, n) /\ q.no = l.no /\ q.balances = l.balances /\ q.rows = x
      /\ LET q == [l EXCEPT !.balances = x]
         IN q \in LoadsOf(S, n) /\ q.no = l.no /\ q.rows = l.rows /\ q.balances = x
  BY <1>3 DEF LoadsOf
<1> QED
  BY <1>1, <1>3, <1>4 DEF x

\* A submission changes its stage and load, or is unmounted.
LEMMA SubFields ==
  ASSUME NEW s \in Subs
  PROVE  /\ \A stage \in {"posting", "saved", "loading"}, no \in Nat :
              LET q == [s EXCEPT !.stage = stage, !.load = no]
              IN q \in Subs /\ q.draft = s.draft /\ q.live = s.live /\ q.stage = stage /\ q.load = no
         /\ LET q == [s EXCEPT !.live = FALSE]
            IN /\ q \in Subs /\ q.draft = s.draft /\ q.live = FALSE /\ q.stage = s.stage
               /\ q.load = s.load
BY DEF Subs

\* A run changes its stage, polls, or is unmounted.
LEMMA RunFields ==
  ASSUME NEW r \in Runs, NEW stage \in {"reading", "parsing", "encrypting", "uploading", "processing"},
         NEW seen \in {None, "received", "done", "failed"}
  PROVE  /\ LET q == [r EXCEPT !.stage = stage]
            IN /\ q \in Runs /\ q.no = r.no /\ q.file = r.file /\ q.stage = stage
               /\ q.seen = r.seen /\ q.live = r.live /\ q.polls = r.polls
         /\ r.polls < MaxPolls =>
              LET q == [r EXCEPT !.polls = @ + 1, !.seen = seen]
              IN /\ q \in Runs /\ q.no = r.no /\ q.file = r.file /\ q.stage = r.stage
                 /\ q.seen = seen /\ q.live = r.live
         /\ LET q == [r EXCEPT !.live = FALSE]
            IN /\ q \in Runs /\ q.no = r.no /\ q.file = r.file /\ q.stage = r.stage
               /\ q.seen = r.seen /\ q.live = FALSE
<1>1. r.polls < MaxPolls => r.polls + 1 \in 0 .. MaxPolls
  BY PageAssumption DEF Runs, PageAssumption
<1>2. ASSUME NEW n \in 0 .. MaxPolls
      PROVE  LET q == [r EXCEPT !.polls = n, !.seen = seen]
             IN /\ q \in Runs /\ q.no = r.no /\ q.file = r.file /\ q.stage = r.stage
                /\ q.seen = seen /\ q.live = r.live
  BY DEF Runs
<1>3. LET q == [r EXCEPT !.stage = stage]
      IN /\ q \in Runs /\ q.no = r.no /\ q.file = r.file /\ q.stage = stage
         /\ q.seen = r.seen /\ q.live = r.live /\ q.polls = r.polls
  BY DEF Runs
<1>4. LET q == [r EXCEPT !.live = FALSE]
      IN /\ q \in Runs /\ q.no = r.no /\ q.file = r.file /\ q.stage = r.stage
         /\ q.seen = r.seen /\ q.live = FALSE
  BY DEF Runs
<1> QED
  BY <1>1, <1>2, <1>3, <1>4

\* A batch that has been uploaded.
LEMMA BatchReceived ==
  ASSUME NEW b \in [1 .. MaxActs -> Batches], NEW r \in Runs
  PROVE  LET c == [b EXCEPT ![r.no] = Received(r)]
         IN /\ c \in [1 .. MaxActs -> Batches]
            /\ r.no \in 1 .. MaxActs
            /\ c[r.no].file = r.file /\ c[r.no].state = "received"
            /\ \A m \in (1 .. MaxActs) \ {r.no} : c[m] = b[m]
<1>1. /\ r.no \in 1 .. MaxActs /\ Received(r) \in Batches
      /\ Received(r).file = r.file /\ Received(r).state = "received"
  BY DEF Runs, Received, Batches
<1> HIDE DEF Received
<1> QED
  BY <1>1

\* A batch that is there has a file.
LEMMA BatchOwner ==
  ASSUME NEW b \in [1 .. MaxActs -> Batches], NEW n \in 1 .. MaxActs, b[n].state # None
  PROVE  /\ b[n].file \in Files /\ b[n].state \in {"received", "done", "failed"}
         /\ b[n] = [file |-> b[n].file, state |-> b[n].state]
<1> DEFINE x == b[n]
<1>1. x \in Batches /\ x.state # None
  OBVIOUS
<1> HIDE DEF x
<1>2. x \in [file : Files, state : {"received", "done", "failed"}]
  BY <1>1 DEF Batches
<1>3. x = [file |-> x.file, state |-> x.state]
  BY <1>2
<1> QED
  BY <1>2, <1>3 DEF x

\* A batch that has been processed.
LEMMA BatchEnds ==
  ASSUME NEW b \in [1 .. MaxActs -> Batches], NEW n \in 1 .. MaxActs, b[n].state = "received",
         NEW outcome \in {"done", "failed"}
  PROVE  LET c == [b EXCEPT ![n].state = outcome]
         IN /\ b[n].file \in Files
            /\ c \in [1 .. MaxActs -> Batches]
            /\ c[n].file = b[n].file /\ c[n].state = outcome
            /\ \A m \in (1 .. MaxActs) \ {n} : c[m] = b[m]
<1> DEFINE x == b[n]
           y == [x EXCEPT !.state = outcome]
<1>1. x \in Batches /\ x.state = "received"
  OBVIOUS
<1> HIDE DEF x
<1>2. x \in [file : Files, state : {"received", "done", "failed"}]
  BY <1>1 DEF Batches, None
<1>3. /\ x.file \in Files /\ y \in [file : {x.file}, state : {outcome}]
  BY <1>2
<1>4. /\ y.file = x.file /\ y.state = outcome
      /\ y \in Batches
  BY <1>3 DEF Batches
<1>5. [b EXCEPT ![n].state = outcome] = [b EXCEPT ![n] = y]
  BY DEF x
<1> HIDE DEF y
<1>6. /\ [b EXCEPT ![n] = y] \in [1 .. MaxActs -> Batches] /\ [b EXCEPT ![n] = y][n] = y
      /\ \A m \in (1 .. MaxActs) \ {n} : [b EXCEPT ![n] = y][m] = b[m]
  BY <1>4
<1> QED
  BY <1>3, <1>4, <1>5, <1>6 DEF x

----------------------------------------------------------------------------
(* Which steps change what *)

\* The steps that change the server.
LEMMA ServerSteps ==
  ASSUME [Next]_vars
  PROVE  \/ UNCHANGED server
         \/ \E s \in subs : Save(s)
         \/ \E r \in runs : Uploaded(r) \/ RunFails(r)
         \/ \E n \in 1 .. MaxActs : Process(n)
<1>1. CASE UNCHANGED vars
  BY <1>1 DEF vars
<1>2. CASE \E l \in loads : ReadRows(l) \/ ReadBalances(l) \/ LoadAll(l) \/ LoadFails(l)
  BY <1>2 DEF ReadRows, ReadBalances, LoadAll, LoadFails
<1>3. CASE \E s \in subs : AddTxn(s) \/ AddTxnFails(s)
  BY <1>3 DEF AddTxn, AddTxnFails
<1>4. CASE \E r \in runs : BytesRead(r) \/ Parsed(r) \/ Encrypted(r) \/ Poll(r) \/ RunDone(r) \/ RunGivesUp(r)
  BY <1>4 DEF BytesRead, Parsed, Encrypted, Answered, Poll, RunDone, RunGivesUp
<1>5. CASE User
  BY <1>5 DEF User, Retry, HandleSubmit, Type, ChooseFile
<1> QED
  BY <1>1, <1>2, <1>3, <1>4, <1>5 DEF Next, Settle, Failure

\* The steps that change the store or the loads.
LEMMA LoadSteps ==
  ASSUME [Next]_vars
  PROVE  \/ UNCHANGED loading
         \/ \E l \in loads : ReadRows(l) \/ ReadBalances(l) \/ LoadAll(l) \/ LoadFails(l)
         \/ StartLoad
<1>1. CASE UNCHANGED vars
  BY <1>1 DEF vars
<1>2. CASE \E s \in subs : Save(s) \/ AddTxn(s) \/ AddTxnFails(s)
  BY <1>2 DEF Save, AddTxn, AddTxnFails
<1>3. CASE \E r \in runs : \/ BytesRead(r) \/ Parsed(r) \/ Encrypted(r) \/ Uploaded(r) \/ Poll(r)
                           \/ RunDone(r) \/ RunGivesUp(r) \/ RunFails(r)
  BY <1>3 DEF BytesRead, Parsed, Encrypted, Answered, Uploaded, Poll, RunDone, RunGivesUp, RunFails
<1>4. CASE User
  BY <1>4 DEF User, Retry, HandleSubmit, Type, ChooseFile
<1>5. CASE \E n \in 1 .. MaxActs : Process(n)
  BY <1>5 DEF Process
<1> QED
  BY <1>1, <1>2, <1>3, <1>4, <1>5 DEF Next, Settle, Failure

\* The steps that change the form or the submissions.
LEMMA EntrySteps ==
  ASSUME [Next]_vars
  PROVE  \/ UNCHANGED entry
         \/ \E l \in loads : LoadAll(l) \/ LoadFails(l)
         \/ \E s \in subs : Save(s) \/ AddTxn(s) \/ AddTxnFails(s)
         \/ HandleSubmit
         \/ \E d \in Drafts : Type(d)
<1>1. CASE UNCHANGED vars
  BY <1>1 DEF vars
<1>2. CASE \E l \in loads : ReadRows(l) \/ ReadBalances(l)
  BY <1>2 DEF ReadRows, ReadBalances
<1>3. CASE \E r \in runs : \/ BytesRead(r) \/ Parsed(r) \/ Encrypted(r) \/ Uploaded(r) \/ Poll(r)
                           \/ RunDone(r) \/ RunGivesUp(r) \/ RunFails(r)
  BY <1>3 DEF BytesRead, Parsed, Encrypted, Answered, Uploaded, Poll, RunDone, RunGivesUp, RunFails
<1>4. CASE Retry \/ \E f \in Files : ChooseFile(f)
  BY <1>4 DEF Retry, ChooseFile
<1>5. CASE \E n \in 1 .. MaxActs : Process(n)
  BY <1>5 DEF Process
<1> QED
  BY <1>1, <1>2, <1>3, <1>4, <1>5 DEF Next, Settle, Failure, User

\* The steps that change the panel or the runs.
LEMMA UploadSteps ==
  ASSUME [Next]_vars
  PROVE  \/ UNCHANGED upload
         \/ \E l \in loads : LoadFails(l)
         \/ \E f \in Files : ChooseFile(f)
         \/ \E r \in runs : \/ BytesRead(r) \/ Parsed(r) \/ Encrypted(r) \/ Uploaded(r) \/ Poll(r)
                            \/ RunDone(r) \/ RunGivesUp(r) \/ RunFails(r)
<1>1. CASE UNCHANGED vars
  BY <1>1 DEF vars
<1>2. CASE \E l \in loads : ReadRows(l) \/ ReadBalances(l) \/ LoadAll(l)
  BY <1>2 DEF ReadRows, ReadBalances, LoadAll
<1>3. CASE \E s \in subs : Save(s) \/ AddTxn(s) \/ AddTxnFails(s)
  BY <1>3 DEF Save, AddTxn, AddTxnFails
<1>4. CASE Retry \/ HandleSubmit \/ \E d \in Drafts : Type(d)
  BY <1>4 DEF Retry, HandleSubmit, Type
<1>5. CASE \E n \in 1 .. MaxActs : Process(n)
  BY <1>5 DEF Process
<1> QED
  BY <1>1, <1>2, <1>3, <1>4, <1>5 DEF Next, Settle, Failure, User

\* The steps that add to what was reported or lost.
LEMMA HistorySteps ==
  ASSUME [Next]_vars
  PROVE  \/ UNCHANGED <<told, lost>>
         \/ \E l \in loads : LoadAll(l) \/ LoadFails(l)
         \/ \E s \in subs : AddTxnFails(s)
         \/ \E r \in runs : RunDone(r) \/ RunGivesUp(r) \/ RunFails(r)
<1>1. CASE UNCHANGED vars
  BY <1>1 DEF vars
<1>2. CASE \E l \in loads : ReadRows(l) \/ ReadBalances(l)
  BY <1>2 DEF ReadRows, ReadBalances
<1>3. CASE \E s \in subs : Save(s) \/ AddTxn(s)
  BY <1>3 DEF Save, AddTxn
<1>4. CASE \E r \in runs : BytesRead(r) \/ Parsed(r) \/ Encrypted(r) \/ Uploaded(r) \/ Poll(r)
  BY <1>4 DEF BytesRead, Parsed, Encrypted, Answered, Uploaded, Poll
<1>5. CASE User
  BY <1>5 DEF User, Retry, HandleSubmit, Type, ChooseFile
<1>6. CASE \E n \in 1 .. MaxActs : Process(n)
  BY <1>6 DEF Process
<1> QED
  BY <1>1, <1>2, <1>3, <1>4, <1>5, <1>6 DEF Next, Settle, Failure

----------------------------------------------------------------------------
(* Shapes are kept *)

\* A row that is saved has a copy number, and the next number is one too.
LEMMA CopyNumber ==
  ASSUME ServerShape, NEW d
  PROVE  /\ IsFiniteSet(Copies(d)) /\ Cardinality(Copies(d)) \in Nat
         /\ Cardinality(Copies(d)) + 1 \in Nat \ {0}
         /\ Copies(d) = {} <=> Cardinality(Copies(d)) = 0
<1>1. IsFiniteSet(Copies(d))
  BY FS_Subset DEF ServerShape, Copies
<1> QED
  BY <1>1, FS_CardinalityType, FS_EmptySet

\* Rows are added to the server, and batches change state.
LEMMA ServerShapeStep ==
  ASSUME Shapes, [Next]_vars
  PROVE  ServerShape' /\ saved \subseteq saved'
<1> USE DEF Shapes
<1>1. CASE UNCHANGED server
  BY <1>1 DEF ServerShape, server
<1>2. ASSUME NEW s \in subs, Save(s) PROVE ServerShape' /\ saved \subseteq saved'
  <2> DEFINE n == Cardinality(Copies(s.draft)) + 1
  <2>1. n \in Nat \ {0} /\ s.draft \in Items
    BY CopyNumber DEF EntryShape, Subs, Items
  <2>2. saved' = saved \cup {<<s.draft, n>>} /\ batch' = batch
    BY <1>2 DEF Save
  <2> HIDE DEF n
  <2>3. IsFiniteSet(saved')
    BY <2>2, FS_AddElement DEF ServerShape
  <2> QED
    BY <2>1, <2>2, <2>3 DEF ServerShape
<1>3. ASSUME NEW r \in runs, Uploaded(r) \/ RunFails(r)
      PROVE  ServerShape' /\ saved \subseteq saved'
  <2>1. r \in Runs
    BY DEF UploadShape
  <2>2. batch' \in {batch, [batch EXCEPT ![r.no] = Received(r)]} /\ saved' = saved
    BY <1>3 DEF Uploaded, RunFails
  <2>3. [batch EXCEPT ![r.no] = Received(r)] \in [1 .. MaxActs -> Batches]
    BY <2>1, BatchReceived DEF ServerShape
  <2> QED
    BY <2>2, <2>3 DEF ServerShape
<1>4. ASSUME NEW n \in 1 .. MaxActs, Process(n), batch[n].state = "received" => batch[n].file \in Files
      PROVE  ServerShape' /\ saved \subseteq saved'
  <2>1. PICK outcome \in {"done", "failed"} :
          /\ batch' = [batch EXCEPT ![n].state = outcome]
          /\ saved' = IF outcome = "done" THEN saved \cup {<<batch[n].file, 1>>} ELSE saved
    BY <1>4 DEF Process
  <2>2. <<batch[n].file, 1>> \in Items \X (Nat \ {0})
    BY <1>4 DEF Process, Items
  <2>3. batch' \in [1 .. MaxActs -> Batches]
    BY <1>4, <2>1, BatchEnds DEF Process, ServerShape
  <2>4. IsFiniteSet(saved')
    BY <2>1, FS_AddElement DEF ServerShape
  <2> QED
    BY <2>1, <2>2, <2>3, <2>4 DEF ServerShape
<1>5. ASSUME NEW n \in 1 .. MaxActs, batch[n].state = "received" PROVE batch[n].file \in Files
  <2>1. batch[n] \in Batches
    BY DEF ServerShape
  <2> QED
    BY <2>1, <1>5 DEF Batches, None
<1> QED
  BY <1>1, <1>2, <1>3, <1>4, <1>5, ServerSteps

\* What is shown or read is stored, and loads are numbered in the order of their start.
LEMMA LoadShapeStep ==
  ASSUME Shapes, [Next]_vars
  PROVE  LoadShape'
<1> DEFINE n == loadNos.started
<1>1. saved \subseteq saved' /\ saved' \in SUBSET saved' /\ n \in Nat
  BY ServerShapeStep DEF Shapes, LoadShape
<1>2. /\ LoadsOf(saved, n) \subseteq LoadsOf(saved', n)
      /\ LoadsOf(saved, n) \subseteq LoadsOf(saved', n + 1)
  BY <1>1, LoadFields
<1>3. CASE UNCHANGED loading
  BY <1>1, <1>2, <1>3 DEF Shapes, LoadShape, loading
<1>4. ASSUME NEW l \in loads, ReadRows(l) \/ ReadBalances(l) PROVE LoadShape'
  <2>1. l \in LoadsOf(saved, n) /\ saved \in SUBSET saved
    BY DEF Shapes, LoadShape
  <2>2. /\ [l EXCEPT !.rows = [read |-> TRUE, rows |-> saved]] \in LoadsOf(saved, n)
        /\ [l EXCEPT !.balances = [read |-> TRUE, rows |-> saved]] \in LoadsOf(saved, n)
    BY <2>1, <1>1, LoadFields
  <2>3. loads' \subseteq LoadsOf(saved, n)
    BY <1>4, <2>2 DEF ReadRows, ReadBalances, Shapes, LoadShape
  <2>4. UNCHANGED <<store, loadNos, saved>>
    BY <1>4 DEF ReadRows, ReadBalances, server
  <2> QED
    BY <2>3, <2>4 DEF Shapes, LoadShape
<1>5. ASSUME NEW l \in loads, LoadAll(l) \/ LoadFails(l) PROVE LoadShape'
  <2>1. l.no \in 1 .. n /\ l.rows.rows \subseteq saved /\ l.balances.rows \subseteq saved
    BY DEF Shapes, LoadShape, LoadsOf, Read
  <2>2. loads' \subseteq LoadsOf(saved', n)
    BY <1>5, <1>2 DEF LoadAll, LoadFails, Shapes, LoadShape
  <2>3. store' \in [rows : SUBSET saved', balances : SUBSET saved', accounts : BOOLEAN, failed : BOOLEAN]
    <3>1. CASE LoadAll(l)
      BY <3>1, <2>1, <1>1 DEF LoadAll, Answer
    <3>2. CASE LoadFails(l)
      BY <3>2, <1>1 DEF LoadFails, Shapes, LoadShape
    <3> QED
      BY <1>5, <3>1, <3>2
  <2>4. /\ loadNos' \in [started : Nat, ended : Nat, shown : Nat] /\ loadNos'.started = n
        /\ loadNos'.shown <= loadNos'.ended /\ loadNos'.ended <= n
    <3> DEFINE e == Later(loadNos.ended, l.no)
    <3>1. e \in Nat /\ e <= n /\ l.no <= e /\ loadNos.ended <= e /\ l.no \in Nat
      BY <2>1 DEF Later, Shapes, LoadShape
    <3>2. loadNos' \in {[loadNos EXCEPT !.ended = e, !.shown = l.no], [loadNos EXCEPT !.ended = e]}
      BY <1>5 DEF LoadAll, LoadFails
    <3> HIDE DEF e
    <3>3. \A x \in [started : Nat, ended : Nat, shown : Nat] :
            /\ LET y == [x EXCEPT !.ended = e]
               IN y \in [started : {x.started}, ended : {e}, shown : {x.shown}]
            /\ LET y == [x EXCEPT !.ended = e, !.shown = l.no]
               IN y \in [started : {x.started}, ended : {e}, shown : {l.no}]
      BY <3>1
    <3>4. loadNos' \in [started : {n}, ended : {e}, shown : {l.no, loadNos.shown}]
      BY <3>2, <3>3 DEF Shapes, LoadShape
    <3>5. loadNos.shown <= loadNos.ended /\ loadNos.shown \in Nat /\ loadNos.ended \in Nat
      BY DEF Shapes, LoadShape
    <3> QED
      BY <3>1, <3>4, <3>5, <1>1
  <2> QED
    BY <2>2, <2>3, <2>4 DEF LoadShape
<1>6. CASE StartLoad
  <2> DEFINE fresh == [no |-> n + 1, rows |-> Unread, balances |-> Unread]
  <2>1. fresh \in LoadsOf(saved', n + 1)
    BY <1>1 DEF LoadsOf, Read, Unread
  <2>2. loads' = loads \cup {fresh}
    BY <1>6 DEF StartLoad, Started
  <2> HIDE DEF fresh
  <2>3. loads' \subseteq LoadsOf(saved', n + 1)
    BY <2>1, <2>2, <1>2 DEF Shapes, LoadShape
  <2>4. /\ loadNos' \in [started : Nat, ended : Nat, shown : Nat] /\ loadNos'.started = n + 1
        /\ loadNos'.shown <= loadNos'.ended /\ loadNos'.ended <= n + 1
    BY <1>6 DEF StartLoad, Shapes, LoadShape
  <2>5. store' \in [rows : SUBSET saved', balances : SUBSET saved', accounts : BOOLEAN, failed : BOOLEAN]
    BY <1>6, <1>1 DEF StartLoad, Shapes, LoadShape
  <2> QED
    BY <2>3, <2>4, <2>5 DEF LoadShape
<1> QED
  BY <1>3, <1>4, <1>5, <1>6, LoadSteps

\* Submissions and the form.
LEMMA EntryShapeStep ==
  ASSUME Shapes, [Next]_vars
  PROVE  EntryShape'
<1> USE DEF Shapes
<1>1. subs \subseteq Subs /\ EmptyForm \in [draft : Drafts \cup {None}, busy : BOOLEAN]
  BY DEF EntryShape, EmptyForm
<1>2. CASE UNCHANGED entry
  BY <1>2 DEF EntryShape, entry
<1>3. ASSUME NEW l \in loads, LoadAll(l) PROVE EntryShape'
  BY <1>1, <1>3 DEF LoadAll, Resolve, EntryShape
<1>4. ASSUME NEW l \in loads, LoadFails(l) PROVE EntryShape'
  <2>1. \A s \in subs : [s EXCEPT !.live = FALSE] \in Subs
    BY <1>1, SubFields
  <2>2. subs' = {[s EXCEPT !.live = FALSE] : s \in subs \ WaitFor(l.no)}
    BY <1>4 DEF LoadFails
  <2>3. subs' \subseteq Subs
    BY <2>1, <2>2
  <2> QED
    BY <1>1, <1>4, <2>3 DEF LoadFails, EntryShape
<1>5. ASSUME NEW s \in subs, Save(s) \/ AddTxn(s) PROVE EntryShape'
  <2>1. 0 \in Nat /\ loadNos.started + 1 \in Nat
    BY DEF LoadShape
  <2>2. PICK stage \in {"saved", "loading"}, no \in Nat :
          subs' = (subs \ {s}) \cup {[s EXCEPT !.stage = stage, !.load = no]}
    BY <1>5, <2>1 DEF Save, AddTxn, Advance
  <2>3. [s EXCEPT !.stage = stage, !.load = no] \in Subs
    BY <1>1, SubFields
  <2>4. subs' \subseteq Subs
    BY <1>1, <2>2, <2>3
  <2> QED
    BY <1>5, <2>4 DEF Save, AddTxn, EntryShape
<1>6. ASSUME NEW s \in subs, AddTxnFails(s) PROVE EntryShape'
  BY <1>1, <1>6 DEF AddTxnFails, FreeButton, EntryShape
<1>7. CASE HandleSubmit
  <2>1. form.draft \in Drafts /\ acts + 1 \in Nat
    BY <1>7, PageAssumption DEF HandleSubmit, Submittable, EntryShape, HistoryShape, PageAssumption
  <2>2. [no |-> acts + 1, draft |-> form.draft, stage |-> "posting", load |-> 0, live |-> TRUE] \in Subs
    BY <2>1 DEF Subs
  <2> QED
    BY <1>1, <1>7, <2>2 DEF HandleSubmit, EntryShape
<1>8. ASSUME NEW d \in Drafts, Type(d) PROVE EntryShape'
  BY <1>8 DEF Type, EntryShape
<1> QED
  BY <1>2, <1>3, <1>4, <1>5, <1>6, <1>7, <1>8, EntrySteps

\* A run that goes on to a stage.
LEMMA GotoShape ==
  ASSUME Shapes, NEW r \in runs, NEW stage \in {"parsing", "encrypting", "uploading", "processing"},
         Goto(r, stage), UNCHANGED overlapped
  PROVE  UploadShape'
<1>1. runs \subseteq Runs /\ r \in Runs
  BY DEF Shapes, UploadShape
<1>2. [r EXCEPT !.stage = stage] \in Runs
  BY <1>1, RunFields
<1>3. runs' \subseteq Runs
  BY <1>1, <1>2 DEF Goto
<1>4. panel' \in [phase : {"idle", "parsing", "encrypting", "uploading", "processing", "done", "error"},
                  summary : Files \cup {None}]
  BY DEF Shapes, UploadShape, Goto, SetPhase
<1> QED
  BY <1>3, <1>4 DEF Shapes, UploadShape

\* The panel and its runs.
LEMMA UploadShapeStep ==
  ASSUME Shapes, [Next]_vars
  PROVE  UploadShape'
<1> USE DEF Shapes
<1>1. /\ runs \subseteq Runs
      /\ IdlePanel \in [phase : {"idle", "parsing", "encrypting", "uploading", "processing", "done", "error"},
                        summary : Files \cup {None}]
  BY DEF UploadShape, IdlePanel
<1>2. CASE UNCHANGED upload
  BY <1>2 DEF UploadShape, upload
<1>3. ASSUME NEW l \in loads, LoadFails(l) PROVE UploadShape'
  <2>1. \A r \in runs : [r EXCEPT !.live = FALSE] \in Runs
    BY <1>1, RunFields
  <2>2. runs' = {[r EXCEPT !.live = FALSE] : r \in runs \ Terminated}
    BY <1>3 DEF LoadFails
  <2>3. runs' \subseteq Runs
    BY <2>1, <2>2
  <2> QED
    BY <1>1, <1>3, <2>3 DEF LoadFails, UploadShape
<1>4. ASSUME NEW f \in Files, ChooseFile(f) PROVE UploadShape'
  <2> DEFINE fresh == [no |-> acts + 1, file |-> f, stage |-> "reading", polls |-> 0,
                       seen |-> "received", live |-> TRUE]
  <2>1. acts + 1 \in 1 .. MaxActs
    BY <1>4, PageAssumption DEF ChooseFile, Act, HistoryShape, PageAssumption
  <2>2. fresh \in Runs
    BY <2>1, PageAssumption DEF Runs, PageAssumption
  <2>3. runs' = runs \cup {fresh}
    BY <1>4 DEF ChooseFile
  <2> HIDE DEF fresh
  <2>4. overlapped' \in BOOLEAN
    BY <1>4 DEF ChooseFile
  <2>5. panel' \in [phase : {"idle", "parsing", "encrypting", "uploading", "processing", "done", "error"},
                    summary : Files \cup {None}]
    BY <1>4 DEF ChooseFile, UploadShape
  <2> QED
    BY <1>1, <2>2, <2>3, <2>4, <2>5 DEF UploadShape
<1>5. ASSUME NEW r \in runs, BytesRead(r) \/ Parsed(r) \/ Encrypted(r) \/ Uploaded(r) PROVE UploadShape'
  <2>1. PICK stage \in {"parsing", "encrypting", "uploading", "processing"} :
          Goto(r, stage) /\ UNCHANGED overlapped
    BY <1>5 DEF BytesRead, Parsed, Encrypted, Answered, Uploaded
  <2> QED
    BY <2>1, GotoShape
<1>6. ASSUME NEW r \in runs, Poll(r) PROVE UploadShape'
  <2>1. batch[r.no].state \in {None, "received", "done", "failed"}
    BY <1>1 DEF ServerShape, Runs, Batches
  <2>2. r.polls < MaxPolls /\ r \in Runs
    BY <1>1, <1>6 DEF Poll
  <2>3. [r EXCEPT !.polls = @ + 1, !.seen = batch[r.no].state] \in Runs
    BY <2>1, <2>2, RunFields
  <2>4. runs' = (runs \ {r}) \cup {[r EXCEPT !.polls = @ + 1, !.seen = batch[r.no].state]}
    BY <1>6 DEF Poll
  <2>5. runs' \subseteq Runs
    BY <1>1, <2>3, <2>4
  <2> QED
    BY <1>6, <2>5 DEF Poll, UploadShape
<1>7. ASSUME NEW r \in runs, RunDone(r) \/ RunGivesUp(r) \/ RunFails(r) PROVE UploadShape'
  <2>1. r.file \in Files /\ runs' \subseteq Runs /\ overlapped' = overlapped
    BY <1>1, <1>7 DEF Runs, RunDone, RunGivesUp, RunFails
  <2>2. panel' \in [phase : {"idle", "parsing", "encrypting", "uploading", "processing", "done", "error"},
                    summary : Files \cup {None}]
    BY <1>7, <2>1 DEF UploadShape, RunDone, RunGivesUp, RunFails, SetPhase
  <2> QED
    BY <2>1, <2>2 DEF UploadShape
<1> QED
  BY <1>2, <1>3, <1>4, <1>5, <1>6, <1>7, UploadSteps

\* A step counts as a fault, as an act of the user, or not at all.
LEMMA CountSteps ==
  ASSUME [Next]_vars
  PROVE  Fault \/ Act \/ UNCHANGED <<acts, faults>>
<1>1. CASE UNCHANGED vars
  BY <1>1 DEF vars
<1>2. CASE User
  BY <1>2 DEF User, Retry, HandleSubmit, Type, ChooseFile
<1>3. CASE Failure
  BY <1>3 DEF Failure, LoadFails, AddTxnFails, RunFails
<1>4. CASE Settle
  BY <1>4 DEF Settle, ReadRows, ReadBalances, LoadAll, Save, AddTxn, BytesRead, Parsed,
              Encrypted, Answered, Uploaded, Poll, RunDone, RunGivesUp
<1>5. CASE \E n \in 1 .. MaxActs : Process(n)
  BY <1>5 DEF Process
<1> QED
  BY <1>1, <1>2, <1>3, <1>4, <1>5 DEF Next

\* Histories grow by items.
LEMMA HistoryShapeStep ==
  ASSUME Shapes, [Next]_vars
  PROVE  HistoryShape' /\ told \subseteq told' /\ lost \subseteq lost'
<1> USE DEF Shapes
<1>1. /\ \A s \in subs : s.draft \in Items
      /\ \A r \in runs : r.file \in Items
  BY DEF EntryShape, UploadShape, Subs, Runs, Items
<1>2. told' \subseteq Items /\ lost' \subseteq Items /\ told \subseteq told' /\ lost \subseteq lost'
  <2>1. CASE UNCHANGED <<told, lost>>
    BY <2>1 DEF HistoryShape
  <2>2. ASSUME NEW l \in loads, LoadAll(l)
        PROVE  told' \subseteq Items /\ lost' \subseteq Items /\ told \subseteq told' /\ lost \subseteq lost'
    BY <1>1, <2>2 DEF HistoryShape, LoadAll, Resolve, WaitFor
  <2>3. ASSUME NEW l \in loads, LoadFails(l)
        PROVE  told' \subseteq Items /\ lost' \subseteq Items /\ told \subseteq told' /\ lost \subseteq lost'
    BY <1>1, <2>3 DEF HistoryShape, LoadFails, WaitFor
  <2>4. ASSUME NEW s \in subs, AddTxnFails(s)
        PROVE  told' \subseteq Items /\ lost' \subseteq Items /\ told \subseteq told' /\ lost \subseteq lost'
    BY <1>1, <2>4 DEF HistoryShape, AddTxnFails
  <2>5. ASSUME NEW r \in runs, RunDone(r) \/ RunGivesUp(r) \/ RunFails(r)
        PROVE  told' \subseteq Items /\ lost' \subseteq Items /\ told \subseteq told' /\ lost \subseteq lost'
    BY <1>1, <2>5 DEF HistoryShape, RunDone, RunGivesUp, RunFails
  <2> QED
    BY <2>1, <2>2, <2>3, <2>4, <2>5, HistorySteps
<1>3. acts' \in 0 .. MaxActs /\ faults' \in 0 .. MaxFaults
  <2>1. acts \in 0 .. MaxActs /\ faults \in 0 .. MaxFaults /\ MaxActs \in Nat /\ MaxFaults \in Nat
    BY PageAssumption DEF HistoryShape, PageAssumption
  <2> QED
    BY <2>1, CountSteps DEF Fault, Act
<1> QED
  BY <1>2, <1>3 DEF HistoryShape

----------------------------------------------------------------------------
(* What steps do to one submission and one run *)

\* A submission goes on to a stage.
LEMMA AdvanceEffect ==
  ASSUME Shapes, NEW s \in subs, NEW stage \in {"saved", "loading"}, NEW no \in Nat,
         Advance(s, stage, no)
  PROVE  \E q : /\ subs' = (subs \ {s}) \cup {q}
                /\ q.live = s.live /\ q.draft = s.draft /\ q.stage = stage /\ q.load = no
<1> DEFINE q == [s EXCEPT !.stage = stage, !.load = no]
<1>1. s \in Subs
  BY DEF Shapes, EntryShape
<1>2. q.live = s.live /\ q.draft = s.draft /\ q.stage = stage /\ q.load = no
  BY <1>1 DEF Subs
<1>3. subs' = (subs \ {s}) \cup {q}
  BY DEF Advance
<1> HIDE DEF q
<1> QED
  BY <1>2, <1>3

\* A run goes on to a stage.
LEMMA GotoEffect ==
  ASSUME Shapes, NEW r \in runs, NEW stage \in {"parsing", "encrypting", "uploading", "processing"},
         Goto(r, stage)
  PROVE  \E q : /\ runs' = (runs \ {r}) \cup {q}
                /\ q.no = r.no /\ q.file = r.file /\ q.stage = stage /\ q.seen = r.seen
                /\ q.live = r.live
<1> DEFINE q == [r EXCEPT !.stage = stage]
<1>1. r \in Runs
  BY DEF Shapes, UploadShape
<1>2. q.no = r.no /\ q.file = r.file /\ q.stage = stage /\ q.seen = r.seen /\ q.live = r.live
  BY <1>1 DEF Runs
<1>3. runs' = (runs \ {r}) \cup {q}
  BY DEF Goto
<1> HIDE DEF q
<1> QED
  BY <1>2, <1>3

\* A poll learns the state of the run's batch.
LEMMA PollEffect ==
  ASSUME Shapes, NEW r \in runs, Poll(r)
  PROVE  \E q : /\ runs' = (runs \ {r}) \cup {q}
                /\ q.no = r.no /\ q.file = r.file /\ q.stage = r.stage
                /\ q.seen = batch[r.no].state /\ q.live = r.live
<1> DEFINE q == [r EXCEPT !.polls = @ + 1, !.seen = batch[r.no].state]
<1>1. r \in Runs
  BY DEF Shapes, UploadShape
<1>2. /\ q.no = r.no /\ q.file = r.file /\ q.stage = r.stage
      /\ q.seen = batch[r.no].state /\ q.live = r.live
  BY <1>1 DEF Runs
<1>3. runs' = (runs \ {r}) \cup {q}
  BY DEF Poll
<1> HIDE DEF q
<1> QED
  BY <1>2, <1>3

\* A load that fails unmounts what is under way, and changes nothing else of it.
LEMMA UnmountEffect ==
  ASSUME Shapes, NEW l \in loads, LoadFails(l)
  PROVE  /\ \A q \in subs' : /\ ~ q.live
                             /\ \E s \in subs \ WaitFor(l.no) :
                                  q.draft = s.draft /\ q.stage = s.stage /\ q.load = s.load
         /\ \A q \in runs' : /\ ~ q.live
                             /\ \E r \in runs \ Terminated :
                                  /\ q.no = r.no /\ q.file = r.file /\ q.stage = r.stage
                                  /\ q.seen = r.seen
         /\ \A r \in runs \ Terminated :
              \E q \in runs' : q.no = r.no /\ q.file = r.file /\ q.stage = r.stage
<1> DEFINE S(s) == [s EXCEPT !.live = FALSE]
           R(r) == [r EXCEPT !.live = FALSE]
<1>1. subs \subseteq Subs /\ runs \subseteq Runs
  BY DEF Shapes, EntryShape, UploadShape
<1>2. \A s \in Subs : S(s).live = FALSE /\ S(s).draft = s.draft /\ S(s).stage = s.stage
                      /\ S(s).load = s.load
  BY SubFields
<1>3. \A r \in Runs : R(r).live = FALSE /\ R(r).no = r.no /\ R(r).file = r.file
                      /\ R(r).stage = r.stage /\ R(r).seen = r.seen
  BY RunFields
<1>4. /\ subs' = {S(s) : s \in subs \ WaitFor(l.no)}
      /\ runs' = {R(r) : r \in runs \ Terminated}
  BY DEF LoadFails
<1> HIDE DEF S, R
<1> QED
  BY <1>1, <1>2, <1>3, <1>4

----------------------------------------------------------------------------
(* The mounted page *)

\* One submission of the mounted page disables the button; what an unmounted page
\* left behind is lost to it.
SubsMounted ==
  /\ store.failed => \A s \in subs : ~ s.live
  /\ form.busy <=> \E s \in subs : s.live
  /\ \A s, t \in subs : s.live /\ t.live => s = t
  /\ \A s \in subs : ~ s.live => s.draft \in lost

RunsMounted ==
  /\ store.failed => \A r \in runs : ~ r.live
  /\ \A r \in runs : ~ r.live => r.file \in lost

\* Only a load that fails unmounts the page.
LEMMA FailedStep ==
  ASSUME Shapes, [Next]_vars
  PROVE  (store.failed' => store.failed) \/ \E l \in loads : LoadFails(l)
<1>1. CASE UNCHANGED loading \/ StartLoad \/ \E l \in loads : ReadRows(l) \/ ReadBalances(l)
  BY <1>1 DEF ReadRows, ReadBalances, StartLoad, loading
<1>2. CASE \E l \in loads : LoadAll(l)
  BY <1>2 DEF LoadAll, Answer
<1> QED
  BY <1>1, <1>2, LoadSteps

\* Submissions of the page.
LEMMA SubsMountedStep ==
  ASSUME Shapes, Shapes', SubsMounted, [Next]_vars
  PROVE  SubsMounted'
<1>1. lost \subseteq lost' /\ subs \subseteq Subs
  BY HistoryShapeStep DEF Shapes, EntryShape
<1>2. CASE \E l \in loads : LoadFails(l)
  <2>1. PICK l \in loads : LoadFails(l)
    BY <1>2
  <2>2. form' = EmptyForm
    BY <2>1 DEF LoadFails
  <2>3. \A s \in subs' : ~ s.live /\ \E t \in subs \ WaitFor(l.no) : s.draft = t.draft
    BY <2>1, UnmountEffect
  <2>4. \A t \in subs \ WaitFor(l.no) : t.draft \in lost'
    BY <2>1, <1>1 DEF LoadFails, SubsMounted
  <2> QED
    BY <2>2, <2>3, <2>4 DEF SubsMounted, EmptyForm
<1>3. CASE store.failed' => store.failed
  <2>1. CASE UNCHANGED entry
    BY <1>1, <1>3, <2>1 DEF SubsMounted, entry
  <2>2. ASSUME NEW l \in loads, LoadAll(l) PROVE SubsMounted'
    <3>1. subs' = subs \ WaitFor(l.no)
      BY <2>2 DEF LoadAll, Resolve
    <3>2. CASE \E s \in WaitFor(l.no) : s.live
      <4>1. form' = EmptyForm /\ \A s \in subs' : ~ s.live
        BY <2>2, <3>1, <3>2 DEF LoadAll, Resolve, WaitFor, SubsMounted
      <4> QED
        BY <4>1, <3>1, <1>1 DEF SubsMounted, EmptyForm
    <3>3. CASE ~ \E s \in WaitFor(l.no) : s.live
      <4>1. form' = form
        BY <2>2, <3>3 DEF LoadAll, Resolve
      <4> QED
        BY <4>1, <3>1, <3>3, <1>1, <1>3 DEF SubsMounted
    <3> QED
      BY <3>2, <3>3
  <2>3. ASSUME NEW s \in subs, Save(s) \/ AddTxn(s) PROVE SubsMounted'
    <3>1. PICK q : subs' = (subs \ {s}) \cup {q} /\ q.live = s.live /\ q.draft = s.draft
      <4>1. \E stage \in {"saved", "loading"}, no \in Nat : Advance(s, stage, no)
        BY <2>3 DEF Save, AddTxn, Shapes, LoadShape
      <4> QED
        BY <4>1, AdvanceEffect
    <3>2. form' = form
      BY <2>3 DEF Save, AddTxn
    <3> QED
      BY <3>1, <3>2, <1>1, <1>3 DEF SubsMounted
  <2>4. ASSUME NEW s \in subs, AddTxnFails(s) PROVE SubsMounted'
    <3>1. subs' = subs \ {s}
      BY <2>4 DEF AddTxnFails
    <3>2. CASE s.live
      <4>1. ~ form.busy' /\ \A t \in subs' : ~ t.live
        BY <2>4, <3>1, <3>2 DEF AddTxnFails, FreeButton, Shapes, EntryShape, SubsMounted
      <4> QED
        BY <4>1, <3>1, <1>1 DEF SubsMounted
    <3>3. CASE ~ s.live
      <4>1. form' = form
        BY <2>4, <3>3 DEF AddTxnFails, FreeButton
      <4> QED
        BY <4>1, <3>1, <3>3, <1>1, <1>3 DEF SubsMounted
    <3> QED
      BY <3>2, <3>3
  <2>5. CASE HandleSubmit
    <3> DEFINE fresh == [no |-> acts + 1, draft |-> form.draft, stage |-> "posting", load |-> 0,
                         live |-> TRUE]
    <3>1. fresh.live = TRUE
      OBVIOUS
    <3>2. subs' = subs \cup {fresh}
      BY <2>5 DEF HandleSubmit
    <3> HIDE DEF fresh
    <3>3. form.busy' /\ \A s \in subs : ~ s.live
      BY <2>5 DEF HandleSubmit, Submittable, Shapes, EntryShape, SubsMounted
    <3>4. ~ store.failed'
      BY <2>5, <1>3 DEF HandleSubmit
    <3> QED
      BY <3>1, <3>2, <3>3, <3>4, <1>1 DEF SubsMounted
  <2>6. ASSUME NEW d \in Drafts, Type(d) PROVE SubsMounted'
    <3>1. subs' = subs /\ form'.busy = form.busy
      BY <2>6 DEF Type, Shapes, EntryShape
    <3> QED
      BY <3>1, <1>1, <1>3 DEF SubsMounted
  <2> QED
    BY <1>2, <2>1, <2>2, <2>3, <2>4, <2>5, <2>6, EntrySteps
<1> QED
  BY <1>2, <1>3, FailedStep

\* Every run of the next state is new, or a run of this one with its file.
LEMMA RunsEffect ==
  ASSUME Shapes, [Next]_vars
  PROVE  \/ \E l \in loads : LoadFails(l)
         \/ \E f \in Files : ChooseFile(f)
         \/ \A q \in runs' : \E r \in runs : q.live = r.live /\ q.file = r.file /\ q.no = r.no
<1>1. runs \subseteq Runs
  BY DEF Shapes, UploadShape
<1>2. CASE UNCHANGED upload
  BY <1>2 DEF upload
<1>3. ASSUME NEW r \in runs, BytesRead(r) \/ Parsed(r) \/ Encrypted(r) \/ Uploaded(r)
      PROVE  \A q \in runs' : \E x \in runs : q.live = x.live /\ q.file = x.file /\ q.no = x.no
  <2>1. PICK stage \in {"parsing", "encrypting", "uploading", "processing"} : Goto(r, stage)
    BY <1>3 DEF BytesRead, Parsed, Encrypted, Answered, Uploaded
  <2>2. PICK q : runs' = (runs \ {r}) \cup {q} /\ q.live = r.live /\ q.file = r.file /\ q.no = r.no
    BY <2>1, GotoEffect
  <2> QED
    BY <2>2
<1>4. ASSUME NEW r \in runs, Poll(r)
      PROVE  \A q \in runs' : \E x \in runs : q.live = x.live /\ q.file = x.file /\ q.no = x.no
  BY <1>4, PollEffect
<1>5. ASSUME NEW r \in runs, RunDone(r) \/ RunGivesUp(r) \/ RunFails(r)
      PROVE  \A q \in runs' : \E x \in runs : q.live = x.live /\ q.file = x.file /\ q.no = x.no
  BY <1>5 DEF RunDone, RunGivesUp, RunFails
<1> QED
  BY <1>2, <1>3, <1>4, <1>5, UploadSteps

\* Uploads of the page.
LEMMA RunsMountedStep ==
  ASSUME Shapes, RunsMounted, [Next]_vars
  PROVE  RunsMounted'
<1>1. lost \subseteq lost' /\ runs \subseteq Runs
  BY HistoryShapeStep DEF Shapes, UploadShape
<1>2. CASE \E l \in loads : LoadFails(l)
  <2>1. PICK l \in loads : LoadFails(l)
    BY <1>2
  <2>2. \A q \in runs' : ~ q.live /\ \E r \in runs : q.file = r.file
    BY <2>1, UnmountEffect
  <2>3. \A r \in runs : r.file \in lost'
    BY <2>1, <1>1 DEF LoadFails, RunsMounted
  <2> QED
    BY <2>2, <2>3 DEF RunsMounted
<1>3. CASE \E f \in Files : ChooseFile(f)
  <2>1. PICK f \in Files : ChooseFile(f)
    BY <1>3
  <2> DEFINE fresh == [no |-> acts + 1, file |-> f, stage |-> "reading", polls |-> 0,
                       seen |-> "received", live |-> TRUE]
  <2>2. fresh.live = TRUE
    OBVIOUS
  <2>3. runs' = runs \cup {fresh}
    BY <2>1 DEF ChooseFile
  <2> HIDE DEF fresh
  <2>4. ~ store.failed'
    BY <2>1 DEF ChooseFile, loading
  <2> QED
    BY <2>2, <2>3, <2>4, <1>1 DEF RunsMounted
<1>4. CASE /\ \A q \in runs' : \E r \in runs : q.live = r.live /\ q.file = r.file /\ q.no = r.no
           /\ ~ \E l \in loads : LoadFails(l)
  BY <1>1, <1>4, FailedStep DEF RunsMounted
<1> QED
  BY <1>2, <1>3, <1>4, RunsEffect

----------------------------------------------------------------------------
(* Transactions that are entered once *)

\* A transaction whose outcome the page did learn: it is saved once at most, not before
\* its submission is, and no longer submitted once it has been reported.
EnteredOnce(d) ==
  /\ \A x \in Copies(d) : x = <<d, 1>>
  /\ \A s \in subs : s.draft = d /\ s.stage = "posting" => Copies(d) = {}
  /\ d \in told => \A s \in subs : s.draft # d
  /\ d \in told /\ d # None => form.draft # d
  /\ d \in told \/ Copies(d) = {} \/ \E s \in subs : s.draft = d

Entered == \A d \in Drafts : d \in lost \/ EnteredOnce(d)

\* The steps that matter to that.
LEMMA EnteredSteps ==
  ASSUME [Next]_vars
  PROVE  \/ UNCHANGED <<saved, entry, told>>
         \/ \E l \in loads : LoadAll(l) \/ LoadFails(l)
         \/ \E s \in subs : Save(s) \/ AddTxn(s) \/ AddTxnFails(s)
         \/ HandleSubmit
         \/ \E d \in Drafts : Type(d)
         \/ \E r \in runs : RunDone(r)
         \/ \E n \in 1 .. MaxActs : Process(n)
<1>1. CASE UNCHANGED vars
  BY <1>1 DEF vars, server
<1>2. CASE \E l \in loads : ReadRows(l) \/ ReadBalances(l)
  BY <1>2 DEF ReadRows, ReadBalances, server
<1>3. CASE \E r \in runs : \/ BytesRead(r) \/ Parsed(r) \/ Encrypted(r) \/ Uploaded(r) \/ Poll(r)
                           \/ RunGivesUp(r) \/ RunFails(r)
  BY <1>3 DEF BytesRead, Parsed, Encrypted, Answered, Uploaded, Poll, RunGivesUp, RunFails, server
<1>4. CASE Retry \/ \E f \in Files : ChooseFile(f)
  BY <1>4 DEF Retry, ChooseFile, server
<1> QED
  BY <1>1, <1>2, <1>3, <1>4 DEF Next, Settle, Failure, User

\* What the page did not lose track of is entered once.
LEMMA EnteredStep ==
  ASSUME Shapes, SubsMounted, Entered, [Next]_vars
  PROVE  Entered'
<1> SUFFICES ASSUME NEW d \in Drafts, d \notin lost'
             PROVE  EnteredOnce(d)'
  BY DEF Entered
<1>1. /\ d \notin lost /\ EnteredOnce(d) /\ subs \subseteq Subs
      /\ \A s \in subs : s.draft = d => s.live
      /\ \A s, t \in subs : s.draft = d /\ t.live => s = t
  BY HistoryShapeStep DEF Entered, Shapes, EntryShape, SubsMounted
<1>2. CASE UNCHANGED <<saved, entry, told>>
  BY <1>1, <1>2 DEF EnteredOnce, entry, Copies
<1>3. ASSUME NEW l \in loads, LoadAll(l) PROVE EnteredOnce(d)'
  <2>1. /\ saved' = saved /\ subs' = subs \ WaitFor(l.no)
        /\ told' = told \cup {s.draft : s \in WaitFor(l.no)}
    BY <1>3 DEF LoadAll, Resolve, server
  <2>2. form'.draft \in {form.draft, None}
    BY <1>3 DEF LoadAll, Resolve, EmptyForm
  <2>3. CASE \E s \in WaitFor(l.no) : s.draft = d
    <3>1. PICK s \in WaitFor(l.no) : s.draft = d
      BY <2>3
    <3>2. s \in subs /\ s.live /\ d \in told'
      BY <1>1, <2>1, <3>1 DEF WaitFor
    <3>3. form'.draft = None
      BY <1>3, <3>1, <3>2 DEF LoadAll, Resolve, EmptyForm
    <3>4. \A t \in subs' : t.draft # d
      BY <1>1, <2>1, <3>1, <3>2
    <3> QED
      BY <1>1, <2>1, <3>2, <3>3, <3>4 DEF EnteredOnce, Copies
  <2>4. CASE ~ \E s \in WaitFor(l.no) : s.draft = d
    <3>1. (d \in told') = (d \in told) /\ \A s \in subs : s.draft = d => s \in subs'
      BY <2>1, <2>4
    <3> QED
      BY <1>1, <2>1, <2>2, <3>1 DEF EnteredOnce, Copies
  <2> QED
    BY <2>3, <2>4
<1>4. ASSUME NEW l \in loads, LoadFails(l) PROVE EnteredOnce(d)'
  <2>1. saved' = saved /\ form'.draft = None /\ told' = told \cup {s.draft : s \in WaitFor(l.no)}
    BY <1>4 DEF LoadFails, EmptyForm, server
  <2>2. \A s \in subs \ WaitFor(l.no) : s.draft # d
    BY <1>1, <1>4 DEF LoadFails
  <2>3. \A s \in subs' : s.draft # d
    BY <1>4, <2>2, UnmountEffect
  <2>4. d \in told' \/ \A s \in subs : s.draft # d
    BY <2>1, <2>2
  <2> QED
    BY <1>1, <2>1, <2>3, <2>4 DEF EnteredOnce, Copies
<1>5. ASSUME NEW s \in subs, Save(s) PROVE EnteredOnce(d)'
  <2> DEFINE n == Cardinality(Copies(s.draft)) + 1
  <2>1. PICK q : subs' = (subs \ {s}) \cup {q} /\ q.draft = s.draft /\ q.stage = "saved"
    <3>1. Advance(s, "saved", 0)
      BY <1>5 DEF Save
    <3> QED
      BY <3>1, AdvanceEffect
  <2>2. saved' = saved \cup {<<s.draft, n>>} /\ form' = form /\ told' = told
    BY <1>5 DEF Save
  <2>3. CASE s.draft = d
    <3>1. Copies(d) = {} /\ n = 1
      BY <1>1, <1>5, <2>3, CopyNumber DEF Save, EnteredOnce, Shapes
    <3>2. Copies(d)' = {<<d, 1>>}
      BY <2>2, <2>3, <3>1 DEF Copies
    <3>3. \A t \in subs' : t.draft = d => t.stage = "saved"
      BY <1>1, <2>1, <2>3
    <3>4. q \in subs' /\ d \notin told
      BY <1>1, <2>1, <2>3 DEF EnteredOnce
    <3> QED
      BY <2>1, <2>2, <2>3, <3>2, <3>3, <3>4 DEF EnteredOnce
  <2>4. CASE s.draft # d
    <3>1. Copies(d)' = Copies(d)
      <4> HIDE DEF n
      <4>1. <<s.draft, n>>[1] # d
        BY <2>4
      <4> QED
        BY <2>2, <4>1 DEF Copies
    <3> QED
      BY <1>1, <2>1, <2>2, <2>4, <3>1 DEF EnteredOnce
  <2> QED
    BY <2>3, <2>4
<1>6. ASSUME NEW s \in subs, AddTxn(s) PROVE EnteredOnce(d)'
  <2>1. PICK q : subs' = (subs \ {s}) \cup {q} /\ q.draft = s.draft /\ q.stage = "loading"
    <3>1. Advance(s, "loading", loadNos.started + 1) /\ loadNos.started + 1 \in Nat
      BY <1>6 DEF AddTxn, Shapes, LoadShape
    <3> QED
      BY <3>1, AdvanceEffect
  <2>2. saved' = saved /\ form' = form /\ told' = told
    BY <1>6 DEF AddTxn, server
  <2> QED
    BY <1>1, <2>1, <2>2 DEF EnteredOnce, Copies
<1>7. ASSUME NEW s \in subs, AddTxnFails(s) PROVE EnteredOnce(d)'
  <2>1. /\ saved' = saved /\ told' = told /\ subs' = subs \ {s} /\ form'.draft = form.draft
    BY <1>7 DEF AddTxnFails, FreeButton, server, Shapes, EntryShape
  <2>2. s.draft = d => s.stage = "posting"
    BY <1>7 DEF AddTxnFails
  <2> QED
    BY <1>1, <2>1, <2>2 DEF EnteredOnce, Copies
<1>8. CASE HandleSubmit
  <2> DEFINE fresh == [no |-> acts + 1, draft |-> form.draft, stage |-> "posting", load |-> 0,
                       live |-> TRUE]
  <2>1. fresh.draft = form.draft /\ fresh.stage = "posting"
    OBVIOUS
  <2>2. subs' = subs \cup {fresh}
    BY <1>8 DEF HandleSubmit
  <2> HIDE DEF fresh
  <2>3. saved' = saved /\ told' = told /\ form'.draft = form.draft /\ form.draft # None
    BY <1>8 DEF HandleSubmit, Submittable, server, Shapes, EntryShape
  <2>4. \A s \in subs : s.draft # d
    BY <1>1, <1>8 DEF HandleSubmit, Submittable, SubsMounted
  <2> QED
    BY <1>1, <2>1, <2>2, <2>3, <2>4 DEF EnteredOnce, Copies
<1>9. ASSUME NEW e \in Drafts, Type(e) PROVE EnteredOnce(d)'
  <2>1. /\ saved' = saved /\ told' = told /\ subs' = subs /\ form'.draft = e /\ e \notin told
    BY <1>9 DEF Type, server, Shapes, EntryShape
  <2> QED
    BY <1>1, <2>1 DEF EnteredOnce, Copies
<1>10. ASSUME NEW r \in runs, RunDone(r) PROVE EnteredOnce(d)'
  <2>1. r.file # d
    BY PageAssumption DEF PageAssumption, Shapes, UploadShape, Runs
  <2>2. saved' = saved /\ UNCHANGED entry /\ told' = told \cup {r.file}
    BY <1>10 DEF RunDone, server
  <2> QED
    BY <1>1, <2>1, <2>2 DEF EnteredOnce, entry, Copies
<1>11. ASSUME NEW n \in 1 .. MaxActs, Process(n) PROVE EnteredOnce(d)'
  <2>1. batch[n].file # d
    <3>1. batch \in [1 .. MaxActs -> Batches] /\ batch[n].state # None
      BY <1>11 DEF Process, Shapes, ServerShape, None
    <3>2. batch[n].file \in Files
      BY <3>1, BatchOwner
    <3> QED
      BY <3>2, PageAssumption DEF PageAssumption
  <2>2. saved' \in {saved, saved \cup {<<batch[n].file, 1>>}} /\ UNCHANGED entry /\ told' = told
    BY <1>11 DEF Process
  <2>3. Copies(d)' = Copies(d)
    <3>1. <<batch[n].file, 1>>[1] # d
      BY <2>1
    <3> QED
      BY <2>2, <3>1 DEF Copies
  <2> QED
    BY <1>1, <2>2, <2>3 DEF EnteredOnce, entry
<1> QED
  BY <1>2, <1>3, <1>4, <1>5, <1>6, <1>7, <1>8, <1>9, <1>10, <1>11, EnteredSteps

----------------------------------------------------------------------------
(* Uploads and their batches *)

\* Runs have numbers of their own, and no batch has a number that was not given.
Numbered ==
  /\ \A r \in runs : r.no <= acts
  /\ \A q, r \in runs : q.no = r.no => q = r
  /\ \A n \in 1 .. MaxActs : n > acts => batch[n].state = None

\* What a run knows of its batch: nothing before it has arrived, then its file, and no
\* end that it has not come to.
RunSound(r, b) ==
  /\ r.stage # "processing" => b[r.no].state = None
  /\ r.stage = "processing" => b[r.no].file = r.file /\ b[r.no].state # None
  /\ r.seen \in {"done", "failed"} => r.stage = "processing" /\ b[r.no].state = r.seen

RunsSound == \A r \in runs : RunSound(r, batch)

\* A batch that may enter rows is followed by a run, or was reported, or is lost.
Awaited(n) == \E r \in runs : r.no = n /\ r.stage = "processing"

Accounted ==
  \A n \in 1 .. MaxActs :
    batch[n].state \in {"received", "done"} => Awaited(n) \/ batch[n].file \in told \cup lost

\* The rows of a file are those of a batch that is done.
Filed ==
  /\ \A n \in 1 .. MaxActs : batch[n].state = "done" => <<batch[n].file, 1>> \in saved
  /\ \A f \in Files : \A x \in Copies(f) :
       x = <<f, 1>> /\ \E n \in 1 .. MaxActs : batch[n] = [file |-> f, state |-> "done"]

\* A batch stays as it is, is processed, or arrives where there was none.
LEMMA BatchEffect ==
  ASSUME Shapes, RunsSound, [Next]_vars, NEW n \in 1 .. MaxActs
  PROVE  \/ batch'[n] = batch[n]
         \/ /\ Process(n) /\ batch[n].state = "received" /\ batch'[n].file = batch[n].file
            /\ batch'[n].state \in {"done", "failed"}
         \/ \E r \in runs : /\ r.no = n /\ r.stage = "uploading"
                            /\ Uploaded(r) \/ RunFails(r)
                            /\ batch[n].state = None
                            /\ batch'[n].file = r.file /\ batch'[n].state = "received"
<1>1. batch \in [1 .. MaxActs -> Batches] /\ runs \subseteq Runs
  BY DEF Shapes, ServerShape, UploadShape
<1>2. CASE UNCHANGED batch
  BY <1>2
<1>3. ASSUME NEW m \in 1 .. MaxActs, Process(m), m # n
      PROVE  batch'[n] = batch[n]
  BY <1>1, <1>3, BatchEnds DEF Process
<1>4. CASE Process(n)
  <2>1. PICK outcome \in {"done", "failed"} :
          batch[n].state = "received" /\ batch' = [batch EXCEPT ![n].state = outcome]
    BY <1>4 DEF Process
  <2>2. batch'[n].file = batch[n].file /\ batch'[n].state = outcome
    BY <1>1, <2>1, BatchEnds
  <2> QED
    BY <1>4, <2>1, <2>2
<1>5. ASSUME NEW r \in runs, Uploaded(r) \/ RunFails(r), r.stage = "uploading",
             batch' = [batch EXCEPT ![r.no] = Received(r)]
      PROVE  \/ batch'[n] = batch[n]
             \/ \E q \in runs : /\ q.no = n /\ q.stage = "uploading"
                                /\ Uploaded(q) \/ RunFails(q)
                                /\ batch[n].state = None
                                /\ batch'[n].file = q.file /\ batch'[n].state = "received"
  <2>1. CASE r.no = n
    <3>1. batch[n].state = None
      BY <1>5, <2>1 DEF RunsSound, RunSound
    <3>2. batch'[n].file = r.file /\ batch'[n].state = "received"
      BY <1>1, <1>5, <2>1, BatchReceived
    <3> QED
      BY <1>5, <2>1, <3>1, <3>2
  <2>2. CASE r.no # n
    <3>1. batch'[n] = batch[n]
      BY <1>1, <1>5, <2>2, BatchReceived
    <3> QED
      BY <3>1
  <2> QED
    BY <2>1, <2>2
<1>6. \/ UNCHANGED batch
      \/ \E m \in 1 .. MaxActs : Process(m)
      \/ \E r \in runs : /\ Uploaded(r) \/ RunFails(r)
                         /\ r.stage = "uploading"
                         /\ batch' = [batch EXCEPT ![r.no] = Received(r)]
  BY ServerSteps DEF server, Save, Uploaded, RunFails
<1> QED
  BY <1>2, <1>3, <1>4, <1>5, <1>6

\* Acts are counted upwards.
LEMMA ActsGrow ==
  ASSUME Shapes, [Next]_vars
  PROVE  acts \in Nat /\ acts' \in Nat /\ acts <= acts'
<1>1. acts \in Nat
  BY PageAssumption DEF Shapes, HistoryShape, PageAssumption
<1> QED
  BY <1>1, CountSteps DEF Fault, Act

\* Numbers.
LEMMA NumberedStep ==
  ASSUME Shapes, Numbered, RunsSound, [Next]_vars
  PROVE  Numbered'
<1>1. runs \subseteq Runs /\ \A r \in runs : r.no \in 1 .. MaxActs /\ r.no \in Nat
  BY DEF Shapes, UploadShape, Runs
<1>2. ASSUME NEW n \in 1 .. MaxActs, n > acts' PROVE batch'[n].state = None
  <2>1. n > acts /\ n \in Nat
    BY <1>2, ActsGrow
  <2>2. batch[n].state = None /\ \A r \in runs : r.no # n
    BY <2>1, <1>1, ActsGrow DEF Numbered
  <2> QED
    BY <2>2, BatchEffect DEF None
<1>3. CASE \E f \in Files : ChooseFile(f)
  <2>1. PICK f \in Files : ChooseFile(f)
    BY <1>3
  <2> DEFINE fresh == [no |-> acts + 1, file |-> f, stage |-> "reading", polls |-> 0,
                       seen |-> "received", live |-> TRUE]
  <2>2. fresh.no = acts + 1
    OBVIOUS
  <2>3. runs' = runs \cup {fresh} /\ acts' = acts + 1
    BY <2>1 DEF ChooseFile, Act
  <2> HIDE DEF fresh
  <2>4. \A r \in runs : r.no # acts + 1 /\ r.no <= acts + 1
    BY <1>1, ActsGrow DEF Numbered
  <2> QED
    BY <1>2, <2>2, <2>3, <2>4, ActsGrow DEF Numbered
<1>4. CASE \E l \in loads : LoadFails(l)
  <2>1. PICK l \in loads : LoadFails(l)
    BY <1>4
  <2> DEFINE R(r) == [r EXCEPT !.live = FALSE]
  <2>2. runs' = {R(r) : r \in runs \ Terminated} /\ \A r \in runs : R(r).no = r.no
    BY <2>1, <1>1, RunFields DEF LoadFails
  <2> HIDE DEF R
  <2> QED
    BY <1>1, <1>2, <2>2, ActsGrow DEF Numbered
<1>5. CASE \/ runs' \subseteq runs
           \/ \E r \in runs : \E q : runs' = (runs \ {r}) \cup {q} /\ q.no = r.no
  <2>1. \A r \in runs : r.no <= acts'
    BY <1>1, ActsGrow DEF Numbered
  <2> QED
    BY <1>2, <1>5, <2>1 DEF Numbered
<1>6. ASSUME NEW r \in runs,
             \/ BytesRead(r) \/ Parsed(r) \/ Encrypted(r) \/ Uploaded(r) \/ Poll(r)
             \/ RunDone(r) \/ RunGivesUp(r) \/ RunFails(r)
      PROVE  \/ runs' \subseteq runs
             \/ \E q : runs' = (runs \ {r}) \cup {q} /\ q.no = r.no
  <2>1. CASE Poll(r)
    BY <2>1, PollEffect
  <2>2. CASE BytesRead(r) \/ Parsed(r) \/ Encrypted(r) \/ Uploaded(r)
    <3>1. \E stage \in {"parsing", "encrypting", "uploading", "processing"} : Goto(r, stage)
      BY <2>2 DEF BytesRead, Parsed, Encrypted, Answered, Uploaded
    <3> QED
      BY <3>1, GotoEffect
  <2>3. CASE RunDone(r) \/ RunGivesUp(r) \/ RunFails(r)
    BY <2>3 DEF RunDone, RunGivesUp, RunFails
  <2> QED
    BY <1>6, <2>1, <2>2, <2>3
<1>7. CASE UNCHANGED upload
  BY <1>5, <1>7 DEF upload
<1> QED
  BY <1>3, <1>4, <1>5, <1>6, <1>7, UploadSteps

\* A run that goes on as it is knows what it knew.
LEMMA RunKept ==
  ASSUME Shapes, Shapes', Numbered, RunsSound, [Next]_vars, NEW r \in runs, r \in runs'
  PROVE  RunSound(r, batch')
<1>1. r \in Runs /\ r.no \in 1 .. MaxActs /\ RunSound(r, batch)
  BY DEF Shapes, UploadShape, Runs, RunsSound
<1>2. CASE batch'[r.no] = batch[r.no]
  BY <1>1, <1>2 DEF RunSound
<1>3. CASE /\ batch[r.no].state = "received" /\ batch'[r.no].file = batch[r.no].file
           /\ batch'[r.no].state \in {"done", "failed"}
  BY <1>1, <1>3 DEF RunSound, None
<1>4. ASSUME NEW q \in runs, q.no = r.no, q.stage = "uploading", Uploaded(q) \/ RunFails(q)
      PROVE  FALSE
  <2>1. q = r
    BY <1>4 DEF Numbered
  <2>2. CASE Uploaded(r)
    <3>1. Goto(r, "processing")
      BY <2>2 DEF Uploaded
    <3>2. PICK x : runs' = (runs \ {r}) \cup {x} /\ x.stage = "processing"
      BY <3>1, GotoEffect
    <3> QED
      BY <1>4, <2>1, <3>2
  <2>3. CASE RunFails(r)
    BY <2>3 DEF RunFails
  <2> QED
    BY <1>4, <2>1, <2>2, <2>3
<1> QED
  BY <1>1, <1>2, <1>3, <1>4, BatchEffect

\* Every run knows its batch.
LEMMA RunsSoundStep ==
  ASSUME Shapes, Shapes', Numbered, RunsSound, [Next]_vars
  PROVE  RunsSound'
<1>1. runs \subseteq Runs /\ \A r \in runs : r.no \in 1 .. MaxActs /\ RunSound(r, batch)
  BY DEF Shapes, UploadShape, Runs, RunsSound
<1>2. \A r \in runs : r \in runs' => RunSound(r, batch')
  BY RunKept
<1>3. CASE UNCHANGED upload
  BY <1>2, <1>3 DEF upload, RunsSound
<1>4. ASSUME NEW l \in loads, LoadFails(l) PROVE RunsSound'
  <2>1. batch' = batch
    BY <1>4 DEF LoadFails, server
  <2>2. \A q \in runs' : \E r \in runs : /\ q.no = r.no /\ q.file = r.file /\ q.stage = r.stage
                                         /\ q.seen = r.seen
    BY <1>4, UnmountEffect
  <2> QED
    BY <1>1, <2>1, <2>2 DEF RunsSound, RunSound
<1>5. ASSUME NEW f \in Files, ChooseFile(f) PROVE RunsSound'
  <2> DEFINE fresh == [no |-> acts + 1, file |-> f, stage |-> "reading", polls |-> 0,
                       seen |-> "received", live |-> TRUE]
  <2>1. fresh.no = acts + 1 /\ fresh.stage = "reading" /\ fresh.seen = "received"
    OBVIOUS
  <2>2. runs' = runs \cup {fresh} /\ batch' = batch /\ acts < MaxActs
    BY <1>5 DEF ChooseFile, Act, server
  <2> HIDE DEF fresh
  <2>3. acts + 1 \in 1 .. MaxActs /\ acts + 1 > acts
    BY <2>2, PageAssumption DEF PageAssumption, Shapes, HistoryShape
  <2>4. RunSound(fresh, batch')
    BY <2>1, <2>2, <2>3 DEF Numbered, RunSound
  <2> QED
    BY <1>1, <2>2, <2>4 DEF RunsSound
<1>6. ASSUME NEW r \in runs, BytesRead(r) \/ Parsed(r) \/ Encrypted(r) PROVE RunsSound'
  <2>1. batch' = batch /\ r.stage # "processing"
    BY <1>6 DEF BytesRead, Parsed, Encrypted, Answered, server
  <2>2. PICK stage \in {"parsing", "encrypting", "uploading"} : Goto(r, stage)
    BY <1>6 DEF BytesRead, Parsed, Encrypted, Answered
  <2>3. PICK q : /\ runs' = (runs \ {r}) \cup {q}
                 /\ q.no = r.no /\ q.file = r.file /\ q.stage # "processing" /\ q.seen = r.seen
    BY <2>2, GotoEffect
  <2>4. RunSound(q, batch')
    BY <1>1, <2>1, <2>3 DEF RunSound
  <2> QED
    BY <1>2, <2>3, <2>4 DEF RunsSound
<1>7. ASSUME NEW r \in runs, Uploaded(r) PROVE RunsSound'
  <2>1. /\ r.stage = "uploading" /\ r \in Runs /\ batch \in [1 .. MaxActs -> Batches]
        /\ batch' = [batch EXCEPT ![r.no] = Received(r)] /\ Goto(r, "processing")
    BY <1>1, <1>7 DEF Uploaded, Shapes, ServerShape
  <2>2. batch'[r.no].file = r.file /\ batch'[r.no].state = "received"
    BY <2>1, BatchReceived
  <2>3. PICK q : /\ runs' = (runs \ {r}) \cup {q}
                 /\ q.no = r.no /\ q.file = r.file /\ q.stage = "processing" /\ q.seen = r.seen
    BY <2>1, GotoEffect
  <2>4. RunSound(q, batch')
    BY <1>1, <2>1, <2>2, <2>3 DEF RunSound, None
  <2> QED
    BY <1>2, <2>3, <2>4 DEF RunsSound
<1>8. ASSUME NEW r \in runs, Poll(r) PROVE RunsSound'
  <2>1. batch' = batch /\ r.stage = "processing"
    BY <1>8 DEF Poll, server
  <2>2. PICK q : /\ runs' = (runs \ {r}) \cup {q}
                 /\ q.no = r.no /\ q.file = r.file /\ q.stage = r.stage
                 /\ q.seen = batch[r.no].state
    BY <1>8, PollEffect
  <2>3. RunSound(q, batch')
    BY <1>1, <2>1, <2>2 DEF RunSound
  <2> QED
    BY <1>2, <2>2, <2>3 DEF RunsSound
<1>9. ASSUME NEW r \in runs, RunDone(r) \/ RunGivesUp(r) \/ RunFails(r) PROVE RunsSound'
  <2>1. runs' \subseteq runs
    BY <1>9 DEF RunDone, RunGivesUp, RunFails
  <2> QED
    BY <1>2, <2>1 DEF RunsSound
<1> QED
  BY <1>3, <1>4, <1>5, <1>6, <1>7, <1>8, <1>9, UploadSteps

\* A run that awaits its batch awaits it on, or has come to an end.
LEMMA AwaitedStep ==
  ASSUME Shapes, RunsSound, RunsMounted, [Next]_vars, NEW n \in 1 .. MaxActs, Awaited(n),
         batch[n].state \in {"received", "done"}
  PROVE  Awaited(n)' \/ batch[n].file \in told' \cup lost'
<1>1. PICK r \in runs : r.no = n /\ r.stage = "processing"
  BY DEF Awaited
<1>2. r.file = batch[n].file /\ r.file \in Files
  BY <1>1 DEF RunsSound, RunSound, Shapes, UploadShape, Runs
<1>3. CASE UNCHANGED upload \/ \E f \in Files : ChooseFile(f)
  BY <1>1, <1>3 DEF upload, ChooseFile, Awaited
<1>4. ASSUME NEW l \in loads, LoadFails(l) PROVE Awaited(n)'
  <2>1. r \notin Terminated
    BY <1>1 DEF Terminated
  <2>2. \E q \in runs' : q.no = r.no /\ q.stage = r.stage
    BY <1>4, <2>1, UnmountEffect
  <2> QED
    BY <1>1, <2>2 DEF Awaited
<1>5. ASSUME NEW s \in runs, Poll(s) PROVE Awaited(n)'
  <2>1. PICK q : runs' = (runs \ {s}) \cup {q} /\ q.no = s.no /\ q.stage = s.stage
    BY <1>5, PollEffect
  <2> QED
    BY <1>1, <2>1 DEF Awaited
<1>6. ASSUME NEW s \in runs, BytesRead(s) \/ Parsed(s) \/ Encrypted(s) \/ Uploaded(s)
      PROVE  Awaited(n)'
  <2>1. s # r
    BY <1>1, <1>6 DEF BytesRead, Parsed, Encrypted, Answered, Uploaded
  <2>2. r \in runs'
    BY <1>6, <2>1 DEF BytesRead, Parsed, Encrypted, Answered, Uploaded, Goto
  <2> QED
    BY <1>1, <2>2 DEF Awaited
<1>7. ASSUME NEW s \in runs, RunDone(s) \/ RunGivesUp(s) \/ RunFails(s), s # r
      PROVE  Awaited(n)'
  <2>1. r \in runs'
    BY <1>7 DEF RunDone, RunGivesUp, RunFails
  <2> QED
    BY <1>1, <2>1 DEF Awaited
<1>8. CASE RunDone(r) \/ RunGivesUp(r) \/ RunFails(r)
  <2>1. r.seen # "failed"
    BY <1>1 DEF RunsSound, RunSound
  <2>2. r.file \in told' \cup lost'
    BY <1>1, <1>8, <2>1 DEF RunDone, RunGivesUp, RunFails, Ended, Succeeded
  <2> QED
    BY <1>2, <2>2
<1> QED
  BY <1>3, <1>4, <1>5, <1>6, <1>7, <1>8, UploadSteps

\* No batch that may enter rows is forgotten.
LEMMA AccountedStep ==
  ASSUME Shapes, Numbered, RunsSound, RunsMounted, Accounted, [Next]_vars
  PROVE  Accounted'
<1> SUFFICES ASSUME NEW n \in 1 .. MaxActs, batch'[n].state \in {"received", "done"}
             PROVE  Awaited(n)' \/ batch'[n].file \in told' \cup lost'
  BY DEF Accounted
<1>1. told \subseteq told' /\ lost \subseteq lost'
  BY HistoryShapeStep
<1>2. CASE batch[n].state \in {"received", "done"} /\ batch'[n].file = batch[n].file
  BY <1>1, <1>2, AwaitedStep DEF Accounted
<1>3. ASSUME NEW r \in runs, r.no = n, r.stage = "uploading", Uploaded(r) \/ RunFails(r),
             batch'[n].file = r.file
      PROVE  Awaited(n)' \/ batch'[n].file \in told' \cup lost'
  <2>1. CASE Uploaded(r)
    <3>1. Goto(r, "processing")
      BY <2>1 DEF Uploaded
    <3>2. \E q \in runs' : q.no = r.no /\ q.stage = "processing"
      BY <3>1, GotoEffect
    <3> QED
      BY <1>3, <3>2 DEF Awaited
  <2>2. CASE RunFails(r)
    BY <1>3, <2>2 DEF RunFails
  <2> QED
    BY <1>3, <2>1, <2>2
<1> QED
  BY <1>2, <1>3, BatchEffect

\* Rows of files.
LEMMA FiledStep ==
  ASSUME Shapes, Shapes', RunsSound, Filed, [Next]_vars
  PROVE  Filed'
<1>1. /\ saved \subseteq saved' /\ batch \in [1 .. MaxActs -> Batches]
      /\ batch' \in [1 .. MaxActs -> Batches]
  BY ServerShapeStep DEF Shapes, ServerShape
<1>2. \A n \in 1 .. MaxActs : batch[n].state = "done" => batch'[n] = batch[n]
  BY BatchEffect DEF None
<1>3. \A n \in 1 .. MaxActs : batch'[n].state = "done" => batch'[n] = batch[n] \/ Process(n)
  BY BatchEffect
<1>4. ASSUME NEW n \in 1 .. MaxActs, batch'[n].state = "done", Process(n)
      PROVE  /\ <<batch'[n].file, 1>> \in saved'
             /\ batch'[n] = [file |-> batch[n].file, state |-> "done"]
             /\ saved' = saved \cup {<<batch[n].file, 1>>}
  <2>1. PICK outcome \in {"done", "failed"} :
          /\ batch[n].state = "received" /\ batch' = [batch EXCEPT ![n].state = outcome]
          /\ saved' = IF outcome = "done" THEN saved \cup {<<batch[n].file, 1>>} ELSE saved
    BY <1>4 DEF Process
  <2>2. batch'[n].file = batch[n].file /\ batch'[n].state = outcome /\ outcome = "done"
    BY <1>1, <1>4, <2>1, BatchEnds
  <2>3. batch'[n] = [file |-> batch'[n].file, state |-> batch'[n].state]
    BY <1>1, <2>2, BatchOwner DEF None
  <2>4. <<batch'[n].file, 1>> \in saved' /\ saved' = saved \cup {<<batch[n].file, 1>>}
    BY <2>1, <2>2
  <2> QED
    BY <2>2, <2>3, <2>4
<1>5. \A n \in 1 .. MaxActs : batch'[n].state = "done" => <<batch'[n].file, 1>> \in saved'
  BY <1>1, <1>3, <1>4 DEF Filed
<1>6. ASSUME NEW f \in Files, NEW x \in saved', x[1] = f
      PROVE  x = <<f, 1>> /\ \E n \in 1 .. MaxActs : batch'[n] = [file |-> f, state |-> "done"]
  <2>1. CASE x \in saved
    <3>1. PICK n \in 1 .. MaxActs : batch[n] = [file |-> f, state |-> "done"]
      BY <1>6, <2>1 DEF Filed, Copies
    <3>2. batch'[n] = batch[n]
      BY <1>2, <3>1
    <3> QED
      BY <1>6, <2>1, <3>1, <3>2 DEF Filed, Copies
  <2>2. CASE x \notin saved
    <3>1. ASSUME NEW s \in subs, Save(s) PROVE FALSE
      <4> DEFINE n == Cardinality(Copies(s.draft)) + 1
      <4>1. saved' = saved \cup {<<s.draft, n>>}
        BY <3>1 DEF Save
      <4> HIDE DEF n
      <4>2. x[1] = s.draft /\ s.draft \in Drafts
        BY <2>2, <4>1 DEF Shapes, EntryShape, Subs
      <4> QED
        BY <1>6, <4>2, PageAssumption DEF PageAssumption
    <3>2. PICK n \in 1 .. MaxActs : Process(n)
      BY <2>2, <3>1, ServerSteps DEF server, Uploaded, RunFails
    <3>3. batch'[n].state = "done"
      <4>1. PICK outcome \in {"done", "failed"} :
              /\ batch[n].state = "received" /\ batch' = [batch EXCEPT ![n].state = outcome]
              /\ saved' = IF outcome = "done" THEN saved \cup {<<batch[n].file, 1>>} ELSE saved
        BY <3>2 DEF Process
      <4>2. outcome = "done"
        BY <2>2, <4>1
      <4> QED
        BY <1>1, <4>1, <4>2, BatchEnds
    <3>4. x = <<batch[n].file, 1>>
      BY <1>4, <2>2, <3>2, <3>3
    <3> QED
      BY <1>4, <1>6, <3>2, <3>3, <3>4
  <2> QED
    BY <2>1, <2>2
<1> QED
  BY <1>5, <1>6 DEF Filed, Copies

----------------------------------------------------------------------------
(* What loads bring *)

\* Item i is stored, and load n and those started after it show it once they end.
Carried(i, n) ==
  /\ <<i, 1>> \in saved /\ n <= loadNos.started
  /\ \A l \in loads : l.no >= n => /\ l.rows.read => <<i, 1>> \in l.rows.rows
                                   /\ l.balances.read => <<i, 1>> \in l.balances.rows
  /\ loadNos.shown >= n => <<i, 1>> \in store.rows \cap store.balances

UnderWay(n) == \E l \in loads : l.no = n

\* What was reported is brought by a load that is under way or has ended; a submission
\* waits for one that is under way.
Brought ==
  /\ \A i \in told : \E n \in Nat : Carried(i, n) /\ (loadNos.ended >= n \/ UnderWay(n))
  /\ \A s \in subs : s.stage = "loading" => Carried(s.draft, s.load) /\ UnderWay(s.load)
  /\ \A s \in subs : s.stage = "saved" => <<s.draft, 1>> \in saved
  /\ \A x \in saved : <<x[1], 1>> \in saved

\* One of the requests of a load is answered with what is stored.
LEMMA ReadEffect ==
  ASSUME Shapes, NEW l \in loads, ReadRows(l) \/ ReadBalances(l)
  PROVE  \E q : /\ loads' = (loads \ {l}) \cup {q} /\ q.no = l.no
                /\ q.rows = l.rows \/ q.rows.rows = saved
                /\ q.balances = l.balances \/ q.balances.rows = saved
<1> DEFINE p == [l EXCEPT !.rows = [read |-> TRUE, rows |-> saved]]
           q == [l EXCEPT !.balances = [read |-> TRUE, rows |-> saved]]
<1>1. l \in LoadsOf(saved, loadNos.started) /\ loadNos.started \in Nat /\ saved \subseteq saved
  BY DEF Shapes, LoadShape
<1>2. /\ p.no = l.no /\ p.balances = l.balances /\ p.rows.rows = saved
      /\ q.no = l.no /\ q.rows = l.rows /\ q.balances.rows = saved
  BY <1>1, LoadFields
<1>3. loads' = (loads \ {l}) \cup {p} \/ loads' = (loads \ {l}) \cup {q}
  BY DEF ReadRows, ReadBalances
<1> HIDE DEF p, q
<1> QED
  BY <1>2, <1>3

\* A load that starts has read nothing and has the next number.
LEMMA StartEffect ==
  ASSUME Shapes, StartLoad
  PROVE  /\ \E q : /\ loads' = loads \cup {q} /\ q.no = loadNos.started + 1
                   /\ ~ q.rows.read /\ ~ q.balances.read
         /\ store' = store /\ loadNos'.started = loadNos.started + 1
         /\ loadNos'.ended = loadNos.ended /\ loadNos'.shown = loadNos.shown
<1> DEFINE q == [no |-> loadNos.started + 1, rows |-> Unread, balances |-> Unread]
<1>1. q.no = loadNos.started + 1 /\ ~ q.rows.read /\ ~ q.balances.read
  BY DEF Unread
<1>2. loads' = loads \cup {q}
  BY DEF StartLoad, Started
<1> HIDE DEF q
<1>3. /\ store' = store /\ loadNos'.started = loadNos.started + 1
      /\ loadNos'.ended = loadNos.ended /\ loadNos'.shown = loadNos.shown
  BY DEF StartLoad, Shapes, LoadShape
<1> QED
  BY <1>1, <1>2, <1>3

\* A load that ends, well or not.
LEMMA EndEffect ==
  ASSUME Shapes, NEW l \in loads, LoadAll(l) \/ LoadFails(l)
  PROVE  /\ loads' = loads \ {l} /\ l.no \in Nat
         /\ loadNos'.started = loadNos.started
         /\ loadNos'.ended \in Nat /\ loadNos'.ended >= loadNos.ended /\ loadNos'.ended >= l.no
         /\ \/ /\ l.rows.read /\ l.balances.read /\ loadNos'.shown = l.no
               /\ store'.rows = l.rows.rows /\ store'.balances = l.balances.rows
            \/ /\ loadNos'.shown = loadNos.shown
               /\ store'.rows = store.rows /\ store'.balances = store.balances
<1>1. l.no \in Nat /\ loadNos \in [started : Nat, ended : Nat, shown : Nat]
  BY DEF Shapes, LoadShape, LoadsOf
<1> DEFINE e == Later(loadNos.ended, l.no)
<1>2. e \in Nat /\ e >= loadNos.ended /\ e >= l.no
  BY <1>1 DEF Later
<1>3. CASE LoadAll(l)
  <2>1. loadNos' = [loadNos EXCEPT !.ended = e, !.shown = l.no] /\ store' = Answer(l)
        /\ loads' = loads \ {l} /\ l.rows.read /\ l.balances.read
    BY <1>3 DEF LoadAll
  <2> HIDE DEF e
  <2> QED
    BY <1>1, <1>2, <2>1 DEF Answer
<1>4. CASE LoadFails(l)
  <2>1. loadNos' = [loadNos EXCEPT !.ended = e] /\ store' = [store EXCEPT !.failed = TRUE]
        /\ loads' = loads \ {l}
    BY <1>4 DEF LoadFails
  <2> HIDE DEF e
  <2> QED
    BY <1>1, <1>2, <2>1 DEF Shapes, LoadShape
<1> QED
  BY <1>3, <1>4

\* What a load brings, it brings in the next state.
LEMMA CarriedStep ==
  ASSUME Shapes, [Next]_vars, NEW i, NEW n \in Nat, Carried(i, n)
  PROVE  Carried(i, n)'
<1>1. /\ saved \subseteq saved' /\ loadNos \in [started : Nat, ended : Nat, shown : Nat]
      /\ \A l \in loads : l.no \in Nat
  BY ServerShapeStep DEF Shapes, LoadShape, LoadsOf
<1>2. CASE UNCHANGED loading
  BY <1>1, <1>2 DEF Carried, loading
<1>3. ASSUME NEW l \in loads, ReadRows(l) \/ ReadBalances(l) PROVE Carried(i, n)'
  <2>1. PICK q : /\ loads' = (loads \ {l}) \cup {q} /\ q.no = l.no
                 /\ q.rows = l.rows \/ q.rows.rows = saved
                 /\ q.balances = l.balances \/ q.balances.rows = saved
    BY <1>3, ReadEffect
  <2>2. UNCHANGED <<store, loadNos>>
    BY <1>3 DEF ReadRows, ReadBalances
  <2> QED
    BY <1>1, <2>1, <2>2 DEF Carried
<1>4. ASSUME NEW l \in loads, LoadAll(l) \/ LoadFails(l) PROVE Carried(i, n)'
  BY <1>1, <1>4, EndEffect DEF Carried
<1>5. CASE StartLoad
  <2>1. PICK q : /\ loads' = loads \cup {q} /\ q.no = loadNos.started + 1
                 /\ ~ q.rows.read /\ ~ q.balances.read
    BY <1>5, StartEffect
  <2>2. /\ store' = store /\ loadNos'.started = loadNos.started + 1
        /\ loadNos'.shown = loadNos.shown
    BY <1>5, StartEffect
  <2> QED
    BY <1>1, <2>1, <2>2 DEF Carried
<1> QED
  BY <1>2, <1>3, <1>4, <1>5, LoadSteps

\* A load is under way until it ends.
LEMMA UnderWayStep ==
  ASSUME Shapes, [Next]_vars, NEW n \in Nat
  PROVE  /\ loadNos.ended >= n => loadNos'.ended >= n
         /\ UnderWay(n) => UnderWay(n)' \/ /\ loadNos'.ended >= n
                                           /\ \E l \in loads : l.no = n /\ (LoadAll(l) \/ LoadFails(l))
<1>1. loadNos \in [started : Nat, ended : Nat, shown : Nat]
  BY DEF Shapes, LoadShape
<1>2. CASE UNCHANGED loading
  BY <1>2 DEF UnderWay, loading
<1>3. ASSUME NEW l \in loads, ReadRows(l) \/ ReadBalances(l)
      PROVE  (UnderWay(n) => UnderWay(n)') /\ loadNos' = loadNos
  <2>1. \E q : loads' = (loads \ {l}) \cup {q} /\ q.no = l.no
    BY <1>3, ReadEffect
  <2>2. loadNos' = loadNos
    BY <1>3 DEF ReadRows, ReadBalances
  <2> QED
    BY <2>1, <2>2 DEF UnderWay
<1>4. ASSUME NEW l \in loads, LoadAll(l) \/ LoadFails(l)
      PROVE  /\ loadNos.ended >= n => loadNos'.ended >= n
             /\ UnderWay(n) => UnderWay(n)' \/ (loadNos'.ended >= n /\ l.no = n)
  BY <1>1, <1>4, EndEffect DEF UnderWay
<1>5. CASE StartLoad
  BY <1>5, StartEffect DEF UnderWay
<1> QED
  BY <1>2, <1>3, <1>4, <1>5, LoadSteps

\* A submission that waits has waited for a load that has not ended, or begins to.
LEMMA WaitEffect ==
  ASSUME Shapes, [Next]_vars, NEW q \in subs', q.stage \in {"loading", "saved"}
  PROVE  \/ \E s \in subs : /\ q.draft = s.draft /\ q.stage = s.stage /\ q.load = s.load
                            /\ \A l \in loads : LoadAll(l) \/ LoadFails(l) => s \notin WaitFor(l.no)
         \/ \E s \in subs : AddTxn(s) /\ q.draft = s.draft /\ q.load = loadNos.started + 1
                            /\ q.stage = "loading"
         \/ \E s \in subs : Save(s) /\ q.draft = s.draft /\ q.stage = "saved"
<1>1. CASE \E l \in loads : LoadFails(l)
  <2>1. PICK l \in loads : LoadFails(l)
    BY <1>1
  <2>2. PICK s \in subs \ WaitFor(l.no) :
          q.draft = s.draft /\ q.stage = s.stage /\ q.load = s.load
    BY <2>1, UnmountEffect
  <2>3. ASSUME NEW m \in loads, LoadAll(m) \/ LoadFails(m) PROVE m = l
    BY <2>1, <2>3, EndEffect
  <2> QED
    BY <2>2, <2>3
<1>2. CASE \E l \in loads : LoadAll(l)
  <2>1. PICK l \in loads : LoadAll(l)
    BY <1>2
  <2>2. q \in subs \ WaitFor(l.no)
    BY <2>1 DEF LoadAll, Resolve
  <2>3. ASSUME NEW m \in loads, LoadAll(m) \/ LoadFails(m) PROVE m = l
    BY <2>1, <2>3, EndEffect
  <2> QED
    BY <2>2, <2>3
<1>3. CASE ~ \E l \in loads : LoadAll(l) \/ LoadFails(l)
  <2>1. CASE UNCHANGED entry \/ \E d \in Drafts : Type(d)
    BY <1>3, <2>1 DEF entry, Type
  <2>2. ASSUME NEW s \in subs, AddTxnFails(s) PROVE q \in subs
    BY <2>2 DEF AddTxnFails
  <2>3. ASSUME NEW s \in subs, Save(s)
        PROVE  q \in subs \/ (q.draft = s.draft /\ q.stage = "saved")
    <3>1. Advance(s, "saved", 0)
      BY <2>3 DEF Save
    <3> QED
      BY <3>1, AdvanceEffect
  <2>4. ASSUME NEW s \in subs, AddTxn(s)
        PROVE  q \in subs \/ (q.draft = s.draft /\ q.stage = "loading" /\ q.load = loadNos.started + 1)
    <3>1. Advance(s, "loading", loadNos.started + 1) /\ loadNos.started + 1 \in Nat
      BY <2>4 DEF AddTxn, Shapes, LoadShape
    <3> QED
      BY <3>1, AdvanceEffect
  <2>5. CASE HandleSubmit
    <3> DEFINE fresh == [no |-> acts + 1, draft |-> form.draft, stage |-> "posting", load |-> 0,
                         live |-> TRUE]
    <3>1. fresh.stage = "posting"
      OBVIOUS
    <3>2. subs' = subs \cup {fresh}
      BY <2>5 DEF HandleSubmit
    <3> HIDE DEF fresh
    <3>3. q \in subs
      BY <3>1, <3>2
    <3> QED
      BY <1>3, <3>3
  <2> QED
    BY <1>3, <2>1, <2>2, <2>3, <2>4, <2>5, EntrySteps
<1> QED
  BY <1>1, <1>2, <1>3

\* A load that starts brings what is stored by then.
LEMMA FreshLoad ==
  ASSUME Shapes, [Next]_vars, StartLoad, NEW i, <<i, 1>> \in saved,
         NEW n \in Nat, n = loadNos.started + 1
  PROVE  Carried(i, n)' /\ UnderWay(n)'
<1>1. /\ loadNos \in [started : Nat, ended : Nat, shown : Nat]
      /\ loadNos.shown <= loadNos.ended /\ loadNos.ended <= loadNos.started
      /\ \A l \in loads : l.no \in Nat /\ l.no <= loadNos.started
  BY DEF Shapes, LoadShape, LoadsOf
<1>2. PICK q : loads' = loads \cup {q} /\ q.no = n /\ ~ q.rows.read /\ ~ q.balances.read
  BY StartEffect
<1>3. loadNos'.started = n /\ loadNos'.shown = loadNos.shown
  BY StartEffect
<1>4. <<i, 1>> \in saved'
  BY ServerShapeStep
<1>5. ~ loadNos'.shown >= n /\ n <= loadNos'.started /\ \A l \in loads : ~ l.no >= n
  BY <1>1, <1>3
<1> QED
  BY <1>2, <1>4, <1>5 DEF Carried, UnderWay

\* Whatever has a copy has a first one.
LEMMA FirstCopyStep ==
  ASSUME Shapes, [Next]_vars, \A x \in saved : <<x[1], 1>> \in saved
  PROVE  \A x \in saved' : <<x[1], 1>> \in saved'
<1>1. saved \subseteq saved'
  BY ServerShapeStep
<1>2. ASSUME NEW s \in subs, Save(s) PROVE \A x \in saved' : <<x[1], 1>> \in saved'
  <2> DEFINE n == Cardinality(Copies(s.draft)) + 1
  <2>1. saved' = saved \cup {<<s.draft, n>>}
    BY <1>2 DEF Save
  <2>2. Copies(s.draft) = {} => n = 1
    <3>1. Copies(s.draft) = {} => Cardinality(Copies(s.draft)) = 0
      BY FS_EmptySet
    <3> QED
      BY <3>1
  <2> HIDE DEF n
  <2>3. <<s.draft, 1>> \in saved'
    BY <2>1, <2>2 DEF Copies
  <2>4. <<s.draft, n>>[1] = s.draft
    OBVIOUS
  <2> QED
    BY <1>1, <2>1, <2>3, <2>4
<1>3. ASSUME NEW n \in 1 .. MaxActs, Process(n) PROVE \A x \in saved' : <<x[1], 1>> \in saved'
  <2>1. saved' = saved \/ saved' = saved \cup {<<batch[n].file, 1>>}
    BY <1>3 DEF Process
  <2>2. <<batch[n].file, 1>>[1] = batch[n].file
    OBVIOUS
  <2> QED
    BY <1>1, <2>1, <2>2
<1> QED
  BY <1>2, <1>3, ServerSteps DEF server, Uploaded, RunFails

\* What was reported is brought.
LEMMA BroughtStep ==
  ASSUME Shapes, Shapes', RunsSound, Filed, Brought, [Next]_vars
  PROVE  Brought'
<1> DEFINE At(i, n) == n \in Nat /\ Carried(i, n) /\ (loadNos.ended >= n \/ UnderWay(n))
<1>1. /\ saved \subseteq saved'
      /\ \A s \in subs : s.load \in Nat
      /\ loadNos \in [started : Nat, ended : Nat, shown : Nat]
  BY ServerShapeStep DEF Shapes, EntryShape, Subs, LoadShape
<1>2. ASSUME NEW i, NEW n, At(i, n) PROVE At(i, n)'
  BY <1>2, CarriedStep, UnderWayStep
<1>3. ASSUME NEW l \in loads, LoadAll(l) \/ LoadFails(l), NEW s \in WaitFor(l.no)
      PROVE  \E n : At(s.draft, n)'
  <2>1. At(s.draft, s.load)
    BY <1>1, <1>3 DEF WaitFor, Brought
  <2> HIDE DEF At
  <2> QED
    BY <1>2, <2>1
<1>4. ASSUME NEW r \in runs, RunDone(r) PROVE \E n : At(r.file, n)'
  <2>1. StartLoad /\ r.seen = "done"
    BY <1>4 DEF RunDone, Succeeded
  <2>2. r.no \in 1 .. MaxActs /\ batch[r.no].state = "done" /\ batch[r.no].file = r.file
    BY <2>1 DEF RunsSound, RunSound, Shapes, UploadShape, Runs
  <2>3. <<r.file, 1>> \in saved
    BY <2>2 DEF Filed
  <2>4. PICK n \in Nat : n = loadNos.started + 1
    BY <1>1
  <2>5. At(r.file, n)'
    BY <2>1, <2>3, <2>4, FreshLoad
  <2> HIDE DEF At
  <2> QED
    BY <2>5
<1>5. ASSUME NEW i \in told' PROVE \E n : At(i, n)'
  <2>1. CASE i \in told
    <3>1. \E n : At(i, n)
      BY <2>1 DEF Brought
    <3> HIDE DEF At
    <3> QED
      BY <1>2, <3>1
  <2>2. CASE i \notin told
    <3>1. ASSUME NEW l \in loads, LoadAll(l) \/ LoadFails(l) PROVE \E s \in WaitFor(l.no) : i = s.draft
      <4>1. told' = told \cup {s.draft : s \in WaitFor(l.no)}
        BY <3>1 DEF LoadAll, Resolve, LoadFails
      <4> QED
        BY <1>5, <2>2, <4>1
    <3>2. ASSUME NEW r \in runs, RunDone(r) PROVE i = r.file
      BY <1>5, <2>2, <3>2 DEF RunDone
    <3>3. \/ \E l \in loads : LoadAll(l) \/ LoadFails(l)
          \/ \E r \in runs : RunDone(r)
      BY <1>5, <2>2, HistorySteps DEF AddTxnFails, RunGivesUp, RunFails
    <3> HIDE DEF At
    <3> QED
      BY <1>3, <1>4, <3>1, <3>2, <3>3
  <2> QED
    BY <2>1, <2>2
<1>6. ASSUME NEW q \in subs', q.stage = "loading" PROVE Carried(q.draft, q.load)' /\ UnderWay(q.load)'
  <2>1. CASE \E s \in subs : AddTxn(s) /\ q.draft = s.draft /\ q.load = loadNos.started + 1
    <3>1. PICK s \in subs : AddTxn(s) /\ q.draft = s.draft /\ q.load = loadNos.started + 1
      BY <2>1
    <3>2. StartLoad /\ <<s.draft, 1>> \in saved /\ q.load \in Nat
      BY <1>1, <3>1 DEF AddTxn, Brought
    <3> QED
      BY <3>1, <3>2, FreshLoad
  <2>2. CASE \E s \in subs : /\ q.draft = s.draft /\ q.stage = s.stage /\ q.load = s.load
                             /\ \A l \in loads : LoadAll(l) \/ LoadFails(l) => s \notin WaitFor(l.no)
    <3>1. PICK s \in subs : /\ q.draft = s.draft /\ q.stage = s.stage /\ q.load = s.load
                            /\ \A l \in loads : LoadAll(l) \/ LoadFails(l) => s \notin WaitFor(l.no)
      BY <2>2
    <3>2. Carried(s.draft, s.load) /\ UnderWay(s.load) /\ s.load \in Nat
      BY <1>1, <1>6, <3>1 DEF Brought
    <3>3. ~ \E l \in loads : l.no = s.load /\ (LoadAll(l) \/ LoadFails(l))
      BY <1>6, <3>1 DEF WaitFor
    <3> QED
      BY <3>1, <3>2, <3>3, CarriedStep, UnderWayStep
  <2> QED
    BY <1>6, <2>1, <2>2, WaitEffect
<1>7. ASSUME NEW q \in subs', q.stage = "saved" PROVE <<q.draft, 1>> \in saved'
  <2>1. CASE \E s \in subs : q.draft = s.draft /\ q.stage = s.stage
    BY <1>1, <1>7, <2>1 DEF Brought
  <2>2. CASE \E s \in subs : Save(s) /\ q.draft = s.draft
    <3>1. PICK s \in subs : Save(s) /\ q.draft = s.draft
      BY <2>2
    <3> DEFINE n == Cardinality(Copies(s.draft)) + 1
    <3>2. <<s.draft, n>> \in saved'
      BY <3>1 DEF Save
    <3> HIDE DEF n
    <3>3. <<s.draft, n>>[1] = s.draft
      OBVIOUS
    <3> QED
      BY <3>1, <3>2, <3>3, FirstCopyStep DEF Brought
  <2> QED
    BY <1>7, <2>1, <2>2, WaitEffect
<1>8. \A x \in saved' : <<x[1], 1>> \in saved'
  BY FirstCopyStep DEF Brought
<1> QED
  BY <1>5, <1>6, <1>7, <1>8 DEF Brought

----------------------------------------------------------------------------
(* The panel *)

\* Only one upload is shown and the panel shows its stage, unless two files were read
\* together.
PanelSound ==
  /\ DoneIsDone
  /\ \/ overlapped
     \/ /\ \A q, r \in runs : q.live /\ r.live => q = r
        /\ \A r \in runs : r.live /\ r.stage # "reading" => panel.phase = r.stage

\* A panel whose phase or summary is taken away promises nothing.
LEMMA PromiseKept ==
  ASSUME Shapes, Shapes', RunsSound, DoneIsDone, [Next]_vars,
         \/ UNCHANGED panel
         \/ panel'.phase # "done"
         \/ panel'.summary = None
  PROVE  DoneIsDone'
<1>1. \A n \in 1 .. MaxActs : batch[n].state = "done" => batch'[n] = batch[n]
  BY BatchEffect DEF None
<1> QED
  BY <1>1 DEF DoneIsDone

\* The panel.
LEMMA PanelSoundStep ==
  ASSUME Shapes, Shapes', RunsSound, PanelSound, [Next]_vars
  PROVE  PanelSound'
<1>1. panel \in [phase : {"idle", "parsing", "encrypting", "uploading", "processing", "done", "error"},
                 summary : Files \cup {None}]
  BY DEF Shapes, UploadShape
<1>2. CASE UNCHANGED upload
  BY <1>2, PromiseKept DEF PanelSound, upload
<1>3. ASSUME NEW l \in loads, LoadFails(l) PROVE PanelSound'
  <2>1. \A r \in runs' : ~ r.live
    BY <1>3, UnmountEffect
  <2>2. panel'.phase # "done"
    BY <1>3 DEF LoadFails, IdlePanel
  <2> QED
    BY <2>1, <2>2, PromiseKept DEF PanelSound
<1>4. ASSUME NEW f \in Files, ChooseFile(f) PROVE PanelSound'
  <2> DEFINE fresh == [no |-> acts + 1, file |-> f, stage |-> "reading", polls |-> 0,
                       seen |-> "received", live |-> TRUE]
  <2>1. fresh.stage = "reading"
    OBVIOUS
  <2>2. runs' = runs \cup {fresh}
    BY <1>4 DEF ChooseFile
  <2> HIDE DEF fresh
  <2>3. panel'.summary = None /\ panel'.phase = panel.phase
    BY <1>1, <1>4 DEF ChooseFile
  <2>4. CASE overlapped'
    BY <2>3, <2>4, PromiseKept DEF PanelSound
  <2>5. CASE ~ overlapped'
    <3>1. ~ overlapped /\ \A r \in runs : r.live => r.stage # "reading"
      BY <1>4, <2>5 DEF ChooseFile
    <3>2. \A r \in runs : ~ r.live
      BY <1>4, <3>1 DEF ChooseFile, Busy, PanelSound, Shapes, UploadShape, Runs
    <3> QED
      BY <2>1, <2>2, <2>3, <3>2, PromiseKept DEF PanelSound
  <2> QED
    BY <2>4, <2>5
<1>5. ASSUME NEW r \in runs, NEW stage \in {"parsing", "encrypting", "uploading", "processing"},
             Goto(r, stage), UNCHANGED overlapped
      PROVE  PanelSound'
  <2>1. PICK q : runs' = (runs \ {r}) \cup {q} /\ q.live = r.live /\ q.stage = stage
    BY <1>5, GotoEffect
  <2>2. IF r.live THEN panel'.phase = stage ELSE panel' = panel
    BY <1>1, <1>5 DEF Goto, SetPhase
  <2>3. DoneIsDone'
    BY <2>2, PromiseKept DEF PanelSound
  <2>4. CASE overlapped
    BY <1>5, <2>3, <2>4 DEF PanelSound
  <2>5. CASE ~ overlapped
    <3>1. \A x \in runs' : x.live => x = q \/ (x \in runs /\ x # r)
      BY <2>1
    <3> QED
      BY <2>1, <2>2, <2>3, <2>5, <3>1 DEF PanelSound
  <2> QED
    BY <2>4, <2>5
<1>6. ASSUME NEW r \in runs, Poll(r) PROVE PanelSound'
  <2>1. PICK q : runs' = (runs \ {r}) \cup {q} /\ q.live = r.live /\ q.stage = r.stage
    BY <1>6, PollEffect
  <2>2. UNCHANGED <<panel, overlapped>>
    BY <1>6 DEF Poll
  <2> QED
    BY <2>1, <2>2, PromiseKept DEF PanelSound
<1>7. ASSUME NEW r \in runs, RunDone(r) \/ RunGivesUp(r) \/ RunFails(r) PROVE PanelSound'
  <2>1. runs' = runs \ {r} /\ overlapped' = overlapped
    BY <1>7 DEF RunDone, RunGivesUp, RunFails
  <2>2. ~ r.live => panel' = panel
    BY <1>7 DEF RunDone, RunGivesUp, RunFails, SetPhase
  <2>3. DoneIsDone'
    <3>1. CASE ~ r.live \/ RunGivesUp(r) \/ RunFails(r)
      <4>1. UNCHANGED panel \/ panel'.phase # "done"
        BY <1>1, <2>2, <3>1 DEF RunGivesUp, RunFails, SetPhase
      <4> QED
        BY <4>1, PromiseKept DEF PanelSound
    <3>2. CASE RunDone(r) /\ r.live
      <4>1. panel'.summary = r.file /\ batch' = batch /\ r.seen = "done"
        BY <3>2 DEF RunDone, Succeeded, server
      <4>2. /\ r.no \in 1 .. MaxActs /\ batch[r.no].state = "done" /\ batch[r.no].file = r.file
            /\ batch \in [1 .. MaxActs -> Batches]
        BY <4>1 DEF RunsSound, RunSound, Shapes, UploadShape, ServerShape, Runs
      <4>3. batch[r.no] = [file |-> r.file, state |-> "done"]
        BY <4>2, BatchOwner DEF None
      <4> QED
        BY <4>1, <4>2, <4>3 DEF DoneIsDone
    <3> QED
      BY <1>7, <3>1, <3>2
  <2> QED
    BY <2>1, <2>2, <2>3 DEF PanelSound
<1>8. ASSUME NEW r \in runs, BytesRead(r) \/ Parsed(r) \/ Encrypted(r) \/ Uploaded(r)
      PROVE  PanelSound'
  <2>1. /\ \E stage \in {"parsing", "encrypting", "uploading", "processing"} : Goto(r, stage)
        /\ UNCHANGED overlapped
    BY <1>8 DEF BytesRead, Parsed, Encrypted, Answered, Uploaded
  <2> QED
    BY <1>5, <2>1
<1> QED
  BY <1>2, <1>3, <1>4, <1>6, <1>7, <1>8, UploadSteps

----------------------------------------------------------------------------
(* Theorems *)

PageInv ==
  /\ Shapes /\ SubsMounted /\ RunsMounted /\ Entered
  /\ Numbered /\ RunsSound /\ Accounted /\ Filed
  /\ Brought /\ PanelSound

\* Nothing is stored, shown or under way but the first load.
LEMMA InitPage ==
  ASSUME Init
  PROVE  PageInv
<1> USE DEF Init
<1>1. ServerShape
  BY FS_EmptySet DEF ServerShape, Batches
<1>2. LoadShape
  <2>1. Started({}, 1) \subseteq LoadsOf(saved, 1)
    BY DEF Started, LoadsOf, Read, Unread
  <2> QED
    BY <2>1 DEF LoadShape
<1>3. EntryShape /\ UploadShape
  BY DEF EntryShape, UploadShape, EmptyForm, IdlePanel
<1>4. HistoryShape
  BY PageAssumption DEF HistoryShape, PageAssumption
<1>5. SubsMounted /\ RunsMounted /\ Entered
  BY DEF SubsMounted, RunsMounted, EmptyForm, Entered, EnteredOnce, Copies
<1>6. Numbered /\ RunsSound /\ Accounted /\ Filed
  BY DEF Numbered, RunsSound, Accounted, Filed, Copies, None
<1>7. Brought /\ PanelSound
  BY DEF Brought, PanelSound, DoneIsDone, IdlePanel
<1> QED
  BY <1>1, <1>2, <1>3, <1>4, <1>5, <1>6, <1>7 DEF PageInv, Shapes

\* What the page knows of submissions, uploads and loads is kept whatever it awaits and
\* whatever fails.
THEOREM PageInvariant == Spec => []PageInv
<1>1. Init => PageInv
  BY InitPage
<1>2. PageInv /\ [Next]_vars => PageInv'
  <2> SUFFICES ASSUME PageInv, [Next]_vars PROVE PageInv'
    OBVIOUS
  <2>1. Shapes'
    BY ServerShapeStep, LoadShapeStep, EntryShapeStep, UploadShapeStep, HistoryShapeStep
       DEF PageInv, Shapes
  <2> QED
    BY <2>1, SubsMountedStep, RunsMountedStep, EnteredStep, NumberedStep, RunsSoundStep,
       AccountedStep, FiledStep, BroughtStep, PanelSoundStep DEF PageInv
<1> QED
  BY <1>1, <1>2, PTL DEF Spec

\* Sets without two different members.
LEMMA AtMostOne ==
  ASSUME NEW S, \A x, y \in S : x = y
  PROVE  Cardinality(S) <= 1
<1>1. CASE S = {}
  BY <1>1, FS_EmptySet
<1>2. CASE S # {}
  <2>1. PICK x : S = {x}
    BY <1>2
  <2>2. Cardinality({x}) = 1
    BY FS_Singleton
  <2> QED
    BY <2>1, <2>2
<1> QED
  BY <1>1, <1>2

\* Only a mounted page has live work, a busy button belongs to a live submission, and
\* numbers stay in their bounds.
THEOREM TypeCorrect == Spec => []TypeOK
<1>1. ASSUME PageInv PROVE TypeOK
  <2>1. Cardinality({s \in subs : s.live}) <= 1
    BY <1>1, AtMostOne DEF PageInv, SubsMounted
  <2>2. form.busy = (\E s \in subs : s.live)
    BY <1>1 DEF PageInv, SubsMounted, Shapes, EntryShape
  <2>3. store.failed => \A x \in subs \cup runs : ~ x.live
    BY <1>1 DEF PageInv, SubsMounted, RunsMounted
  <2>4. \A r \in runs : r.polls \in 0 .. MaxPolls
    BY <1>1 DEF PageInv, Shapes, UploadShape, Runs
  <2>5. /\ loadNos.shown <= loadNos.ended /\ loadNos.ended <= loadNos.started
        /\ store.rows \subseteq saved /\ told \cup lost \subseteq Items /\ faults \in 0 .. MaxFaults
    BY <1>1 DEF PageInv, Shapes, LoadShape, HistoryShape
  <2> QED
    BY <2>1, <2>2, <2>3, <2>4, <2>5 DEF TypeOK
<1> QED
  BY <1>1, PageInvariant, PTL

\* A transaction is entered twice only if the outcome of the first attempt was lost.
THEOREM EnteredTwiceOnlyAfterLoss == Spec => []DuplicateOnlyAfterLoss
<1>1. ASSUME PageInv, NEW d \in Drafts, Cardinality(Copies(d)) > 1 PROVE d \in lost
  <2> SUFFICES ASSUME d \notin lost PROVE FALSE
    OBVIOUS
  <2>1. Copies(d) \subseteq {<<d, 1>>}
    BY <1>1 DEF PageInv, Entered, EnteredOnce
  <2>2. IsFiniteSet({<<d, 1>>}) /\ Cardinality({<<d, 1>>}) = 1
    BY FS_Singleton
  <2>3. Cardinality(Copies(d)) <= 1 /\ Cardinality(Copies(d)) \in Nat
    BY <2>1, <2>2, FS_Subset, FS_CardinalityType
  <2> QED
    BY <1>1, <2>3
<1>2. PageInv => DuplicateOnlyAfterLoss
  BY <1>1 DEF DuplicateOnlyAfterLoss
<1> QED
  BY <1>2, PageInvariant, PTL

\* What was reported is shown once the last load to end was the last to start.
LEMMA ShownOnceLoaded ==
  ASSUME PageInv, loads = {}, InOrder, NEW i \in told
  PROVE  <<i, 1>> \in store.rows \cap store.balances
<1>1. PICK n \in Nat : Carried(i, n) /\ (loadNos.ended >= n \/ UnderWay(n))
  BY DEF PageInv, Brought
<1>2. loadNos.shown >= n
  BY <1>1 DEF UnderWay, InOrder
<1> QED
  BY <1>1, <1>2 DEF Carried

\* Whatever the page reported as entered is shown once its loads have ended in order.
THEOREM ReportedShown == Spec => []ReportedIsShown
<1>1. PageInv => ReportedIsShown
  BY ShownOnceLoaded DEF ReportedIsShown
<1> QED
  BY <1>1, PageInvariant, PTL

\* Once nothing is under way the list and the balances are those of the server.
THEOREM QuietShows == Spec => []QuietShowsAll
<1>1. ASSUME PageInv, loads = {}, subs = {}, runs = {}, lost = {}, InOrder, NEW x \in saved
      PROVE  x \in store.rows \cap store.balances
  <2>1. x[1] \in Drafts \cup Files
    BY <1>1 DEF PageInv, Shapes, ServerShape, Items
  <2>2. CASE x[1] \in Drafts
    <3>1. x = <<x[1], 1>> /\ x[1] \in told
      BY <1>1, <2>2 DEF PageInv, Entered, EnteredOnce, Copies
    <3> QED
      BY <1>1, <3>1, ShownOnceLoaded
  <2>3. CASE x[1] \in Files
    <3>1. x = <<x[1], 1>> /\ \E n \in 1 .. MaxActs : batch[n] = [file |-> x[1], state |-> "done"]
      BY <1>1, <2>3 DEF PageInv, Filed, Copies
    <3>2. PICK n \in 1 .. MaxActs : batch[n].file = x[1] /\ batch[n].state = "done"
      BY <3>1
    <3>3. x[1] \in told
      BY <1>1, <3>2 DEF PageInv, Accounted, Awaited
    <3> QED
      BY <1>1, <3>1, <3>3, ShownOnceLoaded
  <2> QED
    BY <2>1, <2>2, <2>3
<1>2. PageInv => store.rows \subseteq saved /\ store.balances \subseteq saved
  BY DEF PageInv, Shapes, LoadShape
<1>3. PageInv => QuietShowsAll
  BY <1>1, <1>2 DEF QuietShowsAll
<1> QED
  BY <1>3, PageInvariant, PTL

\* The panel says that a file is entered only when its batch is done.
THEOREM PanelTellsTheTruth == Spec => []DoneIsDone
<1>1. PageInv => DoneIsDone
  BY DEF PageInv, PanelSound
<1> QED
  BY <1>1, PageInvariant, PTL

\* One upload at a time, unless a file was chosen before the one before it had been read.
THEOREM OneUpload == Spec => []OneUploadUnlessOverlapped
<1>1. ASSUME PageInv, ~ overlapped PROVE Cardinality({r \in runs : r.live}) <= 1
  BY <1>1, AtMostOne DEF PageInv, PanelSound
<1>2. PageInv => OneUploadUnlessOverlapped
  BY <1>1 DEF OneUploadUnlessOverlapped
<1> QED
  BY <1>2, PageInvariant, PTL

\* A key brings the cursor from at closer to row, or opens row if that is where it is.
Reaches(count, at, row, focus) ==
  LET c == KeyDown("Escape", [at |-> at, detail |-> -1, focus |-> focus], count)
  IN IF at = row THEN KeyDown("Enter", c, count).detail = row
     ELSE \E key \in {"j", "k"} :
            LET next == KeyDown(key, c, count)
            IN Followed(next, count) /\ Distance(next.at, row) < Distance(at, row)

\* Wherever the cursor is, a key brings it closer to a row, and Enter opens the row.
LEMMA KeysReach ==
  ASSUME NEW count \in Nat, NEW limit \in Nat, NEW at \in -1 .. limit, NEW row \in 0 .. (count - 1),
         NEW focus \in {"page", "search"}
  PROVE  Reaches(count, at, row, focus)
<1> DEFINE start == [at |-> at, detail |-> -1, focus |-> focus]
           c == KeyDown("Escape", start, count)
<1>1. c \in [at : {at}, detail : {-1}, focus : {"page"}]
  <2>1. start \in [at : {at}, detail : {-1}, focus : {"page", "search"}]
    OBVIOUS
  <2>2. c = Close(start)
    BY DEF KeyDown
  <2> HIDE DEF start
  <2>3. Close(start) \in [at : {at}, detail : {-1}, focus : {"page"}]
    BY <2>1 DEF Close
  <2> QED
    BY <2>2, <2>3
<1> HIDE DEF c, Reaches
<1>2. /\ KeyDown("Enter", c, count) = Open(c, count)
      /\ KeyDown("j", c, count).at = Down(at, count)
      /\ KeyDown("k", c, count).at = Up(at, count)
  BY <1>1 DEF KeyDown, IsTypingTarget
<1>3. CASE at = row
  <2>1. Open(c, count).detail = at
    BY <1>1, <1>3 DEF Open, Active
  <2> QED
    BY <1>2, <1>3, <2>1 DEF c, Reaches
<1>4. CASE at < row
  <2>1. Down(at, count) = at + 1
    BY <1>4 DEF Down
  <2>2. Followed(KeyDown("j", c, count), count) /\ Distance(at + 1, row) < Distance(at, row)
    BY <1>2, <1>4, <2>1 DEF Followed, Distance
  <2> QED
    BY <1>2, <1>4, <2>1, <2>2 DEF c, Reaches
<1>5. CASE at > row /\ at - 1 < count
  <2>1. Up(at, count) = at - 1
    BY <1>5 DEF Up, Later
  <2>2. Followed(KeyDown("k", c, count), count) /\ Distance(at - 1, row) < Distance(at, row)
    BY <1>2, <1>5, <2>1 DEF Followed, Distance
  <2> QED
    BY <1>2, <1>5, <2>1, <2>2 DEF c, Reaches
<1>6. CASE at > row /\ at - 1 >= count
  <2>1. Down(at, count) = count - 1
    BY <1>6 DEF Down
  <2>2. Followed(KeyDown("j", c, count), count) /\ Distance(count - 1, row) < Distance(at, row)
    BY <1>2, <1>6, <2>1 DEF Followed, Distance
  <2> QED
    BY <1>2, <1>6, <2>1, <2>2 DEF c, Reaches
<1> QED
  BY <1>3, <1>4, <1>5, <1>6 DEF c, Reaches

\* Every row of the list can be reached and opened by keys alone.
THEOREM KeysSuffice == Spec => []KeysReachEveryRow
<1>1. ASSUME PageInv, NEW p PROVE Cardinality(Filtered(p)) \in Nat /\ Cardinality(saved) \in Nat
  <2>1. Filtered(p) \subseteq saved /\ IsFiniteSet(saved)
    BY <1>1 DEF PageInv, Shapes, ServerShape, LoadShape, Filtered
  <2> QED
    BY <2>1, FS_Subset, FS_CardinalityType
<1>2. ASSUME PageInv, NEW p \in Filters, NEW focus \in {"page", "search"},
             NEW at \in -1 .. Cardinality(saved), NEW row \in 0 .. (Cardinality(Filtered(p)) - 1)
      PROVE  Reaches(Cardinality(Filtered(p)), at, row, focus)
  BY <1>1, <1>2, KeysReach
<1>3. PageInv => KeysReachEveryRow
  BY <1>2 DEF Reaches, KeysReachEveryRow
<1> QED
  BY <1>3, PageInvariant, PTL
=============================================================================
