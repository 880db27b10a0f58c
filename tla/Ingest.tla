------------------------------- MODULE Ingest -------------------------------
(***************************************************************************)
(* Statement ingestion: the upload route of the web server, the hint it      *)
(* sends to a worker, and the workers that turn batches into draft           *)
(* transactions.                                                              *)
(*                                                                           *)
(* ProcessBatch runs in one database transaction.  Its uncommitted rows are  *)
(* `held' by the worker; a fingerprint held by one worker makes the unique   *)
(* index delay another's INSERT of it, and the state update at the start     *)
(* locks the batch row.  The state 'drafting' is therefore never visible:    *)
(* the committed states are the ones below.                                   *)
(***************************************************************************)
EXTENDS Integers, Sequences, FiniteSets

CONSTANTS MaxBatch,    \* batch ids are 1..MaxBatch
          Hash,       \* fingerprints, of one owner (the unique key has both)
          Worker,      \* worker processes that may be alive at once
          Records,     \* the records of each batch
          NudgeCap,    \* capacity of the hint queue (64 in the code)
          MaxUploads,  \* bound: uploads in a behaviour
          MaxFaults    \* bound: crashes and database errors in a behaviour

Batch == 1..MaxBatch

\* "ok" can be drafted, "zero" has amount 0, "malformed" fails the format tests,
\* "foreign" is in another currency than the account.
Record == [hash : Hash, kind : {"ok", "zero", "malformed", "foreign"}]

ASSUME IngestAssumption ==
  /\ MaxBatch \in Nat /\ NudgeCap \in Nat /\ MaxUploads \in Nat /\ MaxFaults \in Nat
  /\ Records \in [Batch -> Seq(Record)]

VARIABLES
  state,    \* committed ingest_batch.state, or "absent"
  drafts,   \* committed draft rows, as [hash, batch]
  ever,     \* history: fingerprints that were drafted at some time
  nudge,    \* per worker: the hint queue
  jobs,     \* per worker: batches the running scan or hint still has to do
  pc,       \* per worker: where ProcessBatch is
  batch,    \* per worker: the batch it processes
  next,     \* per worker: index of the next record
  held,     \* per worker: fingerprints drafted and not committed
  faults    \* number of faults so far

vars == <<state, drafts, ever, nudge, jobs, pc, batch, next, held, faults>>
db   == <<state, drafts, ever>>
proc == <<batch, next, held>>

Terminal == {"done", "failed"}

\* fn_pending_ingest_batches: in id order, as started_at is never committed
\* before the batch ends.
Pending ==
  LET upTo[b \in 0..MaxBatch] ==
        IF b = 0 THEN <<>>
        ELSE IF state[b] = "received" THEN Append(upTo[b - 1], b) ELSE upTo[b - 1]
  IN upTo[MaxBatch]

Rec(w) == Records[batch[w]][next[w]]

Remaining(w) == next[w] <= Len(Records[batch[w]])

\* The batch row is locked by whoever updated it to 'drafting'.
RowFree(w, b) == \A v \in Worker \ {w} : ~ (pc[v] = "drafting" /\ batch[v] = b)

Drafted(p) == \E d \in drafts : d.hash = p

Stored(w) == Drafted(Rec(w).hash) \/ Rec(w).hash \in held[w]

HeldElsewhere(w, p) == \E v \in Worker \ {w} : p \in held[v]

Goto(w, l) == pc' = [pc EXCEPT ![w] = l]

\* Mutant: an error path that forgets the deferred Rollback.
LeaveHolding(w, l) ==
  /\ Goto(w, l)
  /\ next' = [next EXCEPT ![w] = 0]
  /\ batch' = [batch EXCEPT ![w] = IF l = "mark" THEN @ ELSE 0]
  /\ UNCHANGED held

\* The transaction is gone: what it held is released.
Leave(w, l) ==
  /\ Goto(w, l)
  /\ held' = [held EXCEPT ![w] = {}]
  /\ next' = [next EXCEPT ![w] = 0]
  /\ batch' = [batch EXCEPT ![w] = IF l = "mark" THEN @ ELSE 0]

Fault == faults < MaxFaults /\ faults' = faults + 1

----------------------------------------------------------------------------
Init ==
  /\ state = [b \in Batch |-> "absent"]
  /\ drafts = {} /\ ever = {}
  /\ nudge = [w \in Worker |-> <<>>]
  /\ jobs = [w \in Worker |-> <<>>]
  /\ pc = [w \in Worker |-> "down"]
  /\ batch = [w \in Worker |-> 0]
  /\ next = [w \in Worker |-> 0]
  /\ held = [w \in Worker |-> {}]
  /\ faults = 0

(* The web server *)

\* The hint reaches the workers H behind the socket, one at most, whether or not its
\* answer comes back in time.  A full queue, no worker or a failed call loses it; one
\* that arrives late is one that stays in the queue.
Nudged(b, H) ==
  /\ \A w \in H : pc[w] # "down" /\ Len(nudge[w]) < NudgeCap
  /\ nudge' = [w \in Worker |-> IF w \in H THEN Append(nudge[w], b) ELSE nudge[w]]

\* POST /api/ingest: batch and payload in one transaction.  After the commit the
\* handler hints at the batch and answers, whatever becomes of the hint.
Upload(b, H) ==
  /\ state[b] = "absent"
  /\ Cardinality({c \in Batch : state[c] # "absent"}) < MaxUploads
  /\ state' = [state EXCEPT ![b] = "received"]
  /\ Nudged(b, H)
  /\ UNCHANGED <<drafts, ever, jobs, pc, proc, faults>>

\* Someone with the DELETE grant of the application role removes a draft.
DeleteDraft(d) ==
  /\ drafts' = drafts \ {d}
  /\ UNCHANGED <<state, ever, nudge, jobs, pc, proc, faults>>

(* The worker's loop *)

\* The process starts and scans at once.
Start(w) ==
  /\ pc[w] = "down"
  /\ Goto(w, "ready")
  /\ jobs' = [jobs EXCEPT ![w] = Pending]
  /\ UNCHANGED <<db, nudge, proc, faults>>

Ready(w) == pc[w] = "ready" /\ jobs[w] = <<>>

\* The ticker: the list of jobs is a snapshot that the batches outrun.
Scan(w) ==
  /\ Ready(w)
  /\ Pending # <<>>
  /\ jobs' = [jobs EXCEPT ![w] = Pending]
  /\ UNCHANGED <<db, nudge, pc, proc, faults>>

TakeHint(w) ==
  /\ Ready(w)
  /\ nudge[w] # <<>>
  /\ jobs' = [jobs EXCEPT ![w] = <<Head(nudge[w])>>]
  /\ nudge' = [nudge EXCEPT ![w] = Tail(@)]
  /\ UNCHANGED <<db, pc, proc, faults>>

(* ProcessBatch *)

\* Read the state of the next job; a finished batch is left alone.
Open(w) ==
  LET b == Head(jobs[w])
  IN /\ pc[w] = "ready" /\ jobs[w] # <<>>
     /\ jobs' = [jobs EXCEPT ![w] = Tail(@)]
     /\ IF state[b] \in Terminal
        THEN UNCHANGED <<pc, batch>>
        ELSE Goto(w, "opened") /\ batch' = [batch EXCEPT ![w] = b]
     /\ UNCHANGED <<db, nudge, next, held, faults>>

\* UPDATE to 'drafting': waits for the row, then overwrites whatever it holds.
Claim(w) ==
  /\ pc[w] = "opened"
  /\ RowFree(w, batch[w])
  /\ Goto(w, "drafting")
  /\ next' = [next EXCEPT ![w] = 1]
  /\ UNCHANGED <<db, nudge, jobs, batch, held, faults>>

InLoop(w) == pc[w] = "drafting" /\ Remaining(w)

\* Mutant: failBatch returns no error, so what was drafted so far is committed.
RejectCommitted(w) ==
  /\ InLoop(w)
  /\ Rec(w).kind \in {"malformed", "foreign"}
  /\ state' = [state EXCEPT ![batch[w]] = "failed"]
  /\ drafts' = drafts \cup [hash : held[w], batch : {batch[w]}]
  /\ ever' = ever \cup held[w]
  /\ Leave(w, "ready")
  /\ UNCHANGED <<nudge, jobs, faults>>

\* A malformed record, or a foreign one that is not stored yet, ends the
\* transaction; failBatch's own update is rolled back with it.
Reject(w) ==
  /\ InLoop(w)
  /\ \/ Rec(w).kind = "malformed"
     \/ /\ Rec(w).kind = "foreign"
        /\ ~ Stored(w) /\ ~ HeldElsewhere(w, Rec(w).hash)
  /\ Leave(w, "mark")
  /\ UNCHANGED <<db, nudge, jobs, faults>>

\* A zero amount, or a fingerprint already stored (ON CONFLICT DO NOTHING).
Skip(w) ==
  /\ InLoop(w)
  /\ \/ Rec(w).kind = "zero"
     \/ Rec(w).kind # "malformed" /\ Stored(w)
  /\ next' = [next EXCEPT ![w] = @ + 1]
  /\ UNCHANGED <<db, nudge, jobs, pc, batch, held, faults>>

\* Mutant: a fingerprint another transaction holds is not waited for.
DraftNoWait(w) ==
  /\ InLoop(w)
  /\ Rec(w).kind = "ok" /\ ~ Stored(w)
  /\ held' = [held EXCEPT ![w] = @ \cup {Rec(w).hash}]
  /\ next' = [next EXCEPT ![w] = @ + 1]
  /\ UNCHANGED <<db, nudge, jobs, pc, batch, faults>>

\* INSERT txn and its one entry; waits while another worker holds the same
\* fingerprint uncommitted.
Draft(w) ==
  /\ InLoop(w)
  /\ Rec(w).kind = "ok" /\ ~ Stored(w)
  /\ ~ HeldElsewhere(w, Rec(w).hash)
  /\ held' = [held EXCEPT ![w] = @ \cup {Rec(w).hash}]
  /\ next' = [next EXCEPT ![w] = @ + 1]
  /\ UNCHANGED <<db, nudge, jobs, pc, batch, faults>>

CommitDone(w) ==
  /\ pc[w] = "drafting" /\ ~ Remaining(w)
  /\ state' = [state EXCEPT ![batch[w]] = "done"]
  /\ drafts' = drafts \cup [hash : held[w], batch : {batch[w]}]
  /\ ever' = ever \cup held[w]

\* UPDATE to 'done' and COMMIT.
Finish(w) ==
  /\ CommitDone(w)
  /\ Leave(w, "ready")
  /\ UNCHANGED <<nudge, jobs, faults>>

\* Mutant: markFailed without its test of the present state.
MarkFailedAlways(w) ==
  /\ pc[w] = "mark"
  /\ RowFree(w, batch[w])
  /\ state' = [state EXCEPT ![batch[w]] = "failed"]
  /\ Leave(w, "ready")
  /\ UNCHANGED <<drafts, ever, nudge, jobs, faults>>

\* Mutant: no markFailed; failBatch's update is all there is.
MarkFailedNever(w) ==
  /\ pc[w] = "mark"
  /\ Leave(w, "ready")
  /\ UNCHANGED <<db, nudge, jobs, faults>>

\* A transaction of its own marks the batch, unless it ended meanwhile.
MarkFailed(w) ==
  /\ pc[w] = "mark"
  /\ RowFree(w, batch[w])
  /\ state' = [state EXCEPT ![batch[w]] = IF @ \in Terminal THEN @ ELSE "failed"]
  /\ Leave(w, "ready")
  /\ UNCHANGED <<drafts, ever, nudge, jobs, faults>>

(* What goes wrong *)

\* Two workers wait for each other's fingerprints: the database ends one.
Waiting(w) ==
  InLoop(w) /\ Rec(w).kind \in {"ok", "foreign"} /\ HeldElsewhere(w, Rec(w).hash)

Deadlocked(w) ==
  \E v \in Worker \ {w} : /\ Waiting(w) /\ Rec(w).hash \in held[v]
                          /\ Waiting(v) /\ Rec(v).hash \in held[w]

DeadlockVictim(w) ==
  /\ Deadlocked(w)
  /\ Leave(w, "mark")
  /\ UNCHANGED <<db, nudge, jobs, faults>>

\* A statement fails.
DbError(w) ==
  /\ pc[w] \in {"opened", "drafting"}
  /\ Fault
  /\ Leave(w, "mark")
  /\ UNCHANGED <<db, nudge, jobs>>

\* The COMMIT takes effect and its answer is lost: the worker sees an error.
CommitLost(w) ==
  /\ CommitDone(w)
  /\ Fault
  /\ Leave(w, "mark")
  /\ UNCHANGED <<nudge, jobs>>

\* Marking fails too: the batch stays as it is.
MarkError(w) ==
  /\ pc[w] = "mark"
  /\ Fault
  /\ Leave(w, "ready")
  /\ UNCHANGED <<db, nudge, jobs>>

\* The process is killed, or told to stop while at work: its transaction is
\* rolled back and its queues are lost.
Crash(w) ==
  /\ pc[w] # "down"
  /\ Fault
  /\ Leave(w, "down")
  /\ jobs' = [jobs EXCEPT ![w] = <<>>]
  /\ nudge' = [nudge EXCEPT ![w] = <<>>]
  /\ UNCHANGED db

Work(w) ==
  \/ Start(w) \/ Scan(w) \/ TakeHint(w) \/ Open(w) \/ Claim(w)
  \/ Reject(w) \/ Skip(w) \/ Draft(w) \/ Finish(w) \/ MarkFailed(w)
  \/ DeadlockVictim(w)

Fail(w) == DbError(w) \/ CommitLost(w) \/ MarkError(w) \/ Crash(w)

Next ==
  \/ \E b \in Batch : Upload(b, {}) \/ \E w \in Worker : Upload(b, {w})
  \/ \E d \in drafts : DeleteDraft(d)
  \/ \E w \in Worker : Work(w) \/ Fail(w)

\* A worker process is started again and goes on working; nothing is assumed of
\* uploads, hints or deletes.
Fairness == \A w \in Worker : WF_vars(Work(w))

Spec == Init /\ [][Next]_vars /\ Fairness

----------------------------------------------------------------------------
(* Properties *)

\* Well-formedness: only a worker inside ProcessBatch's transaction holds rows.
TypeOK ==
  /\ state \in [Batch -> {"absent", "received"} \cup Terminal]
  /\ drafts \subseteq [hash : Hash, batch : Batch]
  /\ ever \subseteq Hash
  /\ \A w \in Worker :
       /\ nudge[w] \in Seq(Batch) /\ Len(nudge[w]) <= NudgeCap
       /\ jobs[w] \in Seq(Batch)
       /\ pc[w] \in {"down", "ready", "opened", "drafting", "mark"}
       /\ batch[w] \in Batch \cup {0}
       /\ next[w] \in Nat
       /\ held[w] \subseteq Hash
       /\ held[w] # {} => pc[w] = "drafting"
  /\ faults \in 0..MaxFaults

\* One draft per fingerprint at any time, whatever files are uploaded again,
\* by whichever worker, and however often a batch is processed anew.
OneDraftPerHash == \A d, e \in drafts : d.hash = e.hash => d = e

\* A batch that was reported done stays done: no late worker, stale job list or
\* lost COMMIT answer turns it into a failed one.
DoneIsFinal == [][\A b \in Batch : state[b] = "done" => state'[b] = "done"]_vars

\* Every uploaded batch ends, though hints are lost, processes crash and the
\* database fails (a bounded number of times): the scan takes it up again, and
\* a batch that cannot succeed is marked instead of being retried for ever.
EveryBatchEnds ==
  \A b \in Batch : (state[b] = "received") ~> (state[b] \in Terminal)

Promise == INSTANCE IngestPromise WITH
  Hashes <- [b \in Batch |->
               {Records[b][i].hash : i \in {j \in 1..Len(Records[b]) :
                                               Records[b][j].kind = "ok"}}],
  Sound <- {b \in Batch : \A i \in 1..Len(Records[b]) :
                            Records[b][i].kind # "malformed"}

\* A batch ends in one atomic step that drafts all it has to draft or nothing,
\* so no crash leaves a partly drafted batch behind.
KeepsPromise == Promise!Spec
=============================================================================
