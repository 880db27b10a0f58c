---------------------------- MODULE IngestProofs ----------------------------
(***************************************************************************)
(* Theorems about Ingest, for any files, workers and bounds: one draft per   *)
(* fingerprint, batches that are done stay done, and every step of the       *)
(* detailed system is a step of IngestPromise or none.                        *)
(***************************************************************************)
EXTENDS Ingest, FiniteSumsProofs

----------------------------------------------------------------------------
(* The list of pending batches *)

Received == {b \in Batch : state[b] = "received"}

\* u lists the received batches up to each of 0..N.
IsListing(u, N) ==
  u = [b \in 0..N |-> IF b = 0 THEN <<>>
                      ELSE IF state[b] = "received" THEN Append(u[b - 1], b) ELSE u[b - 1]]

\* Such lists exist: the least number without them would extend its predecessor's.
LEMMA ListingExists ==
  ASSUME NEW N \in Nat
  PROVE  \E u : IsListing(u, N)
<1> DEFINE Bad == {n \in Nat : ~ \E u : IsListing(u, n)}
<1>1. SUFFICES ASSUME Bad # {} PROVE FALSE
  OBVIOUS
<1>2. PICK m \in Bad : \A k \in Bad : m <= k
  BY <1>1, LeastNat
<1>3. CASE m = 0
  <2>1. IsListing([b \in 0..0 |-> <<>>], 0)
    BY DEF IsListing
  <2> QED
    BY <1>2, <1>3, <2>1
<1>4. CASE m # 0
  <2>1. m \in Nat /\ m - 1 \in Nat /\ m - 1 \notin Bad
    BY <1>2, <1>4
  <2>2. PICK u : IsListing(u, m - 1)
    BY <2>1
  <2> DEFINE step(v, b) == IF b = 0 THEN <<>>
                           ELSE IF state[b] = "received" THEN Append(v[b - 1], b)
                                ELSE v[b - 1]
             w == [b \in 0..m |-> IF b = m THEN step(u, m) ELSE u[b]]
  <2>3. /\ DOMAIN u = 0..(m - 1)
        /\ \A b \in 0..(m - 1) : u[b] = step(u, b)
    BY <2>2 DEF IsListing
  <2>4. \A b \in 0..m : w[b] = step(w, b)
    <3> SUFFICES ASSUME NEW b \in 0..m PROVE w[b] = step(w, b)
      OBVIOUS
    <3>1. CASE b = m
      <4>1. w[m - 1] = u[m - 1]
        BY <2>1
      <4> QED
        BY <1>4, <2>1, <3>1, <4>1
    <3>2. CASE b # m
      <4>0. b \in 0..(m - 1)
        BY <2>1, <3>2
      <4>1. w[b] = u[b] /\ u[b] = step(u, b)
        BY <2>3, <3>2, <4>0
      <4>2. b # 0 => w[b - 1] = u[b - 1]
        BY <2>1, <4>0
      <4> QED
        BY <4>1, <4>2
    <3> QED
      BY <3>1, <3>2
  <2>5. w = [b \in 0..m |-> step(w, b)]
    BY <2>4
  <2>6. IsListing(w, m)
    BY <2>5 DEF IsListing
  <2> QED
    BY <1>2, <2>6
<1> QED
  BY <1>3, <1>4

\* A scan lists received batches only.
LEMMA PendingReceived ==
  ASSUME MaxBatch \in Nat
  PROVE  Pending \in Seq(Received)
<1> DEFINE step(v, b) == IF b = 0 THEN <<>>
                         ELSE IF state[b] = "received" THEN Append(v[b - 1], b)
                              ELSE v[b - 1]
           U == CHOOSE u : IsListing(u, MaxBatch)
           Bad == {b \in 0..MaxBatch : U[b] \notin Seq(Received)}
<1>1. IsListing(U, MaxBatch)
  BY ListingExists
<1>2. Pending = U[MaxBatch]
  BY DEF Pending, IsListing
<1>3. \A b \in 0..MaxBatch : U[b] = step(U, b)
  BY <1>1 DEF IsListing
<1> HIDE DEF U
<1>4. Bad = {}
  <2> SUFFICES ASSUME Bad # {} PROVE FALSE
    OBVIOUS
  <2>0. Bad \in SUBSET Nat
    OBVIOUS
  <2>1. PICK m \in Bad : \A k \in Bad : m <= k
    BY <2>0, LeastNat
  <2>2. m # 0
    <3>1. U[0] = <<>> /\ <<>> \in Seq(Received)
      BY <1>3
    <3> QED
      BY <2>1, <3>1
  <2>3. m \in Batch /\ m - 1 \in 0..MaxBatch /\ m - 1 \notin Bad
    BY <2>1, <2>2 DEF Batch
  <2>4. U[m - 1] \in Seq(Received)
    BY <2>3
  <2>5. state[m] = "received" => Append(U[m - 1], m) \in Seq(Received)
    BY <2>3, <2>4 DEF Received
  <2> QED
    BY <1>3, <2>1, <2>2, <2>4, <2>5
<1>5. U[MaxBatch] \in Seq(Received)
  BY <1>4
<1> QED
  BY <1>2, <1>5

----------------------------------------------------------------------------
(* The invariant *)

Uploaded == {b \in Batch : state[b] # "absent"}

\* The fingerprints a batch would draft.
OkHashes(b) ==
  {Records[b][i].hash : i \in {j \in 1..Len(Records[b]) : Records[b][j].kind = "ok"}}

\* A record that was passed is no ground for refusal and, if it can be drafted, is
\* among the fingerprints known: drafted at some time, or held.
Passed(known, r) == r.kind # "malformed" /\ (r.kind = "ok" => r.hash \in known)

\* What a worker has in hand is uploaded; while it drafts, it has passed the records
\* before the next one and holds fingerprints of its batch.
Queues(w) ==
  /\ nudge[w] \in Seq(Uploaded) /\ Len(nudge[w]) <= NudgeCap
  /\ jobs[w] \in Seq(Uploaded)

Place(w) ==
  /\ pc[w] \in {"down", "ready", "opened", "drafting", "mark"}
  /\ batch[w] \in Batch \cup {0} /\ next[w] \in Nat
  /\ held[w] \subseteq Hash
  /\ held[w] # {} => pc[w] = "drafting"
  /\ pc[w] \in {"opened", "drafting", "mark"} => batch[w] \in Uploaded
  /\ pc[w] = "drafting" =>
       /\ next[w] \in 1..(Len(Records[batch[w]]) + 1)
       /\ \A j \in 1..(next[w] - 1) : Passed(ever \cup held[w], Records[batch[w]][j])
       /\ held[w] \subseteq OkHashes(batch[w])

Local(w) == Queues(w) /\ Place(w)

\* Fingerprints are held by one worker and drafted by nobody yet.
HeldFresh ==
  \A w \in Worker : \A p \in held[w] :
    /\ \A d \in drafts : d.hash # p
    /\ \A v \in Worker \ {w} : p \notin held[v]

Shape ==
  /\ DOMAIN nudge = Worker /\ nudge = [w \in Worker |-> nudge[w]]
  /\ DOMAIN jobs = Worker /\ jobs = [w \in Worker |-> jobs[w]]
  /\ DOMAIN pc = Worker /\ pc = [w \in Worker |-> pc[w]]
  /\ DOMAIN batch = Worker /\ batch = [w \in Worker |-> batch[w]]
  /\ DOMAIN next = Worker /\ next = [w \in Worker |-> next[w]]
  /\ DOMAIN held = Worker /\ held = [w \in Worker |-> held[w]]

Tables ==
  /\ state \in [Batch -> {"absent", "received"} \cup Terminal]
  /\ drafts \subseteq [hash : Hash, batch : Batch]
  /\ ever \subseteq Hash
  /\ \A d \in drafts : d.hash \in ever
  /\ faults \in 0..MaxFaults

IngestInv ==
  /\ Tables /\ Shape /\ HeldFresh /\ OneDraftPerHash
  /\ \A w \in Worker : Local(w)

----------------------------------------------------------------------------
(* What the steps have in common *)

\* The two halves of a worker's state: its queues, and its place in ProcessBatch.
SameQueues(v) == nudge'[v] = nudge[v] /\ jobs'[v] = jobs[v]

SamePlace(v) ==
  pc'[v] = pc[v] /\ batch'[v] = batch[v] /\ next'[v] = next[v] /\ held'[v] = held[v]

\* The tables only grow, as far as the workers rely on them.
Grows == Uploaded \subseteq Uploaded' /\ ever \subseteq ever'

\* A queue of uploaded batches stays one as more batches are uploaded.
LEMMA SeqGrows ==
  ASSUME NEW S, NEW T, S \subseteq T, NEW q \in Seq(S)
  PROVE  q \in Seq(T)
OBVIOUS

\* A step that leaves a worker's place in ProcessBatch leaves what is known of it true.
LEMMA PlaceFrame ==
  ASSUME NEW v \in Worker, Place(v), Grows, SamePlace(v)
  PROVE  Place(v)'
<1>1. \A r : Passed(ever \cup held[v], r) => Passed(ever' \cup held'[v], r)
  BY DEF Passed, Grows, SamePlace
<1>2. pc[v] = "drafting" =>
        \A j \in 1..(next[v] - 1) : Passed(ever' \cup held'[v], Records[batch[v]][j])
  BY <1>1 DEF Place
<1>3. pc'[v] = "drafting" =>
        /\ next'[v] \in 1..(Len(Records[batch'[v]]) + 1)
        /\ \A j \in 1..(next'[v] - 1) :
             Passed(ever' \cup held'[v], Records[batch'[v]][j])
        /\ held'[v] \subseteq OkHashes(batch'[v])
  BY <1>2 DEF Place, SamePlace
<1>5. pc'[v] \in {"opened", "drafting", "mark"} => batch'[v] \in Uploaded'
  BY DEF Place, SamePlace, Grows
<1>6. /\ pc'[v] \in {"down", "ready", "opened", "drafting", "mark"}
      /\ batch'[v] \in Batch \cup {0} /\ next'[v] \in Nat
      /\ held'[v] \subseteq Hash
      /\ held'[v] # {} => pc'[v] = "drafting"
  BY DEF Place, SamePlace
<1> QED
  BY <1>3, <1>5, <1>6 DEF Place, OkHashes, Passed

\* The queues too, when they are left alone.
LEMMA QueuesFrame ==
  ASSUME NEW v \in Worker, Queues(v), Grows, SameQueues(v)
  PROVE  Queues(v)'
<1>1. nudge'[v] \in Seq(Uploaded') /\ jobs'[v] \in Seq(Uploaded')
  BY SeqGrows DEF Queues, Grows, SameQueues
<1>2. Len(nudge'[v]) <= NudgeCap
  BY DEF Queues, SameQueues
<1> QED
  BY <1>1, <1>2 DEF Queues

\* Whatever is not held by more workers, nor drafted, stays fresh.
LEMMA FreshFrame ==
  ASSUME HeldFresh, drafts' \subseteq drafts, \A v \in Worker : held'[v] \subseteq held[v]
  PROVE  HeldFresh'
BY DEF HeldFresh

\* Leaving ProcessBatch releases what the worker held.
LEMMA LeaveFacts ==
  ASSUME Shape, NEW w \in Worker, NEW l, Leave(w, l)
  PROVE  /\ pc' = [v \in Worker |-> pc'[v]] /\ DOMAIN pc' = Worker
         /\ batch' = [v \in Worker |-> batch'[v]] /\ DOMAIN batch' = Worker
         /\ next' = [v \in Worker |-> next'[v]] /\ DOMAIN next' = Worker
         /\ held' = [v \in Worker |-> held'[v]] /\ DOMAIN held' = Worker
         /\ pc'[w] = l /\ next'[w] = 0 /\ held'[w] = {}
         /\ batch'[w] = (IF l = "mark" THEN batch[w] ELSE 0)
         /\ \A v \in Worker \ {w} : SamePlace(v)
BY DEF Shape, Leave, Goto, SamePlace

\* The worker that left has nothing in hand but the batch it is to mark.
LEMMA LeavePlace ==
  ASSUME Shape, NEW w \in Worker, NEW l \in {"down", "ready", "mark"}, Leave(w, l), Place(w),
         Grows, l = "mark" => pc[w] \in {"opened", "drafting"}
  PROVE  Place(w)'
<1>1. /\ pc'[w] = l /\ next'[w] = 0 /\ held'[w] = {}
      /\ batch'[w] = (IF l = "mark" THEN batch[w] ELSE 0)
  BY LeaveFacts
<1>2. batch'[w] \in Batch \cup {0} /\ (l = "mark" => batch'[w] \in Uploaded')
  BY <1>1 DEF Place, Grows
<1>3. pc'[w] \in {"down", "ready", "mark"}
  BY <1>1
<1>4. next'[w] \in Nat /\ held'[w] \subseteq Hash
  BY <1>1
<1> QED
  BY <1>1, <1>2, <1>3, <1>4 DEF Place

\* A step of one worker, as the others see it.
OthersSame(w) == \A v \in Worker \ {w} : SameQueues(v) /\ SamePlace(v)

LEMMA LocalStep ==
  ASSUME NEW w \in Worker, \A v \in Worker : Local(v), Grows, OthersSame(w),
         Queues(w)', Place(w)'
  PROVE  \A v \in Worker : Local(v)'
<1> SUFFICES ASSUME NEW v \in Worker PROVE Local(v)'
  OBVIOUS
<1>1. CASE v = w
  BY <1>1 DEF Local
<1>2. CASE v # w
  <2>1. Queues(v) /\ Place(v) /\ SameQueues(v) /\ SamePlace(v)
    BY <1>2 DEF Local, OthersSame
  <2>2. Queues(v)'
    BY <2>1, QueuesFrame
  <2>3. Place(v)'
    BY <2>1, PlaceFrame
  <2> QED
    BY <2>2, <2>3 DEF Local
<1> QED
  BY <1>1, <1>2

\* Tables nobody wrote to.
LEMMA TablesKept ==
  ASSUME Tables, OneDraftPerHash, UNCHANGED db, faults' \in 0..MaxFaults
  PROVE  Tables' /\ OneDraftPerHash' /\ Grows
<1>1. Tables'
  BY DEF Tables, db
<1>2. OneDraftPerHash'
  BY DEF OneDraftPerHash, db
<1>3. Grows
  BY DEF Grows, Uploaded, db
<1> QED
  BY <1>1, <1>2, <1>3

\* What a worker's step needs to keep the invariant when it writes no table.
LEMMA StepKeeps ==
  ASSUME NEW w \in Worker, IngestInv, UNCHANGED db, faults' \in 0..MaxFaults, OthersSame(w),
         Shape', HeldFresh', Queues(w)', Place(w)'
  PROVE  IngestInv'
<1>1. Tables' /\ OneDraftPerHash' /\ Grows
  BY TablesKept DEF IngestInv
<1>2. \A v \in Worker : Local(v)'
  BY <1>1, LocalStep DEF IngestInv
<1> QED
  BY <1>1, <1>2 DEF IngestInv

\* A fault is counted below its bound.
LEMMA FaultCounted ==
  ASSUME Tables, UNCHANGED faults \/ Fault
  PROVE  faults' \in 0..MaxFaults
BY IngestAssumption DEF Tables, Fault

\* A worker that leaves ProcessBatch, writes no table and keeps its queues.
LEMMA LeaveKeeps ==
  ASSUME NEW w \in Worker, IngestInv, UNCHANGED <<db, nudge, jobs>>, UNCHANGED faults \/ Fault,
         NEW l \in {"ready", "mark"}, Leave(w, l), l = "mark" => pc[w] \in {"opened", "drafting"}
  PROVE  IngestInv'
<1>0. Shape /\ HeldFresh /\ Queues(w) /\ Place(w)
  BY DEF IngestInv, Local
<1>1. faults' \in 0..MaxFaults /\ Grows /\ UNCHANGED db
  BY FaultCounted, TablesKept DEF IngestInv
<1>2. OthersSame(w)
  BY <1>0, LeaveFacts DEF OthersSame, SameQueues
<1>3. Shape'
  BY <1>0, LeaveFacts DEF Shape
<1>4. \A v \in Worker : held'[v] \subseteq held[v]
  BY <1>0, LeaveFacts DEF SamePlace
<1>5. HeldFresh'
  BY <1>0, <1>1, <1>4, FreshFrame DEF db
<1>6. Place(w)'
  BY <1>0, <1>1, LeavePlace
<1>7. Queues(w)'
  BY <1>0, <1>1, QueuesFrame DEF SameQueues
<1> QED
  BY <1>1, <1>2, <1>3, <1>5, <1>6, <1>7, StepKeeps

\* Queues that change while every place in ProcessBatch stays.
LEMMA QueuesKeep ==
  ASSUME NEW w \in Worker, IngestInv, UNCHANGED <<db, pc, proc, faults>>,
         nudge' = [nudge EXCEPT ![w] = nudge'[w]], jobs' = [jobs EXCEPT ![w] = jobs'[w]],
         nudge'[w] \in Seq(Uploaded), Len(nudge'[w]) <= NudgeCap, jobs'[w] \in Seq(Uploaded)
  PROVE  IngestInv'
<1>0. Shape /\ HeldFresh /\ Queues(w) /\ Place(w) /\ Tables
  BY DEF IngestInv, Local
<1>1. faults' \in 0..MaxFaults /\ Grows /\ UNCHANGED db
  BY <1>0, FaultCounted, TablesKept DEF IngestInv
<1>2. OthersSame(w) /\ SamePlace(w)
  BY <1>0 DEF OthersSame, SameQueues, SamePlace, proc, Shape
<1>3. Shape'
  BY <1>0 DEF Shape, proc
<1>5. HeldFresh'
  BY <1>0, <1>1, FreshFrame DEF db, proc
<1>6. Place(w)'
  BY <1>0, <1>1, <1>2, PlaceFrame
<1>7. Queues(w)'
  BY <1>1, SeqGrows DEF Queues, Grows
<1> QED
  BY <1>1, <1>2, <1>3, <1>5, <1>6, <1>7, StepKeeps

----------------------------------------------------------------------------
(* One lemma per action *)

\* The received batches are uploaded ones.
LEMMA PendingUploaded ==
  Pending \in Seq(Uploaded)
<1>1. Pending \in Seq(Received)
  BY PendingReceived, IngestAssumption
<1>2. Received \subseteq Uploaded
  BY DEF Received, Uploaded
<1> QED
  BY <1>1, <1>2, SeqGrows

\* The web server adds a batch and at most one hint to a queue with room for it.
LEMMA UploadKeeps ==
  ASSUME IngestInv, NEW b \in Batch, NEW H \in SUBSET Worker, Upload(b, H)
  PROVE  IngestInv'
<1>0. Shape /\ HeldFresh /\ Tables /\ OneDraftPerHash /\ \A v \in Worker : Queues(v) /\ Place(v)
  BY DEF IngestInv, Local
<1>1. Tables' /\ OneDraftPerHash'
  BY <1>0 DEF Tables, OneDraftPerHash, Upload
<1>2. b \in Uploaded' /\ Grows
  BY <1>0 DEF Tables, Grows, Uploaded, Upload
<1>3. Shape'
  BY <1>0 DEF Shape, Upload, Nudged, proc
<1>4. HeldFresh'
  BY <1>0, FreshFrame DEF Upload, proc
<1>5. ASSUME NEW v \in Worker PROVE Local(v)'
  <2>1. Place(v)'
    BY <1>0, <1>2, PlaceFrame DEF SamePlace, Upload, proc
  <2>2. nudge[v] \in Seq(Uploaded') /\ jobs[v] \in Seq(Uploaded')
    BY <1>0, <1>2, SeqGrows DEF Queues, Grows
  <2>3. jobs'[v] = jobs[v]
        /\ nudge'[v] = (IF v \in H THEN Append(nudge[v], b) ELSE nudge[v])
    BY DEF Upload, Nudged
  <2>4. Append(nudge[v], b) \in Seq(Uploaded') /\ Len(Append(nudge[v], b)) = Len(nudge[v]) + 1
        /\ Len(nudge[v]) \in Nat
    BY <1>2, <2>2
  <2>5. nudge'[v] \in Seq(Uploaded')
    BY <2>2, <2>3, <2>4
  <2>6. Len(nudge'[v]) <= NudgeCap
    <3>1. CASE v \in H
      BY <2>3, <2>4, <3>1, IngestAssumption DEF Upload, Nudged
    <3>2. CASE v \notin H
      BY <1>0, <2>3, <3>2 DEF Queues
    <3> QED
      BY <3>1, <3>2
  <2> QED
    BY <2>1, <2>2, <2>3, <2>5, <2>6 DEF Local, Queues
<1> QED
  BY <1>1, <1>3, <1>4, <1>5 DEF IngestInv

\* A draft that is deleted was drafted at some time, so its fingerprint stays in `ever'.
LEMMA DeleteDraftKeeps ==
  ASSUME IngestInv, NEW d \in drafts, DeleteDraft(d)
  PROVE  IngestInv'
<1>0. Shape /\ HeldFresh /\ Tables /\ OneDraftPerHash /\ \A v \in Worker : Queues(v) /\ Place(v)
  BY DEF IngestInv, Local
<1>1. Tables' /\ OneDraftPerHash' /\ Grows
  BY <1>0 DEF Tables, OneDraftPerHash, DeleteDraft, Grows, Uploaded
<1>2. Shape'
  BY <1>0 DEF Shape, DeleteDraft, proc
<1>3. HeldFresh'
  BY <1>0, FreshFrame DEF DeleteDraft, proc
<1>4. ASSUME NEW v \in Worker PROVE Local(v)'
  <2>1. SamePlace(v) /\ SameQueues(v)
    BY DEF DeleteDraft, SamePlace, SameQueues, proc
  <2> QED
    BY <1>0, <1>1, <2>1, PlaceFrame, QueuesFrame DEF Local
<1> QED
  BY <1>1, <1>2, <1>3, <1>4 DEF IngestInv

\* The first scan: the process is up and has no rows of its own.
LEMMA StartKeeps ==
  ASSUME NEW w \in Worker, IngestInv, Start(w)
  PROVE  IngestInv'
<1>0. Shape /\ HeldFresh /\ Queues(w) /\ Place(w) /\ Tables
  BY DEF IngestInv, Local
<1>1. faults' \in 0..MaxFaults /\ Grows /\ UNCHANGED db
  BY <1>0, FaultCounted, TablesKept DEF IngestInv, Start
<1>2. OthersSame(w) /\ Shape' /\ pc'[w] = "ready" /\ jobs'[w] = Pending /\ nudge' = nudge
      /\ batch' = batch /\ next' = next /\ held' = held
  BY <1>0 DEF OthersSame, SameQueues, SamePlace, proc, Shape, Start, Goto
<1>3. HeldFresh'
  BY <1>0, <1>1, <1>2, FreshFrame DEF db
<1>4. Queues(w)'
  BY <1>0, <1>1, <1>2, PendingUploaded, SeqGrows DEF Queues, Grows
<1>5. held[w] = {}
  BY <1>0 DEF Place, Start
<1>6. Place(w)'
  BY <1>0, <1>2, <1>5 DEF Place
<1> QED
  BY <1>1, <1>2, <1>3, <1>4, <1>6, StepKeeps

\* A scan replaces the list of jobs by the pending batches.
LEMMA ScanKeeps ==
  ASSUME NEW w \in Worker, IngestInv, Scan(w)
  PROVE  IngestInv'
<1>1. Shape /\ Queues(w)
  BY DEF IngestInv, Local
<1>2. jobs'[w] = Pending /\ nudge' = nudge /\ jobs' = [jobs EXCEPT ![w] = jobs'[w]]
      /\ nudge' = [nudge EXCEPT ![w] = nudge'[w]]
  BY <1>1 DEF Shape, Scan
<1> QED
  BY <1>1, <1>2, PendingUploaded, QueuesKeep DEF Queues, Scan

\* A hint becomes the only job.
LEMMA TakeHintKeeps ==
  ASSUME NEW w \in Worker, IngestInv, TakeHint(w)
  PROVE  IngestInv'
<1>1. Shape /\ Queues(w)
  BY DEF IngestInv, Local
<1>2. /\ nudge'[w] = Tail(nudge[w]) /\ nudge' = [nudge EXCEPT ![w] = nudge'[w]]
      /\ jobs'[w] = <<Head(nudge[w])>> /\ jobs' = [jobs EXCEPT ![w] = jobs'[w]]
  BY <1>1 DEF Shape, TakeHint
<1>3. nudge[w] \in Seq(Uploaded) /\ nudge[w] # <<>> /\ Len(nudge[w]) <= NudgeCap
  BY <1>1 DEF Queues, TakeHint
<1>4. Head(nudge[w]) \in Uploaded /\ Tail(nudge[w]) \in Seq(Uploaded)
      /\ Len(Tail(nudge[w])) = Len(nudge[w]) - 1 /\ Len(nudge[w]) \in Nat
  BY <1>3
<1>5. <<Head(nudge[w])>> \in Seq(Uploaded)
  BY <1>4
<1>6. Len(nudge'[w]) <= NudgeCap
  BY <1>2, <1>3, <1>4, IngestAssumption
<1> QED
  BY <1>2, <1>4, <1>5, <1>6, QueuesKeep DEF TakeHint

\* The next job is an uploaded batch; one that ended is dropped.
LEMMA OpenKeeps ==
  ASSUME NEW w \in Worker, IngestInv, Open(w)
  PROVE  IngestInv'
<1>0. Shape /\ HeldFresh /\ Queues(w) /\ Place(w) /\ Tables
  BY DEF IngestInv, Local
<1>1. faults' \in 0..MaxFaults /\ Grows /\ UNCHANGED db
  BY <1>0, FaultCounted, TablesKept DEF IngestInv, Open
<1>2. jobs[w] \in Seq(Uploaded) /\ jobs[w] # <<>>
  BY <1>0 DEF Queues, Open
<1>3. Head(jobs[w]) \in Uploaded /\ Tail(jobs[w]) \in Seq(Uploaded)
  BY <1>2
<1>4. /\ jobs' = [jobs EXCEPT ![w] = Tail(@)]
      /\ nudge' = nudge /\ next' = next /\ held' = held
      /\ \/ pc' = pc /\ batch' = batch
         \/ /\ pc' = [pc EXCEPT ![w] = "opened"]
            /\ batch' = [batch EXCEPT ![w] = Head(jobs[w])]
  BY DEF Open, Goto
<1>5. OthersSame(w) /\ Shape' /\ jobs'[w] = Tail(jobs[w])
  BY <1>0, <1>4 DEF OthersSame, SameQueues, SamePlace, Shape
<1>6. HeldFresh'
  BY <1>0, <1>1, <1>4, FreshFrame DEF db
<1>7. Queues(w)'
  BY <1>0, <1>1, <1>3, <1>4, <1>5, SeqGrows DEF Queues, Grows
<1>8. held[w] = {}
  BY <1>0 DEF Place, Open
<1>9. Place(w)'
  <2>1. CASE pc' = pc /\ batch' = batch
    BY <1>0, <1>1, <1>4, <2>1, PlaceFrame DEF SamePlace
  <2>2. CASE /\ pc' = [pc EXCEPT ![w] = "opened"]
             /\ batch' = [batch EXCEPT ![w] = Head(jobs[w])]
    <3>1. pc'[w] = "opened" /\ batch'[w] = Head(jobs[w])
      BY <1>0, <2>2 DEF Shape
    <3>2. batch'[w] \in Uploaded' /\ batch'[w] \in Batch
      BY <1>1, <1>3, <3>1 DEF Grows, Uploaded
    <3> QED
      BY <1>0, <1>4, <1>8, <3>1, <3>2 DEF Place
  <2> QED
    BY <1>4, <2>1, <2>2
<1> QED
  BY <1>1, <1>5, <1>6, <1>7, <1>9, StepKeeps

\* The transaction begins before the first record and holds nothing.
LEMMA ClaimKeeps ==
  ASSUME NEW w \in Worker, IngestInv, Claim(w)
  PROVE  IngestInv'
<1>0. Shape /\ HeldFresh /\ Queues(w) /\ Place(w) /\ Tables
  BY DEF IngestInv, Local
<1>1. faults' \in 0..MaxFaults /\ Grows /\ UNCHANGED db
  BY <1>0, FaultCounted, TablesKept DEF IngestInv, Claim
<1>2. OthersSame(w) /\ Shape' /\ pc'[w] = "drafting" /\ next'[w] = 1
      /\ batch' = batch /\ held' = held /\ SameQueues(w)
  BY <1>0 DEF OthersSame, SameQueues, SamePlace, Shape, Claim, Goto
<1>3. HeldFresh'
  BY <1>0, <1>1, <1>2, FreshFrame DEF db
<1>4. Queues(w)'
  BY <1>0, <1>1, <1>2, QueuesFrame
<1>5. held[w] = {} /\ batch[w] \in Uploaded /\ batch[w] \in Batch
  BY <1>0 DEF Place, Claim, Uploaded
<1>6. Len(Records[batch[w]]) \in Nat
  BY <1>5, IngestAssumption
<1>7. Place(w)'
  <2>1. batch'[w] \in Uploaded'
    BY <1>1, <1>2, <1>5 DEF Grows
  <2>2. 1 \in 1..(Len(Records[batch[w]]) + 1) /\ 1..(1 - 1) = {}
    BY <1>6
  <2> QED
    BY <1>2, <1>5, <2>1, <2>2 DEF Place
<1> QED
  BY <1>1, <1>2, <1>3, <1>4, <1>7, StepKeeps

\* The record at hand is one of the batch.
LEMMA RecordAtHand ==
  ASSUME NEW w \in Worker, Place(w), InLoop(w)
  PROVE  /\ batch[w] \in Batch /\ next[w] \in Nat /\ next[w] \in 1..Len(Records[batch[w]])
         /\ Len(Records[batch[w]]) \in Nat
         /\ Rec(w) \in Record /\ Rec(w).hash \in Hash
<1>1. batch[w] \in Batch /\ next[w] \in 1..(Len(Records[batch[w]]) + 1) /\ next[w] \in Nat
  BY DEF Place, InLoop, Uploaded
<1>2. Records[batch[w]] \in Seq(Record)
  BY <1>1, IngestAssumption
<1>3. Len(Records[batch[w]]) \in Nat /\ next[w] \in 1..Len(Records[batch[w]])
  BY <1>1, <1>2 DEF InLoop, Remaining
<1>4. Rec(w) \in Record
  BY <1>2, <1>3 DEF Rec
<1> QED
  BY <1>1, <1>3, <1>4 DEF Record

\* One more record is passed.
LEMMA PlaceNext ==
  ASSUME NEW w \in Worker, Place(w), InLoop(w), Grows,
         pc'[w] = pc[w], batch'[w] = batch[w], next'[w] = next[w] + 1,
         held[w] \subseteq held'[w], held'[w] \subseteq OkHashes(batch[w]),
         held'[w] \subseteq Hash,
         Passed(ever' \cup held'[w], Rec(w))
  PROVE  Place(w)'
<1>1. /\ batch[w] \in Batch /\ next[w] \in Nat /\ next[w] \in 1..Len(Records[batch[w]])
      /\ Len(Records[batch[w]]) \in Nat /\ pc[w] = "drafting"
  BY RecordAtHand DEF InLoop
<1>2. \A r : Passed(ever \cup held[w], r) => Passed(ever' \cup held'[w], r)
  BY DEF Passed, Grows
<1>3. \A j \in 1..(next[w] - 1) : Passed(ever' \cup held'[w], Records[batch[w]][j])
  BY <1>1, <1>2 DEF Place
<1>4. \A j \in 1..(next'[w] - 1) : Passed(ever' \cup held'[w], Records[batch[w]][j])
  <2> SUFFICES ASSUME NEW j \in 1..(next'[w] - 1)
               PROVE  Passed(ever' \cup held'[w], Records[batch[w]][j])
    OBVIOUS
  <2>1. j \in 1..(next[w] - 1) \/ j = next[w]
    BY <1>1
  <2> QED
    BY <1>3, <2>1 DEF Rec
<1>5. next'[w] \in 1..(Len(Records[batch[w]]) + 1) /\ next'[w] \in Nat
  BY <1>1
<1>6. batch'[w] \in Uploaded'
  BY <1>1 DEF Place, Grows
<1> QED
  BY <1>1, <1>4, <1>5, <1>6 DEF Place, OkHashes, Passed

\* A zero amount has no draft; a stored fingerprint was drafted at some time or is held.
LEMMA SkipKeeps ==
  ASSUME NEW w \in Worker, IngestInv, Skip(w)
  PROVE  IngestInv'
<1>0. Shape /\ HeldFresh /\ Queues(w) /\ Place(w) /\ Tables
  BY DEF IngestInv, Local
<1>1. faults' \in 0..MaxFaults /\ Grows /\ UNCHANGED db
  BY <1>0, FaultCounted, TablesKept DEF IngestInv, Skip
<1>2. OthersSame(w) /\ Shape' /\ pc' = pc /\ next'[w] = next[w] + 1
      /\ batch' = batch /\ held' = held /\ SameQueues(w)
  BY <1>0 DEF OthersSame, SameQueues, SamePlace, Shape, Skip
<1>3. HeldFresh'
  BY <1>0, <1>1, <1>2, FreshFrame DEF db
<1>4. Queues(w)'
  BY <1>0, <1>1, <1>2, QueuesFrame
<1>5. InLoop(w)
  BY DEF Skip
<1>6. Passed(ever \cup held[w], Rec(w))
  BY <1>0 DEF Skip, Stored, Drafted, Tables, Passed
<1>7. Passed(ever' \cup held'[w], Rec(w))
  BY <1>1, <1>2, <1>6 DEF db
<1>8. held[w] \subseteq OkHashes(batch[w]) /\ held[w] \subseteq Hash
  BY <1>0, <1>5 DEF Place, InLoop
<1>9. Place(w)'
  BY <1>0, <1>1, <1>2, <1>5, <1>7, <1>8, PlaceNext
<1> QED
  BY <1>1, <1>2, <1>3, <1>4, <1>9, StepKeeps

\* The fingerprint drafted is of the batch, stored nowhere and held by nobody else.
LEMMA DraftKeeps ==
  ASSUME NEW w \in Worker, IngestInv, Draft(w)
  PROVE  IngestInv'
<1> DEFINE p == Rec(w).hash
<1>0. Shape /\ HeldFresh /\ Queues(w) /\ Place(w) /\ Tables
  BY DEF IngestInv, Local
<1>1. faults' \in 0..MaxFaults /\ Grows /\ UNCHANGED db
  BY <1>0, FaultCounted, TablesKept DEF IngestInv, Draft
<1>2. OthersSame(w) /\ Shape' /\ pc' = pc /\ next'[w] = next[w] + 1
      /\ batch' = batch /\ held'[w] = held[w] \cup {p} /\ SameQueues(w)
  BY <1>0 DEF OthersSame, SameQueues, SamePlace, Shape, Draft
<1>3. \A d \in drafts : d.hash # p
  BY DEF Draft, Stored, Drafted
<1>4. \A v \in Worker \ {w} : p \notin held[v]
  BY DEF Draft, HeldElsewhere
<1>5. \A v \in Worker \ {w} : held'[v] = held[v]
  BY <1>2 DEF OthersSame, SamePlace
<1>6. HeldFresh'
  BY <1>0, <1>1, <1>2, <1>3, <1>4, <1>5 DEF HeldFresh, db
<1>7. Queues(w)'
  BY <1>0, <1>1, <1>2, QueuesFrame
<1>8. InLoop(w) /\ Rec(w).kind = "ok"
  BY DEF Draft
<1>9. p \in OkHashes(batch[w]) /\ p \in Hash
  BY <1>0, <1>8, RecordAtHand DEF OkHashes, Rec
<1>10. held'[w] \subseteq OkHashes(batch[w]) /\ held'[w] \subseteq Hash
  BY <1>0, <1>2, <1>8, <1>9 DEF Place, InLoop
<1>11. Passed(ever' \cup held'[w], Rec(w))
  BY <1>2, <1>8 DEF Passed
<1>12. Place(w)'
  BY <1>0, <1>1, <1>2, <1>8, <1>10, <1>11, PlaceNext
<1> QED
  BY <1>1, <1>2, <1>6, <1>7, <1>12, StepKeeps

\* Failing records, deadlocks and statements leave the batch to be marked.
LEMMA FailureKeeps ==
  ASSUME NEW w \in Worker, IngestInv, Reject(w) \/ DeadlockVictim(w) \/ DbError(w)
  PROVE  IngestInv'
<1>1. Leave(w, "mark") /\ UNCHANGED <<db, nudge, jobs>> /\ (UNCHANGED faults \/ Fault)
  BY DEF Reject, DeadlockVictim, DbError
<1>2. pc[w] \in {"opened", "drafting"}
  BY DEF Reject, DeadlockVictim, DbError, InLoop, Deadlocked, Waiting
<1> QED
  BY <1>1, <1>2, LeaveKeeps

\* A batch that could not be marked stays as it is.
LEMMA MarkErrorKeeps ==
  ASSUME NEW w \in Worker, IngestInv, MarkError(w)
  PROVE  IngestInv'
BY LeaveKeeps DEF MarkError

\* A killed process holds no rows and has empty queues.
LEMMA CrashKeeps ==
  ASSUME NEW w \in Worker, IngestInv, Crash(w)
  PROVE  IngestInv'
<1>0. Shape /\ HeldFresh /\ Queues(w) /\ Place(w) /\ Tables
  BY DEF IngestInv, Local
<1>1. faults' \in 0..MaxFaults /\ Grows /\ UNCHANGED db
  BY <1>0, FaultCounted, TablesKept DEF IngestInv, Crash
<1>2. nudge'[w] = <<>> /\ jobs'[w] = <<>> /\ Leave(w, "down")
  BY <1>0 DEF Shape, Crash
<1>3. OthersSame(w) /\ Shape'
  BY <1>0, <1>2, LeaveFacts DEF OthersSame, SameQueues, Shape, Crash
<1>4. \A v \in Worker : held'[v] \subseteq held[v]
  BY <1>0, <1>2, LeaveFacts DEF SamePlace
<1>5. HeldFresh'
  BY <1>0, <1>1, <1>4, FreshFrame DEF db
<1>6. Queues(w)'
  <2>1. <<>> \in Seq(Uploaded') /\ Len(<<>>) = 0
    OBVIOUS
  <2> QED
    BY <1>2, <2>1, IngestAssumption DEF Queues
<1>7. Place(w)'
  BY <1>0, <1>1, <1>2, LeavePlace
<1> QED
  BY <1>1, <1>3, <1>5, <1>6, <1>7, StepKeeps

\* A batch that has not ended is marked; every other table stays as it is.
LEMMA MarkFailedKeeps ==
  ASSUME NEW w \in Worker, IngestInv, MarkFailed(w)
  PROVE  IngestInv'
<1>0. Shape /\ HeldFresh /\ Queues(w) /\ Place(w) /\ Tables /\ OneDraftPerHash
  BY DEF IngestInv, Local
<1>1. batch[w] \in Uploaded /\ batch[w] \in Batch
  BY <1>0 DEF Place, MarkFailed, Uploaded
<1>2. Tables' /\ OneDraftPerHash' /\ Grows
  BY <1>0, <1>1 DEF Tables, OneDraftPerHash, Grows, Uploaded, MarkFailed, Terminal
<1>3. Leave(w, "ready") /\ nudge' = nudge /\ jobs' = jobs
  BY DEF MarkFailed
<1>4. OthersSame(w) /\ Shape'
  BY <1>0, <1>3, LeaveFacts DEF OthersSame, SameQueues, Shape
<1>5. \A v \in Worker : held'[v] \subseteq held[v]
  BY <1>0, <1>3, LeaveFacts DEF SamePlace
<1>6. HeldFresh'
  BY <1>0, <1>5, FreshFrame DEF MarkFailed
<1>7. Queues(w)' /\ Place(w)'
  BY <1>0, <1>2, <1>3, QueuesFrame, LeavePlace DEF SameQueues
<1> QED
  BY <1>2, <1>4, <1>6, <1>7, LocalStep DEF IngestInv

\* Drafts of one batch with one fingerprint are the same draft.
LEMMA NewDrafts ==
  ASSUME NEW P, NEW b, NEW d \in [hash : P, batch : {b}]
  PROVE  d.hash \in P /\ d.batch = b /\ d = [hash |-> d.hash, batch |-> b]
OBVIOUS

\* The rows committed were held, so that no other draft or worker has their fingerprints.
LEMMA CommitTables ==
  ASSUME NEW w \in Worker, IngestInv, CommitDone(w), faults' \in 0..MaxFaults
  PROVE  Tables' /\ OneDraftPerHash' /\ Grows /\ batch[w] \in Batch
<1> DEFINE new == [hash : held[w], batch : {batch[w]}]
<1>0. HeldFresh /\ Place(w) /\ Tables /\ OneDraftPerHash
  BY DEF IngestInv, Local
<1>1. batch[w] \in Uploaded /\ batch[w] \in Batch /\ held[w] \subseteq Hash
  BY <1>0 DEF Place, CommitDone, Uploaded
<1>2. /\ state' = [state EXCEPT ![batch[w]] = "done"]
      /\ drafts' = drafts \cup new
      /\ ever' = ever \cup held[w]
  BY DEF CommitDone
<1>3. \A d \in new : d.hash \in held[w] /\ d.batch = batch[w]
                     /\ d = [hash |-> d.hash, batch |-> batch[w]]
  BY NewDrafts
<1>4. new \subseteq [hash : Hash, batch : Batch]
  BY <1>1
<1> HIDE DEF new
<1>5. Tables'
  BY <1>0, <1>1, <1>2, <1>3, <1>4 DEF Tables, Terminal
<1>6. OneDraftPerHash'
  <2> SUFFICES ASSUME NEW d \in drafts', NEW e \in drafts', d.hash = e.hash PROVE d = e
    BY DEF OneDraftPerHash
  <2>1. CASE d \in drafts /\ e \in drafts
    BY <1>0, <2>1 DEF OneDraftPerHash
  <2>2. CASE d \in new /\ e \in new
    BY <1>3, <2>2
  <2>3. \A f \in drafts : f.hash \notin held[w]
    BY <1>0 DEF HeldFresh
  <2> QED
    BY <1>2, <1>3, <2>1, <2>2, <2>3
<1>7. Grows
  BY <1>0, <1>2 DEF Grows, Uploaded, Tables
<1> QED
  BY <1>1, <1>5, <1>6, <1>7

\* Whether or not the answer arrives, the worker holds nothing after its commit.
LEMMA CommitKeeps ==
  ASSUME NEW w \in Worker, IngestInv, Finish(w) \/ CommitLost(w)
  PROVE  IngestInv'
<1>0. Shape /\ HeldFresh /\ Queues(w) /\ Place(w) /\ Tables
  BY DEF IngestInv, Local
<1>1. faults' \in 0..MaxFaults
  BY <1>0, FaultCounted DEF Finish, CommitLost
<1>2. CommitDone(w) /\ nudge' = nudge /\ jobs' = jobs /\ pc[w] = "drafting"
  BY DEF Finish, CommitLost, CommitDone
<1>3. Tables' /\ OneDraftPerHash' /\ Grows
  BY <1>1, <1>2, CommitTables
<1>4. PICK l \in {"ready", "mark"} : Leave(w, l)
  BY DEF Finish, CommitLost
<1>5. OthersSame(w) /\ Shape'
  BY <1>0, <1>2, <1>4, LeaveFacts DEF OthersSame, SameQueues, Shape
<1>6. held'[w] = {} /\ \A v \in Worker \ {w} : held'[v] = held[v]
  BY <1>0, <1>4, LeaveFacts DEF SamePlace
<1>7. HeldFresh'
  <2> SUFFICES ASSUME NEW v \in Worker, NEW p \in held'[v]
               PROVE  /\ \A d \in drafts' : d.hash # p
                      /\ \A u \in Worker \ {v} : p \notin held'[u]
    BY DEF HeldFresh
  <2>1. v # w /\ p \in held[v] /\ p \notin held[w]
    BY <1>0, <1>6 DEF HeldFresh
  <2>2. \A d \in [hash : held[w], batch : {batch[w]}] : d.hash \in held[w]
    BY NewDrafts
  <2>3. \A d \in drafts' : d.hash # p
    BY <1>0, <1>2, <2>1, <2>2 DEF CommitDone, HeldFresh
  <2>4. \A u \in Worker \ {v} : p \notin held'[u]
    BY <1>0, <1>6, <2>1 DEF HeldFresh
  <2> QED
    BY <2>3, <2>4
<1>8. Queues(w)' /\ Place(w)'
  BY <1>0, <1>2, <1>3, <1>4, QueuesFrame, LeavePlace DEF SameQueues
<1> QED
  BY <1>3, <1>5, <1>7, <1>8, LocalStep DEF IngestInv

----------------------------------------------------------------------------
(* The theorems *)

\* Nothing is uploaded, queued or held at first.
LEMMA IngestInit == Init => IngestInv
<1> SUFFICES ASSUME Init PROVE IngestInv
  OBVIOUS
<1>1. Tables
  BY IngestAssumption DEF Init, Tables
<1>2. Shape
  BY DEF Init, Shape
<1>3. HeldFresh /\ OneDraftPerHash
  BY DEF Init, HeldFresh, OneDraftPerHash
<1>4. ASSUME NEW w \in Worker PROVE Local(w)
  <2>1. <<>> \in Seq(Uploaded) /\ Len(<<>>) = 0
    OBVIOUS
  <2> QED
    BY <2>1, IngestAssumption DEF Init, Local, Queues, Place
<1> QED
  BY <1>1, <1>2, <1>3, <1>4 DEF IngestInv

\* Every step keeps the invariant.
LEMMA IngestStep == IngestInv /\ [Next]_vars => IngestInv'
<1> SUFFICES ASSUME IngestInv, [Next]_vars PROVE IngestInv'
  OBVIOUS
<1>1. CASE UNCHANGED vars
  <2>0. UNCHANGED db /\ UNCHANGED proc /\ UNCHANGED <<nudge, jobs, pc, faults>>
    BY <1>1 DEF vars, db, proc
  <2>1. Tables' /\ OneDraftPerHash' /\ Grows
    BY <2>0, TablesKept DEF IngestInv, Tables
  <2>2. Shape' /\ HeldFresh'
    BY <2>0, FreshFrame DEF IngestInv, Shape, db, proc
  <2>3. \A w \in Worker : SameQueues(w) /\ SamePlace(w)
    BY <2>0 DEF SameQueues, SamePlace, proc
  <2>4. \A w \in Worker : Local(w)'
    BY <2>1, <2>3, QueuesFrame, PlaceFrame DEF IngestInv, Local
  <2> QED
    BY <2>1, <2>2, <2>4 DEF IngestInv
<1>2. ASSUME NEW b \in Batch, Upload(b, {}) \/ \E w \in Worker : Upload(b, {w})
      PROVE  IngestInv'
  BY <1>2, UploadKeeps
<1>3. ASSUME NEW d \in drafts, DeleteDraft(d) PROVE IngestInv'
  BY <1>3, DeleteDraftKeeps
<1>4. ASSUME NEW w \in Worker, Work(w) PROVE IngestInv'
  BY <1>4, StartKeeps, ScanKeeps, TakeHintKeeps, OpenKeeps, ClaimKeeps, FailureKeeps, SkipKeeps,
     DraftKeeps, CommitKeeps, MarkFailedKeeps DEF Work
<1>5. ASSUME NEW w \in Worker, Fail(w) PROVE IngestInv'
  BY <1>5, FailureKeeps, CommitKeeps, MarkErrorKeeps, CrashKeeps DEF Fail
<1> QED
  BY <1>1, <1>2, <1>3, <1>4, <1>5 DEF Next

\* The invariant holds in every reachable state.
THEOREM IngestInvariant == Spec => []IngestInv
BY IngestInit, IngestStep, PTL DEF Spec

\* For any files and any number of workers: the tables, queues and places are
\* well formed, and only a worker inside ProcessBatch's transaction holds rows.
THEOREM TypeCorrect == Spec => []TypeOK
<1>1. IngestInv => TypeOK
  <2> SUFFICES ASSUME IngestInv PROVE TypeOK
    OBVIOUS
  <2>1. Uploaded \subseteq Batch
    BY DEF Uploaded
  <2>2. ASSUME NEW w \in Worker PROVE nudge[w] \in Seq(Batch) /\ jobs[w] \in Seq(Batch)
    BY <2>1, SeqGrows DEF IngestInv, Local, Queues
  <2> QED
    BY <2>2 DEF IngestInv, Tables, Local, Queues, Place, TypeOK
<1> QED
  BY <1>1, IngestInvariant, PTL

\* At most one draft has a given fingerprint, whichever workers process whichever
\* batches how often, and wherever they are killed.
THEOREM OneDraft == Spec => []OneDraftPerHash
<1>1. IngestInv => OneDraftPerHash
  BY DEF IngestInv
<1> QED
  BY <1>1, IngestInvariant, PTL

\* Steps that write no table.
LEMMA Unwritten ==
  ASSUME NEW w \in Worker,
         \/ Start(w) \/ Scan(w) \/ TakeHint(w) \/ Open(w) \/ Claim(w) \/ Reject(w)
         \/ Skip(w) \/ Draft(w) \/ DeadlockVictim(w) \/ DbError(w) \/ MarkError(w) \/ Crash(w)
  PROVE  UNCHANGED db
BY DEF Start, Scan, TakeHint, Open, Claim, Reject, Skip, Draft, DeadlockVictim, DbError,
       MarkError, Crash

\* A batch that is done is done for good: a late worker, a stale list of jobs or a lost
\* COMMIT answer does not turn it into a failed or a waiting one.
THEOREM DoneForGood == Spec => DoneIsFinal
<1>1. IngestInv /\ [Next]_vars => [\A b \in Batch : state[b] = "done" => state'[b] = "done"]_vars
  <2> SUFFICES ASSUME IngestInv, Next, NEW b \in Batch, state[b] = "done"
               PROVE  state'[b] = "done"
    OBVIOUS
  <2>0. Tables /\ \A w \in Worker : Place(w)
    BY DEF IngestInv, Local
  <2>1. ASSUME NEW c \in Batch, NEW H, Upload(c, H) PROVE state'[b] = "done"
    BY <2>0, <2>1 DEF Upload, Tables
  <2>2. ASSUME NEW d \in drafts, DeleteDraft(d) PROVE state'[b] = "done"
    BY <2>2 DEF DeleteDraft
  <2>3. ASSUME NEW w \in Worker, UNCHANGED db PROVE state'[b] = "done"
    BY <2>3 DEF db
  <2>4. ASSUME NEW w \in Worker, CommitDone(w) PROVE state'[b] = "done"
    BY <2>0, <2>4 DEF CommitDone, Tables
  <2>5. ASSUME NEW w \in Worker, MarkFailed(w) PROVE state'[b] = "done"
    BY <2>0, <2>5 DEF MarkFailed, Tables, Terminal
  <2>6. ASSUME NEW w \in Worker, Work(w) \/ Fail(w) PROVE state'[b] = "done"
    BY <2>3, <2>4, <2>5, <2>6, Unwritten DEF Work, Fail, Finish, CommitLost
  <2> QED
    BY <2>1, <2>2, <2>6 DEF Next
<1> QED
  BY <1>1, IngestInvariant, PTL DEF Spec, DoneIsFinal

----------------------------------------------------------------------------
(* The refinement *)

\* Every batch is absent and nothing was drafted, in the promise as in the system.
LEMMA PromiseInit == Init => Promise!Init
BY DEF Init, Promise!Init

\* A step that writes no table is no step of the promise.
LEMMA PromiseStutter == UNCHANGED db => UNCHANGED Promise!vars
BY DEF db, Promise!vars

\* The commit ends the batch at one point: the rows the worker held are drafted, and
\* with them every fingerprint of the batch was drafted at some time.
LEMMA PromiseComplete ==
  ASSUME NEW w \in Worker, IngestInv, CommitDone(w)
  PROVE  batch[w] \in Batch /\ Promise!Complete(batch[w])
<1> DEFINE b == batch[w]
           sound == {c \in Batch : \A i \in 1..Len(Records[c]) :
                                     Records[c][i].kind # "malformed"}
           hashes == [c \in Batch |->
                        {Records[c][i].hash : i \in {j \in 1..Len(Records[c]) :
                                                       Records[c][j].kind = "ok"}}]
<1>0. HeldFresh /\ Place(w) /\ Tables
  BY DEF IngestInv, Local
<1>1. /\ b \in Uploaded /\ b \in Batch /\ next[w] \in 1..(Len(Records[b]) + 1)
      /\ \A j \in 1..(next[w] - 1) : Passed(ever \cup held[w], Records[b][j])
      /\ held[w] \subseteq OkHashes(b)
  BY <1>0 DEF Place, CommitDone, Uploaded
<1>2. Len(Records[b]) \in Nat
  BY <1>1, IngestAssumption
<1>3. next[w] - 1 = Len(Records[b])
  <2>1. ~ (next[w] <= Len(Records[b]))
    BY DEF CommitDone, Remaining
  <2> QED
    BY <1>1, <1>2, <2>1
<1>4. \A j \in 1..Len(Records[b]) : Passed(ever \cup held[w], Records[b][j])
  BY <1>1, <1>3
<1>5. b \in sound
  BY <1>1, <1>4 DEF Passed
<1>6. hashes[b] = OkHashes(b)
  BY <1>1 DEF OkHashes
<1>7. hashes[b] \subseteq ever \cup held[w]
  BY <1>4, <1>6 DEF OkHashes, Passed
<1>8. held[w] \in SUBSET {p \in hashes[b] : \A d \in drafts : d.hash # p}
  BY <1>0, <1>1, <1>6 DEF HeldFresh
<1>9. state[b] # "absent"
  BY <1>1 DEF Uploaded
<1>10. /\ state' = [state EXCEPT ![b] = "done"]
       /\ drafts' = drafts \cup [hash : held[w], batch : {b}]
       /\ ever' = ever \cup held[w]
  BY DEF CommitDone
<1>11. hashes[b] \subseteq ever'
  BY <1>7, <1>10
<1> HIDE DEF b
<1>12. \E new \in SUBSET {p \in hashes[b] : \A d \in drafts : d.hash # p} :
         /\ ever' = ever \cup new
         /\ hashes[b] \subseteq ever'
         /\ drafts' = drafts \cup [hash : new, batch : {b}]
  BY <1>8, <1>10, <1>11
<1>13. Promise!Complete(b)
  BY <1>5, <1>9, <1>10, <1>12 DEF Promise!Complete
<1> QED
  BY <1>1, <1>13 DEF b

\* Marking refuses a batch that has not ended, and does nothing to one that has.
LEMMA PromiseRefuse ==
  ASSUME NEW w \in Worker, IngestInv, MarkFailed(w)
  PROVE  batch[w] \in Batch /\ (Promise!Refuse(batch[w]) \/ UNCHANGED Promise!vars)
<1>1. Tables /\ batch[w] \in Batch /\ state[batch[w]] # "absent"
  BY DEF IngestInv, Local, Place, MarkFailed, Uploaded
<1>2. drafts' = drafts /\ ever' = ever
      /\ state' = [state EXCEPT ![batch[w]] = IF @ \in Terminal THEN @ ELSE "failed"]
  BY DEF MarkFailed
<1>3. CASE state[batch[w]] \in Terminal
  BY <1>1, <1>2, <1>3 DEF Tables, Promise!vars
<1>4. CASE state[batch[w]] \notin Terminal
  <2>1. state[batch[w]] = "received"
    BY <1>1, <1>4 DEF Tables
  <2> QED
    BY <1>1, <1>2, <1>4, <2>1 DEF Promise!Refuse
<1> QED
  BY <1>1, <1>3, <1>4

\* Every step of uploads, workers, deletions and failures is one of the promise, or none.
LEMMA PromiseStep == IngestInv /\ [Next]_vars => [Promise!Next]_(Promise!vars)
<1> SUFFICES ASSUME IngestInv, [Next]_vars PROVE Promise!Next \/ UNCHANGED Promise!vars
  OBVIOUS
<1>1. CASE UNCHANGED vars
  BY <1>1, PromiseStutter DEF vars, db
<1>2. ASSUME NEW b \in Batch, NEW H, Upload(b, H) PROVE Promise!Next
  <2>1. Promise!Receive(b)
    BY <1>2 DEF Upload, Promise!Receive
  <2> QED
    BY <2>1 DEF Promise!Next
<1>3. ASSUME NEW d \in drafts, DeleteDraft(d) PROVE Promise!Next
  <2>1. Promise!Forget(d)
    BY <1>3 DEF DeleteDraft, Promise!Forget
  <2> QED
    BY <2>1 DEF Promise!Next
<1>4. ASSUME NEW w \in Worker, CommitDone(w) PROVE Promise!Next
  BY <1>4, PromiseComplete DEF Promise!Next
<1>5. ASSUME NEW w \in Worker, MarkFailed(w) PROVE Promise!Next \/ UNCHANGED Promise!vars
  BY <1>5, PromiseRefuse DEF Promise!Next
<1>6. ASSUME NEW w \in Worker, Work(w) \/ Fail(w)
      PROVE  Promise!Next \/ UNCHANGED Promise!vars
  BY <1>4, <1>5, <1>6, Unwritten, PromiseStutter DEF Work, Fail, Finish, CommitLost
<1> QED
  BY <1>1, <1>2, <1>3, <1>6 DEF Next

\* The whole of ingestion implements its promise: a batch ends in one atomic step that
\* drafts what was never drafted or nothing, whatever crashes and whatever is lost.
THEOREM Refinement == Spec => KeepsPromise
BY PromiseInit, PromiseStep, IngestInvariant, PTL DEF Spec, KeepsPromise, Promise!Spec
=============================================================================
