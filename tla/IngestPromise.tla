---------------------------- MODULE IngestPromise ----------------------------
(***************************************************************************)
(* What statement ingestion promises, without workers, locks, scans or       *)
(* failures: a batch is received once and ends once in one atomic step,      *)
(* which either drafts every record that was never drafted before or drafts  *)
(* nothing.                                                                   *)
(***************************************************************************)
CONSTANTS Batch, Hash,
          Hashes,   \* the fingerprints a batch would draft
          Sound     \* the batches without a record that must be refused

VARIABLES state,    \* committed ingest_batch.state
          drafts,   \* committed draft rows, as [hash, batch]
          ever      \* fingerprints that were drafted at some time

vars == <<state, drafts, ever>>

Init ==
  /\ state = [b \in Batch |-> "absent"]
  /\ drafts = {}
  /\ ever = {}

Receive(b) ==
  /\ state[b] = "absent"
  /\ state' = [state EXCEPT ![b] = "received"]
  /\ UNCHANGED <<drafts, ever>>

\* A batch taken for failed may still be completed, never the reverse.
Complete(b) ==
  /\ state[b] # "absent" /\ b \in Sound
  /\ state' = [state EXCEPT ![b] = "done"]
  /\ \E new \in SUBSET {p \in Hashes[b] : \A d \in drafts : d.hash # p} :
       /\ ever' = ever \cup new
       /\ Hashes[b] \subseteq ever'
       /\ drafts' = drafts \cup [hash : new, batch : {b}]

Refuse(b) ==
  /\ state[b] = "received"
  /\ state' = [state EXCEPT ![b] = "failed"]
  /\ UNCHANGED <<drafts, ever>>

\* The user deletes a draft.
Forget(d) ==
  /\ drafts' = drafts \ {d}
  /\ UNCHANGED <<state, ever>>

Next ==
  \/ \E b \in Batch : Receive(b) \/ Complete(b) \/ Refuse(b)
  \/ \E d \in drafts : Forget(d)

Spec == Init /\ [][Next]_vars
=============================================================================
