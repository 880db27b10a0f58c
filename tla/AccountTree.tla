----------------------------- MODULE AccountTree -----------------------------
(***************************************************************************)
(* The account hierarchy: column account.parent_id, written by the account  *)
(* routes of the web server, one statement per transaction, and guarded by  *)
(* the trigger fn_account_no_cycle and the foreign key on parent_id.         *)
(*                                                                           *)
(* The trigger walks up the chain of parents with one SELECT per ancestor.   *)
(* Under READ COMMITTED every SELECT sees what is committed when it runs,    *)
(* and the walk locks no row but the one being moved: each SELECT is an      *)
(* action of its own.                                                        *)
(*                                                                           *)
(* Row locks are read off the work in progress: a move holds FOR NO KEY      *)
(* UPDATE on its account, a delete FOR UPDATE, and the foreign key check     *)
(* FOR KEY SHARE on the new parent, which conflicts with the delete only.    *)
(***************************************************************************)
EXTENDS Naturals

CONSTANTS Account,    \* ids an account row can ever have
          Session,    \* transactions that may be in flight at once
          MaxDepth,   \* the trigger's depth limit (64 in the code)
          NoParent,   \* parent_id IS NULL
          Unused,     \* no row with this id was ever committed
          Gone        \* the row was deleted

ASSUME TreeAssumption ==
  /\ MaxDepth \in Nat
  /\ NoParent \notin Account /\ Unused \notin Account /\ Gone \notin Account
  /\ NoParent # Unused /\ NoParent # Gone /\ Unused # Gone

VARIABLES
  parent,     \* committed rows: parent_id, or Unused or Gone
  work,       \* per session: the statement in progress
  overlapped  \* history: two moves were once in flight together

vars == <<parent, work, overlapped>>

ParentId == Account \cup {NoParent}

Idle == [op |-> "none"]

Working(op, stage) ==
  [op : {op}, acct : Account, to : ParentId, cur : ParentId,
   depth : 0..MaxDepth, stage : stage]

Work == {Idle} \cup Working("insert", {"walk", "written"})
               \cup Working("move", {"walk", "written"})
               \cup Working("delete", {"written"})

Live(a) == parent[a] \in ParentId

Busy(s, op)  == work[s].op = op
Writing(s, a) == work[s].op # "none" /\ work[s].acct = a

\* FOR KEY SHARE on the new parent, held once the row is written.
KeyShared(s, a) ==
  work[s].op \in {"insert", "move"} /\ work[s].stage = "written" /\ work[s].to = a

Walking(s) ==
  work[s].op \in {"insert", "move"} /\ work[s].stage = "walk" /\ work[s].cur # NoParent

\* The parents a client can name: ids are handed out on commit.
Known == {NoParent} \cup {p \in Account : parent[p] # Unused}

Finish(s) == work' = [work EXCEPT ![s] = Idle]

----------------------------------------------------------------------------
Init ==
  /\ parent = [a \in Account |-> Unused]
  /\ work = [s \in Session |-> Idle]
  /\ overlapped = FALSE

StartWalk(s, op, a, p) ==
  work' = [work EXCEPT ![s] = [op |-> op, acct |-> a, to |-> p, cur |-> p,
                               depth |-> 0, stage |-> "walk"]]

\* POST /api/accounts: the database hands out a fresh id.
Insert(s, a, p) ==
  /\ Busy(s, "none")
  /\ parent[a] = Unused
  /\ \A r \in Session : ~ Writing(r, a)
  /\ p \in Known
  /\ StartWalk(s, "insert", a, p)
  /\ UNCHANGED <<parent, overlapped>>

\* PATCH /api/accounts/:id.  The handler refuses the account as its own parent.
\* A patch that leaves parent_id out writes back the old one: the trigger fires
\* all the same, since the column is assigned.
Move(s, a, p) ==
  /\ Busy(s, "none")
  /\ Live(a)
  /\ p \in Known \ {a}
  /\ \A r \in Session : ~ Writing(r, a)
  /\ StartWalk(s, "move", a, p)
  /\ overlapped' = (overlapped \/ \E r \in Session : Busy(r, "move"))
  /\ UNCHANGED parent

\* Mutant: a row that is gone is not read as NULL.
ParentReadRaw(a) == parent[a]

\* What SELECT parent_id INTO v_cur yields: NULL also when the row is gone.
ParentRead(a) == IF Live(a) THEN parent[a] ELSE NoParent

Climb(s) ==
  work' = [work EXCEPT ![s].cur = ParentRead(@), ![s].depth = @ + 1]

\* Mutant: the loop without its depth limit (the counter stays in range).
WalkStepUnlimited(s) ==
  /\ Walking(s)
  /\ IF work[s].cur = work[s].acct THEN Finish(s)
     ELSE work' = [work EXCEPT ![s].cur = ParentRead(@)]
  /\ UNCHANGED <<parent, overlapped>>

\* Mutant: the loop looks at an ancestor after climbing past it.
WalkStepOffByOne(s) ==
  /\ Walking(s)
  /\ IF \/ ParentRead(work[s].cur) = work[s].acct /\ work[s].depth > 0
        \/ work[s].depth = MaxDepth
     THEN Finish(s)
     ELSE Climb(s)
  /\ UNCHANGED <<parent, overlapped>>

\* One turn of the trigger's loop: raise JL006 on the moved account itself or
\* past the depth limit, else read the next ancestor.
WalkStep(s) ==
  /\ Walking(s)
  /\ IF work[s].cur = work[s].acct \/ work[s].depth = MaxDepth
     THEN Finish(s)
     ELSE Climb(s)
  /\ UNCHANGED <<parent, overlapped>>

\* Mutant: the parent is looked up without a lock on its row.
WriteUnlocked(s) ==
  /\ work[s].op \in {"insert", "move"} /\ work[s].stage = "walk"
  /\ work[s].cur = NoParent
  /\ IF work[s].to = NoParent \/ Live(work[s].to)
     THEN work' = [work EXCEPT ![s].stage = "written"]
     ELSE Finish(s)
  /\ UNCHANGED <<parent, overlapped>>

\* The walk is over: the row is written and the foreign key on parent_id is
\* checked under FOR KEY SHARE, waiting for whoever is deleting the parent.
Write(s) ==
  LET p == work[s].to
  IN /\ work[s].op \in {"insert", "move"} /\ work[s].stage = "walk"
     /\ work[s].cur = NoParent
     /\ \A r \in Session : ~ (Busy(r, "delete") /\ work[r].acct = p)
     /\ IF p = NoParent \/ Live(p)
        THEN work' = [work EXCEPT ![s].stage = "written"]
        ELSE Finish(s)
     /\ UNCHANGED <<parent, overlapped>>

\* DELETE /api/accounts/:id: FOR UPDATE on the row, then the foreign key finds
\* no committed child.
Delete(s, a) ==
  /\ Busy(s, "none")
  /\ Live(a)
  /\ \A r \in Session : ~ Writing(r, a) /\ ~ KeyShared(r, a)
  /\ \A b \in Account : parent[b] # a
  /\ work' = [work EXCEPT ![s] = [op |-> "delete", acct |-> a, to |-> NoParent,
                                  cur |-> NoParent, depth |-> 0,
                                  stage |-> "written"]]
  /\ UNCHANGED <<parent, overlapped>>

Commit(s) ==
  /\ work[s].op # "none" /\ work[s].stage = "written"
  /\ parent' = [parent EXCEPT ![work[s].acct] =
                  IF work[s].op = "delete" THEN Gone ELSE work[s].to]
  /\ Finish(s)
  /\ UNCHANGED overlapped

\* The request fails for a reason of its own, or the connection is lost.
Rollback(s) ==
  /\ work[s].op # "none"
  /\ Finish(s)
  /\ UNCHANGED <<parent, overlapped>>

Next ==
  \E s \in Session :
    \/ \E a \in Account, p \in ParentId : Insert(s, a, p)
    \/ \E a \in Account, p \in ParentId : Move(s, a, p)
    \/ \E a \in Account : Delete(s, a)
    \/ WalkStep(s)
    \/ Write(s)
    \/ Commit(s)
    \/ Rollback(s)

\* The server process keeps executing a trigger function it has entered.
Fairness == \A s \in Session : WF_vars(WalkStep(s))

Spec == Init /\ [][Next]_vars /\ Fairness

----------------------------------------------------------------------------
(* Properties *)

\* Rows and the statements in progress are well formed.
TypeOK ==
  /\ parent \in [Account -> ParentId \cup {Unused, Gone}]
  /\ work \in [Session -> Work]
  /\ overlapped \in BOOLEAN

\* Some set of accounts holds the parent of each of its members: a cycle.
CycleIn(B) == B # {} /\ \A b \in B : parent[b] \in B

\* No account is its own ancestor, which the recursive rollup
\* fn_subtree_balance needs in order to end.
Acyclic == \A B \in SUBSET Account : ~ CycleIn(B)

\* As long as no two moves were ever in flight together the trigger keeps the
\* hierarchy acyclic, whatever inserts, deletes and rollbacks happen meanwhile.
AcyclicUnlessOverlapped == ~ overlapped => Acyclic

\* A committed account never hangs under a missing one, though the parent may
\* be deleted by another session while the child is being attached.
ParentIsLive == \A a \in Account : parent[a] \in Account => Live(parent[a])

\* The trigger's loop ends even when it walks into a cycle, or the chain moves
\* under it: the depth limit, not the cycle test, is what stops it.
WalkEnds == \A s \in Session : Walking(s) ~> ~ Walking(s)
=============================================================================
