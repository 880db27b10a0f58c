-------------------------- MODULE AccountTreeProofs --------------------------
(***************************************************************************)
(* Theorems about AccountTree, for any accounts, sessions and depth limit:    *)
(* rows and work are well formed, no account hangs under a missing one, and    *)
(* the hierarchy stays a forest as long as moves do not overlap.              *)
(***************************************************************************)
EXTENDS AccountTree, TLAPS

----------------------------------------------------------------------------
(* Type correctness *)

\* Work in progress has all its fields.
LEMMA WorkFields ==
  ASSUME TypeOK, NEW s \in Session, work[s].op # "none"
  PROVE  /\ work[s].op \in {"insert", "move", "delete"}
         /\ work[s].acct \in Account
         /\ work[s].to \in ParentId
         /\ work[s].cur \in ParentId
         /\ work[s].depth \in 0 .. MaxDepth
         /\ work[s].stage \in {"walk", "written"}
         /\ work[s].op = "delete" => work[s].stage = "written"
         /\ work[s] = [op |-> work[s].op, acct |-> work[s].acct, to |-> work[s].to,
                       cur |-> work[s].cur, depth |-> work[s].depth,
                       stage |-> work[s].stage]
<1>1. work[s] \in Work
  BY DEF TypeOK
<1>2. work[s] # Idle
  BY DEF Idle
<1> QED
  BY <1>1, <1>2 DEF Work, Working

\* A read of an ancestor yields an account or nothing.
LEMMA ReadType ==
  ASSUME TypeOK, NEW a \in Account
  PROVE  ParentRead(a) \in ParentId
BY DEF TypeOK, ParentRead, Live, ParentId

\* The end of a statement, whatever it did.
LEMMA FinishType ==
  ASSUME TypeOK, NEW s \in Session, Finish(s)
  PROVE  work' \in [Session -> Work]
BY DEF TypeOK, Finish, Work

\* A turn of the trigger's loop, or its end.
LEMMA WalkStepType ==
  ASSUME TypeOK, NEW s \in Session, WalkStep(s)
  PROVE  TypeOK'
<1>1. CASE work[s].cur = work[s].acct \/ work[s].depth = MaxDepth
  BY <1>1, FinishType DEF WalkStep, TypeOK
<1>2. CASE ~ (work[s].cur = work[s].acct \/ work[s].depth = MaxDepth)
  <2>1. /\ work[s].op \in {"insert", "move"} /\ work[s].stage = "walk"
        /\ work[s].cur # NoParent
    BY DEF WalkStep, Walking
  <2>2. /\ work[s].acct \in Account /\ work[s].to \in ParentId
        /\ work[s].cur \in Account /\ work[s].depth \in 0 .. MaxDepth
        /\ work[s] = [op |-> work[s].op, acct |-> work[s].acct, to |-> work[s].to,
                      cur |-> work[s].cur, depth |-> work[s].depth,
                      stage |-> work[s].stage]
    BY <2>1, WorkFields DEF ParentId
  <2>3. work[s].depth + 1 \in 0 .. MaxDepth
    BY <1>2, <2>2, TreeAssumption
  <2>4. ParentRead(work[s].cur) \in ParentId
    BY <2>2, ReadType
  <2>5. work' = [work EXCEPT ![s] =
                   [op |-> work[s].op, acct |-> work[s].acct, to |-> work[s].to,
                    cur |-> ParentRead(work[s].cur), depth |-> work[s].depth + 1,
                    stage |-> work[s].stage]]
    BY <1>2, <2>2 DEF WalkStep, Climb, TypeOK
  <2>6. [op |-> work[s].op, acct |-> work[s].acct, to |-> work[s].to,
         cur |-> ParentRead(work[s].cur), depth |-> work[s].depth + 1,
         stage |-> work[s].stage] \in Work
    BY <2>1, <2>2, <2>3, <2>4 DEF Work, Working
  <2> QED
    BY <2>5, <2>6 DEF TypeOK, WalkStep
<1> QED
  BY <1>1, <1>2

\* Writing the row, or finding that the parent is gone.
LEMMA WriteType ==
  ASSUME TypeOK, NEW s \in Session, Write(s)
  PROVE  TypeOK'
<1>1. CASE work[s].to = NoParent \/ Live(work[s].to)
  <2>1. /\ work[s].op \in {"insert", "move"}
        /\ work[s].acct \in Account /\ work[s].to \in ParentId
        /\ work[s].cur \in ParentId /\ work[s].depth \in 0 .. MaxDepth
        /\ work[s] = [op |-> work[s].op, acct |-> work[s].acct, to |-> work[s].to,
                      cur |-> work[s].cur, depth |-> work[s].depth,
                      stage |-> work[s].stage]
    BY WorkFields DEF Write
  <2>2. work' = [work EXCEPT ![s] =
                   [op |-> work[s].op, acct |-> work[s].acct, to |-> work[s].to,
                    cur |-> work[s].cur, depth |-> work[s].depth, stage |-> "written"]]
    BY <1>1, <2>1 DEF Write, TypeOK
  <2>3. [op |-> work[s].op, acct |-> work[s].acct, to |-> work[s].to,
         cur |-> work[s].cur, depth |-> work[s].depth, stage |-> "written"] \in Work
    BY <2>1 DEF Work, Working
  <2> QED
    BY <2>2, <2>3 DEF TypeOK, Write
<1>2. CASE ~ (work[s].to = NoParent \/ Live(work[s].to))
  BY <1>2, FinishType DEF Write, TypeOK
<1> QED
  BY <1>1, <1>2

\* COMMIT of any statement.
LEMMA CommitType ==
  ASSUME TypeOK, NEW s \in Session, Commit(s)
  PROVE  TypeOK'
<1>1. work[s].acct \in Account /\ work[s].to \in ParentId
  BY WorkFields DEF Commit
<1>2. parent' \in [Account -> ParentId \cup {Unused, Gone}]
  BY <1>1 DEF Commit, TypeOK
<1> QED
  BY <1>2, FinishType DEF Commit, TypeOK

\* Every step keeps rows and work well formed.
LEMMA TypeStep ==
  ASSUME TypeOK, [Next]_vars
  PROVE  TypeOK'
<1>1. CASE UNCHANGED vars
  BY <1>1 DEF TypeOK, vars
<1>2. CASE Next
  <2>1. PICK s \in Session :
          \/ \E a \in Account, p \in ParentId : Insert(s, a, p)
          \/ \E a \in Account, p \in ParentId : Move(s, a, p)
          \/ \E a \in Account : Delete(s, a)
          \/ WalkStep(s) \/ Write(s) \/ Commit(s) \/ Rollback(s)
    BY <1>2 DEF Next
  <2>2. ASSUME NEW a \in Account, NEW p \in ParentId, Insert(s, a, p)
        PROVE  TypeOK'
    <3>1. [op |-> "insert", acct |-> a, to |-> p, cur |-> p, depth |-> 0,
           stage |-> "walk"] \in Work
      BY TreeAssumption DEF Work, Working
    <3> QED
      BY <2>2, <3>1 DEF Insert, StartWalk, TypeOK
  <2>3. ASSUME NEW a \in Account, NEW p \in ParentId, Move(s, a, p)
        PROVE  TypeOK'
    <3>1. [op |-> "move", acct |-> a, to |-> p, cur |-> p, depth |-> 0,
           stage |-> "walk"] \in Work
      BY TreeAssumption DEF Work, Working
    <3> QED
      BY <2>3, <3>1 DEF Move, StartWalk, TypeOK
  <2>4. ASSUME NEW a \in Account, Delete(s, a)
        PROVE  TypeOK'
    <3>1. [op |-> "delete", acct |-> a, to |-> NoParent, cur |-> NoParent, depth |-> 0,
           stage |-> "written"] \in Work
      BY TreeAssumption DEF Work, Working, ParentId
    <3> QED
      BY <2>4, <3>1 DEF Delete, TypeOK
  <2>5. CASE Rollback(s)
    BY <2>5, FinishType DEF Rollback, TypeOK
  <2> QED
    BY <2>1, <2>2, <2>3, <2>4, <2>5, WalkStepType, WriteType, CommitType
<1> QED
  BY <1>1, <1>2

\* Rows and the statements in progress are well formed, for any accounts, sessions
\* and depth limit.
THEOREM TreeTypeCorrect == Spec => []TypeOK
<1>1. Init => TypeOK
  BY DEF Init, TypeOK, Work
<1>2. TypeOK /\ [Next]_vars => TypeOK'
  BY TypeStep
<1> QED
  BY <1>1, <1>2, PTL DEF Spec

----------------------------------------------------------------------------
(* Parents exist *)

\* A parent under which a row has been written is there, and nobody deletes it.
WrittenUnderLive ==
  \A s \in Session :
    work[s].op \in {"insert", "move"} /\ work[s].stage = "written" /\ work[s].to \in Account
      => /\ Live(work[s].to)
         /\ \A r \in Session : Busy(r, "delete") => work[r].acct # work[s].to

\* An account that is being deleted has no children.
DeletedIsBare ==
  \A s \in Session : Busy(s, "delete") => \A b \in Account : parent[b] # work[s].acct

LiveInv == TypeOK /\ ParentIsLive /\ WrittenUnderLive /\ DeletedIsBare

\* What every step of a session leaves of the others.
LEMMA OthersWork ==
  ASSUME NEW s \in Session, TypeOK, NEW w, work' = [work EXCEPT ![s] = w]
  PROVE  /\ work'[s] = w
         /\ \A r \in Session \ {s} : work'[r] = work[r]
BY DEF TypeOK

\* A row that stays as it is keeps its life.
LEMMA LiveKept ==
  ASSUME NEW a, parent'[a] = parent[a]
  PROVE  Live(a)' <=> Live(a)
BY DEF Live

\* A statement that ends without a COMMIT leaves the invariant.
LEMMA FinishLive ==
  ASSUME LiveInv, NEW s \in Session, Finish(s), UNCHANGED parent
  PROVE  ParentIsLive' /\ WrittenUnderLive' /\ DeletedIsBare'
<1>1. /\ work'[s] = Idle
      /\ \A r \in Session \ {s} : work'[r] = work[r]
  BY OthersWork DEF Finish, LiveInv
<1>2. work'[s].op = "none"
  BY <1>1 DEF Idle
<1>3. \A a : Live(a)' <=> Live(a)
  BY DEF Live
<1>4. ParentIsLive'
  BY <1>3 DEF LiveInv, ParentIsLive
<1>5. WrittenUnderLive'
  BY <1>1, <1>2, <1>3 DEF LiveInv, WrittenUnderLive, Busy
<1>6. DeletedIsBare'
  BY <1>1, <1>2 DEF LiveInv, DeletedIsBare, Busy
<1> QED
  BY <1>4, <1>5, <1>6

\* A statement that starts its walk, or takes a step of it, leaves the invariant.
LEMMA WalkingLive ==
  ASSUME LiveInv, NEW s \in Session, NEW w, work' = [work EXCEPT ![s] = w],
         w.op \in {"insert", "move"}, w.stage = "walk", UNCHANGED parent
  PROVE  ParentIsLive' /\ WrittenUnderLive' /\ DeletedIsBare'
<1>1. /\ work'[s] = w
      /\ \A r \in Session \ {s} : work'[r] = work[r]
  BY OthersWork DEF LiveInv
<1>2. \A a : Live(a)' <=> Live(a)
  BY DEF Live
<1>3. ParentIsLive'
  BY <1>2 DEF LiveInv, ParentIsLive
<1>4. WrittenUnderLive'
  BY <1>1, <1>2 DEF LiveInv, WrittenUnderLive, Busy
<1>5. DeletedIsBare'
  BY <1>1 DEF LiveInv, DeletedIsBare, Busy
<1> QED
  BY <1>3, <1>4, <1>5

\* The row is written under a parent that is there and that nobody deletes.
LEMMA WriteLive ==
  ASSUME LiveInv, NEW s \in Session, Write(s)
  PROVE  ParentIsLive' /\ WrittenUnderLive' /\ DeletedIsBare'
<1>1. CASE ~ (work[s].to = NoParent \/ Live(work[s].to))
  BY <1>1, FinishLive DEF Write
<1>2. CASE work[s].to = NoParent \/ Live(work[s].to)
  <2> DEFINE w == [work[s] EXCEPT !.stage = "written"]
  <2>1. /\ work[s].op \in {"insert", "move"}
        /\ work[s] = [op |-> work[s].op, acct |-> work[s].acct, to |-> work[s].to,
                      cur |-> work[s].cur, depth |-> work[s].depth,
                      stage |-> work[s].stage]
    BY WorkFields DEF Write, LiveInv
  <2>2. w.op = work[s].op /\ w.to = work[s].to
    BY <2>1, Zenon
  <2>3. work' = [work EXCEPT ![s] = w]
    BY <1>2 DEF Write, LiveInv, TypeOK
  <2> HIDE DEF w
  <2>4. /\ work'[s] = w
        /\ \A r \in Session \ {s} : work'[r] = work[r]
    BY <2>3, OthersWork DEF LiveInv
  <2>5. UNCHANGED parent /\ \A a : Live(a)' <=> Live(a)
    BY DEF Live, Write
  <2>6. \A r \in Session : ~ (Busy(r, "delete") /\ work[r].acct = work[s].to)
    BY DEF Write
  <2>7. ParentIsLive'
    BY <2>5 DEF LiveInv, ParentIsLive
  <2>8. work[s].to \in Account => Live(work[s].to)
    BY <1>2, TreeAssumption
  <2>9. WrittenUnderLive'
    BY <2>1, <2>2, <2>4, <2>5, <2>6, <2>8 DEF LiveInv, WrittenUnderLive, Busy
  <2>10. DeletedIsBare'
    BY <2>1, <2>2, <2>4, <2>5 DEF LiveInv, DeletedIsBare, Busy
  <2> QED
    BY <2>7, <2>9, <2>10
<1> QED
  BY <1>1, <1>2

\* A delete starts on an account without children that no written row holds.
LEMMA DeleteLive ==
  ASSUME LiveInv, NEW s \in Session, NEW a \in Account, Delete(s, a)
  PROVE  ParentIsLive' /\ WrittenUnderLive' /\ DeletedIsBare'
<1> DEFINE w == [op |-> "delete", acct |-> a, to |-> NoParent, cur |-> NoParent,
                 depth |-> 0, stage |-> "written"]
<1>1. w.op = "delete" /\ w.acct = a
  OBVIOUS
<1>2. work' = [work EXCEPT ![s] = w]
  BY DEF Delete
<1> HIDE DEF w
<1>3. /\ work'[s] = w
      /\ \A r \in Session \ {s} : work'[r] = work[r]
  BY <1>2, OthersWork DEF LiveInv
<1>4. UNCHANGED parent /\ \A b : Live(b)' <=> Live(b)
  BY DEF Live, Delete
<1>5. \A r \in Session : ~ KeyShared(r, a)
  BY DEF Delete
<1>6. \A b \in Account : parent[b] # a
  BY DEF Delete
<1>7. ParentIsLive'
  BY <1>4 DEF LiveInv, ParentIsLive
<1>8. WrittenUnderLive'
  BY <1>1, <1>3, <1>4, <1>5 DEF LiveInv, WrittenUnderLive, Busy, KeyShared
<1>9. DeletedIsBare'
  BY <1>1, <1>3, <1>4, <1>6 DEF LiveInv, DeletedIsBare, Busy
<1> QED
  BY <1>7, <1>8, <1>9

\* COMMIT publishes a row under a living parent, or removes a bare one.
LEMMA CommitLive ==
  ASSUME LiveInv, NEW s \in Session, Commit(s)
  PROVE  ParentIsLive' /\ WrittenUnderLive' /\ DeletedIsBare'
<1> DEFINE a == work[s].acct
           v == IF work[s].op = "delete" THEN Gone ELSE work[s].to
<1>1. /\ work[s].op \in {"insert", "move", "delete"} /\ a \in Account
      /\ work[s].to \in ParentId /\ work[s].stage = "written"
  BY WorkFields DEF Commit, LiveInv
<1>2. /\ parent'[a] = v
      /\ \A b \in Account \ {a} : parent'[b] = parent[b]
  BY <1>1 DEF Commit, LiveInv, TypeOK
<1>3. /\ work'[s] = Idle
      /\ \A r \in Session \ {s} : work'[r] = work[r]
  BY OthersWork DEF Commit, Finish, LiveInv
<1>4. work'[s].op = "none"
  BY <1>3 DEF Idle
<1>5. CASE work[s].op = "delete"
  <2>1. \A b \in Account : parent[b] # a
    BY <1>5 DEF LiveInv, DeletedIsBare, Busy
  <2>2. v = Gone /\ Gone \notin Account
    BY <1>5, TreeAssumption
  <2>3. \A b \in Account \ {a} : Live(b)' <=> Live(b)
    BY <1>2, LiveKept
  <2> HIDE DEF v, a
  <2>4. ParentIsLive'
    BY <1>2, <2>1, <2>2, <2>3 DEF LiveInv, ParentIsLive
  <2>5. \A r \in Session :
          work[r].op \in {"insert", "move"} /\ work[r].stage = "written" => work[r].to # a
    BY <1>1, <1>5 DEF LiveInv, WrittenUnderLive, Busy, a
  <2>6. WrittenUnderLive'
    BY <1>3, <1>4, <2>3, <2>5 DEF LiveInv, WrittenUnderLive, Busy
  <2>7. \A r \in Session : Busy(r, "delete") => work[r].acct \in Account
    BY WorkFields DEF LiveInv, Busy
  <2>8. DeletedIsBare'
    BY <1>2, <1>3, <1>4, <2>2, <2>7 DEF LiveInv, DeletedIsBare, Busy
  <2> QED
    BY <2>4, <2>6, <2>8
<1>6. CASE work[s].op # "delete"
  <2>1. v = work[s].to /\ v \in ParentId
    BY <1>1, <1>6
  <2>2. v \in Account =>
          Live(v) /\ \A r \in Session : Busy(r, "delete") => work[r].acct # v
    BY <1>1, <1>6, <2>1 DEF LiveInv, WrittenUnderLive
  <2> HIDE DEF v, a
  <2>3. \A b \in Account : Live(b) \/ b = a => Live(b)'
    BY <1>2, <2>1 DEF Live
  <2>4. ParentIsLive'
    BY <1>1, <1>2, <2>2, <2>3 DEF LiveInv, ParentIsLive
  <2>5. WrittenUnderLive'
    BY <1>3, <1>4, <2>3 DEF LiveInv, WrittenUnderLive, Busy
  <2>6. \A r \in Session : Busy(r, "delete") => work[r].acct \in Account
    BY WorkFields DEF LiveInv, Busy
  <2>7. DeletedIsBare'
    BY <1>2, <1>3, <1>4, <2>2, <2>6 DEF LiveInv, DeletedIsBare, Busy
  <2> QED
    BY <2>4, <2>5, <2>7
<1> QED
  BY <1>5, <1>6

\* Every step preserves the invariant.
LEMMA LiveStep ==
  ASSUME LiveInv, [Next]_vars
  PROVE  LiveInv'
<1>1. TypeOK'
  BY TypeStep DEF LiveInv
<1>2. CASE UNCHANGED vars
  <2>1. ParentIsLive'
    BY <1>2 DEF LiveInv, vars, ParentIsLive, Live
  <2>2. WrittenUnderLive'
    BY <1>2 DEF LiveInv, vars, WrittenUnderLive, Live, Busy
  <2>3. DeletedIsBare'
    BY <1>2 DEF LiveInv, vars, DeletedIsBare, Busy
  <2> QED
    BY <1>1, <2>1, <2>2, <2>3 DEF LiveInv
<1>3. CASE Next
  <2>1. PICK s \in Session :
          \/ \E a \in Account, p \in ParentId : Insert(s, a, p)
          \/ \E a \in Account, p \in ParentId : Move(s, a, p)
          \/ \E a \in Account : Delete(s, a)
          \/ WalkStep(s) \/ Write(s) \/ Commit(s) \/ Rollback(s)
    BY <1>3 DEF Next
  <2>2. ASSUME NEW a \in Account, NEW p \in ParentId, NEW op \in {"insert", "move"},
               StartWalk(s, op, a, p), UNCHANGED parent
        PROVE  ParentIsLive' /\ WrittenUnderLive' /\ DeletedIsBare'
    BY <2>2, WalkingLive DEF StartWalk
  <2>3. ASSUME WalkStep(s)
        PROVE  ParentIsLive' /\ WrittenUnderLive' /\ DeletedIsBare'
    <3>1. CASE work[s].cur = work[s].acct \/ work[s].depth = MaxDepth
      BY <2>3, <3>1, FinishLive DEF WalkStep
    <3>2. CASE ~ (work[s].cur = work[s].acct \/ work[s].depth = MaxDepth)
      <4> DEFINE w == [work[s] EXCEPT !.cur = ParentRead(work[s].cur),
                                      !.depth = work[s].depth + 1]
      <4>1. /\ work[s].op \in {"insert", "move"} /\ work[s].stage = "walk"
            /\ work[s] = [op |-> work[s].op, acct |-> work[s].acct, to |-> work[s].to,
                          cur |-> work[s].cur, depth |-> work[s].depth,
                          stage |-> work[s].stage]
        BY <2>3, WorkFields DEF WalkStep, Walking, LiveInv
      <4>2. w.op = work[s].op /\ w.stage = work[s].stage
        BY <4>1, Zenon
      <4>3. work' = [work EXCEPT ![s] = w]
        BY <2>3, <3>2 DEF WalkStep, Climb, LiveInv, TypeOK
      <4> HIDE DEF w
      <4> QED
        BY <2>3, <4>1, <4>2, <4>3, WalkingLive DEF WalkStep
    <3> QED
      BY <3>1, <3>2
  <2>4. CASE Rollback(s)
    BY <1>1, <2>4, FinishLive DEF Rollback, LiveInv
  <2> QED
    BY <1>1, <2>1, <2>2, <2>3, <2>4, WriteLive, CommitLive, DeleteLive
    DEF LiveInv, Insert, Move
<1> QED
  BY <1>2, <1>3

\* A committed account never hangs under a missing one, for any accounts, sessions
\* and depth limit: the foreign key's lock on the parent and the delete's exclude
\* each other.
THEOREM ParentsLive == Spec => []ParentIsLive
<1>1. Init => LiveInv
  <2> SUFFICES ASSUME Init PROVE LiveInv
    OBVIOUS
  <2>1. TypeOK
    BY DEF Init, TypeOK, Work
  <2>2. ParentIsLive
    BY TreeAssumption DEF Init, ParentIsLive
  <2>3. WrittenUnderLive /\ DeletedIsBare
    BY DEF Init, WrittenUnderLive, DeletedIsBare, Busy, Idle
  <2> QED
    BY <2>1, <2>2, <2>3 DEF LiveInv
<1>2. LiveInv /\ [Next]_vars => LiveInv'
  BY LiveStep
<1>3. LiveInv => ParentIsLive
  BY DEF LiveInv
<1> QED
  BY <1>1, <1>2, <1>3, PTL DEF Spec

----------------------------------------------------------------------------
(* The hierarchy is a forest *)

\* Two statements in progress are about different rows.
RowsExclusive ==
  \A r, s \in Session :
    r # s /\ work[r].op # "none" /\ work[s].op # "none" => work[r].acct # work[s].acct

\* The row of an insert is new: nothing was committed under its id.
InsertIsNew == \A s \in Session : Busy(s, "insert") => parent[work[s].acct] = Unused

\* A parent that was asked for has been committed at some time.
TargetIsKnown ==
  \A s \in Session : work[s].op # "none" /\ work[s].to \in Account
                      => parent[work[s].to] # Unused

\* A row is written when its walk has come to the top.
WrittenAtTop ==
  \A s \in Session : work[s].op \in {"insert", "move"} /\ work[s].stage = "written"
                      => work[s].cur = NoParent

\* Two moves in flight have overlapped.
OneMove ==
  ~ overlapped => \A r, s \in Session : Busy(r, "move") /\ Busy(s, "move") => r = s

\* B holds the parent of each of its members, but for a.
ClosedBut(a, B) == \A b \in B \ {a} : parent[b] \in B

\* A set that the move of an account would close to a cycle: it holds the account's
\* new parent and the parents of all others.  The walk has not left it.
WalkInside ==
  ~ overlapped =>
    \A s \in Session : Busy(s, "move") =>
      \A B \in SUBSET Account :
        work[s].to \in B /\ ClosedBut(work[s].acct, B) => work[s].cur \in B

PathInv ==
  /\ RowsExclusive /\ InsertIsNew /\ TargetIsKnown /\ WrittenAtTop
  /\ OneMove /\ WalkInside /\ AcyclicUnlessOverlapped

ForestInv == LiveInv /\ PathInv

\* A step of s that commits nothing: what has to be known of its new work w.
LEMMA StepPath ==
  ASSUME TypeOK, PathInv, NEW s \in Session, NEW w, work' = [work EXCEPT ![s] = w],
         UNCHANGED parent, overlapped => overlapped',
         w.op # "none" =>
           \A r \in Session \ {s} : work[r].op # "none" => work[r].acct # w.acct,
         w.op = "insert" => parent[w.acct] = Unused,
         w.op # "none" /\ w.to \in Account => parent[w.to] # Unused,
         w.op \in {"insert", "move"} /\ w.stage = "written" => w.cur = NoParent,
         ~ overlapped' /\ w.op = "move" => \A r \in Session \ {s} : ~ Busy(r, "move"),
         ~ overlapped' /\ w.op = "move" =>
           \A B \in SUBSET Account : w.to \in B /\ ClosedBut(w.acct, B) => w.cur \in B
  PROVE  PathInv'
<1>1. /\ work'[s] = w
      /\ \A r \in Session \ {s} : work'[r] = work[r]
  BY OthersWork
<1>2. RowsExclusive'
  BY <1>1 DEF PathInv, RowsExclusive
<1>3. InsertIsNew'
  BY <1>1 DEF PathInv, InsertIsNew, Busy
<1>4. TargetIsKnown'
  BY <1>1 DEF PathInv, TargetIsKnown
<1>5. WrittenAtTop'
  BY <1>1 DEF PathInv, WrittenAtTop
<1>6. OneMove'
  BY <1>1 DEF PathInv, OneMove, Busy
<1>7. WalkInside'
  BY <1>1 DEF PathInv, WalkInside, Busy, ClosedBut
<1>8. AcyclicUnlessOverlapped'
  BY DEF PathInv, AcyclicUnlessOverlapped, Acyclic, CycleIn
<1> QED
  BY <1>2, <1>3, <1>4, <1>5, <1>6, <1>7, <1>8 DEF PathInv

\* A statement that ends without a COMMIT.
LEMMA FinishPath ==
  ASSUME TypeOK, PathInv, NEW s \in Session, Finish(s), UNCHANGED <<parent, overlapped>>
  PROVE  PathInv'
<1>1. Idle.op = "none"
  BY DEF Idle
<1>2. work' = [work EXCEPT ![s] = Idle]
  BY DEF Finish
<1> QED
  BY <1>1, <1>2, StepPath

\* A new statement: its row is not in work, and its walk starts at the new parent.
LEMMA StartPath ==
  ASSUME TypeOK, PathInv, NEW s \in Session, NEW a \in Account, NEW p \in ParentId,
         Insert(s, a, p) \/ Move(s, a, p)
  PROVE  PathInv'
<1>1. PICK op \in {"insert", "move"} : /\ StartWalk(s, op, a, p)
                                       /\ op = "insert" => Insert(s, a, p)
                                       /\ op = "move" => Move(s, a, p)
  BY DEF Insert, Move
<1> DEFINE w == [op |-> op, acct |-> a, to |-> p, cur |-> p, depth |-> 0, stage |-> "walk"]
<1>2. w.op = op /\ w.acct = a /\ w.to = p /\ w.cur = p /\ w.stage = "walk"
  OBVIOUS
<1>3. work' = [work EXCEPT ![s] = w]
  BY <1>1 DEF StartWalk
<1> HIDE DEF w
<1>4. /\ UNCHANGED parent /\ p \in Known
      /\ \A r \in Session : ~ Writing(r, a)
  BY DEF Insert, Move
<1>5. \A r \in Session \ {s} : work[r].op # "none" => work[r].acct # a
  BY <1>4 DEF Writing
<1>6. op = "insert" => parent[a] = Unused /\ UNCHANGED overlapped
  BY <1>1 DEF Insert
<1>7. p \in Account => parent[p] # Unused
  BY <1>4, TreeAssumption DEF Known
<1>8. op = "move" => (overlapped' <=> overlapped \/ \E r \in Session : Busy(r, "move"))
  BY <1>1 DEF Move
<1>9. overlapped => overlapped'
  BY <1>1, <1>6, <1>8
<1>10. ~ overlapped' /\ op = "move" => \A r \in Session \ {s} : ~ Busy(r, "move")
  BY <1>8
<1> QED
  BY <1>2, <1>3, <1>4, <1>5, <1>6, <1>7, <1>9, <1>10, StepPath

\* A delete walks nowhere.
LEMMA DeletePath ==
  ASSUME TypeOK, PathInv, NEW s \in Session, NEW a \in Account, Delete(s, a)
  PROVE  PathInv'
<1> DEFINE w == [op |-> "delete", acct |-> a, to |-> NoParent, cur |-> NoParent,
                 depth |-> 0, stage |-> "written"]
<1>1. w.op = "delete" /\ w.acct = a /\ w.to = NoParent
  OBVIOUS
<1>2. work' = [work EXCEPT ![s] = w]
  BY DEF Delete
<1> HIDE DEF w
<1>3. /\ UNCHANGED <<parent, overlapped>>
      /\ \A r \in Session : ~ Writing(r, a)
  BY DEF Delete
<1>4. \A r \in Session \ {s} : work[r].op # "none" => work[r].acct # a
  BY <1>3 DEF Writing
<1> QED
  BY <1>1, <1>2, <1>3, <1>4, StepPath, TreeAssumption

\* The row is written when the walk has come to the top.
LEMMA WritePath ==
  ASSUME TypeOK, PathInv, NEW s \in Session, Write(s)
  PROVE  PathInv'
<1>1. CASE ~ (work[s].to = NoParent \/ Live(work[s].to))
  BY <1>1, FinishPath DEF Write
<1>2. CASE work[s].to = NoParent \/ Live(work[s].to)
  <2> DEFINE w == [work[s] EXCEPT !.stage = "written"]
  <2>1. /\ work[s].op \in {"insert", "move"} /\ work[s].cur = NoParent
        /\ UNCHANGED <<parent, overlapped>>
    BY DEF Write
  <2>2. work[s] = [op |-> work[s].op, acct |-> work[s].acct, to |-> work[s].to,
                   cur |-> work[s].cur, depth |-> work[s].depth, stage |-> work[s].stage]
    BY <2>1, WorkFields
  <2>3. w.op = work[s].op /\ w.acct = work[s].acct /\ w.to = work[s].to
        /\ w.cur = work[s].cur
    BY <2>2, Zenon
  <2>4. work' = [work EXCEPT ![s] = w]
    BY <1>2 DEF Write, TypeOK
  <2> HIDE DEF w
  <2>5. \A r \in Session \ {s} : work[r].op # "none" => work[r].acct # w.acct
    BY <2>1, <2>3 DEF PathInv, RowsExclusive
  <2>6. w.op = "insert" => parent[w.acct] = Unused
    BY <2>3 DEF PathInv, InsertIsNew, Busy
  <2>7. w.to \in Account => parent[w.to] # Unused
    BY <2>1, <2>3 DEF PathInv, TargetIsKnown
  <2>8. ~ overlapped /\ w.op = "move" =>
          /\ \A r \in Session \ {s} : ~ Busy(r, "move")
          /\ \A B \in SUBSET Account : w.to \in B /\ ClosedBut(w.acct, B) => w.cur \in B
    BY <2>3 DEF PathInv, OneMove, WalkInside, Busy
  <2> QED
    BY <2>1, <2>3, <2>4, <2>5, <2>6, <2>7, <2>8, StepPath
<1> QED
  BY <1>1, <1>2

\* A turn of the walk stays inside every set the move would close.
LEMMA WalkPath ==
  ASSUME TypeOK, PathInv, NEW s \in Session, WalkStep(s)
  PROVE  PathInv'
<1>1. CASE work[s].cur = work[s].acct \/ work[s].depth = MaxDepth
  BY <1>1, FinishPath DEF WalkStep
<1>2. CASE ~ (work[s].cur = work[s].acct \/ work[s].depth = MaxDepth)
  <2> DEFINE w == [work[s] EXCEPT !.cur = ParentRead(work[s].cur),
                                  !.depth = work[s].depth + 1]
  <2>1. /\ work[s].op \in {"insert", "move"} /\ work[s].cur # NoParent
        /\ work[s].stage = "walk" /\ UNCHANGED <<parent, overlapped>>
    BY DEF WalkStep, Walking
  <2>2. work[s] = [op |-> work[s].op, acct |-> work[s].acct, to |-> work[s].to,
                   cur |-> work[s].cur, depth |-> work[s].depth, stage |-> work[s].stage]
    BY <2>1, WorkFields
  <2>3. w.op = work[s].op /\ w.acct = work[s].acct /\ w.to = work[s].to
        /\ w.cur = ParentRead(work[s].cur) /\ w.stage = work[s].stage
    BY <2>2, Zenon
  <2>4. work' = [work EXCEPT ![s] = w]
    BY <1>2 DEF WalkStep, Climb, TypeOK
  <2> HIDE DEF w
  <2>5. \A r \in Session \ {s} : work[r].op # "none" => work[r].acct # w.acct
    BY <2>1, <2>3 DEF PathInv, RowsExclusive
  <2>6. w.op = "insert" => parent[w.acct] = Unused
    BY <2>3 DEF PathInv, InsertIsNew, Busy
  <2>7. w.to \in Account => parent[w.to] # Unused
    BY <2>1, <2>3 DEF PathInv, TargetIsKnown
  <2>8. ~ overlapped /\ w.op = "move" => \A r \in Session \ {s} : ~ Busy(r, "move")
    BY <2>3 DEF PathInv, OneMove, Busy
  <2>9. ASSUME ~ overlapped, w.op = "move", NEW B \in SUBSET Account,
               w.to \in B, ClosedBut(w.acct, B)
        PROVE  w.cur \in B
    <3>1. work[s].cur \in B
      BY <2>3, <2>9 DEF PathInv, WalkInside, Busy
    <3>2. parent[work[s].cur] \in B
      BY <1>2, <2>3, <2>9, <3>1 DEF ClosedBut
    <3> QED
      BY <2>3, <3>2 DEF ParentRead, Live, ParentId
  <2> QED
    BY <2>1, <2>3, <2>4, <2>5, <2>6, <2>7, <2>8, <2>9, StepPath
<1> QED
  BY <1>1, <1>2

\* COMMIT closes no cycle, and takes no walk out of a set it is inside of: a row
\* deleted is in no such set, a row inserted is under nobody, and what a move hangs
\* below itself its walk has seen to the top.
LEMMA CommitPath ==
  ASSUME ForestInv, NEW s \in Session, Commit(s)
  PROVE  PathInv'
<1> DEFINE a == work[s].acct
           v == IF work[s].op = "delete" THEN Gone ELSE work[s].to
<1>1. /\ work[s].op \in {"insert", "move", "delete"} /\ a \in Account
      /\ work[s].to \in ParentId /\ work[s].stage = "written"
  BY WorkFields DEF Commit, ForestInv, LiveInv
<1>2. /\ parent'[a] = v
      /\ \A b \in Account \ {a} : parent'[b] = parent[b]
  BY <1>1 DEF Commit, ForestInv, LiveInv, TypeOK
<1>3. /\ work'[s].op = "none"
      /\ \A r \in Session \ {s} : work'[r] = work[r]
      /\ UNCHANGED overlapped
  <2>1. Idle.op = "none"
    BY DEF Idle
  <2> QED
    BY <2>1, OthersWork DEF Commit, Finish, ForestInv, LiveInv
<1>4. v # Unused /\ (work[s].op = "insert" /\ v \in Account => v # a)
  BY <1>1, TreeAssumption DEF ForestInv, PathInv, TargetIsKnown, InsertIsNew, Busy, ParentId
<1>5. \A r \in Session \ {s} : work[r].op # "none" => work[r].acct # a
  BY <1>1 DEF ForestInv, PathInv, RowsExclusive
<1>6. \A r \in Session : work[r].op # "none" => work[r].acct \in Account
  BY WorkFields DEF ForestInv, LiveInv
<1>7. work[s].op = "delete" => v = Gone
  OBVIOUS
<1>8. work[s].op # "delete" => v = work[s].to
  OBVIOUS
<1> HIDE DEF v
<1>9. RowsExclusive'
  BY <1>3 DEF ForestInv, PathInv, RowsExclusive
<1>10. InsertIsNew'
  BY <1>2, <1>3, <1>5, <1>6 DEF ForestInv, PathInv, InsertIsNew, Busy
<1>11. TargetIsKnown'
  BY <1>2, <1>3, <1>4 DEF ForestInv, PathInv, TargetIsKnown
<1>12. WrittenAtTop'
  BY <1>3 DEF ForestInv, PathInv, WrittenAtTop
<1>13. OneMove'
  BY <1>3 DEF ForestInv, PathInv, OneMove, Busy
<1>14. work[s].op = "insert" => \A b \in Account : parent[b] # a
  <2>1. work[s].op = "insert" => parent[a] = Unused
    BY DEF ForestInv, PathInv, InsertIsNew, Busy
  <2> QED
    BY <1>1, <2>1, TreeAssumption DEF ForestInv, LiveInv, ParentIsLive, Live, ParentId
<1>15. WalkInside'
  <2> SUFFICES ASSUME ~ overlapped, NEW r \in Session \ {s}, Busy(r, "move"),
                      NEW B \in SUBSET Account, work[r].to \in B,
                      \A b \in B \ {work[r].acct} : parent'[b] \in B
               PROVE  work[r].cur \in B
    BY <1>3 DEF WalkInside, Busy, ClosedBut
  <2>1. work[r].op = "move" /\ r # s
    BY DEF Busy
  <2>2. work[r].to \in B /\ work[r].acct # a
    BY <1>5, <2>1
  <2>3. \A b \in B \ {work[r].acct} : parent'[b] \in B
    OBVIOUS
  <2>4. work[s].op # "move"
    BY <2>1 DEF ForestInv, PathInv, OneMove, Busy
  <2>5. CASE a \notin B
    <3>1. ClosedBut(work[r].acct, B)
      BY <1>2, <2>3, <2>5 DEF ClosedBut
    <3> QED
      BY <2>1, <2>2, <3>1 DEF ForestInv, PathInv, WalkInside
  <2>6. CASE a \in B
    <3>1. v \in B
      BY <1>2, <2>2, <2>3, <2>6
    <3>2. work[s].op = "insert"
      BY <1>1, <1>7, <2>4, <3>1, TreeAssumption
    <3>3. parent[a] = Unused
      BY <3>2 DEF ForestInv, PathInv, InsertIsNew, Busy
    <3>4. work[r].to \in B \ {a}
      BY <2>1, <2>2, <3>3 DEF ForestInv, PathInv, TargetIsKnown, Busy
    <3>5. ClosedBut(work[r].acct, B \ {a})
      BY <1>2, <1>14, <2>3, <3>2 DEF ClosedBut
    <3>6. work[r].cur \in B \ {a}
      BY <2>1, <3>4, <3>5 DEF ForestInv, PathInv, WalkInside
    <3> QED
      BY <3>6
  <2> QED
    BY <2>5, <2>6
<1>16. AcyclicUnlessOverlapped'
  <2> SUFFICES ASSUME ~ overlapped, NEW B \in SUBSET Account, CycleIn(B)'
               PROVE  FALSE
    BY <1>3 DEF AcyclicUnlessOverlapped, Acyclic
  <2>1. B # {} /\ \A b \in B : parent'[b] \in B
    BY DEF CycleIn
  <2>2. \A C \in SUBSET Account : ~ CycleIn(C)
    BY DEF ForestInv, PathInv, AcyclicUnlessOverlapped, Acyclic
  <2>3. a \in B
    <3> SUFFICES ASSUME a \notin B PROVE FALSE
      OBVIOUS
    <3>1. CycleIn(B)
      BY <1>2, <2>1 DEF CycleIn
    <3> QED
      BY <2>2, <3>1
  <2>4. v \in B
    BY <1>2, <2>1, <2>3
  <2>5. work[s].op # "delete" /\ v = work[s].to
    BY <1>7, <1>8, <2>4, TreeAssumption
  <2>6. CASE work[s].op = "insert"
    <3>1. CycleIn(B \ {a})
      BY <1>2, <1>4, <1>14, <2>1, <2>4, <2>6 DEF CycleIn
    <3> QED
      BY <2>2, <3>1
  <2>7. CASE work[s].op = "move"
    <3>1. ClosedBut(a, B)
      BY <1>2, <2>1 DEF ClosedBut
    <3>2. work[s].cur \in B
      BY <2>4, <2>5, <2>7, <3>1 DEF ForestInv, PathInv, WalkInside, Busy
    <3>3. work[s].cur = NoParent
      BY <1>1, <2>7 DEF ForestInv, PathInv, WrittenAtTop
    <3> QED
      BY <3>2, <3>3, TreeAssumption
  <2> QED
    BY <1>1, <2>5, <2>6, <2>7
<1> QED
  BY <1>9, <1>10, <1>11, <1>12, <1>13, <1>15, <1>16 DEF PathInv

\* Every step preserves the invariant.
LEMMA ForestStep ==
  ASSUME ForestInv, [Next]_vars
  PROVE  ForestInv'
<1>1. LiveInv'
  BY LiveStep DEF ForestInv
<1>2. TypeOK /\ PathInv
  BY DEF ForestInv, LiveInv
<1>3. CASE UNCHANGED vars
  <2>1. UNCHANGED parent /\ UNCHANGED work /\ UNCHANGED overlapped
    BY <1>3 DEF vars
  <2>2. RowsExclusive' /\ InsertIsNew' /\ TargetIsKnown' /\ WrittenAtTop' /\ OneMove'
    BY <1>2, <2>1 DEF PathInv, RowsExclusive, InsertIsNew, TargetIsKnown, WrittenAtTop,
                      OneMove, Busy
  <2>3. WalkInside' /\ AcyclicUnlessOverlapped'
    BY <1>2, <2>1 DEF PathInv, WalkInside, Busy, ClosedBut, AcyclicUnlessOverlapped,
                      Acyclic, CycleIn
  <2> QED
    BY <1>1, <2>2, <2>3 DEF ForestInv, PathInv
<1>4. CASE Next
  <2>1. PICK s \in Session :
          \/ \E a \in Account, p \in ParentId : Insert(s, a, p)
          \/ \E a \in Account, p \in ParentId : Move(s, a, p)
          \/ \E a \in Account : Delete(s, a)
          \/ WalkStep(s) \/ Write(s) \/ Commit(s) \/ Rollback(s)
    BY <1>4 DEF Next
  <2>2. ASSUME Rollback(s)
        PROVE  PathInv'
    BY <1>2, <2>2, FinishPath DEF Rollback
  <2>3. PathInv'
    BY <1>2, <2>1, <2>2, StartPath, DeletePath, WalkPath, WritePath, CommitPath
  <2> QED
    BY <1>1, <2>3 DEF ForestInv
<1> QED
  BY <1>3, <1>4

\* Whatever inserts, deletes, rollbacks and single moves interleave, the hierarchy has
\* no cycle: the trigger's walk, which locks nothing, is enough as long as no second
\* move is in flight.
THEOREM ForestUnlessOverlapped == Spec => []AcyclicUnlessOverlapped
<1>1. Init => ForestInv
  <2> SUFFICES ASSUME Init PROVE ForestInv
    OBVIOUS
  <2>1. \A s \in Session : work[s].op = "none"
    BY DEF Init, Idle
  <2>2. \A a \in Account : parent[a] = Unused
    BY DEF Init
  <2>3. LiveInv
    <3>1. TypeOK
      BY DEF Init, TypeOK, Work
    <3>2. ParentIsLive
      BY <2>2, TreeAssumption DEF ParentIsLive
    <3> QED
      BY <2>1, <3>1, <3>2 DEF LiveInv, WrittenUnderLive, DeletedIsBare, Busy
  <2>4. RowsExclusive /\ InsertIsNew /\ TargetIsKnown /\ WrittenAtTop /\ OneMove /\ WalkInside
    BY <2>1 DEF RowsExclusive, InsertIsNew, TargetIsKnown, WrittenAtTop, OneMove,
                WalkInside, Busy
  <2>5. AcyclicUnlessOverlapped
    BY <2>2, TreeAssumption DEF AcyclicUnlessOverlapped, Acyclic, CycleIn
  <2> QED
    BY <2>3, <2>4, <2>5 DEF ForestInv, PathInv
<1>2. ForestInv /\ [Next]_vars => ForestInv'
  BY ForestStep
<1>3. ForestInv => AcyclicUnlessOverlapped
  BY DEF ForestInv, PathInv
<1> QED
  BY <1>1, <1>2, <1>3, PTL DEF Spec
=============================================================================
