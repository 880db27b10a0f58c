--------------------------- MODULE LedgerDBProofs ---------------------------
(***************************************************************************)
(* Theorems about LedgerDB, for every set of sessions, rows and amounts.     *)
(***************************************************************************)
EXTENDS LedgerDB, FiniteSumsProofs, TLAPS

----------------------------------------------------------------------------
(* Overlays *)

\* A session sees a table whose rows have the schema of the committed table.
LEMMA OverlayType ==
  ASSUME NEW D, NEW R, NEW w, NEW table \in [D -> R], IsPartial(w, D, R)
  PROVE  Overlay(w, table) \in [D -> R]
  BY DEF Overlay, IsPartial

\* Writing one row keeps an overlay within its schema ...
LEMMA PutType ==
  ASSUME NEW D, NEW R, NEW w, NEW x \in D, NEW v \in R, IsPartial(w, D, R)
  PROVE  IsPartial(Put(w, x, v), D, R)
  BY DEF Put, IsPartial

\* ... and adds that row to its domain.
LEMMA PutDomain == \A w, x, v : DOMAIN Put(w, x, v) = DOMAIN w \cup {x}
  BY DEF Put

\* The empty overlay fits every schema.
LEMMA EmptyType ==
  ASSUME NEW D, NEW R
  PROVE  IsPartial(Empty, D, R) /\ DOMAIN Empty = {}
  BY DEF Empty, IsPartial

\* What a session sees of the three tables has their types.
LEMMA SeenType ==
  ASSUME TypeOK, NEW s \in Session
  PROVE  /\ StatusSeen(s) \in [Txn -> RowStatus]
         /\ EntrySeen(s) \in [EntryId -> EntryRow \cup {NoEntry}]
         /\ BalanceSeen(s) \in [Account -> -MaxBalance..MaxBalance]
  BY OverlayType DEF TypeOK, StatusSeen, EntrySeen, BalanceSeen

----------------------------------------------------------------------------
(* What every statement has in common *)

\* A statement of session s leaves the committed tables and every other session
\* alone, and takes the locks T, S, E, A besides the ones s holds.
Extends(s, T, S, E, A) ==
  /\ UNCHANGED <<status, entry, balance, phase>>
  /\ DOMAIN txnW' = Session /\ DOMAIN entryW' = Session /\ DOMAIN balW' = Session
  /\ share' \in [Session -> SUBSET Txn]
  /\ \A r \in Session \ {s} : /\ txnW'[r] = txnW[r] /\ entryW'[r] = entryW[r]
                              /\ balW'[r] = balW[r] /\ share'[r] = share[r]
  /\ IsPartial(txnW'[s], Txn, RowStatus)
  /\ IsPartial(entryW'[s], EntryId, EntryRow \cup {NoEntry})
  /\ IsPartial(balW'[s], Account, -MaxBalance..MaxBalance)
  /\ DOMAIN txnW'[s] = DOMAIN txnW[s] \cup T
  /\ share'[s] = share[s] \cup S
  /\ DOMAIN entryW'[s] = DOMAIN entryW[s] \cup E
  /\ DOMAIN balW'[s] = DOMAIN balW[s] \cup A

\* The locks a statement takes were free, and the rows not settled.
Grants(s, T, S, E, A) ==
  /\ \A t \in T : CanLockTxn(s, t)
  /\ \A t \in S : CanShareTxn(s, t)
  /\ \A t \in T \cup S : StatusSeen(s)[t] # "settled"
  /\ \A e \in E : CanLockEntry(s, e)
  /\ CanLockBalances(s, A)

\* The parent of a row, if there is a row.
Parents(row) == {r.txn : r \in {row} \ {NoEntry}}

\* Every entry the statement writes has its old and new parent among the txn
\* rows it locks; entries it does not write keep the pending value they had.
Parented(s, T, S, E) ==
  /\ \A e \in E : /\ Parents(EntrySeen(s)[e]) \subseteq T \cup S
                  /\ Parents(entryW'[s][e]) \subseteq T \cup S
  /\ \A e \in DOMAIN entryW[s] \ E : entryW'[s][e] = entryW[s][e]

StatementOf(s) ==
  \E T \in SUBSET Txn, S \in SUBSET Txn, E \in SUBSET EntryId, A \in SUBSET Account :
    Extends(s, T, S, E, A) /\ Grants(s, T, S, E, A) /\ Parented(s, T, S, E)

\* An insert writes one transaction row and nothing else.
LEMMA InsertTxnIsStatement ==
  ASSUME TypeOK, NEW s \in Session, NEW t \in Txn, NEW st \in NewStatus,
         InsertTxn(s, t, st)
  PROVE  StatementOf(s)
<1>1. IsPartial(txnW[s], Txn, RowStatus) /\ st \in RowStatus
  BY StatusAssumption DEF TypeOK, RowStatus
<1>2. /\ IsPartial(Put(txnW[s], t, st), Txn, RowStatus)
      /\ DOMAIN Put(txnW[s], t, st) = DOMAIN txnW[s] \cup {t}
  BY <1>1, PutType, PutDomain
<1>3. StatusSeen(s)[t] = "none"
  BY DEF InsertTxn, StatusSeen, Overlay, TypeOK
<1>4. Extends(s, {t}, {}, {}, {})
  BY <1>2 DEF Extends, InsertTxn, TypeOK
<1>5. Grants(s, {t}, {}, {}, {})
  BY <1>3 DEF Grants, InsertTxn, CanLockTxn, CanLockBalances
<1>6. Parented(s, {t}, {}, {})
  BY DEF Parented, InsertTxn
<1> QED BY <1>4, <1>5, <1>6 DEF StatementOf

\* A balance step a statement may or may not take extends the balance locks.
LEMMA BalanceStepType ==
  ASSUME TypeOK, NEW s \in Session, NEW A \in SUBSET Account, NEW delta,
         ApplyBalance(s, A, delta)
  PROVE  /\ DOMAIN balW' = Session
         /\ \A r \in Session \ {s} : balW'[r] = balW[r]
         /\ IsPartial(balW'[s], Account, -MaxBalance..MaxBalance)
         /\ DOMAIN balW'[s] = DOMAIN balW[s] \cup A
         /\ CanLockBalances(s, A)
  BY DEF TypeOK, ApplyBalance, IsPartial

\* A status change writes its transaction and the balances of the accounts of its entries.
LEMMA UpdateStatusIsStatement ==
  ASSUME TypeOK, NEW s \in Session, NEW t \in Txn, NEW st \in NewStatus,
         UpdateStatus(s, t, st)
  PROVE  StatementOf(s)
<1> DEFINE touched == {EntrySeen(s)[e].account : e \in OfTxn(EntrySeen(s), t)}
<1>1. IsPartial(txnW[s], Txn, RowStatus) /\ st \in RowStatus
  BY StatusAssumption DEF TypeOK, RowStatus
<1>2. /\ IsPartial(Put(txnW[s], t, st), Txn, RowStatus)
      /\ DOMAIN Put(txnW[s], t, st) = DOMAIN txnW[s] \cup {t}
  BY <1>1, PutType, PutDomain
<1>3. touched \in SUBSET Account
  BY SeenType DEF OfTxn, EntryRow
<1>4. /\ CanLockTxn(s, t) /\ StatusSeen(s)[t] # "settled"
      /\ txnW' = [txnW EXCEPT ![s] = Put(@, t, st)]
      /\ UNCHANGED <<status, entry, balance, phase, entryW, share>>
  BY DEF UpdateStatus
<1>5. CASE UNCHANGED balW
  <2>1. Extends(s, {t}, {}, {}, {})
    BY <1>2, <1>4, <1>5 DEF Extends, TypeOK
  <2>2. Grants(s, {t}, {}, {}, {})
    BY <1>4 DEF Grants, CanLockBalances
  <2>3. Parented(s, {t}, {}, {})
    BY <1>4 DEF Parented
  <2> QED BY <2>1, <2>2, <2>3 DEF StatementOf
<1>6. CASE \E delta : ApplyBalance(s, touched, delta)
  <2>1. /\ DOMAIN balW' = Session
        /\ \A r \in Session \ {s} : balW'[r] = balW[r]
        /\ IsPartial(balW'[s], Account, -MaxBalance..MaxBalance)
        /\ DOMAIN balW'[s] = DOMAIN balW[s] \cup touched
        /\ CanLockBalances(s, touched)
    BY <1>3, <1>6, BalanceStepType
  <2>2. Extends(s, {t}, {}, {}, touched)
    BY <1>2, <1>4, <2>1 DEF Extends, TypeOK
  <2>3. Grants(s, {t}, {}, {}, touched)
    BY <1>4, <2>1 DEF Grants
  <2>4. Parented(s, {t}, {}, {})
    BY <1>4 DEF Parented
  <2> QED BY <1>3, <2>2, <2>3, <2>4 DEF StatementOf
<1>7. UNCHANGED balW \/ \E delta : ApplyBalance(s, touched, delta)
  BY DEF UpdateStatus
<1> QED BY <1>5, <1>6, <1>7

\* A delete takes its entries along and reverts the balances they moved.
LEMMA DeleteTxnIsStatement ==
  ASSUME TypeOK, NEW s \in Session, NEW t \in Txn, DeleteTxn(s, t)
  PROVE  StatementOf(s)
<1> DEFINE gone == OfTxn(EntrySeen(s), t)
           touched == {EntrySeen(s)[e].account : e \in gone}
           emptied == [e \in DOMAIN entryW[s] \cup gone |->
                         IF e \in gone THEN NoEntry ELSE entryW[s][e]]
<1>1. /\ CanLockTxn(s, t) /\ StatusSeen(s)[t] # "settled"
      /\ \A e \in gone : CanLockEntry(s, e)
      /\ txnW' = [txnW EXCEPT ![s] = Put(@, t, "none")]
      /\ entryW' = [entryW EXCEPT ![s] = emptied]
      /\ UNCHANGED <<status, entry, balance, phase, share>>
  BY DEF DeleteTxn
<1>2. /\ IsPartial(Put(txnW[s], t, "none"), Txn, RowStatus)
      /\ DOMAIN Put(txnW[s], t, "none") = DOMAIN txnW[s] \cup {t}
  <2>1. IsPartial(txnW[s], Txn, RowStatus) /\ "none" \in RowStatus
    BY DEF TypeOK, RowStatus
  <2> QED BY <2>1, PutType, PutDomain
<1>3. gone \in SUBSET EntryId /\ touched \in SUBSET Account
  BY SeenType DEF OfTxn, EntryRow
<1>4. /\ IsPartial(emptied, EntryId, EntryRow \cup {NoEntry})
      /\ DOMAIN emptied = DOMAIN entryW[s] \cup gone
  BY <1>3 DEF TypeOK, IsPartial
<1>5. entryW'[s] = emptied /\ \A r \in Session \ {s} : entryW'[r] = entryW[r]
  BY <1>1 DEF TypeOK
<1>6. Parented(s, {t}, {}, gone)
  <2>1. \A e \in gone : Parents(EntrySeen(s)[e]) \subseteq {t}
    BY DEF Parents, OfTxn
  <2>2. \A e \in gone : emptied[e] = NoEntry
    BY <1>3
  <2>3. \A e \in gone : Parents(entryW'[s][e]) = {}
    BY <1>5, <2>2 DEF Parents
  <2>4. \A e \in DOMAIN entryW[s] \ gone : entryW'[s][e] = entryW[s][e]
    BY <1>5
  <2> QED BY <2>1, <2>3, <2>4 DEF Parented
<1>7. CASE UNCHANGED balW
  <2>1. Extends(s, {t}, {}, gone, {})
    BY <1>1, <1>2, <1>4, <1>5, <1>7 DEF Extends, TypeOK
  <2>2. Grants(s, {t}, {}, gone, {})
    BY <1>1 DEF Grants, CanLockBalances
  <2> QED BY <1>3, <1>6, <2>1, <2>2 DEF StatementOf
<1>8. CASE \E delta : ApplyBalance(s, touched, delta)
  <2>1. /\ DOMAIN balW' = Session
        /\ \A r \in Session \ {s} : balW'[r] = balW[r]
        /\ IsPartial(balW'[s], Account, -MaxBalance..MaxBalance)
        /\ DOMAIN balW'[s] = DOMAIN balW[s] \cup touched
        /\ CanLockBalances(s, touched)
    BY <1>3, <1>8, BalanceStepType
  <2>2. Extends(s, {t}, {}, gone, touched)
    BY <1>1, <1>2, <1>4, <1>5, <2>1 DEF Extends, TypeOK
  <2>3. Grants(s, {t}, {}, gone, touched)
    BY <1>1, <2>1 DEF Grants
  <2> QED BY <1>3, <1>6, <2>2, <2>3 DEF StatementOf
<1>9. UNCHANGED balW \/ \E delta : ApplyBalance(s, touched, delta)
  BY DEF DeleteTxn
<1> QED BY <1>7, <1>8, <1>9

\* The insert, update and delete of an entry share-lock its parents and move at most two balances.
LEMMA ChangeEntryIsStatement ==
  ASSUME TypeOK, NEW s \in Session, NEW e \in EntryId,
         NEW old \in EntryRow \cup {NoEntry}, NEW new \in EntryRow \cup {NoEntry},
         EntrySeen(s)[e] = old,
         ChangeEntry(s, e, [old |-> old, new |-> new])
  PROVE  StatementOf(s)
<1> DEFINE rows == [old |-> old, new |-> new]
           parents == {row.txn : row \in {old, new} \ {NoEntry}}
           touched == MovedAccounts(s, rows)
<1>1. /\ CanLockEntry(s, e)
      /\ \A t \in parents : CanShareTxn(s, t) /\ StatusSeen(s)[t] # "settled"
      /\ share' = [share EXCEPT ![s] = @ \cup parents]
      /\ ApplyBalance(s, touched, [a \in Account |-> Moves(s, rows, a)])
      /\ entryW' = [entryW EXCEPT ![s] = Put(@, e, new)]
      /\ UNCHANGED <<status, entry, balance, phase, txnW>>
  BY DEF ChangeEntry, LockParents
<1>2. parents \in SUBSET Txn
  BY DEF EntryRow
<1>3. touched \in SUBSET Account
  BY DEF EntryRow, MovedAccounts
<1>4. /\ DOMAIN balW' = Session
      /\ \A r \in Session \ {s} : balW'[r] = balW[r]
      /\ IsPartial(balW'[s], Account, -MaxBalance..MaxBalance)
      /\ DOMAIN balW'[s] = DOMAIN balW[s] \cup touched
      /\ CanLockBalances(s, touched)
  BY <1>1, <1>3, BalanceStepType
<1>5. /\ IsPartial(Put(entryW[s], e, new), EntryId, EntryRow \cup {NoEntry})
      /\ DOMAIN Put(entryW[s], e, new) = DOMAIN entryW[s] \cup {e}
  BY PutType, PutDomain DEF TypeOK
<1>6. /\ entryW'[s] = Put(entryW[s], e, new)
      /\ DOMAIN entryW' = Session
      /\ \A r \in Session \ {s} : entryW'[r] = entryW[r]
  BY <1>1 DEF TypeOK
<1>7. /\ share' \in [Session -> SUBSET Txn]
      /\ share'[s] = share[s] \cup parents
      /\ \A r \in Session \ {s} : share'[r] = share[r]
  BY <1>1, <1>2 DEF TypeOK
<1>8. Extends(s, {}, parents, {e}, touched)
  BY <1>1, <1>4, <1>5, <1>6, <1>7 DEF Extends, TypeOK
<1>9. Grants(s, {}, parents, {e}, touched)
  BY <1>1, <1>4 DEF Grants
<1>10. Parented(s, {}, parents, {e})
  <2>1. Parents(old) \subseteq parents /\ Parents(new) \subseteq parents
    BY DEF Parents
  <2>2. entryW'[s][e] = new
    BY <1>6 DEF Put
  <2>3. \A f \in DOMAIN entryW[s] \ {e} : entryW'[s][f] = entryW[s][f]
    BY <1>6 DEF Put
  <2> QED BY <2>1, <2>2, <2>3 DEF Parented
<1> QED BY <1>2, <1>3, <1>8, <1>9, <1>10 DEF StatementOf

\* The six statements, in one disjunction of Step.
Statement(s) ==
  \/ \E t \in Txn, st \in NewStatus : InsertTxn(s, t, st)
  \/ \E t \in Txn, st \in NewStatus : UpdateStatus(s, t, st)
  \/ \E t \in Txn : DeleteTxn(s, t)
  \/ \E row \in EntryRow : InsertEntry(s, row)
  \/ \E e \in EntryId, row \in EntryRow : UpdateEntry(s, e, row)
  \/ \E e \in EntryId : DeleteEntry(s, e)

\* A step is a statement, the deferred check, a COMMIT or a rollback of one session.
LEMMA NextCases ==
  ASSUME Next
  PROVE  \E s \in Session : Statement(s) \/ RunDeferred(s) \/ Commit(s) \/ Rollback(s)
  BY DEF Next, Step, Statement

\* Every statement of the code is of the common form.
LEMMA StatementIsStatement ==
  ASSUME TypeOK, NEW s \in Session, Statement(s)
  PROVE  StatementOf(s)
<1>1. ASSUME NEW t \in Txn, NEW st \in NewStatus, InsertTxn(s, t, st)
      PROVE  StatementOf(s)
  BY <1>1, InsertTxnIsStatement
<1>2. ASSUME NEW t \in Txn, NEW st \in NewStatus, UpdateStatus(s, t, st)
      PROVE  StatementOf(s)
  BY <1>2, UpdateStatusIsStatement
<1>3. ASSUME NEW t \in Txn, DeleteTxn(s, t)
      PROVE  StatementOf(s)
  BY <1>3, DeleteTxnIsStatement
<1>4. ASSUME NEW row \in EntryRow, InsertEntry(s, row)
      PROVE  StatementOf(s)
  <2>1. PICK e \in FreeEntry : ChangeEntry(s, e, [old |-> NoEntry, new |-> row])
    BY <1>4 DEF InsertEntry
  <2>2. e \in EntryId /\ EntrySeen(s)[e] = NoEntry
    BY DEF FreeEntry, EntrySeen, Overlay, TypeOK
  <2> QED BY <2>1, <2>2, ChangeEntryIsStatement
<1>5. ASSUME NEW e \in EntryId, NEW row \in EntryRow, UpdateEntry(s, e, row)
      PROVE  StatementOf(s)
  <2>1. ChangeEntry(s, e, [old |-> EntrySeen(s)[e], new |-> row])
    BY <1>5 DEF UpdateEntry
  <2>2. EntrySeen(s)[e] \in EntryRow \cup {NoEntry}
    BY SeenType
  <2> QED BY <2>1, <2>2, ChangeEntryIsStatement
<1>6. ASSUME NEW e \in EntryId, DeleteEntry(s, e)
      PROVE  StatementOf(s)
  <2>1. ChangeEntry(s, e, [old |-> EntrySeen(s)[e], new |-> NoEntry])
    BY <1>6 DEF DeleteEntry
  <2>2. EntrySeen(s)[e] \in EntryRow \cup {NoEntry}
    BY SeenType
  <2> QED BY <2>1, <2>2, ChangeEntryIsStatement
<1> QED BY <1>1, <1>2, <1>3, <1>4, <1>5, <1>6 DEF Statement

----------------------------------------------------------------------------
(* Type correctness *)

\* Ending a transaction leaves overlays of the right types.
LEMMA EndTransactionType ==
  ASSUME TypeOK, NEW s \in Session, EndTransaction(s)
  PROVE  /\ phase' \in [Session -> {"open", "committing"}]
         /\ share' \in [Session -> SUBSET Txn]
         /\ DOMAIN txnW' = Session /\ DOMAIN entryW' = Session /\ DOMAIN balW' = Session
         /\ \A r \in Session :
              /\ IsPartial(txnW'[r], Txn, RowStatus)
              /\ IsPartial(entryW'[r], EntryId, EntryRow \cup {NoEntry})
              /\ IsPartial(balW'[r], Account, -MaxBalance..MaxBalance)
         /\ DOMAIN txnW'[s] = {} /\ DOMAIN entryW'[s] = {} /\ DOMAIN balW'[s] = {}
         /\ share'[s] = {}
         /\ \A r \in Session \ {s} : /\ txnW'[r] = txnW[r] /\ entryW'[r] = entryW[r]
                                     /\ balW'[r] = balW[r] /\ share'[r] = share[r]
  BY EmptyType DEF TypeOK, EndTransaction

\* The empty tables are well formed.
LEMMA InitType == Init => TypeOK
<1> SUFFICES ASSUME Init PROVE TypeOK
  OBVIOUS
<1>1. \A s \in Session :
        /\ IsPartial(txnW[s], Txn, RowStatus)
        /\ IsPartial(entryW[s], EntryId, EntryRow \cup {NoEntry})
        /\ IsPartial(balW[s], Account, -MaxBalance..MaxBalance)
  BY EmptyType DEF Init
<1>2. 0 \in -MaxBalance..MaxBalance
  BY LedgerAssumption
<1> QED BY <1>1, <1>2 DEF Init, TypeOK, RowStatus

\* Every step keeps tables, overlays and locks well formed.
LEMMA StepType ==
  ASSUME TypeOK, [Next]_vars
  PROVE  TypeOK'
<1>1. ASSUME NEW s \in Session, Statement(s)
      PROVE  TypeOK'
  <2>1. PICK T \in SUBSET Txn, S \in SUBSET Txn, E \in SUBSET EntryId, A \in SUBSET Account :
          Extends(s, T, S, E, A)
    BY <1>1, StatementIsStatement DEF StatementOf
  <2> QED BY <2>1 DEF Extends, TypeOK
<1>2. ASSUME NEW s \in Session, RunDeferred(s)
      PROVE  TypeOK'
  BY <1>2 DEF RunDeferred, TypeOK
<1>3. ASSUME NEW s \in Session, Commit(s)
      PROVE  TypeOK'
  BY <1>3, SeenType, EndTransactionType DEF Commit, TypeOK
<1>4. ASSUME NEW s \in Session, Rollback(s)
      PROVE  TypeOK'
  BY <1>4, EndTransactionType DEF Rollback, TypeOK
<1>5. CASE UNCHANGED vars
  BY <1>5 DEF vars, TypeOK
<1> QED BY <1>1, <1>2, <1>3, <1>4, <1>5, NextCases

\* The tables and overlays always hold rows of their schema, and balances stay
\* in the range of their CHECK.
THEOREM TypeCorrect == Spec => []TypeOK
  BY InitType, StepType, PTL DEF Spec

----------------------------------------------------------------------------
(* INV-3: settled transactions are frozen *)

\* Row locks exclude each other as PostgreSQL's conflict table says.
LockInv ==
  \A r, s \in Session : r # s =>
    /\ DOMAIN txnW[r] \cap (DOMAIN txnW[s] \cup share[s]) = {}
    /\ DOMAIN entryW[r] \cap DOMAIN entryW[s] = {}
    /\ DOMAIN balW[r] \cap DOMAIN balW[s] = {}

\* The txn rows a session holds locked in either mode.
Held(s) == DOMAIN txnW[s] \cup share[s]

\* No open transaction holds a row that is already committed as settled, and it
\* holds the committed and the pending parent of every entry it wrote.
HeldInv ==
  \A s \in Session :
    /\ \A t \in Held(s) : status[t] # "settled"
    /\ \A e \in DOMAIN entryW[s] :
         Parents(entry[e]) \cup Parents(entryW[s][e]) \subseteq Held(s)

FrozenInv == TypeOK /\ LockInv /\ HeldInv

\* Nobody holds a lock at the start.
LEMMA InitFrozenInv == Init => FrozenInv
<1> SUFFICES ASSUME Init PROVE FrozenInv
  OBVIOUS
<1>1. \A s \in Session : /\ DOMAIN txnW[s] = {} /\ DOMAIN entryW[s] = {}
                         /\ DOMAIN balW[s] = {} /\ share[s] = {}
  BY EmptyType DEF Init
<1> QED BY <1>1, InitType DEF FrozenInv, LockInv, HeldInv, Held

\* A statement takes only free locks.
LEMMA StatementLocks ==
  ASSUME TypeOK, LockInv, NEW s \in Session, StatementOf(s)
  PROVE  LockInv'
<1>1. PICK T \in SUBSET Txn, S \in SUBSET Txn, E \in SUBSET EntryId, A \in SUBSET Account :
        Extends(s, T, S, E, A) /\ Grants(s, T, S, E, A)
  BY DEF StatementOf
<1>2. /\ DOMAIN txnW'[s] = DOMAIN txnW[s] \cup T
      /\ share'[s] = share[s] \cup S
      /\ DOMAIN entryW'[s] = DOMAIN entryW[s] \cup E
      /\ DOMAIN balW'[s] = DOMAIN balW[s] \cup A
  BY <1>1 DEF Extends
<1>3. ASSUME NEW r \in Session \ {s}
      PROVE  /\ DOMAIN txnW'[r] = DOMAIN txnW[r] /\ share'[r] = share[r]
             /\ DOMAIN entryW'[r] = DOMAIN entryW[r] /\ DOMAIN balW'[r] = DOMAIN balW[r]
  BY <1>1 DEF Extends
<1>4. ASSUME NEW r \in Session \ {s}
      PROVE  /\ T \cap (DOMAIN txnW[r] \cup share[r]) = {}
             /\ S \cap DOMAIN txnW[r] = {}
             /\ E \cap DOMAIN entryW[r] = {}
             /\ A \cap DOMAIN balW[r] = {}
  BY <1>1 DEF Grants, CanLockTxn, CanShareTxn, CanLockEntry, CanLockBalances
<1>5. ASSUME NEW q \in Session, NEW r \in Session, q # r
      PROVE  /\ DOMAIN txnW'[q] \cap (DOMAIN txnW'[r] \cup share'[r]) = {}
             /\ DOMAIN entryW'[q] \cap DOMAIN entryW'[r] = {}
             /\ DOMAIN balW'[q] \cap DOMAIN balW'[r] = {}
  <2>1. CASE q = s
    BY <2>1, <1>2, <1>3, <1>4, <1>5 DEF LockInv
  <2>2. CASE r = s
    BY <2>2, <1>2, <1>3, <1>4, <1>5 DEF LockInv
  <2>3. CASE q # s /\ r # s
    BY <2>3, <1>3, <1>5 DEF LockInv
  <2> QED BY <2>1, <2>2, <2>3
<1> QED BY <1>5 DEF LockInv

\* A statement writes entries only below parents it holds and that are not
\* settled.
LEMMA StatementHeld ==
  ASSUME TypeOK, HeldInv, NEW s \in Session, StatementOf(s)
  PROVE  HeldInv'
<1>1. PICK T \in SUBSET Txn, S \in SUBSET Txn, E \in SUBSET EntryId, A \in SUBSET Account :
        Extends(s, T, S, E, A) /\ Grants(s, T, S, E, A) /\ Parented(s, T, S, E)
  BY DEF StatementOf
<1>2. status' = status /\ entry' = entry
  BY <1>1 DEF Extends
<1>3. Held(s)' = Held(s) \cup T \cup S
  BY <1>1 DEF Extends, Held
<1>4. DOMAIN entryW'[s] = DOMAIN entryW[s] \cup E
  BY <1>1 DEF Extends
<1>5. ASSUME NEW t \in T \cup S
      PROVE  t \in Held(s) \/ status[t] # "settled"
  BY <1>1 DEF Grants, StatusSeen, Overlay, Held, TypeOK
<1>6. ASSUME NEW t \in Held(s)'
      PROVE  status'[t] # "settled"
  BY <1>2, <1>3, <1>5 DEF HeldInv
<1>7. ASSUME NEW e \in E
      PROVE  Parents(entry[e]) \cup Parents(entryW'[s][e]) \subseteq Held(s)'
  <2>1. Parents(EntrySeen(s)[e]) \cup Parents(entryW'[s][e]) \subseteq Held(s)'
    BY <1>1, <1>3 DEF Parented
  <2>2. CASE e \in DOMAIN entryW[s]
    BY <2>1, <2>2, <1>3 DEF HeldInv
  <2>3. CASE e \notin DOMAIN entryW[s]
    <3>1. EntrySeen(s)[e] = entry[e]
      BY <2>3 DEF EntrySeen, Overlay, TypeOK
    <3> QED BY <2>1, <3>1
  <2> QED BY <2>2, <2>3
<1>8. ASSUME NEW e \in DOMAIN entryW[s] \ E
      PROVE  Parents(entry[e]) \cup Parents(entryW'[s][e]) \subseteq Held(s)'
  <2>1. entryW'[s][e] = entryW[s][e]
    BY <1>1 DEF Parented
  <2> QED BY <2>1, <1>3 DEF HeldInv
<1>9. ASSUME NEW r \in Session \ {s}
      PROVE  Held(r)' = Held(r) /\ entryW'[r] = entryW[r]
  BY <1>1 DEF Extends, Held
<1>10. ASSUME NEW r \in Session
       PROVE  /\ \A t \in Held(r)' : status'[t] # "settled"
              /\ \A e \in DOMAIN entryW'[r] :
                   Parents(entry'[e]) \cup Parents(entryW'[r][e]) \subseteq Held(r)'
  <2>1. CASE r = s
    BY <2>1, <1>2, <1>4, <1>6, <1>7, <1>8
  <2>2. CASE r # s
    BY <2>2, <1>2, <1>9 DEF HeldInv
  <2> QED BY <2>1, <2>2
<1> QED BY <1>10 DEF HeldInv, Parents

\* Ending a transaction releases locks and takes none.
LEMMA EndLocks ==
  ASSUME TypeOK, LockInv, NEW s \in Session, EndTransaction(s)
  PROVE  LockInv'
<1>1. /\ DOMAIN txnW'[s] = {} /\ DOMAIN entryW'[s] = {}
      /\ DOMAIN balW'[s] = {} /\ share'[s] = {}
      /\ \A r \in Session \ {s} : /\ txnW'[r] = txnW[r] /\ entryW'[r] = entryW[r]
                                  /\ balW'[r] = balW[r] /\ share'[r] = share[r]
  BY EndTransactionType
<1> QED BY <1>1 DEF LockInv

\* A commit changes only rows the committing session holds, which no other
\* session holds; its own locks are gone afterwards.
LEMMA CommitHeld ==
  ASSUME TypeOK, LockInv, HeldInv, NEW s \in Session, Commit(s)
  PROVE  HeldInv'
<1>1. EndTransaction(s) /\ status' = StatusSeen(s) /\ entry' = EntrySeen(s)
  BY DEF Commit
<1>2. Held(s)' = {} /\ DOMAIN entryW'[s] = {}
  BY <1>1, EndTransactionType DEF Held
<1>3. ASSUME NEW r \in Session \ {s}
      PROVE  /\ \A t \in Held(r)' : status'[t] # "settled"
             /\ \A e \in DOMAIN entryW'[r] :
                  Parents(entry'[e]) \cup Parents(entryW'[r][e]) \subseteq Held(r)'
  <2>1. Held(r)' = Held(r) /\ entryW'[r] = entryW[r]
    BY <1>1, EndTransactionType DEF Held
  <2>2. Held(r) \subseteq Txn /\ DOMAIN entryW[r] \subseteq EntryId
    BY DEF TypeOK, IsPartial, Held
  <2>3. \A t \in Held(r) : status'[t] = status[t]
    BY <1>1, <2>2 DEF LockInv, Held, StatusSeen, Overlay, TypeOK
  <2>4. \A e \in DOMAIN entryW[r] : entry'[e] = entry[e]
    BY <1>1, <2>2 DEF LockInv, EntrySeen, Overlay, TypeOK
  <2> QED BY <2>1, <2>3, <2>4 DEF HeldInv
<1> QED BY <1>2, <1>3 DEF HeldInv, Parents

\* A rollback releases locks and leaves the committed rows alone.
LEMMA RollbackHeld ==
  ASSUME TypeOK, HeldInv, NEW s \in Session, Rollback(s)
  PROVE  HeldInv'
<1>1. EndTransaction(s) /\ UNCHANGED <<status, entry>>
  BY DEF Rollback
<1>2. Held(s)' = {} /\ DOMAIN entryW'[s] = {}
  BY <1>1, EndTransactionType DEF Held
<1>3. ASSUME NEW r \in Session \ {s}
      PROVE  Held(r)' = Held(r) /\ entryW'[r] = entryW[r]
  BY <1>1, EndTransactionType DEF Held
<1> QED BY <1>1, <1>2, <1>3 DEF HeldInv, Parents

\* Every step preserves the invariant of the locks.
LEMMA StepFrozenInv ==
  ASSUME FrozenInv, [Next]_vars
  PROVE  FrozenInv'
<1>1. TypeOK /\ LockInv /\ HeldInv
  BY DEF FrozenInv
<1>2. TypeOK'
  BY <1>1, StepType
<1>3. ASSUME NEW s \in Session, Statement(s)
      PROVE  LockInv' /\ HeldInv'
  BY <1>1, <1>3, StatementIsStatement, StatementLocks, StatementHeld
<1>4. ASSUME NEW s \in Session, RunDeferred(s)
      PROVE  LockInv' /\ HeldInv'
  BY <1>1, <1>4 DEF RunDeferred, LockInv, HeldInv, Held
<1>5. ASSUME NEW s \in Session, Commit(s)
      PROVE  LockInv' /\ HeldInv'
  BY <1>1, <1>5, EndLocks, CommitHeld DEF Commit
<1>6. ASSUME NEW s \in Session, Rollback(s)
      PROVE  LockInv' /\ HeldInv'
  BY <1>1, <1>6, EndLocks, RollbackHeld DEF Rollback
<1>7. ASSUME UNCHANGED vars
      PROVE  LockInv' /\ HeldInv'
  BY <1>1, <1>7 DEF vars, LockInv, HeldInv, Held
<1>8. LockInv' /\ HeldInv'
  BY <1>3, <1>4, <1>5, <1>6, <1>7, NextCases
<1> QED BY <1>2, <1>8 DEF FrozenInv

\* The locks held by open transactions exclude each other and never include a
\* settled row.
THEOREM FrozenInvariant == Spec => []FrozenInv
  BY InitFrozenInv, StepFrozenInv, PTL DEF Spec

\* What SettledIsFrozen asks of one step.
FrozenStep ==
  \A t \in Txn : status[t] = "settled" =>
    /\ status'[t] = "settled"
    /\ OfTxn(entry', t) = OfTxn(entry, t)
    /\ \A e \in OfTxn(entry, t) : entry'[e] = entry[e]

\* A COMMIT changes no transaction that is settled, nor its entries.
LEMMA CommitFrozen ==
  ASSUME FrozenInv, NEW s \in Session, Commit(s)
  PROVE  FrozenStep
<1> SUFFICES ASSUME NEW t \in Txn, status[t] = "settled"
             PROVE  /\ status'[t] = "settled"
                    /\ OfTxn(entry', t) = OfTxn(entry, t)
                    /\ \A e \in OfTxn(entry, t) : entry'[e] = entry[e]
  BY DEF FrozenStep
<1>1. t \notin Held(s)
  BY DEF FrozenInv, HeldInv
<1>2. status'[t] = status[t]
  BY <1>1 DEF Commit, StatusSeen, Overlay, Held, FrozenInv, TypeOK
<1>3. ASSUME NEW e \in EntryId
      PROVE  \/ entry'[e] = entry[e]
             \/ t \notin Parents(entry[e]) \cup Parents(entry'[e])
  <2>1. CASE e \in DOMAIN entryW[s]
    <3>1. entry'[e] = entryW[s][e]
      BY <2>1 DEF Commit, EntrySeen, Overlay, FrozenInv, TypeOK
    <3> QED BY <2>1, <3>1, <1>1 DEF FrozenInv, HeldInv
  <2>2. CASE e \notin DOMAIN entryW[s]
    BY <2>2 DEF Commit, EntrySeen, Overlay, FrozenInv, TypeOK
  <2> QED BY <2>1, <2>2
<1>4. \A e \in EntryId : /\ e \in OfTxn(entry, t) <=> e \in OfTxn(entry', t)
                         /\ e \in OfTxn(entry, t) => entry'[e] = entry[e]
  BY <1>3 DEF OfTxn, Parents
<1> QED BY <1>2, <1>4 DEF OfTxn

\* INV-3 for every interleaving of sessions: a settled transaction keeps its
\* status and exactly its entries for ever.
THEOREM SettledFrozen == Spec => SettledIsFrozen
<1>1. FrozenInv /\ [Next]_vars => [FrozenStep]_vars
  <2> SUFFICES ASSUME FrozenInv, Next PROVE FrozenStep \/ UNCHANGED vars
    OBVIOUS
  <2>1. ASSUME NEW s \in Session, Commit(s) PROVE FrozenStep
    BY <2>1, CommitFrozen
  <2>2. ASSUME NEW s \in Session, Statement(s) PROVE FrozenStep
    <3>1. status' = status /\ entry' = entry
      BY <2>2, StatementIsStatement DEF StatementOf, Extends, FrozenInv
    <3> QED BY <3>1 DEF FrozenStep
  <2>3. ASSUME NEW s \in Session, RunDeferred(s) \/ Rollback(s) PROVE FrozenStep
    BY <2>3 DEF RunDeferred, Rollback, FrozenStep
  <2> QED BY <2>1, <2>2, <2>3, NextCases
<1>2. [][FrozenStep]_vars <=> SettledIsFrozen
  BY DEF SettledIsFrozen, FrozenStep
<1> QED BY <1>1, <1>2, FrozenInvariant, PTL DEF Spec

----------------------------------------------------------------------------
(***************************************************************************)
(* The incrementally kept balances equal the sums of the posted entries.     *)
(*                                                                           *)
(* Not only the committed tables agree: in what any session sees, its own    *)
(* uncommitted writes included, a balance equals the sum of the entries.  A  *)
(* commit then needs no arithmetic.  What makes two sessions compose is that *)
(* an entry one of them touched is untouched by the other, and that a        *)
(* session moves nothing on an account whose balance row it has not locked.  *)
(*                                                                           *)
(* That posted transactions balance (INV-1) rests on the same composition:   *)
(* what the deferred checks of a session found stays true until its COMMIT,  *)
(* whatever other sessions commit in between.                                *)
(***************************************************************************)
EntryTable  == [EntryId -> EntryRow \cup {NoEntry}]
StatusTable == [Txn -> RowStatus]

----------------------------------------------------------------------------
(* Sums over tables *)

\* Contributions are integers.
LEMMA ContributionType ==
  ASSUME NEW st, NEW en \in EntryTable, NEW e \in EntryId, NEW a
  PROVE  Contribution(st, en, e, a) \in Int
<1>1. CASE en[e] = NoEntry
  BY <1>1 DEF Contribution
<1>2. CASE en[e] # NoEntry
  <2>1. en[e] \in EntryRow
    BY <1>2 DEF EntryTable
  <2>2. en[e].amount \in Int
    BY <2>1, LedgerAssumption DEF EntryRow
  <2> QED BY <1>2, <2>2 DEF Contribution
<1> QED BY <1>1, <1>2

Contributions(st, en, a) == [e \in EntryId |-> Contribution(st, en, e, a)]

\* A sum of contributions is an integer.
LEMMA PostedSumType ==
  ASSUME NEW st, NEW en \in EntryTable, NEW a
  PROVE  PostedSum(st, en, a) \in Int
<1>1. Contributions(st, en, a) \in [1..MaxEntry -> Int]
  BY ContributionType DEF Contributions, EntryId
<1>2. SumUpTo(Contributions(st, en, a), MaxEntry) \in Int
  BY <1>1, SumType, LedgerAssumption
<1> QED BY <1>2 DEF PostedSum, Total, Contributions

\* Tables whose entries contribute the same have the same sums.
LEMMA SameContributions ==
  ASSUME NEW st1, NEW en1, NEW st2, NEW en2, NEW a,
         \A e \in EntryId : Contribution(st1, en1, e, a) = Contribution(st2, en2, e, a)
  PROVE  PostedSum(st1, en1, a) = PostedSum(st2, en2, a)
<1>1. Contributions(st1, en1, a) = Contributions(st2, en2, a)
  BY DEF Contributions
<1> QED BY <1>1 DEF PostedSum, Contributions

\* The terms of what a transaction row adds to an account.
TxnTerms(en, t, a) ==
  [e \in EntryId |-> IF e \in OfTxn(en, t) /\ en[e].account = a
                     THEN en[e].amount ELSE 0]

\* They are integers, and their sum is TxnSum.
LEMMA TxnTermsType ==
  ASSUME NEW en \in EntryTable, NEW t, NEW a
  PROVE  /\ TxnTerms(en, t, a) \in [1..MaxEntry -> Int]
         /\ TxnSum(en, t, a) = SumUpTo(TxnTerms(en, t, a), MaxEntry)
         /\ TxnSum(en, t, a) \in Int
<1>1. ASSUME NEW e \in EntryId, e \in OfTxn(en, t)
      PROVE  en[e].amount \in Int
  <2>1. en[e] \in EntryRow
    BY <1>1 DEF OfTxn, EntryTable
  <2> QED BY <2>1, LedgerAssumption DEF EntryRow
<1>2. TxnTerms(en, t, a) \in [1..MaxEntry -> Int]
  BY <1>1 DEF TxnTerms, EntryId
<1>3. SumUpTo(TxnTerms(en, t, a), MaxEntry) \in Int
  BY <1>2, SumType, LedgerAssumption
<1> QED BY <1>2, <1>3 DEF TxnSum, Total, TxnTerms

\* If the entries of t count in one pair of tables and not in the other, and
\* nothing else differs, the sums differ by what t adds.
Adds(st1, en1, st2, en2, en, t, a) ==
  \A e \in EntryId : Contribution(st2, en2, e, a)
                       = Contribution(st1, en1, e, a) + TxnTerms(en, t, a)[e]

\* Then the sums differ by TxnSum.
LEMMA TxnCounts ==
  ASSUME NEW st1, NEW en1 \in EntryTable, NEW st2, NEW en2 \in EntryTable,
         NEW en \in EntryTable, NEW t, NEW a,
         Adds(st1, en1, st2, en2, en, t, a)
  PROVE  PostedSum(st2, en2, a) = PostedSum(st1, en1, a) + TxnSum(en, t, a)
<1> DEFINE f == Contributions(st1, en1, a)
           g == TxnTerms(en, t, a)
           h == Contributions(st2, en2, a)
<1>1. f \in [1..MaxEntry -> Int] /\ h \in [1..MaxEntry -> Int]
  BY ContributionType DEF Contributions, EntryId
<1>2. g \in [1..MaxEntry -> Int]
  BY TxnTermsType
<1>3. \A n \in 1..MaxEntry : h[n] = f[n] + g[n]
  BY DEF Adds, Contributions, EntryId
<1>4. SumUpTo(h, MaxEntry) = SumUpTo(f, MaxEntry) + SumUpTo(g, MaxEntry)
  <2> HIDE DEF f, g, h
  <2> QED BY <1>1, <1>2, <1>3, SumAdd, LedgerAssumption
<1>5. TxnSum(en, t, a) = SumUpTo(g, MaxEntry)
  BY TxnTermsType
<1> QED BY <1>4, <1>5 DEF PostedSum, Total, Contributions

\* A status change across the posted boundary moves what the row adds.
LEMMA StatusMoves ==
  ASSUME NEW st \in StatusTable, NEW en \in EntryTable, NEW t \in Txn,
         NEW v \in RowStatus, NEW a, (st[t] \in InLedger) # (v \in InLedger)
  PROVE  PostedSum([st EXCEPT ![t] = v], en, a) =
           PostedSum(st, en, a) + (IF v \in InLedger THEN 1 ELSE -1) * TxnSum(en, t, a)
<1> DEFINE st2 == [st EXCEPT ![t] = v]
<1>1. ASSUME NEW e \in EntryId, en[e] # NoEntry
      PROVE  /\ en[e].txn \in Txn /\ en[e].amount \in Int
             /\ st2[en[e].txn] = IF en[e].txn = t THEN v ELSE st[en[e].txn]
  <2>1. en[e] \in EntryRow
    BY <1>1 DEF EntryTable
  <2> QED BY <2>1, LedgerAssumption DEF EntryRow, StatusTable
<1>2. TxnSum(en, t, a) \in Int /\ PostedSum(st, en, a) \in Int
      /\ PostedSum(st2, en, a) \in Int
  BY TxnTermsType, PostedSumType
<1>3. CASE v \in InLedger
  <2>1. ASSUME NEW e \in EntryId
        PROVE  Contribution(st2, en, e, a) = Contribution(st, en, e, a) + TxnTerms(en, t, a)[e]
    BY <1>1, <1>3 DEF Contribution, TxnTerms, OfTxn
  <2>2. PostedSum(st2, en, a) = PostedSum(st, en, a) + TxnSum(en, t, a)
    <3>1. Adds(st, en, st2, en, en, t, a)
      BY <2>1 DEF Adds
    <3> QED BY <3>1, TxnCounts
  <2> QED BY <1>2, <1>3, <2>2
<1>4. CASE v \notin InLedger
  <2>1. ASSUME NEW e \in EntryId
        PROVE  Contribution(st, en, e, a) = Contribution(st2, en, e, a) + TxnTerms(en, t, a)[e]
    BY <1>1, <1>4 DEF Contribution, TxnTerms, OfTxn
  <2>2. PostedSum(st, en, a) = PostedSum(st2, en, a) + TxnSum(en, t, a)
    <3>1. Adds(st2, en, st, en, en, t, a)
      BY <2>1 DEF Adds
    <3> QED BY <3>1, TxnCounts
  <2> QED BY <1>2, <1>4, <2>2
<1> QED BY <1>3, <1>4

\* A status change on one side of the boundary, or seen from an account the
\* row has no entry of, changes no contribution.
LEMMA StatusKeeps ==
  ASSUME NEW st \in StatusTable, NEW en \in EntryTable, NEW t \in Txn,
         NEW v \in RowStatus, NEW a,
         \/ (st[t] \in InLedger) = (v \in InLedger)
         \/ a \notin {en[e].account : e \in OfTxn(en, t)}
  PROVE  \A e \in EntryId :
           Contribution([st EXCEPT ![t] = v], en, e, a) = Contribution(st, en, e, a)
<1> TAKE e \in EntryId
<1>1. CASE en[e] = NoEntry
  BY <1>1 DEF Contribution
<1>2. CASE en[e] # NoEntry
  <2>1. en[e].txn \in Txn
    BY <1>2 DEF EntryTable, EntryRow
  <2>2. [st EXCEPT ![t] = v][en[e].txn] = IF en[e].txn = t THEN v ELSE st[en[e].txn]
    BY <2>1 DEF StatusTable
  <2> QED BY <1>2, <2>2 DEF Contribution, OfTxn
<1> QED BY <1>1, <1>2

\* The tables after a transaction row and its entries are gone.
Cleared(en, t) == [e \in EntryId |-> IF e \in OfTxn(en, t) THEN NoEntry ELSE en[e]]

\* Deleting a row and its entries removes what they contributed, and only that.
LEMMA ClearedTerms ==
  ASSUME NEW st \in StatusTable, NEW en \in EntryTable, NEW t \in Txn, NEW a,
         NEW e \in EntryId
  PROVE  LET after == Contribution([st EXCEPT ![t] = "none"], Cleared(en, t), e, a)
         IN  /\ Cleared(en, t) \in EntryTable
             /\ st[t] \in InLedger =>
                  Contribution(st, en, e, a) = after + TxnTerms(en, t, a)[e]
             /\ st[t] \notin InLedger => after = Contribution(st, en, e, a)
             /\ a \notin {en[f].account : f \in OfTxn(en, t)} =>
                  after = Contribution(st, en, e, a)
<1> DEFINE after == Contribution([st EXCEPT ![t] = "none"], Cleared(en, t), e, a)
<1>0. Cleared(en, t) \in EntryTable
  BY DEF Cleared, EntryTable
<1>1. CASE e \in OfTxn(en, t)
  <2>1. after = 0
    BY <1>1 DEF Cleared, Contribution
  <2>2. en[e] \in EntryRow /\ en[e] # NoEntry /\ en[e].txn = t
    BY <1>1 DEF OfTxn, EntryTable
  <2>3. en[e].amount \in Int
    BY <2>2, LedgerAssumption DEF EntryRow
  <2> QED BY <1>0, <1>1, <2>1, <2>2, <2>3 DEF Contribution, TxnTerms
<1>2. CASE e \notin OfTxn(en, t)
  <2>1. Cleared(en, t)[e] = en[e] /\ TxnTerms(en, t, a)[e] = 0
    BY <1>2 DEF Cleared, TxnTerms
  <2>2. en[e] # NoEntry => en[e].txn # t /\ en[e].txn \in Txn
    BY <1>2 DEF OfTxn, EntryTable, EntryRow
  <2>3. after = Contribution(st, en, e, a)
    BY <2>1, <2>2 DEF Contribution, StatusTable
  <2>4. Contribution(st, en, e, a) \in Int
    BY ContributionType
  <2> QED BY <1>0, <2>1, <2>3, <2>4
<1> QED BY <1>1, <1>2

\* Replacing one entry changes the sum by the difference of its contributions.
LEMMA EntryReplaced ==
  ASSUME NEW st, NEW en \in EntryTable, NEW e \in EntryId,
         NEW new \in EntryRow \cup {NoEntry}, NEW a
  PROVE  PostedSum(st, [en EXCEPT ![e] = new], a) =
           PostedSum(st, en, a) - Contribution(st, en, e, a)
             + Contribution(st, [en EXCEPT ![e] = new], e, a)
<1> DEFINE en2 == [en EXCEPT ![e] = new]
           f == Contributions(st, en, a)
           h == Contributions(st, en2, a)
           d == h[e] - f[e]
           g == [n \in 1..MaxEntry |-> IF n = e THEN d ELSE 0]
<1>0. en2 \in EntryTable /\ \A n \in EntryId \ {e} : en2[n] = en[n]
  BY DEF EntryTable
<1>1. f \in [1..MaxEntry -> Int] /\ h \in [1..MaxEntry -> Int]
  BY <1>0, ContributionType DEF Contributions, EntryId
<1>2. \A n \in EntryId \ {e} : h[n] = f[n]
  BY <1>0 DEF Contributions, Contribution
<1>3. f[e] = Contribution(st, en, e, a) /\ h[e] = Contribution(st, en2, e, a)
  BY DEF Contributions
<1>4. SumUpTo(f, MaxEntry) = PostedSum(st, en, a)
      /\ SumUpTo(h, MaxEntry) = PostedSum(st, en2, a)
  BY DEF PostedSum, Total, Contributions
<1> HIDE DEF f, h
<1>5. e \in 1..MaxEntry /\ d \in Int
  BY <1>1 DEF EntryId
<1> HIDE DEF d
<1>6. g \in [1..MaxEntry -> Int] /\ g[e] = d /\ \A n \in 1..MaxEntry : n # e => g[n] = 0
  BY <1>5
<1> HIDE DEF g
<1>7. SumUpTo(g, MaxEntry) = d
  BY <1>5, <1>6, SumSingle, LedgerAssumption
<1>8. \A n \in 1..MaxEntry : h[n] = f[n] + g[n]
  <2> TAKE n \in 1..MaxEntry
  <2>1. f[n] \in Int /\ h[n] \in Int
    BY <1>1
  <2>2. CASE n = e
    BY <2>1, <2>2, <1>6 DEF d
  <2>3. CASE n # e
    BY <2>1, <2>3, <1>2, <1>6 DEF EntryId
  <2> QED BY <2>2, <2>3
<1>9. SumUpTo(h, MaxEntry) = SumUpTo(f, MaxEntry) + d
  <2>1. SumUpTo(h, MaxEntry) = SumUpTo(f, MaxEntry) + SumUpTo(g, MaxEntry)
    <3>1. g \in [1..MaxEntry -> Int]
      BY <1>6
    <3> QED BY <1>1, <3>1, <1>8, SumAdd, LedgerAssumption
  <2> QED BY <2>1, <1>7
<1>10. SumUpTo(f, MaxEntry) \in Int /\ f[e] \in Int /\ h[e] \in Int
  BY <1>1, <1>5, SumType, LedgerAssumption
<1>11. SumUpTo(h, MaxEntry) = SumUpTo(f, MaxEntry) - f[e] + h[e]
  BY <1>9, <1>10 DEF d
<1> QED BY <1>3, <1>4, <1>11

----------------------------------------------------------------------------
(* What a statement does to what its session sees *)

\* Every entry has a parent.
ParentsExist(st, en) == \A e \in EntryId : en[e] # NoEntry => st[en[e].txn] # "none"

\* On the accounts of A the sums change by delta; on the others nothing changes.
Moved(st1, en1, st2, en2, A, delta) ==
  \A a \in Account :
    /\ a \in A => PostedSum(st2, en2, a) = PostedSum(st1, en1, a) + delta[a]
    /\ a \notin A => \A e \in EntryId :
                       Contribution(st2, en2, e, a) = Contribution(st1, en1, e, a)

BalanceStep(s, A, delta) == ApplyBalance(s, A, delta) \/ (A = {} /\ UNCHANGED balW)

\* A statement moves the balances of its session as it moves the sums.
ViewStep(s) ==
  \E A \in SUBSET Account : \E delta :
    /\ BalanceStep(s, A, delta)
    /\ Moved(StatusSeen(s), EntrySeen(s), StatusSeen(s)', EntrySeen(s)', A, delta)

\* A session sees a row it just wrote.
LEMMA WriteTxnView ==
  ASSUME TypeOK, NEW s \in Session, NEW t \in Txn, NEW v,
         txnW' = [txnW EXCEPT ![s] = Put(@, t, v)], status' = status
  PROVE  StatusSeen(s)' = [StatusSeen(s) EXCEPT ![t] = v]
<1>1. txnW'[s] = Put(txnW[s], t, v) /\ status \in [Txn -> RowStatus]
  BY DEF TypeOK
<1>2. Overlay(Put(txnW[s], t, v), status) = [Overlay(txnW[s], status) EXCEPT ![t] = v]
  BY <1>1 DEF Overlay, Put
<1> QED BY <1>1, <1>2 DEF StatusSeen

\* The shape of a proof that a statement is a ViewStep.
LEMMA IsViewStep ==
  ASSUME NEW s \in Session, NEW A \in SUBSET Account, NEW delta, NEW st2, NEW en2,
         StatusSeen(s)' = st2, EntrySeen(s)' = en2,
         BalanceStep(s, A, delta),
         Moved(StatusSeen(s), EntrySeen(s), st2, en2, A, delta)
  PROVE  ViewStep(s)
<1>1. Moved(StatusSeen(s), EntrySeen(s), StatusSeen(s)', EntrySeen(s)', A, delta)
  OBVIOUS
<1> QED BY <1>1 DEF ViewStep

\* This applies to INSERT INTO txn ...
LEMMA InsertTxnView ==
  ASSUME TypeOK, NEW s \in Session, NEW t \in Txn, NEW st \in NewStatus,
         ParentsExist(StatusSeen(s), EntrySeen(s)), InsertTxn(s, t, st)
  PROVE  ViewStep(s) /\ ParentsExist(StatusSeen(s)', EntrySeen(s)')
<1> DEFINE seen == StatusSeen(s)
           en == EntrySeen(s)
<1>1. seen \in StatusTable /\ en \in EntryTable /\ st \in RowStatus /\ st # "none"
  BY SeenType, StatusAssumption DEF StatusTable, EntryTable, RowStatus, Status
<1>2. StatusSeen(s)' = [seen EXCEPT ![t] = st]
  BY WriteTxnView DEF InsertTxn
<1>3. EntrySeen(s)' = en
  BY DEF InsertTxn, EntrySeen
<1>4. seen[t] = "none"
  BY DEF InsertTxn, StatusSeen, Overlay, TypeOK
<1>5. OfTxn(en, t) = {}
  BY <1>4 DEF ParentsExist, OfTxn
<1>6. \A a \in Account, e \in EntryId :
        Contribution([seen EXCEPT ![t] = st], en, e, a) = Contribution(seen, en, e, a)
  BY <1>1, <1>5, StatusKeeps
<1>7. Moved(seen, en, [seen EXCEPT ![t] = st], en, {}, Empty)
  BY <1>6 DEF Moved
<1>8. BalanceStep(s, {}, Empty)
  BY DEF BalanceStep, InsertTxn
<1>9. ViewStep(s)
  BY <1>2, <1>3, <1>7, <1>8, IsViewStep
<1>10. ParentsExist([seen EXCEPT ![t] = st], en)
  BY <1>1 DEF ParentsExist, StatusTable
<1> QED BY <1>2, <1>3, <1>9, <1>10

\* ... to UPDATE of the status ...
LEMMA UpdateStatusView ==
  ASSUME TypeOK, NEW s \in Session, NEW t \in Txn, NEW st \in NewStatus,
         ParentsExist(StatusSeen(s), EntrySeen(s)), UpdateStatus(s, t, st)
  PROVE  ViewStep(s) /\ ParentsExist(StatusSeen(s)', EntrySeen(s)')
<1> DEFINE seen == StatusSeen(s)
           en == EntrySeen(s)
           touched == {en[e].account : e \in OfTxn(en, t)}
           delta == [a \in Account |-> (IF st \in InLedger THEN 1 ELSE -1) * TxnSum(en, t, a)]
<1>1. seen \in StatusTable /\ en \in EntryTable /\ st \in RowStatus /\ st # "none"
  BY SeenType, StatusAssumption DEF StatusTable, EntryTable, RowStatus, Status
<1>2. StatusSeen(s)' = [seen EXCEPT ![t] = st]
  BY WriteTxnView DEF UpdateStatus
<1>3. EntrySeen(s)' = en
  BY DEF UpdateStatus, EntrySeen
<1>4. touched \in SUBSET Account
  BY SeenType DEF OfTxn, EntryRow
<1>5. ViewStep(s)
  <2>1. CASE (seen[t] \in InLedger) # (st \in InLedger)
    <3>1. BalanceStep(s, touched, delta)
      BY <2>1 DEF BalanceStep, UpdateStatus
    <3>2. ASSUME NEW a \in Account
          PROVE  PostedSum([seen EXCEPT ![t] = st], en, a) = PostedSum(seen, en, a) + delta[a]
      BY <1>1, <2>1, StatusMoves
    <3>3. ASSUME NEW a \in Account, a \notin touched
          PROVE  \A e \in EntryId :
                   Contribution([seen EXCEPT ![t] = st], en, e, a) = Contribution(seen, en, e, a)
      BY <1>1, <3>3, StatusKeeps
    <3>4. Moved(seen, en, [seen EXCEPT ![t] = st], en, touched, delta)
      BY <3>2, <3>3 DEF Moved
    <3> HIDE DEF touched, delta, seen, en
    <3> QED BY <1>2, <1>3, <1>4, <3>1, <3>4, IsViewStep DEF seen, en
  <2>2. CASE (seen[t] \in InLedger) = (st \in InLedger)
    <3>1. BalanceStep(s, {}, Empty)
      BY <2>2 DEF BalanceStep, UpdateStatus
    <3>2. \A a \in Account, e \in EntryId :
            Contribution([seen EXCEPT ![t] = st], en, e, a) = Contribution(seen, en, e, a)
      BY <1>1, <2>2, StatusKeeps
    <3>3. Moved(seen, en, [seen EXCEPT ![t] = st], en, {}, Empty)
      BY <3>2 DEF Moved
    <3> QED BY <1>2, <1>3, <3>1, <3>3, IsViewStep
  <2> QED BY <2>1, <2>2
<1>6. ParentsExist([seen EXCEPT ![t] = st], en)
  BY <1>1 DEF ParentsExist, StatusTable
<1> QED BY <1>2, <1>3, <1>5, <1>6

\* ... to DELETE with its cascade ...
LEMMA DeleteTxnView ==
  ASSUME TypeOK, NEW s \in Session, NEW t \in Txn,
         ParentsExist(StatusSeen(s), EntrySeen(s)), DeleteTxn(s, t)
  PROVE  ViewStep(s) /\ ParentsExist(StatusSeen(s)', EntrySeen(s)')
<1> DEFINE seen == StatusSeen(s)
           en == EntrySeen(s)
           gone == OfTxn(en, t)
           touched == {en[e].account : e \in gone}
           delta == [a \in Account |-> -TxnSum(en, t, a)]
           st2 == [seen EXCEPT ![t] = "none"]
           en2 == Cleared(en, t)
<1>1. seen \in StatusTable /\ en \in EntryTable
  BY SeenType DEF StatusTable, EntryTable
<1>2. StatusSeen(s)' = st2
  BY WriteTxnView DEF DeleteTxn
<1>3. EntrySeen(s)' = en2
  <2>1. entryW'[s] = [e \in DOMAIN entryW[s] \cup gone |->
                        IF e \in gone THEN NoEntry ELSE entryW[s][e]]
    BY DEF DeleteTxn, TypeOK
  <2>2. entry' = entry /\ DOMAIN entry = EntryId
    BY DEF DeleteTxn, TypeOK
  <2>3. en2 = [e \in EntryId |-> IF e \in gone THEN NoEntry ELSE en[e]]
    BY DEF Cleared
  <2> HIDE DEF gone, en2
  <2> QED BY <2>1, <2>2, <2>3 DEF EntrySeen, Overlay
<1>4. touched \in SUBSET Account
  BY SeenType DEF OfTxn, EntryRow
<1>5. ViewStep(s)
  <2>1. CASE seen[t] \in InLedger
    <3>1. BalanceStep(s, touched, delta)
      BY <2>1 DEF BalanceStep, DeleteTxn
    <3>2. ASSUME NEW a \in Account
          PROVE  PostedSum(st2, en2, a) = PostedSum(seen, en, a) + delta[a]
      <4>1. Adds(st2, en2, seen, en, en, t, a)
        BY <1>1, <2>1, ClearedTerms DEF Adds
      <4>2. en2 \in EntryTable
        BY <1>1 DEF Cleared, EntryTable
      <4>3. PostedSum(seen, en, a) = PostedSum(st2, en2, a) + TxnSum(en, t, a)
        BY <1>1, <4>1, <4>2, TxnCounts
      <4>4. TxnSum(en, t, a) \in Int /\ PostedSum(st2, en2, a) \in Int
        BY <1>1, <4>2, TxnTermsType, PostedSumType
      <4>5. delta[a] = -TxnSum(en, t, a)
        OBVIOUS
      <4> HIDE DEF delta, seen, en, st2, en2
      <4> QED BY <4>3, <4>4, <4>5
    <3>3. ASSUME NEW a \in Account, a \notin touched, NEW e \in EntryId
          PROVE  Contribution(st2, en2, e, a) = Contribution(seen, en, e, a)
      BY <1>1, <3>3, ClearedTerms
    <3>4. Moved(seen, en, st2, en2, touched, delta)
      BY <3>2, <3>3 DEF Moved
    <3> HIDE DEF touched, delta, seen, en, st2, en2
    <3> QED BY <1>2, <1>3, <1>4, <3>1, <3>4, IsViewStep DEF seen, en
  <2>2. CASE seen[t] \notin InLedger
    <3>1. BalanceStep(s, {}, Empty)
      BY <2>2 DEF BalanceStep, DeleteTxn
    <3>2. ASSUME NEW a \in Account, NEW e \in EntryId
          PROVE  Contribution(st2, en2, e, a) = Contribution(seen, en, e, a)
      BY <1>1, <2>2, ClearedTerms
    <3>3. Moved(seen, en, st2, en2, {}, Empty)
      BY <3>2 DEF Moved
    <3> QED BY <1>2, <1>3, <3>1, <3>3, IsViewStep
  <2> QED BY <2>1, <2>2
<1>6. ParentsExist(st2, en2)
  <2> SUFFICES ASSUME NEW e \in EntryId, en2[e] # NoEntry
               PROVE  st2[en2[e].txn] # "none"
    BY DEF ParentsExist
  <2>1. en2[e] = en[e] /\ en[e] # NoEntry /\ en[e].txn # t
    BY DEF Cleared, OfTxn
  <2>2. seen[en[e].txn] # "none" /\ en[e].txn \in Txn
    BY <1>1, <2>1 DEF ParentsExist, EntryTable, EntryRow
  <2> QED BY <1>1, <2>1, <2>2 DEF StatusTable
<1> QED BY <1>2, <1>3, <1>5, <1>6

\* ... and to each statement on entry.
LEMMA ChangeEntryView ==
  ASSUME TypeOK, NEW s \in Session, NEW e \in EntryId,
         NEW old \in EntryRow \cup {NoEntry}, NEW new \in EntryRow \cup {NoEntry},
         EntrySeen(s)[e] = old,
         new # NoEntry => StatusSeen(s)[new.txn] # "none",
         ParentsExist(StatusSeen(s), EntrySeen(s)),
         ChangeEntry(s, e, [old |-> old, new |-> new])
  PROVE  ViewStep(s) /\ ParentsExist(StatusSeen(s)', EntrySeen(s)')
<1> DEFINE seen == StatusSeen(s)
           en == EntrySeen(s)
           en2 == [en EXCEPT ![e] = new]
           rows == [old |-> old, new |-> new]
           touched == MovedAccounts(s, rows)
           delta == [a \in Account |-> Moves(s, rows, a)]
<1>1. seen \in StatusTable /\ en \in EntryTable
  BY SeenType DEF StatusTable, EntryTable
<1>2. StatusSeen(s)' = seen
  BY DEF ChangeEntry, StatusSeen
<1>3. EntrySeen(s)' = en2
  <2>1. entryW'[s] = Put(entryW[s], e, new)
    BY DEF ChangeEntry, TypeOK
  <2>2. entry' = entry /\ DOMAIN entry = EntryId
    BY DEF ChangeEntry, TypeOK
  <2> QED BY <2>1, <2>2 DEF EntrySeen, Overlay, Put
<1>4. touched \in SUBSET Account
  BY DEF EntryRow, MovedAccounts
<1>5. BalanceStep(s, touched, delta)
  BY DEF BalanceStep, ChangeEntry
<1>6. en2 \in EntryTable /\ en2[e] = new /\ \A f \in EntryId \ {e} : en2[f] = en[f]
  BY <1>1 DEF EntryTable
<1>7. /\ old # NoEntry => old \in EntryRow /\ old.amount \in Int
      /\ new # NoEntry => new \in EntryRow /\ new.amount \in Int
  BY LedgerAssumption DEF EntryRow
<1>8. ASSUME NEW a \in Account
      PROVE  PostedSum(seen, en2, a) = PostedSum(seen, en, a) + delta[a]
  <2>1. PostedSum(seen, en2, a) = PostedSum(seen, en, a)
          - Contribution(seen, en, e, a) + Contribution(seen, en2, e, a)
    BY <1>1, EntryReplaced
  <2>2. /\ Contribution(seen, en, e, a) \in Int
        /\ Contribution(seen, en2, e, a) \in Int
        /\ PostedSum(seen, en, a) \in Int
    BY <1>1, <1>6, ContributionType, PostedSumType
  <2>3. delta[a] = Contribution(seen, en2, e, a) - Contribution(seen, en, e, a)
    BY <1>6, <1>7 DEF Moves, Contribution
  <2> HIDE DEF delta, seen, en, en2
  <2> QED BY <2>1, <2>2, <2>3
<1>9. ASSUME NEW a \in Account, a \notin touched, NEW f \in EntryId
      PROVE  Contribution(seen, en2, f, a) = Contribution(seen, en, f, a)
  <2>1. CASE f = e
    BY <1>6, <1>9, <2>1 DEF Contribution, MovedAccounts
  <2>2. CASE f # e
    BY <1>6, <2>2 DEF Contribution
  <2> QED BY <2>1, <2>2
<1>10. Moved(seen, en, seen, en2, touched, delta)
  BY <1>8, <1>9 DEF Moved
<1>11. ViewStep(s)
  <2> HIDE DEF touched, delta, seen, en, en2
  <2> QED BY <1>2, <1>3, <1>4, <1>5, <1>10, IsViewStep DEF seen, en
<1>12. ParentsExist(seen, en2)
  BY <1>6 DEF ParentsExist
<1> QED BY <1>2, <1>3, <1>11, <1>12

\* Every statement is a ViewStep and leaves no orphaned entry.
LEMMA StatementView ==
  ASSUME TypeOK, NEW s \in Session, Statement(s),
         ParentsExist(StatusSeen(s), EntrySeen(s))
  PROVE  ViewStep(s) /\ ParentsExist(StatusSeen(s)', EntrySeen(s)')
<1> DEFINE Goal == ViewStep(s) /\ ParentsExist(StatusSeen(s)', EntrySeen(s)')
<1>1. ASSUME NEW t \in Txn, NEW st \in NewStatus, InsertTxn(s, t, st)
      PROVE  Goal
  BY <1>1, InsertTxnView
<1>2. ASSUME NEW t \in Txn, NEW st \in NewStatus, UpdateStatus(s, t, st)
      PROVE  Goal
  BY <1>2, UpdateStatusView
<1>3. ASSUME NEW t \in Txn, DeleteTxn(s, t)
      PROVE  Goal
  BY <1>3, DeleteTxnView
<1>4. ASSUME NEW row \in EntryRow, InsertEntry(s, row)
      PROVE  Goal
  <2>1. PICK e \in FreeEntry : ChangeEntry(s, e, [old |-> NoEntry, new |-> row])
    BY <1>4 DEF InsertEntry
  <2>2. e \in EntryId /\ EntrySeen(s)[e] = NoEntry
    BY DEF FreeEntry, EntrySeen, Overlay, TypeOK
  <2>3. StatusSeen(s)[row.txn] # "none"
    BY <1>4 DEF InsertEntry
  <2> QED BY <2>1, <2>2, <2>3, ChangeEntryView
<1>5. ASSUME NEW e \in EntryId, NEW row \in EntryRow, UpdateEntry(s, e, row)
      PROVE  Goal
  <2>1. /\ ChangeEntry(s, e, [old |-> EntrySeen(s)[e], new |-> row])
        /\ StatusSeen(s)[row.txn] # "none"
    BY <1>5 DEF UpdateEntry
  <2>2. EntrySeen(s)[e] \in EntryRow \cup {NoEntry}
    BY SeenType
  <2> QED BY <2>1, <2>2, ChangeEntryView
<1>6. ASSUME NEW e \in EntryId, DeleteEntry(s, e)
      PROVE  Goal
  <2>1. ChangeEntry(s, e, [old |-> EntrySeen(s)[e], new |-> NoEntry])
    BY <1>6 DEF DeleteEntry
  <2>2. EntrySeen(s)[e] \in EntryRow \cup {NoEntry}
    BY SeenType
  <2> QED BY <2>1, <2>2, ChangeEntryView
<1> QED BY <1>1, <1>2, <1>3, <1>4, <1>5, <1>6 DEF Statement

----------------------------------------------------------------------------
(* The invariant *)

\* What session s sees is as consistent as the committed tables must be.
SeenAgrees(s) ==
  /\ ParentsExist(StatusSeen(s), EntrySeen(s))
  /\ \A a \in Account : BalanceSeen(s)[a] = PostedSum(StatusSeen(s), EntrySeen(s), a)

\* On an account whose balance row it has not locked, a session moved nothing.
MovesOnlyLocked(s) ==
  \A a \in Account \ DOMAIN balW[s], e \in EntryId :
    Contribution(StatusSeen(s), EntrySeen(s), e, a) = Contribution(status, entry, e, a)

BalanceInv ==
  /\ FrozenInv
  /\ ParentsExist(status, entry)
  /\ BalanceIsPostedSum
  /\ \A s \in Session : SeenAgrees(s) /\ MovesOnlyLocked(s)

\* A session with no writes sees the committed tables.
LEMMA NothingWritten ==
  ASSUME TypeOK, NEW s \in Session,
         DOMAIN txnW[s] = {}, DOMAIN entryW[s] = {}, DOMAIN balW[s] = {}
  PROVE  StatusSeen(s) = status /\ EntrySeen(s) = entry /\ BalanceSeen(s) = balance
  BY DEF StatusSeen, EntrySeen, BalanceSeen, Overlay, TypeOK

\* Such a session agrees if the committed tables do.
FreshAgrees ==
  \A s \in Session :
    /\ TypeOK /\ ParentsExist(status, entry) /\ BalanceIsPostedSum
    /\ DOMAIN txnW[s] = {} /\ DOMAIN entryW[s] = {} /\ DOMAIN balW[s] = {}
    => SeenAgrees(s) /\ MovesOnlyLocked(s)

\* A session that has written nothing sees the committed rows, whose balances agree.
LEMMA FreshSession == FreshAgrees
<1> SUFFICES ASSUME NEW s \in Session, TypeOK, ParentsExist(status, entry),
                    BalanceIsPostedSum,
                    DOMAIN txnW[s] = {}, DOMAIN entryW[s] = {}, DOMAIN balW[s] = {}
             PROVE  SeenAgrees(s) /\ MovesOnlyLocked(s)
  BY DEF FreshAgrees
<1>1. StatusSeen(s) = status /\ EntrySeen(s) = entry /\ BalanceSeen(s) = balance
  BY NothingWritten
<1> QED BY <1>1 DEF SeenAgrees, MovesOnlyLocked, BalanceIsPostedSum

\* Also in the state a step leads to.
LEMMA FreshSessionNext == FreshAgrees'
  BY FreshSession, PTL

\* An empty database has only zero sums.
LEMMA InitBalanceInv == Init => BalanceInv
<1> SUFFICES ASSUME Init PROVE BalanceInv
  OBVIOUS
<1>1. FrozenInv /\ TypeOK
  BY InitFrozenInv DEF FrozenInv
<1>2. ParentsExist(status, entry)
  BY DEF Init, ParentsExist
<1>3. BalanceIsPostedSum
  <2> SUFFICES ASSUME NEW a \in Account PROVE balance[a] = PostedSum(status, entry, a)
    BY DEF BalanceIsPostedSum
  <2>1. entry \in EntryTable
    BY <1>1 DEF TypeOK, EntryTable
  <2>2. Contributions(status, entry, a) \in [1..MaxEntry -> Int]
    BY <2>1, ContributionType DEF Contributions, EntryId
  <2>3. \A e \in 1..MaxEntry : Contributions(status, entry, a)[e] = 0
    BY DEF Init, Contributions, Contribution, EntryId
  <2>4. SumUpTo(Contributions(status, entry, a), MaxEntry) = 0
    BY <2>2, <2>3, SumZero, LedgerAssumption
  <2> QED BY <2>4 DEF PostedSum, Total, Contributions, Init
<1>4. \A s \in Session : DOMAIN txnW[s] = {} /\ DOMAIN entryW[s] = {} /\ DOMAIN balW[s] = {}
  BY EmptyType DEF Init
<1> QED BY <1>1, <1>2, <1>3, <1>4, FreshSession DEF BalanceInv, FreshAgrees

\* A statement changes balances and sums alike, on accounts it locks.
LEMMA StatementAgrees ==
  ASSUME BalanceInv, NEW s \in Session, Statement(s)
  PROVE  SeenAgrees(s)' /\ MovesOnlyLocked(s)'
<1>1. TypeOK /\ SeenAgrees(s) /\ MovesOnlyLocked(s)
  BY DEF BalanceInv, FrozenInv
<1>2. UNCHANGED <<status, entry, balance>> /\ DOMAIN balW' = Session
  BY <1>1, StatementIsStatement DEF StatementOf, Extends
<1>3. ViewStep(s) /\ ParentsExist(StatusSeen(s)', EntrySeen(s)')
  BY <1>1, StatementView DEF SeenAgrees
<1>4. PICK A \in SUBSET Account : \E delta :
        /\ BalanceStep(s, A, delta)
        /\ Moved(StatusSeen(s), EntrySeen(s), StatusSeen(s)', EntrySeen(s)', A, delta)
  BY <1>3 DEF ViewStep
<1>5. PICK delta :
        /\ BalanceStep(s, A, delta)
        /\ Moved(StatusSeen(s), EntrySeen(s), StatusSeen(s)', EntrySeen(s)', A, delta)
  BY <1>4
<1>6. ASSUME NEW a \in Account
      PROVE  /\ a \in A => /\ BalanceSeen(s)'[a] = BalanceSeen(s)[a] + delta[a]
                           /\ a \in DOMAIN balW'[s]
             /\ a \notin A => /\ BalanceSeen(s)'[a] = BalanceSeen(s)[a]
                              /\ a \in DOMAIN balW[s] <=> a \in DOMAIN balW'[s]
  <2>1. CASE UNCHANGED balW /\ A = {}
    BY <1>2, <2>1 DEF BalanceSeen
  <2>2. CASE ApplyBalance(s, A, delta)
    <3>1. balW'[s] = [b \in DOMAIN balW[s] \cup A |->
                        IF b \in A THEN BalanceSeen(s)[b] + delta[b] ELSE balW[s][b]]
      BY <1>1, <2>2 DEF ApplyBalance, TypeOK
    <3>2. DOMAIN balance = Account
      BY <1>1 DEF TypeOK
    <3>3. BalanceSeen(s)'[a] = IF a \in DOMAIN balW'[s] THEN balW'[s][a] ELSE balance[a]
      BY <1>2, <3>2 DEF BalanceSeen, Overlay
    <3>4. BalanceSeen(s)[a] = IF a \in DOMAIN balW[s] THEN balW[s][a] ELSE balance[a]
      BY <3>2 DEF BalanceSeen, Overlay
    <3>5. CASE a \in A
      BY <3>1, <3>3, <3>5
    <3>6. CASE a \notin A
      BY <3>1, <3>3, <3>4, <3>6
    <3> QED BY <3>5, <3>6
  <2> QED BY <1>5, <2>1, <2>2 DEF BalanceStep
<1>7. ASSUME NEW a \in Account
      PROVE  BalanceSeen(s)'[a] = PostedSum(StatusSeen(s)', EntrySeen(s)', a)
  <2>1. BalanceSeen(s)[a] = PostedSum(StatusSeen(s), EntrySeen(s), a)
    BY <1>1 DEF SeenAgrees
  <2>2. CASE a \in A
    BY <1>5, <1>6, <2>1, <2>2 DEF Moved
  <2>3. CASE a \notin A
    <3>1. \A e \in EntryId : Contribution(StatusSeen(s)', EntrySeen(s)', e, a)
                               = Contribution(StatusSeen(s), EntrySeen(s), e, a)
      BY <1>5, <2>3 DEF Moved
    <3>2. PostedSum(StatusSeen(s)', EntrySeen(s)', a)
            = PostedSum(StatusSeen(s), EntrySeen(s), a)
      BY <3>1, SameContributions
    <3> QED BY <1>6, <2>1, <2>3, <3>2
  <2> QED BY <2>2, <2>3
<1>8. ASSUME NEW a \in Account \ DOMAIN balW'[s], NEW e \in EntryId
      PROVE  Contribution(StatusSeen(s)', EntrySeen(s)', e, a)
               = Contribution(status', entry', e, a)
  <2>1. a \notin A /\ a \notin DOMAIN balW[s]
    BY <1>6
  <2>2. Contribution(StatusSeen(s)', EntrySeen(s)', e, a)
          = Contribution(StatusSeen(s), EntrySeen(s), e, a)
    BY <1>5, <2>1 DEF Moved
  <2>3. Contribution(StatusSeen(s), EntrySeen(s), e, a) = Contribution(status, entry, e, a)
    BY <1>1, <2>1 DEF MovesOnlyLocked
  <2> QED BY <1>2, <2>2, <2>3
<1>9. SeenAgrees(s)'
  BY <1>3, <1>7 DEF SeenAgrees
<1>10. MovesOnlyLocked(s)'
  BY <1>8 DEF MovesOnlyLocked
<1> QED BY <1>9, <1>10

\* A session that wrote nothing sees on as before.
LEMMA OthersAgree ==
  ASSUME NEW r \in Session, SeenAgrees(r), MovesOnlyLocked(r),
         UNCHANGED <<status, entry, balance>>,
         txnW'[r] = txnW[r], entryW'[r] = entryW[r], balW'[r] = balW[r]
  PROVE  SeenAgrees(r)' /\ MovesOnlyLocked(r)'
<1>1. /\ StatusSeen(r)' = StatusSeen(r) /\ EntrySeen(r)' = EntrySeen(r)
      /\ BalanceSeen(r)' = BalanceSeen(r)
  BY DEF StatusSeen, EntrySeen, BalanceSeen
<1>2. SeenAgrees(r)'
  BY <1>1 DEF SeenAgrees
<1>3. MovesOnlyLocked(r)'
  BY <1>1 DEF MovesOnlyLocked
<1> QED BY <1>2, <1>3

\* One entry and its parent are the same in two pairs of tables.
SameRow(st1, en1, st2, en2, e) ==
  /\ en1[e] = en2[e]
  /\ en1[e] # NoEntry => st1[en1[e].txn] = st2[en1[e].txn]

\* Such an entry contributes the same to every account.
LEMMA SameRowCounts ==
  ASSUME NEW st1, NEW en1, NEW st2, NEW en2, NEW e, SameRow(st1, en1, st2, en2, e)
  PROVE  \A a : Contribution(st1, en1, e, a) = Contribution(st2, en2, e, a)
  BY DEF SameRow, Contribution

\* When s commits, each entry is to another session r either as r saw it, and
\* then s changed nothing of it, or as s saw it, and then r changed nothing.
ChangedByOne(r, s, e) ==
  \/ /\ SameRow(StatusSeen(r)', EntrySeen(r)', StatusSeen(r), EntrySeen(r), e)
     /\ SameRow(StatusSeen(s), EntrySeen(s), status, entry, e)
  \/ /\ SameRow(StatusSeen(r)', EntrySeen(r)', StatusSeen(s), EntrySeen(s), e)
     /\ SameRow(StatusSeen(r), EntrySeen(r), status, entry, e)

\* The locks on rows and parents make it so.
LEMMA CommitRows ==
  ASSUME FrozenInv, NEW s \in Session, NEW r \in Session \ {s}, NEW e \in EntryId,
         Commit(s)
  PROVE  ChangedByOne(r, s, e)
<1> DEFINE stS == StatusSeen(s)
           enS == EntrySeen(s)
           stR == StatusSeen(r)
           enR == EntrySeen(r)
           new == StatusSeen(r)'
           enN == EntrySeen(r)'
<1>1. TypeOK /\ LockInv /\ HeldInv
  BY DEF FrozenInv
<1>2. /\ status' = stS /\ entry' = enS
      /\ txnW'[r] = txnW[r] /\ entryW'[r] = entryW[r]
  BY <1>1, EndTransactionType DEF Commit
<1>3. DOMAIN status = Txn /\ DOMAIN stS = Txn /\ DOMAIN entry = EntryId /\ DOMAIN enS = EntryId
  BY <1>1, SeenType DEF TypeOK
<1>4. ASSUME NEW t \in Txn
      PROVE  /\ stS[t] = IF t \in DOMAIN txnW[s] THEN txnW[s][t] ELSE status[t]
             /\ stR[t] = IF t \in DOMAIN txnW[r] THEN txnW[r][t] ELSE status[t]
             /\ new[t] = IF t \in DOMAIN txnW[r] THEN txnW[r][t] ELSE stS[t]
  BY <1>2, <1>3 DEF StatusSeen, Overlay
<1>5. /\ enS[e] = IF e \in DOMAIN entryW[s] THEN entryW[s][e] ELSE entry[e]
      /\ enR[e] = IF e \in DOMAIN entryW[r] THEN entryW[r][e] ELSE entry[e]
      /\ enN[e] = IF e \in DOMAIN entryW[r] THEN entryW[r][e] ELSE enS[e]
  BY <1>2, <1>3 DEF EntrySeen, Overlay
<1>6. enS[e] \in EntryRow \cup {NoEntry} /\ enR[e] \in EntryRow \cup {NoEntry}
      /\ entry[e] \in EntryRow \cup {NoEntry}
  BY <1>1, SeenType DEF TypeOK
<1>7. /\ DOMAIN txnW[r] \cap Held(s) = {} /\ DOMAIN txnW[s] \cap Held(r) = {}
      /\ DOMAIN entryW[r] \cap DOMAIN entryW[s] = {}
  BY <1>1 DEF LockInv, Held
<1>8. ASSUME NEW q \in Session, e \in DOMAIN entryW[q], NEW row, row # NoEntry,
             row = entry[e] \/ row = entryW[q][e]
      PROVE  row.txn \in Held(q)
  BY <1>1, <1>8 DEF HeldInv, Parents
<1> HIDE DEF stS, enS, stR, enR, new, enN
<1>9. ChangedByOne(r, s, e) <=>
        \/ SameRow(new, enN, stR, enR, e) /\ SameRow(stS, enS, status, entry, e)
        \/ SameRow(new, enN, stS, enS, e) /\ SameRow(stR, enR, status, entry, e)
  BY DEF ChangedByOne, stS, enS, stR, enR, new, enN
<1>10. CASE e \in DOMAIN entryW[r]
  <2>1. enN[e] = enR[e] /\ enS[e] = entry[e]
    BY <1>5, <1>7, <1>10
  <2>2. enR[e] # NoEntry => enR[e].txn \in Held(r) /\ enR[e].txn \in Txn
    BY <1>5, <1>6, <1>8, <1>10 DEF EntryRow
  <2>3. enS[e] # NoEntry => enS[e].txn \in Held(r) /\ enS[e].txn \in Txn
    BY <1>6, <1>8, <1>10, <2>1 DEF EntryRow
  <2>4. SameRow(new, enN, stR, enR, e)
    BY <1>4, <1>7, <2>1, <2>2 DEF SameRow
  <2>5. SameRow(stS, enS, status, entry, e)
    BY <1>4, <1>7, <2>1, <2>3 DEF SameRow
  <2> QED BY <1>9, <2>4, <2>5
<1>11. CASE /\ e \notin DOMAIN entryW[r]
            /\ enS[e] # NoEntry /\ enS[e].txn \in DOMAIN txnW[r]
  <2>1. enS[e].txn \in Txn /\ enS[e].txn \notin Held(s)
    BY <1>6, <1>7, <1>11 DEF EntryRow
  <2>2. e \notin DOMAIN entryW[s]
    BY <1>5, <1>8, <1>11, <2>1
  <2>3. enN[e] = entry[e] /\ enR[e] = entry[e] /\ enS[e] = entry[e]
    BY <1>5, <1>11, <2>2
  <2>4. SameRow(new, enN, stR, enR, e)
    BY <1>4, <1>11, <2>1, <2>3 DEF SameRow
  <2>5. SameRow(stS, enS, status, entry, e)
    BY <1>4, <2>1, <2>3 DEF SameRow, Held
  <2> QED BY <1>9, <2>4, <2>5
<1>12. CASE /\ e \notin DOMAIN entryW[r]
            /\ enS[e] = NoEntry \/ enS[e].txn \notin DOMAIN txnW[r]
  <2>1. enN[e] = enS[e] /\ enR[e] = entry[e]
    BY <1>5, <1>12
  <2>2. enS[e] # NoEntry => enS[e].txn \in Txn
    BY <1>6 DEF EntryRow
  <2>3. SameRow(new, enN, stS, enS, e)
    BY <1>4, <1>12, <2>1, <2>2 DEF SameRow
  <2>4. entry[e] # NoEntry => entry[e].txn \in Txn /\ entry[e].txn \notin DOMAIN txnW[r]
    <3>1. CASE e \in DOMAIN entryW[s]
      BY <1>6, <1>7, <1>8, <3>1 DEF EntryRow
    <3>2. CASE e \notin DOMAIN entryW[s]
      BY <1>5, <1>6, <1>12, <3>2 DEF EntryRow
    <3> QED BY <3>1, <3>2
  <2>5. SameRow(stR, enR, status, entry, e)
    BY <1>4, <2>1, <2>4 DEF SameRow
  <2> QED BY <1>9, <2>3, <2>5
<1> QED BY <1>10, <1>11, <1>12

\* A commit of s leaves what another session sees consistent.
LEMMA CommitAgrees ==
  ASSUME BalanceInv, NEW s \in Session, NEW r \in Session \ {s}, Commit(s)
  PROVE  SeenAgrees(r)' /\ MovesOnlyLocked(r)'
<1>1. /\ FrozenInv /\ TypeOK /\ LockInv
      /\ SeenAgrees(r) /\ MovesOnlyLocked(r) /\ SeenAgrees(s) /\ MovesOnlyLocked(s)
  BY DEF BalanceInv, FrozenInv
<1>2. /\ status' = StatusSeen(s) /\ entry' = EntrySeen(s) /\ balance' = BalanceSeen(s)
      /\ balW'[r] = balW[r]
  BY <1>1, EndTransactionType DEF Commit
<1>3. \A e \in EntryId : ChangedByOne(r, s, e)
  BY <1>1, CommitRows
<1>4. ParentsExist(StatusSeen(r)', EntrySeen(r)')
  <2> SUFFICES ASSUME NEW e \in EntryId, EntrySeen(r)'[e] # NoEntry
               PROVE  StatusSeen(r)'[EntrySeen(r)'[e].txn] # "none"
    BY DEF ParentsExist
  <2> QED BY <1>1, <1>3 DEF ChangedByOne, SameRow, SeenAgrees, ParentsExist
<1>5. ASSUME NEW a \in Account, a \notin DOMAIN balW[r], NEW e \in EntryId
      PROVE  Contribution(StatusSeen(r)', EntrySeen(r)', e, a)
               = Contribution(StatusSeen(s), EntrySeen(s), e, a)
  <2>1. Contribution(StatusSeen(r), EntrySeen(r), e, a) = Contribution(status, entry, e, a)
    BY <1>1, <1>5 DEF MovesOnlyLocked
  <2> QED BY <1>3, <2>1, SameRowCounts DEF ChangedByOne
<1>6. ASSUME NEW a \in Account, a \in DOMAIN balW[r], NEW e \in EntryId
      PROVE  Contribution(StatusSeen(r)', EntrySeen(r)', e, a)
               = Contribution(StatusSeen(r), EntrySeen(r), e, a)
  <2>1. a \notin DOMAIN balW[s]
    BY <1>1, <1>6 DEF LockInv
  <2>2. Contribution(StatusSeen(s), EntrySeen(s), e, a) = Contribution(status, entry, e, a)
    BY <1>1, <2>1 DEF MovesOnlyLocked
  <2> QED BY <1>3, <2>2, SameRowCounts DEF ChangedByOne
<1>7. ASSUME NEW a \in Account
      PROVE  BalanceSeen(r)'[a] = PostedSum(StatusSeen(r)', EntrySeen(r)', a)
  <2>1. BalanceSeen(r)'[a] = IF a \in DOMAIN balW[r] THEN balW[r][a] ELSE BalanceSeen(s)[a]
    <3>1. DOMAIN BalanceSeen(s) = Account
      BY <1>1, SeenType
    <3> QED BY <1>2, <3>1 DEF BalanceSeen, Overlay
  <2>2. CASE a \in DOMAIN balW[r]
    <3>1. balW[r][a] = BalanceSeen(r)[a]
      BY <1>1, <2>2 DEF BalanceSeen, Overlay, TypeOK
    <3>2. BalanceSeen(r)[a] = PostedSum(StatusSeen(r), EntrySeen(r), a)
      BY <1>1 DEF SeenAgrees
    <3>3. PostedSum(StatusSeen(r)', EntrySeen(r)', a) = PostedSum(StatusSeen(r), EntrySeen(r), a)
      BY <1>6, <2>2, SameContributions
    <3> QED BY <2>1, <2>2, <3>1, <3>2, <3>3
  <2>3. CASE a \notin DOMAIN balW[r]
    <3>1. BalanceSeen(s)[a] = PostedSum(StatusSeen(s), EntrySeen(s), a)
      BY <1>1 DEF SeenAgrees
    <3>2. PostedSum(StatusSeen(r)', EntrySeen(r)', a) = PostedSum(StatusSeen(s), EntrySeen(s), a)
      BY <1>5, <2>3, SameContributions
    <3> QED BY <2>1, <2>3, <3>1, <3>2
  <2> QED BY <2>2, <2>3
<1>8. SeenAgrees(r)'
  BY <1>4, <1>7 DEF SeenAgrees
<1>9. MovesOnlyLocked(r)'
  BY <1>2, <1>5 DEF MovesOnlyLocked
<1> QED BY <1>8, <1>9

\* Every step keeps the invariant.
LEMMA StepBalanceInv ==
  ASSUME BalanceInv, [Next]_vars
  PROVE  BalanceInv'
<1> DEFINE Goal == /\ ParentsExist(status', entry')
                   /\ BalanceIsPostedSum'
                   /\ \A r \in Session : SeenAgrees(r)' /\ MovesOnlyLocked(r)'
<1>1. /\ FrozenInv /\ TypeOK /\ ParentsExist(status, entry) /\ BalanceIsPostedSum
      /\ \A r \in Session : SeenAgrees(r) /\ MovesOnlyLocked(r)
  BY DEF BalanceInv, FrozenInv
<1>2. FrozenInv' /\ TypeOK'
  BY <1>1, StepFrozenInv DEF FrozenInv
<1>3. ASSUME NEW s \in Session, Statement(s)
      PROVE  Goal
  <2>1. /\ UNCHANGED <<status, entry, balance>>
        /\ \A r \in Session \ {s} : /\ txnW'[r] = txnW[r] /\ entryW'[r] = entryW[r]
                                    /\ balW'[r] = balW[r]
    BY <1>1, <1>3, StatementIsStatement DEF StatementOf, Extends
  <2>2. \A r \in Session \ {s} : SeenAgrees(r)' /\ MovesOnlyLocked(r)'
    BY <1>1, <2>1, OthersAgree
  <2>3. SeenAgrees(s)' /\ MovesOnlyLocked(s)'
    BY <1>3, StatementAgrees
  <2>4. BalanceIsPostedSum'
    BY <1>1, <2>1 DEF BalanceIsPostedSum
  <2> QED BY <1>1, <2>1, <2>2, <2>3, <2>4
<1>4. ASSUME NEW s \in Session, RunDeferred(s)
      PROVE  Goal
  <2>1. UNCHANGED <<status, entry, balance, txnW, entryW, balW>>
    BY <1>4 DEF RunDeferred
  <2>2. \A r \in Session : SeenAgrees(r)' /\ MovesOnlyLocked(r)'
    BY <1>1, <2>1, OthersAgree
  <2> QED BY <1>1, <2>1, <2>2 DEF BalanceIsPostedSum
<1>5. ASSUME NEW s \in Session, Commit(s)
      PROVE  Goal
  <2>1. status' = StatusSeen(s) /\ entry' = EntrySeen(s) /\ balance' = BalanceSeen(s)
    BY <1>5 DEF Commit
  <2>2. ParentsExist(status', entry') /\ BalanceIsPostedSum'
    BY <1>1, <2>1 DEF SeenAgrees, BalanceIsPostedSum
  <2>3. \A r \in Session \ {s} : SeenAgrees(r)' /\ MovesOnlyLocked(r)'
    BY <1>5, CommitAgrees
  <2>4. DOMAIN txnW'[s] = {} /\ DOMAIN entryW'[s] = {} /\ DOMAIN balW'[s] = {}
    BY <1>1, <1>5, EndTransactionType DEF Commit
  <2>5. SeenAgrees(s)' /\ MovesOnlyLocked(s)'
    BY <1>2, <2>2, <2>4, FreshSessionNext DEF FreshAgrees, ParentsExist
  <2> QED BY <2>2, <2>3, <2>5
<1>6. ASSUME NEW s \in Session, Rollback(s)
      PROVE  Goal
  <2>1. UNCHANGED <<status, entry, balance>>
    BY <1>6 DEF Rollback
  <2>2. /\ DOMAIN txnW'[s] = {} /\ DOMAIN entryW'[s] = {} /\ DOMAIN balW'[s] = {}
        /\ \A r \in Session \ {s} : /\ txnW'[r] = txnW[r] /\ entryW'[r] = entryW[r]
                                    /\ balW'[r] = balW[r]
    BY <1>1, <1>6, EndTransactionType DEF Rollback
  <2>3. BalanceIsPostedSum' /\ ParentsExist(status', entry')
    BY <1>1, <2>1 DEF BalanceIsPostedSum
  <2>4. \A r \in Session \ {s} : SeenAgrees(r)' /\ MovesOnlyLocked(r)'
    BY <1>1, <2>1, <2>2, OthersAgree
  <2>5. SeenAgrees(s)' /\ MovesOnlyLocked(s)'
    BY <1>2, <2>2, <2>3, FreshSessionNext DEF FreshAgrees, ParentsExist
  <2> QED BY <2>3, <2>4, <2>5
<1>7. ASSUME UNCHANGED vars
      PROVE  Goal
  <2>1. UNCHANGED <<status, entry, balance, txnW, entryW, balW>>
    BY <1>7 DEF vars
  <2>2. \A r \in Session : SeenAgrees(r)' /\ MovesOnlyLocked(r)'
    BY <1>1, <2>1, OthersAgree
  <2> QED BY <1>1, <2>1, <2>2 DEF BalanceIsPostedSum
<1>8. Goal
  BY <1>3, <1>4, <1>5, <1>6, <1>7, NextCases
<1> QED BY <1>2, <1>8 DEF BalanceInv

\* For every interleaving of sessions, the committed account_balance equals the
\* sum of the committed entries of posted and settled transactions.
THEOREM BalanceCorrect == Spec => []BalanceIsPostedSum
<1>1. BalanceInv => BalanceIsPostedSum
  BY DEF BalanceInv
<1> QED BY <1>1, InitBalanceInv, StepBalanceInv, PTL DEF Spec

----------------------------------------------------------------------------
(* INV-1: posted transactions balance *)

\* The terms of one currency in transaction row t.
CurrencyTerms(en, t, c) ==
  [e \in EntryId |-> IF e \in OfTxn(en, t) /\ CurrencyOf[en[e].account] = c
                     THEN en[e].amount ELSE 0]

\* They are integers.
LEMMA CurrencyTermsType ==
  ASSUME NEW en \in EntryTable, NEW t, NEW c
  PROVE  CurrencyTerms(en, t, c) \in [1..MaxEntry -> Int]
<1>1. ASSUME NEW e \in EntryId, e \in OfTxn(en, t)
      PROVE  en[e].amount \in Int
  <2>1. en[e] \in EntryRow
    BY <1>1 DEF OfTxn, EntryTable
  <2> QED BY <2>1, LedgerAssumption DEF EntryRow
<1> QED BY <1>1 DEF CurrencyTerms, EntryId

\* The balance of a row, through its terms.
LEMMA BalancedByTerms ==
  ASSUME NEW en, NEW t
  PROVE  Balanced(en, t) <=>
           \A c \in {CurrencyOf[a] : a \in Account} :
             SumUpTo(CurrencyTerms(en, t, c), MaxEntry) = 0
BY DEF Balanced, Total, CurrencyTerms

\* No entry of t differs between two tables.
SameEntries(en1, en2, t) ==
  \A e \in EntryId : en1[e] = en2[e] \/ t \notin Parents(en1[e]) \cup Parents(en2[e])

\* Then t balances in one exactly if it does in the other.
LEMMA SameEntriesBalance ==
  ASSUME NEW en1, NEW en2, NEW t, SameEntries(en1, en2, t)
  PROVE  Balanced(en1, t) <=> Balanced(en2, t)
<1>1. ASSUME NEW c PROVE CurrencyTerms(en1, t, c) = CurrencyTerms(en2, t, c)
  <2>1. ASSUME NEW e \in EntryId
        PROVE  /\ e \in OfTxn(en1, t) <=> e \in OfTxn(en2, t)
               /\ e \in OfTxn(en1, t) => en1[e] = en2[e]
    BY DEF SameEntries, OfTxn, Parents
  <2> QED BY <2>1 DEF CurrencyTerms
<1> QED BY <1>1, BalancedByTerms

\* Two changes of a table that touch no entry in common, made one after the other.
Merged(en, en1, en2, both) ==
  \A e \in EntryId : \/ both[e] = en1[e] /\ en2[e] = en[e]
                     \/ both[e] = en2[e] /\ en1[e] = en[e]

\* If t balances before and after each of them, it balances after both.
LEMMA MergedBalance ==
  ASSUME NEW en \in EntryTable, NEW en1 \in EntryTable, NEW en2 \in EntryTable,
         NEW both \in EntryTable, NEW t, Merged(en, en1, en2, both),
         Balanced(en, t), Balanced(en1, t), Balanced(en2, t)
  PROVE  Balanced(both, t)
<1> SUFFICES ASSUME NEW c \in {CurrencyOf[a] : a \in Account}
             PROVE  SumUpTo(CurrencyTerms(both, t, c), MaxEntry) = 0
  BY BalancedByTerms
<1> DEFINE f  == CurrencyTerms(en, t, c)
           f1 == CurrencyTerms(en1, t, c)
           f2 == CurrencyTerms(en2, t, c)
           g  == CurrencyTerms(both, t, c)
           h  == [n \in 1..MaxEntry |-> f1[n] + f2[n]]
<1>1. /\ f \in [1..MaxEntry -> Int] /\ f1 \in [1..MaxEntry -> Int]
      /\ f2 \in [1..MaxEntry -> Int] /\ g \in [1..MaxEntry -> Int]
  BY CurrencyTermsType
<1>2. ASSUME NEW n \in 1..MaxEntry PROVE g[n] + f[n] = f1[n] + f2[n]
  <2>1. \/ g[n] = f1[n] /\ f2[n] = f[n]
        \/ g[n] = f2[n] /\ f1[n] = f[n]
    BY DEF Merged, CurrencyTerms, OfTxn, EntryId
  <2>2. f[n] \in Int /\ f1[n] \in Int /\ f2[n] \in Int /\ g[n] \in Int
    BY <1>1
  <2> HIDE DEF f, f1, f2, g
  <2> QED BY <2>1, <2>2
<1>3. SumUpTo(f, MaxEntry) = 0 /\ SumUpTo(f1, MaxEntry) = 0 /\ SumUpTo(f2, MaxEntry) = 0
  BY BalancedByTerms
<1> HIDE DEF f, f1, f2, g
<1>4. h \in [1..MaxEntry -> Int] /\ \A n \in 1..MaxEntry : h[n] = f1[n] + f2[n]
  BY <1>1
<1>5. \A n \in 1..MaxEntry : h[n] = g[n] + f[n]
  BY <1>2, <1>4
<1> HIDE DEF h
<1>6. SumUpTo(h, MaxEntry) = SumUpTo(f1, MaxEntry) + SumUpTo(f2, MaxEntry)
  BY <1>1, <1>4, SumAdd, LedgerAssumption
<1>7. SumUpTo(h, MaxEntry) = SumUpTo(g, MaxEntry) + SumUpTo(f, MaxEntry)
  BY <1>1, <1>4, <1>5, SumAdd, LedgerAssumption
<1>8. SumUpTo(g, MaxEntry) \in Int
  BY <1>1, SumType, LedgerAssumption
<1>9. SumUpTo(g, MaxEntry) = 0
  BY <1>3, <1>6, <1>7, <1>8
<1> QED BY <1>9 DEF g

\* What the deferred checks of a session found stays true until it commits, whatever
\* other sessions commit in between.
CheckedInv ==
  \A s \in Session : phase[s] = "committing" =>
    \A t \in CheckQueue(s) :
      StatusSeen(s)[t] \in InLedger => Balanced(EntrySeen(s), t)

PostedInv == FrozenInv /\ PostedIsBalanced /\ CheckedInv

\* A session that holds a row in neither mode changed no entry of it.
LEMMA UnheldSame ==
  ASSUME TypeOK, HeldInv, NEW s \in Session, NEW t \in Txn, t \notin Held(s)
  PROVE  StatusSeen(s)[t] = status[t] /\ SameEntries(EntrySeen(s), entry, t)
<1>1. StatusSeen(s)[t] = status[t]
  BY DEF StatusSeen, Overlay, Held, TypeOK
<1>2. ASSUME NEW e \in EntryId, e \notin DOMAIN entryW[s] PROVE EntrySeen(s)[e] = entry[e]
  BY <1>2 DEF EntrySeen, Overlay, TypeOK
<1>3. ASSUME NEW e \in EntryId, e \in DOMAIN entryW[s]
      PROVE  t \notin Parents(EntrySeen(s)[e]) \cup Parents(entry[e])
  <2>1. EntrySeen(s)[e] = entryW[s][e]
    BY <1>3 DEF EntrySeen, Overlay, TypeOK
  <2> QED BY <1>3, <2>1 DEF HeldInv
<1> QED BY <1>1, <1>2, <1>3 DEF SameEntries

\* After a commit every posted row balances: the rows it held were checked, the others
\* did not change.
LEMMA CommitBalances ==
  ASSUME PostedInv, NEW s \in Session, Commit(s)
  PROVE  PostedIsBalanced'
<1> SUFFICES ASSUME NEW t \in Txn, status'[t] \in InLedger PROVE Balanced(entry', t)
  BY DEF PostedIsBalanced, Balanced, Total, OfTxn
<1>0. TypeOK /\ HeldInv
  BY DEF PostedInv, FrozenInv
<1>1. status' = StatusSeen(s) /\ entry' = EntrySeen(s) /\ phase[s] = "committing"
  BY DEF Commit
<1>2. CASE t \in Held(s)
  BY <1>1, <1>2 DEF PostedInv, CheckedInv, CheckQueue, Held
<1>3. CASE t \notin Held(s)
  <2>1. status[t] \in InLedger /\ SameEntries(EntrySeen(s), entry, t)
    BY <1>0, <1>1, <1>3, UnheldSame
  <2>2. Balanced(entry, t)
    BY <2>1 DEF PostedInv, PostedIsBalanced
  <2> QED BY <1>1, <2>1, <2>2, SameEntriesBalance
<1> QED BY <1>2, <1>3

\* What r sees after the commit of s merges what each of them saw before.
LEMMA CommitMerges ==
  ASSUME FrozenInv, NEW s \in Session, NEW r \in Session \ {s}, Commit(s)
  PROVE  /\ Merged(entry, EntrySeen(r), EntrySeen(s), EntrySeen(r)')
         /\ EntrySeen(r)' \in EntryTable
         /\ \A t \in Txn : StatusSeen(r)'[t] = IF t \in DOMAIN txnW[r] THEN txnW[r][t]
                                               ELSE StatusSeen(s)[t]
<1>1. TypeOK /\ LockInv /\ TypeOK'
  BY StepType DEF FrozenInv, Next, Step
<1>2. /\ status' = StatusSeen(s) /\ entry' = EntrySeen(s)
      /\ txnW'[r] = txnW[r] /\ entryW'[r] = entryW[r]
  BY <1>1, EndTransactionType DEF Commit
<1>3. DOMAIN status = Txn /\ DOMAIN StatusSeen(s) = Txn
      /\ DOMAIN entry = EntryId /\ DOMAIN EntrySeen(s) = EntryId
  BY <1>1, SeenType DEF TypeOK
<1>4. ASSUME NEW e \in EntryId
      PROVE  /\ EntrySeen(s)[e] = IF e \in DOMAIN entryW[s] THEN entryW[s][e] ELSE entry[e]
             /\ EntrySeen(r)[e] = IF e \in DOMAIN entryW[r] THEN entryW[r][e] ELSE entry[e]
             /\ EntrySeen(r)'[e] = IF e \in DOMAIN entryW[r] THEN entryW[r][e]
                                   ELSE EntrySeen(s)[e]
             /\ e \notin DOMAIN entryW[r] \cap DOMAIN entryW[s]
  BY <1>1, <1>2, <1>3 DEF EntrySeen, Overlay, LockInv
<1>5. Merged(entry, EntrySeen(r), EntrySeen(s), EntrySeen(r)')
  BY <1>4 DEF Merged
<1>6. \A t \in Txn : StatusSeen(r)'[t] = IF t \in DOMAIN txnW[r] THEN txnW[r][t]
                                         ELSE StatusSeen(s)[t]
  BY <1>2, <1>3 DEF StatusSeen, Overlay
<1>7. EntrySeen(r)' \in EntryTable
  <2>1. EntrySeen(s) \in EntryTable /\ EntrySeen(r) \in EntryTable
    BY <1>1, SeenType DEF EntryTable
  <2>2. \A e \in EntryId : EntrySeen(r)'[e] = EntrySeen(r)[e]
                           \/ EntrySeen(r)'[e] = EntrySeen(s)[e]
    BY <1>4
  <2>3. EntrySeen(r)' = [e \in EntryId |-> EntrySeen(r)'[e]]
    BY <1>2, <1>3 DEF EntrySeen, Overlay
  <2> QED BY <2>1, <2>2, <2>3 DEF EntryTable
<1> QED BY <1>5, <1>6, <1>7

\* What another session checked stays true when s commits: s changed no entry of a row
\* that session wrote, and its changes below a row both share-lock balance.
LEMMA CommitKeepsChecks ==
  ASSUME PostedInv, NEW s \in Session, NEW r \in Session \ {s}, Commit(s),
         phase[r] = "committing", NEW t \in CheckQueue(r), StatusSeen(r)'[t] \in InLedger
  PROVE  Balanced(EntrySeen(r)', t)
<1>0. TypeOK /\ HeldInv /\ LockInv /\ FrozenInv
  BY DEF PostedInv, FrozenInv
<1>1. t \in Txn /\ t \in Held(r)
  BY <1>0 DEF CheckQueue, Held, TypeOK, IsPartial
<1>2. /\ Merged(entry, EntrySeen(r), EntrySeen(s), EntrySeen(r)')
      /\ EntrySeen(r)' \in EntryTable
      /\ StatusSeen(r)'[t] = IF t \in DOMAIN txnW[r] THEN txnW[r][t] ELSE StatusSeen(s)[t]
  BY <1>0, <1>1, CommitMerges
<1>3. entry \in EntryTable /\ EntrySeen(s) \in EntryTable /\ EntrySeen(r) \in EntryTable
  BY <1>0, SeenType DEF EntryTable, TypeOK
<1>4. StatusSeen(r)[t] = IF t \in DOMAIN txnW[r] THEN txnW[r][t] ELSE status[t]
  BY <1>0, <1>1 DEF StatusSeen, Overlay, TypeOK
<1>5. CASE t \notin Held(s)
  <2>1. StatusSeen(s)[t] = status[t] /\ SameEntries(EntrySeen(s), entry, t)
    BY <1>0, <1>1, <1>5, UnheldSame
  <2>2. Balanced(EntrySeen(r), t)
    BY <1>2, <1>4, <2>1 DEF PostedInv, CheckedInv
  <2>3. SameEntries(EntrySeen(r)', EntrySeen(r), t)
    BY <1>2, <2>1 DEF Merged, SameEntries
  <2> QED BY <2>2, <2>3, SameEntriesBalance
<1>6. CASE t \in Held(s)
  <2>1. t \notin DOMAIN txnW[r] /\ t \notin DOMAIN txnW[s]
    BY <1>0, <1>1, <1>6 DEF LockInv, Held
  <2>2. StatusSeen(s)[t] = status[t]
    BY <1>0, <1>1, <2>1 DEF StatusSeen, Overlay, TypeOK
  <2>3. Balanced(entry, t)
    BY <1>1, <1>2, <2>1, <2>2 DEF PostedInv, PostedIsBalanced
  <2>4. Balanced(EntrySeen(r), t)
    BY <1>2, <1>4, <2>1, <2>2 DEF PostedInv, CheckedInv
  <2>5. Balanced(EntrySeen(s), t)
    BY <1>2, <1>6, <2>1, <2>2 DEF PostedInv, CheckedInv, Commit, CheckQueue, Held
  <2> QED BY <1>2, <1>3, <2>3, <2>4, <2>5, MergedBalance
<1> QED BY <1>5, <1>6

\* What a session checked, when nothing it sees changed.
ChecksKept(r) ==
  phase'[r] = "committing" =>
    \A t \in CheckQueue(r)' : StatusSeen(r)'[t] \in InLedger => Balanced(EntrySeen(r)', t)

\* A step that leaves the committed tables and the overlays of r leaves its checks true.
LEMMA UnchangedChecks ==
  ASSUME CheckedInv, NEW r \in Session, UNCHANGED <<status, entry>>, phase'[r] = phase[r],
         txnW'[r] = txnW[r], entryW'[r] = entryW[r], share'[r] = share[r]
  PROVE  ChecksKept(r)
<1>1. StatusSeen(r)' = StatusSeen(r) /\ EntrySeen(r)' = EntrySeen(r)
      /\ CheckQueue(r)' = CheckQueue(r)
  BY DEF StatusSeen, EntrySeen, CheckQueue
<1> QED BY <1>1 DEF CheckedInv, ChecksKept

\* Every step keeps the invariant.
LEMMA StepPostedInv ==
  ASSUME PostedInv, [Next]_vars
  PROVE  PostedInv'
<1> DEFINE Goal == PostedIsBalanced' /\ \A r \in Session : ChecksKept(r)
<1>0. FrozenInv /\ TypeOK /\ PostedIsBalanced /\ CheckedInv
  BY DEF PostedInv, FrozenInv
<1>1. FrozenInv'
  BY <1>0, StepFrozenInv
<1>2. UNCHANGED <<status, entry>> => PostedIsBalanced'
  BY <1>0 DEF PostedIsBalanced, Balanced, Total, OfTxn
<1>3. ASSUME NEW s \in Session, Statement(s) PROVE Goal
  <2>1. /\ UNCHANGED <<status, entry, phase>>
        /\ \A r \in Session \ {s} : /\ txnW'[r] = txnW[r] /\ entryW'[r] = entryW[r]
                                    /\ share'[r] = share[r]
    BY <1>0, <1>3, StatementIsStatement DEF StatementOf, Extends
  <2>2. phase[s] = "open"
    BY <1>3 DEF Statement, InsertTxn, UpdateStatus, DeleteTxn, InsertEntry, UpdateEntry,
                DeleteEntry, ChangeEntry, Running
  <2>3. \A r \in Session \ {s} : ChecksKept(r)
    BY <1>0, <2>1, UnchangedChecks
  <2>4. ChecksKept(s)
    BY <2>1, <2>2 DEF ChecksKept
  <2> QED BY <1>2, <2>1, <2>3, <2>4
<1>4. ASSUME NEW s \in Session, RunDeferred(s) PROVE Goal
  <2>1. /\ UNCHANGED <<status, entry, txnW, entryW, share>>
        /\ \A r \in Session \ {s} : phase'[r] = phase[r]
    BY <1>0, <1>4 DEF RunDeferred, TypeOK
  <2>2. \A r \in Session \ {s} : ChecksKept(r)
    BY <1>0, <2>1, UnchangedChecks
  <2>3. StatusSeen(s)' = StatusSeen(s) /\ EntrySeen(s)' = EntrySeen(s)
        /\ CheckQueue(s)' = CheckQueue(s)
    BY <2>1 DEF StatusSeen, EntrySeen, CheckQueue
  <2>4. ChecksKept(s)
    BY <1>4, <2>3 DEF ChecksKept, RunDeferred, Inv1Check
  <2> QED BY <1>2, <2>1, <2>2, <2>4
<1>5. ASSUME NEW s \in Session, Commit(s) PROVE Goal
  <2>1. PostedIsBalanced'
    BY <1>5, CommitBalances
  <2>2. phase'[s] = "open" /\ \A r \in Session \ {s} : /\ phase'[r] = phase[r]
                                                       /\ CheckQueue(r)' = CheckQueue(r)
    BY <1>0, <1>5, EndTransactionType DEF Commit, EndTransaction, TypeOK, CheckQueue
  <2>3. \A r \in Session \ {s} : ChecksKept(r)
    BY <1>5, <2>2, CommitKeepsChecks DEF ChecksKept
  <2>4. ChecksKept(s)
    BY <2>2 DEF ChecksKept
  <2> QED BY <2>1, <2>3, <2>4
<1>6. ASSUME NEW s \in Session, Rollback(s) PROVE Goal
  <2>1. UNCHANGED <<status, entry>> /\ phase'[s] = "open"
        /\ \A r \in Session \ {s} : /\ phase'[r] = phase[r] /\ txnW'[r] = txnW[r]
                                    /\ entryW'[r] = entryW[r] /\ share'[r] = share[r]
    BY <1>0, <1>6, EndTransactionType DEF Rollback, EndTransaction, TypeOK
  <2>2. \A r \in Session \ {s} : ChecksKept(r)
    BY <1>0, <2>1, UnchangedChecks
  <2>3. ChecksKept(s)
    BY <2>1 DEF ChecksKept
  <2> QED BY <1>2, <2>1, <2>2, <2>3
<1>7. ASSUME UNCHANGED vars PROVE Goal
  <2>1. UNCHANGED <<status, entry, phase, txnW, entryW, share>>
    BY <1>7 DEF vars
  <2>2. \A r \in Session : ChecksKept(r)
    BY <1>0, <2>1, UnchangedChecks
  <2> QED BY <1>2, <2>1, <2>2
<1>8. Goal
  BY <1>3, <1>4, <1>5, <1>6, <1>7, NextCases
<1>9. CheckedInv'
  BY <1>8 DEF CheckedInv, ChecksKept, Balanced, Total, OfTxn
<1> QED BY <1>1, <1>8, <1>9 DEF PostedInv

\* Nothing is posted and nothing is checked at first.
LEMMA InitPostedInv == Init => PostedInv
<1> SUFFICES ASSUME Init PROVE PostedInv
  OBVIOUS
<1>1. PostedIsBalanced
  BY DEF Init, PostedIsBalanced, InLedger
<1>2. CheckedInv
  BY DEF Init, CheckedInv
<1> QED BY <1>1, <1>2, InitFrozenInv DEF PostedInv

\* INV-1 for every interleaving of sessions: a committed posted or settled transaction
\* balances in every currency, though each session checks it before it commits and sees
\* nothing of what the others have not committed.
THEOREM PostedBalanced == Spec => []PostedIsBalanced
<1>1. PostedInv => PostedIsBalanced
  BY DEF PostedInv
<1> QED BY <1>1, InitPostedInv, StepPostedInv, PTL DEF Spec
=============================================================================
