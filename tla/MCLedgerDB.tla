---------------------------- MODULE MCLedgerDB ----------------------------
(* LedgerDB with two sessions on a few rows, for TLC. *)
EXTENDS LedgerDB, TLC

CONSTANTS s1, s2, t1, t2, cash, food, card, rent

MCCurrencyOf == [a \in Account |-> "KRW"]
MCAmount     == {-1, 1}
MCSymmetry   == Permutations(Session) \cup Permutations(Txn)

\* A state earlier commits can leave: t1 is posted with two balanced pairs of
\* entries on four different accounts (1 from cash to food, 1 from card to rent).
TwoPairs ==
  << [txn |-> t1, account |-> food, amount |-> 1],
     [txn |-> t1, account |-> cash, amount |-> -1],
     [txn |-> t1, account |-> rent, amount |-> 1],
     [txn |-> t1, account |-> card, amount |-> -1] >>

TwoPairsInit ==
  /\ status = [t \in Txn |-> IF t = t1 THEN "posted" ELSE "none"]
  /\ entry = TwoPairs
  /\ balance = [a \in Account |-> IF a \in {food, rent} THEN 1 ELSE -1]
  /\ phase = [s \in Session |-> "open"]
  /\ txnW = [s \in Session |-> Empty]
  /\ entryW = [s \in Session |-> Empty]
  /\ balW = [s \in Session |-> Empty]
  /\ share = [s \in Session |-> {}]

\* Its sessions only delete entries: every behaviour is one of LedgerDB's steps.
DeleteStep(s) ==
  \/ \E e \in EntryId : DeleteEntry(s, e)
  \/ RunDeferred(s)
  \/ Commit(s)
  \/ Rollback(s)

TwoPairsSpec == TwoPairsInit /\ [][\E s \in Session : DeleteStep(s)]_vars
=============================================================================
