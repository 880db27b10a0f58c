------------------------------ MODULE DemoLedger ------------------------------
(***************************************************************************)
(* The demo's ledger in memory.  It has the exports of the server's client and *)
(* of the local store, and each of them does its work at once: this is what    *)
(* the local store, which reads, validates and writes apart, has to look like.  *)
(***************************************************************************)
EXTENDS LedgerCore

CONSTANTS Codes,           \* account codes
          NewBodies,       \* transaction bodies, over codes
          AccountIds,      \* identifiers of new accounts
          TxnIds,          \* identifiers of new transactions
          IsProfile(_, _)  \* whether accounts and transactions are those of a profile

VARIABLES accounts, txns,
          profile   \* which profile is loaded

vars == <<accounts, txns, profile>>

Init == IsProfile(accounts, txns)

\* The sequence number of the page never comes back.
Fresh(id) == \A x \in accounts \cup txns : x.id # id

CreateAccount ==
  /\ UNCHANGED <<txns, profile>>
  /\ \E id \in AccountIds, code \in Codes :
       /\ Fresh(id)
       /\ ValidateAccountBody(accounts, [code |-> code, sound |-> TRUE])
       /\ accounts' = accounts \cup {[id |-> id, code |-> code]}

CreateTxn ==
  /\ UNCHANGED <<accounts, profile>>
  /\ \E body \in NewBodies :
       LET norm == Resolve(accounts, body)
       IN /\ ValidateTxnBody(accounts, norm)
          /\ \E id \in TxnIds :
               /\ Fresh(id)
               /\ txns' = txns \cup {[id |-> id, day |-> norm.day, entries |-> norm.entries]}

\* Accounts and transactions are exchanged together; the button of the profile that
\* is loaded is disabled.
SetDemoProfile ==
  /\ profile' # profile
  /\ IsProfile(accounts', txns')

Next == SetDemoProfile \/ CreateAccount \/ CreateTxn

Spec == Init /\ [][Next]_vars
=============================================================================
