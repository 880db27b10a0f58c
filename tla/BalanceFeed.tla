----------------------------- MODULE BalanceFeed -----------------------------
(***************************************************************************)
(* How one balance travels from the database to a browser: the notify       *)
(* triggers, the realtime Listener, the channel process of one browser, its  *)
(* socket and its store.  A balance is one (account, currency) pair; frames  *)
(* of different pairs do not affect each other.                               *)
(*                                                                           *)
(* A session that changed the balance holds its row lock until it ends.      *)
(* PostgreSQL keeps a transaction's notifications until COMMIT, drops a      *)
(* payload that is already among them, and delivers committed ones in commit *)
(* order to whoever is listening then.                                        *)
(***************************************************************************)
EXTENDS Naturals, Sequences, SequencesExt

CONSTANTS Session,    \* database sessions
          Amount,     \* values the balance takes
          Zero,       \* its value at the start
          None,       \* no uncommitted value, no request under way
          MaxWrites,  \* bound: statements that notify
          MaxLosses,  \* bound: losses of a connection or a process
          MaxLoads    \* bound: balance requests of the client

ASSUME FeedAssumption ==
  /\ Zero \in Amount /\ None \notin Amount
  /\ MaxWrites \in Nat /\ MaxLosses \in Nat /\ MaxLoads \in Nat

VARIABLES
  balance,      \* committed account_balance row
  own,          \* per session: its uncommitted value, or None
  pend,         \* per session: payloads of its transaction, in order
  listener,     \* "up" while LISTEN is in force
  reconnected,  \* the Listener's flag: an earlier connection was up
  wire,         \* committed notifications on their way to the Listener
  joined,       \* the browser's channel process exists
  inbox,        \* its mailbox: events and sync requests
  socket,       \* frames on their way to the browser
  shown,        \* the balance in the browser's store
  fetch,        \* answer of GET /api/balances under way, or None
  raced,        \* a frame was merged since that request was answered
  upset,        \* history: which known causes of divergence occurred
  writes, losses, loads   \* counters for the bounds

db      == <<balance, own, pend, writes>>
bridge  == <<listener, reconnected, wire>>
channel == <<joined, inbox, socket>>
store   == <<shown, fetch, raced, loads>>
vars    == <<db, bridge, channel, store, upset, losses>>

Payload == [type : {"balance_changed"}, value : Amount]
Sync    == [type |-> "sync"]
Frame   == [type : {"balance_changed", "sync"}, value : Amount]

Seen(s) == IF own[s] = None THEN balance ELSE own[s]

Mark(cause) == upset' = upset \cup {cause}

----------------------------------------------------------------------------
\* The services are up and no browser has connected.  (While they boot the
\* Listener is as it is after KillListener.)
Init ==
  /\ balance = Zero
  /\ own = [s \in Session |-> None]
  /\ pend = [s \in Session |-> <<>>]
  /\ listener = "up" /\ reconnected = TRUE /\ wire = <<>>
  /\ joined = FALSE /\ inbox = <<>> /\ socket = <<>>
  /\ shown = Zero /\ fetch = None /\ raced = FALSE
  /\ upset = {}
  /\ writes = 0 /\ losses = 0 /\ loads = 0

(* Database *)

\* pg_notify of the balance: an equal payload of the same transaction is kept
\* once, at its first place.
Notify(s, v) ==
  pend' = [pend EXCEPT ![s] = IF Contains(@, v) THEN @ ELSE Append(@, v)]

\* The payload is dropped, and it is not the one that will be delivered last.
Dropped(s, v) == Contains(pend[s], v) /\ Last(pend[s]) # v

\* A statement on entries of a posted transaction, or one that takes a
\* transaction across the posted boundary; an update of an entry in place moves
\* the balance by nothing.
Change(s, v) ==
  /\ writes < MaxWrites
  /\ \A r \in Session \ {s} : own[r] = None
  /\ own' = [own EXCEPT ![s] = v]
  /\ Notify(s, v)
  /\ IF Dropped(s, v) THEN Mark("repeat") ELSE UNCHANGED upset
  /\ writes' = writes + 1
  /\ UNCHANGED <<balance, bridge, channel, store, losses>>

\* DELETE of a draft: fn_notify_entry_del finds no parent and sends the balance,
\* which it reads without having locked it.
Resend(s) ==
  /\ writes < MaxWrites
  /\ Notify(s, Seen(s))
  /\ IF Dropped(s, Seen(s)) THEN Mark("repeat")
     ELSE IF own[s] = None THEN Mark("resend") ELSE UNCHANGED upset
  /\ writes' = writes + 1
  /\ UNCHANGED <<balance, own, bridge, channel, store, losses>>

EndTransaction(s) ==
  /\ own' = [own EXCEPT ![s] = None]
  /\ pend' = [pend EXCEPT ![s] = <<>>]

InTransaction(s) == pend[s] # <<>>

Commit(s) ==
  /\ InTransaction(s)
  /\ balance' = Seen(s)
  /\ wire' = IF listener = "up" THEN wire \o pend[s] ELSE wire
  /\ EndTransaction(s)
  /\ UNCHANGED <<listener, reconnected, channel, store, upset, losses, writes>>

Rollback(s) ==
  /\ InTransaction(s)
  /\ EndTransaction(s)
  /\ UNCHANGED <<balance, writes, bridge, channel, store, upset, losses>>

(* Listener *)

Post(m) == inbox' = IF joined THEN Append(inbox, m) ELSE inbox

\* Mutant: LISTEN again, without a resync.
ConnectSilently ==
  /\ listener = "down"
  /\ listener' = "up" /\ reconnected' = TRUE
  /\ UNCHANGED <<wire, db, channel, store, upset, losses>>

\* Mutant: the DOWN handler schedules no reconnect.
ConnectOnce ==
  /\ listener = "down" /\ ~ reconnected
  /\ listener' = "up" /\ reconnected' = TRUE
  /\ IF joined THEN Mark("restart") ELSE UNCHANGED upset
  /\ UNCHANGED <<wire, db, channel, store, losses>>

\* connect/1: LISTEN, then a resync of all channels unless this Listener process
\* connects for the first time.
Connect ==
  /\ listener = "down"
  /\ listener' = "up" /\ reconnected' = TRUE
  /\ IF reconnected THEN Post(Sync) ELSE UNCHANGED inbox
  /\ IF joined /\ ~ reconnected THEN Mark("restart") ELSE UNCHANGED upset
  /\ UNCHANGED <<wire, db, joined, socket, store, losses>>

Dispatch ==
  /\ wire # <<>>
  /\ Post([type |-> "balance_changed", value |-> Head(wire)])
  /\ wire' = Tail(wire)
  /\ UNCHANGED <<listener, reconnected, db, joined, socket, store, upset, losses>>

Loss == losses < MaxLosses /\ losses' = losses + 1

\* Mutant: what the dead connection had received is still handed over.
DropConnectionKept ==
  /\ listener = "up"
  /\ Loss
  /\ listener' = "down"
  /\ UNCHANGED <<reconnected, wire, db, channel, store, upset>>

\* The notification connection dies; the Listener notices and will reconnect.
DropConnection ==
  /\ listener = "up"
  /\ Loss
  /\ listener' = "down" /\ wire' = <<>>
  /\ UNCHANGED <<reconnected, db, channel, store, upset>>

\* The Listener itself dies and its supervisor starts a new one, whose flag is
\* as init/1 sets it.
KillListener ==
  /\ Loss
  /\ listener' = "down" /\ wire' = <<>> /\ reconnected' = FALSE
  /\ UNCHANGED <<db, channel, store, upset>>

(* Channel process and socket *)

\* connect: a new socket, whose first frame asks for the topic.
OpenSocket == ~ joined /\ joined' = TRUE

\* The browser connects and joins: subscribe first, then a sync of its own.
Join ==
  /\ OpenSocket
  /\ inbox' = <<Sync>>
  /\ UNCHANGED <<socket, db, bridge, store, upset, losses>>

Handled == inbox # <<>> /\ inbox' = Tail(inbox)

PushEvent ==
  /\ Handled /\ Head(inbox) # Sync
  /\ socket' = Append(socket, Head(inbox))
  /\ UNCHANGED <<joined, db, bridge, store, upset, losses>>

\* :sync and :resync: the snapshot is read now.
PushSnapshot ==
  /\ Handled /\ Head(inbox) = Sync
  /\ socket' = Append(socket, [type |-> "sync", value |-> balance])
  /\ UNCHANGED <<joined, db, bridge, store, upset, losses>>

\* The query connection is away: the rescue pushes an empty snapshot, which
\* takes the balance out of the store (shown as zero).
PushNothing ==
  /\ Handled /\ Head(inbox) = Sync
  /\ Loss
  /\ socket' = Append(socket, [type |-> "sync", value |-> Zero])
  /\ Mark("snapshot")
  /\ UNCHANGED <<joined, db, bridge, store>>

\* The socket closes, and with it the channel process goes.
Disconnect ==
  /\ joined
  /\ Loss
  /\ joined' = FALSE /\ inbox' = <<>> /\ socket' = <<>>
  /\ UNCHANGED <<db, bridge, store, upset>>

(* Browser store *)

\* onmessage: the frames of the topic arrive one by one and go to the store.
OnMessage == socket # <<>> /\ socket' = Tail(socket)

\* applyRealtime: the frame's value replaces what the store holds.
ApplyRealtime ==
  /\ OnMessage
  /\ shown' = Head(socket).value
  /\ raced' = (fetch # None)
  /\ UNCHANGED <<fetch, loads, joined, inbox, db, bridge, upset, losses>>

\* loadAll: the server reads the balances; the answer is under way.
Load ==
  /\ fetch = None /\ loads < MaxLoads
  /\ fetch' = balance /\ raced' = FALSE
  /\ loads' = loads + 1
  /\ UNCHANGED <<shown, db, bridge, channel, upset, losses>>

\* The answer replaces the balances, whatever was merged since.
Loaded ==
  /\ fetch # None
  /\ shown' = fetch
  /\ fetch' = None /\ raced' = FALSE
  /\ IF raced THEN Mark("load") ELSE UNCHANGED upset
  /\ UNCHANGED <<loads, db, bridge, channel, losses>>

LoadFailed ==
  /\ fetch # None
  /\ fetch' = None /\ raced' = FALSE
  /\ UNCHANGED <<shown, loads, db, bridge, channel, upset, losses>>

Deliver == Connect \/ Dispatch \/ Join \/ PushEvent \/ PushSnapshot
           \/ ApplyRealtime \/ Loaded \/ LoadFailed

Next ==
  \/ \E s \in Session, v \in Amount : Change(s, v)
  \/ \E s \in Session : Resend(s) \/ Commit(s) \/ Rollback(s)
  \/ Deliver
  \/ DropConnection \/ KillListener \/ PushNothing \/ Disconnect
  \/ Load

\* Every process goes on: reconnect timers fire, mailboxes are served, a request
\* is answered or fails.
Fairness ==
  /\ WF_vars(Connect) /\ WF_vars(Dispatch) /\ WF_vars(Join)
  /\ WF_vars(PushEvent \/ PushSnapshot)
  /\ WF_vars(ApplyRealtime) /\ WF_vars(Loaded \/ LoadFailed)

Spec == Init /\ [][Next]_vars /\ Fairness

----------------------------------------------------------------------------
(* Properties *)

\* Shapes, and what cannot be: two sessions with an uncommitted balance,
\* notifications of a connection that is gone, one payload twice in a
\* transaction, frames without a channel.
TypeOK ==
  /\ balance \in Amount /\ shown \in Amount
  /\ own \in [Session -> Amount \cup {None}]
  /\ \A r, s \in Session : own[r] # None /\ own[s] # None => r = s
  /\ pend \in [Session -> Seq(Amount)] /\ \A s \in Session : IsInjective(pend[s])
  /\ listener \in {"up", "down"} /\ reconnected \in BOOLEAN
  /\ wire \in Seq(Amount) /\ (listener = "down" => wire = <<>>)
  /\ joined \in BOOLEAN
  /\ inbox \in Seq(Payload \cup {Sync}) /\ socket \in Seq(Frame)
  /\ (~ joined => inbox = <<>> /\ socket = <<>>)
  /\ fetch \in Amount \cup {None} /\ raced \in BOOLEAN
  /\ upset \subseteq {"repeat", "resend", "restart", "snapshot", "load"}

\* Everything is connected and nothing is on its way.
Quiet ==
  /\ listener = "up" /\ joined
  /\ wire = <<>> /\ inbox = <<>> /\ socket = <<>> /\ fetch = None

Agrees == shown = balance

\* Whatever changes, commits and rollbacks overlap, and however often the
\* notification connection or the browser's socket is lost: once all is quiet
\* the browser shows the committed balance, unless one of the five known causes
\* of divergence occurred.
QuietAgrees == Quiet /\ upset = {} => Agrees

\* The pipeline always drains and reconnects, so that the last value arrives.
CatchesUp == []<>Quiet

\* What docs/Harness/HARNESS.md asks of the realtime layer (M7, 3): it recovers
\* from being killed, and what was missed is made up for.
KilledListenerRecovers == Quiet /\ upset \subseteq {"restart"} => Agrees

\* What balance_notify.pgsql says of a balance sent again: it does no harm.
ResendIsHarmless == Quiet /\ upset \subseteq {"resend"} => Agrees
=============================================================================
