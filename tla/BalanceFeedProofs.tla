-------------------------- MODULE BalanceFeedProofs --------------------------
(***************************************************************************)
(* Theorems about the realtime feed, for any sessions, amounts and bounds:   *)
(* once everything has arrived the browser shows the committed balance,       *)
(* outside the five causes the model names.                                   *)
(***************************************************************************)
EXTENDS BalanceFeed, SequenceTheorems, TLAPS

(* Queues *)

\* The last element of a queue that gets one more is that one.
LEMMA LastAppend ==
  ASSUME NEW S, NEW q \in Seq(S), NEW e \in S
  PROVE  /\ Append(q, e) \in Seq(S) /\ Append(q, e) # << >>
         /\ Last(Append(q, e)) = e
  BY AppendProperties DEF Last

\* Taking the head leaves the last element, unless it was the only one.
LEMMA LastTail ==
  ASSUME NEW S, NEW q \in Seq(S), q # << >>
  PROVE  /\ Head(q) \in S /\ Tail(q) \in Seq(S) /\ Last(q) \in S
         /\ Tail(q) # << >> => Last(Tail(q)) = Last(q)
         /\ Tail(q) = << >> => Head(q) = Last(q)
<1>1. /\ Head(q) \in S /\ Tail(q) \in Seq(S) /\ Len(Tail(q)) = Len(q) - 1
      /\ \A i \in 1 .. Len(Tail(q)) : Tail(q)[i] = q[i + 1]
  BY HeadTailProperties
<1>2. Len(q) \in Nat /\ Len(q) # 0
  BY EmptySeq
<1>3. Last(q) \in S
  BY <1>2, ElementOfSeq DEF Last
<1>4. ASSUME Tail(q) # << >> PROVE Last(Tail(q)) = Last(q)
  <2>1. Len(Tail(q)) \in Nat \ {0}
    BY <1>1, <1>4, EmptySeq
  <2> QED
    BY <1>1, <1>2, <2>1 DEF Last
<1>5. ASSUME Tail(q) = << >> PROVE Head(q) = Last(q)
  <2> DEFINE m == Len(Tail(q))
             n == Len(q)
  <2>1. m = 0 /\ m = n - 1 /\ n \in Nat
    BY <1>1, <1>2, <1>5, EmptySeq
  <2>2. n = 1
    <3> HIDE DEF m, n
    <3> QED
      BY <2>1
  <2>3. Head(q) = q[1]
    OBVIOUS
  <2> QED
    BY <2>2, <2>3 DEF Last
<1> QED
  BY <1>1, <1>3, <1>4, <1>5

\* The last element of two queues in a row.
LEMMA LastConcat ==
  ASSUME NEW S, NEW p \in Seq(S), NEW q \in Seq(S), q # << >>
  PROVE  p \o q \in Seq(S) /\ p \o q # << >> /\ Last(p \o q) = Last(q)
<1>1. /\ p \o q \in Seq(S) /\ Len(p \o q) = Len(p) + Len(q)
      /\ \A i \in 1 .. Len(p) + Len(q) :
           (p \o q)[i] = IF i <= Len(p) THEN p[i] ELSE q[i - Len(p)]
  BY ConcatProperties
<1>2. Len(q) \in Nat \ {0} /\ Len(p) \in Nat
  BY EmptySeq
<1>3. p \o q # << >>
  BY <1>1, <1>2, EmptySeq
<1> QED
  BY <1>1, <1>2, <1>3 DEF Last

\* A payload that is not there yet keeps the queue free of repetitions.
LEMMA InjectiveAppend ==
  ASSUME NEW S, NEW q \in Seq(S), NEW e \in S, IsInjective(q), ~ Contains(q, e)
  PROVE  IsInjective(Append(q, e))
<1>1. /\ DOMAIN q = 1 .. Len(q) /\ Len(q) \in Nat
      /\ DOMAIN Append(q, e) = 1 .. Len(q) + 1
      /\ \A i \in 1 .. Len(q) : Append(q, e)[i] = q[i]
      /\ Append(q, e)[Len(q) + 1] = e
  <2>1. Append(q, e) \in Seq(S) /\ Len(Append(q, e)) = Len(q) + 1
    BY AppendProperties
  <2> QED
    BY <2>1, AppendProperties, LenProperties
<1>2. \A i \in 1 .. Len(q) : q[i] # e
  BY DEF Contains
<1>3. \A i \in 1 .. Len(q), j \in 1 .. Len(q) : q[i] = q[j] => i = j
  BY <1>1 DEF IsInjective
<1>4. ASSUME NEW i \in 1 .. Len(q) + 1, NEW j \in 1 .. Len(q) + 1,
             Append(q, e)[i] = Append(q, e)[j]
      PROVE  i = j
  <2>1. i \in 1 .. Len(q) \/ i = Len(q) + 1
    BY <1>1
  <2>2. j \in 1 .. Len(q) \/ j = Len(q) + 1
    BY <1>1
  <2> QED
    BY <1>1, <1>2, <1>3, <1>4, <2>1, <2>2
<1> QED
  BY <1>1, <1>4 DEF IsInjective

----------------------------------------------------------------------------
(* Types *)

Event == Payload \cup {Sync}

\* What a notification appends, and what it leaves.
LEMMA NotifyType ==
  ASSUME TypeOK, NEW s \in Session, NEW v \in Amount, Notify(s, v)
  PROVE  /\ pend' \in [Session -> Seq(Amount)]
         /\ \A r \in Session : IsInjective(pend'[r])
         /\ \A r \in Session : r # s => pend'[r] = pend[r]
         /\ pend'[s] # << >>
         /\ ~ Dropped(s, v) => Last(pend'[s]) = v
<1>1. pend \in [Session -> Seq(Amount)] /\ \A r \in Session : IsInjective(pend[r])
  BY DEF TypeOK
<1>2. CASE Contains(pend[s], v)
  <2>1. pend' = pend
    BY <1>1, <1>2 DEF Notify
  <2>2. pend[s] # << >>
    BY <1>1, <1>2, EmptySeq DEF Contains
  <2> QED
    BY <1>1, <1>2, <2>1, <2>2 DEF Dropped
<1>3. CASE ~ Contains(pend[s], v)
  <2>1. pend' = [pend EXCEPT ![s] = Append(pend[s], v)]
    BY <1>3 DEF Notify
  <2>2. IsInjective(Append(pend[s], v))
    BY <1>1, <1>3, InjectiveAppend
  <2>3. /\ Append(pend[s], v) \in Seq(Amount) /\ Append(pend[s], v) # << >>
        /\ Last(Append(pend[s], v)) = v
    BY <1>1, LastAppend
  <2> QED
    BY <1>1, <2>1, <2>2, <2>3
<1> QED
  BY <1>2, <1>3

\* The end of a transaction clears what it noted.
LEMMA EndType ==
  ASSUME TypeOK, NEW s \in Session, EndTransaction(s)
  PROVE  /\ pend' \in [Session -> Seq(Amount)]
         /\ \A r \in Session : IsInjective(pend'[r])
         /\ own' \in [Session -> Amount \cup {None}]
         /\ \A r, q \in Session : own'[r] # None /\ own'[q] # None => r = q
<1>1. /\ pend \in [Session -> Seq(Amount)] /\ \A r \in Session : IsInjective(pend[r])
      /\ own \in [Session -> Amount \cup {None}]
      /\ \A r, q \in Session : own[r] # None /\ own[q] # None => r = q
  BY DEF TypeOK
<1>2. << >> \in Seq(Amount) /\ IsInjective(<< >>)
  BY EmptySeq DEF IsInjective
<1>3. pend' = [pend EXCEPT ![s] = << >>] /\ own' = [own EXCEPT ![s] = None]
  BY DEF EndTransaction
<1>4. \A r \in Session : pend'[r] = IF r = s THEN << >> ELSE pend[r]
  BY <1>1, <1>3
<1>5. \A r \in Session : own'[r] = IF r = s THEN None ELSE own[r]
  BY <1>1, <1>3
<1> QED
  BY <1>1, <1>2, <1>3, <1>4, <1>5

\* What a session sees is an amount.
LEMMA SeenType ==
  ASSUME TypeOK, NEW s \in Session
  PROVE  Seen(s) \in Amount
  BY DEF TypeOK, Seen

\* The database's steps.
LEMMA TypeDatabase ==
  ASSUME TypeOK, NEW s \in Session,
         \/ \E v \in Amount : Change(s, v)
         \/ Resend(s) \/ Commit(s) \/ Rollback(s)
  PROVE  TypeOK'
<1>1. ASSUME NEW v \in Amount, Change(s, v) PROVE TypeOK'
  <2>1. /\ Notify(s, v) /\ own' = [own EXCEPT ![s] = v]
        /\ \A r \in Session \ {s} : own[r] = None
        /\ upset' = upset \/ upset' = upset \cup {"repeat"}
        /\ UNCHANGED <<balance, bridge, channel, store>>
    BY <1>1 DEF Change, Mark
  <2>2. /\ own' \in [Session -> Amount \cup {None}]
        /\ \A r, q \in Session : own'[r] # None /\ own'[q] # None => r = q
    BY <2>1 DEF TypeOK
  <2>3. upset' \subseteq {"repeat", "resend", "restart", "snapshot", "load"}
    BY <2>1 DEF TypeOK
  <2>4. pend' \in [Session -> Seq(Amount)] /\ \A r \in Session : IsInjective(pend'[r])
    BY <2>1, NotifyType
  <2> QED
    BY <2>1, <2>2, <2>3, <2>4 DEF TypeOK, bridge, channel, store
<1>2. CASE Resend(s)
  <2>1. /\ Notify(s, Seen(s))
        /\ upset' \in {upset, upset \cup {"repeat"}, upset \cup {"resend"}}
        /\ UNCHANGED <<balance, own, bridge, channel, store>>
    BY <1>2 DEF Resend, Mark
  <2>2. pend' \in [Session -> Seq(Amount)] /\ \A r \in Session : IsInjective(pend'[r])
    BY <2>1, SeenType, NotifyType
  <2>3. upset' \subseteq {"repeat", "resend", "restart", "snapshot", "load"}
    BY <2>1 DEF TypeOK
  <2> QED
    BY <2>1, <2>2, <2>3 DEF TypeOK, bridge, channel, store
<1>3. CASE Commit(s)
  <2>1. /\ balance' \in Amount /\ EndTransaction(s)
        /\ UNCHANGED <<listener, reconnected, channel, store, upset>>
    BY <1>3, SeenType DEF Commit
  <2>2. wire' \in Seq(Amount) /\ (listener = "down" => wire' = << >>)
    <3>1. pend[s] \in Seq(Amount) /\ wire \in Seq(Amount)
          /\ (listener = "down" => wire = << >>) /\ listener \in {"up", "down"}
      BY DEF TypeOK
    <3>2. wire \o pend[s] \in Seq(Amount)
      BY <3>1, ConcatProperties
    <3> QED
      BY <1>3, <3>1, <3>2 DEF Commit
  <2> QED
    BY <2>1, <2>2, EndType DEF TypeOK, channel, store
<1>4. CASE Rollback(s)
  <2>1. EndTransaction(s) /\ UNCHANGED <<balance, bridge, channel, store, upset>>
    BY <1>4 DEF Rollback
  <2> QED
    BY <2>1, EndType DEF TypeOK, bridge, channel, store
<1> QED
  BY <1>1, <1>2, <1>3, <1>4

\* A message posted to the channel.
LEMMA PostType ==
  ASSUME TypeOK, NEW e \in Event, Post(e)
  PROVE  /\ inbox' \in Seq(Event) /\ (~ joined => inbox' = << >>)
         /\ joined => inbox' # << >> /\ Last(inbox') = e
<1>1. inbox \in Seq(Event) /\ (~ joined => inbox = << >>)
  BY DEF TypeOK, Event
<1>2. Append(inbox, e) \in Seq(Event) /\ Append(inbox, e) # << >> /\ Last(Append(inbox, e)) = e
  BY <1>1, LastAppend
<1> QED
  BY <1>1, <1>2 DEF Post

\* The mailbox loses its head, and the socket gets a frame.
LEMMA HandleType ==
  ASSUME TypeOK, Handled, NEW e \in Frame, socket' = Append(socket, e)
  PROVE  /\ inbox' \in Seq(Event) /\ socket' \in Seq(Frame) /\ joined /\ socket' # << >>
         /\ Last(socket') = e
         /\ Head(inbox) \in Event
         /\ inbox' # << >> => Last(inbox') = Last(inbox)
         /\ inbox' = << >> => Head(inbox) = Last(inbox)
<1>1. inbox \in Seq(Event) /\ socket \in Seq(Frame) /\ (~ joined => inbox = << >>)
      /\ joined \in BOOLEAN
  BY DEF TypeOK, Event
<1>2. Append(socket, e) \in Seq(Frame) /\ Append(socket, e) # << >> /\ Last(Append(socket, e)) = e
  BY <1>1, LastAppend
<1>3. inbox # << >> /\ inbox' = Tail(inbox)
  BY DEF Handled
<1>4. /\ Head(inbox) \in Event /\ Tail(inbox) \in Seq(Event)
      /\ Tail(inbox) # << >> => Last(Tail(inbox)) = Last(inbox)
      /\ Tail(inbox) = << >> => Head(inbox) = Last(inbox)
  BY <1>1, <1>3, LastTail
<1> QED
  BY <1>1, <1>2, <1>3, <1>4

\* The Listener's steps.
LEMMA TypeListener ==
  ASSUME TypeOK, Connect \/ Dispatch \/ DropConnection \/ KillListener
  PROVE  TypeOK'
<1>1. CASE Connect
  <2>1. /\ listener' = "up" /\ reconnected' = TRUE
        /\ Post(Sync) \/ UNCHANGED inbox
        /\ upset' \in {upset, upset \cup {"restart"}}
        /\ UNCHANGED <<wire, db, joined, socket, store>>
    BY <1>1 DEF Connect, Mark
  <2>2. inbox' \in Seq(Event) /\ (~ joined => inbox' = << >>)
    BY <2>1, PostType DEF TypeOK, Event
  <2>3. upset' \subseteq {"repeat", "resend", "restart", "snapshot", "load"}
    BY <2>1 DEF TypeOK
  <2> QED
    BY <2>1, <2>2, <2>3 DEF TypeOK, db, store, Event
<1>2. CASE Dispatch
  <2>1. /\ wire # << >> /\ wire' = Tail(wire)
        /\ Post([type |-> "balance_changed", value |-> Head(wire)])
        /\ UNCHANGED <<listener, reconnected, db, joined, socket, store, upset>>
    BY <1>2 DEF Dispatch
  <2>2. Head(wire) \in Amount /\ Tail(wire) \in Seq(Amount) /\ (listener = "down" => wire = << >>)
    BY <2>1, LastTail DEF TypeOK
  <2>3. [type |-> "balance_changed", value |-> Head(wire)] \in Event
    BY <2>2 DEF Event, Payload
  <2>4. inbox' \in Seq(Event) /\ (~ joined => inbox' = << >>)
    BY <2>1, <2>3, PostType
  <2> QED
    BY <2>1, <2>2, <2>4 DEF TypeOK, db, store, Event
<1>3. CASE DropConnection \/ KillListener
  <2>1. /\ listener' = "down" /\ wire' = << >> /\ reconnected' \in {reconnected, FALSE}
        /\ UNCHANGED <<db, channel, store, upset>>
    BY <1>3 DEF DropConnection, KillListener
  <2>2. << >> \in Seq(Amount)
    BY EmptySeq
  <2> QED
    BY <2>1, <2>2 DEF TypeOK, db, channel, store
<1> QED
  BY <1>1, <1>2, <1>3

\* What the channel pushes.
LEMMA FrameType ==
  ASSUME TypeOK
  PROVE  /\ [type |-> "sync", value |-> balance] \in Frame
         /\ [type |-> "sync", value |-> Zero] \in Frame
         /\ \A e \in Event : e # Sync => e \in Frame /\ e.value \in Amount
  BY FeedAssumption DEF TypeOK, Frame, Event, Payload

\* The channel's steps.
LEMMA TypeChannel ==
  ASSUME TypeOK, Join \/ PushEvent \/ PushSnapshot \/ PushNothing \/ Disconnect
  PROVE  TypeOK'
<1>1. CASE Join
  <2>1. /\ ~ joined /\ joined' = TRUE /\ inbox' = <<Sync>>
        /\ UNCHANGED <<socket, db, bridge, store, upset>>
    BY <1>1 DEF Join, OpenSocket
  <2>2. <<Sync>> \in Seq(Event)
    BY DEF Event
  <2> QED
    BY <2>1, <2>2 DEF TypeOK, db, bridge, store, Event
<1>2. CASE PushEvent
  <2>1. /\ Handled /\ Head(inbox) # Sync /\ socket' = Append(socket, Head(inbox))
        /\ UNCHANGED <<joined, db, bridge, store, upset>>
    BY <1>2 DEF PushEvent
  <2>2. Head(inbox) \in Event
    <3>1. inbox \in Seq(Event) /\ inbox # << >>
      BY <2>1 DEF TypeOK, Event, Handled
    <3> QED
      BY <3>1, LastTail
  <2>3. Head(inbox) \in Frame
    BY <2>1, <2>2, FrameType
  <2>4. inbox' \in Seq(Event) /\ socket' \in Seq(Frame) /\ joined
    BY <2>1, <2>3, HandleType
  <2> QED
    BY <2>1, <2>4 DEF TypeOK, db, bridge, store, Event
<1>3. CASE PushSnapshot \/ PushNothing
  <2>1. PICK v \in {balance, Zero} :
          /\ Handled /\ socket' = Append(socket, [type |-> "sync", value |-> v])
          /\ upset' \in {upset, upset \cup {"snapshot"}}
          /\ UNCHANGED <<joined, db, bridge, store>>
    BY <1>3 DEF PushSnapshot, PushNothing, Mark
  <2>2. inbox' \in Seq(Event) /\ socket' \in Seq(Frame) /\ joined
    BY <2>1, FrameType, HandleType
  <2>3. upset' \subseteq {"repeat", "resend", "restart", "snapshot", "load"}
    BY <2>1 DEF TypeOK
  <2> QED
    BY <2>1, <2>2, <2>3 DEF TypeOK, db, bridge, store, Event
<1>4. CASE Disconnect
  <2>1. /\ joined' = FALSE /\ inbox' = << >> /\ socket' = << >>
        /\ UNCHANGED <<db, bridge, store, upset>>
    BY <1>4 DEF Disconnect
  <2>2. << >> \in Seq(Event) /\ << >> \in Seq(Frame)
    BY EmptySeq
  <2> QED
    BY <2>1, <2>2 DEF TypeOK, db, bridge, store, Event
<1> QED
  BY <1>1, <1>2, <1>3, <1>4

\* The browser's steps.
LEMMA TypeStore ==
  ASSUME TypeOK, ApplyRealtime \/ Load \/ Loaded \/ LoadFailed
  PROVE  TypeOK'
<1>1. CASE ApplyRealtime
  <2>1. /\ socket # << >> /\ socket' = Tail(socket) /\ shown' = Head(socket).value
        /\ raced' \in BOOLEAN
        /\ UNCHANGED <<fetch, joined, inbox, db, bridge, upset>>
    BY <1>1 DEF ApplyRealtime, OnMessage
  <2>2. Head(socket) \in Frame /\ Tail(socket) \in Seq(Frame) /\ (~ joined => socket = << >>)
    BY <2>1, LastTail DEF TypeOK
  <2>3. shown' \in Amount
    BY <2>1, <2>2 DEF Frame
  <2> QED
    BY <2>1, <2>2, <2>3 DEF TypeOK, db, bridge
<1>2. CASE Load
  BY <1>2 DEF Load, TypeOK, db, bridge, channel
<1>3. CASE Loaded
  <2>1. /\ shown' = fetch /\ fetch # None /\ fetch' = None /\ raced' = FALSE
        /\ upset' \in {upset, upset \cup {"load"}}
        /\ UNCHANGED <<db, bridge, channel>>
    BY <1>3 DEF Loaded, Mark
  <2>2. upset' \subseteq {"repeat", "resend", "restart", "snapshot", "load"}
    BY <2>1 DEF TypeOK
  <2> QED
    BY <2>1, <2>2 DEF TypeOK, db, bridge, channel
<1>4. CASE LoadFailed
  BY <1>4 DEF LoadFailed, TypeOK, db, bridge, channel
<1> QED
  BY <1>1, <1>2, <1>3, <1>4

\* Every step keeps the types.
LEMMA TypeNext == TypeOK /\ [Next]_vars => TypeOK'
<1> SUFFICES ASSUME TypeOK, [Next]_vars PROVE TypeOK'
  OBVIOUS
<1>1. CASE UNCHANGED vars
  BY <1>1 DEF vars, db, bridge, channel, store, TypeOK
<1>2. CASE Next
  BY <1>2, TypeDatabase, TypeListener, TypeChannel, TypeStore DEF Next, Deliver
<1> QED
  BY <1>1, <1>2

\* The services start in order.
LEMMA TypeInit == Init => TypeOK
<1> SUFFICES ASSUME Init PROVE TypeOK
  OBVIOUS
<1>1. << >> \in Seq(Amount) /\ << >> \in Seq(Payload \cup {Sync}) /\ << >> \in Seq(Frame)
      /\ IsInjective(<< >>)
  BY EmptySeq DEF IsInjective
<1> QED
  BY <1>1, FeedAssumption DEF Init, TypeOK

\* Queues, values and flags keep their types; no transaction notes a payload twice, a dead
\* connection carries nothing, and no frame is without a channel.
THEOREM FeedTypeCorrect == Spec => []TypeOK
  BY TypeInit, TypeNext, PTL DEF Spec

----------------------------------------------------------------------------
(* The last value arrives *)

Linked == listener = "up" /\ joined

\* A transaction that noted something holds a value, and noted that one last.
LastNoted == \A s \in Session :
               /\ pend[s] # << >> <=> own[s] # None
               /\ pend[s] # << >> => Last(pend[s]) = own[s]

\* What was committed last is the last on the wire.
WireEnds == wire # << >> => Last(wire) = balance

\* With nothing on the wire, the mailbox ends with the balance or with the
\* request to read it.
InboxEnds == Linked /\ wire = << >> /\ inbox # << >>
               => Last(inbox) = Sync \/ Last(inbox).value = balance

\* With nothing in the mailbox either, the last frame carries the balance.
SocketEnds == Linked /\ wire = << >> /\ inbox = << >> /\ socket # << >>
                => Last(socket).value = balance

\* With nothing on its way at all, the browser shows it, and an answer that no
\* frame overtook holds it too.
StoreEnds == Linked /\ wire = << >> /\ inbox = << >> /\ socket = << >>
               => /\ shown = balance
                  /\ fetch # None /\ ~ raced => fetch = balance

\* All of it as long as none of the five causes occurred.
Flow == LastNoted /\ WireEnds /\ InboxEnds /\ SocketEnds /\ StoreEnds

FlowInv == TypeOK /\ (upset = {} => Flow)

\* A cause that occurred is never forgotten.
LEMMA CausesStay ==
  ASSUME [Next]_vars, upset' = {}
  PROVE  upset = {}
<1>1. CASE UNCHANGED vars
  BY <1>1 DEF vars
<1>2. ASSUME NEW s \in Session,
             \/ \E v \in Amount : Change(s, v)
             \/ Resend(s) \/ Commit(s) \/ Rollback(s)
      PROVE  upset = {}
  BY <1>2 DEF Change, Resend, Commit, Rollback, Mark
<1>3. CASE Deliver
  BY <1>3 DEF Deliver, Connect, Dispatch, Join, PushEvent, PushSnapshot, ApplyRealtime,
              Loaded, LoadFailed, Mark
<1>4. CASE DropConnection \/ KillListener \/ PushNothing \/ Disconnect \/ Load
  BY <1>4 DEF DropConnection, KillListener, PushNothing, Disconnect, Load, Mark
<1> QED
  BY <1>1, <1>2, <1>3, <1>4 DEF Next

\* Noting the value one holds, or takes, leaves it the last one noted.
LEMMA NotedLast ==
  ASSUME TypeOK, LastNoted, NEW s \in Session, NEW v \in Amount,
         Notify(s, v), ~ Dropped(s, v), own' = [own EXCEPT ![s] = v]
  PROVE  LastNoted'
<1>1. /\ \A r \in Session : r # s => pend'[r] = pend[r]
      /\ pend'[s] # << >> /\ Last(pend'[s]) = v
  BY NotifyType
<1>2. own'[s] = v /\ v # None /\ \A r \in Session : r # s => own'[r] = own[r]
  BY FeedAssumption DEF TypeOK
<1> QED
  BY <1>1, <1>2 DEF LastNoted

\* An ended transaction noted nothing and holds nothing.
LEMMA EndedLast ==
  ASSUME TypeOK, LastNoted, NEW s \in Session, EndTransaction(s)
  PROVE  LastNoted'
<1>1. \A r \in Session : pend'[r] = IF r = s THEN << >> ELSE pend[r]
  BY DEF TypeOK, EndTransaction
<1>2. \A r \in Session : own'[r] = IF r = s THEN None ELSE own[r]
  BY DEF TypeOK, EndTransaction
<1> QED
  BY <1>1, <1>2 DEF LastNoted

\* The database's steps.
LEMMA FlowDatabase ==
  ASSUME TypeOK, Flow, upset = {}, upset' = {}, NEW s \in Session,
         \/ \E v \in Amount : Change(s, v)
         \/ Resend(s) \/ Commit(s) \/ Rollback(s)
  PROVE  Flow'
<1>1. ASSUME NEW v \in Amount, Change(s, v) PROVE Flow'
  <2>1. /\ Notify(s, v) /\ own' = [own EXCEPT ![s] = v] /\ ~ Dropped(s, v)
        /\ UNCHANGED <<balance, bridge, channel, store>>
    BY <1>1 DEF Change, Mark
  <2>2. LastNoted'
    BY <2>1, NotedLast DEF Flow
  <2> QED
    BY <2>1, <2>2 DEF Flow, WireEnds, InboxEnds, SocketEnds, StoreEnds, Linked, bridge,
                      channel, store
<1>2. CASE Resend(s)
  <2>1. /\ Notify(s, Seen(s)) /\ own' = own /\ ~ Dropped(s, Seen(s)) /\ own[s] # None
        /\ UNCHANGED <<balance, bridge, channel, store>>
    BY <1>2 DEF Resend, Mark
  <2>2. own' = [own EXCEPT ![s] = Seen(s)] /\ Seen(s) \in Amount
    BY <2>1, SeenType DEF TypeOK, Seen
  <2>3. LastNoted'
    BY <2>1, <2>2, NotedLast DEF Flow
  <2> QED
    BY <2>1, <2>3 DEF Flow, WireEnds, InboxEnds, SocketEnds, StoreEnds, Linked, bridge,
                      channel, store
<1>3. CASE Commit(s)
  <2>1. /\ pend[s] # << >> /\ EndTransaction(s) /\ balance' = Seen(s)
        /\ wire' = IF listener = "up" THEN wire \o pend[s] ELSE wire
        /\ UNCHANGED <<listener, channel, store>>
    BY <1>3 DEF Commit, InTransaction
  <2>2. LastNoted'
    BY <2>1, EndedLast DEF Flow
  <2>3. balance' = own[s] /\ Last(pend[s]) = own[s]
    BY <2>1 DEF Flow, LastNoted, Seen
  <2>4. CASE listener = "up"
    <3>1. wire \in Seq(Amount) /\ pend[s] \in Seq(Amount)
      BY DEF TypeOK
    <3>2. wire' # << >> /\ Last(wire') = balance'
      BY <2>1, <2>3, <2>4, <3>1, LastConcat
    <3> QED
      BY <2>2, <3>2 DEF Flow, WireEnds, InboxEnds, SocketEnds, StoreEnds
  <2>5. CASE listener # "up"
    <3>1. wire' = << >> /\ listener' # "up"
      BY <2>1, <2>5 DEF TypeOK
    <3> QED
      BY <2>2, <3>1 DEF Flow, WireEnds, InboxEnds, SocketEnds, StoreEnds, Linked
  <2> QED
    BY <2>4, <2>5
<1>4. CASE Rollback(s)
  <2>1. EndTransaction(s) /\ UNCHANGED <<balance, bridge, channel, store>>
    BY <1>4 DEF Rollback
  <2>2. LastNoted'
    BY <2>1, EndedLast DEF Flow
  <2> QED
    BY <2>1, <2>2 DEF Flow, WireEnds, InboxEnds, SocketEnds, StoreEnds, Linked, bridge,
                      channel, store
<1> QED
  BY <1>1, <1>2, <1>3, <1>4

\* The Listener's steps.
LEMMA FlowListener ==
  ASSUME TypeOK, Flow, upset = {}, upset' = {},
         Connect \/ Dispatch \/ DropConnection \/ KillListener
  PROVE  Flow'
<1>1. CASE Connect
  <2>1. /\ wire = << >> /\ listener = "down"
        /\ UNCHANGED <<wire, db, joined, socket, store>>
    BY <1>1 DEF Connect, TypeOK
  <2>2. LastNoted' /\ WireEnds'
    BY <2>1 DEF Flow, LastNoted, WireEnds, db
  <2>3. CASE joined
    <3>1. reconnected
      BY <1>1, <2>3 DEF Connect, Mark
    <3>2. Post(Sync)
      BY <1>1, <3>1 DEF Connect
    <3>3. inbox' # << >> /\ Last(inbox') = Sync
      BY <2>3, <3>2, PostType DEF Event
    <3> QED
      BY <2>2, <3>3 DEF Flow, InboxEnds, SocketEnds, StoreEnds
  <2>4. CASE ~ joined
    BY <2>1, <2>2, <2>4 DEF Flow, InboxEnds, SocketEnds, StoreEnds, Linked
  <2> QED
    BY <2>3, <2>4
<1>2. CASE Dispatch
  <2> DEFINE e == [type |-> "balance_changed", value |-> Head(wire)]
  <2>1. /\ wire # << >> /\ wire' = Tail(wire) /\ Post(e)
        /\ UNCHANGED <<listener, db, joined, socket, store>>
    BY <1>2 DEF Dispatch
  <2>2. /\ Head(wire) \in Amount
        /\ wire' # << >> => Last(wire') = Last(wire)
        /\ wire' = << >> => Head(wire) = Last(wire)
    BY <2>1, LastTail DEF TypeOK
  <2>3. e \in Event /\ e.value = Head(wire)
    BY <2>2 DEF Event, Payload
  <2>4. Last(wire) = balance /\ balance' = balance
    BY <2>1 DEF Flow, WireEnds, db
  <2> HIDE DEF e
  <2>5. joined => inbox' # << >> /\ Last(inbox') = e
    BY <2>1, <2>3, PostType
  <2>6. LastNoted'
    BY <2>1 DEF Flow, LastNoted, db
  <2>7. WireEnds'
    BY <2>2, <2>4 DEF WireEnds
  <2>8. InboxEnds'
    BY <2>1, <2>2, <2>3, <2>4, <2>5 DEF InboxEnds, Linked
  <2>9. SocketEnds' /\ StoreEnds'
    BY <2>1, <2>5 DEF SocketEnds, StoreEnds, Linked
  <2> QED
    BY <2>6, <2>7, <2>8, <2>9 DEF Flow
<1>3. CASE DropConnection \/ KillListener
  <2>1. listener' = "down" /\ wire' = << >> /\ UNCHANGED <<db, channel, store>>
    BY <1>3 DEF DropConnection, KillListener
  <2>2. LastNoted'
    BY <2>1 DEF Flow, LastNoted, db
  <2> QED
    BY <2>1, <2>2 DEF Flow, WireEnds, InboxEnds, SocketEnds, StoreEnds, Linked
<1> QED
  BY <1>1, <1>2, <1>3

\* The channel's steps.
LEMMA FlowChannel ==
  ASSUME TypeOK, Flow, upset = {}, upset' = {},
         Join \/ PushEvent \/ PushSnapshot \/ PushNothing \/ Disconnect
  PROVE  Flow'
<1>1. UNCHANGED <<db, bridge, store>>
  BY DEF Join, PushEvent, PushSnapshot, PushNothing, Disconnect
<1>2. LastNoted' /\ WireEnds'
  BY <1>1 DEF Flow, LastNoted, WireEnds, db, bridge
<1>3. CASE Join
  <2>1. inbox' = <<Sync>>
    BY <1>3 DEF Join
  <2>2. inbox' # << >> /\ Last(inbox') = Sync
    BY <2>1 DEF Last
  <2> QED
    BY <1>2, <2>2 DEF Flow, InboxEnds, SocketEnds, StoreEnds
<1>4. ASSUME NEW e \in Frame, Handled, socket' = Append(socket, e), UNCHANGED joined,
             Head(inbox) = Sync => e.value = balance,
             Head(inbox) # Sync => e = Head(inbox)
      PROVE  Flow'
  <2>1. /\ inbox # << >>
        /\ socket' # << >> /\ Last(socket') = e
        /\ inbox' # << >> => Last(inbox') = Last(inbox)
        /\ inbox' = << >> => Head(inbox) = Last(inbox)
    BY <1>4, HandleType DEF Handled
  <2>2. Linked' <=> Linked
    BY <1>1, <1>4 DEF Linked, bridge
  <2>3. wire' = wire /\ balance' = balance
    BY <1>1 DEF bridge, db
  <2>4. Linked /\ wire = << >> => Last(inbox) = Sync \/ Last(inbox).value = balance
    BY <2>1 DEF Flow, InboxEnds
  <2>5. InboxEnds'
    BY <2>1, <2>2, <2>3, <2>4 DEF InboxEnds
  <2>6. SocketEnds'
    BY <1>4, <2>1, <2>2, <2>3, <2>4 DEF SocketEnds
  <2>7. StoreEnds'
    BY <2>1 DEF StoreEnds
  <2> QED
    BY <1>2, <2>5, <2>6, <2>7 DEF Flow
<1>5. CASE PushEvent
  <2>1. /\ Handled /\ Head(inbox) # Sync /\ socket' = Append(socket, Head(inbox))
        /\ UNCHANGED joined
    BY <1>5 DEF PushEvent
  <2>2. Head(inbox) \in Frame
    <3>1. inbox \in Seq(Event) /\ inbox # << >>
      BY <2>1 DEF TypeOK, Event, Handled
    <3>2. Head(inbox) \in Event
      BY <3>1, LastTail
    <3> QED
      BY <2>1, <3>2, FrameType
  <2> QED
    BY <1>4, <2>1, <2>2
<1>6. CASE PushSnapshot
  <2> DEFINE e == [type |-> "sync", value |-> balance]
  <2>1. /\ Handled /\ Head(inbox) = Sync /\ socket' = Append(socket, e)
        /\ UNCHANGED joined
    BY <1>6 DEF PushSnapshot
  <2>2. e \in Frame /\ e.value = balance
    BY FrameType
  <2> HIDE DEF e
  <2> QED
    BY <1>4, <2>1, <2>2
<1>7. CASE PushNothing
  BY <1>7 DEF PushNothing, Mark
<1>8. CASE Disconnect
  <2>1. joined' = FALSE
    BY <1>8 DEF Disconnect
  <2> QED
    BY <1>2, <2>1 DEF Flow, InboxEnds, SocketEnds, StoreEnds, Linked
<1> QED
  BY <1>3, <1>5, <1>6, <1>7, <1>8

\* The browser's steps.
LEMMA FlowStore ==
  ASSUME TypeOK, Flow, upset = {}, upset' = {},
         ApplyRealtime \/ Load \/ Loaded \/ LoadFailed
  PROVE  Flow'
<1>1. UNCHANGED <<db, bridge, joined, inbox>>
  BY DEF ApplyRealtime, Load, Loaded, LoadFailed, channel
<1>2. LastNoted' /\ WireEnds' /\ InboxEnds'
  BY <1>1 DEF Flow, LastNoted, WireEnds, InboxEnds, Linked, db, bridge
<1>3. (Linked' <=> Linked) /\ wire' = wire /\ inbox' = inbox /\ balance' = balance
  BY <1>1 DEF Linked, bridge, db
<1>4. CASE ApplyRealtime
  <2>1. /\ socket # << >> /\ socket' = Tail(socket) /\ shown' = Head(socket).value
        /\ fetch' = fetch /\ raced' = (fetch # None)
    BY <1>4 DEF ApplyRealtime, OnMessage
  <2>2. /\ socket' # << >> => Last(socket') = Last(socket)
        /\ socket' = << >> => Head(socket) = Last(socket)
    BY <2>1, LastTail DEF TypeOK
  <2>3. Linked /\ wire = << >> /\ inbox = << >> => Last(socket).value = balance
    BY <2>1 DEF Flow, SocketEnds
  <2>4. SocketEnds'
    BY <1>3, <2>2, <2>3 DEF SocketEnds
  <2>5. StoreEnds'
    BY <1>3, <2>1, <2>2, <2>3 DEF StoreEnds
  <2> QED
    BY <1>2, <2>4, <2>5 DEF Flow
<1>5. ASSUME UNCHANGED socket,
             \/ shown' = shown /\ fetch' \in {None, balance}
             \/ shown' = fetch /\ fetch # None /\ ~ raced /\ fetch' = None
      PROVE  Flow'
  <2>1. SocketEnds'
    BY <1>3, <1>5 DEF Flow, SocketEnds
  <2>2. StoreEnds'
    BY <1>3, <1>5 DEF Flow, StoreEnds
  <2> QED
    BY <1>2, <2>1, <2>2 DEF Flow
<1>6. CASE Load
  BY <1>5, <1>6 DEF Load, channel
<1>7. CASE Loaded
  BY <1>5, <1>7 DEF Loaded, Mark, channel
<1>8. CASE LoadFailed
  BY <1>5, <1>8 DEF LoadFailed, channel
<1> QED
  BY <1>4, <1>6, <1>7, <1>8

\* Every step keeps the invariant.
LEMMA FlowNext == FlowInv /\ [Next]_vars => FlowInv'
<1> SUFFICES ASSUME FlowInv, [Next]_vars, upset' = {} PROVE Flow'
  BY TypeNext DEF FlowInv
<1>1. upset = {} /\ TypeOK /\ Flow
  BY CausesStay DEF FlowInv
<1>2. CASE UNCHANGED vars
  BY <1>1, <1>2 DEF vars, db, bridge, channel, store, Flow, LastNoted, WireEnds, InboxEnds,
                    SocketEnds, StoreEnds, Linked
<1>3. CASE Next
  BY <1>1, <1>3, FlowDatabase, FlowListener, FlowChannel, FlowStore DEF Next, Deliver
<1> QED
  BY <1>2, <1>3

\* It holds at the start, when nothing is joined or noted.
LEMMA FlowInit == Init => FlowInv
<1> SUFFICES ASSUME Init PROVE Flow
  BY TypeInit DEF FlowInv
<1> QED
  BY DEF Init, Flow, LastNoted, WireEnds, InboxEnds, SocketEnds, StoreEnds, Linked

\* Once all is quiet the browser shows the committed balance, whatever
\* transactions overlapped and however often a connection or the socket was lost,
\* unless one of the five named causes occurred.
THEOREM QuietAgreesHolds == Spec => []QuietAgrees
<1>1. FlowInv => QuietAgrees
  BY DEF FlowInv, Flow, StoreEnds, Linked, Quiet, QuietAgrees, Agrees
<1> QED
  BY <1>1, FlowInit, FlowNext, PTL DEF Spec
=============================================================================
