------------------------- MODULE MqttSessionProofs --------------------------
(***************************************************************************)
(* The safety of the MQTT session for any number of changes, lost          *)
(* connections and crashes.  A retained "1" means that the subscription    *)
(* has gone out because it is the first request of every queue (LinkInv);  *)
(* a change that was hinted at is not forgotten because it is at the       *)
(* broker, in the queue, or still to be published (DueInv).                *)
(***************************************************************************)
EXTENDS MqttSession, SequenceTheorems, TLAPS

\* The delay starts at its base and, doubled and capped, stays in bounds.
LEMMA DelayBounds ==
  /\ ReconnectBase \in ReconnectBase .. ReconnectMax
  /\ \A b \in ReconnectBase .. ReconnectMax :
       (IF 2 * b < ReconnectMax THEN 2 * b ELSE ReconnectMax) \in ReconnectBase .. ReconnectMax
  <1>1. ReconnectBase \in Nat /\ ReconnectMax \in Nat /\ ReconnectBase =< ReconnectMax
    BY DEF ReconnectBase, ReconnectMax
  <1> QED
    BY <1>1

\* A request is of one of these kinds, and a status says its version.
LEMMA RequestKinds ==
  ASSUME TypeOK
  PROVE  /\ Online \in Requests /\ Offline \in Requests /\ Status \in Requests
         /\ [kind |-> "subscribe"] \in Requests
         /\ \A r \in Requests : r.kind = "status" => r.version \in 0 .. MaxChanges
  <1>1. version \in 0 .. MaxChanges
    BY BoundsAssumption DEF TypeOK
  <1>2. Status \in [kind : {"status"}, version : 0 .. MaxChanges]
    BY <1>1 DEF Status
  <1> QED
    BY <1>2 DEF Requests, Online, Offline

\* What Publish puts into the queue: perhaps a status, and a "1".
LEMMA PublishQueue ==
  ASSUME TypeOK, NEW force, Publish(force)
  PROVE  \E new \in {<<Status, Online>>, <<Online>>} :
           /\ queue' = queue \o new /\ queue' \in Seq(Requests)
           /\ force \/ lastPayload # {version} => new = <<Status, Online>>
  <1>1. <<Status, Online>> \in Seq(Requests) /\ <<Online>> \in Seq(Requests)
    BY RequestKinds
  <1>2. queue \in Seq(Requests)
    BY DEF TypeOK
  <1> QED
    BY <1>1, <1>2 DEF Publish

\* Every variable keeps its type; the delay its bounds.
THEOREM TypeCorrect == Spec => []TypeOK
  <1>1. Init => TypeOK
    <2> SUFFICES ASSUME Init PROVE TypeOK
      OBVIOUS
    <2>1. 0 \in 0 .. MaxChanges /\ 0 \in 0 .. MaxFaults /\ 0 \in 0 .. 0
      BY BoundsAssumption
    <2>2. queue \in Seq(Requests) /\ backoff \in ReconnectBase .. ReconnectMax
      BY DelayBounds DEF Init
    <2>3. version \in 0 .. MaxChanges /\ due \in 0 .. version /\ seen \in 0 .. MaxChanges
          /\ faults \in 0 .. MaxFaults
      BY <2>1 DEF Init
    <2> QED
      BY <2>2, <2>3 DEF Init, TypeOK
  <1>2. TypeOK /\ [Next]_vars => TypeOK'
    <2> SUFFICES ASSUME TypeOK, [Next]_vars PROVE TypeOK'
      OBVIOUS
    <2> USE DEF content, local, broker
    <2>0. /\ MaxChanges \in Nat /\ MaxFaults \in Nat
          /\ version \in 0 .. MaxChanges /\ due \in 0 .. version /\ faults \in 0 .. MaxFaults
          /\ queue \in Seq(Requests)
      BY BoundsAssumption DEF TypeOK
    <2>1. CASE \E hinted \in BOOLEAN : Change(hinted)
      <3>1. PICK hinted \in BOOLEAN : Change(hinted)
        BY <2>1
      <3>2. version' \in 0 .. MaxChanges /\ due' \in 0 .. version' /\ statusPermit' \in BOOLEAN
        BY <2>0, <3>1 DEF Change, TypeOK
      <3> QED
        BY <3>1, <3>2 DEF Change, TypeOK
    <2>2. CASE Command
      <3>1. version' \in 0 .. MaxChanges /\ due' \in 0 .. version'
        BY <2>0, <2>2 DEF Command
      <3> QED
        BY <2>2, <3>1 DEF Command, TypeOK
    <2>3. CASE Signal \/ StopBetweenSessions
      <3>1. CASE Signal
        BY <3>1 DEF Signal, TypeOK
      <3>2. CASE StopBetweenSessions
        BY <3>2 DEF StopBetweenSessions, TypeOK
      <3> QED
        BY <2>3, <3>1, <3>2
    <2>4. CASE StartSession
      <3>1. queue' \in Seq(Requests) /\ lastPayload' = {}
        BY <2>4 DEF StartSession
      <3> QED
        BY <2>4, <3>1 DEF StartSession, TypeOK
    <2>5. CASE EndSession
      <3>1. backoff' \in ReconnectBase .. ReconnectMax
        BY <2>5, DelayBounds DEF EndSession, TypeOK
      <3> QED
        BY <2>5, <3>1 DEF EndSession, TypeOK
    <2>6. CASE Reconnect
      <3>1. backoff' \in ReconnectBase .. ReconnectMax
        BY <2>6, DelayBounds DEF Reconnect, TypeOK
      <3> QED
        BY <2>6, <3>1 DEF Reconnect, TypeOK
    <2>7. CASE ShutDown
      <3>1. queue' \in Seq(Requests)
        BY <2>0, <2>7, RequestKinds DEF ShutDown
      <3> QED
        BY <2>7, <3>1 DEF ShutDown, TypeOK
    <2>8. CASE ConnAck
      <3>1. queue' \in Seq(Requests)
        BY <2>0, <2>8, RequestKinds DEF ConnAck
      <3> QED
        BY <2>8, <3>1 DEF ConnAck, Bury, LastWill, TypeOK
    <2>9. CASE PublishForced \/ PublishCoalesced \/ Heartbeat
      <3>1. \/ \E force \in BOOLEAN : Publish(force)
            \/ UNCHANGED <<queue, lastPayload>>
        BY <2>9 DEF PublishForced, PublishCoalesced, Heartbeat
      <3>2. queue' \in Seq(Requests)
        BY <2>0, <3>1, PublishQueue
      <3>3. lastPayload' \in {{}} \cup {{v} : v \in 0 .. MaxChanges}
        BY <2>0, <3>1 DEF Publish, TypeOK
      <3>4. task' \in {"select", task} /\ UNCHANGED <<content, statusPermit, shutdown, backoff, connected, healthy,
                                link, broker, faults>>
        BY <2>9 DEF PublishForced, PublishCoalesced, Heartbeat
      <3> QED
        BY <3>2, <3>3, <3>4 DEF TypeOK
    <2>10. CASE Transmit
      <3>1. Head(queue) \in Requests /\ queue' \in Seq(Requests)
        BY <2>0, <2>10, HeadTailProperties DEF Transmit
      <3>2. seen' \in 0 .. MaxChanges
        BY <2>10, <3>1, RequestKinds DEF Transmit, TypeOK
      <3>3. retained' \in {{}, {"0"}, {"1"}} /\ subscribed' \in BOOLEAN
        BY <2>10 DEF Transmit, TypeOK
      <3> QED
        BY <2>10, <3>1, <3>2, <3>3 DEF Transmit, TypeOK
    <2>11. CASE TakePermit
      BY <2>11 DEF TakePermit, TypeOK
    <2>12. CASE LoseConnection
      BY <2>0, <2>12 DEF LoseConnection, Fault, TypeOK
    <2>13. CASE BrokerNotices
      BY <2>13 DEF BrokerNotices, Bury, LastWill, TypeOK
    <2>14. CASE Crash
      <3>1. queue' \in Seq(Requests) /\ lastPayload' = {} /\ backoff' \in ReconnectBase .. ReconnectMax
        BY <2>14, DelayBounds DEF Crash
      <3>2. faults' \in 0 .. MaxFaults
        BY <2>0, <2>14 DEF Crash, Fault
      <3> QED
        BY <2>14, <3>1, <3>2 DEF Crash, TypeOK
    <2>15. CASE Restart
      BY <2>15 DEF Restart, TypeOK
    <2>16. CASE UNCHANGED vars
      BY <2>16 DEF vars, TypeOK
    <2> QED
      BY <2>1, <2>2, <2>3, <2>4, <2>5, <2>6, <2>7, <2>8, <2>9, <2>10, <2>11, <2>12, <2>13,
         <2>14, <2>15, <2>16
      DEF Next, Serve
  <1> QED
    BY <1>1, <1>2, PTL DEF Spec

-----------------------------------------------------------------------------
(* The connected topic.                                                    *)

\* Before a connection there is nothing of this session; on a connection
\* the broker has a session, and it has subscribed or is about to.
LinkInv ==
  /\ link = "none" => queue = <<>> /\ ~connected /\ lastPayload = {}
  /\ task = "publish" => connected
  /\ link = "up" => session
  /\ link = "up" => connected
  /\ link = "up" /\ ~subscribed => queue # <<>> /\ queue[1].kind = "subscribe"
  /\ OnlineListens

\* What is appended to a queue leaves its head.
LEMMA HeadKept ==
  ASSUME NEW S, NEW q \in Seq(S), NEW r \in Seq(S), q # <<>>
  PROVE  q \o r # <<>> /\ (q \o r)[1] = q[1]
  <1>1. Len(q) >= 1 /\ Len(q) \in Nat /\ Len(r) \in Nat
    BY EmptySeq
  <1>2. Len(q \o r) = Len(q) + Len(r) /\ (q \o r)[1] = q[1]
    BY <1>1, ConcatProperties
  <1> QED
    BY <1>1, <1>2

\* Publishing more disturbs nothing of it.
LEMMA PublishLink ==
  ASSUME TypeOK, LinkInv, connected, NEW force, Publish(force), task' # "publish",
         UNCHANGED <<connected, link, session, subscribed, retained>>
  PROVE  LinkInv'
  <1>1. queue # <<>> => queue' # <<>> /\ queue'[1] = queue[1]
    <2> SUFFICES ASSUME queue # <<>> PROVE queue' # <<>> /\ queue'[1] = queue[1]
      OBVIOUS
    <2>1. PICK new \in {<<Status, Online>>, <<Online>>} : queue' = queue \o new
      BY PublishQueue
    <2>2. new \in Seq(Requests) /\ queue \in Seq(Requests)
      <3>1. <<Status, Online>> \in Seq(Requests) /\ <<Online>> \in Seq(Requests)
        BY RequestKinds
      <3> QED
        BY <3>1 DEF TypeOK
    <2> QED
      BY <2>1, <2>2, HeadKept
  <1> QED
    BY <1>1 DEF LinkInv, OnlineListens

LEMMA LinkStep ==
  ASSUME TypeOK, LinkInv, [Next]_vars
  PROVE  LinkInv'
  <1> USE DEF content, local, broker
  <1>0. queue \in Seq(Requests) /\ session \in BOOLEAN /\ subscribed \in BOOLEAN
    BY DEF TypeOK
  <1>1. CASE StartSession
    BY <1>1 DEF StartSession, LinkInv, OnlineListens
  <1>2. CASE EndSession
    BY <1>2 DEF EndSession, LinkInv, OnlineListens
  <1>3. CASE ShutDown
    BY <1>3 DEF ShutDown, LinkInv, OnlineListens
  <1>4. CASE ConnAck
    <2>1. queue = <<>> /\ queue' = Append(queue, [kind |-> "subscribe"])
      BY <1>4 DEF ConnAck, LinkInv
    <2>2. queue' = <<[kind |-> "subscribe"]>>
      BY <2>1
    <2>3. queue' # <<>> /\ queue'[1].kind = "subscribe"
      BY <2>2
    <2>4. retained' # {"1"}
      BY <1>4 DEF ConnAck, Bury, LastWill, LinkInv, OnlineListens
    <2> QED
      BY <1>4, <2>3, <2>4 DEF ConnAck, LinkInv, OnlineListens
  <1>5. CASE Transmit
    <2>1. Head(queue) = queue[1] /\ queue # <<>>
      BY <1>0, <1>5 DEF Transmit
    <2>2. subscribed' /\ session /\ link = "up" /\ task' # "publish"
          /\ UNCHANGED <<session, link, connected>>
      BY <1>5, <2>1 DEF Transmit, LinkInv
    <2> QED
      BY <2>2 DEF LinkInv, OnlineListens
  <1>6. CASE PublishForced
    <2>1. connected
      BY <1>6 DEF PublishForced, LinkInv
    <2> QED
      BY <1>6, <2>1, PublishLink DEF PublishForced
  <1>7. CASE PublishCoalesced \/ Heartbeat
    <2>1. CASE connected
      <3>1. PICK force \in BOOLEAN : Publish(force)
        BY <1>7, <2>1 DEF PublishCoalesced, Heartbeat
      <3>2. task' # "publish" /\ UNCHANGED <<connected, link, session, subscribed, retained>>
        BY <1>7 DEF PublishCoalesced, Heartbeat
      <3>3. LinkInv'
        BY <2>1, <3>1, <3>2, PublishLink
      <3> QED
        BY <3>3
    <2>2. CASE ~connected
      <3>1. task' # "publish"
            /\ UNCHANGED <<queue, lastPayload, connected, link, session, subscribed, retained>>
        BY <1>7, <2>2 DEF PublishCoalesced, Heartbeat
      <3> QED
        BY <3>1 DEF LinkInv, OnlineListens
    <2> QED
      BY <2>1, <2>2
  <1>8. CASE Command \/ Restart \/ TakePermit \/ StopBetweenSessions \/ Reconnect
    BY <1>8 DEF Command, Restart, TakePermit, StopBetweenSessions, Reconnect, LinkInv, OnlineListens
  <1>9. CASE LoseConnection
    BY <1>9 DEF LoseConnection, LinkInv, OnlineListens
  <1>10. CASE BrokerNotices
    BY <1>10 DEF BrokerNotices, Bury, LastWill, LinkInv, OnlineListens
  <1>11. CASE Crash
    BY <1>11 DEF Crash, LinkInv, OnlineListens
  <1>12. CASE Signal \/ (\E hinted \in BOOLEAN : Change(hinted)) \/ UNCHANGED vars
    BY <1>12 DEF Signal, Change, vars, LinkInv, OnlineListens
  <1> QED
    BY <1>1, <1>2, <1>3, <1>4, <1>5, <1>6, <1>7, <1>8, <1>9, <1>10, <1>11, <1>12 DEF Next, Serve

LEMMA LinkAlways == Spec => []LinkInv
  <1>1. Init => LinkInv
    BY DEF Init, LinkInv, OnlineListens
  <1>2. TypeOK /\ LinkInv /\ [Next]_vars => LinkInv'
    BY LinkStep
  <1> QED
    BY <1>1, <1>2, TypeCorrect, PTL DEF Spec

\* Who reads a retained "1" finds a session that listens, or one whose end
\* the broker has not noticed yet.
THEOREM OnlineTheorem == Spec => []OnlineListens
  <1>1. LinkInv => OnlineListens
    BY DEF LinkInv
  <1> QED
    BY <1>1, LinkAlways, PTL

-----------------------------------------------------------------------------
(* The hints.                                                              *)

IsStatus(request) == request.kind = "status"

\* A status of version v or later is at the broker or in the queue.
Served(v) == seen >= v \/ \E i \in 1 .. Len(queue) : IsStatus(queue[i]) /\ queue[i].version >= v

\* The versions never fall on their way to the broker.
OrderInv ==
  /\ seen =< version
  /\ \A i \in 1 .. Len(queue) :
       IsStatus(queue[i]) => seen =< queue[i].version /\ queue[i].version =< version
  /\ \A i, j \in 1 .. Len(queue) :
       i < j /\ IsStatus(queue[i]) /\ IsStatus(queue[j]) => queue[i].version =< queue[j].version

\* On a connection, the last payload is on its way, and so is what is due
\* unless a permit or the task itself still brings it.
DueInv ==
  link = "up" =>
    /\ \A v \in lastPayload : Served(v)
    /\ Served(due) \/ statusPermit \/ task \in {"publish", "coalesce"}

QueueInv == OrderInv /\ DueInv

\* The types the steps below need.
LEMMA VersionTypes ==
  ASSUME TypeOK
  PROVE  /\ version \in Int /\ due \in Int /\ seen \in Int /\ due =< version
         /\ queue \in Seq(Requests) /\ Len(queue) \in Nat
         /\ \A i \in 1 .. Len(queue) : queue[i] \in Requests
                                     /\ (IsStatus(queue[i]) => queue[i].version \in Int)
         /\ \A v \in lastPayload : v \in Int
  <1>1. MaxChanges \in Nat /\ queue \in Seq(Requests)
    BY BoundsAssumption DEF TypeOK
  <1>2. \A i \in 1 .. Len(queue) : queue[i] \in Requests
    BY <1>1
  <1>3. version \in Int /\ due \in Int /\ seen \in Int /\ due =< version /\ Len(queue) \in Nat
    BY <1>1 DEF TypeOK
  <1>4. \A v \in lastPayload : v \in Int
    BY <1>1 DEF TypeOK
  <1>5. \A i \in 1 .. Len(queue) : IsStatus(queue[i]) => queue[i].version \in Int
    BY <1>1, <1>2, RequestKinds DEF IsStatus
  <1> QED
    BY <1>1, <1>2, <1>3, <1>4, <1>5

\* A queue that keeps its requests and gains one of the present version, or
\* none that is a status, stays in order and serves what it served.
LEMMA Appended ==
  ASSUME TypeOK, OrderInv, NEW new \in Seq(Requests), queue' = queue \o new,
         UNCHANGED <<seen, version>>,
         \A i \in 1 .. Len(new) : IsStatus(new[i]) => new[i].version = version
  PROVE  /\ OrderInv'
         /\ \A v \in Int : Served(v) => Served(v)'
         /\ (\E i \in 1 .. Len(new) : IsStatus(new[i])) => Served(version)'
  <1>1. /\ Len(queue') = Len(queue) + Len(new) /\ Len(new) \in Nat /\ Len(queue) \in Nat
        /\ \A i \in 1 .. Len(queue) : queue'[i] = queue[i]
        /\ \A i \in Len(queue) + 1 .. Len(queue') : queue'[i] = new[i - Len(queue)]
    BY VersionTypes, ConcatProperties
  <1>2. \A i \in 1 .. Len(queue') :
          \/ i \in 1 .. Len(queue) /\ queue'[i] = queue[i]
          \/ /\ i \notin 1 .. Len(queue)
             /\ IsStatus(queue'[i]) => queue'[i].version = version
    <2> SUFFICES ASSUME NEW i \in 1 .. Len(queue'), i \notin 1 .. Len(queue)
                 PROVE  IsStatus(queue'[i]) => queue'[i].version = version
      BY <1>1
    <2>1. i - Len(queue) \in 1 .. Len(new) /\ queue'[i] = new[i - Len(queue)]
      BY <1>1
    <2> QED
      BY <2>1
  <1>3. seen' =< version'
    BY VersionTypes DEF OrderInv
  <1>4. \A i \in 1 .. Len(queue') :
          IsStatus(queue'[i]) => seen' =< queue'[i].version /\ queue'[i].version =< version'
    <2> SUFFICES ASSUME NEW i \in 1 .. Len(queue'), IsStatus(queue'[i])
                 PROVE  seen' =< queue'[i].version /\ queue'[i].version =< version'
      OBVIOUS
    <2>1. CASE i \in 1 .. Len(queue) /\ queue'[i] = queue[i]
      <3>1. queue[i].version \in Int /\ seen =< queue[i].version /\ queue[i].version =< version
        BY <2>1, VersionTypes DEF OrderInv
      <3> QED
        BY <2>1, <3>1, VersionTypes
    <2>2. CASE queue'[i].version = version
      BY <2>2, VersionTypes DEF OrderInv
    <2> QED
      BY <1>2, <2>1, <2>2
  <1>5. \A i, j \in 1 .. Len(queue') :
          i < j /\ IsStatus(queue'[i]) /\ IsStatus(queue'[j]) =>
            queue'[i].version =< queue'[j].version
    <2> SUFFICES ASSUME NEW i \in 1 .. Len(queue'), NEW j \in 1 .. Len(queue'), i < j,
                        IsStatus(queue'[i]), IsStatus(queue'[j])
                 PROVE  queue'[i].version =< queue'[j].version
      OBVIOUS
    <2>1. CASE j \in 1 .. Len(queue)
      <3>1. i \in 1 .. Len(queue)
        BY <1>1, <2>1
      <3>2. queue'[i] = queue[i] /\ queue'[j] = queue[j]
        BY <1>1, <2>1, <3>1
      <3> QED
        BY <2>1, <3>1, <3>2 DEF OrderInv
    <2>2. CASE j \notin 1 .. Len(queue)
      <3>1. queue'[j].version = version
        BY <1>2, <2>2
      <3>2. queue'[i].version =< version
        <4>1. CASE i \in 1 .. Len(queue) /\ queue'[i] = queue[i]
          BY <4>1 DEF OrderInv
        <4>2. CASE queue'[i].version = version
          BY <4>2, VersionTypes
        <4> QED
          BY <1>2, <4>1, <4>2
      <3> QED
        BY <3>1, <3>2
    <2> QED
      BY <2>1, <2>2
  <1>6. \A v \in Int : Served(v) => Served(v)'
    <2> SUFFICES ASSUME NEW v \in Int, Served(v) PROVE Served(v)'
      OBVIOUS
    <2>1. CASE \E i \in 1 .. Len(queue) : IsStatus(queue[i]) /\ queue[i].version >= v
      <3>1. PICK i \in 1 .. Len(queue) : IsStatus(queue[i]) /\ queue[i].version >= v
        BY <2>1
      <3>2. i \in 1 .. Len(queue') /\ queue'[i] = queue[i]
        BY <1>1
      <3> QED
        BY <3>1, <3>2 DEF Served
    <2> QED
      BY <2>1 DEF Served
  <1>7. ASSUME NEW i \in 1 .. Len(new), IsStatus(new[i]) PROVE Served(version)'
    <2>1. Len(queue) + i \in 1 .. Len(queue') /\ Len(queue) + i \in Len(queue) + 1 .. Len(queue')
          /\ Len(queue) + i - Len(queue) = i
      BY <1>1
    <2>2. queue'[Len(queue) + i] = new[i]
      BY <1>1, <2>1
    <2>3. IsStatus(queue'[Len(queue) + i]) /\ queue'[Len(queue) + i].version = version
      BY <1>7, <2>2
    <2>4. version \in Int /\ version >= version
      BY VersionTypes
    <2> QED
      BY <2>1, <2>3, <2>4 DEF Served
  <1> QED
    BY <1>3, <1>4, <1>5, <1>6, <1>7 DEF OrderInv

\* Publishing serves what is due: with a new status, or because the last
\* one, which is the present one, is served.
LEMMA PublishStep ==
  ASSUME TypeOK, QueueInv, NEW force, Publish(force), UNCHANGED <<seen, version, due, link>>
  PROVE  QueueInv'
  <1>1. PICK new \in {<<Status, Online>>, <<Online>>} :
          queue' = queue \o new /\ (force \/ lastPayload # {version} => new = <<Status, Online>>)
    BY PublishQueue
  <1>2. new \in Seq(Requests)
    <2>1. <<Status, Online>> \in Seq(Requests) /\ <<Online>> \in Seq(Requests)
      BY RequestKinds
    <2> QED
      BY <2>1
  <1>3. \A i \in 1 .. Len(new) : IsStatus(new[i]) => new[i].version = version
    BY DEF IsStatus, Status, Online
  <1>4. /\ OrderInv'
        /\ \A v \in Int : Served(v) => Served(v)'
        /\ (\E i \in 1 .. Len(new) : IsStatus(new[i])) => Served(version)'
    BY <1>1, <1>2, <1>3, Appended DEF QueueInv
  <1>5. link = "up" => Served(version)'
    <2> SUFFICES ASSUME link = "up" PROVE Served(version)'
      OBVIOUS
    <2>1. CASE new = <<Status, Online>>
      <3>1. 1 \in 1 .. Len(new) /\ IsStatus(new[1])
        BY <2>1 DEF IsStatus, Status
      <3> QED
        BY <1>4, <3>1
    <2>2. CASE lastPayload = {version}
      <3>1. Served(version) /\ version \in Int
        BY <2>2, VersionTypes DEF QueueInv, DueInv
      <3>2. Served(version)'
        BY <1>4, <3>1 DEF Served
      <3> QED
        BY <3>2
    <2> QED
      BY <1>1, <2>1, <2>2
  <1>6. Served(version)' => Served(due)'
    <2> SUFFICES ASSUME Served(version)' PROVE Served(due)'
      OBVIOUS
    <2>1. due' =< version' /\ due' \in Int /\ version' \in Int /\ seen' \in Int
      BY VersionTypes
    <2>2. CASE seen' >= version'
      BY <2>1, <2>2 DEF Served
    <2>3. CASE \E i \in 1 .. Len(queue') : IsStatus(queue'[i]) /\ queue'[i].version >= version'
      <3>1. PICK i \in 1 .. Len(queue') : IsStatus(queue'[i]) /\ queue'[i].version >= version'
        BY <2>3
      <3>2. queue'[i].version \in Int
        BY <1>1, <3>1, PublishQueue, RequestKinds DEF IsStatus
      <3>3. queue'[i].version >= due'
        BY <2>1, <3>1, <3>2
      <3> QED
        BY <3>1, <3>3 DEF Served
    <2> QED
      BY <2>2, <2>3 DEF Served
  <1>7. lastPayload' = {version}
    BY DEF Publish
  <1> QED
    BY <1>4, <1>5, <1>6, <1>7 DEF QueueInv, DueInv

\* What is transmitted next is the oldest: nothing that was served is lost.
LEMMA TransmitStep ==
  ASSUME TypeOK, QueueInv, Transmit
  PROVE  QueueInv'
  <1> USE DEF content, local, broker
  <1>1. /\ queue # <<>> /\ queue' = Tail(queue)
        /\ seen' = (IF queue[1].kind = "status" THEN queue[1].version ELSE seen)
        /\ UNCHANGED <<version, due, statusPermit, lastPayload, task, link>>
    BY DEF Transmit
  <1>2. /\ Len(queue) \in Nat /\ Len(queue) >= 1 /\ Len(queue') = Len(queue) - 1
        /\ \A i \in 1 .. Len(queue') : i + 1 \in 1 .. Len(queue) /\ queue'[i] = queue[i + 1]
    <2>1. queue \in Seq(Requests) /\ Len(queue) \in Nat
      BY VersionTypes
    <2>2. Len(queue) >= 1
      BY <1>1, <2>1, EmptySeq
    <2>3. Len(Tail(queue)) = Len(queue) - 1
          /\ \A i \in 1 .. Len(Tail(queue)) : Tail(queue)[i] = queue[i + 1]
      BY <1>1, <2>1, HeadTailProperties
    <2> QED
      BY <1>1, <2>1, <2>2, <2>3
  <1>3. 1 \in 1 .. Len(queue)
    BY <1>2
  <1>4. /\ seen' \in Int /\ seen' >= seen /\ seen' =< version
        /\ \A i \in 2 .. Len(queue) : IsStatus(queue[i]) => seen' =< queue[i].version
    <2>1. CASE IsStatus(queue[1])
      <3>1. seen' = queue[1].version
        BY <1>1, <2>1 DEF IsStatus
      <3>2. queue[1].version \in Int /\ seen =< queue[1].version /\ queue[1].version =< version
        BY <1>3, <2>1, VersionTypes DEF QueueInv, OrderInv
      <3>3. \A i \in 2 .. Len(queue) : IsStatus(queue[i]) => queue[1].version =< queue[i].version
        <4> SUFFICES ASSUME NEW i \in 2 .. Len(queue), IsStatus(queue[i])
                     PROVE  queue[1].version =< queue[i].version
          OBVIOUS
        <4>1. i \in 1 .. Len(queue) /\ 1 < i
          BY <1>2
        <4> QED
          BY <1>3, <2>1, <4>1 DEF QueueInv, OrderInv
      <3> QED
        BY <3>1, <3>2, <3>3, VersionTypes
    <2>2. CASE ~IsStatus(queue[1])
      <3>1. seen' = seen
        BY <1>1, <2>2 DEF IsStatus
      <3>2. \A i \in 2 .. Len(queue) : i \in 1 .. Len(queue)
        BY <1>2
      <3> QED
        BY <3>1, <3>2, VersionTypes DEF QueueInv, OrderInv
    <2> QED
      BY <2>1, <2>2
  <1>5. OrderInv'
    <2>1. \A i \in 1 .. Len(queue') : i + 1 \in 2 .. Len(queue)
      BY <1>2
    <2>2. \A i \in 1 .. Len(queue') :
            IsStatus(queue'[i]) => seen' =< queue'[i].version /\ queue'[i].version =< version'
      <3> SUFFICES ASSUME NEW i \in 1 .. Len(queue'), IsStatus(queue'[i])
                   PROVE  seen' =< queue'[i].version /\ queue'[i].version =< version'
        OBVIOUS
      <3>1. queue'[i] = queue[i + 1] /\ i + 1 \in 1 .. Len(queue) /\ i + 1 \in 2 .. Len(queue)
        BY <1>2, <2>1
      <3> QED
        BY <1>1, <1>4, <3>1 DEF QueueInv, OrderInv
    <2>3. \A i, j \in 1 .. Len(queue') :
            i < j /\ IsStatus(queue'[i]) /\ IsStatus(queue'[j]) =>
              queue'[i].version =< queue'[j].version
      <3> SUFFICES ASSUME NEW i \in 1 .. Len(queue'), NEW j \in 1 .. Len(queue'), i < j,
                          IsStatus(queue'[i]), IsStatus(queue'[j])
                   PROVE  queue'[i].version =< queue'[j].version
        OBVIOUS
      <3>1. queue'[i] = queue[i + 1] /\ i + 1 \in 1 .. Len(queue)
            /\ queue'[j] = queue[j + 1] /\ j + 1 \in 1 .. Len(queue)
        BY <1>2
      <3>2. i + 1 < j + 1
        OBVIOUS
      <3> QED
        BY <3>1, <3>2 DEF QueueInv, OrderInv
    <2> QED
      BY <1>1, <1>4, <2>2, <2>3 DEF OrderInv
  <1>6. ASSUME NEW v \in Int, Served(v) PROVE seen' >= v \/ \E i \in 1 .. Len(queue') :
                                                IsStatus(queue'[i]) /\ queue'[i].version >= v
    <2>1. CASE seen >= v
      BY <1>4, <2>1, VersionTypes
    <2>2. CASE \E i \in 1 .. Len(queue) : IsStatus(queue[i]) /\ queue[i].version >= v
      <3>1. PICK i \in 1 .. Len(queue) : IsStatus(queue[i]) /\ queue[i].version >= v
        BY <2>2
      <3>2. CASE i = 1
        BY <1>1, <3>1, <3>2 DEF IsStatus
      <3>3. CASE i # 1
        <4>1. i - 1 \in 1 .. Len(queue') /\ (i - 1) + 1 = i
          BY <1>2, <3>3
        <4>2. queue'[i - 1] = queue[i]
          BY <1>2, <4>1
        <4> QED
          BY <3>1, <4>1, <4>2
      <3> QED
        BY <3>2, <3>3
    <2> QED
      BY <1>6, <2>1, <2>2 DEF Served
  <1>7. DueInv'
    <2>1. \A v \in Int : Served(v) => seen' >= v \/ \E i \in 1 .. Len(queue') :
                                          IsStatus(queue'[i]) /\ queue'[i].version >= v
      BY <1>6
    <2> SUFFICES ASSUME link' = "up"
                 PROVE  /\ \A v \in lastPayload' : Served(v)'
                        /\ Served(due)' \/ statusPermit' \/ task' \in {"publish", "coalesce"}
      BY DEF DueInv
    <2>2. \A v \in lastPayload : Served(v)
      BY <1>1 DEF QueueInv, DueInv
    <2>3. \A v \in lastPayload' : Served(v)'
      BY <1>1, <2>1, <2>2, VersionTypes DEF Served
    <2>4. Served(due) => Served(due)'
      BY <1>1, <2>1, VersionTypes DEF Served
    <2> QED
      BY <1>1, <2>3, <2>4 DEF QueueInv, DueInv
  <1> QED
    BY <1>5, <1>7 DEF QueueInv

LEMMA QueueStep ==
  ASSUME TypeOK, LinkInv, QueueInv, [Next]_vars
  PROVE  QueueInv'
  <1> USE DEF content, local, broker
  <1>0. queue \in Seq(Requests)
    BY VersionTypes
  <1>1. CASE (\E hinted \in BOOLEAN : Change(hinted)) \/ Command
    <2>1. /\ version \in Int /\ version' = version + 1
          /\ UNCHANGED <<queue, seen, lastPayload, link>>
          /\ \/ due' = due /\ (statusPermit => statusPermit') /\ task' = task
             \/ statusPermit' \/ task' = "publish"
      BY <1>1, VersionTypes DEF Change, Command
    <2>2. \A i \in 1 .. Len(queue) :
            IsStatus(queue[i]) => queue[i].version \in Int /\ queue[i].version =< version + 1
      BY <2>1, VersionTypes DEF QueueInv, OrderInv
    <2>3. seen =< version + 1
      BY <2>1, VersionTypes DEF QueueInv, OrderInv
    <2>4. OrderInv'
      BY <2>1, <2>2, <2>3 DEF QueueInv, OrderInv
    <2>5. DueInv'
      BY <2>1 DEF QueueInv, DueInv, Served
    <2> QED
      BY <2>4, <2>5 DEF QueueInv
  <1>2. CASE Transmit
    BY <1>2, TransmitStep
  <1>3. CASE PublishForced \/ Heartbeat \/ (PublishCoalesced /\ connected)
    <2>1. PICK force \in BOOLEAN : Publish(force)
      BY <1>3 DEF PublishForced, Heartbeat, PublishCoalesced
    <2>2. UNCHANGED <<seen, version, due, link>>
      BY <1>3 DEF PublishForced, Heartbeat, PublishCoalesced
    <2>3. QueueInv'
      BY <2>1, <2>2, PublishStep
    <2> QED
      BY <2>3
  <1>4. CASE PublishCoalesced /\ ~connected
    <2>1. link # "up" /\ UNCHANGED <<queue, seen, version, link>>
      BY <1>4 DEF PublishCoalesced, LinkInv
    <2> QED
      BY <2>1 DEF QueueInv, OrderInv, DueInv
  <1>5. CASE ConnAck
    <2>1. queue = <<>> /\ lastPayload = {} /\ queue' = Append(queue, [kind |-> "subscribe"])
          /\ task' = "publish" /\ UNCHANGED <<seen, version, lastPayload>>
      BY <1>5 DEF ConnAck, LinkInv
    <2>2. Len(queue') = 1 /\ queue'[1] = [kind |-> "subscribe"]
      BY <2>1
    <2>3. \A i \in 1 .. Len(queue') : ~IsStatus(queue'[i])
      BY <2>2 DEF IsStatus
    <2> QED
      BY <2>1, <2>3 DEF QueueInv, OrderInv, DueInv
  <1>6. CASE StartSession \/ Crash
    <2>1. queue' = <<>> /\ link' # "up" /\ UNCHANGED <<seen, version>>
      BY <1>6 DEF StartSession, Crash
    <2>2. Len(queue') = 0
      BY <2>1
    <2> QED
      BY <2>1, <2>2 DEF QueueInv, OrderInv, DueInv
  <1>7. CASE ShutDown
    <2>1. link' # "up" /\ UNCHANGED <<seen, version>>
          /\ \E new \in {<<>>, <<Offline>>} : queue' = queue \o new
      <3>1. Append(queue, Offline) = queue \o <<Offline>> /\ queue = queue \o <<>>
        BY <1>0, RequestKinds
      <3> QED
        BY <1>7, <3>1 DEF ShutDown
    <2>2. PICK new \in {<<>>, <<Offline>>} : queue' = queue \o new
      BY <2>1
    <2>3. new \in Seq(Requests) /\ \A i \in 1 .. Len(new) : ~IsStatus(new[i])
      <3>1. <<>> \in Seq(Requests) /\ <<Offline>> \in Seq(Requests)
        BY RequestKinds
      <3>2. CASE new = <<>>
        BY <3>1, <3>2
      <3>3. CASE new = <<Offline>>
        BY <3>1, <3>3 DEF IsStatus, Offline
      <3> QED
        BY <2>2, <3>2, <3>3
    <2>4. OrderInv'
      BY <2>1, <2>2, <2>3, Appended DEF QueueInv
    <2> QED
      BY <2>1, <2>4 DEF QueueInv, DueInv
  <1>8. CASE TakePermit
    <2>1. task' = "coalesce" /\ UNCHANGED <<queue, seen, version, lastPayload, link>>
      BY <1>8 DEF TakePermit
    <2> QED
      BY <2>1 DEF QueueInv, OrderInv, DueInv, Served
  <1>9. CASE EndSession \/ StopBetweenSessions \/ Reconnect \/ LoseConnection \/ Restart
    <2>1. UNCHANGED <<queue, seen, version>>
      BY <1>9 DEF EndSession, StopBetweenSessions, Reconnect, LoseConnection, Restart
    <2>2. \/ link' # "up"
          \/ UNCHANGED <<due, statusPermit, lastPayload, link>>
             /\ task \notin {"publish", "coalesce"}
      BY <1>9 DEF EndSession, StopBetweenSessions, Reconnect, LoseConnection, Restart
    <2>3. OrderInv'
      BY <2>1 DEF QueueInv, OrderInv
    <2>4. DueInv'
      BY <2>1, <2>2 DEF QueueInv, DueInv, Served
    <2> QED
      BY <2>3, <2>4 DEF QueueInv
  <1>10. CASE BrokerNotices \/ Signal \/ UNCHANGED vars
    <2>1. UNCHANGED <<queue, seen, version, due, statusPermit, lastPayload, link, task>>
      BY <1>10 DEF BrokerNotices, Signal, vars
    <2> QED
      BY <2>1 DEF QueueInv, OrderInv, DueInv, Served
  <1> QED
    BY <1>1, <1>2, <1>3, <1>4, <1>5, <1>6, <1>7, <1>8, <1>9, <1>10 DEF Next, Serve

\* At rest, with no permit left, the broker has what was hinted at.
THEOREM HintedTheorem == Spec => []HintedPublished
  <1>1. Init => QueueInv
    BY DEF Init, QueueInv, OrderInv, DueInv
  <1>2. TypeOK /\ LinkInv /\ QueueInv /\ [Next]_vars => QueueInv'
    BY QueueStep
  <1>3. QueueInv => HintedPublished
    <2> SUFFICES ASSUME QueueInv, AtRest PROVE seen >= due
      BY DEF HintedPublished
    <2>1. Served(due) /\ Len(queue) = 0
      BY DEF QueueInv, DueInv, AtRest
    <2> QED
      BY <2>1 DEF Served
  <1> QED
    BY <1>1, <1>2, <1>3, TypeCorrect, LinkAlways, PTL DEF Spec

=============================================================================
