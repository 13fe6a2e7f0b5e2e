---------------------------- MODULE MqttSession -----------------------------
(***************************************************************************)
(* The MQTT session: connecting with backoff, the subscription, the status *)
(* published on connect, after a command, on a hint and on a heartbeat,    *)
(* and the retained topic that tells whether the controller is there.  The *)
(* session queues its requests; its event loop, polled by the same task,   *)
(* sends them.                                                             *)
(*                                                                         *)
(* Abstractions.  The published state is a version number, raised by every *)
(* change; due is the version of the last change that may not wait for a   *)
(* heartbeat.  The broker and the network are external.  The request queue *)
(* is not bounded by its slots.  What handle_command does to the devices   *)
(* is in PoolControl.                                                      *)
(***************************************************************************)
EXTENDS Integers, Sequences

CONSTANTS MaxChanges,   \* bound: changes of the published state
          MaxFaults,    \* bound: lost connections and crashes
          QueueBound    \* bound: queue length at which a heartbeat may start

ASSUME BoundsAssumption == MaxChanges \in Nat /\ MaxFaults \in Nat /\ QueueBound \in Nat

ReconnectBase == 500
ReconnectMax  == 30000

VARIABLES
  version, due,      \* the shared state
  statusPermit,      \* the permit of status_notify
  shutdown,          \* the shutdown channel
  task,              \* where mqtt_task is
  backoff,           \* backoff_ms
  connected,         \* the local of run_session
  healthy,           \* health.mqtt_connected
  lastPayload,       \* last_status_payload: {} when empty
  queue,             \* requests not sent yet
  link,              \* the connection: none, up, broken
  session,           \* the broker holds a session of this client
  subscribed,        \* ... which has subscribed to commands
  retained,          \* what the connected topic retains: {} at first
  seen,              \* the version of the last status at the broker
  faults             \* bound

content == <<version, due>>
local   == <<backoff, connected, healthy, lastPayload, queue>>
broker  == <<session, subscribed, retained, seen>>
vars == <<content, statusPermit, shutdown, task, local, link, broker, faults>>

Requests == [kind : {"subscribe", "online", "offline"}]
              \cup [kind : {"status"}, version : 0 .. MaxChanges]

Init ==
  /\ version = 0 /\ due = 0 /\ statusPermit = FALSE /\ shutdown = FALSE
  /\ task = "connect" /\ backoff = ReconnectBase
  /\ connected = FALSE /\ healthy = FALSE /\ lastPayload = {} /\ queue = <<>>
  /\ link = "none"
  /\ session = FALSE /\ subscribed = FALSE /\ retained = {} /\ seen = 0
  /\ faults = 0

Fault == faults < MaxFaults /\ faults' = faults + 1

-----------------------------------------------------------------------------
(* The other tasks change what is published; the user asks for shutdown.   *)

Change(hinted) ==
  /\ version < MaxChanges /\ version' = version + 1
  /\ due' = IF hinted THEN version' ELSE due
  /\ statusPermit' = (statusPermit \/ hinted)
  /\ UNCHANGED <<shutdown, task, local, link, broker, faults>>

Signal ==
  /\ ~shutdown /\ shutdown' = TRUE
  /\ UNCHANGED <<content, statusPermit, task, local, link, broker, faults>>

-----------------------------------------------------------------------------
(* mqtt_task: the loop around the sessions.                                *)

\* A new client and event loop, hence a new queue.
StartSession ==
  /\ task = "connect" /\ ~shutdown
  /\ task' = "select"
  /\ connected' = FALSE /\ lastPayload' = {} /\ queue' = <<>> /\ link' = "none"
  /\ UNCHANGED <<content, statusPermit, shutdown, backoff, healthy, broker, faults>>

StopBetweenSessions ==
  /\ task \in {"connect", "backoff"} /\ shutdown
  /\ task' = "stopped"
  /\ UNCHANGED <<content, statusPermit, shutdown, local, link, broker, faults>>

\* The event loop reports an error: no connection could be made, or it broke.
EndSession ==
  /\ task = "select" /\ ~shutdown
  /\ link \in {"none", "broken"}
  /\ task' = "backoff"
  /\ healthy' = FALSE
  /\ backoff' = IF connected THEN ReconnectBase ELSE backoff
  /\ UNCHANGED <<content, statusPermit, shutdown, connected, lastPayload, queue, link, broker,
                 faults>>

\* Fault: the delay doubles without an end.
ReconnectUncapped ==
  /\ task = "backoff" /\ ~shutdown
  /\ task' = "connect"
  /\ backoff' = 2 * backoff
  /\ UNCHANGED <<content, statusPermit, shutdown, connected, healthy, lastPayload, queue,
                 link, broker, faults>>

\* The delay is over, and doubles for the next time.
Reconnect ==
  /\ task = "backoff" /\ ~shutdown
  /\ task' = "connect"
  /\ backoff' = IF 2 * backoff < ReconnectMax THEN 2 * backoff ELSE ReconnectMax
  /\ UNCHANGED <<content, statusPermit, shutdown, connected, healthy, lastPayload, queue,
                 link, broker, faults>>

-----------------------------------------------------------------------------
(* publish_connected_and_status.                                           *)

Status  == [kind |-> "status", version |-> version]
Online  == [kind |-> "online"]
Offline == [kind |-> "offline"]

\* A status like the last one is skipped unless forced.
Publish(force) ==
  /\ queue' = queue \o (IF force \/ lastPayload # {version} THEN <<Status, Online>>
                        ELSE <<Online>>)
  /\ lastPayload' = {version}

-----------------------------------------------------------------------------
(* run_session, connected or not: select! with the branches in this order. *)

\* The "0" is queued; but the event loop is dropped with the session.
ShutDown ==
  /\ task = "select" /\ shutdown
  /\ queue' = IF connected THEN Append(queue, Offline) ELSE queue
  /\ task' = "stopped"
  /\ link' = IF link = "up" THEN "broken" ELSE link
  /\ UNCHANGED <<content, statusPermit, shutdown, backoff, connected, healthy, lastPayload,
                 broker, faults>>

\* set_last_will: retained, on the connected topic.
LastWill == {"0"}

\* Fault: no last will.
BuryWithoutWill == UNCHANGED retained

\* What the broker retains of a session that ends without DISCONNECT.
Bury == retained' = IF session THEN LastWill ELSE retained

\* Fault: the greeting goes out before the subscription.
ConnAckUnsubscribed ==
  /\ task = "select" /\ ~shutdown /\ link = "none"
  /\ link' = "up" /\ session' = TRUE /\ subscribed' = FALSE /\ Bury
  /\ connected' = TRUE /\ healthy' = TRUE
  /\ queue' = queue \o <<Online, [kind |-> "subscribe"]>>
  /\ task' = "publish"
  /\ UNCHANGED <<content, statusPermit, shutdown, backoff, lastPayload, seen, faults>>

\* Fault: the status is left for the next hint or heartbeat.
ConnAckQuiet ==
  /\ task = "select" /\ ~shutdown /\ link = "none"
  /\ link' = "up" /\ session' = TRUE /\ subscribed' = FALSE /\ Bury
  /\ connected' = TRUE /\ healthy' = TRUE
  /\ queue' = Append(queue, [kind |-> "subscribe"])
  /\ UNCHANGED <<content, statusPermit, shutdown, task, backoff, lastPayload, seen, faults>>

\* The broker accepts, ending what it still held of this client; the event
\* loop reports it; the subscription is queued, the status comes next.
ConnAck ==
  /\ task = "select" /\ ~shutdown /\ link = "none"
  /\ link' = "up" /\ session' = TRUE /\ subscribed' = FALSE /\ Bury
  /\ connected' = TRUE /\ healthy' = TRUE
  /\ queue' = Append(queue, [kind |-> "subscribe"])
  /\ task' = "publish"
  /\ UNCHANGED <<content, statusPermit, shutdown, backoff, lastPayload, seen, faults>>

\* A command that changes something is echoed; no hint goes with it.
Command ==
  /\ task = "select" /\ ~shutdown /\ link = "up" /\ subscribed
  /\ version < MaxChanges
  /\ version' = version + 1 /\ due' = version'
  /\ task' = "publish"
  /\ UNCHANGED <<statusPermit, shutdown, local, link, broker, faults>>

PublishForced ==
  /\ task = "publish"
  /\ Publish(TRUE)
  /\ task' = "select"
  /\ UNCHANGED <<content, statusPermit, shutdown, backoff, connected, healthy, link, broker,
                 faults>>

\* The event loop sends the next request.
Transmit ==
  /\ task = "select" /\ ~shutdown /\ link = "up" /\ queue # <<>>
  /\ queue' = Tail(queue)
  /\ LET request == Head(queue)
     IN  /\ subscribed' = (subscribed \/ request.kind = "subscribe")
         /\ retained' = CASE request.kind = "online"  -> {"1"}
                          [] request.kind = "offline" -> {"0"}
                          [] OTHER -> retained
         /\ seen' = IF request.kind = "status" THEN request.version ELSE seen
  /\ UNCHANGED <<content, statusPermit, shutdown, task, backoff, connected, healthy,
                 lastPayload, link, session, faults>>

\* A permit is taken, connected or not; 75 ms later the status is published
\* if connected.
TakePermit ==
  /\ task = "select" /\ ~shutdown /\ statusPermit
  /\ statusPermit' = FALSE
  /\ task' = "coalesce"
  /\ UNCHANGED <<content, shutdown, local, link, broker, faults>>

PublishCoalesced ==
  /\ task = "coalesce"
  /\ IF connected THEN Publish(FALSE) ELSE UNCHANGED <<queue, lastPayload>>
  /\ task' = "select"
  /\ UNCHANGED <<content, statusPermit, shutdown, backoff, connected, healthy, link, broker,
                 faults>>

Heartbeat ==
  /\ task = "select" /\ ~shutdown /\ Len(queue) <= QueueBound
  /\ connected /\ Publish(TRUE)
  /\ UNCHANGED <<content, statusPermit, shutdown, task, backoff, connected, healthy, link,
                 broker, faults>>

-----------------------------------------------------------------------------
(* Broker and network.                                                     *)

LoseConnection ==
  /\ link = "up" /\ Fault
  /\ link' = "broken"
  /\ UNCHANGED <<content, statusPermit, shutdown, task, local, broker>>

\* The broker gives up a session whose connection is gone.
BrokerNotices ==
  /\ session /\ link # "up"
  /\ session' = FALSE /\ subscribed' = FALSE /\ Bury
  /\ UNCHANGED <<content, statusPermit, shutdown, task, local, link, seen, faults>>

\* The process dies; and starts again with nothing remembered.
Crash ==
  /\ task \notin {"stopped", "dead"} /\ Fault
  /\ task' = "dead" /\ statusPermit' = FALSE
  /\ link' = IF link = "up" THEN "broken" ELSE link
  /\ backoff' = ReconnectBase /\ connected' = FALSE /\ healthy' = FALSE
  /\ lastPayload' = {} /\ queue' = <<>>
  /\ UNCHANGED <<content, shutdown, broker>>

Restart ==
  /\ task = "dead"
  /\ task' = "connect"
  /\ UNCHANGED <<content, statusPermit, shutdown, local, link, broker, faults>>

-----------------------------------------------------------------------------
Serve == \/ StartSession \/ StopBetweenSessions \/ Reconnect \/ ShutDown
         \/ PublishForced \/ PublishCoalesced

Next == \/ \E hinted \in BOOLEAN : Change(hinted)
        \/ Signal
        \/ Serve \/ EndSession \/ ConnAck \/ Command \/ Transmit \/ TakePermit \/ Heartbeat
        \/ LoseConnection \/ BrokerNotices \/ Crash \/ Restart

Spec == Init /\ [][Next]_vars

\* The task runs on; a branch that is ready again and again is taken in the
\* end, the event loop's first; the broker accepts in the end and notices
\* that a connection is gone; the service manager restarts the process.
FairSpec == /\ Spec
            /\ WF_vars(Serve) /\ WF_vars(EndSession) /\ WF_vars(Restart)
            /\ WF_vars(BrokerNotices)
            /\ SF_vars(ConnAck) /\ SF_vars(Transmit) /\ SF_vars(TakePermit)
            /\ SF_vars(Heartbeat)

-----------------------------------------------------------------------------
(* Properties.                                                             *)

\* The types of the variables; the delay stays between its base and maximum.
TypeOK ==
  /\ version \in 0 .. MaxChanges /\ due \in 0 .. version
  /\ statusPermit \in BOOLEAN /\ shutdown \in BOOLEAN
  /\ task \in {"connect", "select", "publish", "coalesce", "backoff", "stopped", "dead"}
  /\ backoff \in ReconnectBase .. ReconnectMax
  /\ connected \in BOOLEAN /\ healthy \in BOOLEAN
  /\ lastPayload \in {{}} \cup {{v} : v \in 0 .. MaxChanges}
  /\ queue \in Seq(Requests)
  /\ link \in {"none", "up", "broken"}
  /\ session \in BOOLEAN /\ subscribed \in BOOLEAN
  /\ retained \in {{}, {"0"}, {"1"}} /\ seen \in 0 .. MaxChanges
  /\ faults \in 0 .. MaxFaults

\* A retained "1" is worth something: whoever reads it finds a session that
\* listens to commands, or one that the broker has yet to find dead, through
\* reconnections, take-overs and crashes.
OnlineListens == retained = {"1"} => session /\ subscribed

\* A change that may not wait for the heartbeat does not: with no permit
\* left, nothing queued and the task at rest, the broker has it; though
\* permits are also taken by sessions that are not connected, and commands
\* give none.
AtRest == task = "select" /\ connected /\ link = "up" /\ queue = <<>> /\ ~statusPermit
HintedPublished == AtRest => seen >= due

\* In the end the connected topic tells the truth: "1", with the latest
\* status, the silent changes too, and a session that listens, or no "1" at
\* all once the controller has stopped.
TruthInTheEnd ==
  <>[] IF shutdown THEN retained # {"1"}
       ELSE retained = {"1"} /\ subscribed /\ seen = version

=============================================================================
