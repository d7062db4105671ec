----------------------------- MODULE FeedClient -----------------------------
(***************************************************************************)
(* adsb-pulsar-client: ADSBFeedClient::run and everything it calls.        *)
(*                                                                         *)
(* One task reads lines from dump1090 and hands each to every forwarder    *)
(* (forward_message); a forwarder that is not connected, or that fails,    *)
(* gets the message in its retry queue, which a one-second housekeeping    *)
(* tick drains.  The forwarders own background tasks (the Pulsar reconnect *)
(* task, the MQTT event loop) that run between any two awaits of the main  *)
(* task.  Messages are the numbers 1, 2, ... in the order of arrival.      *)
(***************************************************************************)
EXTENDS Integers, Sequences, FiniteSets, Functions

CONSTANTS
  Kind,           (* <<"pulsar", "mqtt", ...>>: the kinds of the forwarders,
                     in the order of ADSBFeedClient::forwarders            *)
  Mode,           (* connection_mode: "client" or "server"                 *)
  Heartbeat,      (* TRUE iff heartbeat_timeout_secs > 0                   *)
  MaxRetryQueue,  (* max_retry_queue_size; validate() does not exclude 0   *)
  MaxDrain,       (* MAX_RETRY_DRAIN_PER_TICK                              *)
  RequestCap,     (* capacity of the MQTT client's request channel         *)
  MaxBatch,       (* lines one read can complete (bound)                   *)
  MaxMsg          (* messages received in a behaviour (bound)              *)

ASSUME KindAssumption == Kind \in Seq({"pulsar", "mqtt", "file"}) /\ Kind # <<>>
ASSUME ModeAssumption == Mode \in {"client", "server"} /\ Heartbeat \in BOOLEAN
ASSUME LimitAssumption ==
  /\ MaxRetryQueue \in Nat
  /\ MaxDrain \in Nat \ {0}
  /\ RequestCap \in Nat \ {0}
  /\ MaxBatch \in Nat \ {0}
  /\ MaxMsg \in Nat

Forwarder == 1..Len(Kind)
Message == 1..MaxMsg

VARIABLES
  phase,      (* where the main task is: see Phase                         *)
  cur,        (* the forwarder the main task is working on                 *)
  shutdown,   (* value of the shutdown watch channel                       *)
  read,       (* messages extracted from the stream so far                 *)
  done,       (* messages whose fan-out is complete                        *)
  sent,       (* sent_count of the drain in progress                       *)
  retry,      (* retry_queues                                              *)
  gauge,      (* metrics.retry_queue_size                                  *)
  handle,     (* the forwarder's producer / client / writer is Some        *)
  flag,       (* MqttForwarder::connected                                  *)
  task,       (* the forwarder's background task                           *)
  requests,   (* occupied slots of the MQTT request channel                *)
  delivered,  (* history: messages for which send returned Ok              *)
  retried,    (* history: the last message delivered from a retry queue    *)
  lost        (* history: messages dropped from a full retry queue         *)

mainVars == <<phase, cur, shutdown>>
streamVars == <<read, done>>
queueVars == <<retry, gauge, lost>>
forwarderVars == <<handle, flag, task, requests>>
deliveryVars == <<delivered, retried>>
vars == <<mainVars, streamVars, sent, queueVars, forwarderVars, deliveryVars>>

(***************************************************************************)
(* starting: run() is connecting the forwarders.  idle: head of the        *)
(* client-mode loop.  connecting, retrysleep: inside connect_socket.       *)
(* backoff: the select of run_client_mode.  listening: the select of       *)
(* run_server_mode.  reading: the select of receive_and_forward.  fanout,  *)
(* disconnect: inside forward_message.  tick, drain: inside the            *)
(* housekeeping arm.  stopped, failed: run() has returned Ok, Err.         *)
(***************************************************************************)
Terminal == {"stopped", "failed"}
Phase == {"starting", "idle", "connecting", "retrysleep", "backoff", "listening",
          "reading", "fanout", "disconnect", "tick", "drain"} \cup Terminal

Init ==
  /\ phase = "starting" /\ cur = 1 /\ shutdown = FALSE
  /\ read = 0 /\ done = 0 /\ sent = 0
  /\ retry = [f \in Forwarder |-> <<>>] /\ gauge = 0
  /\ handle = [f \in Forwarder |-> FALSE]
  /\ flag = [f \in Forwarder |-> FALSE]
  /\ task = [f \in Forwarder |-> "none"]
  /\ requests = [f \in Forwarder |-> 0]
  /\ delivered = [f \in Forwarder |-> {}]
  /\ retried = [f \in Forwarder |-> 0]
  /\ lost = [f \in Forwarder |-> {}]

-----------------------------------------------------------------------------
(* The forwarders (trait MessageForwarder).                                *)

IsConnected(f) == IF Kind[f] = "mqtt" THEN flag[f] ELSE handle[f]

\* Mutant of CanAccept: the request channel has no limit.
CanAcceptUnlimited(f) == handle[f]

\* send() may return Ok.  The MQTT forwarder only tries to enqueue a request.
CanAccept(f) == handle[f] /\ (Kind[f] = "mqtt" => requests[f] < RequestCap)

\* send() may return Err: a producer or a file can fail at any time.
CanRefuse(f) == Kind[f] = "mqtt" => ~CanAccept(f)

\* What a successful send() leaves behind in the forwarder.
Accepted(f) ==
  /\ requests' = IF Kind[f] = "mqtt" THEN [requests EXCEPT ![f] = @ + 1] ELSE requests
  /\ UNCHANGED <<handle, flag, task>>

\* PulsarForwarder::start_reconnect_task, given whether a producer is held.
StartReconnect(f, held) ==
  task' = IF held \/ task[f] # "none" THEN task ELSE [task EXCEPT ![f] = "running"]

\* connect(): Pulsar and MQTT only spawn their task; a file is opened here.
ConnectForwarder(f) ==
  \/ /\ Kind[f] = "pulsar"
     /\ StartReconnect(f, handle[f])
     /\ UNCHANGED handle
  \/ /\ Kind[f] = "mqtt"
     /\ handle' = [handle EXCEPT ![f] = TRUE]
     /\ task' = [task EXCEPT ![f] = "down"]
  \/ /\ Kind[f] = "file"
     /\ handle' = [handle EXCEPT ![f] = TRUE]
     /\ UNCHANGED task

\* disconnect(): the MQTT client first queues a DISCONNECT request, and waits
\* for a free slot of the request channel.
DisconnectForwarder(f) ==
  /\ handle' = [handle EXCEPT ![f] = FALSE]
  /\ \/ /\ Kind[f] = "pulsar"
        /\ StartReconnect(f, FALSE)
        /\ UNCHANGED <<flag, requests>>
     \/ /\ Kind[f] = "mqtt"
        /\ handle[f] => requests[f] < RequestCap
        /\ requests' = IF handle[f] THEN [requests EXCEPT ![f] = @ + 1] ELSE requests
        /\ flag' = [flag EXCEPT ![f] = FALSE]
        /\ UNCHANGED task
     \/ /\ Kind[f] = "file"
        /\ UNCHANGED <<flag, task, requests>>

\* flush(): for Pulsar this is poll_reconnect, which takes the result of the
\* reconnect task.
FlushForwarder(f) ==
  IF Kind[f] = "pulsar" /\ task[f] = "ready"
    THEN /\ handle' = [handle EXCEPT ![f] = TRUE]
         /\ task' = [task EXCEPT ![f] = "none"]
    ELSE UNCHANGED <<handle, task>>

\* The reconnect task has built a producer and sent it down its channel.
PulsarReconnected(f) ==
  /\ task[f] = "running"
  /\ task' = [task EXCEPT ![f] = "ready"]
  /\ UNCHANGED <<mainVars, streamVars, sent, queueVars, handle, flag, requests, deliveryVars>>

\* The MQTT event loop receives a CONNACK.
MqttConnAck(f) ==
  /\ task[f] = "down"
  /\ task' = [task EXCEPT ![f] = "up"]
  /\ flag' = [flag EXCEPT ![f] = TRUE]
  /\ UNCHANGED <<mainVars, streamVars, sent, queueVars, handle, requests, deliveryVars>>

\* The MQTT event loop writes the next request to the broker.
MqttPublish(f) ==
  /\ task[f] = "up" /\ requests[f] > 0
  /\ requests' = [requests EXCEPT ![f] = @ - 1]
  /\ UNCHANGED <<mainVars, streamVars, sent, queueVars, handle, flag, task, deliveryVars>>

\* poll() returns an error (refused, dropped, keep-alive expired, or the client
\* handle is gone); requests still in the channel move to the loop's own list.
MqttError(f) ==
  /\ task[f] \in {"down", "up"}
  /\ task' = [task EXCEPT ![f] = "down"]
  /\ flag' = [flag EXCEPT ![f] = FALSE]
  /\ requests' = [requests EXCEPT ![f] = 0]
  /\ UNCHANGED <<mainVars, streamVars, sent, queueVars, handle, deliveryVars>>

-----------------------------------------------------------------------------
(* The retry queues.                                                       *)

\* Mutant of Enqueue: the new message is dropped.
EnqueueDropNewest(q, m) == IF Len(q) < MaxRetryQueue \/ q = <<>> THEN Append(q, m) ELSE q

\* enqueue_retry: a full queue loses its oldest message.
Enqueue(q, m) ==
  IF Len(q) < MaxRetryQueue THEN Append(q, m)
  ELSE Append(IF q = <<>> THEN q ELSE Tail(q), m)

\* Mutant of PutBack: the message is forgotten.
PutBackForgotten(q, m) == q

\* A message that could not be sent goes back to the front (drain_retry_queue).
PutBack(q, m) == <<m>> \o q

\* total_retry_queue_size
TotalQueued(q) == SumFunction([f \in Forwarder |-> Len(q[f])])

EnqueueRetry(f, m) ==
  /\ retry' = [retry EXCEPT ![f] = Enqueue(@, m)]
  /\ lost' = IF Len(retry[f]) < MaxRetryQueue \/ retry[f] = <<>> THEN lost
             ELSE [lost EXCEPT ![f] = @ \cup {Head(retry[f])}]
  /\ gauge' = TotalQueued(retry')

Deliver(f, m) == delivered' = [delivered EXCEPT ![f] = @ \cup {m}]

-----------------------------------------------------------------------------
(* forward_message: the fan-out of one message.                            *)

\* The message being fanned out.
Current == done + 1

\* Mutant of NextForwarder: only the first message of a read is forwarded.
NextForwarderOneMessage ==
  IF cur < Len(Kind)
    THEN phase' = "fanout" /\ cur' = cur + 1 /\ UNCHANGED streamVars
    ELSE done' = done + 1 /\ cur' = 1 /\ UNCHANGED read /\ phase' = "reading"

\* On to the next forwarder, or to the next message of this read, or back to
\* the select.
NextForwarder ==
  IF cur < Len(Kind)
    THEN phase' = "fanout" /\ cur' = cur + 1 /\ UNCHANGED streamVars
    ELSE /\ done' = done + 1 /\ cur' = 1 /\ UNCHANGED read
         /\ phase' = IF done + 1 < read THEN "fanout" ELSE "reading"

ForwardOffline ==
  /\ phase = "fanout" /\ ~IsConnected(cur)
  /\ EnqueueRetry(cur, Current)
  /\ NextForwarder
  /\ UNCHANGED <<shutdown, sent, forwarderVars, deliveryVars>>

ForwardOk ==
  /\ phase = "fanout" /\ IsConnected(cur) /\ CanAccept(cur)
  /\ Accepted(cur)
  /\ Deliver(cur, Current)
  /\ NextForwarder
  /\ UNCHANGED <<shutdown, sent, queueVars, retried>>

ForwardError ==
  /\ phase = "fanout" /\ IsConnected(cur) /\ CanRefuse(cur)
  /\ EnqueueRetry(cur, Current)
  /\ phase' = "disconnect"
  /\ UNCHANGED <<cur, shutdown, streamVars, sent, forwarderVars, deliveryVars>>

\* forwarders[i].disconnect().await.ok()
Disconnect ==
  /\ phase = "disconnect"
  /\ DisconnectForwarder(cur)
  /\ NextForwarder
  /\ UNCHANGED <<shutdown, sent, queueVars, deliveryVars>>

-----------------------------------------------------------------------------
(* The housekeeping arm of receive_and_forward.                            *)

Tick ==
  /\ phase = "reading"
  /\ phase' = "tick" /\ cur' = 1
  /\ UNCHANGED <<shutdown, streamVars, sent, queueVars, forwarderVars, deliveryVars>>

TickForwarder ==
  /\ phase = "tick" /\ cur <= Len(Kind)
  /\ IF IsConnected(cur)
       THEN phase' = "drain" /\ sent' = 0 /\ UNCHANGED cur
       ELSE cur' = cur + 1 /\ UNCHANGED <<phase, sent>>
  /\ UNCHANGED <<shutdown, streamVars, queueVars, forwarderVars, deliveryVars>>

DrainOk ==
  /\ phase = "drain" /\ retry[cur] # <<>> /\ sent < MaxDrain
  /\ CanAccept(cur)
  /\ Accepted(cur)
  /\ Deliver(cur, Head(retry[cur]))
  /\ retried' = [retried EXCEPT ![cur] = Head(retry[cur])]
  /\ retry' = [retry EXCEPT ![cur] = Tail(@)]
  /\ sent' = sent + 1
  /\ UNCHANGED <<mainVars, streamVars, gauge, lost>>

\* The end of drain_retry_queue and the flush that follows it.
LeaveDrain ==
  /\ gauge' = TotalQueued(retry')
  /\ FlushForwarder(cur)
  /\ phase' = "tick" /\ cur' = cur + 1
  /\ UNCHANGED <<shutdown, streamVars, sent, lost, flag, requests, deliveryVars>>

DrainError ==
  /\ phase = "drain" /\ retry[cur] # <<>> /\ sent < MaxDrain
  /\ CanRefuse(cur)
  /\ retry' = [retry EXCEPT ![cur] = PutBack(Tail(@), Head(@))]
  /\ LeaveDrain

DrainEnd ==
  /\ phase = "drain" /\ (retry[cur] = <<>> \/ sent >= MaxDrain)
  /\ UNCHANGED retry
  /\ LeaveDrain

\* Where a connection that ended leads to: run_client_mode backs off, after any
\* recoverable error (all of these are); run_server_mode listens again.
LinkLost == phase' = IF Mode = "client" THEN "backoff" ELSE "listening"

\* is_stale() is asked after the forwarders were served.
TickEnd ==
  /\ phase = "tick" /\ cur > Len(Kind)
  /\ cur' = 1
  /\ phase' = "reading" \/ (Heartbeat /\ LinkLost)
  /\ UNCHANGED <<shutdown, streamVars, sent, queueVars, forwarderVars, deliveryVars>>

-----------------------------------------------------------------------------
(* run, run_client_mode, run_server_mode, connect_socket.                  *)

Idle == UNCHANGED <<streamVars, sent, queueVars, forwarderVars, deliveryVars>>

Listen == phase' = IF Mode = "client" THEN "idle" ELSE "listening"

Start ==
  /\ phase = "starting" /\ cur <= Len(Kind)
  /\ ConnectForwarder(cur)
  /\ cur' = cur + 1
  /\ UNCHANGED <<phase, shutdown, streamVars, sent, queueVars, flag, requests, deliveryVars>>

\* A file that cannot be opened, or an address that cannot be bound.
StartError ==
  /\ phase = "starting"
  /\ IF cur <= Len(Kind) THEN Kind[cur] = "file" ELSE Mode = "server"
  /\ phase' = "failed"
  /\ UNCHANGED <<cur, shutdown>> /\ Idle

Started ==
  /\ phase = "starting" /\ cur > Len(Kind)
  /\ Listen /\ cur' = 1 /\ UNCHANGED shutdown /\ Idle

\* Mutant of Attempt: the head of the loop does not look at shutdown.
AttemptUnchecked ==
  /\ phase = "idle" /\ phase' = "connecting"
  /\ UNCHANGED <<cur, shutdown>> /\ Idle

\* The head of the client-mode loop.
Attempt ==
  /\ phase = "idle"
  /\ phase' = IF shutdown THEN "stopped" ELSE "connecting"
  /\ UNCHANGED <<cur, shutdown>> /\ Idle

\* connect_socket returns only with a connection.
ConnectOk ==
  /\ phase = "connecting" \/ (phase = "listening" /\ Mode = "server")
  /\ phase' = "reading"
  /\ UNCHANGED <<cur, shutdown>> /\ Idle

ConnectError ==
  /\ phase = "connecting"
  /\ phase' = "retrysleep"
  /\ UNCHANGED <<cur, shutdown>> /\ Idle

\* A sleep ends: of connect_socket, or of the backoff between connections.
Wake ==
  \/ /\ phase = "retrysleep" /\ phase' = "connecting"
     /\ UNCHANGED <<cur, shutdown>> /\ Idle
  \/ /\ phase = "backoff" /\ phase' = "idle"
     /\ UNCHANGED <<cur, shutdown>> /\ Idle

\* Some bytes arrive; they complete n lines (process_buffer).
Receive ==
  /\ phase = "reading"
  /\ \E n \in 0..MaxBatch :
       /\ read + n <= MaxMsg
       /\ read' = read + n
       /\ phase' = IF n = 0 THEN "reading" ELSE "fanout"
  /\ UNCHANGED <<cur, shutdown, done, sent, queueVars, forwarderVars, deliveryVars>>

\* End of stream, a read error or a line buffer overflow.
StreamError ==
  /\ phase = "reading"
  /\ LinkLost
  /\ UNCHANGED <<cur, shutdown>> /\ Idle

\* The shutdown arm of the three selects.
ObserveShutdown ==
  /\ phase \in {"reading", "backoff", "listening"} /\ shutdown
  /\ phase' = "stopped"
  /\ UNCHANGED <<cur, shutdown>> /\ Idle

\* ADSBFeedClient::shutdown, from any thread.
Shutdown ==
  /\ ~shutdown /\ shutdown' = TRUE
  /\ UNCHANGED <<phase, cur>> /\ Idle

-----------------------------------------------------------------------------

Fanout == ForwardOffline \/ ForwardOk \/ ForwardError \/ Disconnect
Housekeep == TickForwarder \/ DrainOk \/ DrainError \/ DrainEnd \/ TickEnd
Lifecycle == Start \/ StartError \/ Started \/ Attempt \/ ConnectOk \/ ConnectError \/ Wake
Background(f) ==
  PulsarReconnected(f) \/ MqttConnAck(f) \/ MqttPublish(f) \/ MqttError(f)

Next ==
  \/ Fanout \/ Tick \/ Housekeep
  \/ Lifecycle \/ Receive \/ StreamError
  \/ ObserveShutdown \/ Shutdown
  \/ \E f \in Forwarder : Background(f)

(***************************************************************************)
(* Fairness.  The main task is scheduled and its timers fire, so a step it *)
(* can take on its own is taken (WF).  select! polls its arms in random    *)
(* order, so an arm that is ready again and again is taken (SF).  The MQTT *)
(* event loop is polled in a loop and ends a silent connection after the   *)
(* keep-alive.  Nothing is assumed of dump1090.                            *)
(***************************************************************************)
Fairness ==
  /\ WF_vars(Fanout \/ Housekeep)
  /\ WF_vars(Start \/ StartError \/ Started)
  /\ WF_vars(Attempt) /\ WF_vars(Wake)
  /\ WF_vars(phase = "connecting" /\ (ConnectOk \/ ConnectError))
  /\ SF_vars(ObserveShutdown) /\ SF_vars(Tick)
  /\ \A f \in Forwarder : WF_vars(MqttPublish(f) \/ MqttError(f))

Spec == Init /\ [][Next]_vars
FairSpec == Spec /\ Fairness

\* Also: dump1090 and the brokers come up whenever they are tried for long.
BackendsFairSpec ==
  /\ FairSpec
  /\ SF_vars(ConnectOk)
  /\ \A f \in Forwarder : WF_vars(PulsarReconnected(f)) /\ SF_vars(MqttConnAck(f))

-----------------------------------------------------------------------------
(* Properties.                                                             *)

QueueLimit == IF MaxRetryQueue = 0 THEN 1 ELSE MaxRetryQueue

Working == {"fanout", "disconnect"}

AtSelect == {"idle", "connecting", "retrysleep", "backoff", "listening", "reading"}

\* The types of the variables other than gauge; the ranges of the
\* two message counters and of the current forwarder in each phase.
TypeOK ==
  /\ phase \in Phase /\ shutdown \in BOOLEAN
  /\ cur \in 1..(Len(Kind) + 1)
  /\ phase \in Working \cup {"drain"} => cur \in Forwarder
  /\ phase \in AtSelect => cur = 1
  /\ read \in 0..MaxMsg /\ done \in 0..read
  /\ IF phase \in Working THEN done < read ELSE done = read
  /\ sent \in 0..MaxDrain
  /\ retry \in [Forwarder -> Seq(Message)]
  /\ handle \in [Forwarder -> BOOLEAN] /\ flag \in [Forwarder -> BOOLEAN]
  /\ task \in [Forwarder -> {"none", "running", "ready", "down", "up"}]
  /\ requests \in [Forwarder -> 0..RequestCap]
  /\ delivered \in [Forwarder -> SUBSET Message]
  /\ retried \in [Forwarder -> 0..MaxMsg]
  /\ lost \in [Forwarder -> SUBSET Message]

\* How many messages forward_message has dealt with for forwarder f.
HandledCount(f) ==
  IF (phase = "fanout" /\ f < cur) \/ (phase = "disconnect" /\ f <= cur)
    THEN Current ELSE done

Handled(f) == 1..HandledCount(f)

\* Every message read is, for each forwarder separately, in exactly one of
\* three places: accepted by the backend, in the retry queue, or dropped from
\* it.  No failure of one forwarder loses or repeats a message of another.
EveryMessageAccounted ==
  \A f \in Forwarder :
    /\ Range(retry[f]) \cup delivered[f] \cup lost[f] = Handled(f)
    /\ Range(retry[f]) \cap (delivered[f] \cup lost[f]) = {}
    /\ delivered[f] \cap lost[f] = {}

\* A retry queue never outgrows its limit (a limit of 0 still keeps one).
QueuesBounded == \A f \in Forwarder : Len(retry[f]) <= QueueLimit

\* A retry queue is oldest first and what it dropped is older than all it
\* holds, whatever the order of failures, drains and new messages.
QueuesOldestFirst ==
  \A f \in Forwarder :
    /\ \A i, j \in 1..Len(retry[f]) : i < j => retry[f][i] < retry[f][j]
    /\ \A i \in 1..Len(retry[f]), m \in lost[f] : m < retry[f][i]

\* The client stops between messages, never halfway through a fan-out.
StopsBetweenMessages ==
  phase \in Terminal => \A f \in Forwarder : Handled(f) = 1..read

\* The retry queues are sound: each forwarder has every message in exactly one
\* place, no queue outgrows its limit or loses its order, and the client stops
\* with every fan-out complete (forward_message, enqueue_retry, drain_retry_queue).
RetryQueuesSound ==
  EveryMessageAccounted /\ QueuesBounded /\ QueuesOldestFirst /\ StopsBetweenMessages

\* Messages that had to wait are delivered in the order they were received.
RetriesInOrder ==
  [][\A f \in Forwarder : retried'[f] # retried[f] => retried'[f] > retried[f]]_vars

\* FeedClient keeps the promise of module Delivery.
Status ==
  [f \in Forwarder |-> [m \in Message |->
     IF m \in delivered[f] THEN "delivered"
     ELSE IF m \in lost[f] THEN "lost"
     ELSE IF m \in Range(retry[f]) THEN "queued" ELSE "unseen"]]

Promise == INSTANCE Delivery WITH
  Backend <- Forwarder, Capacity <- QueueLimit, status <- Status

DeliveryPromise == Promise!Spec

\* A message that was read is fanned out to the end: no forwarder, and no full
\* MQTT request channel, holds up the others for ever.
FanoutCompletes == \A m \in Message : (read >= m) ~> (done >= m)

\* A shutdown requested while the client is not trying to reach dump1090 ends
\* run(): it is seen in every select and at the head of the loop.
ShutdownHonoured ==
  (shutdown /\ phase \notin {"connecting", "retrysleep"}) ~> (phase \in Terminal)

\* run() "Connects all forwarders": with the broker reachable every forwarder
\* is connected at some time.
ForwardersComeUp ==
  \A f \in Forwarder : <>(IsConnected(f) \/ phase \in Terminal)
=============================================================================
