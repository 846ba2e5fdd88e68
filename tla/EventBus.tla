------------------------------ MODULE EventBus ------------------------------
(***************************************************************************)
(* From the outbox to the consumers of an event (pkg/mq): Debezium reads   *)
(* the committed rows of event_outbox and produces them to a topic; a      *)
(* kafkabus.Subscriber and a natsbus.JSSubscriber each handle them.  The   *)
(* topic has one partition, JetStream one durable consumer.  Debezium, the *)
(* brokers and the handler are external: the connector resumes from the    *)
(* position it saved last, so it may produce a row again; a Kafka group    *)
(* resumes after the offset it committed last; JetStream delivers a        *)
(* message again until it is acknowledged; a handler may fail.             *)
(***************************************************************************)
EXTENDS Accounts   \* outbox

CONSTANT MaxTroubles   \* bound on restarts and failures of the handlers

ASSUME TroubleAssumption == MaxTroubles \in Nat

VARIABLES
    topic,      \* what the connector has produced
    read,       \* rows it has read
    saved,      \* rows it has read, as of its last saved position
    position,   \* Kafka: messages fetched by the reader
    step,       \* Kafka: what Start does with the message at position
    committed,  \* Kafka: the committed offset
    taken,      \* Kafka: messages handled without an error
    acked,      \* JetStream: messages acknowledged
    failed,     \* history: messages a Kafka handler has failed on
    troubles    \* history: restarts and failures so far

bus == <<topic, read, saved, position, step, committed, taken, acked, failed, troubles>>

BusTypeOK ==
    /\ read \in 0..Len(outbox) /\ saved \in 0..read
    /\ topic \in Seq({outbox[i] : i \in 1..Len(outbox)})
    /\ position \in 0..Len(topic) /\ committed \in 0..Len(topic)
    /\ step \in {"fetch", "handle", "commit"}
    /\ taken \subseteq 1..Len(topic) /\ acked \subseteq 1..Len(topic) /\ failed \subseteq 1..Len(topic)
    /\ troubles \in Nat

BusInit ==
    /\ topic = <<>> /\ read = 0 /\ saved = 0
    /\ position = 0 /\ step = "fetch" /\ committed = 0
    /\ taken = {} /\ acked = {} /\ failed = {}
    /\ troubles = 0

Trouble == troubles < MaxTroubles /\ troubles' = troubles + 1

-----------------------------------------------------------------------------
(* The connector (external)                                                *)

Relay ==
    /\ read < Len(outbox)
    /\ topic' = Append(topic, outbox[read + 1])
    /\ read' = read + 1
    /\ UNCHANGED <<outbox, saved, position, step, committed, taken, acked, failed, troubles>>

\* Mutant: the saved position counts a row that is not read yet.
SavePositionAhead ==
    /\ saved < read
    /\ saved' = read + 1
    /\ UNCHANGED <<outbox, topic, read, position, step, committed, taken, acked, failed, troubles>>

SavePosition ==
    /\ saved < read
    /\ saved' = read
    /\ UNCHANGED <<outbox, topic, read, position, step, committed, taken, acked, failed, troubles>>

ConnectorRestart ==
    /\ Trouble
    /\ read' = saved
    /\ UNCHANGED <<outbox, topic, saved, position, step, committed, taken, acked, failed>>

-----------------------------------------------------------------------------
(* kafkabus.Subscriber.Start                                               *)

\* Mutant: ReadMessage, which commits what it returns.
FetchCommits ==
    /\ step = "fetch" /\ position < Len(topic)
    /\ position' = position + 1
    /\ committed' = position + 1
    /\ step' = "handle"
    /\ UNCHANGED <<outbox, topic, read, saved, taken, acked, failed, troubles>>

\* FetchMessage goes on after the message it fetched last, handled or not.
Fetch ==
    /\ step = "fetch" /\ position < Len(topic)
    /\ position' = position + 1
    /\ step' = "handle"
    /\ UNCHANGED <<outbox, topic, read, saved, committed, taken, acked, failed, troubles>>

Handle ==
    /\ step = "handle"
    /\ taken' = taken \cup {position}
    /\ step' = "commit"
    /\ UNCHANGED <<outbox, topic, read, saved, position, committed, acked, failed, troubles>>

\* An error: `continue` with the next message.
HandleFails ==
    /\ step = "handle"
    /\ Trouble
    /\ failed' = failed \cup {position}
    /\ step' = "fetch"
    /\ UNCHANGED <<outbox, topic, read, saved, position, committed, taken, acked>>

\* CommitMessages commits the offset of this message, and with it every earlier one.
CommitOffset ==
    /\ step = "commit"
    /\ committed' = position
    /\ step' = "fetch"
    /\ UNCHANGED <<outbox, topic, read, saved, position, taken, acked, failed, troubles>>

\* Its error is dropped.
CommitFails ==
    /\ step = "commit"
    /\ Trouble
    /\ step' = "fetch"
    /\ UNCHANGED <<outbox, topic, read, saved, position, committed, taken, acked, failed>>

\* Mutant: a group whose committed offset is 0 starts at the end of the topic.
SubscriberRestartAtEnd ==
    /\ Trouble
    /\ position' = IF committed = 0 THEN Len(topic) ELSE committed
    /\ step' = "fetch"
    /\ UNCHANGED <<outbox, topic, read, saved, committed, taken, acked, failed>>

\* The process dies, or the group is rebalanced.
SubscriberRestart ==
    /\ Trouble
    /\ position' = committed
    /\ step' = "fetch"
    /\ UNCHANGED <<outbox, topic, read, saved, committed, taken, acked, failed>>

-----------------------------------------------------------------------------
(* natsbus.JSSubscriber.Start                                              *)

\* The handler fails or the process dies: Nak, or no answer; JetStream delivers the
\* message again.
Nak ==
    /\ acked # 1..Len(topic)
    /\ Trouble
    /\ UNCHANGED <<outbox, topic, read, saved, position, step, committed, taken, acked, failed>>

\* A message that is pending is delivered, handled and acknowledged.
Ack ==
    /\ \E i \in (1..Len(topic)) \ acked : acked' = acked \cup {i}
    /\ UNCHANGED <<outbox, topic, read, saved, position, step, committed, taken, failed, troubles>>

-----------------------------------------------------------------------------
Subscribe == Fetch \/ Handle \/ CommitOffset
BusTrouble == ConnectorRestart \/ HandleFails \/ CommitFails \/ SubscriberRestart \/ Nak
BusNext == Relay \/ SavePosition \/ Subscribe \/ Ack \/ BusTrouble

\* The offset passes a message only after its handler has run: an event that Kafka
\* will not deliver again was taken, or its handler failed and the commit of a later
\* message covered it.  No restart of connector or subscriber loses any other.
PassedOnlyAfterHandling == \A i \in 1..committed : i \in taken \cup failed

=============================================================================
