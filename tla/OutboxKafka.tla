---------------------------- MODULE OutboxKafka -----------------------------
(***************************************************************************)
(* The relayer of Outbox with the publisher of api/outbox_kafka.py:        *)
(* publish() queues a message in librdkafka's producer and waits in        *)
(* flush() for its delivery report, at most 10 seconds, while the library  *)
(* itself gives a message up only after delivery.timeout.ms.  Two copies   *)
(* of one event in a producer's queue count as one message; the dead-letter*)
(* publisher is taken as synchronous.                                      *)
(***************************************************************************)
EXTENDS Outbox

CONSTANT
    FlushMayTimeOut \* delivery.timeout.ms is longer than flush(10.0) waits:
                    \* TRUE for the defaults, FALSE with a config override

ASSUME KafkaAssumption == FlushMayTimeOut \in BOOLEAN

VARIABLES
    queue,     \* queue[r]: messages of r's producer without a delivery report
    flushing,  \* flushing[r]: {e} while publish(e) waits in flush(), else {}
    failure    \* failure[r]: _delivery_failure is not None

producer == <<queue, flushing, failure>>
kafkaVars == <<outboxVars, producer>>

KafkaInit ==
    /\ Init
    /\ queue = [r \in Relayer |-> {}]
    /\ flushing = [r \in Relayer |-> {}]
    /\ failure = [r \in Relayer |-> FALSE]

\* publish() up to flush(): _delivery_failure = None; produce(...).
Produce(r, e) ==
    /\ Publishable(r, e)
    /\ flushing[r] = {}
    /\ queue' = [queue EXCEPT ![r] = @ \cup {e}]
    /\ flushing' = [flushing EXCEPT ![r] = {e}]
    /\ failure' = [failure EXCEPT ![r] = FALSE]
    /\ UNCHANGED outboxVars

\* produce() raises (the library's queue is full, the payload is no JSON):
\* nothing is queued, and the relayer counts the attempt.
ProduceRaises(r, e) ==
    /\ Publishable(r, e)
    /\ flushing[r] = {}
    /\ failure' = [failure EXCEPT ![r] = FALSE]
    /\ failures' = [failures EXCEPT
                       ![e] = IF @ < MaxAttempts THEN @ + 1 ELSE @]
    /\ bumped' = [bumped EXCEPT ![r] = @ \cup {e}]
    /\ Advance(r, e)
    /\ UNCHANGED <<marked, delivered, dlq, queue, flushing>>

\* The brokers store a queued message, at any time.
BrokerStores(r, e) ==
    /\ e \in queue[r]
    /\ delivered' = delivered \cup {e}
    /\ UNCHANGED <<row, createdAt, attempts, session, dlq, failures, producer>>

\* Delivery reports are served inside flush() only, whatever message they are
\* about: _on_delivery(None, msg) ...
AckReport(r, e) ==
    /\ flushing[r] # {}
    /\ e \in queue[r] \cap delivered
    /\ queue' = [queue EXCEPT ![r] = @ \ {e}]
    /\ UNCHANGED <<outboxVars, flushing, failure>>

\* ... and _on_delivery(err, msg), for one the library gave up.
FailReport(r, e) ==
    /\ flushing[r] # {}
    /\ e \in queue[r]
    /\ queue' = [queue EXCEPT ![r] = @ \ {e}]
    /\ failure' = [failure EXCEPT ![r] = TRUE]
    /\ UNCHANGED <<outboxVars, flushing>>

\* Mutant: poll(0) in place of flush(), nothing is waited for.
FlushDoneAtOnce(r) == flushing[r] # {}
\* flush(10.0) returns when the queue is empty or after ten seconds.
FlushDone(r) ==
    /\ flushing[r] # {}
    /\ queue[r] = {} \/ FlushMayTimeOut

\* publish() raises _delivery_failure: the relayer counts the attempt.
PublishRaises(r, e) ==
    /\ FlushDone(r)
    /\ e \in flushing[r]
    /\ failure[r]
    /\ flushing' = [flushing EXCEPT ![r] = {}]
    /\ failures' = [failures EXCEPT
                       ![e] = IF @ < MaxAttempts THEN @ + 1 ELSE @]
    /\ bumped' = [bumped EXCEPT ![r] = @ \cup {e}]
    /\ Advance(r, e)
    /\ UNCHANGED <<marked, delivered, dlq, queue, failure>>

\* Mutant: publish() never looks at _delivery_failure.
PublishReturnsAnyway(r, e) ==
    /\ FlushDone(r)
    /\ e \in flushing[r]
    /\ flushing' = [flushing EXCEPT ![r] = {}]
    /\ marked' = [marked EXCEPT ![r] = @ \cup {e}]
    /\ Advance(r, e)
    /\ UNCHANGED <<bumped, broker, queue, failure>>

\* publish() returns: the relayer marks the row processed.
PublishReturns(r, e) ==
    /\ FlushDone(r)
    /\ e \in flushing[r]
    /\ ~failure[r]
    /\ flushing' = [flushing EXCEPT ![r] = {}]
    /\ marked' = [marked EXCEPT ![r] = @ \cup {e}]
    /\ Advance(r, e)
    /\ UNCHANGED <<bumped, broker, queue, failure>>

\* The relayer's process dies, in a batch or between two, and its producer's
\* queue with it.
ProcessDies(r) ==
    /\ Crash(r) \/ (~busy[r] /\ UNCHANGED outboxVars)
    /\ queue' = [queue EXCEPT ![r] = {}]
    /\ flushing' = [flushing EXCEPT ![r] = {}]
    /\ failure' = [failure EXCEPT ![r] = FALSE]

\* s.commit() raises: run_forever() logs it and drains again.
CommitFails(r) ==
    /\ todo[r] = {}
    /\ Crash(r)
    /\ UNCHANGED producer

Delivery(r) ==
    \E e \in Event : \/ Produce(r, e)
                     \/ ProduceRaises(r, e)
                     \/ BrokerStores(r, e)
                     \/ AckReport(r, e)
                     \/ FailReport(r, e)
                     \/ PublishRaises(r, e)
                     \/ PublishReturns(r, e)

\* The steps of Outbox that do not call the primary publisher.
RestOfOutbox ==
    /\ \/ Application
       \/ \E r \in Relayer : SelectBatch(r) \/ CommitBatch(r)
       \/ \E r \in Relayer, e \in Event : PoisonToDLQ(r, e) \/ PoisonLeft(r, e)
       \/ ReplayStuckRows
       \/ PruneProcessed
    /\ UNCHANGED producer

KafkaNext ==
    \/ \E r \in Relayer : Delivery(r) \/ ProcessDies(r) \/ CommitFails(r)
    \/ RestOfOutbox

KafkaSpec == KafkaInit /\ [][KafkaNext]_kafkaVars
-----------------------------------------------------------------------------
KafkaTypeOK ==
    /\ TypeOK
    /\ queue \in [Relayer -> SUBSET Event]
    /\ flushing \in [Relayer -> SUBSET Event]
    /\ failure \in [Relayer -> BOOLEAN]

\* When flush() outlasts the delivery timeout, a failure that publish() raises
\* is that of its own event: no report of an earlier message can arrive.
ReportsAreOwn ==
    \A r \in Relayer : queue[r] \subseteq flushing[r]

\* publish() "blocks until the broker acks (or fails)" (outbox_kafka.py:88) and
\* "losing a row is not allowed" (outbox.py:25): a settled event is in a topic,
\* or at least some producer still holds it.
NoEventLostForGood ==
    \A e \in Settled : \/ e \in delivered \cup dlq
                       \/ \E r \in Relayer : e \in queue[r]
=============================================================================
