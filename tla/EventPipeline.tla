---------------------------- MODULE EventPipeline ----------------------------
(***************************************************************************)
(* From the outbox to the effects of its events: the relay workers of a    *)
(* server that may be stopped (GracefulShutdown) and the consumer group of *)
(* IdempotentConsumer around one Kafka topic.  Kafka puts a message into   *)
(* the partition that the hash of its key selects, kafka_key being the     *)
(* aggregate of the event.                                                 *)
(***************************************************************************)
EXTENDS GracefulShutdown

CONSTANTS
    Members, Partitions, Poison, NoId, Nobody,
    ConsumerRetries,    \* MaxRetries of the consumer
    MaxOpenConns,
    HashOf              \* what is hashed -> partition

VARIABLES
    log,    \* partition -> its messages: all that the relay and the consumer share
    committed, owner, dlq, processed, effects, session, retryCounts,
    claimPc, pos, marked, failures

\* Mutation: events are spread over the partitions.
PartitionOfEvent(e) == HashOf[e]

\* sarama's default partitioner hashes the key of a message.
PartitionOf(e) == HashOf[KeyOf[e]]

ASSUME HashAssumption == \A e \in Events : PartitionOf(e) \in Partitions
\* What IdempotentConsumer assumes of its constants.
ASSUME ConsumerAssumption ==
    /\ IsFiniteSet(Members) /\ Nobody \notin Members
    /\ ConsumerRetries \in Nat
    /\ Poison \subseteq Events /\ NoId \notin Events

Consumer == INSTANCE IdempotentConsumer WITH
    pc <- claimPc, MaxRetries <- ConsumerRetries,
    Messages <- [p \in Partitions |-> <<>>]

relay == <<table, topic, kafkaUp, worker, shutdown>>
consumer == <<committed, owner, dlq, processed, effects, session, retryCounts,
              claimPc, pos, marked, failures>>
pipeline == <<serverVars, log, consumer>>

PipelineInit == ServerInit /\ Consumer!Init

\* A message that is stored is the last one of its partition.
Stored ==
    \/ topic' = topic /\ UNCHANGED log
    \/ \E e \in Events :
          /\ topic' = Append(topic, e)
          /\ log' = [log EXCEPT ![PartitionOf(e)] = Append(@, e)]

RelayStep == ServerStep /\ Stored /\ UNCHANGED consumer

\* The two parts have one budget of faults.
ConsumerStep == (\E m \in Members : Consumer!Member(m)) /\ UNCHANGED relay

\* Everything is settled in the outbox and read by the group.
Quiet == Idle /\ Consumer!Drained /\ UNCHANGED shutdown

PipelineNext == RelayStep \/ ConsumerStep \/ Quiet

PipelineSpec == PipelineInit /\ [][PipelineNext]_pipeline

\* The fairness of both parts.
PipelineFairness ==
    /\ \A w \in Workers : WF_pipeline(Serving(w) /\ Stored /\ UNCHANGED consumer)
    /\ \A e \in Events : WF_pipeline(Grow(e) /\ UNCHANGED <<shutdown, log, consumer>>)
    /\ WF_pipeline(KafkaRecovers /\ UNCHANGED <<shutdown, log, consumer>>)
    /\ WF_pipeline(CancelRelay /\ UNCHANGED <<log, consumer>>)
    /\ WF_pipeline(ExitAndRestart /\ UNCHANGED <<log, consumer>>)
    /\ \A m \in Members :
          /\ \A p \in Partitions :
                /\ WF_pipeline(Consumer!Work(m, p) /\ UNCHANGED relay)
                /\ WF_pipeline(Consumer!FlushOffset(m, p) /\ UNCHANGED relay)
          /\ WF_pipeline(Consumer!StartSession(m) /\ UNCHANGED relay)
          /\ WF_pipeline(Consumer!EndSession(m) /\ UNCHANGED relay)
          /\ WF_pipeline(Consumer!Evicted(m) /\ Consumer!CancelSession(m) /\ UNCHANGED relay)

FairPipelineSpec == PipelineSpec /\ PipelineFairness
-----------------------------------------------------------------------------
\* The copies that the relay makes of an event, by crashes, lost acks, failed
\* marks and shutdowns, have no effect at the consumer: its effect is repeated only
\* for a fault of the consumer itself, or of a relay that made none of them.
OneEffectPerFault ==
    \A e \in Events :
        /\ effects[e] > 0 => status[e] # "absent"
        /\ effects[e] <= 1 + faults + stops - (IF Copies(e) > 1 THEN Copies(e) - 1 ELSE 0)

\* Events of one aggregate take effect in the order of its transactions, unless the
\* relay had to retry the earlier one or was stopped, or the consumer failed on it.
EffectsKeepKeyOrder ==
    \A d, e \in Events :
        KeyOf[d] = KeyOf[e] /\ d < e /\ effects[e] > 0 =>
            effects[d] > 0 \/ retries[d] + failures[d] + faults + stops > 0

\* An event that the outbox takes for sent is still ahead of the group, in the
\* partition of its key, or the group has looked at it: nothing is lost between the
\* two, whatever crashed, was stopped, evicted or rebalanced.
SentIsAheadOrTried ==
    \A e \in Events : status[e] = "SENT" =>
        \/ Consumer!Tried(e)
        \/ \E i \in 1..Len(log[PartitionOf(e)]) :
              i > committed[PartitionOf(e)] /\ log[PartitionOf(e)][i] = e

\* Every committed event is dealt with in the end: it is processed, or a row FAILED
\* or a failure of the consumer is left for someone to look at.
EveryEventLeavesATrace ==
    \A e \in Events :
        status[e] = "PENDING" ~> e \in processed \/ status[e] = "FAILED" \/ failures[e] > 0
=============================================================================
