---------------------------- MODULE OutboxRelay -----------------------------
(***************************************************************************)
(* The relay workers (internal/outbox/relay.go) that move committed rows   *)
(* of outbox_events to Kafka.  Every worker polls, sends its batch one     *)
(* event at a time and marks what was sent at the end; each database call  *)
(* is a statement of its own (autocommit), so the row locks of             *)
(* SELECT ... FOR UPDATE SKIP LOCKED are gone when FetchPending returns.   *)
(*                                                                         *)
(* One action is one database or Kafka call.  Database calls fail, a send  *)
(* fails with or without having stored the message, Kafka is away for a    *)
(* time, and the process crashes and restarts.                             *)
(***************************************************************************)
EXTENDS Integers, Sequences, FiniteSets, Functions

CONSTANTS
    Workers,      \* the goroutines running Relay.Start
    Events,       \* rows that the order service may commit: their ids
    KeyOf,        \* event -> kafka_key, the aggregate it belongs to
    BatchSize,    \* rows that one poll fetches
    MaxRetries,   \* failed sends after which an event is marked FAILED
    MaxCount,     \* what the column retry_count can hold (TINYINT UNSIGNED: 255)
    MaxFaults     \* bound on database errors, lost acks and crashes

ASSUME EventsAssumption == Events \subseteq Nat /\ IsFiniteSet(Events)
\* config.Load refuses a batch size below 1 but takes any number of retries.
ASSUME BoundsAssumption ==
    BatchSize \in Nat \ {0} /\ MaxRetries \in Int /\ MaxFaults \in Nat
\* The column can count all retries; with more of them than it counts, the count would
\* stand still below and the relay try an event for ever.
ASSUME ColumnAssumption == MaxCount \in Nat \ {0} /\ MaxRetries <= MaxCount

VARIABLES
    status,     \* event -> "absent" before its commit, then the status column
    retries,    \* event -> the retry_count column
    age,        \* event -> the largest k with created_at < NOW() - 2^k seconds
    topic,      \* the messages stored by Kafka, in order
    kafkaUp,    \* whether the brokers answer
    pc,         \* worker -> the call it makes next
    batch,      \* worker -> rows fetched and not yet sent, as <<id, retries>>
    sent,       \* worker -> sentIDs
    faults      \* faults so far (bounds the model)

table == <<status, retries, age>>
worker == <<pc, batch, sent>>
vars == <<status, retries, age, topic, kafkaUp, pc, batch, sent, faults>>

Init ==
    /\ status = [e \in Events |-> "absent"]
    /\ retries = [e \in Events |-> 0]
    /\ age = [e \in Events |-> 0]
    /\ topic = <<>>
    /\ kafkaUp = TRUE
    /\ pc = [w \in Workers |-> "poll"]
    /\ batch = [w \in Workers |-> <<>>]
    /\ sent = [w \in Workers |-> {}]
    /\ faults = 0

Fault == faults < MaxFaults /\ faults' = faults + 1
NoFault == UNCHANGED faults
Goto(w, label) == pc' = [pc EXCEPT ![w] = label]
Current(w) == Head(batch[w])
-----------------------------------------------------------------------------
(* The order service and the clock. *)

\* A transaction commits its outbox row.  For one aggregate rows appear in id
\* order (OrderService, OutboxGrowsInKeyOrder); across aggregates in any.
NewRow(e) ==
    /\ status[e] = "absent"
    /\ \A d \in Events : KeyOf[d] = KeyOf[e] /\ d < e => status[d] # "absent"
    /\ status' = [status EXCEPT ![e] = "PENDING"]
    /\ UNCHANGED <<retries, topic, kafkaUp, worker, faults>>

CommitEvent(e) == NewRow(e) /\ UNCHANGED age

\* The next exponent of POW(2, retry_count) is reached.  It takes any time: what the
\* clocks of the application and of the database show is left to RelayBackoff.
Grow(e) ==
    /\ status[e] = "PENDING"
    /\ age[e] < retries[e]
    /\ age' = [age EXCEPT ![e] = @ + 1]
    /\ UNCHANGED <<status, retries, topic, kafkaUp, worker, faults>>

KafkaFails ==
    /\ kafkaUp
    /\ kafkaUp' = FALSE
    /\ UNCHANGED <<table, topic, worker, faults>>

KafkaRecovers ==
    /\ ~kafkaUp
    /\ kafkaUp' = TRUE
    /\ UNCHANGED <<table, topic, worker, faults>>
-----------------------------------------------------------------------------
(* One worker: pollAndPublish. *)

\* Mutation: no backoff.
DueAtOnce(e) == status[e] = "PENDING"

\* Mutation: an event that was tried before is never fetched again.
DueOnce(e) == status[e] = "PENDING" /\ retries[e] = 0

\* WHERE status = 'PENDING' AND (retry_count = 0 OR the backoff has passed):
\* the backoff counts from created_at, not from the last attempt.
Due(e) == status[e] = "PENDING" /\ (retries[e] = 0 \/ age[e] >= retries[e])

\* SKIP LOCKED leaves out rows that a statement of another worker holds at
\* that moment.
LockedByAnother(w) ==
    {e \in Events : \E v \in Workers \ {w} :
        \/ pc[v] = "poll"
        \/ pc[v] = "markSent" /\ e \in sent[v]
        \/ pc[v] \in {"increment", "markFailed"} /\ e = Current(v)[1]}

Limit(due) == IF Cardinality(due) < BatchSize THEN Cardinality(due) ELSE BatchSize

\* Mutation: ORDER BY id DESC.
BatchesNewestFirst(due) ==
    {rows \in [1..Limit(due) -> due] :
        /\ \A i, j \in 1..Limit(due) : i < j => rows[i] > rows[j]
        /\ \A e \in due \ Range(rows), i \in 1..Limit(due) : rows[i] > e}

\* ORDER BY id LIMIT BatchSize: the one sequence of the first rows that are due.
Batches(due) ==
    {rows \in [1..Limit(due) -> due] :
        /\ \A i, j \in 1..Limit(due) : i < j => rows[i] < rows[j]
        /\ \A e \in due \ Range(rows), i \in 1..Limit(due) : rows[i] < e}

\* FetchPending.  Its error only ends the poll.
FetchPending(w) ==
    /\ pc[w] = "poll"
    /\ \E skipped \in SUBSET LockedByAnother(w) :
          LET due == {e \in Events \ skipped : Due(e)}
          IN  /\ due # {}
              /\ \E rows \in Batches(due) :
                    batch' = [batch EXCEPT ![w] =
                                [i \in 1..Limit(due) |-> <<rows[i], retries[rows[i]]>>]]
    /\ Goto(w, "send")
    /\ UNCHANGED <<table, topic, kafkaUp, sent, faults>>

\* Mutation: the worker never marks a batch.
NextEventIgnoringEnd(w, ids) ==
    /\ batch' = [batch EXCEPT ![w] = Tail(@)]
    /\ sent' = [sent EXCEPT ![w] = ids]
    /\ Goto(w, IF Len(batch[w]) > 1 THEN "send" ELSE "done")

\* The loop goes on with the next event of the batch, or ends.
NextEvent(w, ids) ==
    /\ batch' = [batch EXCEPT ![w] = Tail(@)]
    /\ sent' = [sent EXCEPT ![w] = ids]
    /\ Goto(w, IF Len(batch[w]) > 1 THEN "send"
               ELSE IF ids = {} THEN "poll" ELSE "markSent")

\* Mutation: an event counts as sent whatever SendMessage returns.
SendFailsUnnoticed(w) ==
    /\ pc[w] = "send"
    /\ ~kafkaUp
    /\ NextEvent(w, sent[w] \cup {Current(w)[1]})
    /\ UNCHANGED <<table, topic, kafkaUp, faults>>

\* SendMessage returns without an error: acks=all, the message is stored.
SendAcked(w) ==
    /\ pc[w] = "send"
    /\ kafkaUp
    /\ topic' = Append(topic, Current(w)[1])
    /\ NextEvent(w, sent[w] \cup {Current(w)[1]})
    /\ UNCHANGED <<table, kafkaUp, faults>>

\* SendMessage returns an error and the brokers have nothing ...
SendFails(w) ==
    /\ pc[w] = "send"
    /\ ~kafkaUp
    /\ Goto(w, "increment")
    /\ UNCHANGED <<table, topic, kafkaUp, batch, sent, faults>>

\* ... or they have stored the message and the acknowledgement was lost.
SendAckLost(w) ==
    /\ pc[w] = "send"
    /\ kafkaUp
    /\ Fault
    /\ topic' = Append(topic, Current(w)[1])
    /\ Goto(w, "increment")
    /\ UNCHANGED <<table, kafkaUp, batch, sent>>

\* Mutation: one attempt too few.
LastAttemptOffByOne(w) == Current(w)[2] + 2 >= MaxRetries

\* Mutation: the row is asked how often the event has failed, not the batch.
LastAttemptOfRow(w) == retries[Current(w)[1]] + 1 >= MaxRetries

\* evt.RetryCount is the value fetched with the batch.
LastAttempt(w) == Current(w)[2] + 1 >= MaxRetries

\* IncrementRetry; its error is ignored, also that of a column at its limit.
IncrementRetry(w) ==
    /\ pc[w] = "increment"
    /\ LET e == Current(w)[1]
       IN  \/ retries[e] < MaxCount /\ retries' = [retries EXCEPT ![e] = @ + 1] /\ NoFault
           \/ retries[e] >= MaxCount /\ UNCHANGED retries /\ NoFault
           \/ UNCHANGED retries /\ Fault
    /\ IF LastAttempt(w) THEN Goto(w, "markFailed") /\ UNCHANGED <<batch, sent>>
       ELSE NextEvent(w, sent[w])
    /\ UNCHANGED <<status, age, topic, kafkaUp>>

\* MarkFailed, whatever the status is by now; its error is ignored.
MarkFailed(w) ==
    /\ pc[w] = "markFailed"
    /\ \/ status' = [status EXCEPT ![Current(w)[1]] = "FAILED"] /\ NoFault
       \/ UNCHANGED status /\ Fault
    /\ NextEvent(w, sent[w])
    /\ UNCHANGED <<retries, age, topic, kafkaUp>>

\* Mutation: rows go back to PENDING when an event of their batch failed.
MarkSentResetsBatch(w) ==
    /\ pc[w] = "markSent"
    /\ status' = [e \in Events |-> IF e \in sent[w] THEN "SENT"
                                  ELSE IF status[e] = "FAILED" THEN "PENDING" ELSE status[e]]
    /\ sent' = [sent EXCEPT ![w] = {}]
    /\ Goto(w, "poll")
    /\ UNCHANGED <<retries, age, topic, kafkaUp, batch, faults>>

\* MarkSent for the whole batch in one statement, whatever the status is by
\* now.  After an error the events stay PENDING.
MarkSent(w) ==
    /\ pc[w] = "markSent"
    /\ \/ status' = [e \in Events |-> IF e \in sent[w] THEN "SENT" ELSE status[e]] /\ NoFault
       \/ UNCHANGED status /\ Fault
    /\ sent' = [sent EXCEPT ![w] = {}]
    /\ Goto(w, "poll")
    /\ UNCHANGED <<retries, age, topic, kafkaUp, batch>>

\* The process dies and is started again: batches and sentIDs are lost.
Crash ==
    /\ \E w \in Workers : pc[w] # "poll"
    /\ Fault
    /\ pc' = [w \in Workers |-> "poll"]
    /\ batch' = [w \in Workers |-> <<>>]
    /\ sent' = [w \in Workers |-> {}]
    /\ UNCHANGED <<table, topic, kafkaUp>>
-----------------------------------------------------------------------------
\* Everything is committed and settled, and the workers poll in vain.
Idle ==
    /\ \A e \in Events : status[e] \in {"SENT", "FAILED"}
    /\ \A w \in Workers : pc[w] = "poll"
    /\ UNCHANGED vars

Work(w) ==
    \/ FetchPending(w) \/ SendAcked(w) \/ SendFails(w) \/ SendAckLost(w)
    \/ IncrementRetry(w) \/ MarkFailed(w) \/ MarkSent(w)

Environment ==
    \/ \E e \in Events : CommitEvent(e)
    \/ KafkaFails \/ KafkaRecovers \/ Crash

Next ==
    \/ \E w \in Workers : Work(w)
    \/ \E e \in Events : Grow(e)
    \/ Environment
    \/ Idle

Spec == Init /\ [][Next]_vars

\* The ticker keeps a worker polling, time passes, and an outage of Kafka ends.
Fairness ==
    /\ \A w \in Workers : WF_vars(Work(w))
    /\ \A e \in Events : WF_vars(Grow(e))
    /\ WF_vars(KafkaRecovers)

FairSpec == Spec /\ Fairness
-----------------------------------------------------------------------------
Published(e) == e \in Range(topic)
Copies(e) == Cardinality({i \in DOMAIN topic : topic[i] = e})
FirstAt(e) == CHOOSE i \in DOMAIN topic : topic[i] = e /\ \A j \in 1..i - 1 : topic[j] # e

TypeOK ==
    /\ status \in [Events -> {"absent", "PENDING", "SENT", "FAILED"}]
    /\ retries \in [Events -> Nat]
    /\ age \in [Events -> Nat]
    /\ topic \in Seq(Events)
    /\ pc \in [Workers -> {"poll", "send", "increment", "markFailed", "markSent"}]
    /\ batch \in [Workers -> Seq(Events \X Nat)]
    /\ sent \in [Workers -> SUBSET Events]
    /\ kafkaUp \in BOOLEAN /\ faults \in Nat

\* Only what Kafka has acknowledged is marked SENT, whatever crashed, failed or
\* ran twice before (docs/00_Design.md section 5.4: mark SENT only after the ack).
SentIsPublished == \A e \in Events : status[e] = "SENT" => Published(e)

\* An event is given up only after MaxRetries failed sends; a database error
\* can hide attempts from the counter but never adds one.
FailedAfterAllRetries ==
    \A e \in Events : status[e] = "FAILED" => retries[e] + faults >= MaxRetries

\* An event is given up only when NOW() has passed its created_at by MaxRetries - 1
\* doublings of the backoff, however many workers count attempts on it.  What that
\* means in seconds since the event, RelayBackoff says.
GivenUpOnlyAfterBackoff ==
    \A e \in Events : status[e] = "FAILED" => age[e] >= MaxRetries - 1

\* With one worker, SENT and FAILED are final.
StatusIsFinal ==
    [][\A e \in Events : status[e] \in {"SENT", "FAILED"} => status'[e] = status[e]]_vars

\* Every committed event is settled: no crash, error or outage leaves it
\* PENDING for ever.
EveryEventIsSettled ==
    \A e \in Events : status[e] = "PENDING" ~> status[e] \in {"SENT", "FAILED"}

\* Published events, statuses and nothing else: the relay implements the
\* at-least-once delivery that the transactional outbox is for.
AtLeastOnce == INSTANCE Delivery WITH published <- Range(topic)
ImplementsDelivery == AtLeastOnce!Spec

\* The inductive companion of the properties that hold for several workers: a
\* row in a batch is committed and its counters have not fallen below the
\* fetched count, and what counts as sent is on the topic.  A row that a worker
\* in Counting is about to give up has had its last attempt, and it is counted.
RowHolds(row) ==
    /\ status[row[1]] # "absent"
    /\ retries[row[1]] >= row[2]
    /\ age[row[1]] >= row[2]

Counted(w) ==
    /\ retries[Current(w)[1]] + faults >= MaxRetries
    /\ retries[Current(w)[1]] + faults > 0

WorkerOK(w, Counting) ==
    /\ pc[w] \in {"send", "increment", "markFailed"} => batch[w] # <<>>
    /\ \A i \in DOMAIN batch[w] : RowHolds(batch[w][i])
    /\ w \in Counting /\ pc[w] = "markFailed" => LastAttempt(w) /\ Counted(w)
    /\ sent[w] \subseteq Range(topic)

RelayOK(Counting) ==
    /\ TypeOK
    /\ SentIsPublished
    /\ FailedAfterAllRetries
    /\ GivenUpOnlyAfterBackoff
    /\ \A w \in Workers : WorkerOK(w, Counting)

\* What the design promises (docs/00_Design.md section 4.4): events pile up
\* while Kafka is away and are delivered when it is back, without loss.
NoEventIsLost == \A e \in Events : status[e] = "PENDING" ~> Published(e)

\* What the design promises (docs/00_Design.md section 3.3): with the aggregate
\* as Kafka key, the events of one entity keep their order.
KeyOrderIsKept ==
    \A d, e \in Events :
        KeyOf[d] = KeyOf[e] /\ d < e /\ Published(e) =>
            Published(d) /\ FirstAt(d) < FirstAt(e)
=============================================================================
