------------------------- MODULE IdempotentConsumer -------------------------
(***************************************************************************)
(* The Kafka consumer (internal/order/presentation/kafka_consumer.go): a   *)
(* group of processes, each with one IdempotentConsumer, whose sessions    *)
(* run one ConsumeClaim goroutine per partition.  processWithIdempotency   *)
(* looks an event up in processed_events, calls the handler and inserts    *)
(* the event in one transaction; the handler gets the context without that *)
(* transaction, so what it does is committed on its own.                   *)
(*                                                                         *)
(* One action is one database, handler or Kafka call.  Rebalances cancel a *)
(* session's context, the coordinator evicts a member that still works,    *)
(* calls fail, acknowledgements are lost and processes crash.              *)
(***************************************************************************)
EXTENDS Integers, FiniteSetsExt, SequencesExt

CONSTANTS
    Members,       \* processes of the consumer group
    Partitions,    \* partitions of the topic
    Events,        \* event ids
    NoId,          \* a message without the event_id header
    Poison,        \* events that the handler refuses whenever it is called
    MaxRetries,    \* failures after which an event goes to the DLQ
    MaxOpenConns,  \* size of a process's connection pool
    MaxFaults,     \* bound on failing calls, rebalances, evictions and crashes
    Nobody,        \* a partition that no member owns
    Messages       \* partition -> the messages published to it at first

ASSUME MaxRetriesAssumption == MaxRetries \in Nat
ASSUME MembersAssumption == IsFiniteSet(Members)
ASSUME PoisonAssumption == Poison \subseteq Events /\ NoId \notin Events
ASSUME NobodyAssumption == Nobody \notin Members
ASSUME MessagesAssumption == Messages \in [Partitions -> Seq(Events \cup {NoId})]
\* The copies of an event have one key, and with it one partition.
ASSUME CopiesAssumption ==
    \A p, q \in Partitions : p # q => Range(Messages[p]) \cap Range(Messages[q]) \subseteq {NoId}

VARIABLES
    \* Kafka
    log,         \* partition -> the messages stored in it
    committed,   \* partition -> the group's committed offset: messages done with
    owner,       \* partition -> the member the coordinator gave it to
    dlq,         \* events in the DLQ topic
    \* MySQL
    processed,   \* rows of processed_events of this group
    effects,     \* event -> how often the handler has done its work
    \* one process
    session,     \* member -> "none", "live", or "cancelled" (its context is done)
    retryCounts, \* member -> event -> failures counted in memory
    \* one ConsumeClaim goroutine
    pc,          \* member -> partition -> the call it makes next
    pos,         \* member -> partition -> offset of the message it is at
    marked,      \* member -> partition -> highest offset marked
    \* history
    failures,    \* event -> how often processing it has failed
    faults       \* faults so far (bounds the model)

kafka == <<log, committed, owner>>
claim == <<pc, pos, marked>>
vars == <<log, committed, owner, dlq, processed, effects, session, retryCounts,
          pc, pos, marked, failures, faults>>

None == [p \in Partitions |-> 0]

Init ==
    /\ log = Messages
    /\ committed = None
    /\ owner = [p \in Partitions |-> Nobody]
    /\ dlq = {}
    /\ processed = {}
    /\ effects = [e \in Events |-> 0]
    /\ session = [m \in Members |-> "none"]
    /\ retryCounts = [m \in Members |-> [e \in Events |-> 0]]
    /\ pc = [m \in Members |-> [p \in Partitions |-> "off"]]
    /\ pos = [m \in Members |-> None]
    /\ marked = [m \in Members |-> None]
    /\ failures = [e \in Events |-> 0]
    /\ faults = 0

Fault == faults < MaxFaults /\ faults' = faults + 1
NoFault == UNCHANGED faults

Current(m, p) == log[p][pos[m][p]]
Goto(m, p, label) == pc' = [pc EXCEPT ![m][p] = label]

\* Transactions of a process that hold a connection of its pool.
OpenTxs(m) == {p \in Partitions : pc[m][p] \in {"handle", "insert", "commit"}}

ConnectionFree(m) == Cardinality(OpenTxs(m)) < MaxOpenConns

\* A database call fails by itself, or because the session's context is done.
CallFails(m) == Fault \/ (session[m] = "cancelled" /\ NoFault)
-----------------------------------------------------------------------------
(* How a message ends: ConsumeClaim. *)

\* Mutation: the next message is marked as it is taken.
NextMessageMarked(m, p) ==
    /\ pos' = [pos EXCEPT ![m][p] = @ + 1]
    /\ Goto(m, p, "next")
    /\ marked' = [marked EXCEPT ![m][p] = Min({pos[m][p] + 1, Len(log[p])})]

\* On to the next message of the claim, without marking this one.
NextMessage(m, p) ==
    /\ pos' = [pos EXCEPT ![m][p] = @ + 1]
    /\ Goto(m, p, "next")
    /\ UNCHANGED marked

\* Mutation: the offset after the next one is marked.
MarkMessageTooFar(m, p) ==
    /\ marked' = [marked EXCEPT ![m][p] = Max({@, pos[m][p] + 1})]
    /\ pos' = [pos EXCEPT ![m][p] = @ + 1]
    /\ Goto(m, p, "next")

\* MarkMessage: everything up to this message is done with.
MarkMessage(m, p) ==
    /\ marked' = [marked EXCEPT ![m][p] = Max({@, pos[m][p]})]
    /\ pos' = [pos EXCEPT ![m][p] = @ + 1]
    /\ Goto(m, p, "next")

\* delete(c.retryCounts, eventID)
ForgetRetries(m, e) == retryCounts' = [retryCounts EXCEPT ![m][e] = 0]

\* Mutation: the failure before the last one is taken for the last.
FailedTooSoon(m, p) ==
    LET e == Current(m, p)
    IN  /\ retryCounts' = [retryCounts EXCEPT ![m][e] = @ + 1]
        /\ failures' = [failures EXCEPT ![e] = @ + 1]
        /\ IF retryCounts[m][e] + 2 >= MaxRetries
           THEN Goto(m, p, "dlq") /\ UNCHANGED <<pos, marked>>
           ELSE NextMessage(m, p)

\* Mutation: a message that failed is tried again, for ever.
FailedBlocks(m, p) ==
    /\ failures' = [failures EXCEPT ![Current(m, p)] = 1]
    /\ Goto(m, p, "next")
    /\ UNCHANGED <<retryCounts, pos, marked>>

\* processWithIdempotency has rolled back and returned an error.  Below
\* MaxRetries the loop simply goes on with the next message.
Failed(m, p) ==
    LET e == Current(m, p)
    IN  /\ retryCounts' = [retryCounts EXCEPT ![m][e] = @ + 1]
        /\ failures' = [failures EXCEPT ![e] = @ + 1]
        /\ IF retryCounts[m][e] + 1 >= MaxRetries
           THEN Goto(m, p, "dlq") /\ UNCHANGED <<pos, marked>>
           ELSE NextMessage(m, p)

\* It has returned nil.
Succeeded(m, p) ==
    /\ ForgetRetries(m, Current(m, p))
    /\ MarkMessage(m, p)
    /\ UNCHANGED failures

\* A message without the header is marked and skipped.
SkipUnidentified(m, p) ==
    /\ pc[m][p] = "next"
    /\ pos[m][p] <= Len(log[p])
    /\ Current(m, p) = NoId
    /\ MarkMessage(m, p)
    /\ UNCHANGED <<kafka, dlq, processed, effects, session, retryCounts, failures, faults>>

\* publishToDLQ, whose error is only logged; the message is marked either way.
\* The producer ignores the context.
PublishToDLQ(m, p) ==
    /\ pc[m][p] = "dlq"
    /\ \/ dlq' = dlq \cup {Current(m, p)} /\ NoFault
       \/ UNCHANGED dlq /\ Fault
    /\ MarkMessage(m, p)
    /\ ForgetRetries(m, Current(m, p))
    /\ UNCHANGED <<kafka, processed, effects, session, failures>>
-----------------------------------------------------------------------------
(* processWithIdempotency. *)

AtMessage(m, p) ==
    /\ pc[m][p] = "next"
    /\ pos[m][p] <= Len(log[p])
    /\ Current(m, p) # NoId

\* Mutation: duplicates are not looked for.
CheckNothing(m, p) ==
    /\ AtMessage(m, p)
    /\ session[m] = "live"
    /\ ConnectionFree(m)
    /\ Goto(m, p, "handle")
    /\ UNCHANGED <<kafka, dlq, processed, effects, session, retryCounts, pos, marked,
                   failures, faults>>

\* BeginTxx waits for a connection; SELECT COUNT(*) sees committed rows only.
Check(m, p) ==
    /\ AtMessage(m, p)
    /\ session[m] = "live"
    /\ ConnectionFree(m)
    /\ IF Current(m, p) \in processed
       THEN Succeeded(m, p)
       ELSE Goto(m, p, "handle") /\ UNCHANGED <<retryCounts, pos, marked, failures>>
    /\ UNCHANGED <<kafka, dlq, processed, effects, session, faults>>

CheckFails(m, p) ==
    /\ AtMessage(m, p)
    /\ CallFails(m)
    /\ Failed(m, p)
    /\ UNCHANGED <<kafka, dlq, processed, effects, session>>

\* The handler does its work on a connection of its own, next to the one its
\* caller's transaction holds ...
HandlerWorks(m, p) ==
    /\ ConnectionFree(m)
    /\ effects' = [effects EXCEPT ![Current(m, p)] = @ + 1]

Handle(m, p) ==
    /\ pc[m][p] = "handle"
    /\ Current(m, p) \notin Poison
    /\ HandlerWorks(m, p)
    /\ Goto(m, p, "insert")
    /\ UNCHANGED <<kafka, dlq, processed, session, retryCounts, pos, marked,
                   failures, faults>>

\* ... or returns an error, with its work done or not: its commit does not wait for
\* the caller's.
HandlerFails(m, p) ==
    /\ pc[m][p] = "handle"
    /\ Current(m, p) \notin Poison
    /\ CallFails(m)
    /\ HandlerWorks(m, p) \/ UNCHANGED effects
    /\ Failed(m, p)
    /\ UNCHANGED <<kafka, dlq, processed, session>>

\* A poisonous event is refused before any work: it does not parse, say.
HandlerRefuses(m, p) ==
    /\ pc[m][p] = "handle"
    /\ Current(m, p) \in Poison
    /\ NoFault
    /\ Failed(m, p)
    /\ UNCHANGED <<kafka, dlq, processed, effects, session>>

\* Another transaction that has inserted the same row and not ended yet.
RowLocked(m, p) ==
    \E n \in Members, q \in Partitions :
        /\ <<n, q>> # <<m, p>>
        /\ pc[n][q] = "commit"
        /\ Current(n, q) = Current(m, p)

\* INSERT waits for such a row; the primary key refuses a committed one.
InsertProcessed(m, p) ==
    /\ pc[m][p] = "insert"
    /\ session[m] = "live"
    /\ ~RowLocked(m, p)
    /\ IF Current(m, p) \in processed
       THEN Failed(m, p)
       ELSE Goto(m, p, "commit") /\ UNCHANGED <<retryCounts, pos, marked, failures>>
    /\ UNCHANGED <<kafka, dlq, processed, effects, session, faults>>

InsertFails(m, p) ==
    /\ pc[m][p] = "insert"
    /\ CallFails(m)
    /\ Failed(m, p)
    /\ UNCHANGED <<kafka, dlq, processed, effects, session>>

Commit(m, p) ==
    /\ pc[m][p] = "commit"
    /\ session[m] = "live"
    /\ processed' = processed \cup {Current(m, p)}
    /\ Succeeded(m, p)
    /\ UNCHANGED <<kafka, dlq, effects, session, faults>>

\* The commit fails, or has happened and only its acknowledgement is lost.
CommitFails(m, p) ==
    /\ pc[m][p] = "commit"
    /\ CallFails(m)
    /\ processed' \in {processed, processed \cup {Current(m, p)}}
    /\ Failed(m, p)
    /\ UNCHANGED <<kafka, dlq, effects, session>>
-----------------------------------------------------------------------------
(* The consumer group: sarama and the coordinator. *)

\* A session starts at the committed offsets of the partitions it is given, all
\* that are free if nobody else can take them.  A partition without one is read
\* from its first message: the repository does not set the group up, and sarama's
\* default (OffsetNewest) would skip what was published before.
Free == {p \in Partitions : owner[p] = Nobody}
StartSession(m) ==
    /\ session[m] = "none"
    /\ \E given \in SUBSET Free \ {{}} :
          /\ given = Free \/ \E n \in Members \ {m} : session[n] = "none"
          /\ owner' = [p \in Partitions |-> IF p \in given THEN m ELSE owner[p]]
          /\ pc' = [pc EXCEPT ![m] = [p \in Partitions |-> IF p \in given THEN "next" ELSE "off"]]
          /\ pos' = [pos EXCEPT ![m] = [p \in Partitions |-> IF p \in given THEN committed[p] + 1 ELSE 0]]
          /\ marked' = [marked EXCEPT ![m] = [p \in Partitions |-> IF p \in given THEN committed[p] ELSE 0]]
    /\ session' = [session EXCEPT ![m] = "live"]
    /\ UNCHANGED <<log, committed, dlq, processed, effects, retryCounts, failures, faults>>

\* The marked offset is committed from time to time, if the coordinator still
\* knows the member as the owner.
FlushOffset(m, p) ==
    /\ owner[p] = m
    /\ committed[p] # marked[m][p]
    /\ committed' = [committed EXCEPT ![p] = marked[m][p]]
    /\ UNCHANGED <<log, owner, dlq, processed, effects, session, retryCounts, claim,
                   failures, faults>>

\* A rebalance cancels the session's context; a member that was evicted
\* notices it at its next heartbeat.
Evicted(m) == \A p \in Partitions : owner[p] # m
CancelSession(m) ==
    /\ session[m] = "live"
    /\ IF Evicted(m) THEN NoFault ELSE Fault
    /\ session' = [session EXCEPT ![m] = "cancelled"]
    /\ UNCHANGED <<kafka, dlq, processed, effects, retryCounts, claim, failures>>

\* The heartbeats of a member stay out: the coordinator gives its partitions
\* away while it is still working on them.
Evict(m) ==
    /\ session[m] # "none"
    /\ ~Evicted(m)
    /\ Fault
    /\ owner' = [p \in Partitions |-> IF owner[p] = m THEN Nobody ELSE owner[p]]
    /\ UNCHANGED <<log, committed, dlq, processed, effects, session, retryCounts, claim,
                   failures>>

\* The claim's channel closes when the context is done; messages that were
\* buffered in it may still be taken first.
EndClaim(m, p) ==
    /\ pc[m][p] = "next"
    /\ session[m] = "cancelled"
    /\ Goto(m, p, "off")
    /\ UNCHANGED <<kafka, dlq, processed, effects, session, retryCounts, pos, marked,
                   failures, faults>>

\* The session ends when its claims have ended, with a last commit of what it
\* marked.  The retry counts stay with the consumer.
EndSession(m) ==
    /\ session[m] = "cancelled"
    /\ \A p \in Partitions : pc[m][p] = "off"
    /\ committed' = [p \in Partitions |-> IF owner[p] = m THEN marked[m][p] ELSE committed[p]]
    /\ owner' = [p \in Partitions |-> IF owner[p] = m THEN Nobody ELSE owner[p]]
    /\ session' = [session EXCEPT ![m] = "none"]
    /\ UNCHANGED <<log, dlq, processed, effects, retryCounts, claim, failures, faults>>

\* The process dies, also by a panic of the handler, which is raised again
\* after the rollback.  Marks and retry counts are lost.
Crash(m) ==
    /\ session[m] # "none"
    /\ Fault
    /\ owner' = [p \in Partitions |-> IF owner[p] = m THEN Nobody ELSE owner[p]]
    /\ session' = [session EXCEPT ![m] = "none"]
    /\ pc' = [pc EXCEPT ![m] = [p \in Partitions |-> "off"]]
    /\ retryCounts' = [retryCounts EXCEPT ![m] = [e \in Events |-> 0]]
    /\ UNCHANGED <<log, committed, dlq, processed, effects, pos, marked, failures>>
-----------------------------------------------------------------------------
Work(m, p) ==
    \/ SkipUnidentified(m, p) \/ PublishToDLQ(m, p)
    \/ Check(m, p) \/ CheckFails(m, p) \/ Handle(m, p)
    \/ HandlerFails(m, p) \/ HandlerRefuses(m, p)
    \/ InsertProcessed(m, p) \/ InsertFails(m, p) \/ Commit(m, p) \/ CommitFails(m, p)
    \/ EndClaim(m, p)

Member(m) ==
    \/ \E p \in Partitions : Work(m, p) \/ FlushOffset(m, p)
    \/ StartSession(m) \/ CancelSession(m) \/ Evict(m) \/ EndSession(m) \/ Crash(m)

\* The claims of all sessions wait for messages that never come.
Drained ==
    /\ \A p \in Partitions :
          /\ owner[p] # Nobody
          /\ pos[owner[p]][p] > Len(log[p])
          /\ marked[owner[p]][p] = committed[p]
    /\ UNCHANGED vars

Next == (\E m \in Members : Member(m)) \/ Drained

Spec == Init /\ [][Next]_vars

\* Goroutines run, offsets are flushed, a process without a session joins the
\* group again, and an evicted member notices.  Failing, rebalancing and
\* crashing are not fair.
Fairness ==
    \A m \in Members :
        /\ \A p \in Partitions : WF_vars(Work(m, p)) /\ WF_vars(FlushOffset(m, p))
        /\ WF_vars(StartSession(m))
        /\ WF_vars(EndSession(m))
        /\ WF_vars(Evicted(m) /\ CancelSession(m))

FairSpec == Spec /\ Fairness
-----------------------------------------------------------------------------
OnTopic(e) == \E p \in Partitions : e \in Range(log[p])
Tried(e) == e \in processed \/ failures[e] > 0

TypeOK ==
    /\ log \in [Partitions -> Seq(Events \cup {NoId})]
    /\ failures \in [Events -> Nat]
    /\ committed \in [Partitions -> Nat]
    /\ owner \in [Partitions -> Members \cup {Nobody}]
    /\ dlq \subseteq Events
    /\ processed \subseteq Events
    /\ effects \in [Events -> Nat]
    /\ session \in [Members -> {"none", "live", "cancelled"}]
    /\ retryCounts \in [Members -> [Events -> Nat]]
    /\ pc \in [Members -> [Partitions ->
                  {"off", "next", "handle", "insert", "commit", "dlq"}]]
    /\ pos \in [Members -> [Partitions -> Nat]]
    /\ marked \in [Members -> [Partitions -> Nat]]
    /\ \A m \in Members, p \in Partitions :
          /\ pc[m][p] # "off" => marked[m][p] < pos[m][p] /\ pos[m][p] <= Len(log[p]) + 1
          /\ pc[m][p] \notin {"off", "next"} => Current(m, p) \in Events

\* A row of processed_events means that the handler has done its work, and the
\* work is done once more only for a fault in between: copies of an event on
\* the topic, and members that work on one partition at the same time, cost
\* nothing by themselves.
EffectsCostFaults ==
    \A e \in Events :
        /\ e \in processed => effects[e] >= 1
        /\ effects[e] <= 1 + faults

SeenUpTo(p, n) ==
    /\ n <= Len(log[p])
    /\ \A i \in 1..n : log[p][i] = NoId \/ Tried(log[p][i])

\* The group's offset passes no message that nobody has looked at: each one was
\* processed, or has no id, or has failed, whatever crashed, was evicted or
\* committed its offset late.
NoMessageIsPassedUnseen == \A p \in Partitions : SeenUpTo(p, committed[p])

\* An event is dead-lettered only after MaxRetries failures; forgotten retry
\* counts can add to them but never take one away.
DeadLettersFailedOften == \A e \in dlq : failures[e] >= MaxRetries

\* The inductive companion of these: what a claim has marked or left behind was
\* looked at, only a live owner's marks reach the coordinator; an event on its way
\* to the DLQ has failed often enough.
ClaimOK(m, p) ==
    /\ SeenUpTo(p, marked[m][p])
    /\ pc[m][p] # "off" => SeenUpTo(p, pos[m][p] - 1)
    /\ pc[m][p] \notin {"off", "next"} => pos[m][p] <= Len(log[p])
    /\ pc[m][p] = "dlq" => failures[Current(m, p)] >= MaxRetries /\ Tried(Current(m, p))
    /\ owner[p] = m => session[m] # "none"

ConsumerOK ==
    /\ TypeOK
    /\ NoMessageIsPassedUnseen
    /\ DeadLettersFailedOften
    /\ \A m \in Members, e \in Events : retryCounts[m][e] <= failures[e]
    /\ \A m \in Members, p \in Partitions : ClaimOK(m, p)

\* Every message is looked at in the end: no transaction waits for a connection
\* or a row lock for ever, and no poisonous message stops the ones behind it.
EveryMessageIsTried == \A e \in Events : OnTopic(e) ~> Tried(e)

\* What the design promises (docs/00_Design.md sections 1 and 5.3): no data is lost,
\* an event that cannot be processed ends in the DLQ.
PassedMessagesAreKept ==
    \A p \in Partitions : \A i \in 1..committed[p] :
        log[p][i] \in Events => log[p][i] \in processed \cup dlq
=============================================================================
