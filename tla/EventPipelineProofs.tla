------------------------- MODULE EventPipelineProofs -------------------------
(***************************************************************************)
(* Theorems about the whole way of an event, with any number of consumers, *)
(* partitions, events, faults and stops.  For any number of relay workers: *)
(* nothing that is SENT gets lost, and effects are repeated only for       *)
(* faults.  For a single one: not even for those faults that made a copy,  *)
(* and effects keep the order of a key.  What each part does comes from    *)
(* RelayProofs and ConsumerProofs; what joins them is proved here.         *)
(***************************************************************************)
EXTENDS EventPipeline, RelayProofs

C == INSTANCE ConsumerProofs WITH
    pc <- claimPc, MaxRetries <- ConsumerRetries,
    Messages <- [p \in Partitions |-> <<>>]

\* The copies an event may have, and the calls of the handler that it has had or
\* may have, share one budget of faults and stops.
Allowance == [e \in Events |-> 1 - C!Used(PartitionOf(e), e)]

\* The logs hold what is on the topic, each event in its own partition.
LogsOK ==
    /\ \A p \in Partitions : \A i \in 1..Len(log[p]) :
          /\ log[p][i] \in Events /\ PartitionOf(log[p][i]) = p
          /\ status[log[p][i]] # "absent" /\ Published(log[p][i])
    /\ \A e \in Events :
          Published(e) => \E i \in 1..Len(log[PartitionOf(e)]) : log[PartitionOf(e)][i] = e

LogsInOrder ==
    \A d, e \in Events :
       Before(d, e) /\ Smooth(d) =>
          \A p \in Partitions : \A j \in 1..Len(log[p]) :
             log[p][j] = e => \E i \in 1..Len(log[p]) : i < j /\ log[p][i] = d

\* What holds for any number of workers ...
FlowOK ==
    /\ ServerOK
    /\ C!ConsumerOK /\ C!HandledOK /\ C!HandledInTurn
    /\ \A e \in Events : C!Used(PartitionOf(e), e) <= 1 + faults
    /\ LogsOK

\* ... and for a single one.
PipelineOK(w) ==
    /\ FlowOK
    /\ AloneOK(w) /\ OrderOK(w) /\ CopiesOK(w, Allowance)
    /\ LogsInOrder

-----------------------------------------------------------------------------
(* The consumer of EventPipeline is the one of ConsumerProofs. *)

\* The logs are empty at first, so no event is in two of them.
LEMMA ConsumerConstants ==
    /\ C!MembersAssumption /\ C!CopiesAssumption /\ C!MaxRetriesAssumption
    /\ C!PoisonAssumption /\ C!NobodyAssumption /\ C!MessagesAssumption
<1>1. C!IsFiniteSet(Members)
  BY ConsumerAssumption DEF C!IsFiniteSet, IsFiniteSet
<1>2. \A p, q \in Partitions : p # q =>
         C!Range([r \in Partitions |-> <<>>][p]) \cap C!Range([r \in Partitions |-> <<>>][q])
            \subseteq {NoId}
  BY DEF C!Range
<1> QED
  BY ConsumerAssumption, <1>1, <1>2 DEF C!MembersAssumption, C!CopiesAssumption,
     C!MaxRetriesAssumption, C!PoisonAssumption, C!NobodyAssumption, C!MessagesAssumption

LEMMA SameInit == Consumer!Init => C!Init
BY DEF Consumer!Init, C!Init, Consumer!None, C!None

LEMMA SameSteps ==
    ASSUME NEW m \in Members, Consumer!Member(m)
    PROVE  C!Member(m)
<1> USE DEF Consumer!Max, C!Max, Consumer!Current, C!Current, Consumer!Goto, C!Goto, Consumer!kafka,
     C!kafka, Consumer!claim, C!claim, Consumer!ForgetRetries, C!ForgetRetries,
     Consumer!MarkMessage, C!MarkMessage, Consumer!Succeeded, C!Succeeded,
     Consumer!Failed, C!Failed, Consumer!NextMessage, C!NextMessage, Consumer!OpenTxs,
     C!OpenTxs, Consumer!ConnectionFree, C!ConnectionFree, Consumer!AtMessage,
     C!AtMessage, Consumer!RowLocked, C!RowLocked, Consumer!Free, C!Free,
     Consumer!CallFails, C!CallFails, Consumer!HandlerWorks, C!HandlerWorks,
     Consumer!Fault, C!Fault, Consumer!NoFault,
     C!NoFault, Consumer!Evicted, C!Evicted, Consumer!Cardinality, C!Cardinality
<1>1. ASSUME NEW p \in Partitions, Consumer!SkipUnidentified(m, p) PROVE C!SkipUnidentified(m, p)
  BY <1>1, Zenon DEF Consumer!SkipUnidentified, C!SkipUnidentified
<1>2. ASSUME NEW p \in Partitions, Consumer!PublishToDLQ(m, p) PROVE C!PublishToDLQ(m, p)
  BY <1>2, Zenon DEF Consumer!PublishToDLQ, C!PublishToDLQ
<1>3. ASSUME NEW p \in Partitions, Consumer!Check(m, p) PROVE C!Check(m, p)
  BY <1>3, Zenon DEF Consumer!Check, C!Check
<1>4. ASSUME NEW p \in Partitions, Consumer!CheckFails(m, p) PROVE C!CheckFails(m, p)
  BY <1>4, Zenon DEF Consumer!CheckFails, C!CheckFails
<1>5. ASSUME NEW p \in Partitions, Consumer!Handle(m, p) PROVE C!Handle(m, p)
  BY <1>5, Zenon DEF Consumer!Handle, C!Handle
<1>6. ASSUME NEW p \in Partitions, Consumer!HandlerRefuses(m, p) PROVE C!HandlerRefuses(m, p)
  BY <1>6, Zenon DEF Consumer!HandlerRefuses, C!HandlerRefuses
<1>7. ASSUME NEW p \in Partitions, Consumer!InsertProcessed(m, p) PROVE C!InsertProcessed(m, p)
  BY <1>7, Zenon DEF Consumer!InsertProcessed, C!InsertProcessed
<1>8. ASSUME NEW p \in Partitions, Consumer!InsertFails(m, p) PROVE C!InsertFails(m, p)
  BY <1>8, Zenon DEF Consumer!InsertFails, C!InsertFails
<1>9. ASSUME NEW p \in Partitions, Consumer!Commit(m, p) PROVE C!Commit(m, p)
  BY <1>9, Zenon DEF Consumer!Commit, C!Commit
<1>10. ASSUME NEW p \in Partitions, Consumer!CommitFails(m, p) PROVE C!CommitFails(m, p)
  BY <1>10, Zenon DEF Consumer!CommitFails, C!CommitFails
<1>11. ASSUME NEW p \in Partitions, Consumer!EndClaim(m, p) PROVE C!EndClaim(m, p)
  BY <1>11, Zenon DEF Consumer!EndClaim, C!EndClaim
<1>12. ASSUME NEW p \in Partitions, Consumer!FlushOffset(m, p) PROVE C!FlushOffset(m, p)
  BY <1>12, Zenon DEF Consumer!FlushOffset, C!FlushOffset
<1>13. ASSUME Consumer!StartSession(m) PROVE C!StartSession(m)
  BY <1>13, Zenon DEF Consumer!StartSession, C!StartSession
<1>14. ASSUME Consumer!CancelSession(m) PROVE C!CancelSession(m)
  BY <1>14, Zenon DEF Consumer!CancelSession, C!CancelSession
<1>15. ASSUME Consumer!Evict(m) PROVE C!Evict(m)
  BY <1>15, Zenon DEF Consumer!Evict, C!Evict
<1>16. ASSUME Consumer!EndSession(m) PROVE C!EndSession(m)
  BY <1>16, Zenon DEF Consumer!EndSession, C!EndSession
<1>17. ASSUME Consumer!Crash(m) PROVE C!Crash(m)
  BY <1>17, Zenon DEF Consumer!Crash, C!Crash
<1>18. ASSUME NEW p \in Partitions, Consumer!HandlerFails(m, p) PROVE C!HandlerFails(m, p)
  BY <1>18, Zenon DEF Consumer!HandlerFails, C!HandlerFails
<1> QED
  BY <1>1, <1>2, <1>3, <1>4, <1>5, <1>6, <1>7, <1>8, <1>9, <1>10, <1>11, <1>12, <1>13, <1>14,
     <1>15, <1>16, <1>17, <1>18 DEF Consumer!Member, Consumer!Work, C!Member, C!Work

LEMMA UsedCounted ==
    ASSUME C!ConsumerOK, NEW e \in Events
    PROVE  /\ C!Used(PartitionOf(e), e) \in Nat
           /\ effects[e] \in Nat /\ effects[e] <= C!Used(PartitionOf(e), e)
<1> PICK p : p = PartitionOf(e)
  OBVIOUS
<1>1. C!MayHandle(p, e) \in SUBSET Members
  BY DEF C!MayHandle
<1>2. PICK n \in Nat : n = C!Cardinality(C!MayHandle(p, e))
  BY <1>1, ConsumerConstants, C!MembersCounted
<1>3. PICK r \in Nat : r = C!Reserve(p, e)
  BY DEF C!Reserve
<1>4. PICK x \in Nat : x = effects[e]
  BY DEF C!ConsumerOK, C!TypeOK
<1>5. C!Used(p, e) = x + n + r
  BY <1>2, <1>3, <1>4 DEF C!Used
<1> QED
  BY <1>4, <1>5

LEMMA AllowanceCounted ==
    ASSUME C!ConsumerOK
    PROVE  Allowance \in [Events -> Int]
<1>1. \A e \in Events : 1 - C!Used(PartitionOf(e), e) \in Int
  BY UsedCounted
<1> QED
  BY <1>1 DEF Allowance
-----------------------------------------------------------------------------
(* A step of the server. *)

\* Nothing is taken back.
LEMMA ServerForward ==
    ASSUME ServerOK, ServerStep, NEW e \in Events
    PROVE  /\ status[e] # "absent" => status'[e] # "absent"
           /\ Smooth(e)' => Smooth(e)
<1>1. TypeOK /\ ServerTypeOK
  BY DEF ServerOK, RelayOK
<1>2. ASSUME UNCHANGED <<status, retries>>, faults' \in {faults, faults + 1},
             stops' \in {stops, stops + 1}
      PROVE  /\ status[e] # "absent" => status'[e] # "absent"
             /\ Smooth(e)' => Smooth(e)
  BY <1>1, <1>2 DEF Smooth, TypeOK, ServerTypeOK
<1>3. ASSUME NEW w \in Workers, MarkFailed(w) \/ MarkSent(w), UNCHANGED shutdown
      PROVE  /\ status[e] # "absent" => status'[e] # "absent"
             /\ Smooth(e)' => Smooth(e)
  <2>1. /\ retries' = retries /\ stops' = stops
        /\ faults' = faults \/ faults' = faults + 1
    BY <1>3 DEF MarkFailed, MarkSent, Fault, NoFault, shutdown
  <2>2. status[e] # "absent" => status'[e] # "absent"
    BY <1>1, <1>3 DEF MarkFailed, MarkSent, TypeOK
  <2> QED
    BY <1>1, <2>1, <2>2 DEF Smooth, TypeOK
<1>4. ASSUME NEW w \in Workers, IncrementRetry(w), UNCHANGED shutdown
      PROVE  /\ status[e] # "absent" => status'[e] # "absent"
             /\ Smooth(e)' => Smooth(e)
  <2>1. PICK c : retries' = [retries EXCEPT ![c] = @ + 1] \/ retries' = retries
    BY <1>4 DEF IncrementRetry
  <2>2. retries'[e] = 0 => retries[e] = 0
    BY <1>1, <2>1 DEF TypeOK
  <2>3. /\ status' = status /\ stops' = stops
        /\ faults' = faults \/ faults' = faults + 1
    BY <1>4 DEF IncrementRetry, Fault, NoFault, shutdown
  <2> QED
    BY <1>1, <2>2, <2>3 DEF Smooth, TypeOK
<1>5. ASSUME NEW c \in Events, CommitEvent(c), UNCHANGED shutdown
      PROVE  /\ status[e] # "absent" => status'[e] # "absent"
             /\ Smooth(e)' => Smooth(e)
  BY <1>1, <1>5 DEF CommitEvent, NewRow, Smooth, shutdown, TypeOK
<1>6. ASSUME NEW w \in Workers, UNCHANGED shutdown,
             \/ FetchPending(w) \/ SendAcked(w) \/ SendFails(w) \/ SendAckLost(w)
             \/ GiveUpCancelled(w) \/ MarkSentCancelled(w)
      PROVE  UNCHANGED <<status, retries, stops>> /\ faults' \in {faults, faults + 1}
  BY <1>6 DEF FetchPending, SendAcked, SendFails, SendAckLost, GiveUpCancelled,
     MarkSentCancelled, Fault, table, shutdown
<1>7. CASE Signal \/ CancelRelay \/ ExitAndRestart
           \/ (Crash /\ phase' = "serving" /\ UNCHANGED stops)
  <2>1. UNCHANGED <<status, retries>>
    BY <1>7 DEF Signal, CancelRelay, ExitAndRestart, Crash, vars, table
  <2>2. faults' \in {faults, faults + 1} /\ stops' \in {stops, stops + 1}
    BY <1>7 DEF Signal, CancelRelay, ExitAndRestart, Crash, Fault, vars
  <2> QED
    BY <1>2, <2>1, <2>2
<1>8. ASSUME UNCHANGED shutdown, (\E c \in Events : Grow(c)) \/ KafkaFails \/ KafkaRecovers
      PROVE  UNCHANGED <<status, retries, stops, faults>>
  BY <1>8 DEF Grow, KafkaFails, KafkaRecovers, table, shutdown
<1>9. ASSUME NEW w \in Workers, Serving(w) \/ SendCancelled(w)
      PROVE  /\ UNCHANGED shutdown
             /\ \/ FetchPending(w) \/ SendAcked(w) \/ SendFails(w) \/ SendAckLost(w)
                \/ IncrementRetry(w) \/ MarkFailed(w) \/ MarkSent(w)
  BY <1>9 DEF Serving, SendCancelled, Work
<1>10. ASSUME NEW w \in Workers, GiveUpCancelled(w) \/ MarkSentCancelled(w)
       PROVE  UNCHANGED shutdown
  BY <1>10 DEF GiveUpCancelled, MarkSentCancelled
<1>11. ASSUME NEW w \in Workers,
              \/ Serving(w) \/ SendCancelled(w)
              \/ GiveUpCancelled(w) \/ MarkSentCancelled(w)
       PROVE  /\ status[e] # "absent" => status'[e] # "absent"
              /\ Smooth(e)' => Smooth(e)
  BY <1>2, <1>3, <1>4, <1>6, <1>9, <1>10, <1>11
<1> QED
  BY <1>2, <1>5, <1>7, <1>8, <1>11 DEF ServerStep

LEMMA ServerFaultsGrow ==
    ASSUME ServerStep
    PROVE  faults' = faults \/ faults' = faults + 1
BY DEF ServerStep, Signal, CancelRelay, ExitAndRestart, Serving, SendCancelled, Work, FetchPending,
   SendAcked, SendFails, SendAckLost, IncrementRetry, MarkFailed, MarkSent, GiveUpCancelled,
   MarkSentCancelled, Grow, CommitEvent, NewRow, KafkaFails, KafkaRecovers, Crash, Fault, NoFault, vars

\* What is stored is a committed event.
LEMMA StoredIsCommitted ==
    ASSUME ServerOK, ServerStep, NEW e \in Events, topic' = Append(topic, e)
    PROVE  status[e] # "absent"
<1>1. TypeOK /\ \A w \in Workers : WorkerOK(w, {})
  BY CountingLess DEF ServerOK, RelayOK, WorkerOK
<1>2. PICK n \in Nat : n = Len(topic) /\ topic \in Seq(Events)
  BY <1>1 DEF TypeOK
<1>3. topic' # topic /\ topic'[n + 1] = e
  <2>1. Len(topic') = n + 1 /\ topic'[n + 1] = e
    BY <1>2
  <2> QED
    BY <1>2, <2>1
<1>4. PICK w \in Workers : SendAcked(w) \/ SendAckLost(w)
  BY <1>3 DEF ServerStep, Signal, CancelRelay, ExitAndRestart, Serving, SendCancelled, Work,
     FetchPending, SendFails, IncrementRetry, MarkFailed, MarkSent, GiveUpCancelled,
     MarkSentCancelled, Grow, CommitEvent, NewRow, KafkaFails, KafkaRecovers, Crash, vars
<1>5. topic' = Append(topic, Current(w)[1]) /\ pc[w] = "send"
  BY <1>4 DEF SendAcked, SendAckLost
<1>6. Current(w)[1] = e
  BY <1>2, <1>3, <1>5
<1>7. batch[w] # <<>> /\ 1 \in DOMAIN batch[w] /\ Current(w) = batch[w][1]
  BY <1>1, <1>5, CurrentRow DEF WorkerOK
<1> QED
  BY <1>1, <1>6, <1>7 DEF WorkerOK, RowHolds

\* A message is stored: it is the last one on the topic and in its partition.
LEMMA StoredLast ==
    ASSUME TypeOK, C!TypeOK, NEW e \in Events, topic' = Append(topic, e),
           log' = [log EXCEPT ![PartitionOf(e)] = Append(@, e)]
    PROVE  /\ \A d : d \in Range(topic') <=> Published(d) \/ d = e
           /\ DOMAIN topic = 1..Len(topic) /\ Len(topic) \in Nat
           /\ Len(topic) + 1 \in DOMAIN topic' /\ topic'[Len(topic) + 1] = e
           /\ \A i \in DOMAIN topic' : i < Len(topic) + 1 =>
                 i \in DOMAIN topic /\ topic'[i] = topic[i]
           /\ \A p \in Partitions :
                 /\ Len(log[p]) \in Nat
                 /\ p # PartitionOf(e) => log'[p] = log[p]
                 /\ p = PartitionOf(e) =>
                       Len(log'[p]) = Len(log[p]) + 1 /\ log'[p][Len(log[p]) + 1] = e
                 /\ \A i \in 1..Len(log[p]) : i \in 1..Len(log'[p]) /\ log'[p][i] = log[p][i]
<1>1. topic \in Seq(Events) /\ log \in [Partitions -> Seq(Events \cup {NoId})]
  BY DEF TypeOK, C!TypeOK
<1>2. \A d : d \in Range(topic') <=> Published(d) \/ d = e
  <2>1. Range(topic') = Range(topic) \cup {e}
    BY <1>1, RangeOfAppend
  <2> QED
    BY <2>1 DEF Published
<1>3. /\ DOMAIN topic = 1..Len(topic) /\ Len(topic) \in Nat
      /\ Len(topic) + 1 \in DOMAIN topic' /\ topic'[Len(topic) + 1] = e
      /\ \A i \in DOMAIN topic' : i < Len(topic) + 1 =>
            i \in DOMAIN topic /\ topic'[i] = topic[i]
  BY <1>1
<1>4. ASSUME NEW p \in Partitions
      PROVE  /\ Len(log[p]) \in Nat
             /\ p # PartitionOf(e) => log'[p] = log[p]
             /\ p = PartitionOf(e) =>
                   Len(log'[p]) = Len(log[p]) + 1 /\ log'[p][Len(log[p]) + 1] = e
             /\ \A i \in 1..Len(log[p]) : i \in 1..Len(log'[p]) /\ log'[p][i] = log[p][i]
  <2>1. log[p] \in Seq(Events \cup {NoId}) /\ e \in Events \cup {NoId}
    BY <1>1
  <2>2. CASE p # PartitionOf(e)
    BY <1>1, <2>1, <2>2
  <2>3. CASE p = PartitionOf(e)
    <3>1. log'[p] = Append(log[p], e)
      BY <1>1, <2>3
    <3> QED
      BY <2>1, <2>3, <3>1
  <2> QED
    BY <2>2, <2>3
<1> QED
  BY <1>2, <1>3, <1>4

LEMMA RelayKeepsLogs ==
    ASSUME ServerOK, C!ConsumerOK, LogsOK, RelayStep
    PROVE  LogsOK'
<1>1. TypeOK /\ C!TypeOK /\ ServerStep
  BY DEF ServerOK, RelayOK, C!ConsumerOK, RelayStep
<1>2. \A e \in Events : status[e] # "absent" => status'[e] # "absent"
  BY <1>1, ServerForward
<1>3. CASE topic' = topic /\ UNCHANGED log
  BY <1>2, <1>3 DEF LogsOK, Published
<1>4. ASSUME NEW e \in Events, topic' = Append(topic, e),
             log' = [log EXCEPT ![PartitionOf(e)] = Append(@, e)]
      PROVE  LogsOK'
  <2>1. \A d : d \in Range(topic') <=> Published(d) \/ d = e
    BY <1>1, <1>4, StoredLast
  <2>2. \A p \in Partitions :
           /\ Len(log[p]) \in Nat
           /\ p # PartitionOf(e) => log'[p] = log[p]
           /\ p = PartitionOf(e) =>
                 Len(log'[p]) = Len(log[p]) + 1 /\ log'[p][Len(log[p]) + 1] = e
           /\ \A i \in 1..Len(log[p]) : i \in 1..Len(log'[p]) /\ log'[p][i] = log[p][i]
    BY <1>1, <1>4, StoredLast
  <2>3. status'[e] # "absent"
    BY <1>1, <1>2, <1>4, StoredIsCommitted
  <2>4. ASSUME NEW p \in Partitions, NEW i \in 1..Len(log'[p])
        PROVE  /\ log'[p][i] \in Events /\ PartitionOf(log'[p][i]) = p
               /\ status'[log'[p][i]] # "absent" /\ log'[p][i] \in Range(topic')
    <3>1. CASE i \in 1..Len(log[p])
      <4>1. PICK d : d = log[p][i]
        OBVIOUS
      <4>2. log'[p][i] = d
        BY <2>2, <3>1, <4>1
      <4>3. d \in Events /\ PartitionOf(d) = p /\ status[d] # "absent" /\ Published(d)
        BY <3>1, <4>1 DEF LogsOK
      <4> QED
        BY <1>2, <2>1, <4>2, <4>3
    <3>2. CASE i \notin 1..Len(log[p])
      <4>1. p = PartitionOf(e) /\ log'[p][i] = e
        <5>1. p = PartitionOf(e)
          BY <2>2, <3>2
        <5>2. PICK n \in Nat : n = Len(log[p]) /\ Len(log'[p]) = n + 1 /\ log'[p][n + 1] = e
          BY <2>2, <5>1
        <5>3. i = n + 1
          BY <3>2, <5>2
        <5> QED
          BY <5>1, <5>2, <5>3
      <4> QED
        BY <2>1, <2>3, <4>1
    <3> QED
      BY <3>1, <3>2
  <2>5. ASSUME NEW d \in Events, d \in Range(topic')
        PROVE  \E i \in 1..Len(log'[PartitionOf(d)]) : log'[PartitionOf(d)][i] = d
    <3>1. PICK p \in Partitions : p = PartitionOf(d)
      BY HashAssumption
    <3>2. CASE d = e
      <4>1. PICK n \in Nat : n = Len(log[p]) /\ Len(log'[p]) = n + 1 /\ log'[p][n + 1] = e
        BY <2>2, <3>1, <3>2
      <4>2. n + 1 \in 1..Len(log'[p])
        BY <4>1
      <4> QED
        BY <3>1, <3>2, <4>1, <4>2
    <3>3. CASE d # e
      <4>1. PICK i \in 1..Len(log[p]) : log[p][i] = d
        BY <2>1, <2>5, <3>1, <3>3 DEF LogsOK
      <4>2. i \in 1..Len(log'[p]) /\ log'[p][i] = d
        BY <2>2, <4>1
      <4> QED
        BY <3>1, <4>2
    <3> QED
      BY <3>2, <3>3
  <2> QED
    BY <2>4, <2>5 DEF LogsOK, Published
<1> QED
  BY <1>3, <1>4 DEF RelayStep, Stored

\* An event that comes behind another one of its key on the topic does so in the
\* partition of both.
LEMMA RelayKeepsLogOrder ==
    ASSUME NEW w, ServerOK, OrderOK(w)', C!ConsumerOK, LogsOK, LogsInOrder, RelayStep
    PROVE  LogsInOrder'
<1>1. TypeOK /\ C!TypeOK /\ ServerStep
  BY DEF ServerOK, RelayOK, C!ConsumerOK, RelayStep
<1>2. \A d \in Events : Smooth(d)' => Smooth(d)
  BY <1>1, ServerForward
<1>3. CASE topic' = topic /\ UNCHANGED log
  BY <1>2, <1>3 DEF LogsInOrder
<1>4. ASSUME NEW c \in Events, topic' = Append(topic, c),
             log' = [log EXCEPT ![PartitionOf(c)] = Append(@, c)]
      PROVE  LogsInOrder'
  <2>1. \A p \in Partitions :
           /\ Len(log[p]) \in Nat
           /\ p # PartitionOf(c) => log'[p] = log[p]
           /\ p = PartitionOf(c) =>
                 Len(log'[p]) = Len(log[p]) + 1 /\ log'[p][Len(log[p]) + 1] = c
           /\ \A i \in 1..Len(log[p]) : i \in 1..Len(log'[p]) /\ log'[p][i] = log[p][i]
    BY <1>1, <1>4, StoredLast
  <2>2. ASSUME NEW d \in Events, NEW e \in Events, Before(d, e), Smooth(d)',
               NEW p \in Partitions, NEW j \in 1..Len(log'[p]), log'[p][j] = e
        PROVE  \E i \in 1..Len(log'[p]) : i < j /\ log'[p][i] = d
    <3>1. CASE j \in 1..Len(log[p])
      <4>1. log[p][j] = e
        BY <2>1, <2>2, <3>1
      <4>2. PICK i \in 1..Len(log[p]) : i < j /\ log[p][i] = d
        BY <1>2, <2>2, <3>1, <4>1 DEF LogsInOrder
      <4>3. i \in 1..Len(log'[p]) /\ log'[p][i] = d
        BY <2>1, <4>2
      <4> QED
        BY <4>2, <4>3
    <3>2. CASE j \notin 1..Len(log[p])
      <4>1. p = PartitionOf(c)
        BY <2>1, <3>2
      <4>2. PICK n \in Nat : n = Len(log[p]) /\ Len(log'[p]) = n + 1 /\ log'[p][n + 1] = c
        BY <2>1, <4>1
      <4>3. j = n + 1
        BY <3>2, <4>2
      <4>4. e = c
        BY <2>2, <4>2, <4>3
      <4>5. Published(d)
        <5>1. PICK k \in Nat : k = Len(topic)
          BY <1>1, <1>4, StoredLast
        <5>2. k + 1 \in DOMAIN topic' /\ topic'[k + 1] = c
          BY <1>1, <1>4, <5>1, StoredLast
        <5>3. PICK i \in DOMAIN topic' : i < k + 1 /\ topic'[i] = d
          BY <2>2, <4>4, <5>2 DEF OrderOK, TopicInOrder, Before
        <5>4. i \in DOMAIN topic /\ topic[i] = d
          BY <1>1, <1>4, <5>1, <5>3, StoredLast
        <5> QED
          BY <5>4 DEF Published, Range
      <4>6. PartitionOf(d) = p
        BY <2>2, <4>1, <4>4 DEF Before, PartitionOf
      <4>7. PICK i \in 1..Len(log[p]) : log[p][i] = d
        BY <4>5, <4>6 DEF LogsOK
      <4>8. i \in 1..Len(log'[p]) /\ log'[p][i] = d /\ i < j
        BY <2>1, <4>2, <4>3, <4>7
      <4> QED
        BY <4>8
    <3> QED
      BY <3>1, <3>2
  <2> QED
    BY <2>2 DEF LogsInOrder, Before
<1> QED
  BY <1>3, <1>4 DEF RelayStep, Stored

LEMMA RelayKeepsFlow ==
    ASSUME FlowOK, RelayStep
    PROVE  /\ FlowOK'
           /\ \A p \in Partitions, e \in Events : C!Used(p, e)' = C!Used(p, e)
<1>1. ServerOK /\ C!ConsumerOK /\ C!HandledOK /\ C!HandledInTurn /\ LogsOK
  BY DEF FlowOK
<1>2. [ServerNext]_serverVars /\ Stored /\ UNCHANGED consumer
  BY DEF RelayStep, ServerNext
<1>3. ServerOK'
  BY <1>1, <1>2, ServerKeeps
<1>4. \/ log' = log
      \/ \E q \in Partitions, c \in Events : log' = [log EXCEPT ![q] = Append(@, c)]
  BY <1>2, HashAssumption DEF Stored
<1>5. UNCHANGED <<committed, owner, dlq, processed, effects, session, retryCounts,
                  claimPc, pos, marked, failures>>
  BY <1>2 DEF consumer
<1>6. /\ C!ConsumerOK' /\ C!HandledOK' /\ C!HandledInTurn'
      /\ \A p \in Partitions, e \in Events : C!Used(p, e)' = C!Used(p, e)
  BY <1>1, <1>4, <1>5, ConsumerConstants, C!LogGrows
<1>7. LogsOK'
  BY <1>1, RelayKeepsLogs
<1>8. ASSUME NEW e \in Events PROVE C!Used(PartitionOf(e), e)' <= 1 + faults'
  <2>1. PICK u \in Nat : u = C!Used(PartitionOf(e), e)
    BY <1>1, UsedCounted
  <2>2. faults \in Nat /\ u <= 1 + faults /\ C!Used(PartitionOf(e), e)' = u
    BY <1>1, <1>6, <2>1, HashAssumption DEF FlowOK, ServerOK, RelayOK, TypeOK
  <2>3. faults' = faults \/ faults' = faults + 1
    BY ServerFaultsGrow DEF RelayStep
  <2> QED
    BY <2>2, <2>3
<1> QED
  BY <1>3, <1>6, <1>7, <1>8 DEF FlowOK

LEMMA RelayKeepsPipeline ==
    ASSUME NEW w, Workers = {w}, PipelineOK(w), RelayStep
    PROVE  PipelineOK(w)'
<1>1. FlowOK /\ AloneOK(w) /\ OrderOK(w) /\ CopiesOK(w, Allowance) /\ LogsInOrder
  BY DEF PipelineOK
<1>2. ServerOK /\ C!ConsumerOK /\ LogsOK /\ [ServerNext]_serverVars
  BY <1>1 DEF FlowOK, RelayStep, ServerNext
<1>3. FlowOK' /\ ServerOK'
  BY <1>1, RelayKeepsFlow DEF FlowOK
<1>4. AloneOK(w)'
  BY <1>1, <1>2, ServerKeepsAlone
<1>5. OrderOK(w)'
  BY <1>1, <1>2, <1>3, ServerKeepsOrder
<1>6. CopiesOK(w, Allowance)'
  <2>1. PICK b \in [Events -> Int] : b = Allowance
    BY <1>2, AllowanceCounted
  <2>2. CopiesOK(w, b)
    BY <1>1, <2>1
  <2>3. CopiesOK(w, b)'
    BY <1>1, <1>2, <1>3, <2>2, ServerKeepsCopies
  <2>4. Allowance' = b
    BY <1>1, <2>1, RelayKeepsFlow, HashAssumption DEF Allowance
  <2> QED
    BY <2>3, <2>4 DEF CopiesOK
<1>7. LogsInOrder'
  BY <1>1, <1>2, <1>5, RelayKeepsLogOrder
<1> QED
  BY <1>3, <1>4, <1>5, <1>6, <1>7 DEF PipelineOK

-----------------------------------------------------------------------------
(* A step of the consumer, which costs the server at most a fault. *)

LEMMA FaultKeepsServer ==
    ASSUME ServerOK, faults' = faults \/ faults' = faults + 1,
           UNCHANGED <<table, topic, kafkaUp, worker, shutdown>>
    PROVE  ServerOK'
<1> PICK Counting : Counting = IF phase = "cancelled" THEN {} ELSE Workers
  OBVIOUS
<1>1. RelayOK(Counting) /\ TypeOK /\ ServerTypeOK
  BY DEF ServerOK, RelayOK
<1>2. UNCHANGED <<status, retries, age, topic, kafkaUp, pc, batch, sent, phase, stops>>
  BY DEF table, worker, shutdown
<1>3. TypeOK' /\ ServerTypeOK'
  BY <1>1, <1>2 DEF TypeOK, ServerTypeOK
<1>4. SentIsPublished' /\ GivenUpOnlyAfterBackoff'
  BY <1>1, <1>2 DEF RelayOK, SentIsPublished, GivenUpOnlyAfterBackoff, Published
<1>5. FailedAfterAllRetries'
  <2> SUFFICES ASSUME NEW e \in Events, status[e] = "FAILED"
               PROVE  retries[e] + faults' >= MaxRetries
    BY <1>2 DEF FailedAfterAllRetries
  <2>1. retries[e] \in Nat /\ faults \in Nat /\ retries[e] + faults >= MaxRetries
    BY <1>1 DEF TypeOK, RelayOK, FailedAfterAllRetries
  <2> QED
    BY <2>1, BoundsAssumption
<1>6. ASSUME NEW v \in Workers PROVE WorkerOK(v, Counting)'
  <2>1. WorkerOK(v, Counting)
    BY <1>1 DEF RelayOK
  <2>2. ASSUME v \in Counting, pc[v] = "markFailed"
        PROVE  /\ retries[Current(v)[1]] + faults' >= MaxRetries
               /\ retries[Current(v)[1]] + faults' > 0
    <3>1. /\ batch[v] # <<>>
          /\ retries[Current(v)[1]] + faults >= MaxRetries
          /\ retries[Current(v)[1]] + faults > 0
      BY <2>1, <2>2 DEF WorkerOK, Counted
    <3>2. Current(v) \in Events \X Nat
      BY <1>1, <3>1, HeadIsFirst DEF TypeOK, Current
    <3>3. PICK c \in Events, n \in Nat : c = Current(v)[1] /\ n = Current(v)[2]
      BY <3>2
    <3>4. retries[c] \in Nat /\ faults \in Nat
      BY <1>1 DEF TypeOK
    <3> QED
      BY <3>1, <3>3, <3>4, BoundsAssumption
  <2> QED
    BY <1>2, <2>1, <2>2 DEF WorkerOK, Counted, RowHolds, LastAttempt, Current
<1>7. RelayOK(Counting)'
  BY <1>3, <1>4, <1>5, <1>6 DEF RelayOK
<1> QED
  BY <1>2, <1>3, <1>7 DEF ServerOK

\* All copies of an event are in its partition.
LEMMA EventsAreHome ==
    ASSUME C!TypeOK, LogsOK, NEW e \in Events
    PROVE  C!Home(PartitionOf(e), e)
<1> SUFFICES ASSUME NEW q \in Partitions, e \in C!Range(log[q])
             PROVE  q = PartitionOf(e)
  BY DEF C!Home
<1>1. log[q] \in Seq(Events \cup {NoId})
  BY DEF C!TypeOK
<1>2. PICK i \in 1..Len(log[q]) : log[q][i] = e
  BY <1>1 DEF C!Range
<1> QED
  BY <1>2 DEF LogsOK

\* The handler's calls take from the allowance of copies what they pay in faults.
LEMMA CallsKeepCopies ==
    ASSUME NEW w, TypeOK, ServerTypeOK, C!ConsumerOK, C!ConsumerOK', CopiesOK(w, Allowance),
           faults' = faults \/ faults' = faults + 1,
           UNCHANGED <<status, topic, batch, sent, phase, stops>>,
           \A e \in Events : C!Pays(PartitionOf(e), e)
    PROVE  CopiesOK(w, Allowance)'
<1> SUFFICES ASSUME NEW e \in Events
             PROVE  /\ Copies(e) <= Paid' + Allowance'[e] + 1
                    /\ ~Settled(w, e) => Copies(e) <= Paid' + Allowance'[e]
  <2>1. \A e \in Events : Copies(e)' = Copies(e) /\ Settled(w, e)' = Settled(w, e)
    BY DEF Copies, Settled
  <2> QED
    BY <2>1 DEF CopiesOK
<1>1. PICK k \in Nat : k = Copies(e)
  BY CopiesAreCounted
<1>2. PICK f, g \in Nat : f = faults /\ g = faults'
  <2>1. PICK f \in Nat : f = faults
    BY DEF TypeOK
  <2>2. PICK g \in Nat : g = faults'
    BY <2>1
  <2> QED
    BY <2>1, <2>2
<1>3. PICK n \in Int : n = Paid
  BY PaidIsCounted
<1>4. Paid' = n + (g - f)
  <2>1. PICK s \in Nat : s = stops
    BY DEF ServerTypeOK
  <2>2. n = IF phase = "cancelled" THEN f + s - 1 ELSE f + s
    BY <1>2, <1>3, <2>1 DEF Paid
  <2>3. Paid' = IF phase = "cancelled" THEN g + s - 1 ELSE g + s
    BY <1>2, <2>1 DEF Paid
  <2> QED
    BY <2>2, <2>3
<1>5. PICK u \in Nat : u = C!Used(PartitionOf(e), e)
  BY UsedCounted
<1>6. PICK v : v = C!Used(PartitionOf(e), e)'
  OBVIOUS
<1>7. v \in Nat
  <2>1. C!MayHandle(PartitionOf(e), e)' \in SUBSET Members
    BY DEF C!MayHandle
  <2>2. PICK a \in Nat : a = C!Cardinality(C!MayHandle(PartitionOf(e), e)')
    BY <2>1, ConsumerConstants, C!MembersCounted
  <2>3. PICK r \in Nat : r = C!Reserve(PartitionOf(e), e)'
    BY DEF C!Reserve
  <2>4. PICK x \in Nat : x = effects'[e]
    BY DEF C!ConsumerOK, C!TypeOK
  <2>5. v = x + a + r
    BY <1>6, <2>2, <2>3, <2>4 DEF C!Used
  <2> QED
    BY <2>5
<1>8. v <= u - f + g
  <2>1. \A b \in Int : u <= b + f => v <= b + g
    BY <1>2, <1>5, <1>6 DEF C!Pays
  <2>2. u - f \in Int /\ u <= (u - f) + f
    OBVIOUS
  <2> QED
    BY <2>1, <2>2
<1>9. Allowance[e] = 1 - u /\ Allowance'[e] = 1 - v
  BY <1>5, <1>6 DEF Allowance
<1>10. k <= n + (1 - u) + 1 /\ (~Settled(w, e) => k <= n + (1 - u))
  BY <1>1, <1>3, <1>9 DEF CopiesOK
<1>11. k <= (n + (g - f)) + (1 - v) + 1 /\ (~Settled(w, e) => k <= (n + (g - f)) + (1 - v))
  BY <1>7, <1>8, <1>10
<1> QED
  BY <1>1, <1>4, <1>9, <1>11

LEMMA ConsumerKeepsFlow ==
    ASSUME FlowOK, [C!Next]_C!vars, UNCHANGED relay
    PROVE  /\ FlowOK' /\ log' = log
           /\ faults' = faults \/ faults' = faults + 1
           /\ \A e \in Events : C!Pays(PartitionOf(e), e)
<1>1. ServerOK /\ C!ConsumerOK /\ C!HandledOK /\ C!HandledInTurn /\ LogsOK
  BY DEF FlowOK
<1>2. C!TypeOK /\ faults \in Nat
  BY <1>1 DEF ServerOK, RelayOK, TypeOK, C!ConsumerOK
<1>3. faults' = faults \/ faults' = faults + 1
  BY ConsumerConstants, C!FaultsGrow
<1>4. ServerOK'
  BY <1>1, <1>3, FaultKeepsServer DEF relay
<1>5. C!ConsumerOK' /\ C!TypeOK'
  BY <1>1, ConsumerConstants, C!StepKeepsOK DEF C!ConsumerOK
<1>6. /\ C!HandledOK' /\ log' = log
      /\ \A e \in Events, p \in Partitions : C!Home(p, e) => C!Pays(p, e)
  BY <1>1, <1>2, <1>5, ConsumerConstants, C!StepPaysForAll
<1>7. C!HandledInTurn'
  BY <1>1, <1>2, <1>6, ConsumerConstants, C!StepKeepsTurn
<1>8. \A e \in Events : C!Pays(PartitionOf(e), e)
  BY <1>1, <1>2, <1>6, EventsAreHome, HashAssumption
<1>9. LogsOK'
  BY <1>1, <1>6 DEF LogsOK, Published, relay, table
<1>10. \A e \in Events : C!Used(PartitionOf(e), e)' <= 1 + faults'
  BY <1>8 DEF FlowOK, C!Pays
<1> QED
  BY <1>3, <1>4, <1>5, <1>6, <1>7, <1>8, <1>9, <1>10 DEF FlowOK

LEMMA ConsumerKeepsPipeline ==
    ASSUME NEW w, PipelineOK(w), [C!Next]_C!vars, UNCHANGED relay
    PROVE  PipelineOK(w)'
<1>1. FlowOK /\ AloneOK(w) /\ OrderOK(w) /\ CopiesOK(w, Allowance) /\ LogsInOrder
  BY DEF PipelineOK
<1>2. TypeOK /\ ServerTypeOK /\ C!ConsumerOK
  BY <1>1 DEF FlowOK, ServerOK, RelayOK
<1>3. UNCHANGED <<status, retries, topic, pc, batch, sent, phase, stops>>
  BY DEF relay, table, worker, shutdown
<1>4. /\ FlowOK' /\ C!ConsumerOK' /\ log' = log
      /\ faults' = faults \/ faults' = faults + 1
      /\ \A e \in Events : C!Pays(PartitionOf(e), e)
  BY <1>1, ConsumerKeepsFlow DEF FlowOK
<1>5. AloneOK(w)'
  BY <1>1, <1>3 DEF AloneOK
<1>6. \A d \in Events : Smooth(d)' => Smooth(d)
  BY <1>2, <1>3, <1>4 DEF Smooth, TypeOK
<1>7. OrderOK(w)'
  BY <1>1, <1>3, <1>6, OrderStays, NoneCommitted DEF OrderOK
<1>8. CopiesOK(w, Allowance)'
  BY <1>1, <1>2, <1>3, <1>4, CallsKeepCopies
<1>9. LogsInOrder'
  BY <1>1, <1>4, <1>6 DEF LogsInOrder
<1> QED
  BY <1>4, <1>5, <1>7, <1>8, <1>9 DEF PipelineOK

-----------------------------------------------------------------------------
(* The pipeline. *)

LEMMA FlowStarts == PipelineInit => FlowOK
<1> SUFFICES ASSUME PipelineInit PROVE FlowOK
  OBVIOUS
<1>1. ServerInit /\ C!Init
  BY SameInit DEF PipelineInit
<1>2. ServerOK /\ C!ConsumerOK
  BY <1>1, ServerStarts, ConsumerConstants, C!StartsOK
<1>3. C!HandledOK /\ \A e \in Events, p \in Partitions : C!Home(p, e) => C!Used(p, e) <= 1 + faults
  BY <1>1, ConsumerConstants, C!EffectsStartOK DEF C!EffectsOK
<1>4. C!HandledInTurn
  BY <1>1 DEF C!Init, C!HandledInTurn
<1>5. LogsOK
  <2>1. \A e : ~Published(e)
    BY <1>1 DEF ServerInit, Init, Published, Range
  <2>2. \A p \in Partitions : Len(log[p]) = 0
    BY <1>1 DEF C!Init
  <2> QED
    BY <2>1, <2>2 DEF LogsOK
<1>6. \A e \in Events : C!Used(PartitionOf(e), e) <= 1 + faults
  BY <1>2, <1>3, <1>5, EventsAreHome, HashAssumption DEF C!ConsumerOK
<1> QED
  BY <1>2, <1>3, <1>4, <1>5, <1>6 DEF FlowOK

LEMMA PipelineStarts ==
    ASSUME NEW w, Workers = {w}, PipelineInit
    PROVE  PipelineOK(w)
<1>1. ServerInit /\ C!Init /\ FlowOK
  BY SameInit, FlowStarts DEF PipelineInit
<1>2. AloneOK(w) /\ OrderOK(w)
  BY <1>1, ServerStartsAlone, ServerStartsOrder
<1>3. faults = 0 /\ \A e \in Events : C!Used(PartitionOf(e), e) <= 1 + faults
  BY <1>1 DEF C!Init, FlowOK
<1>4. LogsInOrder
  BY <1>1 DEF C!Init, LogsInOrder
<1>5. CopiesOK(w, Allowance)
  <2>1. ASSUME NEW e \in Events PROVE 1 - C!Used(PartitionOf(e), e) \in Nat
    <3>1. PICK u \in Nat : u = C!Used(PartitionOf(e), e)
      BY <1>1, UsedCounted DEF FlowOK
    <3>2. u <= 1
      BY <1>3, <3>1
    <3> QED
      BY <3>1, <3>2
  <2>2. PICK b \in [Events -> Nat] : b = Allowance
    BY <2>1 DEF Allowance
  <2> QED
    BY <1>1, <2>2, ServerStartsCopies
<1> QED
  BY <1>1, <1>2, <1>4, <1>5 DEF PipelineOK

\* A step is one of the relay or one of the consumer; Quiet changes nothing.
LEMMA PipelineSteps ==
    ASSUME [PipelineNext]_pipeline
    PROVE  RelayStep \/ ([C!Next]_C!vars /\ UNCHANGED relay)
<1>1. CASE ConsumerStep
  <2>1. PICK m \in Members : Consumer!Member(m)
    BY <1>1 DEF ConsumerStep
  <2>2. C!Next
    BY <2>1, SameSteps DEF C!Next
  <2> QED
    BY <1>1, <2>2 DEF ConsumerStep
<1>2. CASE Quiet \/ UNCHANGED pipeline
  BY <1>2 DEF Quiet, Idle, Consumer!Drained, Consumer!vars, C!vars, pipeline, serverVars, vars,
     consumer, relay, table, worker, shutdown
<1> QED
  BY <1>1, <1>2 DEF PipelineNext

LEMMA FlowKeeps == FlowOK /\ [PipelineNext]_pipeline => FlowOK'
BY PipelineSteps, RelayKeepsFlow, ConsumerKeepsFlow

LEMMA PipelineKeeps ==
    ASSUME NEW w, Workers = {w}, PipelineOK(w), [PipelineNext]_pipeline
    PROVE  PipelineOK(w)'
BY PipelineSteps, RelayKeepsPipeline, ConsumerKeepsPipeline

LEMMA SentIsOnTheWay ==
    ASSUME FlowOK
    PROVE  SentIsAheadOrTried
<1> SUFFICES ASSUME NEW e \in Events, status[e] = "SENT", ~Consumer!Tried(e)
             PROVE  \E i \in 1..Len(log[PartitionOf(e)]) :
                       i > committed[PartitionOf(e)] /\ log[PartitionOf(e)][i] = e
  BY DEF SentIsAheadOrTried
<1>1. PICK p \in Partitions : p = PartitionOf(e)
  BY HashAssumption
<1>2. Published(e)
  BY DEF FlowOK, ServerOK, RelayOK, SentIsPublished
<1>3. PICK i \in 1..Len(log[p]) : log[p][i] = e
  BY <1>1, <1>2 DEF FlowOK, LogsOK
<1>4. log[p] \in Seq(Events \cup {NoId}) /\ committed[p] \in Nat /\ C!SeenUpTo(p, committed[p])
  BY DEF FlowOK, C!ConsumerOK, C!TypeOK, C!NoMessageIsPassedUnseen
<1>5. i \notin 1..committed[p]
  BY <1>3, <1>4, ConsumerAssumption DEF C!SeenUpTo, C!Tried, Consumer!Tried
<1>6. i > committed[p]
  BY <1>4, <1>5
<1> QED
  BY <1>1, <1>3, <1>6

LEMMA EffectsStayPaid ==
    ASSUME FlowOK
    PROVE  Consumer!EffectsCostFaults
<1>1. ASSUME NEW e \in Events PROVE effects[e] <= 1 + faults
  <2>1. PICK u \in Nat : u = C!Used(PartitionOf(e), e)
    BY UsedCounted DEF FlowOK
  <2>2. effects[e] \in Nat /\ effects[e] <= u /\ u <= 1 + faults /\ faults \in Nat
    BY <2>1, UsedCounted DEF FlowOK, ServerOK, RelayOK, TypeOK
  <2> QED
    BY <2>2
<1> QED
  BY <1>1 DEF FlowOK, C!HandledOK, Consumer!EffectsCostFaults

LEMMA PublishedIsCounted ==
    ASSUME TypeOK, NEW e, Published(e)
    PROVE  Copies(e) >= 1
<1>1. DOMAIN topic = 1..Len(topic) /\ Len(topic) \in Nat
  BY DEF TypeOK
<1>2. IsFiniteSet(1..Len(topic))
  BY <1>1, FS_Interval
<1>3. IsFiniteSet({i \in DOMAIN topic : topic[i] = e})
  BY <1>1, <1>2, FS_Subset
<1>4. {i \in DOMAIN topic : topic[i] = e} # {}
  BY DEF Published, Range
<1>5. Copies(e) # 0
  BY <1>3, <1>4, FS_EmptySet DEF Copies
<1> QED
  BY <1>5, CopiesAreCounted

LEMMA CopiesHaveNoEffect ==
    ASSUME NEW w, PipelineOK(w)
    PROVE  OneEffectPerFault
<1>1. TypeOK /\ ServerTypeOK
  BY DEF PipelineOK, FlowOK, ServerOK, RelayOK
<1>2. ASSUME NEW e \in Events, effects[e] > 0
      PROVE  status[e] # "absent" /\ Published(e)
  <2>1. PICK p \in Partitions : \E i \in 1..Len(log[p]) : log[p][i] = e
    BY <1>2 DEF PipelineOK, FlowOK, C!HandledInTurn
  <2> QED
    BY <2>1 DEF PipelineOK, FlowOK, LogsOK
<1>3. ASSUME NEW e \in Events
      PROVE  effects[e] <= 1 + faults + stops - (IF Copies(e) > 1 THEN Copies(e) - 1 ELSE 0)
  <2>1. PICK u \in Nat : u = C!Used(PartitionOf(e), e)
    BY UsedCounted DEF PipelineOK, FlowOK
  <2>2. PICK x \in Nat : x = effects[e] /\ x <= u
    BY <2>1, UsedCounted DEF PipelineOK, FlowOK
  <2>3. PICK k \in Nat : k = Copies(e)
    BY <1>1, CopiesAreCounted
  <2>4. PICK f, s \in Nat : f = faults /\ s = stops
    BY <1>1 DEF TypeOK, ServerTypeOK
  <2>5. PICK n \in Int : n = Paid /\ n <= f + s
    BY <1>1, <2>4, PaidIsCounted
  <2>6. k <= n + (1 - u) + 1
    BY <2>1, <2>3, <2>5 DEF PipelineOK, CopiesOK, Allowance
  <2>7. x > 0 => k >= 1
    BY <1>1, <1>2, <2>2, <2>3, PublishedIsCounted
  <2>8. x <= 1 + f + s - (IF k > 1 THEN k - 1 ELSE 0)
    BY <2>2, <2>5, <2>6, <2>7
  <2> QED
    BY <2>2, <2>3, <2>4, <2>8
<1> QED
  BY <1>2, <1>3 DEF OneEffectPerFault

LEMMA EffectsInOrder ==
    ASSUME NEW w, PipelineOK(w)
    PROVE  EffectsKeepKeyOrder
<1> SUFFICES ASSUME NEW d \in Events, NEW e \in Events, Before(d, e), effects[e] > 0
             PROVE  effects[d] > 0 \/ retries[d] + failures[d] + faults + stops > 0
  BY DEF EffectsKeepKeyOrder, Before
<1>1. PICK r, a, f, s \in Nat : r = retries[d] /\ a = failures[d] /\ f = faults /\ s = stops
  BY DEF PipelineOK, FlowOK, ServerOK, ServerTypeOK, RelayOK, TypeOK, C!ConsumerOK, C!TypeOK
<1>2. CASE Smooth(d) /\ a = 0
  <2>1. PICK p \in Partitions : \E i \in 1..Len(log[p]) : log[p][i] = e /\ C!SeenUpTo(p, i - 1)
    BY DEF PipelineOK, FlowOK, C!HandledInTurn
  <2>2. PICK i \in 1..Len(log[p]) : log[p][i] = e /\ C!SeenUpTo(p, i - 1)
    BY <2>1
  <2>3. PICK j \in 1..Len(log[p]) : j < i /\ log[p][j] = d
    BY <1>2, <2>2 DEF PipelineOK, LogsInOrder
  <2>4. log[p] \in Seq(Events \cup {NoId})
    BY DEF PipelineOK, FlowOK, C!ConsumerOK, C!TypeOK
  <2>5. j \in 1..(i - 1)
    BY <2>3, <2>4
  <2>6. d = NoId \/ d \in processed \/ a > 0
    BY <1>1, <2>2, <2>3, <2>5 DEF C!SeenUpTo, C!Tried
  <2>7. d \in processed
    BY <1>2, <2>6, ConsumerAssumption
  <2>8. effects[d] >= 1 /\ effects[d] \in Nat
    BY <2>7 DEF PipelineOK, FlowOK, C!HandledOK, C!ConsumerOK, C!TypeOK
  <2> QED
    BY <2>8
<1>3. CASE ~(Smooth(d) /\ a = 0)
  <2>1. r > 0 \/ a > 0 \/ f > 0 \/ s > 0
    BY <1>1, <1>3 DEF Smooth
  <2>2. r + a + f + s > 0
    BY <2>1
  <2> QED
    BY <1>1, <2>2
<1> QED
  BY <1>2, <1>3

\* For any number of workers: what the outbox has marked SENT does not get lost
\* between it and the group, whatever crashed, was stopped, evicted or rebalanced.
\* MarkSent follows the ack, the key selects the partition, and the group's offset
\* passes only messages that ConsumeClaim has looked at, in logs that grow.
THEOREM SentIsNotLost == PipelineSpec => []SentIsAheadOrTried
BY FlowStarts, FlowKeeps, SentIsOnTheWay, PTL DEF PipelineSpec

\* For any number of workers, and as many copies of an event as they make: the handler
\* does its work for an event again only after a fault (processWithIdempotency), also
\* while messages are still being stored.
THEOREM EffectsArePaidInThePipeline == PipelineSpec => []Consumer!EffectsCostFaults
BY FlowStarts, FlowKeeps, EffectsStayPaid, PTL DEF PipelineSpec

\* With a single worker (RELAY_WORKER_COUNT=1), processed_events makes the copies that
\* the relay sends of an event harmless: for any crashes, lost acks, stops of the
\* server, members of the group and rebalances, an effect is repeated only for a fault
\* that has made no copy, and nothing takes effect that was not committed.
THEOREM RelayCopiesHaveNoEffect ==
    ASSUME NEW w, Workers = {w}
    PROVE  PipelineSpec => []OneEffectPerFault
<1>1. PipelineInit => PipelineOK(w)
  BY PipelineStarts
<1>2. PipelineOK(w) /\ [PipelineNext]_pipeline => PipelineOK(w)'
  BY PipelineKeeps
<1>3. PipelineOK(w) => OneEffectPerFault
  BY CopiesHaveNoEffect
<1> QED
  BY <1>1, <1>2, <1>3, PTL DEF PipelineSpec

\* With a single worker, the aggregate as Kafka key carries the order of one aggregate's
\* transactions through ORDER BY id, the partition and ConsumeClaim to the effects:
\* an event takes effect before an earlier one of its key only if that one failed, was
\* sent again, or something else broke down.
THEOREM EffectsAreInKeyOrder ==
    ASSUME NEW w, Workers = {w}
    PROVE  PipelineSpec => []EffectsKeepKeyOrder
<1>1. PipelineInit => PipelineOK(w)
  BY PipelineStarts
<1>2. PipelineOK(w) /\ [PipelineNext]_pipeline => PipelineOK(w)'
  BY PipelineKeeps
<1>3. PipelineOK(w) => EffectsKeepKeyOrder
  BY EffectsInOrder
<1> QED
  BY <1>1, <1>2, <1>3, PTL DEF PipelineSpec
=============================================================================
