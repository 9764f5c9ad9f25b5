---------------------------- MODULE RelayProofs -----------------------------
(***************************************************************************)
(* Theorems about the relay, alone (OutboxRelay) and in a server that is   *)
(* stopped and started again (GracefulShutdown), for any number of events, *)
(* any batch size and any number of retries, faults and stops.  For any    *)
(* number of workers: what is marked SENT is on the topic, nothing is      *)
(* given up early, and the relay implements Delivery.  For a single one    *)
(* (RELAY_WORKER_COUNT=1; main.go starts two by default): results are      *)
(* final, copies are paid for by faults, and the order of a key is kept.   *)
(***************************************************************************)
EXTENDS GracefulShutdown, FiniteSetTheorems, SequenceTheorems, TLAPS

\* What no step takes back.
Forward ==
    /\ \A e \in Events :
          /\ status[e] # "absent" => status'[e] # "absent"
          /\ retries'[e] >= retries[e]
          /\ age'[e] >= age[e]
    /\ faults' >= faults
    /\ Range(topic) \subseteq Range(topic)'

EventsOK == SentIsPublished /\ FailedAfterAllRetries /\ GivenUpOnlyAfterBackoff

-----------------------------------------------------------------------------
(* Sequences and numbers. *)

LEMMA HeadIsFirst ==
    ASSUME NEW S, NEW s \in Seq(S), s # <<>>
    PROVE  /\ 1 \in DOMAIN s
           /\ Head(s) = s[1]
           /\ Head(s) \in S
  OBVIOUS

LEMMA PairParts ==
    ASSUME NEW x, NEW y, NEW p, p = <<x, y>>
    PROVE  p[1] = x /\ p[2] = y
  OBVIOUS

LEMMA FunctionIsSequence ==
    ASSUME NEW S, NEW n \in Nat, NEW f \in [1..n -> S]
    PROVE  f \in Seq(S) /\ DOMAIN f = 1..n
  OBVIOUS

LEMMA TailShifts ==
    ASSUME NEW S, NEW s \in Seq(S), s # <<>>
    PROVE  /\ Tail(s) \in Seq(S)
           /\ Len(s) > 1 => Tail(s) # <<>>
           /\ \A i \in DOMAIN Tail(s) : i + 1 \in DOMAIN s /\ Tail(s)[i] = s[i + 1]
<1>1. Len(s) \in Nat \ {0} /\ DOMAIN s = 1..Len(s)
  OBVIOUS
<1>2. Tail(s) \in Seq(S) /\ Len(Tail(s)) = Len(s) - 1
  OBVIOUS
<1>3. ASSUME NEW i \in DOMAIN Tail(s) PROVE i + 1 \in DOMAIN s /\ Tail(s)[i] = s[i + 1]
  <2>1. i \in 1..Len(s) - 1
    BY <1>1, <1>2
  <2> QED
    BY <1>1, <2>1
<1>4. Len(s) > 1 => Tail(s) # <<>>
  <2>1. ASSUME Tail(s) = <<>> PROVE Len(Tail(s)) = Len(<<>>)
    BY <2>1, Zenon
  <2> QED
    BY <1>1, <1>2, <2>1, EmptySeq
<1> QED
  BY <1>2, <1>3, <1>4

LEMMA RangeOfAppend ==
    ASSUME NEW S, NEW s \in Seq(S), NEW x \in S
    PROVE  Range(Append(s, x)) = Range(s) \cup {x}
<1>1. DOMAIN Append(s, x) = 1..Len(s) + 1 /\ DOMAIN s = 1..Len(s) /\ Len(s) \in Nat
  OBVIOUS
<1>2. \A i \in 1..Len(s) : Append(s, x)[i] = s[i]
  OBVIOUS
<1>3. Append(s, x)[Len(s) + 1] = x
  OBVIOUS
<1> QED
  BY <1>1, <1>2, <1>3 DEF Range

\* A set of numbers has a smallest one.
LEMMA SmallestNumber ==
    ASSUME NEW T \in SUBSET Nat, T # {}
    PROVE  \E n \in T : \A m \in T : n <= m
<1> DEFINE R == {p \in Nat \X Nat : p[1] < p[2]}
<1>1. IsWellFoundedOn(R, Nat)
  BY NatLessThanWellFounded DEF OpToRel
<1>2. PICK n \in T : \A m \in T : <<m, n>> \notin R
  <2> HIDE DEF R
  <2> QED
    BY <1>1, WFMin
<1>3. ASSUME NEW m \in T PROVE n <= m
  <2>1. m \in Nat /\ n \in Nat
    OBVIOUS
  <2>2. ~(m < n)
    BY <1>2, <2>1
  <2> QED
    BY <2>1, <2>2
<1> QED
  BY <1>3

-----------------------------------------------------------------------------
(* What several steps share. *)

LEMMA RowsKeepHolding ==
    ASSUME TypeOK, TypeOK', Forward, NEW row \in Events \X Nat, RowHolds(row)
    PROVE  RowHolds(row)'
<1>1. row[1] \in Events /\ row[2] \in Nat
  OBVIOUS
<1> QED
  BY <1>1 DEF RowHolds, Forward, TypeOK

\* A worker whose own state is unchanged keeps its invariant.
LEMMA OthersKeepGoing ==
    ASSUME NEW Counting, RelayOK(Counting), Forward, NEW v \in Workers,
           pc'[v] = pc[v], batch'[v] = batch[v], sent'[v] = sent[v],
           TypeOK'
    PROVE  WorkerOK(v, Counting)'
<1>1. WorkerOK(v, Counting) /\ TypeOK
  BY DEF RelayOK
<1>2. batch[v] \in Seq(Events \X Nat)
  BY <1>1 DEF TypeOK
<1>3. \A i \in DOMAIN batch[v] : batch[v][i] \in Events \X Nat
  BY <1>2
<1>4. \A i \in DOMAIN batch'[v] : RowHolds(batch[v][i])'
  <2>1. ASSUME NEW i \in DOMAIN batch[v], NEW row, row = batch[v][i] PROVE RowHolds(row)'
    BY <1>1, <1>3, <2>1, RowsKeepHolding DEF WorkerOK
  <2> QED
    BY <2>1 DEF RowHolds
<1>5. pc[v] = "markFailed" => Current(v) \in Events \X Nat /\ Current(v)' = Current(v)
  BY <1>1, <1>2, HeadIsFirst DEF WorkerOK, Current
<1>6. v \in Counting /\ pc'[v] = "markFailed" =>
          LastAttempt(v)' /\ Counted(v)'
  <2> SUFFICES ASSUME v \in Counting, pc[v] = "markFailed"
               PROVE  LastAttempt(v)' /\ Counted(v)'
    OBVIOUS
  <2>1. PICK c \in Events, n \in Nat : c = Current(v)[1] /\ n = Current(v)[2]
    BY <1>5
  <2>2. Current(v)' = Current(v) /\ LastAttempt(v) /\ Counted(v)
    BY <1>1, <1>5 DEF WorkerOK
  <2>3. /\ retries[c] \in Nat /\ retries'[c] \in Nat /\ retries'[c] >= retries[c]
        /\ faults \in Nat /\ faults' \in Nat /\ faults' >= faults
    BY <1>1 DEF Forward, TypeOK
  <2>4. Counted(v)'
    BY <2>1, <2>2, <2>3, BoundsAssumption DEF Counted
  <2> QED
    BY <2>2, <2>4 DEF LastAttempt
<1>7. sent'[v] \subseteq Range(topic)'
  BY <1>1 DEF WorkerOK, Forward
<1> QED
  BY <1>1, <1>4, <1>6, <1>7 DEF WorkerOK

\* A step of one worker needs to be looked at for that worker only.
LEMMA OneWorkerSteps ==
    ASSUME NEW Counting, RelayOK(Counting), NEW w \in Workers,
           Forward, TypeOK', EventsOK', WorkerOK(w, Counting)',
           \A v \in Workers \ {w} :
              pc'[v] = pc[v] /\ batch'[v] = batch[v] /\ sent'[v] = sent[v]
    PROVE  RelayOK(Counting)'
<1>1. \A v \in Workers \ {w} : WorkerOK(v, Counting)'
  BY OthersKeepGoing
<1> QED
  BY <1>1 DEF RelayOK, EventsOK

\* Steps of the environment that leave the workers alone.
LEMMA NoWorkerSteps ==
    ASSUME NEW Counting, RelayOK(Counting), Forward, TypeOK', EventsOK', UNCHANGED worker
    PROVE  RelayOK(Counting)'
<1>1. \A v \in Workers : WorkerOK(v, Counting)'
  BY OthersKeepGoing DEF worker
<1> QED
  BY <1>1 DEF RelayOK, EventsOK

\* The loop goes on: the types ...
LEMMA NextEventType ==
    ASSUME NEW Counting, RelayOK(Counting), NEW w \in Workers, NEW ids \in SUBSET Events,
           batch[w] # <<>>, NextEvent(w, ids)
    PROVE  /\ pc' \in [Workers -> {"poll", "send", "increment", "markFailed", "markSent"}]
           /\ batch' \in [Workers -> Seq(Events \X Nat)]
           /\ sent' \in [Workers -> SUBSET Events]
<1>1. TypeOK
  BY DEF RelayOK
<1>2. Tail(batch[w]) \in Seq(Events \X Nat)
  BY <1>1, TailShifts DEF TypeOK
<1> QED
  BY <1>1, <1>2 DEF NextEvent, Goto, TypeOK

\* ... and the rest of a batch, which is as good as the batch.
LEMMA NextEventKeeps ==
    ASSUME NEW Counting, RelayOK(Counting), Forward, NEW w \in Workers, NEW ids \in SUBSET Events,
           batch[w] # <<>>, NextEvent(w, ids), ids \subseteq Range(topic)',
           TypeOK'
    PROVE  /\ WorkerOK(w, Counting)'
           /\ \A v \in Workers \ {w} :
                pc'[v] = pc[v] /\ batch'[v] = batch[v] /\ sent'[v] = sent[v]
<1> USE DEF NextEvent, Goto
<1>1. TypeOK /\ WorkerOK(w, Counting)
  BY DEF RelayOK
<1>2. batch[w] \in Seq(Events \X Nat) /\ batch'[w] = Tail(batch[w])
  BY <1>1 DEF TypeOK
<1>4. \A i \in DOMAIN batch'[w] :
          i + 1 \in DOMAIN batch[w] /\ batch'[w][i] = batch[w][i + 1]
  BY <1>2, TailShifts
<1>5. \A i \in DOMAIN batch[w] : batch[w][i] \in Events \X Nat
  BY <1>2
<1>6. \A i \in DOMAIN batch'[w] : RowHolds(batch[w][i])'
  <2>1. ASSUME NEW i \in DOMAIN batch[w], NEW row, row = batch[w][i] PROVE RowHolds(row)'
    BY <1>1, <1>5, <2>1, RowsKeepHolding DEF WorkerOK
  <2> QED
    BY <1>4, <2>1 DEF RowHolds
<1>7. /\ pc'[w] \in {"poll", "send", "markSent"}
      /\ pc'[w] = "send" => Len(batch[w]) > 1
      /\ sent'[w] = ids
  BY <1>1 DEF TypeOK
<1>8. pc'[w] = "send" => batch'[w] # <<>>
  BY <1>2, <1>7, TailShifts
<1>9. WorkerOK(w, Counting)'
  BY <1>6, <1>7, <1>8 DEF WorkerOK
<1> QED
  BY <1>1, <1>9 DEF TypeOK

-----------------------------------------------------------------------------
(* The order service, the clock and Kafka. *)

LEMMA EnvironmentKeeps ==
    ASSUME NEW Counting, RelayOK(Counting),
           \/ \E e \in Events : CommitEvent(e) \/ Grow(e)
           \/ KafkaFails \/ KafkaRecovers
    PROVE  RelayOK(Counting)'
<1> USE DEF RelayOK
<1>1. ASSUME NEW e \in Events, CommitEvent(e) PROVE RelayOK(Counting)'
  <2> USE <1>1 DEF CommitEvent, NewRow, worker
  <2>1. TypeOK'
    BY DEF TypeOK
  <2>2. Forward
    BY DEF Forward, TypeOK
  <2>3. EventsOK'
    BY DEF EventsOK, TypeOK, SentIsPublished, FailedAfterAllRetries, GivenUpOnlyAfterBackoff, Published
  <2> QED
    BY <2>1, <2>2, <2>3, NoWorkerSteps
<1>2. ASSUME NEW e \in Events, Grow(e) PROVE RelayOK(Counting)'
  <2> USE <1>2 DEF Grow, worker
  <2>1. TypeOK'
    BY DEF TypeOK
  <2>2. Forward
    BY DEF Forward, TypeOK
  <2>3. EventsOK'
    BY BoundsAssumption
    DEF EventsOK, TypeOK, SentIsPublished, FailedAfterAllRetries, GivenUpOnlyAfterBackoff, Published
  <2> QED
    BY <2>1, <2>2, <2>3, NoWorkerSteps
<1>3. CASE KafkaFails \/ KafkaRecovers
  <2> USE <1>3 DEF KafkaFails, KafkaRecovers, table, worker
  <2>1. TypeOK'
    BY DEF TypeOK
  <2>2. Forward
    BY DEF Forward, TypeOK
  <2>3. EventsOK'
    BY DEF EventsOK, SentIsPublished, FailedAfterAllRetries, GivenUpOnlyAfterBackoff, Published
  <2> QED
    BY <2>1, <2>2, <2>3, NoWorkerSteps
<1> QED
  BY <1>1, <1>2, <1>3

LEMMA CrashKeeps ==
    ASSUME NEW Counting, RelayOK(Counting), Crash
    PROVE  RelayOK(Counting)'
<1> USE DEF Crash, Fault, table
<1>1. TypeOK'
  BY DEF RelayOK, TypeOK
<1>2. EventsOK'
  BY BoundsAssumption DEF RelayOK, TypeOK, EventsOK, SentIsPublished, FailedAfterAllRetries,
     GivenUpOnlyAfterBackoff, Published
<1>3. ASSUME NEW w \in Workers PROVE WorkerOK(w, Counting)'
  BY DEF WorkerOK
<1> QED
  BY <1>1, <1>2, <1>3 DEF RelayOK, EventsOK

-----------------------------------------------------------------------------
(* One worker. *)

\* The event that a worker is sending or has failed to send.
LEMMA CurrentHolds ==
    ASSUME NEW Counting, RelayOK(Counting),
           NEW w \in Workers, pc[w] \in {"send", "increment", "markFailed"}
    PROVE  /\ batch[w] # <<>>
           /\ Current(w)[1] \in Events /\ Current(w)[2] \in Nat
           /\ RowHolds(Current(w))
<1>1. WorkerOK(w, Counting) /\ batch[w] \in Seq(Events \X Nat) /\ batch[w] # <<>>
  BY DEF RelayOK, TypeOK, WorkerOK
<1>2. Current(w) = batch[w][1] /\ 1 \in DOMAIN batch[w] /\ Current(w) \in Events \X Nat
  BY <1>1, HeadIsFirst DEF Current
<1>3. RowHolds(Current(w))
  BY <1>1, <1>2 DEF WorkerOK
<1> QED
  BY <1>1, <1>2, <1>3

\* What a poll fetches.
LEMMA FetchedRows ==
    ASSUME TypeOK, NEW w \in Workers, FetchPending(w)
    PROVE  \E skipped \in SUBSET LockedByAnother(w) :
              LET due == {e \in Events \ skipped : Due(e)}
              IN  \E rows \in Batches(due) :
                     /\ Limit(due) \in Nat \ {0}
                     /\ batch' \in [Workers -> Seq(Events \X Nat)]
                     /\ DOMAIN batch'[w] = 1..Limit(due)
                     /\ \A i \in 1..Limit(due) :
                           /\ rows[i] \in due
                           /\ batch'[w][i] = <<rows[i], retries[rows[i]]>>
<1> USE DEF FetchPending
<1>1. PICK skipped \in SUBSET LockedByAnother(w) :
         LET due == {e \in Events \ skipped : Due(e)}
         IN  /\ due # {}
             /\ \E rows \in Batches(due) :
                   batch' = [batch EXCEPT ![w] =
                               [i \in 1..Limit(due) |-> <<rows[i], retries[rows[i]]>>]]
  OBVIOUS
<1> DEFINE due == {e \in Events \ skipped : Due(e)}
<1>2. PICK rows \in Batches(due) :
         batch' = [batch EXCEPT ![w] = [i \in 1..Limit(due) |-> <<rows[i], retries[rows[i]]>>]]
  BY <1>1
<1>3. Limit(due) \in Nat \ {0}
  <2>1. due # {} /\ IsFiniteSet(due)
    BY <1>1, EventsAssumption, FS_Subset
  <2>2. Cardinality(due) \in Nat \ {0}
    BY <2>1, FS_CardinalityType, FS_EmptySet
  <2> QED
    BY <2>2, BoundsAssumption DEF Limit
<1>4. \A i \in 1..Limit(due) : rows[i] \in due
  BY <1>2 DEF Batches
<1> DEFINE fetched == [i \in 1..Limit(due) |-> <<rows[i], retries[rows[i]]>>]
<1>5. fetched \in Seq(Events \X Nat) /\ DOMAIN fetched = 1..Limit(due)
  <2>1. PICK n \in Nat \ {0} : n = Limit(due)
    BY <1>3
  <2>2. \A i \in 1..n : rows[i] \in Events
    BY <1>4, <2>1
  <2> HIDE DEF due
  <2>3. \A i \in 1..n : <<rows[i], retries[rows[i]]>> \in Events \X Nat
    BY <2>2 DEF TypeOK
  <2>4. [i \in 1..n |-> <<rows[i], retries[rows[i]]>>] \in [1..n -> Events \X Nat]
    BY <2>3
  <2>5. fetched = [i \in 1..n |-> <<rows[i], retries[rows[i]]>>]
    BY <2>1
  <2> QED
    BY <2>1, <2>4, <2>5, FunctionIsSequence
<1>6. batch'[w] = fetched /\ batch' \in [Workers -> Seq(Events \X Nat)]
  BY <1>2, <1>5 DEF TypeOK
<1>7. \A i \in 1..Limit(due) : batch'[w][i] = <<rows[i], retries[rows[i]]>>
  BY <1>6
<1> HIDE DEF due, fetched
<1>8. /\ Limit(due) \in Nat \ {0}
      /\ batch' \in [Workers -> Seq(Events \X Nat)]
      /\ DOMAIN batch'[w] = 1..Limit(due)
      /\ \A i \in 1..Limit(due) :
            rows[i] \in due /\ batch'[w][i] = <<rows[i], retries[rows[i]]>>
  BY <1>3, <1>4, <1>5, <1>6, <1>7
<1> QED
  BY <1>2, <1>8 DEF due

LEMMA FetchPendingKeeps ==
    ASSUME NEW Counting, RelayOK(Counting), NEW w \in Workers, FetchPending(w)
    PROVE  RelayOK(Counting)'
<1> USE DEF FetchPending
<1>1. TypeOK
  BY DEF RelayOK
<1>2. PICK skipped \in SUBSET LockedByAnother(w) :
         LET due == {e \in Events \ skipped : Due(e)}
         IN  \E rows \in Batches(due) :
                /\ Limit(due) \in Nat \ {0}
                /\ batch' \in [Workers -> Seq(Events \X Nat)]
                /\ DOMAIN batch'[w] = 1..Limit(due)
                /\ \A i \in 1..Limit(due) :
                      /\ rows[i] \in due
                      /\ batch'[w][i] = <<rows[i], retries[rows[i]]>>
  BY <1>1, FetchedRows
<1> DEFINE due == {e \in Events \ skipped : Due(e)}
<1>3. PICK rows \in Batches(due), n \in Nat \ {0} :
         /\ batch' \in [Workers -> Seq(Events \X Nat)]
         /\ DOMAIN batch'[w] = 1..n
         /\ \A i \in 1..n :
               rows[i] \in Events /\ Due(rows[i]) /\ batch'[w][i] = <<rows[i], retries[rows[i]]>>
  <2>1. PICK rows \in Batches(due) :
           /\ Limit(due) \in Nat \ {0}
           /\ batch' \in [Workers -> Seq(Events \X Nat)]
           /\ DOMAIN batch'[w] = 1..Limit(due)
           /\ \A i \in 1..Limit(due) :
                 rows[i] \in due /\ batch'[w][i] = <<rows[i], retries[rows[i]]>>
    BY <1>2
  <2>2. \A i \in 1..Limit(due) : rows[i] \in Events /\ Due(rows[i])
    BY <2>1
  <2> HIDE DEF due
  <2> QED
    BY <2>1, <2>2
<1> HIDE DEF due
<1>4. \A v \in Workers \ {w} : pc'[v] = pc[v] /\ batch'[v] = batch[v] /\ sent'[v] = sent[v]
  BY <1>1 DEF Goto, TypeOK
<1>5. pc' \in [Workers -> {"poll", "send", "increment", "markFailed", "markSent"}]
      /\ pc'[w] = "send"
  BY <1>1 DEF Goto, TypeOK
<1>6. UNCHANGED <<status, retries, age, topic, kafkaUp, sent, faults>>
  BY DEF table
<1> HIDE DEF FetchPending
<1>7. TypeOK'
  BY <1>1, <1>3, <1>5, <1>6 DEF TypeOK
<1>8. WorkerOK(w, Counting)'
  <2>1. batch'[w] # <<>>
    BY <1>3
  <2>2. \A i \in DOMAIN batch'[w] : RowHolds(batch[w][i])'
    <3> SUFFICES ASSUME NEW i \in 1..n
                 PROVE  RowHolds(batch[w][i])'
      BY <1>3
    <3>1. batch'[w][i][1] = rows[i] /\ batch'[w][i][2] = retries[rows[i]]
      BY <1>3, PairParts
    <3>2. rows[i] \in Events /\ Due(rows[i])
      BY <1>3
    <3> QED
      BY <1>1, <1>6, <3>1, <3>2 DEF TypeOK, Due, RowHolds
  <2> QED
    BY <1>5, <1>6, <2>1, <2>2 DEF RelayOK, WorkerOK
<1>9. Forward /\ EventsOK'
  BY <1>1, <1>6 DEF RelayOK, TypeOK, Forward, EventsOK, SentIsPublished, FailedAfterAllRetries,
     GivenUpOnlyAfterBackoff, Published
<1> QED
  BY <1>4, <1>7, <1>8, <1>9, OneWorkerSteps

LEMMA SendFailsKeeps ==
    ASSUME NEW Counting, RelayOK(Counting), NEW w \in Workers, SendFails(w)
    PROVE  RelayOK(Counting)'
<1> USE DEF SendFails, Goto, table
<1>1. TypeOK /\ WorkerOK(w, Counting)
  BY DEF RelayOK
<1>2. TypeOK'
  BY <1>1 DEF TypeOK
<1>3. WorkerOK(w, Counting)'
  BY <1>1 DEF WorkerOK, RowHolds, TypeOK
<1>4. Forward /\ EventsOK'
  BY <1>1 DEF RelayOK, TypeOK, Forward, EventsOK, SentIsPublished, FailedAfterAllRetries,
     GivenUpOnlyAfterBackoff, Published
<1> QED
  BY <1>1, <1>2, <1>3, <1>4, OneWorkerSteps DEF TypeOK

\* A message reaches the topic: what was there stays.
LEMMA TopicGrows ==
    ASSUME NEW Counting, RelayOK(Counting), NEW e \in Events, topic' = Append(topic, e)
    PROVE  topic' \in Seq(Events) /\ Range(topic)' = Range(topic) \cup {e}
<1>1. topic \in Seq(Events)
  BY DEF RelayOK, TypeOK
<1>2. Range(topic') = Range(topic) \cup {e}
  BY <1>1, RangeOfAppend
<1> QED
  BY <1>1, <1>2

LEMMA SendAckedKeeps ==
    ASSUME NEW Counting, RelayOK(Counting), NEW w \in Workers, SendAcked(w)
    PROVE  RelayOK(Counting)'
<1> USE DEF SendAcked, table
<1> DEFINE e == Current(w)[1]
<1>1. TypeOK /\ WorkerOK(w, Counting) /\ e \in Events /\ batch[w] # <<>>
  BY CurrentHolds DEF RelayOK
<1> HIDE DEF e
<1>2. topic' \in Seq(Events) /\ Range(topic)' = Range(topic) \cup {e}
  BY <1>1, TopicGrows DEF e
<1>3. NextEvent(w, sent[w] \cup {e})
  BY DEF e
<1>4. sent[w] \cup {e} \in SUBSET Events /\ sent[w] \cup {e} \subseteq Range(topic)'
  BY <1>1, <1>2 DEF TypeOK, WorkerOK
<1>5. TypeOK'
  BY <1>1, <1>2, <1>3, <1>4, NextEventType DEF TypeOK
<1>6. Forward
  BY <1>1, <1>2 DEF TypeOK, Forward
<1>7. EventsOK'
  BY <1>1, <1>2 DEF RelayOK, EventsOK, SentIsPublished, FailedAfterAllRetries,
     GivenUpOnlyAfterBackoff, Published
<1> QED
  BY <1>1, <1>3, <1>4, <1>5, <1>6, <1>7, NextEventKeeps, OneWorkerSteps

LEMMA SendAckLostKeeps ==
    ASSUME NEW Counting, RelayOK(Counting), NEW w \in Workers, SendAckLost(w)
    PROVE  RelayOK(Counting)'
<1> USE DEF SendAckLost, Goto, Fault, table
<1> DEFINE e == Current(w)[1]
<1>1. TypeOK /\ WorkerOK(w, Counting) /\ e \in Events
  BY CurrentHolds DEF RelayOK
<1>2. topic' \in Seq(Events) /\ Range(topic)' = Range(topic) \cup {e}
  BY <1>1, TopicGrows
<1> HIDE DEF e
<1>3. TypeOK'
  BY <1>1, <1>2 DEF TypeOK
<1>4. WorkerOK(w, Counting)'
  BY <1>1, <1>2 DEF WorkerOK, RowHolds, TypeOK
<1>5. Forward /\ EventsOK'
  BY <1>1, <1>2, BoundsAssumption DEF RelayOK, TypeOK, Forward, EventsOK, SentIsPublished,
     FailedAfterAllRetries, GivenUpOnlyAfterBackoff, Published
<1> QED
  BY <1>1, <1>3, <1>4, <1>5, OneWorkerSteps DEF TypeOK

LEMMA IncrementRetryKeeps ==
    ASSUME NEW Counting, RelayOK(Counting), NEW w \in Workers, IncrementRetry(w)
    PROVE  RelayOK(Counting)'
<1> USE DEF IncrementRetry, Fault, NoFault
<1> DEFINE e == Current(w)[1]
<1>1. TypeOK /\ WorkerOK(w, Counting) /\ batch[w] # <<>> /\ e \in Events /\ Current(w)[2] \in Nat
  BY CurrentHolds DEF RelayOK
<1>2. RowHolds(Current(w))
  BY CurrentHolds
<1>3. /\ retries' \in [Events -> Nat] /\ faults' \in Nat
      /\ \A d \in Events : retries'[d] >= retries[d]
      /\ faults' >= faults
      /\ LastAttempt(w) => retries'[e] + faults' >= MaxRetries /\ retries'[e] + faults' > 0
  <2>1. retries[e] >= Current(w)[2] /\ retries[e] \in Nat
    BY <1>1, <1>2 DEF TypeOK, RowHolds
  <2> HIDE DEF e
  <2>2. CASE retries' = [retries EXCEPT ![e] = @ + 1] /\ UNCHANGED faults
    <3>1. retries \in [Events -> Nat] /\ faults' = faults /\ faults \in Nat /\ e \in Events
      BY <1>1, <2>2 DEF TypeOK
    <3>2. \A d \in Events : retries'[d] = IF d = e THEN retries[d] + 1 ELSE retries[d]
      BY <2>2, <3>1
    <3>3. retries' \in [Events -> Nat] /\ \A d \in Events : retries'[d] >= retries[d]
      BY <2>2, <3>1, <3>2
    <3>4. PICK n \in Nat, r \in Nat, c \in Nat : n = faults /\ r = retries[e] /\ c = Current(w)[2]
      BY <1>1, <2>1, <3>1
    <3>5. c + 1 >= MaxRetries => (r + 1) + n >= MaxRetries /\ (r + 1) + n > 0
      BY <2>1, <3>4, BoundsAssumption
    <3>6. retries'[e] = r + 1 /\ faults' = n
      BY <3>1, <3>2, <3>4
    <3>7. LastAttempt(w) => retries'[e] + faults' >= MaxRetries /\ retries'[e] + faults' > 0
      BY <3>4, <3>5, <3>6 DEF LastAttempt
    <3> QED
      BY <3>1, <3>3, <3>7
  <2>3. CASE UNCHANGED retries /\ faults' = faults + 1
    <3>1. /\ retries' = retries /\ retries \in [Events -> Nat]
          /\ faults \in Nat /\ faults' = faults + 1
      BY <1>1, <2>3 DEF TypeOK
    <3>2. faults' \in Nat /\ faults' >= faults
      BY <3>1
    <3>3. \A d \in Events : retries'[d] >= retries[d]
      BY <3>1
    <3>4. PICK n \in Nat, r \in Nat, c \in Nat : n = faults /\ r = retries[e] /\ c = Current(w)[2]
      BY <1>1, <2>1, <3>1
    <3>5. c + 1 >= MaxRetries => r + (n + 1) >= MaxRetries /\ r + (n + 1) > 0
      BY <2>1, <3>4, BoundsAssumption
    <3>6. LastAttempt(w) => retries'[e] + faults' >= MaxRetries /\ retries'[e] + faults' > 0
      BY <3>1, <3>4, <3>5 DEF LastAttempt
    <3> QED
      BY <3>1, <3>2, <3>3, <3>6
  <2>4. CASE retries[e] >= MaxCount /\ UNCHANGED <<retries, faults>>
    <3>1. retries' = retries /\ faults' = faults /\ retries \in [Events -> Nat] /\ faults \in Nat
      BY <1>1, <2>4 DEF TypeOK
    <3>2. \A d \in Events : retries'[d] >= retries[d]
      BY <3>1
    <3>3. PICK n \in Nat, r \in Nat : n = faults /\ r = retries[e] /\ r >= MaxCount
      BY <2>1, <2>4, <3>1
    <3>4. r + n >= MaxRetries /\ r + n > 0
      BY <3>3, BoundsAssumption, ColumnAssumption
    <3> QED
      BY <3>1, <3>2, <3>3, <3>4
  <2> QED
    BY <2>2, <2>3, <2>4 DEF e
<1>4. Forward
  BY <1>1, <1>3 DEF Forward, TypeOK
<1>5. EventsOK'
  BY <1>1, <1>3, BoundsAssumption DEF RelayOK, TypeOK, EventsOK, SentIsPublished,
     FailedAfterAllRetries, GivenUpOnlyAfterBackoff, Published
<1>6. CASE LastAttempt(w)
  <2>1. pc' = [pc EXCEPT ![w] = "markFailed"] /\ UNCHANGED <<batch, sent>>
    BY <1>6 DEF Goto
  <2>2. TypeOK'
    BY <1>1, <1>3, <2>1 DEF TypeOK
  <2>3. Current(w)' = Current(w) /\ LastAttempt(w)'
    BY <1>6, <2>1 DEF Current, LastAttempt
  <2>4. \A i \in DOMAIN batch'[w] : RowHolds(batch[w][i])'
    <3>1. ASSUME NEW i \in DOMAIN batch[w], NEW row, row = batch[w][i] PROVE RowHolds(row)'
      <4>1. row \in Events \X Nat /\ RowHolds(row)
        BY <1>1, <3>1 DEF TypeOK, WorkerOK
      <4> QED
        BY <1>1, <1>4, <2>2, <4>1, RowsKeepHolding
    <3> QED
      BY <2>1, <3>1 DEF RowHolds
  <2>5. Counted(w)'
    BY <1>3, <1>6, <2>3 DEF Counted
  <2>6. sent'[w] \subseteq Range(topic)'
    BY <1>1, <2>1 DEF WorkerOK
  <2>7. WorkerOK(w, Counting)'
    BY <1>1, <2>1, <2>3, <2>4, <2>5, <2>6 DEF WorkerOK
  <2> QED
    BY <1>1, <1>4, <1>5, <2>1, <2>2, <2>7, OneWorkerSteps DEF TypeOK
<1>7. CASE ~LastAttempt(w)
  <2>1. NextEvent(w, sent[w]) /\ sent[w] \in SUBSET Events /\ sent[w] \subseteq Range(topic)'
    BY <1>1, <1>7 DEF TypeOK, WorkerOK
  <2>2. TypeOK'
    BY <1>1, <1>3, <2>1, NextEventType DEF TypeOK
  <2> QED
    BY <1>1, <1>4, <1>5, <2>1, <2>2, NextEventKeeps, OneWorkerSteps
<1> QED
  BY <1>6, <1>7

LEMMA MarkFailedKeeps ==
    ASSUME NEW Counting, RelayOK(Counting), NEW w \in Workers \cap Counting, MarkFailed(w)
    PROVE  RelayOK(Counting)'
<1> USE DEF MarkFailed, Fault, NoFault
<1> DEFINE e == Current(w)[1]
<1>1. TypeOK /\ WorkerOK(w, Counting) /\ batch[w] # <<>> /\ e \in Events /\ Current(w)[2] \in Nat
  BY CurrentHolds DEF RelayOK
<1>2. age[e] >= MaxRetries - 1 /\ retries[e] + faults >= MaxRetries
  <2>1. age[e] \in Nat /\ retries[e] \in Nat /\ faults \in Nat
    BY <1>1 DEF TypeOK
  <2>2. age[e] >= Current(w)[2]
    BY <1>1, CurrentHolds DEF RowHolds
  <2>3. Current(w)[2] + 1 >= MaxRetries /\ retries[e] + faults >= MaxRetries
    BY <1>1 DEF WorkerOK, LastAttempt, Counted
  <2> HIDE DEF e
  <2> QED
    BY <1>1, <2>1, <2>2, <2>3, BoundsAssumption
<1> HIDE DEF e
<1>3. /\ faults' \in Nat /\ faults' >= faults
      /\ status' \in [Events -> {"absent", "PENDING", "SENT", "FAILED"}]
      /\ \A d \in Events :
            status'[d] = status[d] \/ (d = e /\ status'[d] = "FAILED")
  <2>1. CASE status' = [status EXCEPT ![e] = "FAILED"] /\ UNCHANGED faults
    BY <1>1, <2>1 DEF TypeOK
  <2>2. CASE UNCHANGED status /\ faults' = faults + 1
    BY <1>1, <2>2 DEF TypeOK
  <2> QED
    BY <2>1, <2>2 DEF e
<1>4. Forward
  BY <1>1, <1>3 DEF Forward, TypeOK
<1>5. EventsOK'
  <2>1. SentIsPublished'
    BY <1>3 DEF RelayOK, SentIsPublished, Published
  <2>2. UNCHANGED <<retries, age>>
    OBVIOUS
  <2> HIDE DEF MarkFailed
  <2>3. FailedAfterAllRetries'
    <3> SUFFICES ASSUME NEW d \in Events, status'[d] = "FAILED"
                 PROVE  retries[d] + faults' >= MaxRetries
      BY <2>2 DEF FailedAfterAllRetries
    <3>1. retries[d] \in Nat /\ faults \in Nat /\ retries[d] + faults >= MaxRetries
      BY <1>1, <1>2, <1>3 DEF RelayOK, TypeOK, FailedAfterAllRetries
    <3> QED
      BY <1>3, <3>1, BoundsAssumption
  <2>4. GivenUpOnlyAfterBackoff'
    BY <1>1, <1>2, <1>3, <2>2 DEF RelayOK, GivenUpOnlyAfterBackoff
  <2> QED
    BY <2>1, <2>3, <2>4 DEF EventsOK
<1>6. NextEvent(w, sent[w]) /\ sent[w] \in SUBSET Events /\ sent[w] \subseteq Range(topic)'
  BY <1>1 DEF TypeOK, WorkerOK
<1>7. TypeOK'
  BY <1>1, <1>3, <1>6, NextEventType DEF TypeOK
<1> QED
  BY <1>1, <1>4, <1>5, <1>6, <1>7, NextEventKeeps, OneWorkerSteps

LEMMA MarkSentKeeps ==
    ASSUME NEW Counting, RelayOK(Counting), NEW w \in Workers, MarkSent(w)
    PROVE  RelayOK(Counting)'
<1> USE DEF MarkSent, Goto, Fault, NoFault
<1>1. TypeOK /\ WorkerOK(w, Counting)
  BY DEF RelayOK
<1>2. TypeOK'
  BY <1>1 DEF TypeOK
<1>3. /\ faults' >= faults
      /\ \A d \in Events :
            status'[d] = status[d] \/ (d \in sent[w] /\ status'[d] = "SENT")
  BY <1>1 DEF TypeOK
<1>4. Forward
  BY <1>1, <1>3 DEF Forward, TypeOK
<1>5. EventsOK'
  BY <1>1, <1>2, <1>3, BoundsAssumption DEF RelayOK, TypeOK, WorkerOK, EventsOK, SentIsPublished,
     FailedAfterAllRetries, GivenUpOnlyAfterBackoff, Published
<1>6. pc'[w] = "poll" /\ batch'[w] = batch[w] /\ sent'[w] = {}
  BY <1>1 DEF TypeOK
<1>7. \A i \in DOMAIN batch'[w] : RowHolds(batch[w][i])'
  <2>1. ASSUME NEW i \in DOMAIN batch[w], NEW row, row = batch[w][i] PROVE RowHolds(row)'
    <3>1. row \in Events \X Nat /\ RowHolds(row)
      BY <1>1, <2>1 DEF TypeOK, WorkerOK
    <3> QED
      BY <1>1, <1>2, <1>4, <3>1, RowsKeepHolding
  <2> QED
    BY <1>6, <2>1 DEF RowHolds
<1>8. WorkerOK(w, Counting)'
  BY <1>6, <1>7 DEF WorkerOK
<1> QED
  BY <1>1, <1>2, <1>4, <1>5, <1>8, OneWorkerSteps DEF TypeOK

\* Workers touch the rows of committed events only, and their ages never.
OnlyCommitted == \A e \in Events : Published(e) => status[e] # "absent"

LEMMA WorkersTouchCommitted ==
    ASSUME NEW Counting, RelayOK(Counting), OnlyCommitted, NEW w \in Workers, Work(w)
    PROVE  /\ OnlyCommitted' /\ age' = age
           /\ \A e \in Events : status'[e] = "absent" <=> status[e] = "absent"
<1>1. TypeOK /\ sent[w] \subseteq Range(topic)
  BY DEF RelayOK, WorkerOK
<1>2. CASE FetchPending(w) \/ SendFails(w) \/ IncrementRetry(w)
  BY <1>2 DEF FetchPending, SendFails, IncrementRetry, table, OnlyCommitted, Published
<1>3. CASE SendAcked(w) \/ SendAckLost(w)
  <2>1. PICK c \in Events : c = Current(w)[1] /\ status[c] # "absent"
    BY <1>3, CurrentHolds DEF SendAcked, SendAckLost, RowHolds
  <2>2. /\ topic' = Append(topic, c) /\ topic \in Seq(Events)
        /\ age' = age /\ status' = status
    BY <1>1, <1>3, <2>1 DEF SendAcked, SendAckLost, table, TypeOK
  <2>3. Range(topic') = Range(topic) \cup {c}
    BY <2>2, RangeOfAppend
  <2> QED
    BY <2>1, <2>2, <2>3 DEF OnlyCommitted, Published
<1>4. CASE MarkFailed(w)
  <2>1. PICK c \in Events : c = Current(w)[1] /\ status[c] # "absent"
    BY <1>4, CurrentHolds DEF MarkFailed, RowHolds
  <2> QED
    BY <1>1, <1>4, <2>1 DEF MarkFailed, TypeOK, OnlyCommitted, Published
<1>5. CASE MarkSent(w)
  <2>1. \A e \in sent[w] : e \in Events => status[e] # "absent"
    BY <1>1 DEF OnlyCommitted, Published
  <2> QED
    BY <1>1, <1>5, <2>1 DEF MarkSent, TypeOK, OnlyCommitted, Published
<1> QED
  BY <1>2, <1>3, <1>4, <1>5 DEF Work

-----------------------------------------------------------------------------
(* The theorems. *)

LEMMA RelayInductive ==
    ASSUME RelayOK(Workers), [Next]_vars
    PROVE  RelayOK(Workers)'
<1>1. ASSUME NEW w \in Workers, Work(w) PROVE RelayOK(Workers)'
  BY <1>1, FetchPendingKeeps, SendAckedKeeps, SendFailsKeeps, SendAckLostKeeps,
     IncrementRetryKeeps, MarkFailedKeeps, MarkSentKeeps DEF Work
<1>2. CASE Environment \/ \E e \in Events : Grow(e)
  BY <1>2, EnvironmentKeeps, CrashKeeps DEF Environment
<1>3. CASE Idle \/ UNCHANGED vars
  <2>1. UNCHANGED vars
    BY <1>3 DEF Idle
  <2> QED
    BY <2>1 DEF vars, RelayOK, TypeOK, SentIsPublished, FailedAfterAllRetries,
       GivenUpOnlyAfterBackoff, WorkerOK, RowHolds, Counted, Published, LastAttempt, Current
<1> QED
  BY <1>1, <1>2, <1>3 DEF Next

LEMMA RelayStarts ==
    ASSUME Init
    PROVE  RelayOK(Workers)
<1> USE DEF Init
<1>1. TypeOK
  BY DEF TypeOK
<1>2. EventsOK
  BY DEF EventsOK, SentIsPublished, FailedAfterAllRetries, GivenUpOnlyAfterBackoff
<1>3. ASSUME NEW w \in Workers PROVE WorkerOK(w, Workers)
  BY DEF WorkerOK
<1> QED
  BY <1>1, <1>2, <1>3 DEF RelayOK, EventsOK

LEMMA RelayStaysOK == Spec => []RelayOK(Workers)
<1>1. Init => RelayOK(Workers)
  BY RelayStarts
<1>2. RelayOK(Workers) /\ [Next]_vars => RelayOK(Workers)'
  BY RelayInductive
<1> QED
  BY <1>1, <1>2, PTL DEF Spec

\* Type correctness, from the same invariant (relay.go, mysql_outbox_repo.go).
THEOREM RelayTypeCorrect == Spec => []TypeOK
<1>1. RelayOK(Workers) => TypeOK
  BY DEF RelayOK
<1> QED
  BY <1>1, RelayStaysOK, PTL

\* Only what is on the topic is marked SENT, for any number of workers that
\* share, send and mark the same rows (relay.go, pollAndPublish).
THEOREM SentMeansPublished == Spec => []SentIsPublished
<1>1. RelayOK(Workers) => SentIsPublished
  BY DEF RelayOK
<1> QED
  BY <1>1, RelayStaysOK, PTL

\* No number of workers makes an event FAILED before it has failed MaxRetries
\* times, faults that hide attempts from the counter aside.
THEOREM FailedMeansAllRetries == Spec => []FailedAfterAllRetries
<1>1. RelayOK(Workers) => FailedAfterAllRetries
  BY DEF RelayOK
<1> QED
  BY <1>1, RelayStaysOK, PTL

\* An event is FAILED only when its whole backoff, counted from created_at, has
\* passed (FetchPending's condition and pollAndPublish's count together).
THEOREM GivenUpMeansOld == Spec => []GivenUpOnlyAfterBackoff
<1>1. RelayOK(Workers) => GivenUpOnlyAfterBackoff
  BY DEF RelayOK
<1> QED
  BY <1>1, RelayStaysOK, PTL

-----------------------------------------------------------------------------
(* The relay implements Delivery. *)

LEMMA StepDelivers ==
    ASSUME NEW Counting, RelayOK(Counting), [Next]_vars
    PROVE  AtLeastOnce!Next \/ UNCHANGED <<status, Range(topic)>>
<1> USE DEF AtLeastOnce!Next
<1>1. ASSUME NEW e \in Events, CommitEvent(e) PROVE AtLeastOnce!Commit(e)
  BY <1>1 DEF CommitEvent, NewRow, AtLeastOnce!Commit
<1>2. ASSUME NEW w \in Workers, SendAcked(w) \/ SendAckLost(w)
      PROVE  AtLeastOnce!Publish(Current(w)[1]) /\ Current(w)[1] \in Events
  <2>1. RowHolds(Current(w)) /\ Current(w)[1] \in Events
    BY <1>2, CurrentHolds DEF SendAcked, SendAckLost
  <2>2. Range(topic)' = Range(topic) \cup {Current(w)[1]} /\ UNCHANGED status
    BY <1>2, <2>1, TopicGrows DEF SendAcked, SendAckLost, table
  <2> QED
    BY <2>1, <2>2 DEF RowHolds, AtLeastOnce!Publish
<1>3. ASSUME NEW w \in Workers, MarkFailed(w)
      PROVE  AtLeastOnce!Next \/ UNCHANGED <<status, Range(topic)>>
  <2>1. RowHolds(Current(w)) /\ Current(w)[1] \in Events
    BY <1>3, CurrentHolds DEF MarkFailed
  <2>2. AtLeastOnce!GiveUp(Current(w)[1]) \/ UNCHANGED <<status, Range(topic)>>
    BY <1>3, <2>1 DEF MarkFailed, RowHolds, AtLeastOnce!GiveUp
  <2> QED
    BY <2>1, <2>2
<1>4. ASSUME NEW w \in Workers, MarkSent(w)
      PROVE  AtLeastOnce!Next \/ UNCHANGED <<status, Range(topic)>>
  <2>1. sent[w] \in SUBSET Range(topic)
    BY DEF RelayOK, WorkerOK
  <2>2. AtLeastOnce!Confirm(sent[w]) \/ UNCHANGED <<status, Range(topic)>>
    BY <1>4 DEF MarkSent, AtLeastOnce!Confirm
  <2> QED
    BY <2>1, <2>2
<1>5. ASSUME NEW w \in Workers, FetchPending(w) \/ SendFails(w) \/ IncrementRetry(w)
      PROVE  UNCHANGED <<status, Range(topic)>>
  BY <1>5 DEF FetchPending, SendFails, IncrementRetry, table
<1>6. ASSUME (\E e \in Events : Grow(e)) \/ KafkaFails \/ KafkaRecovers \/ Crash \/ Idle
             \/ UNCHANGED vars
      PROVE  UNCHANGED <<status, Range(topic)>>
  BY <1>6 DEF Grow, KafkaFails, KafkaRecovers, Crash, Idle, table, vars
<1> QED
  BY <1>1, <1>2, <1>3, <1>4, <1>5, <1>6 DEF Next, Work, Environment

\* Whatever workers crash, share rows and lose acknowledgements, statuses and
\* topic change only as the transactional outbox promises.
THEOREM RelayImplementsDelivery == Spec => ImplementsDelivery
<1>1. Init => AtLeastOnce!Init
  BY DEF Init, AtLeastOnce!Init, Range
<1>2. RelayOK(Workers) /\ [Next]_vars => [AtLeastOnce!Next]_<<status, Range(topic)>>
  BY StepDelivers
<1> QED
  BY <1>1, <1>2, RelayStaysOK, PTL DEF Spec, ImplementsDelivery, AtLeastOnce!Spec

-----------------------------------------------------------------------------
(* The relay in a server that is stopped and started again. *)

ServerTypeOK ==
    /\ phase \in {"serving", "draining", "cancelled"}
    /\ stops \in Nat
    /\ phase = "cancelled" => stops > 0

\* Once the context is cancelled, failed sends are no longer counted.
ServerOK ==
    /\ ServerTypeOK
    /\ RelayOK(IF phase = "cancelled" THEN {} ELSE Workers)

\* The rows of a single worker: still PENDING, in id order and after those that
\* it has sent.
AloneOK(w) ==
    /\ \A i \in DOMAIN batch[w] : status[batch[w][i][1]] = "PENDING"
    /\ \A i, j \in DOMAIN batch[w] : i < j => batch[w][i][1] < batch[w][j][1]
    /\ \A e \in sent[w] :
          /\ status[e] = "PENDING"
          /\ \A i \in DOMAIN batch[w] : e < batch[w][i][1]
    /\ pc[w] \in {"poll", "markSent"} => batch[w] = <<>>
    /\ pc[w] = "poll" => sent[w] = {}

\* The events that are not sent again before something goes wrong.
Settled(w, e) ==
    \/ status[e] \in {"SENT", "FAILED"}
    \/ e \in sent[w]
    \/ /\ phase = "cancelled"
       /\ \A i \in DOMAIN batch[w] : batch[w][i][1] # e

\* The faults and the stops that are over: a copy of an event that may be sent
\* again has been paid for by one of them.  What is around the relay may allow
\* an event more copies, or fewer.
Paid == IF phase = "cancelled" THEN faults + stops - 1 ELSE faults + stops

CopiesOK(w, more) ==
    \A e \in Events :
       /\ Copies(e) <= Paid + more[e] + 1
       /\ ~Settled(w, e) => Copies(e) <= Paid + more[e]

Nothing == [e \in Events |-> 0]

\* While nothing went wrong with d, it is on the topic before a later event e of
\* its key, and a batch with e has it first.
Smooth(d) == retries[d] = 0 /\ faults = 0 /\ stops = 0
Before(d, e) == KeyOf[d] = KeyOf[e] /\ d < e

CommittedInOrder ==
    \A d, e \in Events : Before(d, e) /\ status[e] # "absent" => status[d] # "absent"

TopicInOrder ==
    \A d, e \in Events :
       Before(d, e) /\ Smooth(d) =>
          \A j \in DOMAIN topic :
             topic[j] = e => \E i \in DOMAIN topic : i < j /\ topic[i] = d

BatchInOrder(w) ==
    \A d, e \in Events :
       Before(d, e) /\ Smooth(d) =>
          \A k \in DOMAIN batch[w] :
             batch[w][k][1] = e =>
                \/ Published(d)
                \/ \E l \in DOMAIN batch[w] : l < k /\ batch[w][l][1] = d

OrderOK(w) ==
    /\ \A d \in Events : Smooth(d) => status[d] # "FAILED"
    /\ CommittedInOrder
    /\ TopicInOrder
    /\ BatchInOrder(w)

-----------------------------------------------------------------------------
(* What the relay proofs say of a server that is stopped. *)

LEMMA StutterKeeps ==
    ASSUME NEW Counting, RelayOK(Counting), UNCHANGED vars
    PROVE  RelayOK(Counting)'
BY DEF vars, RelayOK, TypeOK, SentIsPublished, FailedAfterAllRetries, GivenUpOnlyAfterBackoff,
   WorkerOK, RowHolds, Counted, Published, LastAttempt, Current

LEMMA CountingLess ==
    ASSUME RelayOK(Workers)
    PROVE  RelayOK({})
BY DEF RelayOK, WorkerOK

\* A new process starts with nothing in memory.
LEMMA ExitKeeps ==
    ASSUME RelayOK({}), ExitAndRestart
    PROVE  RelayOK(Workers)'
<1> USE DEF ExitAndRestart, table
<1>1. TypeOK'
  BY DEF RelayOK, TypeOK
<1>2. EventsOK'
  BY DEF RelayOK, EventsOK, SentIsPublished, FailedAfterAllRetries, GivenUpOnlyAfterBackoff,
     Published
<1>3. ASSUME NEW w \in Workers PROVE WorkerOK(w, Workers)'
  BY DEF WorkerOK
<1> QED
  BY <1>1, <1>2, <1>3 DEF RelayOK, EventsOK

LEMMA GiveUpCancelledKeeps ==
    ASSUME RelayOK({}), NEW w \in Workers, GiveUpCancelled(w)
    PROVE  RelayOK({})'
<1> USE DEF GiveUpCancelled, table
<1>1. TypeOK /\ WorkerOK(w, {}) /\ batch[w] # <<>>
  BY DEF RelayOK, WorkerOK
<1>2. Forward /\ EventsOK'
  BY <1>1 DEF RelayOK, TypeOK, Forward, EventsOK, SentIsPublished, FailedAfterAllRetries,
     GivenUpOnlyAfterBackoff, Published
<1>3. CASE Goto(w, "markFailed") /\ UNCHANGED <<batch, sent>>
  <2>1. pc' = [pc EXCEPT ![w] = "markFailed"] /\ UNCHANGED <<batch, sent>>
    BY <1>3 DEF Goto
  <2>2. TypeOK'
    BY <1>1, <2>1 DEF TypeOK
  <2>3. WorkerOK(w, {})'
    BY <1>1, <2>1 DEF WorkerOK, RowHolds, TypeOK
  <2> QED
    BY <1>1, <1>2, <2>1, <2>2, <2>3, OneWorkerSteps DEF TypeOK
<1>4. CASE NextEvent(w, sent[w])
  <2>1. sent[w] \in SUBSET Events /\ sent[w] \subseteq Range(topic)'
    BY <1>1 DEF TypeOK, WorkerOK
  <2>2. TypeOK'
    BY <1>1, <1>4, <2>1, NextEventType DEF TypeOK
  <2> QED
    BY <1>1, <1>2, <1>4, <2>1, <2>2, NextEventKeeps, OneWorkerSteps
<1> QED
  BY <1>3, <1>4

LEMMA MarkSentCancelledKeeps ==
    ASSUME RelayOK({}), NEW w \in Workers, MarkSentCancelled(w)
    PROVE  RelayOK({})'
<1> USE DEF MarkSentCancelled, Goto, table
<1>1. TypeOK /\ WorkerOK(w, {})
  BY DEF RelayOK
<1>2. TypeOK'
  BY <1>1 DEF TypeOK
<1>3. Forward /\ EventsOK'
  BY <1>1 DEF RelayOK, TypeOK, Forward, EventsOK, SentIsPublished, FailedAfterAllRetries,
     GivenUpOnlyAfterBackoff, Published
<1>4. WorkerOK(w, {})'
  BY <1>1 DEF WorkerOK, RowHolds, TypeOK
<1> QED
  BY <1>1, <1>2, <1>3, <1>4, OneWorkerSteps DEF TypeOK

LEMMA ServerStarts == ServerInit => ServerOK
<1> SUFFICES ASSUME ServerInit PROVE ServerOK
  OBVIOUS
<1>1. RelayOK(Workers) /\ phase = "serving"
  BY RelayStarts DEF ServerInit
<1> QED
  BY <1>1 DEF ServerOK, ServerTypeOK, ServerInit

LEMMA ServerKeeps == ServerOK /\ [ServerNext]_serverVars => ServerOK'
<1> SUFFICES ASSUME ServerOK, [ServerNext]_serverVars PROVE ServerOK'
  OBVIOUS
<1>1. ServerTypeOK'
  BY DEF ServerOK, ServerTypeOK, ServerNext, ServerStep, serverVars, shutdown, Signal, CancelRelay,
     ExitAndRestart, Serving, SendCancelled, GiveUpCancelled, MarkSentCancelled
<1>2. RelayOK({})
  BY CountingLess DEF ServerOK
<1>3. phase # "cancelled" => RelayOK(Workers)
  BY DEF ServerOK
<1>4. ASSUME RelayOK(Workers)' PROVE ServerOK'
  BY <1>1, <1>4, CountingLess DEF ServerOK, RelayOK, WorkerOK
<1>5. ASSUME RelayOK({})', phase' = "cancelled" PROVE ServerOK'
  BY <1>1, <1>5 DEF ServerOK
<1>6. ASSUME [Next]_vars, phase # "cancelled" PROVE ServerOK'
  BY <1>3, <1>4, <1>6, RelayInductive
<1>7. CASE Signal \/ CancelRelay
  BY <1>6, <1>7 DEF Signal, CancelRelay
<1>8. CASE ExitAndRestart
  BY <1>2, <1>4, <1>8, ExitKeeps
<1>9. ASSUME NEW w \in Workers, Serving(w) PROVE ServerOK'
  BY <1>6, <1>9 DEF Serving, Next
<1>10. ASSUME NEW w \in Workers, SendCancelled(w) PROVE ServerOK'
  BY <1>2, <1>5, <1>10, SendAckedKeeps, SendFailsKeeps, SendAckLostKeeps
  DEF SendCancelled, shutdown
<1>11. ASSUME NEW w \in Workers, GiveUpCancelled(w) \/ MarkSentCancelled(w) PROVE ServerOK'
  BY <1>2, <1>5, <1>11, GiveUpCancelledKeeps, MarkSentCancelledKeeps
  DEF GiveUpCancelled, MarkSentCancelled, shutdown
<1>12. CASE Crash /\ phase' = "serving" /\ UNCHANGED stops
  <2>1. RelayOK({})' /\ \A w \in Workers : pc'[w] = "poll"
    BY <1>2, <1>12, CrashKeeps DEF Crash
  <2>2. RelayOK(Workers)'
    BY <2>1 DEF RelayOK, WorkerOK
  <2> QED
    BY <1>4, <2>2
<1>13. ASSUME UNCHANGED shutdown,
              (\E e \in Events : Grow(e) \/ CommitEvent(e)) \/ KafkaFails \/ KafkaRecovers \/ Idle
       PROVE  ServerOK'
  <2>1. CASE phase = "cancelled"
    <3>1. phase' = "cancelled"
      BY <1>13, <2>1 DEF shutdown
    <3>2. RelayOK({})'
      BY <1>2, <1>13, EnvironmentKeeps, StutterKeeps DEF Idle
    <3> QED
      BY <1>5, <3>1, <3>2
  <2>2. CASE phase # "cancelled"
    BY <1>6, <1>13, <2>2 DEF Next, Environment
  <2> QED
    BY <2>1, <2>2
<1>14. CASE UNCHANGED serverVars
  <2>1. UNCHANGED vars /\ UNCHANGED shutdown
    BY <1>14 DEF serverVars
  <2> QED
    BY <1>2, <1>3, <2>1, StutterKeeps DEF shutdown, ServerOK, ServerTypeOK
<1> QED
  BY <1>7, <1>8, <1>9, <1>10, <1>11, <1>12, <1>13, <1>14 DEF ServerNext, ServerStep

\* However often the server is stopped in the middle of a batch, only what is on
\* the topic is SENT, and an event is given up only after all its retries and
\* its whole backoff: the calls that the cancelled context fails are not counted.
THEOREM StopsKeepTheRelay ==
    ServerSpec => [](SentIsPublished /\ FailedAfterAllRetries /\ GivenUpOnlyAfterBackoff)
<1>1. ServerOK => SentIsPublished /\ FailedAfterAllRetries /\ GivenUpOnlyAfterBackoff
  BY DEF ServerOK, RelayOK
<1> QED
  BY <1>1, ServerStarts, ServerKeeps, PTL DEF ServerSpec

\* The stops are invisible in Delivery.
THEOREM StopsKeepDelivery == ServerSpec => ImplementsDelivery
<1>1. ServerInit => AtLeastOnce!Init
  BY DEF ServerInit, Init, AtLeastOnce!Init, Range
<1>2. ServerOK /\ [ServerNext]_serverVars => [AtLeastOnce!Next]_<<status, Range(topic)>>
  <2> SUFFICES ASSUME ServerOK, [ServerNext]_serverVars
               PROVE  AtLeastOnce!Next \/ UNCHANGED <<status, Range(topic)>>
    OBVIOUS
  <2>1. CASE [Next]_vars
    BY <2>1, StepDelivers DEF ServerOK
  <2>2. ASSUME NEW w \in Workers, GiveUpCancelled(w) \/ MarkSentCancelled(w)
        PROVE  UNCHANGED <<status, Range(topic)>>
    BY <2>2 DEF GiveUpCancelled, MarkSentCancelled, table
  <2>3. CASE ExitAndRestart
    BY <2>3 DEF ExitAndRestart, table
  <2> QED
    BY <2>1, <2>2, <2>3 DEF ServerNext, ServerStep, serverVars, Signal, CancelRelay, Serving, SendCancelled,
       Next, Work, Environment
<1> QED
  BY <1>1, <1>2, ServerStarts, ServerKeeps, PTL
  DEF ServerSpec, ImplementsDelivery, AtLeastOnce!Spec

-----------------------------------------------------------------------------
(* With one worker, SENT and FAILED are final. *)

\* The row at the head of a batch.
LEMMA CurrentRow ==
    ASSUME TypeOK, NEW w \in Workers, batch[w] # <<>>
    PROVE  /\ 1 \in DOMAIN batch[w]
           /\ Current(w) = batch[w][1]
           /\ Current(w)[1] \in Events
           /\ Current(w)[2] \in Nat
BY HeadIsFirst DEF TypeOK, Current

\* What is left of a batch.
LEMMA RestOfBatch ==
    ASSUME TypeOK, NEW w \in Workers, NEW ids, batch[w] # <<>>, NextEvent(w, ids)
    PROVE  /\ sent'[w] = ids
           /\ \A i \in DOMAIN batch'[w] :
                 i + 1 \in DOMAIN batch[w] /\ batch'[w][i] = batch[w][i + 1]
           /\ \A i \in DOMAIN batch[w] : i # 1 => i - 1 \in DOMAIN batch'[w]
           /\ pc'[w] \in {"poll", "markSent"} => batch'[w] = <<>>
           /\ pc'[w] = "poll" => ids = {}
           /\ pc'[w] \in {"poll", "markSent", "send"}
           /\ DOMAIN batch[w] \subseteq Nat /\ DOMAIN batch'[w] \subseteq Nat
           /\ \A i \in DOMAIN batch[w] : batch[w][i][1] \in Events /\ i >= 1
           /\ \A i \in DOMAIN batch'[w] : i >= 1
<1>1. /\ batch[w] \in Seq(Events \X Nat)
      /\ batch'[w] = Tail(batch[w])
      /\ sent'[w] = ids
      /\ pc'[w] = IF Len(batch[w]) > 1 THEN "send" ELSE IF ids = {} THEN "poll" ELSE "markSent"
  BY DEF TypeOK, NextEvent, Goto
<1>2. PICK s \in Seq(Events \X Nat) : s = batch[w]
  BY <1>1
<1>3. Len(s) \in Nat \ {0} /\ DOMAIN s = 1..Len(s)
  BY <1>2
<1>4. Tail(s) \in Seq(Events \X Nat) /\ Len(Tail(s)) = Len(s) - 1
  BY <1>2, <1>3
<1>5. DOMAIN Tail(s) = 1..Len(s) - 1
  BY <1>3, <1>4
<1>6. ~(Len(s) > 1) => Tail(s) = <<>>
  BY <1>3, <1>4
<1>7. \A i \in DOMAIN Tail(s) : i + 1 \in DOMAIN s /\ Tail(s)[i] = s[i + 1]
  BY <1>2, TailShifts
<1>8. \A i \in DOMAIN s : i # 1 => i - 1 \in DOMAIN Tail(s)
  BY <1>3, <1>5
<1>9. DOMAIN s \subseteq Nat /\ DOMAIN Tail(s) \subseteq Nat
  BY <1>3, <1>5
<1>10. \A i \in DOMAIN s : s[i][1] \in Events /\ i >= 1
  BY <1>3
<1>11. \A i \in DOMAIN Tail(s) : i >= 1
  BY <1>5
<1> QED
  BY <1>1, <1>2, <1>6, <1>7, <1>8, <1>9, <1>10, <1>11

\* The worker goes on with its batch; it may count the event it leaves as sent.
LEMMA AloneGoesOn ==
    ASSUME TypeOK, NEW w \in Workers, AloneOK(w), batch[w] # <<>>,
           NEW ids \in SUBSET (sent[w] \cup {Current(w)[1]}), NextEvent(w, ids),
           \A e \in Events :
              status'[e] = status[e] \/ (e = Current(w)[1] /\ e \notin ids)
    PROVE  AloneOK(w)'
<1> DEFINE c == Current(w)[1]
<1>1. c = batch[w][1][1] /\ c \in Events /\ 1 \in DOMAIN batch[w] /\ status[c] = "PENDING"
  BY CurrentRow DEF AloneOK
<1> HIDE DEF c
<1>2. \A i \in DOMAIN batch[w] : i # 1 => c < batch[w][i][1]
  BY <1>1, RestOfBatch DEF AloneOK
<1>3. ASSUME NEW i \in DOMAIN batch'[w]
      PROVE  /\ i \in Nat
             /\ i + 1 \in DOMAIN batch[w]
             /\ i + 1 # 1
             /\ batch'[w][i] = batch[w][i + 1]
             /\ batch[w][i + 1][1] \in Events
  <2>1. i + 1 \in DOMAIN batch[w] /\ batch'[w][i] = batch[w][i + 1]
    BY RestOfBatch
  <2>2. i \in Nat
    BY RestOfBatch
  <2>3. batch[w][i + 1][1] \in Events
    BY <2>1, RestOfBatch
  <2>4. i + 1 # 1
    <3>1. i >= 1
      BY RestOfBatch
    <3> QED
      BY <2>2, <3>1
  <2> QED
    BY <2>1, <2>2, <2>3, <2>4
<1>4. Events \subseteq Nat
  BY EventsAssumption
<1>5. \A i \in DOMAIN batch'[w] : status'[batch'[w][i][1]] = "PENDING"
  <2> SUFFICES ASSUME NEW i \in DOMAIN batch'[w]
               PROVE  status'[batch'[w][i][1]] = "PENDING"
    OBVIOUS
  <2>1. batch[w][i + 1][1] # c
    BY <1>1, <1>2, <1>3, <1>4
  <2> QED
    BY <1>3, <2>1 DEF AloneOK, c
<1>6. \A i, j \in DOMAIN batch'[w] : i < j => batch'[w][i][1] < batch'[w][j][1]
  BY <1>3 DEF AloneOK
<1>7. \A e \in sent'[w] :
         status'[e] = "PENDING" /\ \A i \in DOMAIN batch'[w] : e < batch'[w][i][1]
  <2> SUFFICES ASSUME NEW e \in ids
               PROVE  /\ status'[e] = "PENDING"
                      /\ \A i \in DOMAIN batch'[w] : e < batch'[w][i][1]
    BY RestOfBatch
  <2>1. e \in Events
    BY <1>1 DEF TypeOK, c
  <2>2. status[e] = "PENDING" /\ status'[e] = status[e]
    BY <1>1, <2>1 DEF AloneOK, c
  <2>3. \A i \in DOMAIN batch'[w] : e < batch[w][i + 1][1]
    BY <1>2, <1>3 DEF AloneOK, c
  <2> QED
    BY <1>3, <2>2, <2>3
<1>8. pc'[w] \in {"poll", "markSent"} => batch'[w] = <<>>
  BY RestOfBatch
<1>9. pc'[w] = "poll" => sent'[w] = {}
  BY RestOfBatch
<1> QED
  BY <1>5, <1>6, <1>7, <1>8, <1>9 DEF AloneOK

\* The worker stays with its batch.
LEMMA AloneStays ==
    ASSUME TypeOK, NEW w \in Workers, AloneOK(w), batch'[w] = batch[w], sent'[w] = sent[w],
           pc'[w] = pc[w] \/ pc'[w] \in {"increment", "markFailed"},
           \A e \in Events : status[e] = "PENDING" => status'[e] = "PENDING"
    PROVE  AloneOK(w)'
<1>1. \A i \in DOMAIN batch[w] : batch[w][i][1] \in Events
  BY DEF TypeOK
<1> QED
  BY <1>1 DEF AloneOK, TypeOK

\* The worker has nothing in memory.
LEMMA AloneEmpty ==
    ASSUME NEW w \in Workers, batch'[w] = <<>>, sent'[w] = {}
    PROVE  AloneOK(w)'
BY DEF AloneOK

LEMMA AloneFetches ==
    ASSUME TypeOK, NEW w \in Workers, AloneOK(w), FetchPending(w)
    PROVE  AloneOK(w)'
<1>1. PICK skipped \in SUBSET LockedByAnother(w) :
         LET due == {e \in Events \ skipped : Due(e)}
         IN  \E rows \in Batches(due) :
                /\ Limit(due) \in Nat \ {0}
                /\ batch' \in [Workers -> Seq(Events \X Nat)]
                /\ DOMAIN batch'[w] = 1..Limit(due)
                /\ \A i \in 1..Limit(due) :
                      /\ rows[i] \in due
                      /\ batch'[w][i] = <<rows[i], retries[rows[i]]>>
  BY FetchedRows
<1> DEFINE due == {e \in Events \ skipped : Due(e)}
<1>2. PICK rows \in Batches(due) :
         /\ DOMAIN batch'[w] = 1..Limit(due)
         /\ \A i \in 1..Limit(due) :
               rows[i] \in due /\ batch'[w][i] = <<rows[i], retries[rows[i]]>>
  BY <1>1
<1>3. \A i \in 1..Limit(due) : status[rows[i]] = "PENDING"
  BY <1>2 DEF Due
<1>4. \A i, j \in 1..Limit(due) : i < j => rows[i] < rows[j]
  BY <1>2 DEF Batches
<1> HIDE DEF due
<1>5. \A i \in DOMAIN batch'[w] : batch'[w][i][1] = rows[i]
  BY <1>2, PairParts
<1>6. /\ status' = status
      /\ sent'[w] = {}
      /\ pc'[w] = "send"
  BY DEF FetchPending, table, Goto, AloneOK, TypeOK
<1> QED
  BY <1>2, <1>3, <1>4, <1>5, <1>6 DEF AloneOK

\* The event that the worker is busy with is PENDING and not among those it has
\* sent.
LEMMA CurrentIsOpen ==
    ASSUME TypeOK, NEW w \in Workers, AloneOK(w), batch[w] # <<>>
    PROVE  /\ Current(w)[1] \in Events
           /\ status[Current(w)[1]] = "PENDING"
           /\ Current(w)[1] \notin sent[w]
<1>1. /\ 1 \in DOMAIN batch[w]
      /\ Current(w) = batch[w][1]
      /\ Current(w)[1] \in Events
  BY CurrentRow
<1>2. \A e \in sent[w] : e < batch[w][1][1] /\ e \in Int
  BY <1>1, EventsAssumption DEF AloneOK, TypeOK
<1> QED
  BY <1>1, <1>2, EventsAssumption DEF AloneOK

LEMMA WorkKeepsAlone ==
    ASSUME NEW Counting, RelayOK(Counting), NEW w \in Workers, AloneOK(w),
           Work(w) \/ GiveUpCancelled(w) \/ MarkSentCancelled(w)
    PROVE  /\ AloneOK(w)'
           /\ \A e \in Events : status[e] \in {"SENT", "FAILED"} => status'[e] = status[e]
<1>1. TypeOK
  BY DEF RelayOK
<1>2. pc[w] \in {"send", "increment", "markFailed"} =>
         /\ batch[w] # <<>>
         /\ Current(w)[1] \in Events
         /\ status[Current(w)[1]] = "PENDING"
         /\ Current(w)[1] \notin sent[w]
  BY <1>1, CurrentIsOpen DEF RelayOK, WorkerOK
<1>3. CASE FetchPending(w)
  BY <1>1, <1>3, AloneFetches DEF FetchPending, table
<1>4. CASE SendAcked(w)
  <2>1. NextEvent(w, sent[w] \cup {Current(w)[1]}) /\ status' = status /\ pc[w] = "send"
    BY <1>4 DEF SendAcked, table
  <2>2. PICK ids : ids = sent[w] \cup {Current(w)[1]}
    OBVIOUS
  <2>3. ids \in SUBSET (sent[w] \cup {Current(w)[1]}) /\ NextEvent(w, ids)
    BY <2>1, <2>2
  <2>4. batch[w] # <<>>
    BY <1>2, <2>1
  <2>5. \A e \in Events :
           status'[e] = status[e] \/ (e = Current(w)[1] /\ e \notin ids)
    BY <2>1
  <2>6. AloneOK(w)'
    BY <1>1, <2>3, <2>4, <2>5, AloneGoesOn
  <2> QED
    BY <2>1, <2>6
<1>5. CASE SendFails(w) \/ SendAckLost(w)
  <2>1. /\ batch' = batch /\ sent' = sent /\ status' = status
        /\ pc'[w] = "increment"
    BY <1>1, <1>5 DEF SendFails, SendAckLost, Goto, table, TypeOK
  <2> QED
    BY <1>1, <2>1, AloneStays
<1>6. ASSUME UNCHANGED <<batch, sent, status>>, Goto(w, "markFailed")
      PROVE  AloneOK(w)'
  <2>1. pc'[w] = "markFailed"
    BY <1>1, <1>6 DEF Goto, TypeOK
  <2> QED
    BY <1>1, <1>6, <2>1, AloneStays
<1>7. ASSUME NextEvent(w, sent[w]), pc[w] \in {"increment", "markFailed"},
             \A e \in Events : status'[e] = status[e] \/ e = Current(w)[1]
      PROVE  AloneOK(w)'
  BY <1>1, <1>2, <1>7, AloneGoesOn
<1>8. CASE IncrementRetry(w)
  BY <1>6, <1>7, <1>8 DEF IncrementRetry
<1>9. CASE MarkFailed(w)
  <2>1. /\ pc[w] = "markFailed"
        /\ NextEvent(w, sent[w])
        /\ status' = [status EXCEPT ![Current(w)[1]] = "FAILED"] \/ status' = status
    BY <1>9 DEF MarkFailed
  <2>2. \A e \in Events : status'[e] = status[e] \/ e = Current(w)[1]
    BY <1>1, <2>1 DEF TypeOK
  <2> QED
    BY <1>2, <1>7, <2>1, <2>2
<1>10. CASE MarkSent(w) \/ MarkSentCancelled(w)
  <2>1. /\ pc[w] = "markSent"
        /\ batch' = batch
        /\ sent'[w] = {}
        /\ \A e \in Events : status'[e] = status[e] \/ e \in sent[w]
    BY <1>1, <1>10 DEF MarkSent, MarkSentCancelled, table, TypeOK
  <2>2. batch'[w] = <<>> /\ \A e \in sent[w] : status[e] = "PENDING"
    BY <2>1 DEF AloneOK
  <2>3. AloneOK(w)'
    BY <2>1, <2>2, AloneEmpty
  <2>4. \A e \in Events : status[e] \in {"SENT", "FAILED"} => status'[e] = status[e]
    BY <2>1, <2>2
  <2> QED
    BY <2>3, <2>4
<1>11. CASE GiveUpCancelled(w)
  BY <1>6, <1>7, <1>11 DEF GiveUpCancelled, table
<1> QED
  BY <1>1, <1>3, <1>4, <1>5, <1>8, <1>9, <1>10, <1>11
  DEF Work, SendAcked, SendFails, SendAckLost, IncrementRetry, FetchPending, GiveUpCancelled, table

LEMMA ServerKeepsAlone ==
    ASSUME NEW w, Workers = {w}, ServerOK, AloneOK(w), [ServerNext]_serverVars
    PROVE  /\ AloneOK(w)'
           /\ \A e \in Events : status[e] \in {"SENT", "FAILED"} => status'[e] = status[e]
<1>1. PICK Counting : RelayOK(Counting)
  BY DEF ServerOK
<1>2. TypeOK
  BY <1>1 DEF RelayOK
<1>3. CASE Work(w) \/ GiveUpCancelled(w) \/ MarkSentCancelled(w)
  BY <1>1, <1>3, WorkKeepsAlone
<1>4. CASE Crash \/ ExitAndRestart
  BY <1>4, AloneEmpty DEF Crash, ExitAndRestart, table
<1>5. ASSUME NEW e \in Events, CommitEvent(e)
      PROVE  /\ AloneOK(w)'
             /\ \A d \in Events : status[d] \in {"SENT", "FAILED"} => status'[d] = status[d]
  <2>1. \A d \in Events : status[d] # "absent" => status'[d] = status[d]
    BY <1>2, <1>5 DEF CommitEvent, NewRow, TypeOK
  <2> QED
    BY <1>2, <1>5, <2>1, AloneStays DEF CommitEvent, NewRow, worker
<1>6. ASSUME UNCHANGED <<status, pc, batch, sent>>
      PROVE  /\ AloneOK(w)'
             /\ \A d \in Events : status[d] \in {"SENT", "FAILED"} => status'[d] = status[d]
  BY <1>2, <1>6, AloneStays
<1> QED
  BY <1>3, <1>4, <1>5, <1>6 DEF ServerNext, ServerStep, serverVars, vars, Signal, CancelRelay, Serving,
     SendCancelled, Work, Grow, KafkaFails, KafkaRecovers, Idle, worker, table

LEMMA ServerStartsAlone == ASSUME NEW w \in Workers PROVE ServerInit => AloneOK(w)
BY DEF ServerInit, Init, AloneOK

\* With a single worker (RELAY_WORKER_COUNT=1), no step takes an event out of SENT or
\* FAILED: what it has fetched is still PENDING when MarkSent and MarkFailed, which
\* do not look at the status, are called.
THEOREM OneWorkerIsFinal ==
    ASSUME NEW w, Workers = {w}
    PROVE  ServerSpec => StatusIsFinal
<1>1. ServerOK /\ AloneOK(w) /\ [ServerNext]_serverVars => AloneOK(w)'
  BY ServerKeepsAlone
<1>2. ServerOK /\ AloneOK(w) /\ [ServerNext]_serverVars =>
         [\A e \in Events : status[e] \in {"SENT", "FAILED"} => status'[e] = status[e]]_vars
  BY ServerKeepsAlone
<1>3. ServerInit => AloneOK(w)
  BY ServerStartsAlone
<1> QED
  BY <1>1, <1>2, <1>3, ServerStarts, ServerKeeps, PTL DEF ServerSpec, StatusIsFinal

-----------------------------------------------------------------------------
(* With one worker, every further copy costs a fault or a stop. *)

\* A message that is stored adds one copy of its event.
LEMMA CopiesGrow ==
    ASSUME topic \in Seq(Events), NEW c \in Events, topic' = Append(topic, c), NEW e
    PROVE  /\ Copies(e) \in Nat
           /\ Copies(e)' = IF e = c THEN Copies(e) + 1 ELSE Copies(e)
<1> DEFINE at == {i \in DOMAIN topic : topic[i] = e}
<1>1. DOMAIN topic = 1..Len(topic) /\ Len(topic) \in Nat
  OBVIOUS
<1>2. IsFiniteSet(at) /\ Cardinality(at) \in Nat
  <2>1. IsFiniteSet(1..Len(topic))
    BY <1>1, FS_Interval
  <2> QED
    BY <1>1, <2>1, FS_Subset, FS_CardinalityType
<1>3. /\ DOMAIN topic' = 1..Len(topic) + 1
      /\ \A i \in 1..Len(topic) : topic'[i] = topic[i]
      /\ topic'[Len(topic) + 1] = c
  OBVIOUS
<1>4. {i \in DOMAIN topic' : topic'[i] = e} = IF e = c THEN at \cup {Len(topic) + 1} ELSE at
  BY <1>1, <1>3
<1>5. Len(topic) + 1 \notin at
  BY <1>1
<1> HIDE DEF at
<1>6. Cardinality(at \cup {Len(topic) + 1}) = Cardinality(at) + 1
  BY <1>2, <1>5, FS_AddElement
<1> QED
  BY <1>2, <1>4, <1>6 DEF Copies, at

LEMMA CopiesAreCounted ==
    ASSUME TypeOK, NEW e
    PROVE  Copies(e) \in Nat
<1>1. topic \in Seq(Events)
  BY DEF TypeOK
<1>2. DOMAIN topic = 1..Len(topic) /\ Len(topic) \in Nat
  BY <1>1
<1>3. IsFiniteSet(1..Len(topic))
  BY <1>2, FS_Interval
<1>4. IsFiniteSet({i \in DOMAIN topic : topic[i] = e})
  BY <1>2, <1>3, FS_Subset
<1> QED
  BY <1>4, FS_CardinalityType DEF Copies

LEMMA PaidIsCounted ==
    ASSUME TypeOK, ServerTypeOK
    PROVE  Paid \in Int /\ Paid <= faults + stops
BY DEF TypeOK, ServerTypeOK, Paid

LEMMA PaidTwice ==
    ASSUME TypeOK, TypeOK', ServerTypeOK, ServerTypeOK'
    PROVE  \E n, m \in Int : n = Paid /\ m = Paid'
<1>1. PICK n \in Int : n = Paid
  BY PaidIsCounted
<1>2. /\ faults' \in Nat /\ stops' \in Nat
      /\ Paid' = IF phase' = "cancelled" THEN faults' + stops' - 1 ELSE faults' + stops'
  BY DEF TypeOK, ServerTypeOK, Paid
<1>3. PICK f, s \in Nat : f = faults' /\ s = stops'
  BY <1>2
<1>4. f + s \in Int /\ f + s - 1 \in Int
  BY <1>3
<1>5. Paid' = f + s - 1 \/ Paid' = f + s
  BY <1>2, <1>3
<1> QED
  BY <1>1, <1>4, <1>5

\* Nothing is sent: it is enough that the allowance of no event shrinks.
LEMMA CopiesStay ==
    ASSUME NEW w, NEW more \in [Events -> Int], CopiesOK(w, more),
           ServerTypeOK, ServerTypeOK', TypeOK, TypeOK', topic' = topic,
           Paid' >= Paid,
           \A e \in Events : (Settled(w, e) => Settled(w, e)') \/ Paid' > Paid
    PROVE  CopiesOK(w, more)'
<1>1. PICK n, m \in Int : n = Paid /\ m = Paid'
  BY PaidTwice
<1>2. ASSUME NEW e \in Events
      PROVE  /\ Copies(e)' <= Paid' + more[e] + 1
             /\ ~Settled(w, e)' => Copies(e)' <= Paid' + more[e]
  <2>1. Copies(e)' = Copies(e) /\ Copies(e) \in Nat
    BY CopiesAreCounted DEF Copies
  <2>0. PICK a \in Int : a = more[e]
    OBVIOUS
  <2>2. /\ Copies(e) <= n + a + 1
        /\ ~Settled(w, e) => Copies(e) <= n + a
    BY <1>1, <2>0 DEF CopiesOK
  <2>3. m >= n /\ ((Settled(w, e) => Settled(w, e)') \/ m > n)
    BY <1>1
  <2> QED
    BY <1>1, <2>0, <2>1, <2>2, <2>3
<1> QED
  BY <1>2 DEF CopiesOK

\* The worker sends: the event was not settled, and now it is, or a fault has
\* paid for its copy.
LEMMA CopiesSent ==
    ASSUME NEW Counting, RelayOK(Counting), NEW w \in Workers, AloneOK(w),
           NEW more \in [Events -> Int], CopiesOK(w, more), TypeOK',
           ServerTypeOK, UNCHANGED shutdown, SendAcked(w) \/ SendAckLost(w)
    PROVE  CopiesOK(w, more)'
<1>1. TypeOK /\ batch[w] # <<>> /\ pc[w] = "send"
  BY DEF RelayOK, WorkerOK, SendAcked, SendAckLost
<1> PICK c : c = Current(w)[1]
  OBVIOUS
<1>2. /\ c \in Events /\ status[c] = "PENDING" /\ c \notin sent[w]
      /\ \E i \in DOMAIN batch[w] : batch[w][i][1] = c
  BY <1>1, CurrentIsOpen, CurrentRow
<1>3. ~Settled(w, c)
  BY <1>2 DEF Settled
<1>4. PICK n, m \in Int : n = Paid /\ m = Paid'
  BY <1>1, PaidTwice DEF ServerTypeOK, shutdown
<1>5. topic' = Append(topic, c) /\ topic \in Seq(Events) /\ status' = status
  BY <1>1 DEF SendAcked, SendAckLost, TypeOK, table
<1>6. PICK ids : ids = sent[w] \cup {c}
  OBVIOUS
<1>7. \/ faults' = faults + 1 /\ batch' = batch /\ sent' = sent
      \/ faults' = faults /\ NextEvent(w, ids)
  BY <1>6 DEF SendAcked, SendAckLost, Fault
<1>8. ASSUME NextEvent(w, ids)
      PROVE  /\ c \in sent'[w]
             /\ \A e \in Events : Settled(w, e) => Settled(w, e)'
  <2>1. sent'[w] = ids
    BY <1>1, <1>8, RestOfBatch
  <2>2. \A i \in DOMAIN batch'[w] : i + 1 \in DOMAIN batch[w] /\ batch'[w][i] = batch[w][i + 1]
    BY <1>1, <1>8, RestOfBatch
  <2> QED
    BY <1>5, <1>6, <2>1, <2>2 DEF Settled, shutdown
<1>9. \A e \in Events : Settled(w, e) => Settled(w, e)'
  BY <1>5, <1>7, <1>8 DEF Settled, shutdown
<1>10. m = n + 1 \/ (m = n /\ Settled(w, c)')
  <2>1. faults' = faults + 1 \/ (faults' = faults /\ Settled(w, c)')
    BY <1>7, <1>8 DEF Settled
  <2>2. faults' = faults => m = n
    BY <1>4 DEF Paid, shutdown
  <2>3. faults' = faults + 1 => m = n + 1
    BY <1>1, <1>4 DEF Paid, shutdown, TypeOK, ServerTypeOK
  <2> QED
    BY <2>1, <2>2, <2>3
<1>11. ASSUME NEW e \in Events
       PROVE  /\ Copies(e)' <= Paid' + more[e] + 1
              /\ ~Settled(w, e)' => Copies(e)' <= Paid' + more[e]
  <2>1. /\ Copies(e) \in Nat
        /\ Copies(e)' = IF e = c THEN Copies(e) + 1 ELSE Copies(e)
    BY <1>2, <1>5, CopiesGrow
  <2>0. PICK a \in Int : a = more[e]
    OBVIOUS
  <2>2. /\ Copies(e) <= n + a + 1
        /\ ~Settled(w, e) => Copies(e) <= n + a
    BY <1>4, <2>0 DEF CopiesOK
  <2>3. CASE e = c
    BY <2>0, <1>3, <1>4, <1>10, <2>1, <2>2, <2>3
  <2>4. CASE e # c
    BY <2>0, <1>4, <1>9, <1>10, <2>1, <2>2, <2>4
  <2> QED
    BY <2>3, <2>4
<1> QED
  BY <1>11 DEF CopiesOK

\* The phase stays, nothing is sent, and the worker keeps what it has sent.  Once
\* the context is cancelled, it fetches nothing.
LEMMA CopiesKept ==
    ASSUME NEW w, NEW more \in [Events -> Int], CopiesOK(w, more),
           ServerTypeOK, ServerTypeOK', TypeOK, TypeOK', topic' = topic,
           UNCHANGED shutdown, faults' = faults \/ faults' = faults + 1,
           \A e \in Events : status[e] \in {"SENT", "FAILED"} => status'[e] = status[e],
           \A e \in sent[w] : e \in sent'[w] \/ Settled(w, e)' \/ faults' = faults + 1,
           phase = "cancelled" =>
              \A i \in DOMAIN batch'[w] : \E j \in DOMAIN batch[w] : batch'[w][i] = batch[w][j]
    PROVE  CopiesOK(w, more)'
<1>1. faults' = faults => Paid' = Paid
  BY DEF Paid, shutdown
<1>2. PICK n, m \in Int : n = Paid /\ m = Paid'
  BY PaidTwice
<1>3. faults' = faults + 1 => m = n + 1
  BY <1>2 DEF Paid, shutdown, TypeOK, ServerTypeOK
<1>4. m >= n /\ (faults' = faults + 1 => m > n)
  BY <1>1, <1>2, <1>3
<1>5. \A e \in Events : (Settled(w, e) => Settled(w, e)') \/ faults' = faults + 1
  BY DEF Settled, shutdown
<1> QED
  BY <1>2, <1>4, <1>5, CopiesStay

LEMMA WorkKeepsCopies ==
    ASSUME NEW Counting, RelayOK(Counting), NEW w \in Workers, AloneOK(w),
           NEW more \in [Events -> Int], CopiesOK(w, more),
           ServerTypeOK, ServerTypeOK', TypeOK', UNCHANGED shutdown,
           phase = "cancelled" => ~FetchPending(w),
           Work(w) \/ GiveUpCancelled(w) \/ MarkSentCancelled(w)
    PROVE  CopiesOK(w, more)'
<1>1. TypeOK
  BY DEF RelayOK
<1>2. \A e \in Events : status[e] \in {"SENT", "FAILED"} => status'[e] = status[e]
  BY WorkKeepsAlone
<1>3. CASE FetchPending(w)
  <2>1. topic' = topic /\ faults' = faults /\ sent' = sent
    BY <1>3 DEF FetchPending
  <2> QED
    BY <1>1, <1>2, <1>3, <2>1, CopiesKept
<1>4. CASE SendAcked(w) \/ SendAckLost(w)
  BY <1>4, CopiesSent
<1>5. ASSUME UNCHANGED <<batch, sent, topic>>, faults' = faults \/ faults' = faults + 1
      PROVE  CopiesOK(w, more)'
  BY <1>1, <1>2, <1>5, CopiesKept
<1>6. ASSUME NextEvent(w, sent[w]), pc[w] \in {"increment", "markFailed"}, topic' = topic,
             faults' = faults \/ faults' = faults + 1
      PROVE  CopiesOK(w, more)'
  <2>1. batch[w] # <<>>
    BY <1>6 DEF RelayOK, WorkerOK
  <2>2. sent'[w] = sent[w]
    BY <1>1, <1>6, <2>1, RestOfBatch
  <2>3. \A i \in DOMAIN batch'[w] : i + 1 \in DOMAIN batch[w] /\ batch'[w][i] = batch[w][i + 1]
    BY <1>1, <1>6, <2>1, RestOfBatch
  <2> QED
    BY <1>1, <1>2, <1>6, <2>2, <2>3, CopiesKept
<1>7. CASE SendFails(w)
  BY <1>5, <1>7 DEF SendFails
<1>8. CASE IncrementRetry(w)
  BY <1>5, <1>6, <1>8 DEF IncrementRetry, Fault, NoFault
<1>9. CASE MarkFailed(w)
  BY <1>6, <1>9 DEF MarkFailed, Fault, NoFault
<1>10. CASE GiveUpCancelled(w)
  BY <1>5, <1>6, <1>10 DEF GiveUpCancelled
<1>11. CASE MarkSent(w)
  <2>1. topic' = topic /\ batch' = batch
    BY <1>11 DEF MarkSent
  <2>2. \A e \in sent[w] : e \in Events
    BY <1>1 DEF TypeOK
  <2>3. \/ faults' = faults + 1
        \/ faults' = faults /\ \A e \in sent[w] : status'[e] = "SENT"
    BY <1>11, <2>2 DEF MarkSent, Fault, NoFault
  <2>4. \A e \in sent[w] : Settled(w, e)' \/ faults' = faults + 1
    BY <2>3 DEF Settled
  <2> QED
    BY <1>1, <1>2, <2>1, <2>3, <2>4, CopiesKept
<1>12. CASE MarkSentCancelled(w)
  <2>1. /\ topic' = topic /\ batch' = batch /\ faults' = faults
        /\ phase' = "cancelled" /\ pc[w] = "markSent"
    BY <1>12 DEF MarkSentCancelled, shutdown
  <2>2. batch'[w] = <<>>
    BY <2>1 DEF AloneOK
  <2>3. \A e \in sent[w] : Settled(w, e)'
    BY <2>1, <2>2 DEF Settled
  <2> QED
    BY <1>1, <1>2, <2>1, <2>3, CopiesKept
<1> QED
  BY <1>3, <1>4, <1>7, <1>8, <1>9, <1>10, <1>11, <1>12 DEF Work

LEMMA ServerKeepsCopies ==
    ASSUME NEW w, Workers = {w}, ServerOK, ServerOK', AloneOK(w),
           NEW more \in [Events -> Int], CopiesOK(w, more),
           [ServerNext]_serverVars
    PROVE  CopiesOK(w, more)'
<1>1. PICK Counting : RelayOK(Counting)
  BY DEF ServerOK
<1>2. TypeOK /\ TypeOK' /\ ServerTypeOK /\ ServerTypeOK'
  BY DEF ServerOK, RelayOK
<1>3. \A e \in Events : status[e] \in {"SENT", "FAILED"} => status'[e] = status[e]
  BY ServerKeepsAlone
<1>4. PICK n, m \in Int : n = Paid /\ m = Paid'
  BY <1>2, PaidTwice
<1>5. PICK f, s, g, t \in Nat :
         /\ f = faults /\ s = stops /\ g = faults' /\ t = stops'
         /\ n = IF phase = "cancelled" THEN f + s - 1 ELSE f + s
         /\ m = IF phase' = "cancelled" THEN g + t - 1 ELSE g + t
  BY <1>2, <1>4 DEF TypeOK, ServerTypeOK, Paid
<1>6. ASSUME UNCHANGED <<topic, batch, sent, shutdown, faults>>
      PROVE  CopiesOK(w, more)'
  BY <1>2, <1>3, <1>6, CopiesKept
<1>7. CASE Signal \/ CancelRelay
  <2>1. /\ topic' = topic /\ g = f /\ phase # "cancelled"
        /\ \/ phase' # "cancelled" /\ t = s
           \/ phase' = "cancelled" /\ t = s + 1
    BY <1>5, <1>7 DEF Signal, CancelRelay, vars
  <2>2. Paid' >= Paid
    <3>1. n = f + s /\ (m = g + t \/ (m = g + t - 1 /\ t = s + 1))
      BY <1>5, <2>1
    <3>2. m >= n
      BY <2>1, <3>1
    <3> QED
      BY <1>4, <3>2
  <2>3. \A e \in Events : Settled(w, e) => Settled(w, e)'
    BY <1>7 DEF Signal, CancelRelay, Settled, vars
  <2> QED
    BY <1>2, <2>1, <2>2, <2>3, CopiesStay
<1>8. CASE ExitAndRestart \/ (Crash /\ phase' = "serving" /\ UNCHANGED stops)
  <2>1. topic' = topic
    BY <1>8 DEF ExitAndRestart, Crash
  <2>2. /\ phase' = "serving" /\ t = s
        /\ \/ phase = "cancelled" /\ g = f
           \/ g = f + 1
    BY <1>5, <1>8 DEF ExitAndRestart, Crash, Fault
  <2>3. Paid' >= Paid /\ Paid' > Paid
    <3>1. m = g + t /\ (n = f + s \/ n = f + s - 1)
      BY <1>5, <2>2
    <3>2. n = f + s - 1 \/ g = f + 1
      BY <1>5, <2>2
    <3>3. m >= n /\ m > n
      BY <2>2, <3>1, <3>2
    <3> QED
      BY <1>4, <3>3
  <2> QED
    BY <1>2, <2>1, <2>3, CopiesStay
<1>9. ASSUME Serving(w) \/ SendCancelled(w) \/ GiveUpCancelled(w) \/ MarkSentCancelled(w)
      PROVE  CopiesOK(w, more)'
  <2>1. /\ UNCHANGED shutdown
        /\ phase = "cancelled" => pc[w] # "poll"
        /\ Work(w) \/ GiveUpCancelled(w) \/ MarkSentCancelled(w)
    BY <1>9 DEF Serving, SendCancelled, GiveUpCancelled, MarkSentCancelled, SendAcked, SendFails,
       SendAckLost, Work
  <2>2. phase = "cancelled" => ~FetchPending(w)
    BY <2>1 DEF FetchPending
  <2> QED
    BY <1>1, <1>2, <2>1, <2>2, WorkKeepsCopies
<1> QED
  BY <1>6, <1>7, <1>8, <1>9 DEF ServerNext, ServerStep, serverVars, vars, Grow, CommitEvent, NewRow, KafkaFails,
     KafkaRecovers, Idle, worker

LEMMA ServerStartsCopies ==
    ASSUME NEW w, NEW more \in [Events -> Nat]
    PROVE  ServerInit => CopiesOK(w, more)
<1> SUFFICES ASSUME ServerInit, NEW e \in Events PROVE Copies(e) = 0
  BY DEF ServerInit, Init, CopiesOK, Paid
<1>1. {i \in DOMAIN topic : topic[i] = e} = {}
  BY DEF ServerInit, Init
<1> QED
  BY <1>1, FS_EmptySet DEF Copies

\* With a single worker (RELAY_WORKER_COUNT=1), an event that is on the topic n times
\* has cost n - 1 lost acks, failed MarkSents, crashes or shutdowns: nothing else
\* that pollAndPublish does makes a copy.
THEOREM CopiesArePaidFor ==
    ASSUME NEW w, Workers = {w}
    PROVE  ServerSpec => []CopiesCostFaults
<1>1. ServerOK /\ AloneOK(w) /\ [ServerNext]_serverVars => AloneOK(w)'
  BY ServerKeepsAlone
<1> Nothing \in [Events -> Nat] /\ Nothing \in [Events -> Int]
  BY DEF Nothing
<1>2. ServerOK /\ ServerOK' /\ AloneOK(w) /\ CopiesOK(w, Nothing) /\ [ServerNext]_serverVars =>
         CopiesOK(w, Nothing)'
  BY ServerKeepsCopies
<1>3. ServerInit => AloneOK(w) /\ CopiesOK(w, Nothing)
  BY ServerStartsAlone, ServerStartsCopies
<1>4. ServerOK /\ CopiesOK(w, Nothing) => CopiesCostFaults
  <2> SUFFICES ASSUME ServerOK, CopiesOK(w, Nothing), NEW e \in Events
               PROVE  Copies(e) <= 1 + faults + stops
    BY DEF CopiesCostFaults
  <2>1. TypeOK /\ ServerTypeOK
    BY DEF ServerOK, RelayOK
  <2>2. Copies(e) \in Nat /\ Copies(e) <= Paid + 0 + 1
    BY <2>1, CopiesAreCounted DEF CopiesOK, Nothing
  <2>3. Paid \in Int /\ Paid <= faults + stops
    BY <2>1, PaidIsCounted
  <2>4. faults \in Nat /\ stops \in Nat
    BY <2>1 DEF TypeOK, ServerTypeOK
  <2> QED
    BY <2>2, <2>3, <2>4
<1> QED
  BY <1>1, <1>2, <1>3, <1>4, ServerStarts, ServerKeeps, PTL DEF ServerSpec

-----------------------------------------------------------------------------
(* With one worker, events of one key are published in id order, unless a send *)
(* of the earlier one failed.                                                  *)

\* FirstAt finds the first place of an event on the topic.
LEMMA FirstIsFirst ==
    ASSUME TypeOK, NEW e, Published(e)
    PROVE  /\ FirstAt(e) \in DOMAIN topic
           /\ topic[FirstAt(e)] = e
           /\ \A i \in DOMAIN topic : topic[i] = e => FirstAt(e) <= i
<1> DEFINE at == {i \in DOMAIN topic : topic[i] = e}
<1>1. DOMAIN topic = 1..Len(topic) /\ Len(topic) \in Nat
  BY DEF TypeOK
<1>2. at \in SUBSET Nat /\ at # {}
  BY <1>1 DEF Published, Range
<1>3. \E i \in at : \A j \in at : i <= j
  <2> HIDE DEF at
  <2> QED
    BY <1>2, SmallestNumber
<1>4. PICK i \in DOMAIN topic :
         topic[i] = e /\ \A j \in DOMAIN topic : topic[j] = e => i <= j
  BY <1>3
<1>5. \A j \in 1..i - 1 : topic[j] # e
  BY <1>1, <1>4
<1>6. PICK f : f = FirstAt(e)
  OBVIOUS
<1>7. f \in DOMAIN topic /\ topic[f] = e /\ \A j \in 1..f - 1 : topic[j] # e
  BY <1>4, <1>5, <1>6 DEF FirstAt
<1>8. ASSUME NEW j \in DOMAIN topic, topic[j] = e
      PROVE  f <= j
  BY <1>1, <1>7, <1>8
<1> QED
  BY <1>6, <1>7, <1>8

LEMMA OrderIsUnlessRetried ==
    ASSUME NEW w, TypeOK, ServerTypeOK, OrderOK(w)
    PROVE  OrderedUnlessRetried
<1> SUFFICES ASSUME NEW d \in Events, NEW e \in Events, Before(d, e), Published(e)
             PROVE  \/ Published(d) /\ FirstAt(d) < FirstAt(e)
                    \/ retries[d] + faults + stops > 0
  BY DEF OrderedUnlessRetried, Before
<1>1. CASE Smooth(d)
  <2>1. PICK j \in DOMAIN topic :
           topic[j] = e /\ j = FirstAt(e)
    BY FirstIsFirst
  <2>2. PICK i \in DOMAIN topic : i < j /\ topic[i] = d
    BY <1>1, <2>1 DEF OrderOK, TopicInOrder
  <2>3. Published(d)
    BY <2>2 DEF Published, Range
  <2>4. FirstAt(d) \in DOMAIN topic /\ FirstAt(d) <= i
    BY <2>2, <2>3, FirstIsFirst
  <2>5. DOMAIN topic = 1..Len(topic)
    BY DEF TypeOK
  <2>6. PICK f : f = FirstAt(d)
    OBVIOUS
  <2>7. f < j
    BY <2>2, <2>4, <2>5, <2>6
  <2> QED
    BY <2>1, <2>3, <2>6, <2>7
<1>2. CASE ~Smooth(d)
  <2>1. PICK r, f, s \in Nat : r = retries[d] /\ f = faults /\ s = stops
    BY DEF TypeOK, ServerTypeOK
  <2>2. r + f + s > 0
    BY <1>2, <2>1 DEF Smooth
  <2> QED
    BY <2>1, <2>2
<1> QED
  BY <1>1, <1>2

\* Something has gone wrong with every event.
LEMMA NoneIsSmooth ==
    ASSUME NEW w, CommittedInOrder', \A d \in Events : ~Smooth(d)'
    PROVE  OrderOK(w)'
BY DEF OrderOK, TopicInOrder, BatchInOrder

\* The topic and the batch stay.
LEMMA OrderStays ==
    ASSUME NEW w, OrderOK(w), CommittedInOrder', topic' = topic, batch'[w] = batch[w],
           \A d \in Events : Smooth(d)' => Smooth(d),
           \A d \in Events : status'[d] = "FAILED" => status[d] = "FAILED"
    PROVE  OrderOK(w)'
<1>1. \A d : Published(d)' = Published(d)
  BY DEF Published
<1>2. TopicInOrder'
  BY DEF OrderOK, TopicInOrder
<1>3. BatchInOrder(w)'
  BY <1>1 DEF OrderOK, BatchInOrder
<1> QED
  BY <1>2, <1>3 DEF OrderOK

\* The worker goes on after an event c that is published, or that something has
\* gone wrong with.
LEMMA BatchGoesOn ==
    ASSUME TypeOK, NEW w \in Workers, batch[w] # <<>>, NEW ids, NextEvent(w, ids),
           BatchInOrder(w), NEW c, c = Current(w)[1],
           \A d \in Events : Smooth(d)' => Smooth(d),
           \A d \in Events : Published(d) => Published(d)',
           Published(c)' \/ ~Smooth(c)'
    PROVE  BatchInOrder(w)'
<1>1. /\ \A i \in DOMAIN batch'[w] :
            i + 1 \in DOMAIN batch[w] /\ batch'[w][i] = batch[w][i + 1]
      /\ \A i \in DOMAIN batch[w] : i # 1 => i - 1 \in DOMAIN batch'[w]
      /\ DOMAIN batch[w] \subseteq Nat /\ DOMAIN batch'[w] \subseteq Nat
  BY RestOfBatch
<1>2. c = batch[w][1][1]
  BY CurrentRow
<1>3. ASSUME NEW d \in Events, NEW e \in Events, Before(d, e), Smooth(d)',
             NEW k \in DOMAIN batch'[w], batch'[w][k][1] = e
      PROVE  \/ Published(d)'
             \/ \E l \in DOMAIN batch'[w] : l < k /\ batch'[w][l][1] = d
  <2>1. k + 1 \in DOMAIN batch[w] /\ batch[w][k + 1][1] = e
    BY <1>1, <1>3
  <2>2. CASE Published(d)
    BY <2>2
  <2>3. ASSUME NEW l \in DOMAIN batch[w], l < k + 1, batch[w][l][1] = d
        PROVE  \/ Published(d)'
               \/ \E m \in DOMAIN batch'[w] : m < k /\ batch'[w][m][1] = d
    <3>1. CASE l = 1
      BY <1>2, <1>3, <2>3, <3>1
    <3>2. CASE l # 1
      <4>1. PICK m \in DOMAIN batch'[w] : m = l - 1
        BY <1>1, <3>2
      <4>2. m < k /\ m + 1 = l
        BY <1>1, <2>3, <4>1
      <4>3. batch'[w][m][1] = d
        BY <1>1, <2>3, <4>2
      <4> QED
        BY <4>2, <4>3
    <3> QED
      BY <3>1, <3>2
  <2> QED
    BY <1>3, <2>1, <2>2, <2>3 DEF BatchInOrder
<1>4. \A d, e \in Events : Before(d, e)' <=> Before(d, e)
  BY DEF Before
<1> QED
  BY <1>3, <1>4 DEF BatchInOrder

LEMMA OrderGoesOn ==
    ASSUME TypeOK, NEW w \in Workers, batch[w] # <<>>, NextEvent(w, sent[w]),
           OrderOK(w), CommittedInOrder', topic' = topic, NEW c, c = Current(w)[1], ~Smooth(c)',
           \A d \in Events : Smooth(d)' => Smooth(d),
           \A d \in Events : status'[d] = "FAILED" => status[d] = "FAILED" \/ d = c
    PROVE  OrderOK(w)'
<1>1. \A d : Published(d) => Published(d)'
  BY DEF Published
<1>2. TopicInOrder'
  BY DEF OrderOK, TopicInOrder
<1>3. BatchInOrder(w)'
  BY <1>1, BatchGoesOn DEF OrderOK
<1> QED
  BY <1>2, <1>3 DEF OrderOK

LEMMA OrderSent ==
    ASSUME TypeOK, NEW w \in Workers, batch[w] # <<>>, SendAcked(w), UNCHANGED shutdown,
           OrderOK(w), CommittedInOrder'
    PROVE  OrderOK(w)'
<1>1. PICK c : c = Current(w)[1]
  OBVIOUS
<1>2. PICK ids : ids = sent[w] \cup {c}
  OBVIOUS
<1>3. topic' = Append(topic, c) /\ NextEvent(w, ids) /\ topic \in Seq(Events) /\ c \in Events
  BY <1>1, <1>2, CurrentRow DEF SendAcked, TypeOK
<1>4. status' = status /\ \A d \in Events : Smooth(d)' <=> Smooth(d)
  BY DEF SendAcked, table, shutdown, Smooth
<1>5. PICK n \in Nat : n = Len(topic) /\ DOMAIN topic = 1..n
  BY <1>3
<1>6. /\ DOMAIN topic' = 1..n + 1
      /\ \A i \in 1..n : topic'[i] = topic[i]
      /\ topic'[n + 1] = c
  BY <1>3, <1>5
<1>7. Published(c)' /\ \A d \in Events : Published(d) => Published(d)'
  BY <1>5, <1>6 DEF Published, Range
<1>8. BatchInOrder(w)'
  BY <1>1, <1>3, <1>4, <1>7, BatchGoesOn DEF OrderOK
<1>9. ASSUME NEW d \in Events, NEW e \in Events, Before(d, e), Smooth(d),
             NEW j \in 1..n + 1, topic'[j] = e
      PROVE  \E i \in 1..n + 1 : i < j /\ topic'[i] = d
  <2>1. CASE j \in 1..n
    <3>1. PICK i \in 1..n : i < j /\ topic[i] = d
      BY <1>5, <1>6, <1>9, <2>1 DEF OrderOK, TopicInOrder
    <3> QED
      BY <1>6, <3>1
  <2>2. CASE j = n + 1
    <3>1. 1 \in DOMAIN batch[w] /\ batch[w][1][1] = e
      BY <1>1, <1>6, <1>9, <2>2, CurrentRow
    <3>2. \A l \in DOMAIN batch[w] : ~(l < 1)
      BY <1>3, RestOfBatch
    <3>3. Published(d)
      BY <1>9, <3>1, <3>2 DEF OrderOK, BatchInOrder
    <3>4. PICK i \in 1..n : topic[i] = d
      BY <1>5, <3>3 DEF Published, Range
    <3> QED
      BY <1>6, <2>2, <3>4
  <2> QED
    BY <2>1, <2>2
<1>10. TopicInOrder'
  BY <1>4, <1>6, <1>9 DEF TopicInOrder, Before
<1> QED
  BY <1>4, <1>8, <1>10 DEF OrderOK

\* A batch has the oldest of the rows that are due, and an event without a failed
\* send is due as soon as it is committed.
LEMMA OrderFetched ==
    ASSUME NEW w, Workers = {w}, TypeOK, SentIsPublished, FetchPending(w), UNCHANGED shutdown,
           OrderOK(w), CommittedInOrder'
    PROVE  OrderOK(w)'
<1>1. PICK skipped \in SUBSET LockedByAnother(w) :
         LET due == {e \in Events \ skipped : Due(e)}
         IN  \E rows \in Batches(due) :
                /\ Limit(due) \in Nat \ {0}
                /\ batch' \in [Workers -> Seq(Events \X Nat)]
                /\ DOMAIN batch'[w] = 1..Limit(due)
                /\ \A i \in 1..Limit(due) :
                      /\ rows[i] \in due
                      /\ batch'[w][i] = <<rows[i], retries[rows[i]]>>
  BY FetchedRows
<1>2. skipped = {}
  BY <1>1 DEF LockedByAnother
<1>3. PICK due :
         /\ \A e : e \in due <=> e \in Events /\ Due(e)
         /\ \E rows \in Batches(due) :
               /\ DOMAIN batch'[w] = 1..Limit(due)
               /\ \A i \in 1..Limit(due) :
                     rows[i] \in due /\ batch'[w][i] = <<rows[i], retries[rows[i]]>>
  <2> DEFINE due == {e \in Events \ skipped : Due(e)}
  <2>1. \A e : e \in due <=> e \in Events /\ Due(e)
    BY <1>2
  <2>2. \E rows \in Batches(due) :
           /\ DOMAIN batch'[w] = 1..Limit(due)
           /\ \A i \in 1..Limit(due) :
                 rows[i] \in due /\ batch'[w][i] = <<rows[i], retries[rows[i]]>>
    BY <1>1
  <2> HIDE DEF due
  <2> QED
    BY <2>1, <2>2
<1>4. PICK rows \in Batches(due) :
         /\ DOMAIN batch'[w] = 1..Limit(due)
         /\ \A i \in 1..Limit(due) :
               rows[i] \in due /\ batch'[w][i] = <<rows[i], retries[rows[i]]>>
  BY <1>3
<1>5. \A i \in 1..Limit(due) : batch'[w][i][1] = rows[i]
  BY <1>4, PairParts
<1>6. /\ topic' = topic /\ status' = status
      /\ \A d \in Events : Smooth(d)' <=> Smooth(d)
  BY DEF FetchPending, table, shutdown, Smooth
<1>7. ASSUME NEW d \in Events, NEW e \in Events, Before(d, e), Smooth(d), ~Published(d),
             NEW k \in 1..Limit(due), rows[k] = e
      PROVE  \E l \in 1..Limit(due) : l < k /\ rows[l] = d
  <2>1. status[d] = "PENDING"
    <3>1. status[e] = "PENDING"
      BY <1>3, <1>4, <1>7 DEF Due
    <3>2. status[d] \notin {"absent", "FAILED", "SENT"}
      BY <1>7, <3>1 DEF OrderOK, CommittedInOrder, SentIsPublished
    <3> QED
      BY <3>2 DEF TypeOK
  <2>2. d \in due
    BY <1>3, <1>7, <2>1 DEF Due, Smooth
  <2>3. d < e /\ d \in Nat /\ e \in Nat
    BY <1>7, EventsAssumption DEF Before
  <2>4. d \in Range(rows) /\ DOMAIN rows = 1..Limit(due)
    BY <1>4, <1>7, <2>2, <2>3 DEF Batches
  <2>5. PICK l \in 1..Limit(due) : rows[l] = d
    BY <2>4 DEF Range
  <2>6. l < k
    <3>1. l # k /\ ~(k < l)
      BY <1>4, <1>7, <2>3, <2>5 DEF Batches
    <3> QED
      BY <3>1
  <2> QED
    BY <2>5, <2>6
<1>8. \A d : Published(d)' = Published(d)
  BY <1>6 DEF Published
<1>9. TopicInOrder'
  BY <1>6 DEF OrderOK, TopicInOrder, Before
<1>10. BatchInOrder(w)'
  BY <1>4, <1>5, <1>6, <1>7, <1>8 DEF BatchInOrder, Before
<1> QED
  BY <1>6, <1>9, <1>10 DEF OrderOK

\* Only CommitEvent, NewRow adds a row, and it keeps the order of its key.
LEMMA CommitsInOrder ==
    ASSUME TypeOK, CommittedInOrder, NEW c \in Events, CommitEvent(c)
    PROVE  CommittedInOrder'
<1>1. /\ status' = [status EXCEPT ![c] = "PENDING"]
      /\ \A d \in Events : Before(d, c) => status[d] # "absent"
  BY DEF CommitEvent, NewRow, Before
<1>2. \A e \in Events : status'[e] = IF e = c THEN "PENDING" ELSE status[e]
  BY <1>1 DEF TypeOK
<1> QED
  BY <1>1, <1>2 DEF CommittedInOrder, Before

LEMMA NoneCommitted ==
    ASSUME CommittedInOrder,
           \A e \in Events : status'[e] = "absent" <=> status[e] = "absent"
    PROVE  CommittedInOrder'
BY DEF CommittedInOrder, Before

LEMMA WorkKeepsOrder ==
    ASSUME NEW w, Workers = {w}, ServerOK, ServerTypeOK', TypeOK', AloneOK(w), OrderOK(w),
           UNCHANGED shutdown,
           \/ Serving(w) \/ SendCancelled(w)
           \/ GiveUpCancelled(w) \/ MarkSentCancelled(w)
    PROVE  OrderOK(w)'
<1>1. /\ TypeOK /\ ServerTypeOK /\ SentIsPublished
      /\ WorkerOK(w, IF phase = "cancelled" THEN {} ELSE Workers)
  BY DEF ServerOK, RelayOK
<1>2. pc[w] \in {"send", "increment", "markFailed"} =>
         /\ batch[w] # <<>>
         /\ Current(w)[1] \in Events
         /\ Current(w)[2] \in Nat
         /\ status[Current(w)[1]] = "PENDING"
  BY <1>1, CurrentIsOpen, CurrentRow DEF WorkerOK
<1>3. CASE phase = "cancelled" /\ (GiveUpCancelled(w) \/ MarkSentCancelled(w))
  <2>1. \A d \in Events : ~Smooth(d)'
    BY <1>1, <1>3 DEF ServerTypeOK, Smooth, shutdown
  <2>2. CommittedInOrder'
    BY <1>3, NoneCommitted DEF OrderOK, GiveUpCancelled, MarkSentCancelled, table
  <2> QED
    BY <2>1, <2>2, NoneIsSmooth
<1>4. ASSUME faults' = faults + 1, \A e \in Events : status'[e] = status[e]
      PROVE  OrderOK(w)'
  <2>1. \A d \in Events : ~Smooth(d)'
    BY <1>1, <1>4 DEF TypeOK, Smooth
  <2>2. CommittedInOrder'
    BY <1>4, NoneCommitted DEF OrderOK
  <2> QED
    BY <2>1, <2>2, NoneIsSmooth
<1>5. CASE FetchPending(w)
  <2>1. CommittedInOrder'
    BY <1>5, NoneCommitted DEF OrderOK, FetchPending, table
  <2> QED
    BY <1>1, <1>5, <2>1, OrderFetched
<1>6. CASE SendAcked(w)
  <2>1. CommittedInOrder' /\ batch[w] # <<>>
    BY <1>2, <1>6, NoneCommitted DEF OrderOK, SendAcked, table
  <2> QED
    BY <1>1, <1>6, <2>1, OrderSent
<1>7. CASE SendFails(w)
  <2>1. UNCHANGED <<status, retries, topic, batch, faults>>
    BY <1>7 DEF SendFails, table
  <2>2. \A d \in Events : Smooth(d)' => Smooth(d)
    BY <2>1 DEF Smooth, shutdown
  <2>3. CommittedInOrder'
    BY <2>1, NoneCommitted DEF OrderOK
  <2> QED
    BY <2>1, <2>2, <2>3, OrderStays
<1>8. CASE SendAckLost(w)
  BY <1>4, <1>8 DEF SendAckLost, Fault, table
<1>9. CASE IncrementRetry(w)
  <2>1. PICK c \in Events : c = Current(w)[1] /\ batch[w] # <<>>
    BY <1>2, <1>9 DEF IncrementRetry
  <2>2. status' = status /\ topic' = topic
    BY <1>9 DEF IncrementRetry
  <2>3. CASE faults' = faults + 1
    BY <1>4, <2>2, <2>3
  <2>4. CASE /\ faults' = faults
             /\ \/ retries' = [retries EXCEPT ![c] = @ + 1]
                \/ retries[c] >= MaxCount /\ retries' = retries
    <3>1. retries'[c] # 0 /\ \A d \in Events \ {c} : retries'[d] = retries[d]
      BY <1>1, <2>4, ColumnAssumption DEF TypeOK
    <3>2. retries[c] = 0 => retries' # retries
      BY <1>1, <2>4, ColumnAssumption DEF TypeOK
    <3>3. /\ ~Smooth(c)'
          /\ \A d \in Events : Smooth(d)' => Smooth(d)
      BY <2>4, <3>1, <3>2 DEF Smooth, shutdown
    <3>4. CommittedInOrder'
      BY <2>2, NoneCommitted DEF OrderOK
    <3>5. CASE batch' = batch
      BY <2>2, <3>3, <3>4, <3>5, OrderStays
    <3>6. CASE NextEvent(w, sent[w])
      BY <1>1, <2>1, <2>2, <3>3, <3>4, <3>6, OrderGoesOn
    <3> QED
      BY <1>9, <3>5, <3>6 DEF IncrementRetry
  <2> QED
    BY <1>9, <2>1, <2>3, <2>4 DEF IncrementRetry, Fault, NoFault
<1>10. CASE MarkFailed(w) /\ phase # "cancelled"
  <2>1. PICK c \in Events :
           /\ c = Current(w)[1] /\ Current(w)[2] \in Nat
           /\ batch[w] # <<>> /\ status[c] = "PENDING"
    BY <1>2, <1>10 DEF MarkFailed
  <2>2. /\ topic' = topic /\ retries' = retries
        /\ NextEvent(w, sent[w]) /\ pc[w] = "markFailed" /\ phase # "cancelled"
    BY <1>10 DEF MarkFailed
  <2>3. CASE faults' = faults + 1 /\ status' = status
    BY <1>4, <2>3
  <2>4. CASE faults' = faults /\ status' = [status EXCEPT ![c] = "FAILED"]
    <3>1. \A d \in Events : status'[d] = IF d = c THEN "FAILED" ELSE status[d]
      BY <1>1, <2>4 DEF TypeOK
    <3>2. retries[c] + faults > 0
      BY <1>1, <2>1, <2>2 DEF WorkerOK, Counted
    <3>3. ~(retries[c] = 0 /\ faults = 0)
      BY <2>1, <3>2
    <3>4. /\ ~Smooth(c)'
          /\ \A d \in Events : Smooth(d)' => Smooth(d)
      BY <2>2, <2>4, <3>3 DEF Smooth, shutdown
    <3>5. CommittedInOrder'
      BY <2>1, <3>1, NoneCommitted DEF OrderOK
    <3> QED
      BY <1>1, <2>1, <2>2, <3>1, <3>4, <3>5, OrderGoesOn
  <2> QED
    BY <1>10, <2>1, <2>3, <2>4 DEF MarkFailed, Fault, NoFault
<1>11. CASE MarkSent(w)
  <2>1. /\ retries' = retries /\ topic' = topic /\ batch' = batch
        /\ \A e \in sent[w] : status[e] = "PENDING"
    BY <1>11 DEF MarkSent, AloneOK
  <2>2. CASE faults' = faults + 1 /\ status' = status
    BY <1>4, <2>2
  <2>3. CASE /\ faults' = faults
             /\ status' = [e \in Events |-> IF e \in sent[w] THEN "SENT" ELSE status[e]]
    <3>1. \A e \in Events : status'[e] = IF e \in sent[w] THEN "SENT" ELSE status[e]
      BY <2>3
    <3>2. \A d \in Events : Smooth(d)' => Smooth(d)
      BY <2>1, <2>3 DEF Smooth, shutdown
    <3>3. CommittedInOrder'
      BY <2>1, <3>1, NoneCommitted DEF OrderOK
    <3> QED
      BY <2>1, <3>1, <3>2, <3>3, OrderStays
  <2> QED
    BY <1>11, <2>2, <2>3 DEF MarkSent, Fault, NoFault
<1> QED
  BY <1>3, <1>5, <1>6, <1>7, <1>8, <1>9, <1>10, <1>11
  DEF Work, Serving, SendCancelled, GiveUpCancelled, MarkSentCancelled

LEMMA ServerKeepsOrder ==
    ASSUME NEW w, Workers = {w}, ServerOK, ServerOK', AloneOK(w), OrderOK(w),
           [ServerNext]_serverVars
    PROVE  OrderOK(w)'
<1>1. TypeOK /\ TypeOK' /\ ServerTypeOK /\ ServerTypeOK'
  BY DEF ServerOK, RelayOK
<1>2. ASSUME UNCHANGED <<status, retries, topic, batch, faults>>, stops' = stops \/ stops' = stops + 1
      PROVE  OrderOK(w)'
  <2>1. \A d \in Events : Smooth(d)' => Smooth(d)
    BY <1>1, <1>2 DEF Smooth, ServerTypeOK
  <2>2. CommittedInOrder'
    BY <1>2, NoneCommitted DEF OrderOK
  <2> QED
    BY <1>2, <2>1, <2>2, OrderStays
<1>3. CASE Signal \/ CancelRelay
  BY <1>2, <1>3 DEF Signal, CancelRelay, vars
<1>4. CASE ExitAndRestart \/ Crash
  <2>1. \A d \in Events : ~Smooth(d)'
    BY <1>1, <1>4 DEF ExitAndRestart, Crash, Fault, Smooth, ServerTypeOK, TypeOK
  <2>2. CommittedInOrder'
    BY <1>4, NoneCommitted DEF OrderOK, ExitAndRestart, Crash, table
  <2> QED
    BY <2>1, <2>2, NoneIsSmooth
<1>5. ASSUME NEW c \in Events, CommitEvent(c), UNCHANGED shutdown
      PROVE  OrderOK(w)'
  <2>1. CommittedInOrder'
    BY <1>1, <1>5, CommitsInOrder DEF OrderOK
  <2>2. UNCHANGED <<topic, batch, retries, faults>>
    BY <1>5 DEF CommitEvent, NewRow, worker
  <2>3. \A d \in Events : status'[d] = "FAILED" => status[d] = "FAILED"
    BY <1>1, <1>5 DEF CommitEvent, NewRow, TypeOK
  <2>4. \A d \in Events : Smooth(d)' => Smooth(d)
    BY <1>5, <2>2 DEF Smooth, shutdown
  <2> QED
    BY <2>1, <2>2, <2>3, <2>4, OrderStays
<1>6. ASSUME Serving(w) \/ SendCancelled(w) \/ GiveUpCancelled(w) \/ MarkSentCancelled(w)
      PROVE  OrderOK(w)'
  <2>1. UNCHANGED shutdown
    BY <1>6 DEF Serving, SendCancelled, GiveUpCancelled, MarkSentCancelled
  <2> QED
    BY <1>1, <1>6, <2>1, WorkKeepsOrder
<1> QED
  BY <1>2, <1>3, <1>4, <1>5, <1>6 DEF ServerNext, ServerStep, serverVars, vars, shutdown, Grow, KafkaFails,
     KafkaRecovers, Idle, worker, table

LEMMA ServerStartsOrder == ASSUME NEW w \in Workers PROVE ServerInit => OrderOK(w)
BY DEF ServerInit, Init, OrderOK, CommittedInOrder, TopicInOrder, BatchInOrder

\* With a single worker (RELAY_WORKER_COUNT=1), FetchPending's ORDER BY id keeps the
\* order of each key: an event overtakes an earlier one of its key only when a
\* send of the earlier one failed, an ack or a database call was lost, or the
\* server was stopped.
THEOREM OrderIsKept ==
    ASSUME NEW w, Workers = {w}
    PROVE  ServerSpec => []OrderedUnlessRetried
<1>1. ServerOK /\ AloneOK(w) /\ [ServerNext]_serverVars => AloneOK(w)'
  BY ServerKeepsAlone
<1>2. ServerOK /\ ServerOK' /\ AloneOK(w) /\ OrderOK(w) /\ [ServerNext]_serverVars => OrderOK(w)'
  BY ServerKeepsOrder
<1>3. ServerInit => AloneOK(w) /\ OrderOK(w)
  BY ServerStartsAlone, ServerStartsOrder
<1>4. ServerOK /\ OrderOK(w) => OrderedUnlessRetried
  BY OrderIsUnlessRetried DEF ServerOK, RelayOK
<1> QED
  BY <1>1, <1>2, <1>3, <1>4, ServerStarts, ServerKeeps, PTL DEF ServerSpec
=============================================================================
