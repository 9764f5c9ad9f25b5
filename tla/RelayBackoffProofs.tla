------------------------- MODULE RelayBackoffProofs -------------------------
(***************************************************************************)
(* Theorems about the relay with two clocks, for any number of workers     *)
(* and events and any skew between the application's clock and the         *)
(* database's: what the relay promises without a clock, and when it makes  *)
(* the last try of an event.                                               *)
(***************************************************************************)
EXTENDS RelayBackoff, RelayProofs

\* The age column of OutboxRelay is what the clock says.
ClockOK ==
    /\ now \in Nat /\ now <= Horizon
    /\ created \in [Events -> Int] /\ tried \in [Events -> Nat] /\ committed \in [Events -> Nat]
    /\ \A e \in Events :
          /\ committed[e] - MaxLag <= created[e] /\ tried[e] <= now
          /\ age[e] = IF status[e] = "absent" THEN 0 ELSE Age(e, now)

\* A send that failed was made when the backoff of its row had passed.
TryOK(w) ==
    pc[w] \in {"increment", "markFailed"} /\ Current(w)[2] > 0 =>
        tried[Current(w)[1]] > created[Current(w)[1]] + 2^Current(w)[2]

\* The last send of an event by its created_at column.
LastTryOfRow ==
    \A e \in Events : status[e] = "FAILED" => tried[e] > created[e] + 2^(MaxRetries - 1)

TriesOK == LastTryOfRow /\ \A w \in Workers : TryOK(w)

-----------------------------------------------------------------------------
(* Powers of two.  They count the subsets of an interval. *)

LEMMA PowerCounts ==
    ASSUME NEW k \in Nat
    PROVE  /\ IsFiniteSet(SUBSET (1..k))
           /\ 2^k = Cardinality(SUBSET (1..k))
           /\ 2^k \in Nat
<1>1. IsFiniteSet(1..k) /\ Cardinality(1..k) = k
  BY FS_Interval
<1>2. IsFiniteSet(SUBSET (1..k)) /\ Cardinality(SUBSET (1..k)) = 2^k
  BY <1>1, FS_SUBSET
<1> QED
  BY <1>2, FS_CardinalityType

LEMMA PowersGrow ==
    ASSUME NEW k \in Nat, NEW l \in Nat
    PROVE  /\ k <= l => 2^k <= 2^l
           /\ k < l => 2^k < 2^l
<1>1. ASSUME k <= l PROVE 2^k <= 2^l
  <2>1. PICK A : A = SUBSET (1..k)
    OBVIOUS
  <2>2. PICK B : B = SUBSET (1..l)
    OBVIOUS
  <2>3. A \in SUBSET B
    BY <1>1, <2>1, <2>2
  <2>4. IsFiniteSet(B) /\ Cardinality(A) = 2^k /\ Cardinality(B) = 2^l
    BY <2>1, <2>2, PowerCounts
  <2> QED
    BY <2>3, <2>4, FS_Subset
<1>2. ASSUME k < l PROVE 2^k # 2^l
  <2>1. (SUBSET (1..k)) \in SUBSET (SUBSET (1..l))
    BY <1>2
  <2>2. (1..l) \in SUBSET (1..l) /\ (1..l) \notin SUBSET (1..k)
    <3>1. l \in 1..l /\ l \notin 1..k
      BY <1>2
    <3> QED
      BY <3>1
  <2> QED
    BY <2>1, <2>2, PowerCounts, FS_Subset
<1>3. 2^k \in Nat /\ 2^l \in Nat
  BY PowerCounts
<1> QED
  BY <1>1, <1>2, <1>3

LEMMA PowerIsLarger ==
    ASSUME NEW k \in Nat
    PROVE  k < 2^k
<1> DEFINE f == [i \in 0..k |-> 1..i]
<1>1. f \in Injection(0..k, SUBSET (1..k))
  <2>1. f \in [0..k -> SUBSET (1..k)]
    OBVIOUS
  <2>2. ASSUME NEW i \in 0..k, NEW j \in 0..k, i < j PROVE f[i] # f[j]
    <3>1. j \in 1..j /\ j \notin 1..i
      BY <2>2
    <3> QED
      BY <3>1
  <2>3. \A i, j \in 0..k : f[i] = f[j] => i = j
    <3>1. \A i, j \in 0..k : i = j \/ i < j \/ j < i
      OBVIOUS
    <3> QED
      BY <2>2, <3>1
  <2> QED
    BY <2>1, <2>3 DEF Injection, IsInjective
<1> HIDE DEF f
<1>2. IsFiniteSet(0..k) /\ Cardinality(0..k) = k + 1
  BY FS_Interval
<1>3. Cardinality(0..k) <= Cardinality(SUBSET (1..k))
  BY <1>1, PowerCounts, FS_Injection
<1>4. k + 1 <= 2^k /\ 2^k \in Nat
  BY <1>2, <1>3, PowerCounts
<1> QED
  BY <1>4

\* A set of numbers with a bound has a largest one.
LEMMA LargestNumber ==
    ASSUME NEW n \in Nat, NEW T \in SUBSET (0..n), T # {}
    PROVE  \E k \in T : \A l \in T : l <= k
<1>1. {n - k : k \in T} \in SUBSET Nat /\ {n - k : k \in T} # {}
  <2>1. \A k \in T : n - k \in Nat
    OBVIOUS
  <2>2. PICK k : k \in T
    OBVIOUS
  <2>3. n - k \in {n - l : l \in T}
    BY <2>2
  <2> QED
    BY <2>1, <2>3, Zenon
<1>2. PICK m \in {n - k : k \in T} : \A l \in {n - k : k \in T} : m <= l
  BY <1>1, SmallestNumber
<1>3. PICK k \in T : m = n - k
  BY <1>2
<1>4. ASSUME NEW l \in T PROVE l <= k
  <2>1. n - k <= n - l
    BY <1>2, <1>3
  <2>2. k \in Nat /\ l \in Nat
    OBVIOUS
  <2> QED
    BY <2>1, <2>2
<1> QED
  BY <1>4

-----------------------------------------------------------------------------
(* The clock. *)

\* Doublings takes the logarithm of the time since created_at.
LEMMA DoublingsTell ==
    ASSUME NEW c \in Int, NEW t \in Nat
    PROVE  /\ Doublings(c, t) \in Nat
           /\ \A r \in Nat \ {0} : Doublings(c, t) >= r <=> t - c > 2^r
<1>1. PICK d \in Int : d = t - c
  OBVIOUS
<1> DEFINE passed == {k \in 0..t - c : c < t - 2^k}
<1>2. Doublings(c, t) = IF passed = {} THEN 0
                        ELSE CHOOSE k \in passed : \A l \in passed : l <= k
  BY DEF Doublings
<1>3. \A r \in Nat : r \in passed <=> d > 2^r
  <2> SUFFICES ASSUME NEW r \in Nat
               PROVE  r \in 0..t - c /\ c < t - 2^r <=> d > 2^r
    OBVIOUS
  <2>1. r < 2^r /\ 2^r \in Nat
    BY PowerIsLarger, PowerCounts
  <2> QED
    BY <1>1, <2>1
<1>4. CASE passed = {}
  <2>1. Doublings(c, t) = 0
    BY <1>2, <1>4
  <2>2. \A r \in Nat \ {0} : ~(d > 2^r)
    BY <1>3, <1>4
  <2> QED
    BY <1>1, <2>1, <2>2
<1>5. CASE passed # {}
  <2>1. PICK n \in Nat : n = d
    <3>1. PICK k \in 0..t - c : TRUE
      BY <1>5
    <3>2. k \in Int /\ 0 <= k /\ k <= d
      BY <1>1, <3>1
    <3> QED
      BY <1>1, <3>2
  <2>2. passed \in SUBSET (0..n)
    BY <1>1, <2>1
  <2>3. \E k \in passed : \A l \in passed : l <= k
    <3> HIDE DEF passed
    <3> QED
      BY <1>5, <2>2, LargestNumber
  <2>4. PICK a : a = Doublings(c, t)
    OBVIOUS
  <2>5. a \in passed /\ \A l \in passed : l <= a
    <3> HIDE DEF passed
    <3> QED
      BY <1>2, <1>5, <2>3, <2>4
  <2>6. a \in Nat /\ d > 2^a
    BY <1>3, <2>2, <2>5
  <2>7. ASSUME NEW r \in Nat \ {0} PROVE a >= r <=> d > 2^r
    <3>1. 2^r \in Nat /\ 2^a \in Nat
      BY <2>6, PowerCounts
    <3>2. a >= r => d > 2^r
      BY <2>6, <3>1, PowersGrow
    <3>3. d > 2^r => r <= a
      BY <1>3, <2>5
    <3> QED
      BY <2>6, <3>2, <3>3
  <2> QED
    BY <1>1, <2>4, <2>6, <2>7
<1> QED
  BY <1>4, <1>5

LEMMA AgeTells ==
    ASSUME NEW e \in Events, created \in [Events -> Int], NEW t \in Nat
    PROVE  /\ Age(e, t) \in Nat
           /\ \A r \in Nat \ {0} : Age(e, t) >= r <=> t - created[e] > 2^r
<1>1. PICK c \in Int : c = created[e]
  OBVIOUS
<1> QED
  BY <1>1, DoublingsTell DEF Age

\* A row's age never falls, whatever second it is.
LEMMA TickKeeps ==
    ASSUME RelayOK(Workers), ClockOK, Tick
    PROVE  RelayOK(Workers)' /\ ClockOK'
<1> USE DEF Tick
<1>1. TypeOK
  BY DEF RelayOK
<1>2. PICK n \in Nat, t \in Nat : n = now /\ t = now' /\ n <= t /\ t <= Horizon
  BY HorizonAssumption DEF ClockOK
<1>3. \A e \in Events : age'[e] = IF status[e] = "absent" THEN 0 ELSE Age(e, t)
  BY <1>2
<1>4. ASSUME NEW e \in Events PROVE age'[e] \in Nat /\ age'[e] >= age[e]
  <2>1. created \in [Events -> Int] /\ created[e] \in Int /\ n <= Horizon
    BY <1>2, HorizonAssumption DEF ClockOK
  <2>2. Age(e, n) \in Nat /\ \A r \in Nat \ {0} : Age(e, n) >= r <=> n - created[e] > 2^r
    BY <1>2, <2>1, AgeTells
  <2>3. Age(e, t) \in Nat /\ \A r \in Nat \ {0} : Age(e, t) >= r <=> t - created[e] > 2^r
    BY <1>2, <2>1, AgeTells
  <2>4. Age(e, n) <= Age(e, t)
    <3>1. PICK a \in Nat : a = Age(e, n)
      BY <2>2
    <3>2. a = 0 \/ Age(e, t) >= a
      <4>1. ASSUME a # 0 PROVE t - created[e] > 2^a
        <5>1. n - created[e] > 2^a
          BY <2>2, <3>1, <4>1
        <5>2. 2^a \in Nat
          BY PowerCounts
        <5> QED
          BY <1>2, <2>1, <5>1, <5>2
      <4> QED
        BY <2>3, <4>1
    <3> QED
      BY <2>3, <3>1, <3>2
  <2>5. age[e] = IF status[e] = "absent" THEN 0 ELSE Age(e, n)
    BY <1>2 DEF ClockOK
  <2> QED
    BY <1>3, <2>2, <2>3, <2>4, <2>5
<1>5. age' \in [Events -> Nat]
  BY <1>4
<1>6. TypeOK'
  BY <1>1, <1>5 DEF TypeOK, worker
<1>7. Forward
  BY <1>1, <1>4 DEF Forward, TypeOK, worker
<1>8. EventsOK'
  BY <1>1, <1>4, BoundsAssumption
  DEF RelayOK, EventsOK, TypeOK, SentIsPublished, FailedAfterAllRetries, GivenUpOnlyAfterBackoff,
      Published
<1>9. RelayOK(Workers)'
  BY <1>6, <1>7, <1>8, NoWorkerSteps
<1>10. ClockOK'
  BY <1>2, <1>3 DEF ClockOK, Age
<1> QED
  BY <1>9, <1>10

\* A step that leaves the clock and the rows as they are.
LEMMA ClockStays ==
    ASSUME TypeOK, ClockOK, now' = now, created' = created, committed' = committed,
           age' = age,
           \A e \in Events : status'[e] = "absent" <=> status[e] = "absent",
           tried' \in [Events -> Nat], \A e \in Events : tried'[e] <= now
    PROVE  ClockOK'
<1>1. \A e \in Events : Age(e, now)' = Age(e, now)
  BY DEF Age
<1> QED
  BY <1>1 DEF ClockOK

\* A new row has the age that its created_at says.
LEMMA CommitKeeps ==
    ASSUME RelayOK(Workers), ClockOK, NEW e \in Events, TimedCommit(e)
    PROVE  RelayOK(Workers)' /\ ClockOK'
<1> USE DEF TimedCommit, NewRow
<1>1. TypeOK
  BY DEF RelayOK
<1>2. PICK n \in Nat : n = now /\ n <= Horizon /\ now' = n
  BY DEF ClockOK
<1>3. PICK skew \in Skews : created' = [created EXCEPT ![e] = now + skew]
  OBVIOUS
<1>4. skew \in Int /\ MaxLag \in Nat /\ -MaxLag <= skew
  BY SkewsAssumption
<1>5. /\ created' \in [Events -> Int] /\ created'[e] = n + skew
      /\ \A d \in Events \ {e} : created'[d] = created[d]
  BY <1>2, <1>3, <1>4 DEF ClockOK
<1>6. /\ committed' \in [Events -> Nat] /\ committed'[e] = n
      /\ \A d \in Events \ {e} : committed'[d] = committed[d]
  BY <1>2 DEF ClockOK
<1>7. PICK a \in Nat : a = Age(e, now)'
  <2>1. PICK c \in Int : c = created'[e]
    BY <1>5
  <2>2. Age(e, now)' = Doublings(c, n)
    BY <1>2, <2>1 DEF Age
  <2> QED
    BY <2>1, <2>2, DoublingsTell
<1>8. \A d \in Events : age'[d] = IF d = e THEN a ELSE age[d]
  BY <1>1, <1>7 DEF TypeOK
<1>9. \A d \in Events : status'[d] = IF d = e THEN "PENDING" ELSE status[d]
  BY <1>1 DEF TypeOK
<1>10. age[e] = 0
  BY DEF ClockOK
<1>11. age' \in [Events -> Nat]
  BY <1>1, <1>7 DEF TypeOK
<1>12. TypeOK'
  BY <1>1, <1>11 DEF TypeOK, worker
<1>13. Forward
  BY <1>1, <1>8, <1>9, <1>10 DEF Forward, TypeOK, worker
<1>14. EventsOK'
  BY <1>1, <1>8, <1>9
  DEF RelayOK, EventsOK, TypeOK, SentIsPublished, FailedAfterAllRetries, GivenUpOnlyAfterBackoff,
      Published
<1>15. RelayOK(Workers)'
  BY <1>12, <1>13, <1>14, NoWorkerSteps
<1>16. \A d \in Events \ {e} : Age(d, now)' = Age(d, now)
  BY <1>2, <1>5 DEF Age
<1>17. committed'[e] - MaxLag <= created'[e]
  BY <1>2, <1>4, <1>5, <1>6
<1>18. \A d \in Events : committed'[d] - MaxLag <= created'[d] /\ tried'[d] <= now'
  BY <1>2, <1>5, <1>6, <1>17 DEF ClockOK
<1>19. \A d \in Events : age'[d] = IF status'[d] = "absent" THEN 0 ELSE Age(d, now)'
  BY <1>7, <1>8, <1>9, <1>16 DEF ClockOK
<1>20. ClockOK'
  BY <1>2, <1>5, <1>6, <1>18, <1>19 DEF ClockOK
<1> QED
  BY <1>15, <1>20

TimedOK == RelayOK(Workers) /\ OnlyCommitted /\ ClockOK

LEMMA TimedKeepsOK ==
    ASSUME TimedOK, [TimedNext]_timedVars
    PROVE  TimedOK'
<1> USE DEF TimedOK
<1>0. TypeOK
  BY DEF RelayOK
<1>1. CASE Tick
  <2>1. OnlyCommitted'
    BY <1>1 DEF Tick, OnlyCommitted, Published
  <2> QED
    BY <1>1, <2>1, TickKeeps
<1>2. ASSUME NEW e \in Events, TimedCommit(e) PROVE TimedOK'
  <2>1. OnlyCommitted'
    BY <1>0, <1>2 DEF TimedCommit, NewRow, OnlyCommitted, Published, TypeOK
  <2> QED
    BY <1>2, <2>1, CommitKeeps
<1>3. ASSUME NEW w \in Workers, TimedWork(w) PROVE TimedOK'
  <2>1. Work(w) /\ now' = now /\ created' = created /\ committed' = committed
    BY <1>3 DEF TimedWork
  <2>2. RelayOK(Workers)'
    BY <2>1, RelayInductive DEF Next
  <2>3. /\ OnlyCommitted' /\ age' = age
        /\ \A e \in Events : status'[e] = "absent" <=> status[e] = "absent"
    BY <2>1, WorkersTouchCommitted
  <2>4. tried' \in [Events -> Nat] /\ \A e \in Events : tried'[e] <= now
    <3>1. CASE tried' = tried
      BY <3>1 DEF ClockOK
    <3>2. CASE pc[w] = "send" /\ tried' = [tried EXCEPT ![Current(w)[1]] = now]
      <4>1. PICK c \in Events : c = Current(w)[1]
        BY <3>2, CurrentHolds
      <4> QED
        BY <3>2, <4>1 DEF ClockOK
    <3> QED
      BY <1>3, <3>1, <3>2 DEF TimedWork
  <2> QED
    BY <1>0, <2>1, <2>2, <2>3, <2>4, ClockStays
<1>4. CASE (KafkaFails \/ KafkaRecovers \/ Crash) /\ UNCHANGED clock
  <2>1. RelayOK(Workers)'
    BY <1>4, RelayInductive DEF Next, Environment
  <2>2. UNCHANGED <<status, age, topic, now, created, committed, tried>>
    BY <1>4 DEF KafkaFails, KafkaRecovers, Crash, clock, table
  <2>3. OnlyCommitted'
    BY <2>2 DEF OnlyCommitted, Published
  <2> QED
    BY <2>1, <2>2, <2>3 DEF ClockOK, Age
<1>5. CASE UNCHANGED timedVars
  <2>1. RelayOK(Workers)'
    BY <1>5, RelayInductive DEF timedVars
  <2>2. UNCHANGED <<status, age, topic, now, created, committed, tried>>
    BY <1>5 DEF timedVars, vars, clock
  <2>3. OnlyCommitted'
    BY <2>2 DEF OnlyCommitted, Published
  <2> QED
    BY <2>1, <2>2, <2>3 DEF ClockOK, Age
<1> QED
  BY <1>1, <1>2, <1>3, <1>4, <1>5 DEF TimedNext

LEMMA TimedStarts == TimedInit => TimedOK
<1> SUFFICES ASSUME TimedInit PROVE TimedOK
  OBVIOUS
<1>1. RelayOK(Workers)
  BY RelayStarts DEF TimedInit
<1>2. OnlyCommitted
  BY DEF TimedInit, Init, OnlyCommitted, Published, Range
<1>3. ClockOK
  BY HorizonAssumption, SkewsAssumption DEF TimedInit, Init, ClockOK
<1> QED
  BY <1>1, <1>2, <1>3 DEF TimedOK

-----------------------------------------------------------------------------
(* The theorems. *)

LEMMA TimedStaysOK == TimedSpec => []TimedOK
<1>1. TimedOK /\ [TimedNext]_timedVars => TimedOK'
  BY TimedKeepsOK
<1> QED
  BY <1>1, TimedStarts, PTL DEF TimedSpec

\* The relay keeps its promises under a clock that may stop at any second and jump over
\* several doublings of a backoff between two polls (relay.go, pollAndPublish).
THEOREM ClockKeepsTheRelay ==
    TimedSpec => [](SentIsPublished /\ FailedAfterAllRetries /\ GivenUpOnlyAfterBackoff)
<1>1. TimedOK => SentIsPublished /\ FailedAfterAllRetries /\ GivenUpOnlyAfterBackoff
  BY DEF TimedOK, RelayOK
<1> QED
  BY <1>1, TimedStaysOK, PTL

\* And the clock is invisible in Delivery.
THEOREM ClockKeepsDelivery == TimedSpec => ImplementsDelivery
<1>1. TimedInit => AtLeastOnce!Init
  BY DEF TimedInit, Init, AtLeastOnce!Init, Range
<1>2. TimedOK /\ [TimedNext]_timedVars => [AtLeastOnce!Next]_<<status, Range(topic)>>
  <2> SUFFICES ASSUME TimedOK, [TimedNext]_timedVars
               PROVE  AtLeastOnce!Next \/ UNCHANGED <<status, Range(topic)>>
    OBVIOUS
  <2>1. CASE [Next]_vars
    BY <2>1, StepDelivers DEF TimedOK
  <2>2. CASE Tick
    BY <2>2 DEF Tick
  <2>3. ASSUME NEW e \in Events, TimedCommit(e) PROVE AtLeastOnce!Commit(e)
    BY <2>3 DEF TimedCommit, NewRow, AtLeastOnce!Commit
  <2> QED
    BY <2>1, <2>2, <2>3 DEF TimedNext, timedVars, TimedWork, Next, Environment, AtLeastOnce!Next
<1> QED
  BY <1>1, <1>2, TimedStaysOK, PTL DEF TimedSpec, ImplementsDelivery, AtLeastOnce!Spec

-----------------------------------------------------------------------------
(* When the last try is made. *)

\* Nothing makes an earlier try late again, or a late one early.
LEMMA TriesStay ==
    ASSUME TypeOK, ClockOK, ClockOK', NEW e \in Events, created'[e] = created[e],
           tried'[e] >= tried[e], NEW k \in Nat, tried[e] > created[e] + 2^k
    PROVE  tried'[e] > created'[e] + 2^k
<1>1. PICK x \in Nat : x = 2^k
  BY PowerCounts
<1>2. tried[e] \in Nat /\ created[e] \in Int /\ tried'[e] \in Nat
  BY DEF ClockOK
<1> QED
  BY <1>1, <1>2

\* A worker that stays where it was.
LEMMA TryStays ==
    ASSUME RelayOK(Workers), ClockOK, ClockOK', NEW v \in Workers, TryOK(v),
           pc'[v] \in {"increment", "markFailed"} => pc[v] \in {"increment", "markFailed"},
           batch'[v] = batch[v],
           \A e \in Events : status[e] # "absent" =>
              created'[e] = created[e] /\ tried'[e] >= tried[e]
    PROVE  TryOK(v)'
<1> SUFFICES ASSUME pc'[v] \in {"increment", "markFailed"}, Current(v)'[2] > 0
             PROVE  tried'[Current(v)'[1]] > created'[Current(v)'[1]] + 2^Current(v)'[2]
  BY DEF TryOK
<1>1. PICK e \in Events, k \in Nat :
         e = Current(v)[1] /\ k = Current(v)[2] /\ status[e] # "absent"
  BY CurrentHolds DEF RowHolds
<1>2. Current(v)'[1] = e /\ Current(v)'[2] = k
  BY <1>1 DEF Current
<1>3. tried[e] > created[e] + 2^k
  BY <1>1, <1>2 DEF TryOK
<1>4. TypeOK
  BY DEF RelayOK
<1>5. tried'[e] > created'[e] + 2^k
  BY <1>1, <1>3, <1>4, TriesStay
<1> QED
  BY <1>2, <1>5

\* The worker that fails to send makes its try when the row was due.
LEMMA TryMade ==
    ASSUME RelayOK(Workers), ClockOK, NEW w \in Workers, TimedWork(w),
           SendFails(w) \/ SendAckLost(w)
    PROVE  TryOK(w)'
<1>1. PICK e \in Events, k \in Nat :
         /\ e = Current(w)[1] /\ k = Current(w)[2] /\ status[e] # "absent"
         /\ age[e] >= k
  BY CurrentHolds DEF SendFails, SendAckLost, RowHolds
<1>2. Current(w)' = Current(w)
  BY DEF SendFails, SendAckLost, Current
<1>3. pc[w] = "send" /\ pc'[w] = "increment"
  BY DEF SendFails, SendAckLost, Goto, RelayOK, TypeOK
<1>4. created' = created /\ tried' = [tried EXCEPT ![e] = now]
  BY <1>1, <1>3 DEF TimedWork
<1>5. tried'[e] = now /\ now \in Nat /\ created[e] \in Int /\ age[e] = Age(e, now)
  BY <1>1, <1>4 DEF ClockOK
<1>6. k > 0 => now - created[e] > 2^k
  BY <1>1, <1>5, AgeTells DEF ClockOK
<1>7. 2^k \in Nat
  BY PowerCounts
<1>8. k > 0 => tried'[e] > created'[e] + 2^k
  BY <1>4, <1>5, <1>6, <1>7
<1> QED
  BY <1>1, <1>2, <1>8 DEF TryOK

LEMMA WorkKeepsTries ==
    ASSUME MaxRetries > 1, TimedOK, TimedOK', TriesOK, NEW w \in Workers, TimedWork(w)
    PROVE  TriesOK'
<1>1. /\ RelayOK(Workers) /\ TypeOK /\ ClockOK /\ ClockOK'
      /\ Work(w) /\ created' = created
  BY DEF TimedOK, RelayOK, TimedWork
<1>2. \A e \in Events : tried'[e] >= tried[e]
  <2>1. CASE tried' = tried
    BY <1>1, <2>1 DEF ClockOK
  <2>2. CASE pc[w] = "send" /\ tried' = [tried EXCEPT ![Current(w)[1]] = now]
    <3>1. PICK c \in Events : c = Current(w)[1]
      BY <1>1, <2>2, CurrentHolds
    <3>2. \A e \in Events : tried'[e] = IF e = c THEN now ELSE tried[e]
      BY <1>1, <2>2, <3>1 DEF ClockOK
    <3> QED
      BY <1>1, <3>2 DEF ClockOK
  <2> QED
    BY <2>1, <2>2 DEF TimedWork
<1>3. ASSUME NEW v \in Workers \ {w} PROVE TryOK(v)'
  <2>1. pc'[v] = pc[v] /\ batch'[v] = batch[v]
    BY <1>1, <1>3 DEF Work, FetchPending, SendAcked, SendFails, SendAckLost, IncrementRetry,
       MarkFailed, MarkSent, NextEvent, Goto, TypeOK
  <2>2. TryOK(v)
    BY DEF TriesOK
  <2> QED
    BY <1>1, <1>2, <2>1, <2>2, TryStays
<1>4. TryOK(w)'
  <2>1. CASE SendFails(w) \/ SendAckLost(w)
    BY <1>1, <2>1, TryMade
  <2>2. CASE IncrementRetry(w) /\ UNCHANGED batch
    <3>1. TryOK(w) /\ pc[w] = "increment" /\ batch'[w] = batch[w]
      BY <2>2 DEF TriesOK, IncrementRetry
    <3> QED
      BY <1>1, <1>2, <3>1, TryStays
  <2>3. ASSUME NEW ids, NextEvent(w, ids) PROVE TryOK(w)'
    <3>1. pc'[w] \notin {"increment", "markFailed"}
      BY <1>1, <2>3 DEF NextEvent, Goto, TypeOK
    <3> QED
      BY <3>1 DEF TryOK
  <2>4. CASE FetchPending(w) \/ MarkSent(w)
    <3>1. pc'[w] \notin {"increment", "markFailed"}
      BY <1>1, <2>4 DEF FetchPending, MarkSent, Goto, TypeOK
    <3> QED
      BY <3>1 DEF TryOK
  <2> QED
    BY <1>1, <2>1, <2>2, <2>3, <2>4 DEF Work, SendAcked, IncrementRetry, MarkFailed
<1>5. ASSUME NEW e \in Events, status'[e] = "FAILED"
      PROVE  tried'[e] > created'[e] + 2^(MaxRetries - 1)
  <2>1. PICK m \in Nat : m = MaxRetries - 1 /\ m > 0
    BY BoundsAssumption
  <2>2. CASE status[e] = "FAILED"
    <3>1. tried[e] > created[e] + 2^m
      BY <2>1, <2>2 DEF TriesOK, LastTryOfRow
    <3>2. tried'[e] > created'[e] + 2^m
      BY <1>1, <1>2, <3>1, TriesStay
    <3> QED
      BY <2>1, <3>2
  <2>3. CASE status[e] # "FAILED"
    <3>1. pc[w] = "markFailed" /\ e = Current(w)[1]
      BY <1>1, <1>5, <2>3 DEF Work, FetchPending, SendAcked, SendFails, SendAckLost,
         IncrementRetry, MarkFailed, MarkSent, TypeOK, table
    <3>2. PICK k \in Nat : k = Current(w)[2] /\ k + 1 >= MaxRetries
      BY <1>1, <3>1, CurrentHolds DEF RelayOK, WorkerOK, LastAttempt
    <3>3. k > 0 /\ k >= m
      BY <2>1, <3>2, BoundsAssumption
    <3>4. tried[e] > created[e] + 2^k
      BY <3>1, <3>2, <3>3 DEF TriesOK, TryOK
    <3>5. tried'[e] > created'[e] + 2^k
      BY <1>1, <1>2, <3>4, TriesStay
    <3>6. 2^m <= 2^k /\ 2^m \in Nat /\ 2^k \in Nat
      BY <3>3, PowersGrow, PowerCounts
    <3>7. tried'[e] \in Nat /\ created'[e] \in Int
      BY <1>1 DEF ClockOK
    <3>8. tried'[e] > created'[e] + 2^m
      BY <3>5, <3>6, <3>7
    <3> QED
      BY <2>1, <3>8
  <2> QED
    BY <2>2, <2>3
<1> QED
  BY <1>3, <1>4, <1>5 DEF TriesOK, LastTryOfRow

LEMMA TimedKeepsTries ==
    ASSUME MaxRetries > 1, TimedOK, TimedOK', TriesOK, [TimedNext]_timedVars
    PROVE  TriesOK'
<1>1. RelayOK(Workers) /\ TypeOK /\ ClockOK /\ ClockOK'
  BY DEF TimedOK, RelayOK
<1>2. CASE UNCHANGED <<status, created, tried>> /\ (UNCHANGED worker \/ Crash)
  <2>1. LastTryOfRow'
    BY <1>2 DEF TriesOK, LastTryOfRow
  <2>2. ASSUME NEW v \in Workers PROVE TryOK(v)'
    <3>1. CASE UNCHANGED worker
      BY <1>2, <3>1 DEF TriesOK, TryOK, worker, Current
    <3>2. CASE Crash
      BY <3>2 DEF Crash, TryOK
    <3> QED
      BY <1>2, <3>1, <3>2
  <2> QED
    BY <2>1, <2>2 DEF TriesOK
<1>3. ASSUME NEW e \in Events, TimedCommit(e) PROVE TriesOK'
  <2>1. /\ UNCHANGED worker /\ status[e] = "absent" /\ tried' = tried
        /\ \A d \in Events : status'[d] = IF d = e THEN "PENDING" ELSE status[d]
        /\ \A d \in Events \ {e} : created'[d] = created[d]
    BY <1>1, <1>3 DEF TimedCommit, NewRow, ClockOK, TypeOK
  <2>2. LastTryOfRow'
    BY <2>1 DEF TriesOK, LastTryOfRow
  <2>3. \A d \in Events : status[d] # "absent" => created'[d] = created[d] /\ tried'[d] >= tried[d]
    BY <1>1, <2>1 DEF ClockOK
  <2>4. ASSUME NEW v \in Workers PROVE TryOK(v)'
    <3>1. TryOK(v) /\ pc'[v] = pc[v] /\ batch'[v] = batch[v]
      BY <2>1 DEF TriesOK, worker
    <3> QED
      BY <1>1, <2>3, <3>1, TryStays
  <2> QED
    BY <2>2, <2>4 DEF TriesOK
<1> QED
  BY <1>2, <1>3, WorkKeepsTries
  DEF TimedNext, timedVars, vars, clock, Tick, KafkaFails, KafkaRecovers, Crash, table, worker

\* The attempt after which pollAndPublish gives an event up was made more than
\* 2^(MaxRetries - 1) seconds after its commit, less the largest lag of the
\* application's clock (InsertEvent binds time.Now(), FetchPending reads NOW()),
\* whatever other workers counted on its row meanwhile and whatever the skew of the
\* other events.
THEOREM LastTryStaysLate ==
    ASSUME MaxRetries > 1
    PROVE  TimedSpec => []LastTryIsLate
<1>1. TimedOK /\ TimedOK' /\ TriesOK /\ [TimedNext]_timedVars => TriesOK'
  BY TimedKeepsTries
<1>2. TimedInit => TriesOK
  BY DEF TimedInit, Init, TriesOK, LastTryOfRow, TryOK
<1>3. TimedOK /\ TriesOK => LastTryIsLate
  <2> SUFFICES ASSUME TimedOK, TriesOK, NEW e \in Events, status[e] = "FAILED"
               PROVE  tried[e] + MaxLag > committed[e] + 2^(MaxRetries - 1)
    BY DEF LastTryIsLate
  <2>1. PICK m \in Nat : m = MaxRetries - 1
    BY BoundsAssumption
  <2>2. 2^m \in Nat
    BY PowerCounts
  <2>3. tried[e] > created[e] + 2^m
    BY <2>1 DEF TriesOK, LastTryOfRow
  <2>4. /\ tried[e] \in Nat /\ created[e] \in Int /\ committed[e] \in Nat
        /\ committed[e] - MaxLag <= created[e]
    BY DEF TimedOK, ClockOK
  <2>5. tried[e] + MaxLag > committed[e] + 2^m
    BY <2>2, <2>3, <2>4, SkewsAssumption
  <2> QED
    BY <2>1, <2>5
<1> QED
  BY <1>1, <1>2, <1>3, TimedStaysOK, PTL DEF TimedSpec
=============================================================================
