---------------------------- MODULE RelayBackoff ----------------------------
(***************************************************************************)
(* The relay with its two clocks: created_at is the application's          *)
(* time.Now(), and FetchPending compares it with the database's NOW(),     *)
(* created_at < NOW() - INTERVAL POW(2, retry_count) SECOND.  Nothing      *)
(* keeps the two together, so the application's clock is behind or ahead   *)
(* by a number of seconds that differs from event to event.  Polls may be  *)
(* late and calls may take any time.                                       *)
(***************************************************************************)
EXTENDS OutboxRelay

CONSTANTS
    Horizon,    \* bound on the database's clock, in seconds
    Skews,      \* created_at less NOW() when a row is committed: clock skew, time zones
                \* and the time the transaction takes between the two
    MaxLag      \* how far created_at is behind NOW() at most

ASSUME HorizonAssumption == Horizon \in Nat
ASSUME SkewsAssumption ==
    Skews \subseteq Int /\ MaxLag \in Nat /\ \A skew \in Skews : -MaxLag <= skew

VARIABLES
    now,         \* the database's NOW()
    created,     \* event -> the created_at column
    committed,   \* event -> NOW() when its row was committed
    tried        \* event -> NOW() when its last send failed

clock == <<now, created, committed, tried>>
timedVars == <<vars, clock>>

\* The largest k with created_at < NOW() - 2^k, in what OutboxRelay calls the age.
Doublings(createdAt, t) ==
    LET passed == {k \in 0..t - createdAt : createdAt < t - 2^k}
    IN  IF passed = {} THEN 0 ELSE CHOOSE k \in passed : \A l \in passed : l <= k

Age(e, t) == Doublings(created[e], t)

TimedInit ==
    /\ Init
    /\ now = 0
    /\ created = [e \in Events |-> 0]
    /\ committed = [e \in Events |-> 0]
    /\ tried = [e \in Events |-> 0]

Tick ==
    /\ now < Horizon
    /\ now' = now + 1
    /\ age' = [e \in Events |-> IF status[e] = "absent" THEN 0 ELSE Age(e, now')]
    /\ UNCHANGED <<status, retries, topic, kafkaUp, worker, faults, created, committed, tried>>

\* InsertEvent binds time.Now(): the application's clock, whatever it shows.
TimedCommit(e) ==
    /\ NewRow(e)
    /\ \E skew \in Skews : created' = [created EXCEPT ![e] = now + skew]
    /\ committed' = [committed EXCEPT ![e] = now]
    /\ UNCHANGED <<now, tried>>
    /\ age' = [age EXCEPT ![e] = Age(e, now)']

TimedWork(w) ==
    /\ Work(w)
    /\ tried' = IF pc[w] = "send" /\ pc'[w] = "increment"
                THEN [tried EXCEPT ![Current(w)[1]] = now] ELSE tried
    /\ UNCHANGED <<now, created, committed>>

TimedNext ==
    \/ Tick
    \/ \E e \in Events : TimedCommit(e)
    \/ \E w \in Workers : TimedWork(w)
    \/ (KafkaFails \/ KafkaRecovers \/ Crash) /\ UNCHANGED clock

TimedSpec == TimedInit /\ [][TimedNext]_timedVars
-----------------------------------------------------------------------------
\* How long an outage of Kafka may last before it costs an event: the attempt after
\* which an event is given up was made more than 2^(MaxRetries - 1) seconds after its
\* commit, less what the application's clock is behind the database's.  The backoff
\* counts from created_at, so every second of lag is taken from the time that the
\* relay keeps trying; with a lag of that size it may give up at once.
LastTryIsLate ==
    \A e \in Events :
        status[e] = "FAILED" => tried[e] + MaxLag > committed[e] + 2^(MaxRetries - 1)
=============================================================================
