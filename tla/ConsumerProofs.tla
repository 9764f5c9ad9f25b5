--------------------------- MODULE ConsumerProofs ---------------------------
(***************************************************************************)
(* Theorems about the consumer for any members, partitions, messages and   *)
(* number of faults: its offsets pass no message unseen and never go back, *)
(* an event is dead-lettered only after MaxRetries failures, and the       *)
(* handler's work for it is repeated only after a fault.                   *)
(***************************************************************************)
EXTENDS IdempotentConsumer, FiniteSetTheorems, TLAPS

Labels == {"off", "next", "handle", "insert", "commit", "dlq"}

\* What every step but a crash leaves or adds to: a message that was looked at
\* stays so, and failures are at least as many as any process remembers.
Remembers ==
    /\ log' = log
    /\ processed \subseteq processed' /\ processed' \subseteq Events
    /\ effects' \in [Events -> Nat]
    /\ failures' \in [Events -> Nat]
    /\ \A e \in Events : failures[e] <= failures'[e]
    /\ retryCounts' \in [Members -> [Events -> Nat]]
    /\ \A m \in Members, e \in Events : retryCounts'[m][e] <= failures'[e]
    /\ dlq' \subseteq Events
    /\ \A e \in dlq' : failures'[e] >= MaxRetries

\* SeenUpTo after a step, for an offset n of before it.
SeenAfter(p, n) ==
    /\ n <= Len(log[p])
    /\ \A i \in 1..n :
          log[p][i] = NoId \/ log[p][i] \in processed' \/ failures'[log[p][i]] > 0

\* A claim goes on to call l, at offset q, with offset k marked.
ClaimMoves(m, p, l, q, k) ==
    /\ Remembers
    /\ UNCHANGED <<committed, owner, session>>
    /\ pc' = [pc EXCEPT ![m][p] = l]
    /\ pos' = [pos EXCEPT ![m][p] = q]
    /\ marked' = [marked EXCEPT ![m][p] = k]
    /\ l \in Labels /\ q \in Nat /\ k \in Nat
    /\ marked[m][p] <= k
    /\ SeenAfter(p, k)
    /\ l # "off" => k < q /\ q <= Len(log[p]) + 1 /\ SeenAfter(p, q - 1)
    /\ l \notin {"off", "next"} => q <= Len(log[p]) /\ log[p][q] \in Events
    /\ l = "dlq" => failures'[log[p][q]] >= MaxRetries /\ failures'[log[p][q]] > 0

-----------------------------------------------------------------------------
LEMMA LargerOfTwo ==
    ASSUME NEW a \in Nat, NEW b \in Nat
    PROVE  Max({a, b}) \in Nat /\ Max({a, b}) \in {a, b} /\ Max({a, b}) >= a /\ Max({a, b}) >= b
<1>1. \E x \in {a, b} : \A y \in {a, b} : x >= y
  <2>1. CASE a >= b
    BY <2>1
  <2>2. CASE b >= a
    BY <2>2
  <2> QED
    BY <2>1, <2>2
<1>2. Max({a, b}) \in {a, b} /\ \A y \in {a, b} : Max({a, b}) >= y
  BY <1>1 DEF Max
<1> QED
  BY <1>2

LEMMA SeenStays ==
    ASSUME ConsumerOK, Remembers, NEW p \in Partitions, NEW n \in Int, SeenUpTo(p, n)
    PROVE  SeenAfter(p, n)
<1>1. /\ \A e : Tried(e) /\ e \in Events => e \in processed' \/ failures'[e] > 0
      /\ processed \subseteq processed'
  BY DEF Remembers, Tried, ConsumerOK, TypeOK
<1>2. log[p] \in Seq(Events \cup {NoId})
  BY DEF ConsumerOK, TypeOK
<1>3. ASSUME NEW i \in 1..n
      PROVE  log[p][i] = NoId \/ log[p][i] \in processed' \/ failures'[log[p][i]] > 0
  <2>1. i \in 1..Len(log[p])
    BY <1>2 DEF SeenUpTo
  <2>2. log[p][i] \in Events \cup {NoId}
    BY <1>2, <2>1
  <2> QED
    BY <1>1, <2>2 DEF SeenUpTo
<1> QED
  BY <1>3 DEF SeenUpTo, SeenAfter

\* Seeing one message more.
LEMMA SeenOneMore ==
    ASSUME ConsumerOK, Remembers, NEW p \in Partitions, NEW n \in Nat, n > 0,
           SeenUpTo(p, n - 1), n <= Len(log[p]),
           log[p][n] = NoId \/ log[p][n] \in processed' \/ failures'[log[p][n]] > 0
    PROVE  SeenAfter(p, n)
<1>1. SeenAfter(p, n - 1)
  BY SeenStays
<1>2. Len(log[p]) \in Nat
  BY DEF ConsumerOK, TypeOK
<1> QED
  BY <1>1, <1>2 DEF SeenAfter

LEMMA ClaimMovesOK ==
    ASSUME ConsumerOK, NEW m \in Members, NEW p \in Partitions,
           NEW l, NEW q, NEW k, ClaimMoves(m, p, l, q, k)
    PROVE  ConsumerOK'
<1> USE DEF ClaimMoves
<1>1. TypeOK /\ Remembers
  BY DEF ConsumerOK
<1>2. /\ pc'[m][p] = l /\ pos'[m][p] = q /\ marked'[m][p] = k
      /\ \A n \in Members, r \in Partitions : <<n, r>> # <<m, p>> =>
            pc'[n][r] = pc[n][r] /\ pos'[n][r] = pos[n][r] /\ marked'[n][r] = marked[n][r]
  BY <1>1 DEF TypeOK
<1>3. TypeOK'
  <2>1. /\ pc' \in [Members -> [Partitions -> Labels]]
        /\ pos' \in [Members -> [Partitions -> Nat]]
        /\ marked' \in [Members -> [Partitions -> Nat]]
    BY <1>1 DEF TypeOK, Labels
  <2>2. ASSUME NEW n \in Members, NEW r \in Partitions
        PROVE  /\ pc'[n][r] # "off" => marked'[n][r] < pos'[n][r] /\ pos'[n][r] <= Len(log[r]) + 1
               /\ pc'[n][r] \notin {"off", "next"} => log[r][pos'[n][r]] \in Events
    <3>1. CASE <<n, r>> = <<m, p>>
      BY <1>1, <1>2, <3>1 DEF TypeOK
    <3>2. CASE <<n, r>> # <<m, p>>
      <4>1. pc'[n][r] = pc[n][r] /\ pos'[n][r] = pos[n][r] /\ marked'[n][r] = marked[n][r]
        BY <1>2, <3>2
      <4> QED
        BY <1>1, <4>1 DEF TypeOK, Current
    <3> QED
      BY <3>1, <3>2
  <2> QED
    BY <1>1, <2>1, <2>2 DEF TypeOK, Remembers, Labels, Current
<1>4. NoMessageIsPassedUnseen'
  <2>1. ASSUME NEW r \in Partitions PROVE SeenAfter(r, committed[r])
    <3>1. committed[r] \in Int /\ SeenUpTo(r, committed[r])
      BY <1>1 DEF NoMessageIsPassedUnseen, ConsumerOK, TypeOK
    <3> QED
      BY <1>1, <3>1, SeenStays
  <2> QED
    BY <1>1, <2>1 DEF NoMessageIsPassedUnseen, SeenUpTo, SeenAfter, Remembers, Tried
<1>5. DeadLettersFailedOften'
  BY <1>1 DEF DeadLettersFailedOften, Remembers
<1>6. \A n \in Members, e \in Events : retryCounts'[n][e] <= failures'[e]
  BY <1>1 DEF Remembers
<1>7. ASSUME NEW n \in Members, NEW r \in Partitions, <<n, r>> # <<m, p>>
      PROVE  ClaimOK(n, r)'
  <2>1. ClaimOK(n, r)
    BY DEF ConsumerOK
  <2>2. pc'[n][r] = pc[n][r] /\ pos'[n][r] = pos[n][r] /\ marked'[n][r] = marked[n][r]
    BY <1>2, <1>7
  <2>3. SeenAfter(r, marked[n][r]) /\ (pc[n][r] # "off" => SeenAfter(r, pos[n][r] - 1))
    <3>1. marked[n][r] \in Int /\ pos[n][r] - 1 \in Int
      BY <1>1 DEF TypeOK
    <3> QED
      BY <1>1, <2>1, <3>1, SeenStays DEF ClaimOK
  <2>4. pc[n][r] = "dlq" =>
            failures'[log[r][pos[n][r]]] >= MaxRetries
            /\ (log[r][pos[n][r]] \in processed' \/ failures'[log[r][pos[n][r]]] > 0)
    <3> SUFFICES ASSUME pc[n][r] = "dlq"
                 PROVE  /\ failures'[log[r][pos[n][r]]] >= MaxRetries
                        /\ \/ log[r][pos[n][r]] \in processed'
                           \/ failures'[log[r][pos[n][r]]] > 0
      OBVIOUS
    <3> DEFINE e == log[r][pos[n][r]]
    <3>1. e \in Events
      BY <1>1 DEF TypeOK, Current
    <3>2. failures[e] >= MaxRetries /\ (e \in processed \/ failures[e] > 0)
      BY <2>1 DEF ClaimOK, Tried, Current
    <3>3. failures[e] \in Nat /\ failures'[e] \in Nat /\ failures[e] <= failures'[e]
      BY <1>1, <3>1 DEF TypeOK, Remembers
    <3>4. processed \subseteq processed'
      BY <1>1 DEF Remembers
    <3> HIDE DEF e
    <3>5. failures'[e] >= MaxRetries /\ (e \in processed' \/ failures'[e] > 0)
      BY <3>2, <3>3, <3>4, MaxRetriesAssumption
    <3> QED
      BY <3>5 DEF e
  <2>5. SeenUpTo(r, marked[n][r])' /\ (pc'[n][r] # "off" => SeenUpTo(r, pos[n][r] - 1)')
    BY <1>1, <2>2, <2>3 DEF SeenUpTo, SeenAfter, Remembers, Tried
  <2> QED
    BY <1>1, <2>1, <2>2, <2>4, <2>5 DEF ClaimOK, Current, Remembers, Tried
<1>8. ClaimOK(m, p)'
  <2>1. ClaimOK(m, p)
    BY DEF ConsumerOK
  <2>2. SeenUpTo(p, marked[m][p])' /\ (pc'[m][p] # "off" => SeenUpTo(p, pos[m][p] - 1)')
    BY <1>1, <1>2 DEF SeenUpTo, SeenAfter, Remembers, Tried
  <2>3. pc'[m][p] = "dlq" => failures'[Current(m, p)'] >= MaxRetries /\ Tried(Current(m, p))'
    BY <1>1, <1>2 DEF Current, Remembers, Tried
  <2>4. pc'[m][p] \notin {"off", "next"} => pos'[m][p] <= Len(log'[p])
    BY <1>1, <1>2 DEF Remembers
  <2>5. owner'[p] = m => session'[m] # "none"
    BY <1>1, <1>2, <2>1 DEF ClaimOK, TypeOK
  <2> QED
    BY <2>2, <2>3, <2>4, <2>5 DEF ClaimOK
<1> QED
  BY <1>3, <1>4, <1>5, <1>6, <1>7, <1>8 DEF ConsumerOK
-----------------------------------------------------------------------------
(* How a message ends. *)

LEMMA AtEvent ==
    ASSUME ConsumerOK, NEW m \in Members, NEW p \in Partitions,
           AtMessage(m, p) \/ pc[m][p] \in {"handle", "insert", "commit", "dlq"}
    PROVE  /\ Current(m, p) \in Events /\ Current(m, p) = log[p][pos[m][p]]
           /\ pos[m][p] \in Nat /\ pos[m][p] > 0 /\ pos[m][p] <= Len(log[p])
           /\ marked[m][p] \in Nat /\ marked[m][p] < pos[m][p]
           /\ SeenUpTo(p, marked[m][p]) /\ SeenUpTo(p, pos[m][p] - 1)
<1>1. ClaimOK(m, p) /\ TypeOK
  BY DEF ConsumerOK
<1>2. pc[m][p] # "off"
  BY DEF AtMessage
<1>3. /\ pos[m][p] \in Nat /\ marked[m][p] \in Nat /\ marked[m][p] < pos[m][p]
      /\ log[p] \in Seq(Events \cup {NoId})
  BY <1>1, <1>2 DEF TypeOK
<1>4. pos[m][p] <= Len(log[p]) /\ SeenUpTo(p, marked[m][p]) /\ SeenUpTo(p, pos[m][p] - 1)
  BY <1>1, <1>2 DEF ClaimOK, AtMessage
<1>5. Current(m, p) \in Events
  <2>1. CASE AtMessage(m, p)
    <3>1. log[p][pos[m][p]] \in Events \cup {NoId}
      BY <1>3, <1>4
    <3> QED
      BY <2>1, <3>1 DEF AtMessage, Current
  <2>2. CASE pc[m][p] \in {"handle", "insert", "commit", "dlq"}
    BY <1>1, <2>2 DEF TypeOK
  <2> QED
    BY <2>1, <2>2
<1> QED
  BY <1>3, <1>4, <1>5 DEF Current

\* Marking a message that has been looked at.
LEMMA MarkingKeepsOK ==
    ASSUME ConsumerOK, Remembers, UNCHANGED <<committed, owner, session>>,
           NEW m \in Members, NEW p \in Partitions, MarkMessage(m, p), pc[m][p] # "off",
           pos[m][p] <= Len(log[p]), SeenUpTo(p, pos[m][p] - 1),
           \/ log[p][pos[m][p]] = NoId
           \/ log[p][pos[m][p]] \in processed'
           \/ failures'[log[p][pos[m][p]]] > 0
    PROVE  ConsumerOK'
<1>1. /\ pos[m][p] \in Nat /\ marked[m][p] \in Nat /\ marked[m][p] < pos[m][p]
      /\ Len(log[p]) \in Nat
  BY DEF ConsumerOK, TypeOK
<1>2. Max({marked[m][p], pos[m][p]}) = pos[m][p]
  BY <1>1, LargerOfTwo
<1>3. SeenAfter(p, pos[m][p])
  BY <1>1, SeenOneMore
<1>4. PICK k \in Nat : k = pos[m][p]
  BY <1>1
<1>5. k + 1 \in Nat /\ (k + 1) - 1 = k /\ k < k + 1 /\ k + 1 <= Len(log[p]) + 1
  BY SMTT(20), <1>1, <1>4
<1>6. /\ pc' = [pc EXCEPT ![m][p] = "next"]
      /\ pos' = [pos EXCEPT ![m][p] = k + 1]
      /\ marked' = [marked EXCEPT ![m][p] = k]
  BY <1>2, <1>4 DEF MarkMessage, Goto
<1>7. ClaimMoves(m, p, "next", k + 1, k)
  BY <1>1, <1>3, <1>4, <1>5, <1>6 DEF ClaimMoves, Labels
<1> QED
  BY <1>7, ClaimMovesOK

\* What the calls of a claim leave alone.
Claims == UNCHANGED <<log, committed, owner, session>>

\* A transaction goes on to its next call, or a claim ends.
LEMMA GoingOnKeepsOK ==
    ASSUME ConsumerOK, Claims, UNCHANGED <<dlq, processed, retryCounts, pos, marked, failures>>,
           effects' \in [Events -> Nat],
           NEW m \in Members, NEW p \in Partitions,
           NEW l \in Labels \ {"next", "dlq"}, Goto(m, p, l),
           l = "off" \/ AtMessage(m, p) \/ pc[m][p] \in {"handle", "insert", "commit", "dlq"}
    PROVE  ConsumerOK'
<1>1. Remembers
  BY DEF ConsumerOK, TypeOK, Claims, Remembers, DeadLettersFailedOften
<1>2. TypeOK /\ ClaimOK(m, p)
  BY DEF ConsumerOK
<1>3. PICK q \in Nat, k \in Nat : q = pos[m][p] /\ k = marked[m][p]
  BY <1>2 DEF TypeOK
<1>4. UNCHANGED <<committed, owner, session>> /\ pc' = [pc EXCEPT ![m][p] = l]
  BY DEF Claims, Goto
<1>5. pos' = [pos EXCEPT ![m][p] = q] /\ marked' = [marked EXCEPT ![m][p] = k]
  BY <1>2, <1>3 DEF TypeOK
<1>6. SeenAfter(p, k)
  BY <1>1, <1>2, <1>3, SeenStays DEF ClaimOK
<1>7. l # "off" => /\ k < q /\ q <= Len(log[p]) /\ log[p][q] \in Events
                   /\ SeenAfter(p, q - 1)
  <2>1. l # "off" => /\ k < q /\ q <= Len(log[p]) /\ log[p][q] \in Events
                     /\ SeenUpTo(p, q - 1)
    BY <1>3, AtEvent
  <2>2. q - 1 \in Int
    BY <1>3
  <2> QED
    BY <1>1, <2>1, <2>2, SeenStays
<1>8. Len(log[p]) \in Nat
  BY <1>2 DEF TypeOK
<1>9. l # "off" => k < q /\ q <= Len(log[p]) + 1
  BY <1>3, <1>7, <1>8
<1>10. l \in Labels /\ l # "dlq" /\ marked[m][p] <= k
  BY <1>3
<1>11. ClaimMoves(m, p, l, q, k)
  BY <1>1, <1>4, <1>5, <1>6, <1>7, <1>9, <1>10 DEF ClaimMoves
<1> QED
  BY <1>11, ClaimMovesOK

\* processWithIdempotency has failed: the event has failed once more, and the
\* claim passes it or takes it to the DLQ.
LEMMA FailedKeepsOK ==
    ASSUME ConsumerOK, Claims, UNCHANGED dlq, effects' \in [Events -> Nat],
           processed \subseteq processed', processed' \subseteq Events,
           NEW m \in Members, NEW p \in Partitions, Failed(m, p),
           AtMessage(m, p) \/ pc[m][p] \in {"handle", "insert", "commit", "dlq"}
    PROVE  ConsumerOK'
<1> DEFINE e == Current(m, p)
<1>1. TypeOK /\ ClaimOK(m, p) /\ e \in Events /\ DeadLettersFailedOften
      /\ \A n \in Members, d \in Events : retryCounts[n][d] <= failures[d]
  BY AtEvent DEF ConsumerOK
<1>2. /\ retryCounts' = [retryCounts EXCEPT ![m][e] = @ + 1]
      /\ failures' = [failures EXCEPT ![e] = @ + 1]
  BY DEF Failed
<1>3. e = log[p][pos[m][p]]
  BY AtEvent
<1> HIDE DEF e
<1>4. /\ failures' \in [Events -> Nat] /\ failures'[e] > 0
      /\ \A d \in Events : failures[d] <= failures'[d]
      /\ failures'[e] = failures[e] + 1 /\ failures[e] \in Nat
  BY SMTT(20), <1>1, <1>2 DEF TypeOK
<1>5. /\ retryCounts' \in [Members -> [Events -> Nat]]
      /\ \A n \in Members, d \in Events : retryCounts'[n][d] <= failures'[d]
  <2>1. retryCounts' \in [Members -> [Events -> Nat]]
    BY <1>1, <1>2 DEF TypeOK
  <2>2. ASSUME NEW n \in Members, NEW d \in Events PROVE retryCounts'[n][d] <= failures'[d]
    <3>1. CASE n = m /\ d = e
      BY <1>1, <1>2, <3>1 DEF TypeOK
    <3>2. CASE ~(n = m /\ d = e)
      <4>1. retryCounts'[n][d] = retryCounts[n][d] /\ retryCounts[n][d] \in Nat
        BY <1>1, <1>2, <3>2 DEF TypeOK
      <4>2. retryCounts[n][d] <= failures[d] /\ failures[d] <= failures'[d]
            /\ failures[d] \in Nat /\ failures'[d] \in Nat
        BY <1>1, <1>4 DEF TypeOK
      <4> QED
        BY <4>1, <4>2
    <3> QED
      BY <3>1, <3>2
  <2> QED
    BY <2>1, <2>2
<1>6. \A d \in dlq' : failures'[d] >= MaxRetries
  <2>1. ASSUME NEW d \in dlq' PROVE failures'[d] >= MaxRetries
    <3>1. d \in Events /\ failures[d] \in Nat /\ failures'[d] \in Nat
          /\ failures[d] >= MaxRetries /\ failures[d] <= failures'[d]
      BY <1>1, <1>4 DEF TypeOK, DeadLettersFailedOften
    <3> QED
      BY <3>1, MaxRetriesAssumption
  <2> QED
    BY <2>1
<1>7. Remembers
  BY <1>1, <1>4, <1>5, <1>6 DEF Remembers, Claims, TypeOK
<1>8. PICK q \in Nat, k \in Nat : q = pos[m][p] /\ k = marked[m][p]
  BY <1>1 DEF TypeOK
<1>9. /\ k < q /\ q <= Len(log[p]) /\ Len(log[p]) \in Nat
      /\ SeenAfter(p, k) /\ SeenAfter(p, q - 1)
  <2>1. /\ k < q /\ q <= Len(log[p]) /\ Len(log[p]) \in Nat
        /\ SeenUpTo(p, k) /\ SeenUpTo(p, q - 1)
    BY <1>1, <1>8, AtEvent DEF TypeOK
  <2>2. k \in Int /\ q - 1 \in Int
    BY <1>8
  <2> QED
    BY <1>7, <2>1, <2>2, SeenStays
<1>10. UNCHANGED <<committed, owner, session>>
  BY DEF Claims
<1>11. CASE Goto(m, p, "dlq") /\ UNCHANGED <<pos, marked>> /\ retryCounts[m][e] + 1 >= MaxRetries
  <2>1. failures'[e] >= MaxRetries
    <3>1. retryCounts[m][e] \in Nat /\ retryCounts[m][e] <= failures[e]
      BY <1>1 DEF TypeOK
    <3> QED
      BY <1>4, <1>11, <3>1, MaxRetriesAssumption
  <2>2. pos' = [pos EXCEPT ![m][p] = q] /\ marked' = [marked EXCEPT ![m][p] = k]
    BY <1>1, <1>8, <1>11 DEF TypeOK
  <2>3. pc' = [pc EXCEPT ![m][p] = "dlq"]
    BY <1>11 DEF Goto
  <2>4. q <= Len(log[p]) + 1 /\ marked[m][p] <= k /\ log[p][q] = e
    BY <1>3, <1>8, <1>9
  <2>5. ClaimMoves(m, p, "dlq", q, k)
    BY <1>1, <1>4, <1>7, <1>8, <1>9, <1>10, <2>1, <2>2, <2>3, <2>4 DEF ClaimMoves, Labels
  <2> QED
    BY <2>5, ClaimMovesOK
<1>12. CASE NextMessage(m, p)
  <2>1. SeenAfter(p, q)
    <3>1. q > 0 /\ failures'[log[p][q]] > 0 /\ SeenUpTo(p, q - 1)
      BY <1>3, <1>4, <1>8, <1>9, AtEvent
    <3> QED
      BY <1>7, <1>8, <1>9, <3>1, SeenOneMore
  <2>2. /\ pc' = [pc EXCEPT ![m][p] = "next"]
        /\ pos' = [pos EXCEPT ![m][p] = q + 1]
        /\ marked' = [marked EXCEPT ![m][p] = k]
    BY <1>1, <1>8, <1>12 DEF NextMessage, Goto, TypeOK
  <2>3. /\ q + 1 \in Nat /\ (q + 1) - 1 = q /\ k < q + 1 /\ q + 1 <= Len(log[p]) + 1
        /\ marked[m][p] <= k
    BY SMTT(20), <1>8, <1>9
  <2>4. ClaimMoves(m, p, "next", q + 1, k)
    BY <1>7, <1>8, <1>9, <1>10, <2>1, <2>2, <2>3 DEF ClaimMoves, Labels
  <2> QED
    BY <2>4, ClaimMovesOK
<1> QED
  BY <1>11, <1>12 DEF Failed, e

\* It has succeeded, or the event is known: the row is in the table.
LEMMA SucceededKeepsOK ==
    ASSUME ConsumerOK, Claims, UNCHANGED <<dlq, effects>>,
           processed \subseteq processed', processed' \subseteq Events,
           NEW m \in Members, NEW p \in Partitions, Succeeded(m, p),
           AtMessage(m, p) \/ pc[m][p] \in {"handle", "insert", "commit", "dlq"},
           Current(m, p) \in processed'
    PROVE  ConsumerOK'
<1>1. Remembers
  <2>1. TypeOK /\ DeadLettersFailedOften
        /\ \A n \in Members, d \in Events : retryCounts[n][d] <= failures[d]
    BY DEF ConsumerOK
  <2>2. retryCounts' = [retryCounts EXCEPT ![m][Current(m, p)] = 0] /\ failures' = failures
    BY DEF Succeeded, ForgetRetries
  <2>3. retryCounts' \in [Members -> [Events -> Nat]]
        /\ \A n \in Members, d \in Events : retryCounts'[n][d] <= failures'[d]
    BY <2>1, <2>2 DEF TypeOK
  <2> QED
    BY <2>1, <2>2, <2>3 DEF Remembers, Claims, TypeOK, DeadLettersFailedOften
<1>2. MarkMessage(m, p) /\ pc[m][p] # "off" /\ UNCHANGED <<committed, owner, session>>
  BY DEF Succeeded, AtMessage, Claims
<1> QED
  BY <1>1, <1>2, AtEvent, MarkingKeepsOK
-----------------------------------------------------------------------------
(* The calls of a claim. *)

LEMMA SkipKeepsOK ==
    ASSUME ConsumerOK, NEW m \in Members, NEW p \in Partitions, SkipUnidentified(m, p)
    PROVE  ConsumerOK'
<1> USE DEF SkipUnidentified, kafka
<1>1. Remembers /\ MarkMessage(m, p) /\ UNCHANGED <<committed, owner, session>>
  BY DEF ConsumerOK, TypeOK, Remembers, DeadLettersFailedOften
<1>2. pc[m][p] # "off" /\ pos[m][p] <= Len(log[p]) /\ log[p][pos[m][p]] = NoId
  BY DEF Current
<1>3. SeenUpTo(p, pos[m][p] - 1)
  BY <1>2 DEF ConsumerOK, ClaimOK
<1> QED
  BY <1>1, <1>2, <1>3, MarkingKeepsOK

LEMMA PublishKeepsOK ==
    ASSUME ConsumerOK, NEW m \in Members, NEW p \in Partitions, PublishToDLQ(m, p)
    PROVE  ConsumerOK'
<1> DEFINE e == Current(m, p)
<1>1. /\ TypeOK /\ DeadLettersFailedOften /\ ClaimOK(m, p) /\ pc[m][p] = "dlq"
      /\ \A n \in Members, d \in Events : retryCounts[n][d] <= failures[d]
  BY DEF ConsumerOK, PublishToDLQ
<1>2. /\ e \in Events /\ e = log[p][pos[m][p]]
      /\ pos[m][p] <= Len(log[p]) /\ SeenUpTo(p, pos[m][p] - 1)
  BY <1>1, AtEvent
<1>3. failures[e] >= MaxRetries /\ Tried(e)
  BY <1>1 DEF ClaimOK
<1>4. /\ dlq' \subseteq dlq \cup {e}
      /\ MarkMessage(m, p)
      /\ retryCounts' = [retryCounts EXCEPT ![m][e] = 0]
      /\ UNCHANGED <<log, committed, owner, processed, effects, session, failures>>
  BY DEF PublishToDLQ, ForgetRetries, kafka
<1> HIDE DEF e
<1>5. retryCounts' \in [Members -> [Events -> Nat]]
      /\ \A n \in Members, d \in Events : retryCounts'[n][d] <= failures'[d]
  BY <1>1, <1>2, <1>4 DEF TypeOK
<1>6. dlq' \subseteq Events /\ \A d \in dlq' : failures'[d] >= MaxRetries
  BY <1>1, <1>2, <1>3, <1>4 DEF TypeOK, DeadLettersFailedOften
<1>7. Remembers
  BY <1>1, <1>4, <1>5, <1>6 DEF Remembers, TypeOK
<1>8. log[p][pos[m][p]] \in processed' \/ failures'[log[p][pos[m][p]]] > 0
  BY <1>2, <1>3, <1>4 DEF Tried
<1>9. pc[m][p] # "off" /\ UNCHANGED <<committed, owner, session>>
  BY <1>1, <1>4
<1> QED
  BY <1>2, <1>4, <1>7, <1>8, <1>9, MarkingKeepsOK

LEMMA WorkKeepsOK ==
    ASSUME ConsumerOK, NEW m \in Members, NEW p \in Partitions, Work(m, p)
    PROVE  ConsumerOK'
<1> USE DEF kafka, Claims
<1>0. TypeOK
  BY DEF ConsumerOK
<1>1. CASE Check(m, p)
  <2>1. CASE Current(m, p) \in processed /\ Succeeded(m, p)
    BY <1>0, <1>1, <2>1, SucceededKeepsOK DEF Check, TypeOK
  <2>2. CASE Goto(m, p, "handle") /\ UNCHANGED <<retryCounts, pos, marked, failures>>
    <3>1. "handle" \in Labels \ {"next", "dlq"}
      BY DEF Labels
    <3> QED
      BY <1>0, <1>1, <2>2, <3>1, GoingOnKeepsOK DEF Check, TypeOK
  <2> QED
    BY <1>1, <2>1, <2>2 DEF Check
<1>2. CASE CheckFails(m, p)
  BY <1>0, <1>2, FailedKeepsOK DEF CheckFails, TypeOK
<1>3. CASE Handle(m, p)
  <2>1. Current(m, p) \in Events
    BY <1>3, AtEvent DEF Handle
  <2>2. effects' \in [Events -> Nat]
    BY <1>0, <1>3, <2>1 DEF Handle, HandlerWorks, TypeOK
  <2>3. "insert" \in Labels \ {"next", "dlq"}
    BY DEF Labels
  <2> QED
    BY <1>3, <2>2, <2>3, GoingOnKeepsOK DEF Handle
<1>4. CASE HandlerRefuses(m, p) \/ HandlerFails(m, p)
  <2>1. Current(m, p) \in Events
    BY <1>4, AtEvent DEF HandlerRefuses, HandlerFails
  <2>2. effects' \in [Events -> Nat]
    BY <1>0, <1>4, <2>1 DEF HandlerRefuses, HandlerFails, HandlerWorks, TypeOK
  <2>3. Failed(m, p) /\ UNCHANGED <<log, committed, owner, session, dlq, processed>>
    BY <1>4 DEF HandlerRefuses, HandlerFails
  <2>4. pc[m][p] = "handle"
    BY <1>4 DEF HandlerRefuses, HandlerFails
  <2> QED
    BY <1>0, <2>1, <2>2, <2>3, <2>4, FailedKeepsOK DEF TypeOK
<1>5. CASE InsertProcessed(m, p)
  <2>1. CASE Failed(m, p)
    BY <1>0, <1>5, <2>1, FailedKeepsOK DEF InsertProcessed, TypeOK
  <2>2. CASE Goto(m, p, "commit") /\ UNCHANGED <<retryCounts, pos, marked, failures>>
    <3>1. "commit" \in Labels \ {"next", "dlq"}
      BY DEF Labels
    <3> QED
      BY <1>0, <1>5, <2>2, <3>1, GoingOnKeepsOK DEF InsertProcessed, TypeOK
  <2> QED
    BY <1>5, <2>1, <2>2 DEF InsertProcessed
<1>6. CASE InsertFails(m, p)
  BY <1>0, <1>6, FailedKeepsOK DEF InsertFails, TypeOK
<1>7. CASE Commit(m, p)
  <2>1. Current(m, p) \in Events
    BY <1>7, AtEvent DEF Commit
  <2> QED
    BY <1>0, <1>7, <2>1, SucceededKeepsOK DEF Commit, TypeOK
<1>8. CASE CommitFails(m, p)
  <2>1. Current(m, p) \in Events
    BY <1>8, AtEvent DEF CommitFails
  <2> QED
    BY <1>0, <1>8, <2>1, FailedKeepsOK DEF CommitFails, TypeOK
<1>9. CASE EndClaim(m, p)
  <2>1. "off" \in Labels \ {"next", "dlq"}
    BY DEF Labels
  <2> QED
    BY <1>0, <1>9, <2>1, GoingOnKeepsOK DEF EndClaim, TypeOK
<1> QED
  BY <1>1, <1>2, <1>3, <1>4, <1>5, <1>6, <1>7, <1>8, <1>9, SkipKeepsOK, PublishKeepsOK DEF Work
-----------------------------------------------------------------------------
(* The group. *)

\* What these steps leave alone, but for a crash that forgets retry counts.
Rest == UNCHANGED <<log, dlq, processed, effects, failures>>

\* Only offsets, owners and sessions change.
LEMMA GroupKeepsOK ==
    ASSUME ConsumerOK, Rest,
           committed' \in [Partitions -> Nat],
           owner' \in [Partitions -> Members \cup {Nobody}],
           session' \in [Members -> {"none", "live", "cancelled"}],
           retryCounts' \in [Members -> [Events -> Nat]],
           \A n \in Members, e \in Events : retryCounts'[n][e] <= retryCounts[n][e],
           \A r \in Partitions : SeenUpTo(r, committed'[r]),
           pc' \in [Members -> [Partitions -> Labels]], UNCHANGED <<pos, marked>>,
           \A n \in Members, r \in Partitions :
              /\ pc'[n][r] \in {pc[n][r], "off"}
              /\ owner'[r] = n => session'[n] # "none"
    PROVE  ConsumerOK'
<1> USE DEF Rest
<1>1. TypeOK
  BY DEF ConsumerOK
<1>2. TypeOK'
  BY <1>1 DEF TypeOK, Labels, Current
<1>3. NoMessageIsPassedUnseen'
  BY DEF NoMessageIsPassedUnseen, SeenUpTo, Tried
<1>4. DeadLettersFailedOften'
  BY DEF ConsumerOK, DeadLettersFailedOften
<1>5. ASSUME NEW n \in Members, NEW e \in Events PROVE retryCounts'[n][e] <= failures'[e]
  <2>1. /\ retryCounts'[n][e] \in Nat /\ retryCounts[n][e] \in Nat /\ failures[e] \in Nat
        /\ retryCounts[n][e] <= failures[e] /\ retryCounts'[n][e] <= retryCounts[n][e]
    BY <1>1 DEF ConsumerOK, TypeOK
  <2> QED
    BY <2>1
<1>6. ASSUME NEW n \in Members, NEW r \in Partitions PROVE ClaimOK(n, r)'
  BY DEF ConsumerOK, ClaimOK, SeenUpTo, Tried, Current
<1> QED
  BY <1>2, <1>3, <1>4, <1>5, <1>6 DEF ConsumerOK

\* The marks of an owner are what it has looked at.
LEMMA OwnersMarks ==
    ASSUME ConsumerOK, NEW m \in Members, NEW p \in Partitions, owner[p] = m
    PROVE  /\ session[m] # "none"
           /\ SeenUpTo(p, marked[m][p])
  BY DEF ConsumerOK, ClaimOK

LEMMA FlushKeepsOK ==
    ASSUME ConsumerOK, NEW m \in Members, NEW p \in Partitions, FlushOffset(m, p)
    PROVE  ConsumerOK'
<1>1. TypeOK /\ owner[p] = m /\ committed' = [committed EXCEPT ![p] = marked[m][p]]
      /\ UNCHANGED <<log, owner, dlq, processed, effects, session, retryCounts, pc, pos,
                     marked, failures>>
  BY DEF ConsumerOK, FlushOffset, claim
<1>2. SeenUpTo(p, marked[m][p])
  BY <1>1, OwnersMarks
<1>3. \A r \in Partitions :
          SeenUpTo(r, committed'[r]) /\ committed'[r] \in Nat
  BY <1>1, <1>2 DEF ConsumerOK, NoMessageIsPassedUnseen, TypeOK
<1>4. ASSUME NEW n \in Members, NEW r \in Partitions, owner[r] = n
      PROVE  session[n] # "none"
  BY <1>1, <1>4, OwnersMarks DEF TypeOK
<1>5. \A n \in Members, e \in Events : retryCounts'[n][e] <= retryCounts[n][e]
  BY <1>1 DEF TypeOK
<1>6. committed' \in [Partitions -> Nat]
  BY <1>1 DEF TypeOK
<1> QED
  BY <1>1, <1>3, <1>4, <1>5, <1>6, GroupKeepsOK DEF Rest, TypeOK, Labels

LEMMA CancelKeepsOK ==
    ASSUME ConsumerOK, NEW m \in Members, CancelSession(m)
    PROVE  ConsumerOK'
<1>1. TypeOK /\ session' = [session EXCEPT ![m] = "cancelled"]
      /\ UNCHANGED <<log, committed, owner, dlq, processed, effects, retryCounts, pc, pos,
                     marked, failures>>
  BY DEF ConsumerOK, CancelSession, kafka, claim
<1>2. ASSUME NEW n \in Members, NEW r \in Partitions, owner[r] = n
      PROVE  session'[n] # "none"
  BY <1>1, <1>2, OwnersMarks DEF TypeOK
<1>3. \A n \in Members, e \in Events : retryCounts'[n][e] <= retryCounts[n][e]
  BY <1>1 DEF TypeOK
<1>4. \A r \in Partitions : SeenUpTo(r, committed'[r])
  BY <1>1 DEF ConsumerOK, NoMessageIsPassedUnseen
<1> QED
  BY <1>1, <1>2, <1>3, <1>4, GroupKeepsOK DEF Rest, TypeOK, Labels

LEMMA EvictKeepsOK ==
    ASSUME ConsumerOK, NEW m \in Members, Evict(m)
    PROVE  ConsumerOK'
<1>1. TypeOK /\ owner' = [p \in Partitions |-> IF owner[p] = m THEN Nobody ELSE owner[p]]
      /\ UNCHANGED <<log, committed, dlq, processed, effects, session, retryCounts, pc, pos,
                     marked, failures>>
  BY DEF ConsumerOK, Evict, claim
<1>2. ASSUME NEW n \in Members, NEW r \in Partitions, owner'[r] = n
      PROVE  session[n] # "none"
  BY <1>1, <1>2, OwnersMarks, NobodyAssumption DEF TypeOK
<1>3. \A n \in Members, e \in Events : retryCounts'[n][e] <= retryCounts[n][e]
  BY <1>1 DEF TypeOK
<1>4. \A r \in Partitions : SeenUpTo(r, committed'[r])
  BY <1>1 DEF ConsumerOK, NoMessageIsPassedUnseen
<1>5. owner' \in [Partitions -> Members \cup {Nobody}]
  BY <1>1 DEF TypeOK
<1> QED
  BY <1>1, <1>2, <1>3, <1>4, <1>5, GroupKeepsOK DEF Rest, TypeOK, Labels

LEMMA EndSessionKeepsOK ==
    ASSUME ConsumerOK, NEW m \in Members, EndSession(m)
    PROVE  ConsumerOK'
<1>1. TypeOK /\ owner' = [p \in Partitions |-> IF owner[p] = m THEN Nobody ELSE owner[p]]
      /\ committed' = [p \in Partitions |-> IF owner[p] = m THEN marked[m][p] ELSE committed[p]]
      /\ session' = [session EXCEPT ![m] = "none"]
      /\ UNCHANGED <<log, dlq, processed, effects, retryCounts, pc, pos, marked, failures>>
  BY DEF ConsumerOK, EndSession, claim
<1>2. \A r \in Partitions :
          SeenUpTo(r, committed'[r]) /\ committed'[r] \in Nat
  BY <1>1, OwnersMarks DEF ConsumerOK, NoMessageIsPassedUnseen, TypeOK
<1>3. ASSUME NEW n \in Members, NEW r \in Partitions, owner'[r] = n
      PROVE  session'[n] # "none"
  <2>1. n # m /\ owner[r] = n
    BY <1>1, <1>3, NobodyAssumption DEF TypeOK
  <2> QED
    BY <1>1, <2>1, OwnersMarks DEF TypeOK
<1>4. \A n \in Members, e \in Events : retryCounts'[n][e] <= retryCounts[n][e]
  BY <1>1 DEF TypeOK
<1>5. /\ owner' \in [Partitions -> Members \cup {Nobody}]
      /\ committed' \in [Partitions -> Nat]
      /\ session' \in [Members -> {"none", "live", "cancelled"}]
  BY <1>1 DEF TypeOK
<1> QED
  BY <1>1, <1>2, <1>3, <1>4, <1>5, GroupKeepsOK DEF Rest, TypeOK, Labels

LEMMA CrashKeepsOK ==
    ASSUME ConsumerOK, NEW m \in Members, Crash(m)
    PROVE  ConsumerOK'
<1>1. TypeOK /\ owner' = [p \in Partitions |-> IF owner[p] = m THEN Nobody ELSE owner[p]]
      /\ session' = [session EXCEPT ![m] = "none"]
      /\ pc' = [pc EXCEPT ![m] = [p \in Partitions |-> "off"]]
      /\ retryCounts' = [retryCounts EXCEPT ![m] = [e \in Events |-> 0]]
      /\ UNCHANGED <<log, committed, dlq, processed, effects, pos, marked, failures>>
  BY DEF ConsumerOK, Crash
<1>2. ASSUME NEW n \in Members, NEW r \in Partitions, owner'[r] = n
      PROVE  session'[n] # "none"
  <2>1. n # m /\ owner[r] = n
    BY <1>1, <1>2, NobodyAssumption DEF TypeOK
  <2> QED
    BY <1>1, <2>1, OwnersMarks DEF TypeOK
<1>3. retryCounts' \in [Members -> [Events -> Nat]]
      /\ \A n \in Members, e \in Events : retryCounts'[n][e] <= retryCounts[n][e]
  BY <1>1 DEF TypeOK
<1>4. \A r \in Partitions : SeenUpTo(r, committed'[r])
  BY <1>1 DEF ConsumerOK, NoMessageIsPassedUnseen
<1>5. /\ owner' \in [Partitions -> Members \cup {Nobody}]
      /\ session' \in [Members -> {"none", "live", "cancelled"}]
  BY <1>1 DEF TypeOK
<1>6. pc' \in [Members -> [Partitions -> Labels]]
      /\ \A n \in Members, r \in Partitions : pc'[n][r] \in {pc[n][r], "off"}
  BY <1>1 DEF TypeOK, Labels
<1> QED
  BY <1>1, <1>2, <1>3, <1>4, <1>5, <1>6, GroupKeepsOK DEF Rest, TypeOK

\* A new session starts behind everything that was committed.
LEMMA StartKeepsOK ==
    ASSUME ConsumerOK, NEW m \in Members, StartSession(m)
    PROVE  ConsumerOK'
<1>1. PICK given \in SUBSET Free \ {{}} :
          /\ owner' = [p \in Partitions |-> IF p \in given THEN m ELSE owner[p]]
          /\ pc' = [pc EXCEPT ![m] = [p \in Partitions |-> IF p \in given THEN "next" ELSE "off"]]
          /\ pos' = [pos EXCEPT ![m] = [p \in Partitions |-> IF p \in given THEN committed[p] + 1 ELSE 0]]
          /\ marked' = [marked EXCEPT ![m] = [p \in Partitions |-> IF p \in given THEN committed[p] ELSE 0]]
  BY DEF StartSession
<1>2. /\ TypeOK /\ session[m] = "none"
      /\ session' = [session EXCEPT ![m] = "live"]
      /\ UNCHANGED <<log, committed, dlq, processed, effects, retryCounts, failures>>
  BY DEF ConsumerOK, StartSession
<1>3. ASSUME NEW p \in Partitions
      PROVE  /\ pc'[m][p] = IF p \in given THEN "next" ELSE "off"
             /\ pos'[m][p] = IF p \in given THEN committed[p] + 1 ELSE 0
             /\ marked'[m][p] = IF p \in given THEN committed[p] ELSE 0
             /\ \A n \in Members \ {m} : /\ pc'[n][p] = pc[n][p] /\ pos'[n][p] = pos[n][p]
                                         /\ marked'[n][p] = marked[n][p]
  BY <1>1, <1>2 DEF TypeOK
<1>4. ASSUME NEW p \in Partitions
      PROVE  /\ committed[p] \in Nat /\ Len(log[p]) \in Nat /\ committed[p] <= Len(log[p])
             /\ SeenUpTo(p, committed[p]) /\ SeenUpTo(p, 0)
  BY <1>2 DEF ConsumerOK, TypeOK, NoMessageIsPassedUnseen, SeenUpTo
<1>5. TypeOK'
  <2>1. /\ owner' \in [Partitions -> Members \cup {Nobody}]
        /\ session' \in [Members -> {"none", "live", "cancelled"}]
        /\ pc' \in [Members -> [Partitions -> Labels]]
        /\ pos' \in [Members -> [Partitions -> Nat]]
        /\ marked' \in [Members -> [Partitions -> Nat]]
    BY <1>1, <1>2 DEF TypeOK, Labels
  <2>2. ASSUME NEW n \in Members, NEW p \in Partitions
        PROVE  /\ pc'[n][p] # "off" => marked'[n][p] < pos'[n][p] /\ pos'[n][p] <= Len(log[p]) + 1
               /\ pc'[n][p] \notin {"off", "next"} => log[p][pos'[n][p]] \in Events
    <3>1. CASE n = m
      BY <1>3, <1>4, <3>1
    <3>2. CASE n # m
      BY <1>2, <1>3, <3>2 DEF TypeOK, Current
    <3> QED
      BY <3>1, <3>2
  <2> QED
    BY <1>2, <2>1, <2>2 DEF TypeOK, Labels, Current
<1>6. NoMessageIsPassedUnseen' /\ DeadLettersFailedOften'
  BY <1>2 DEF ConsumerOK, NoMessageIsPassedUnseen, DeadLettersFailedOften, SeenUpTo, Tried
<1>7. \A n \in Members, e \in Events : retryCounts'[n][e] <= failures'[e]
  BY <1>2 DEF ConsumerOK
<1>8. ASSUME NEW p \in Partitions PROVE ClaimOK(m, p)'
  <2>1. owner[p] # m
    BY <1>2, OwnersMarks
  <2>2. owner'[p] = m => p \in given
    BY <1>1, <2>1
  <2>3. SeenUpTo(p, marked[m][p])' /\ (pc'[m][p] # "off" => SeenUpTo(p, pos[m][p] - 1)')
    <3>1. p \in given => pos'[m][p] - 1 = committed[p]
      BY <1>3, <1>4
    <3> QED
      BY <1>2, <1>3, <1>4, <3>1 DEF SeenUpTo, Tried
  <2>4. session'[m] # "none"
    BY <1>2 DEF TypeOK
  <2> QED
    BY <1>2, <1>3, <1>4, <2>2, <2>3, <2>4 DEF ClaimOK
<1>9. ASSUME NEW n \in Members \ {m}, NEW p \in Partitions PROVE ClaimOK(n, p)'
  <2>1. ClaimOK(n, p) /\ session'[n] = session[n]
    BY <1>2 DEF ConsumerOK, TypeOK
  <2>2. owner'[p] = n => owner[p] = n
    BY <1>1
  <2> QED
    BY <1>2, <1>3, <2>1, <2>2 DEF ClaimOK, SeenUpTo, Tried, Current
<1> QED
  BY <1>5, <1>6, <1>7, <1>8, <1>9 DEF ConsumerOK

-----------------------------------------------------------------------------
(* The theorems. *)

LEMMA StepKeepsOK ==
    ASSUME ConsumerOK, [Next]_vars
    PROVE  ConsumerOK'
<1>1. CASE UNCHANGED vars \/ Drained
  <2>1. UNCHANGED vars
    BY <1>1 DEF Drained
  <2> QED
    BY <2>1 DEF vars, ConsumerOK, TypeOK, NoMessageIsPassedUnseen, DeadLettersFailedOften,
       ClaimOK, SeenUpTo, Tried, Current
<1>2. ASSUME NEW m \in Members, NEW p \in Partitions, Work(m, p)
      PROVE  ConsumerOK'
  BY <1>2, WorkKeepsOK
<1>3. ASSUME NEW m \in Members, StartSession(m) \/ CancelSession(m) \/ Evict(m) \/ Crash(m)
      PROVE  ConsumerOK'
  BY <1>3, StartKeepsOK, CancelKeepsOK, EvictKeepsOK, CrashKeepsOK
<1> QED
  BY <1>1, <1>2, <1>3, FlushKeepsOK, EndSessionKeepsOK DEF Next, Member

LEMMA StartsOK == Init => ConsumerOK
<1> SUFFICES ASSUME Init PROVE ConsumerOK
  OBVIOUS
<1> USE DEF Init, None
<1>1. TypeOK
  BY MessagesAssumption DEF TypeOK
<1>2. ASSUME NEW p \in Partitions PROVE SeenUpTo(p, 0)
  <2>1. log[p] \in Seq(Events \cup {NoId})
    BY MessagesAssumption
  <2> QED
    BY <2>1 DEF SeenUpTo
<1>3. NoMessageIsPassedUnseen /\ DeadLettersFailedOften
  BY <1>2 DEF NoMessageIsPassedUnseen, DeadLettersFailedOften
<1>4. ASSUME NEW m \in Members, NEW p \in Partitions PROVE ClaimOK(m, p)
  BY <1>2, NobodyAssumption DEF ClaimOK
<1> QED
  BY <1>1, <1>3, <1>4 DEF ConsumerOK

LEMMA ConsumerStaysOK == Spec => []ConsumerOK
<1>1. ConsumerOK /\ [Next]_vars => ConsumerOK'
  BY StepKeepsOK
<1> QED
  BY <1>1, StartsOK, PTL DEF Spec

\* Type correctness, from the same invariant: no claim is past the end of its log, and
\* one inside processWithIdempotency is at an event (kafka_consumer.go).
THEOREM ConsumerTypeCorrect == Spec => []TypeOK
<1>1. ConsumerOK => TypeOK
  BY DEF ConsumerOK
<1> QED
  BY <1>1, ConsumerStaysOK, PTL

\* The group's offset passes no message that nobody has looked at, for any number
\* of processes, partitions and faults (kafka_consumer.go, ConsumeClaim).
THEOREM NothingIsPassedUnseen == Spec => []NoMessageIsPassedUnseen
<1>1. ConsumerOK => NoMessageIsPassedUnseen
  BY DEF ConsumerOK
<1> QED
  BY <1>1, ConsumerStaysOK, PTL

\* The retry counts of any processes together send an event to the DLQ only after
\* MaxRetries failures (kafka_consumer.go, ConsumeClaim and publishToDLQ).
THEOREM DeadLettersAreEarned == Spec => []DeadLettersFailedOften
<1>1. ConsumerOK => DeadLettersFailedOften
  BY DEF ConsumerOK
<1> QED
  BY <1>1, ConsumerStaysOK, PTL

-----------------------------------------------------------------------------
(* Every further effect of an event costs a fault. *)

\* All copies of e are in partition p.
Home(p, e) == \A q \in Partitions \ {p} : e \notin Range(log[q])

\* The claims that may call the handler with e, now or later: those in front of
\* the call, and while e is not in the table those with a live session.  One that
\* is past the call has to fail before it comes to e again.
MayHandle(p, e) ==
    {m \in Members :
        \/ pc[m][p] = "handle" /\ Current(m, p) = e
        \/ /\ session[m] = "live" /\ e \notin processed /\ pc[m][p] # "off"
           /\ ~(pc[m][p] \in {"insert", "commit"} /\ Current(m, p) = e)}

\* Another session may still come to p, and its claim to e.
Vacant(p) == owner[p] = Nobody \/ session[owner[p]] # "live"
Reserve(p, e) == IF e \notin processed /\ Vacant(p) THEN 1 ELSE 0

Used(p, e) == effects[e] + Cardinality(MayHandle(p, e)) + Reserve(p, e)

\* What a step adds to the calls that have been or may be made, it pays for.
Pays(p, e) == \A b \in Int : Used(p, e) <= b + faults => Used(p, e)' <= b + faults'

HandledOK ==
    /\ \A e \in processed : effects[e] >= 1
    /\ \A m \in Members, p \in Partitions :
          pc[m][p] \in {"insert", "commit"} => effects[Current(m, p)] >= 1

EffectsOK ==
    /\ faults \in Nat
    /\ HandledOK
    /\ \A e \in Events :
          /\ effects[e] > 0 => OnTopic(e)
          /\ \A p \in Partitions : Home(p, e) => Used(p, e) <= 1 + faults

LEMMA MembersCounted ==
    ASSUME NEW A \in SUBSET Members, NEW B \in SUBSET Members, NEW m
    PROVE  /\ Cardinality(A) \in Nat /\ Cardinality(B) \in Nat
           /\ B \subseteq A => Cardinality(B) <= Cardinality(A)
           /\ B \subseteq A \cup {m} => Cardinality(B) <= Cardinality(A) + 1
           /\ m \in A /\ B \subseteq A \ {m} => Cardinality(B) + 1 <= Cardinality(A)
<1>1. IsFiniteSet(A) /\ IsFiniteSet(B) /\ Cardinality(A) \in Nat /\ Cardinality(B) \in Nat
  BY MembersAssumption, FS_Subset, FS_CardinalityType
<1>2. B \subseteq A => Cardinality(B) <= Cardinality(A)
  BY <1>1, FS_Subset
<1>3. ASSUME B \subseteq A \cup {m} PROVE Cardinality(B) <= Cardinality(A) + 1
  <2>1. IsFiniteSet(A \cup {m}) /\ Cardinality(A \cup {m}) <= Cardinality(A) + 1
    <3>1. /\ IsFiniteSet(A \cup {m})
          /\ Cardinality(A \cup {m}) = IF m \in A THEN Cardinality(A) ELSE Cardinality(A) + 1
      BY <1>1, FS_AddElement
    <3>2. PICK n \in Nat : n = Cardinality(A)
      BY <1>1
    <3> QED
      BY <3>1, <3>2
  <2>2. Cardinality(B) <= Cardinality(A \cup {m}) /\ Cardinality(A \cup {m}) \in Nat
    BY <1>3, <2>1, FS_Subset, FS_CardinalityType
  <2> QED
    BY <1>1, <2>1, <2>2
<1>4. ASSUME m \in A, B \subseteq A \ {m} PROVE Cardinality(B) + 1 <= Cardinality(A)
  <2>1. IsFiniteSet(A \ {m}) /\ Cardinality(A \ {m}) = Cardinality(A) - 1
    BY <1>1, <1>4, FS_RemoveElement
  <2>2. Cardinality(B) <= Cardinality(A \ {m})
    BY <1>4, <2>1, FS_Subset
  <2> QED
    BY <1>1, <2>1, <2>2
<1> QED
  BY <1>1, <1>2, <1>3, <1>4

\* The ways in which a step pays: it costs a fault, it makes a call that was
\* reckoned with, or a session takes a vacant partition.
LEMMA StepPays ==
    ASSUME NEW p \in Partitions, NEW e \in Events, NEW m, TypeOK, TypeOK',
           faults \in Nat, faults' = faults \/ faults' = faults + 1,
           \/ /\ effects'[e] = effects[e]
              /\ MayHandle(p, e)' \subseteq MayHandle(p, e)
              /\ Reserve(p, e)' <= Reserve(p, e) \/ faults' = faults + 1
           \/ /\ effects'[e] = effects[e]
              /\ MayHandle(p, e)' \subseteq MayHandle(p, e) \cup {m}
              /\ Reserve(p, e)' <= Reserve(p, e)
              /\ faults' = faults + 1 \/ Reserve(p, e)' < Reserve(p, e)
           \/ /\ effects'[e] = effects[e] + 1
              /\ m \in MayHandle(p, e)
              /\ MayHandle(p, e)' \subseteq MayHandle(p, e) \ {m}
              /\ Reserve(p, e)' <= Reserve(p, e)
           \/ /\ effects'[e] = effects[e] + 1
              /\ MayHandle(p, e)' \subseteq MayHandle(p, e)
              /\ Reserve(p, e)' <= Reserve(p, e)
              /\ faults' = faults + 1
    PROVE  Pays(p, e)
<1>1. PICK A, B \in SUBSET Members : A = MayHandle(p, e) /\ B = MayHandle(p, e)'
  BY DEF MayHandle
<1>2. PICK a, b \in Nat :
         /\ a = Cardinality(A) /\ b = Cardinality(B)
         /\ B \subseteq A => b <= a
         /\ B \subseteq A \cup {m} => b <= a + 1
         /\ m \in A /\ B \subseteq A \ {m} => b + 1 <= a
  BY MembersCounted
<1>3. PICK x, y \in Nat : x = effects[e] /\ y = effects'[e]
  BY DEF TypeOK
<1>4. PICK r, s \in Nat : r = Reserve(p, e) /\ s = Reserve(p, e)' /\ s <= 1
  BY DEF Reserve
<1>5. PICK f, g \in Nat : f = faults /\ g = faults' /\ (g = f \/ g = f + 1)
  OBVIOUS
<1>6. \/ y = x /\ b <= a /\ (s <= r \/ g = f + 1)
      \/ y = x /\ b <= a + 1 /\ s <= r /\ (g = f + 1 \/ s < r)
      \/ y = x + 1 /\ b + 1 <= a /\ s <= r
      \/ y = x + 1 /\ b <= a /\ s <= r /\ g = f + 1
  BY <1>1, <1>2, <1>3, <1>4, <1>5
<1>7. Used(p, e) = x + a + r /\ Used(p, e)' = y + b + s
  BY <1>1, <1>2, <1>3, <1>4 DEF Used
<1>8. ASSUME NEW c \in Int, x + a + r <= c + f
      PROVE  y + b + s <= c + g
  <2>1. CASE y = x /\ b <= a /\ (s <= r \/ g = f + 1)
    BY <1>2, <1>3, <1>4, <1>5, <1>8, <2>1
  <2>2. CASE y = x /\ b <= a + 1 /\ s <= r /\ (g = f + 1 \/ s < r)
    BY <1>2, <1>3, <1>4, <1>5, <1>8, <2>2
  <2>3. CASE y = x + 1 /\ b + 1 <= a /\ s <= r
    BY <1>2, <1>3, <1>4, <1>5, <1>8, <2>3
  <2>4. CASE y = x + 1 /\ b <= a /\ s <= r /\ g = f + 1
    BY <1>2, <1>3, <1>4, <1>5, <1>8, <2>4
  <2> QED
    BY <1>6, <2>1, <2>2, <2>3, <2>4
<1> QED
  BY <1>5, <1>7, <1>8 DEF Pays

\* What a call of a claim does to the claim, which goes on to call l at offset i,
\* and to the effects.  One that comes back from behind the handler's call with a
\* live session has seen the event processed, or there was a fault; so it is when the
\* handler has done its work and fails.
CallDone(m, p, l, i) ==
    \/ /\ l \in {"next", "dlq"} /\ pc[m][p] # "off" /\ effects' = effects
       /\ faults' = faults /\ session[m] = "live" /\ pc[m][p] \in {"insert", "commit"} =>
             Current(m, p) \in processed'
    \/ /\ l \in {"next", "dlq"} /\ pc[m][p] = "handle" /\ processed' = processed
       /\ effects' = [effects EXCEPT ![Current(m, p)] = @ + 1]
       /\ faults' = faults + 1 \/ session[m] # "live"
    \/ l = "off" /\ effects' = effects
    \/ /\ l = "handle" /\ pc[m][p] = "next" /\ effects' = effects
       /\ session[m] = "live" /\ Current(m, p) \notin processed /\ i = pos[m][p]
    \/ /\ l = "insert" /\ pc[m][p] = "handle" /\ i = pos[m][p] /\ processed' = processed
       /\ effects' = [effects EXCEPT ![Current(m, p)] = @ + 1]
    \/ l = "commit" /\ pc[m][p] = "insert" /\ effects' = effects /\ i = pos[m][p]

CallMade(m, p, l, i) ==
    /\ UNCHANGED <<log, owner, session>>
    /\ faults' = faults \/ faults' = faults + 1
    /\ processed \subseteq processed'
    /\ \A e \in processed' \ processed : pc[m][p] = "commit" /\ e = Current(m, p)
    /\ pc' = [pc EXCEPT ![m][p] = l]
    /\ pos' = [pos EXCEPT ![m][p] = i]
    /\ CallDone(m, p, l, i)

LEMMA WorkMakesCall ==
    ASSUME ConsumerOK, faults \in Nat, NEW m \in Members, NEW p \in Partitions, Work(m, p)
    PROVE  \E l \in Labels, i \in Nat : CallMade(m, p, l, i)
<1> USE DEF kafka, Labels, Fault, NoFault, CallFails
<1>1. PICK i \in Nat : i = pos[m][p]
  BY DEF ConsumerOK, TypeOK
<1>2. UNCHANGED pos => pos' = [pos EXCEPT ![m][p] = i]
  BY <1>1 DEF ConsumerOK, TypeOK
<1>3. ASSUME Failed(m, p) \/ Succeeded(m, p) \/ MarkMessage(m, p)
      PROVE  \E l \in {"next", "dlq"}, j \in Nat :
                pc' = [pc EXCEPT ![m][p] = l] /\ pos' = [pos EXCEPT ![m][p] = j]
  <2>1. CASE Goto(m, p, "dlq") /\ UNCHANGED pos
    BY <1>1, <1>2, <2>1 DEF Goto
  <2>2. CASE Goto(m, p, "next") /\ pos' = [pos EXCEPT ![m][p] = @ + 1]
    <3>1. i + 1 \in Nat /\ pos' = [pos EXCEPT ![m][p] = i + 1]
      BY <1>1, <2>2 DEF ConsumerOK, TypeOK
    <3> QED
      BY <2>2, <3>1 DEF Goto
  <2> QED
    BY <1>3, <2>1, <2>2 DEF Failed, Succeeded, MarkMessage, NextMessage
<1>4. ASSUME Failed(m, p) \/ Succeeded(m, p) \/ MarkMessage(m, p),
             UNCHANGED <<log, owner, session, effects>>,
             faults' = faults \/ faults' = faults + 1, pc[m][p] # "off",
             processed \subseteq processed',
             \A e \in processed' \ processed : pc[m][p] = "commit" /\ e = Current(m, p),
             faults' = faults /\ session[m] = "live" /\ pc[m][p] \in {"insert", "commit"} =>
                Current(m, p) \in processed'
      PROVE  \E l \in Labels, j \in Nat : CallMade(m, p, l, j)
  <2>1. PICK l \in {"next", "dlq"}, j \in Nat :
           pc' = [pc EXCEPT ![m][p] = l] /\ pos' = [pos EXCEPT ![m][p] = j]
    BY <1>3, <1>4
  <2>2. CallMade(m, p, l, j)
    BY <1>4, <2>1 DEF CallMade, CallDone
  <2> QED
    BY <2>1, <2>2
<1>5. ASSUME NEW l \in Labels, Goto(m, p, l), UNCHANGED <<log, owner, session, pos, processed, faults>>,
             CallDone(m, p, l, i)
      PROVE  \E k \in Labels, j \in Nat : CallMade(m, p, k, j)
  <2>1. CallMade(m, p, l, i)
    BY <1>2, <1>5 DEF CallMade, Goto
  <2> QED
    BY <2>1
<1>6. CASE SkipUnidentified(m, p) \/ PublishToDLQ(m, p)
  BY <1>4, <1>6 DEF SkipUnidentified, PublishToDLQ
<1>7. CASE Check(m, p)
  <2>1. CASE Succeeded(m, p)
    BY <1>4, <1>7, <2>1 DEF Check, AtMessage
  <2>2. CASE Current(m, p) \notin processed /\ Goto(m, p, "handle") /\ UNCHANGED pos
    <3>1. CallDone(m, p, "handle", i)
      BY <1>1, <1>7, <2>2 DEF Check, AtMessage, CallDone
    <3> QED
      BY <1>5, <1>7, <2>2, <3>1 DEF Check
  <2> QED
    BY <1>7, <2>1, <2>2 DEF Check
<1>8. CASE CheckFails(m, p) \/ HandlerRefuses(m, p)
  <2>1. /\ Failed(m, p) /\ pc[m][p] \in {"next", "handle"}
        /\ UNCHANGED <<log, owner, session, effects, processed>>
        /\ faults' = faults \/ faults' = faults + 1
    BY <1>8 DEF CheckFails, HandlerRefuses, AtMessage
  <2> QED
    BY <1>4, <2>1
<1>9. CASE Handle(m, p)
  <2>1. CallDone(m, p, "insert", i)
    BY <1>1, <1>9 DEF Handle, HandlerWorks, CallDone
  <2> QED
    BY <1>5, <1>9, <2>1 DEF Handle
<1>10. CASE InsertProcessed(m, p)
  <2>1. CASE Current(m, p) \in processed /\ Failed(m, p)
    <3>1. /\ pc[m][p] = "insert" /\ faults' = faults
          /\ UNCHANGED <<log, owner, session, effects, processed>>
      BY <1>10 DEF InsertProcessed
    <3> QED
      BY <1>4, <2>1, <3>1
  <2>2. CASE Goto(m, p, "commit") /\ UNCHANGED pos
    <3>1. CallDone(m, p, "commit", i)
      BY <1>1, <1>10, <2>2 DEF InsertProcessed, CallDone
    <3> QED
      BY <1>5, <1>10, <2>2, <3>1 DEF InsertProcessed
  <2> QED
    BY <1>10, <2>1, <2>2 DEF InsertProcessed
<1>11. CASE InsertFails(m, p)
  <2>1. /\ Failed(m, p) /\ pc[m][p] = "insert"
        /\ UNCHANGED <<log, owner, session, effects, processed>>
        /\ \/ faults' = faults + 1 /\ faults' # faults
           \/ faults' = faults /\ session[m] # "live"
    BY <1>11 DEF InsertFails
  <2> QED
    BY <1>4, <2>1
<1>12. CASE Commit(m, p)
  BY <1>4, <1>12 DEF Commit
<1>13. CASE CommitFails(m, p)
  <2>1. /\ processed \subseteq processed'
        /\ \A e \in processed' \ processed : e = Current(m, p)
    BY <1>13 DEF CommitFails
  <2>2. /\ Failed(m, p) /\ pc[m][p] = "commit"
        /\ UNCHANGED <<log, owner, session, effects>>
        /\ \/ faults' = faults + 1 /\ faults' # faults
           \/ faults' = faults /\ session[m] # "live"
    BY <1>13 DEF CommitFails
  <2> QED
    BY <1>4, <2>1, <2>2
<1>14. CASE EndClaim(m, p)
  <2>1. CallDone(m, p, "off", i)
    BY <1>14 DEF EndClaim, CallDone
  <2> QED
    BY <1>5, <1>14, <2>1 DEF EndClaim
<1>15. CASE HandlerFails(m, p)
  <2>1. /\ Failed(m, p) /\ pc[m][p] = "handle"
        /\ UNCHANGED <<log, owner, session, processed>>
        /\ faults' = faults + 1 \/ (faults' = faults /\ session[m] # "live")
    BY <1>15 DEF HandlerFails
  <2>2. CASE UNCHANGED effects
    BY <1>4, <2>1, <2>2
  <2>3. CASE HandlerWorks(m, p)
    <3>1. PICK l \in {"next", "dlq"}, j \in Nat :
             pc' = [pc EXCEPT ![m][p] = l] /\ pos' = [pos EXCEPT ![m][p] = j]
      BY <1>3, <2>1
    <3>2. CallDone(m, p, l, j)
      BY <2>1, <2>3 DEF HandlerWorks, CallDone
    <3>3. CallMade(m, p, l, j)
      BY <2>1, <3>1, <3>2 DEF CallMade
    <3> QED
      BY <3>3
  <2> QED
    BY <1>15, <2>2, <2>3 DEF HandlerFails
<1> QED
  BY <1>6, <1>7, <1>8, <1>9, <1>10, <1>11, <1>12, <1>13, <1>14, <1>15 DEF Work

\* What a claim may do is nothing to the other claims.
LEMMA OtherClaims ==
    ASSUME TypeOK, NEW m \in Members, NEW p \in Partitions, NEW l, NEW i, CallMade(m, p, l, i)
    PROVE  \A n \in Members, q \in Partitions : <<n, q>> # <<m, p>> =>
              /\ pc'[n][q] = pc[n][q] /\ Current(n, q)' = Current(n, q)
              /\ \A e : n \in MayHandle(q, e)' => n \in MayHandle(q, e)
<1>1. ASSUME NEW n \in Members, NEW q \in Partitions, <<n, q>> # <<m, p>>
      PROVE  pc'[n][q] = pc[n][q] /\ pos'[n][q] = pos[n][q] /\ log' = log
  BY <1>1 DEF CallMade, TypeOK
<1> QED
  BY <1>1 DEF CallMade, MayHandle, Current

LEMMA WorkPays ==
    ASSUME ConsumerOK, TypeOK', faults \in Nat, HandledOK,
           NEW m \in Members, NEW q \in Partitions, Work(m, q)
    PROVE  /\ HandledOK'
           /\ \A e \in Events : effects'[e] > 0 => effects[e] > 0 \/ OnTopic(e)'
           /\ \A e \in Events, p \in Partitions : Home(p, e) => Pays(p, e)
<1>1. PICK l \in Labels, i \in Nat : CallMade(m, q, l, i)
  BY WorkMakesCall
<1>2. /\ TypeOK /\ UNCHANGED <<log, owner, session>>
      /\ pc'[m][q] = l /\ pos'[m][q] = i
      /\ pc[m][q] \in {"handle", "insert", "commit"} => Current(m, q) \in Events
      /\ processed \subseteq processed'
      /\ \A e \in processed' \ processed : pc[m][q] = "commit" /\ e = Current(m, q)
  <2>1. TypeOK
    BY DEF ConsumerOK
  <2>2. pc'[m][q] = l /\ pos'[m][q] = i
    BY <1>1, <2>1 DEF TypeOK, CallMade
  <2>3. pc[m][q] \in {"handle", "insert", "commit"} => Current(m, q) \in Events
    BY AtEvent
  <2> QED
    BY <1>1, <2>1, <2>2, <2>3 DEF CallMade
<1>3. \A e \in Events : effects[e] \in Nat
  BY <1>2 DEF TypeOK
<1>4. \/ effects' = effects
      \/ /\ pc[m][q] = "handle" /\ Current(m, q) \in Events
         /\ \/ l = "insert" /\ i = pos[m][q]
            \/ l \in {"next", "dlq"} /\ (faults' = faults + 1 \/ session[m] # "live")
         /\ processed' = processed
         /\ \A e \in Events :
               effects'[e] = IF e = Current(m, q) THEN effects[e] + 1 ELSE effects[e]
  <2>1. CASE /\ pc[m][q] = "handle" /\ processed' = processed
             /\ \/ l = "insert" /\ i = pos[m][q]
                \/ l \in {"next", "dlq"} /\ (faults' = faults + 1 \/ session[m] # "live")
             /\ effects' = [effects EXCEPT ![Current(m, q)] = @ + 1]
    <3>1. Current(m, q) \in Events /\ effects \in [Events -> Nat]
      BY <1>2, <2>1 DEF TypeOK
    <3>2. PICK c \in Events : c = Current(m, q)
      BY <3>1
    <3>3. \A e \in Events : effects'[e] = IF e = c THEN effects[e] + 1 ELSE effects[e]
      BY <2>1, <3>1, <3>2
    <3> QED
      BY <2>1, <3>2, <3>3
  <2> QED
    BY <1>1, <2>1 DEF CallMade, CallDone
<1>5. HandledOK'
  <2>1. \A e \in Events : effects'[e] \in Nat /\ effects'[e] >= effects[e]
    BY <1>3, <1>4
  <2>2. processed \subseteq Events /\ processed' \subseteq Events
    BY <1>2 DEF TypeOK
  <2>3. \A e \in processed' : effects'[e] >= 1
    BY <1>2, <1>3, <2>1, <2>2 DEF HandledOK
  <2>4. ASSUME NEW n \in Members, NEW p \in Partitions, pc'[n][p] \in {"insert", "commit"}
        PROVE  effects'[Current(n, p)'] >= 1
    <3>1. CASE <<n, p>> = <<m, q>>
      <4>1. /\ Current(n, p)' = Current(n, p) /\ Current(n, p) \in Events
            /\ \/ pc[n][p] = "insert"
               \/ effects'[Current(n, p)] = effects[Current(n, p)] + 1
        BY SMTT(20), <1>1, <1>2, <1>4, <2>4, <3>1 DEF CallMade, CallDone, Current, TypeOK
      <4> QED
        BY SMTT(20), <1>3, <2>1, <4>1 DEF HandledOK
    <3>2. CASE <<n, p>> # <<m, q>>
      <4>1. /\ pc[n][p] \in {"insert", "commit"} /\ Current(n, p)' = Current(n, p)
            /\ Current(n, p) \in Events
        <5>1. pc[n][p] \in {"insert", "commit"} /\ Current(n, p)' = Current(n, p)
          BY <1>1, <1>2, <2>4, <3>2, OtherClaims
        <5> QED
          BY <5>1, AtEvent
      <4> QED
        BY <1>3, <2>1, <4>1 DEF HandledOK
    <3> QED
      BY <3>1, <3>2
  <2> QED
    BY <2>3, <2>4 DEF HandledOK
<1>6. pc[m][q] = "handle" => Current(m, q) \in Range(log[q])
  <2>1. pc[m][q] = "handle" => Current(m, q) = log[q][pos[m][q]] /\ pos[m][q] \in 1..Len(log[q])
    BY <1>2, AtEvent DEF TypeOK
  <2>2. DOMAIN log[q] = 1..Len(log[q])
    BY <1>2 DEF TypeOK
  <2> QED
    BY <2>1, <2>2 DEF Range
<1>7. \A e \in Events : effects'[e] > 0 => effects[e] > 0 \/ OnTopic(e)'
  BY <1>2, <1>3, <1>4, <1>6 DEF OnTopic
<1>8. ASSUME NEW e \in Events, NEW p \in Partitions, Home(p, e)
      PROVE  Pays(p, e)
  <2>1. \A n \in Members : <<n, p>> # <<m, q>> =>
           (n \in MayHandle(p, e)' => n \in MayHandle(p, e))
    BY <1>1, <1>2, OtherClaims
  <2>2. Reserve(p, e)' <= Reserve(p, e)
    BY <1>2 DEF Reserve, Vacant
  <2>3. faults' = faults \/ faults' = faults + 1
    BY <1>1 DEF CallMade
  <2>4. MayHandle(p, e)' \subseteq Members
    BY DEF MayHandle
  <2>5. CASE p # q
    <3>1. effects'[e] = effects[e]
      BY <1>4, <1>6, <1>8, <2>5 DEF Home
    <3>2. MayHandle(p, e)' \subseteq MayHandle(p, e)
      BY <2>1, <2>4, <2>5
    <3> QED
      BY <1>2, <2>2, <2>3, <3>1, <3>2, StepPays
  <2>6. CASE p = q
    <3>1. CASE effects'[e] = effects[e] /\ (m \in MayHandle(p, e)' => m \in MayHandle(p, e))
      <4>1. MayHandle(p, e)' \subseteq MayHandle(p, e)
        BY <2>1, <2>4, <3>1
      <4> QED
        BY <1>2, <2>2, <2>3, <3>1, <4>1, StepPays
    <3>2. CASE effects'[e] = effects[e] /\ faults' = faults + 1
      <4>1. MayHandle(p, e)' \subseteq MayHandle(p, e) \cup {m}
        BY <2>1, <2>4
      <4> QED
        BY <1>2, <2>2, <2>3, <3>2, <4>1, StepPays
    <3>3. CASE effects'[e] = effects[e] + 1 /\ m \in MayHandle(p, e) /\ m \notin MayHandle(p, e)'
      <4>1. MayHandle(p, e)' \subseteq MayHandle(p, e) \ {m}
        BY <2>1, <2>4, <3>3
      <4> QED
        BY <1>2, <2>2, <2>3, <3>3, <4>1, StepPays
    <3>4. CASE effects'[e] = effects[e] + 1 /\ m \in MayHandle(p, e) /\ faults' = faults + 1
      <4>1. MayHandle(p, e)' \subseteq MayHandle(p, e)
        BY <2>1, <2>4, <3>4
      <4> QED
        BY <1>2, <2>2, <2>3, <3>4, <4>1, StepPays
    <3>5. \/ effects'[e] = effects[e] /\ (m \in MayHandle(p, e)' => m \in MayHandle(p, e))
          \/ effects'[e] = effects[e] /\ faults' = faults + 1
          \/ effects'[e] = effects[e] + 1 /\ m \in MayHandle(p, e) /\ m \notin MayHandle(p, e)'
          \/ effects'[e] = effects[e] + 1 /\ m \in MayHandle(p, e) /\ faults' = faults + 1
      <4>1. CASE l \in {"next", "dlq"}
        <5>1. CASE effects' = effects
          BY <1>1, <1>2, <2>6, <4>1, <5>1 DEF CallMade, CallDone, MayHandle
        <5>2. CASE effects' # effects
          <6>1. /\ pc[m][q] = "handle" /\ processed' = processed
                /\ faults' = faults + 1 \/ session[m] # "live"
                /\ effects'[e] = IF e = Current(m, q) THEN effects[e] + 1 ELSE effects[e]
            BY <1>4, <4>1, <5>2
          <6>2. CASE e = Current(m, q)
            BY <1>2, <2>6, <4>1, <6>1, <6>2 DEF MayHandle
          <6>3. CASE e # Current(m, q)
            BY <1>2, <2>6, <4>1, <6>1, <6>3 DEF MayHandle
          <6> QED
            BY <6>2, <6>3
        <5> QED
          BY <5>1, <5>2
      <4>2. CASE l = "off"
        BY <1>1, <1>2, <2>6, <4>2 DEF CallMade, CallDone, MayHandle
      <4>3. CASE l \in {"handle", "insert", "commit"}
        <5>1. Current(m, q)' = Current(m, q)
          BY <1>1, <1>2, <4>3 DEF CallMade, CallDone, Current
        <5>2. CASE l \in {"handle", "commit"}
          BY <1>1, <1>2, <2>6, <5>1, <5>2 DEF CallMade, CallDone, MayHandle
        <5>3. CASE l = "insert"
          <6>1. /\ pc[m][q] = "handle" /\ processed' = processed
                /\ effects'[e] = IF e = Current(m, q) THEN effects[e] + 1 ELSE effects[e]
            <7>1. pc[m][q] = "handle" /\ processed' = processed /\ effects' # effects
              <8>1. /\ pc[m][q] = "handle" /\ processed' = processed
                    /\ effects' = [effects EXCEPT ![Current(m, q)] = @ + 1]
                BY <1>1, <5>3 DEF CallMade, CallDone
              <8>2. PICK c \in Events : c = Current(m, q)
                BY <1>2, <8>1
              <8>3. effects'[c] = effects[c] + 1 /\ effects[c] \in Nat
                BY <1>2, <8>1, <8>2 DEF TypeOK
              <8>4. effects'[c] # effects[c]
                BY <8>3
              <8> QED
                BY <8>1, <8>4
            <7> QED
              BY <1>4, <7>1
          <6> QED
            BY <1>2, <2>6, <5>1, <5>3, <6>1 DEF MayHandle
        <5> QED
          BY <4>3, <5>2, <5>3
      <4> QED
        BY <4>1, <4>2, <4>3 DEF Labels
    <3> QED
      BY <3>1, <3>2, <3>3, <3>4, <3>5
  <2> QED
    BY <2>5, <2>6
<1> QED
  BY <1>5, <1>7, <1>8

\* What the group's steps have in common: they call no handler.
Quiet ==
    /\ UNCHANGED <<log, processed, effects>>
    /\ faults' = faults \/ faults' = faults + 1

\* A step that ends claims and sessions, and gives partitions up.
LEMMA LeavingPays ==
    ASSUME ConsumerOK, TypeOK', faults \in Nat, HandledOK, Quiet, UNCHANGED pos,
           \A n \in Members, r \in Partitions : pc'[n][r] \in {pc[n][r], "off"},
           \A n \in Members : session'[n] = "live" => session[n] = "live",
           \/ faults' = faults + 1
           \/ \A r \in Partitions : Vacant(r)' => Vacant(r)
    PROVE  HandledOK' /\ \A e \in Events, p \in Partitions : Pays(p, e)
<1>1. TypeOK /\ \A n \in Members, r \in Partitions : Current(n, r)' = Current(n, r)
  BY DEF ConsumerOK, Quiet, Current
<1>2. HandledOK'
  BY <1>1 DEF HandledOK, Quiet
<1>3. ASSUME NEW e \in Events, NEW p \in Partitions PROVE Pays(p, e)
  <2>1. MayHandle(p, e)' \subseteq MayHandle(p, e)
    BY <1>1 DEF MayHandle, Quiet
  <2>2. Reserve(p, e)' <= Reserve(p, e) \/ faults' = faults + 1
    BY DEF Reserve, Quiet
  <2>3. effects'[e] = effects[e] /\ (faults' = faults \/ faults' = faults + 1)
    BY DEF Quiet
  <2> QED
    BY <1>1, <2>1, <2>2, <2>3, StepPays
<1> QED
  BY <1>2, <1>3

\* A session that starts takes the place that was kept for it.
LEMMA StartPays ==
    ASSUME ConsumerOK, TypeOK', faults \in Nat, HandledOK, NEW m \in Members, StartSession(m)
    PROVE  HandledOK' /\ \A e \in Events, p \in Partitions : Pays(p, e)
<1>1. PICK given \in SUBSET Free \ {{}} :
          /\ owner' = [p \in Partitions |-> IF p \in given THEN m ELSE owner[p]]
          /\ pc' = [pc EXCEPT ![m] = [p \in Partitions |-> IF p \in given THEN "next" ELSE "off"]]
          /\ pos' = [pos EXCEPT ![m] = [p \in Partitions |-> IF p \in given THEN committed[p] + 1 ELSE 0]]
  BY DEF StartSession
<1>2. /\ TypeOK /\ session[m] = "none" /\ session' = [session EXCEPT ![m] = "live"]
      /\ Quiet /\ UNCHANGED <<log, processed, effects, faults>>
  BY DEF ConsumerOK, StartSession, Quiet
<1>3. \A p \in Partitions : pc'[m][p] = IF p \in given THEN "next" ELSE "off"
  BY <1>1, <1>2 DEF TypeOK
<1>4. ASSUME NEW n \in Members \ {m}, NEW p \in Partitions
      PROVE  /\ pc'[n][p] = pc[n][p] /\ Current(n, p)' = Current(n, p)
             /\ session'[n] = session[n]
  <2>1. pc'[n][p] = pc[n][p] /\ pos'[n][p] = pos[n][p] /\ session'[n] = session[n]
    BY <1>1, <1>2, <1>4 DEF TypeOK
  <2> QED
    BY <1>2, <2>1 DEF Current
<1>5. HandledOK'
  BY <1>2, <1>3, <1>4 DEF HandledOK
<1>6. ASSUME NEW e \in Events, NEW p \in Partitions PROVE Pays(p, e)
  <2>1. \A n \in Members \ {m} : n \in MayHandle(p, e)' => n \in MayHandle(p, e)
    BY <1>2, <1>4 DEF MayHandle
  <2>2. effects'[e] = effects[e] /\ faults' = faults /\ MayHandle(p, e)' \subseteq Members
    BY <1>2 DEF MayHandle
  <2>3. session'[m] = "live" /\ m # Nobody
    BY <1>2, NobodyAssumption DEF TypeOK
  <2>4. CASE p \in given
    <3>1. owner[p] = Nobody /\ owner'[p] = m
      BY <1>1, <2>4 DEF Free
    <3>2. Vacant(p) /\ ~Vacant(p)'
      BY <2>3, <3>1 DEF Vacant
    <3>3. CASE e \in processed
      <4>1. m \notin MayHandle(p, e)'
        BY <1>2, <1>3, <2>4, <3>3 DEF MayHandle
      <4>2. MayHandle(p, e)' \subseteq MayHandle(p, e)
        BY <2>1, <2>2, <4>1
      <4>3. Reserve(p, e)' <= Reserve(p, e)
        BY <1>2, <3>3 DEF Reserve
      <4> QED
        BY <1>2, <2>2, <4>2, <4>3, StepPays
    <3>4. CASE e \notin processed
      <4>1. Reserve(p, e) = 1 /\ Reserve(p, e)' = 0
        BY <1>2, <3>2, <3>4 DEF Reserve
      <4>2. Reserve(p, e)' <= Reserve(p, e) /\ Reserve(p, e)' < Reserve(p, e)
        BY <4>1
      <4>3. MayHandle(p, e)' \subseteq MayHandle(p, e) \cup {m}
        BY <2>1, <2>2
      <4> QED
        BY <1>2, <2>2, <4>2, <4>3, StepPays
    <3> QED
      BY <3>3, <3>4
  <2>5. CASE p \notin given
    <3>1. m \notin MayHandle(p, e)'
      BY <1>3, <2>5 DEF MayHandle
    <3>2. MayHandle(p, e)' \subseteq MayHandle(p, e)
      BY <2>1, <2>2, <3>1
    <3>3. owner'[p] = owner[p] /\ owner[p] # m
      BY <1>1, <1>2, <2>5, OwnersMarks
    <3>4. owner[p] # Nobody => session'[owner[p]] = session[owner[p]]
      BY <1>2, <3>3 DEF TypeOK
    <3>5. Reserve(p, e)' <= Reserve(p, e)
      BY <1>2, <3>3, <3>4 DEF Reserve, Vacant
    <3> QED
      BY <1>2, <2>2, <3>2, <3>5, StepPays
  <2> QED
    BY <2>4, <2>5
<1> QED
  BY <1>5, <1>6

LEMMA GroupPays ==
    ASSUME ConsumerOK, TypeOK', faults \in Nat, HandledOK, NEW m \in Members,
           \/ \E p \in Partitions : FlushOffset(m, p)
           \/ CancelSession(m) \/ Evict(m) \/ EndSession(m) \/ Crash(m)
    PROVE  HandledOK' /\ \A e \in Events, p \in Partitions : Pays(p, e)
<1> USE DEF kafka, claim, Fault, NoFault
<1>1. TypeOK
  BY DEF ConsumerOK
<1>2. CASE \E p \in Partitions : FlushOffset(m, p)
  <2>1. Quiet /\ UNCHANGED <<pos, pc, owner, session>>
    BY <1>2 DEF FlushOffset, Quiet
  <2> QED
    BY <2>1, LeavingPays DEF Vacant
<1>3. CASE CancelSession(m)
  <2>1. /\ Quiet /\ UNCHANGED <<pos, pc, owner>> /\ session[m] = "live"
        /\ session' = [session EXCEPT ![m] = "cancelled"]
        /\ faults' = faults + 1 \/ Evicted(m)
    BY <1>3 DEF CancelSession, Quiet
  <2>2. \A n \in Members : session'[n] = IF n = m THEN "cancelled" ELSE session[n]
    BY <1>1, <2>1 DEF TypeOK
  <2>3. ASSUME Evicted(m), NEW r \in Partitions PROVE Vacant(r)' => Vacant(r)
    BY <1>1, <2>1, <2>2, <2>3 DEF Evicted, Vacant, TypeOK
  <2> QED
    BY <2>1, <2>2, <2>3, LeavingPays
<1>4. CASE Evict(m)
  <2>1. Quiet /\ UNCHANGED <<pos, pc, session>> /\ faults' = faults + 1
    BY <1>4 DEF Evict, Quiet
  <2> QED
    BY <2>1, LeavingPays
<1>5. CASE EndSession(m)
  <2>1. /\ Quiet /\ UNCHANGED <<pos, pc>> /\ session[m] = "cancelled"
        /\ session' = [session EXCEPT ![m] = "none"]
        /\ owner' = [p \in Partitions |-> IF owner[p] = m THEN Nobody ELSE owner[p]]
    BY <1>5 DEF EndSession, Quiet
  <2>2. \A n \in Members : session'[n] = IF n = m THEN "none" ELSE session[n]
    BY <1>1, <2>1 DEF TypeOK
  <2>3. ASSUME NEW r \in Partitions PROVE Vacant(r)' => Vacant(r)
    <3>1. CASE owner[r] = m
      BY <2>1, <3>1 DEF Vacant
    <3>2. CASE owner[r] # m
      <4>1. owner'[r] = owner[r] /\ owner[r] \in Members \cup {Nobody}
        BY <1>1, <2>1, <3>2 DEF TypeOK
      <4> QED
        BY <2>2, <3>2, <4>1 DEF Vacant
    <3> QED
      BY <3>1, <3>2
  <2> QED
    BY <2>1, <2>2, <2>3, LeavingPays
<1>6. CASE Crash(m)
  <2>1. /\ Quiet /\ UNCHANGED pos /\ faults' = faults + 1
        /\ session' = [session EXCEPT ![m] = "none"]
        /\ pc' = [pc EXCEPT ![m] = [p \in Partitions |-> "off"]]
    BY <1>6 DEF Crash, Quiet
  <2>2. /\ \A n \in Members, r \in Partitions : pc'[n][r] \in {pc[n][r], "off"}
        /\ \A n \in Members : session'[n] = "live" => session[n] = "live"
    BY <1>1, <2>1 DEF TypeOK
  <2> QED
    BY <2>1, <2>2, LeavingPays
<1> QED
  BY <1>2, <1>3, <1>4, <1>5, <1>6

LEMMA FaultsGrow ==
    ASSUME [Next]_vars
    PROVE  faults' = faults \/ faults' = faults + 1
<1> USE DEF Fault, NoFault, CallFails
<1>1. ASSUME NEW m \in Members, NEW p \in Partitions, Work(m, p)
      PROVE  faults' = faults \/ faults' = faults + 1
  BY <1>1 DEF Work, SkipUnidentified, PublishToDLQ, Check, CheckFails, Handle, HandlerFails,
     HandlerRefuses, InsertProcessed, InsertFails, Commit, CommitFails, EndClaim
<1> QED
  BY <1>1 DEF Next, Member, Drained, vars, FlushOffset, StartSession, CancelSession, Evict,
     EndSession, Crash

LEMMA StepPaysForAll ==
    ASSUME ConsumerOK, TypeOK', faults \in Nat, HandledOK, [Next]_vars
    PROVE  /\ HandledOK' /\ log' = log /\ faults' \in Nat
           /\ \A e \in Events : effects'[e] > 0 => effects[e] > 0 \/ OnTopic(e)'
           /\ \A e \in Events, p \in Partitions : Home(p, e) => Pays(p, e)
<1>1. CASE UNCHANGED vars \/ Drained
  <2>1. UNCHANGED vars
    BY <1>1 DEF Drained
  <2>2. HandledOK'
    BY <2>1 DEF vars, HandledOK, Current
  <2>3. \A e \in Events, p \in Partitions : Used(p, e)' = Used(p, e)
    BY <2>1 DEF vars, Used, MayHandle, Reserve, Vacant, Current
  <2>4. faults' = faults /\ effects' = effects /\ log' = log
    BY <2>1 DEF vars
  <2> QED
    BY <2>2, <2>3, <2>4 DEF Pays
<1>2. ASSUME NEW m \in Members, Member(m)
      PROVE  /\ HandledOK' /\ log' = log /\ faults' \in Nat
             /\ \A e \in Events : effects'[e] > 0 => effects[e] > 0 \/ OnTopic(e)'
             /\ \A e \in Events, p \in Partitions : Home(p, e) => Pays(p, e)
  <2>1. CASE \E p \in Partitions : Work(m, p)
    <3>1. PICK p \in Partitions : Work(m, p)
      BY <2>1
    <3>2. log' = log /\ faults' \in Nat
      BY <3>1, WorkMakesCall DEF CallMade
    <3> QED
      BY <3>1, <3>2, WorkPays
  <2>2. CASE \/ \E p \in Partitions : FlushOffset(m, p)
             \/ CancelSession(m) \/ Evict(m) \/ EndSession(m) \/ Crash(m)
    <3>1. log' = log /\ effects' = effects /\ faults' \in Nat
      BY <2>2 DEF FlushOffset, CancelSession, Evict, EndSession, Crash, kafka, Fault, NoFault
    <3> QED
      BY <2>2, <3>1, GroupPays
  <2>3. CASE StartSession(m)
    <3>1. log' = log /\ effects' = effects /\ faults' = faults
      BY <2>3 DEF StartSession
    <3> QED
      BY <2>3, <3>1, StartPays
  <2> QED
    BY <1>2, <2>1, <2>2, <2>3 DEF Member
<1> QED
  BY <1>1, <1>2 DEF Next

\* The copies of an event stay in one partition.
OneHome ==
    \A p, q \in Partitions : p # q => Range(log[p]) \cap Range(log[q]) \subseteq {NoId}

LEMMA EffectsStepOK ==
    ASSUME ConsumerOK, TypeOK', OneHome, EffectsOK, [Next]_vars
    PROVE  OneHome' /\ EffectsOK'
<1>1. /\ HandledOK' /\ log' = log /\ faults' \in Nat
      /\ \A e \in Events : effects'[e] > 0 => effects[e] > 0 \/ OnTopic(e)'
      /\ \A e \in Events, p \in Partitions : Home(p, e) => Pays(p, e)
  BY StepPaysForAll DEF EffectsOK
<1>2. OneHome'
  BY <1>1 DEF OneHome
<1>3. \A e \in Events : effects'[e] > 0 => OnTopic(e)'
  BY <1>1 DEF EffectsOK, OnTopic
<1>4. ASSUME NEW e \in Events, NEW p \in Partitions, Home(p, e)'
      PROVE  Used(p, e)' <= 1 + faults'
  <2>1. Home(p, e)
    BY <1>1, <1>4 DEF Home
  <2>2. Used(p, e) <= 1 + faults
    BY <2>1 DEF EffectsOK
  <2> QED
    BY <1>1, <2>1, <2>2 DEF Pays
<1> QED
  BY <1>1, <1>2, <1>3, <1>4 DEF EffectsOK

LEMMA EffectsStartOK == Init => OneHome /\ EffectsOK
<1> SUFFICES ASSUME Init PROVE OneHome /\ EffectsOK
  OBVIOUS
<1>1. /\ log = Messages /\ owner = [p \in Partitions |-> Nobody] /\ processed = {} /\ faults = 0
      /\ \A e \in Events : effects[e] = 0
      /\ \A m \in Members, p \in Partitions : pc[m][p] = "off"
  BY DEF Init
<1>2. OneHome
  BY <1>1, CopiesAssumption DEF OneHome
<1>3. HandledOK
  BY <1>1 DEF HandledOK
<1>4. ASSUME NEW e \in Events, NEW p \in Partitions PROVE Used(p, e) <= 1 + faults
  <2>1. MayHandle(p, e) = {}
    BY <1>1 DEF MayHandle
  <2>2. Cardinality(MayHandle(p, e)) = 0
    BY <2>1, FS_EmptySet
  <2>3. Reserve(p, e) \in Nat /\ Reserve(p, e) <= 1
    BY DEF Reserve
  <2> QED
    BY <1>1, <2>2, <2>3 DEF Used
<1> QED
  BY <1>1, <1>2, <1>3, <1>4 DEF EffectsOK

LEMMA EffectsArePaid ==
    ASSUME TypeOK, OneHome, EffectsOK
    PROVE  EffectsCostFaults
<1>1. ASSUME NEW e \in Events PROVE effects[e] <= 1 + faults
  <2>1. effects[e] \in Nat /\ faults \in Nat
    BY DEF TypeOK, EffectsOK
  <2>2. CASE effects[e] > 0
    <3>1. PICK p \in Partitions : e \in Range(log[p])
      BY <2>2 DEF EffectsOK, OnTopic
    <3>2. e # NoId
      BY PoisonAssumption
    <3>3. Home(p, e)
      BY <3>1, <3>2 DEF OneHome, Home
    <3>4. PICK a \in Nat : a = Cardinality(MayHandle(p, e))
      <4>1. MayHandle(p, e) \in SUBSET Members
        BY DEF MayHandle
      <4> QED
        BY <4>1, MembersCounted
    <3>5. PICK r \in Nat : r = Reserve(p, e)
      BY DEF Reserve
    <3>6. effects[e] + a + r <= 1 + faults
      BY <3>3, <3>4, <3>5 DEF EffectsOK, Used
    <3> QED
      BY <2>1, <3>6
  <2>3. CASE ~(effects[e] > 0)
    BY <2>1, <2>3
  <2> QED
    BY <2>2, <2>3
<1>2. \A e \in Events : e \in processed => effects[e] >= 1
  BY DEF EffectsOK, HandledOK
<1> QED
  BY <1>1, <1>2 DEF EffectsCostFaults

\* A row of processed_events means that the handler has done its work, and it does it
\* again for an event only after a fault in between: for any number of copies on the
\* topic, of processes and of partitions (kafka_consumer.go, processWithIdempotency).
THEOREM EffectsArePaidFor == Spec => []EffectsCostFaults
<1>1. ConsumerOK /\ [Next]_vars => TypeOK'
  BY StepKeepsOK DEF ConsumerOK
<1>2. ConsumerOK /\ TypeOK' /\ (OneHome /\ EffectsOK) /\ [Next]_vars => (OneHome /\ EffectsOK)'
  BY EffectsStepOK
<1>3. ConsumerOK => TypeOK
  BY DEF ConsumerOK
<1>4. TypeOK /\ (OneHome /\ EffectsOK) => EffectsCostFaults
  BY EffectsArePaid
<1> QED
  BY <1>1, <1>2, <1>3, <1>4, EffectsStartOK, ConsumerStaysOK, PTL DEF Spec

-----------------------------------------------------------------------------
(* Effects follow the order of the log, and the log may grow. *)

\* The handler was called with an event in its turn: what is before it in the log
\* had been looked at.
HandledInTurn ==
    \A e \in Events : effects[e] > 0 =>
        \E p \in Partitions : \E i \in 1..Len(log[p]) : log[p][i] = e /\ SeenUpTo(p, i - 1)

LEMMA TriedStays ==
    ASSUME ConsumerOK, [Next]_vars
    PROVE  \A e \in Events : Tried(e) => Tried(e)'
<1> SUFFICES ASSUME NEW e \in Events PROVE Tried(e) => Tried(e)'
  OBVIOUS
<1>1. failures \in [Events -> Nat]
  BY DEF ConsumerOK, TypeOK
<1>2. ASSUME processed \subseteq processed', failures' = failures PROVE Tried(e) => Tried(e)'
  BY <1>2 DEF Tried
<1>3. ASSUME processed \subseteq processed', NEW m \in Members, NEW p \in Partitions, Failed(m, p)
      PROVE  Tried(e) => Tried(e)'
  <2>1. PICK c : failures' = [failures EXCEPT ![c] = @ + 1]
    BY <1>3 DEF Failed
  <2>2. failures[e] > 0 => failures'[e] > 0
    BY <1>1, <2>1
  <2> QED
    BY <1>3, <2>2 DEF Tried
<1>4. ASSUME NEW m \in Members, NEW p \in Partitions, Work(m, p)
      PROVE  Tried(e) => Tried(e)'
  <2>1. CASE SkipUnidentified(m, p) \/ PublishToDLQ(m, p) \/ Handle(m, p) \/ EndClaim(m, p)
    BY <1>2, <2>1 DEF SkipUnidentified, PublishToDLQ, Handle, EndClaim
  <2>2. CASE Check(m, p) \/ Commit(m, p)
    BY <1>2, <2>2 DEF Check, Commit, Succeeded
  <2>3. CASE \/ CheckFails(m, p) \/ HandlerFails(m, p) \/ HandlerRefuses(m, p)
             \/ InsertFails(m, p) \/ CommitFails(m, p)
    BY <1>3, <2>3 DEF CheckFails, HandlerFails, HandlerRefuses, InsertFails, CommitFails
  <2>4. CASE InsertProcessed(m, p)
    BY <1>2, <1>3, <2>4 DEF InsertProcessed
  <2> QED
    BY <1>4, <2>1, <2>2, <2>3, <2>4 DEF Work
<1>5. CASE \E m \in Members : \/ \E p \in Partitions : FlushOffset(m, p)
                             \/ StartSession(m) \/ CancelSession(m) \/ Evict(m)
                             \/ EndSession(m) \/ Crash(m)
  BY <1>2, <1>5 DEF FlushOffset, StartSession, CancelSession, Evict, EndSession, Crash
<1>6. CASE UNCHANGED vars
  BY <1>2, <1>6 DEF vars
<1> QED
  BY <1>4, <1>5, <1>6 DEF Next, Member, Drained

\* Only a claim at the handler's call adds to the effects.
LEMMA EffectsOfCalls ==
    ASSUME ConsumerOK, faults \in Nat, [Next]_vars, NEW e \in Events, effects'[e] # effects[e]
    PROVE  \E m \in Members, p \in Partitions : pc[m][p] = "handle" /\ Current(m, p) = e
<1>1. PICK m \in Members, p \in Partitions : Work(m, p)
  BY DEF Next, Member, Drained, vars, FlushOffset, StartSession, CancelSession, Evict, EndSession, Crash
<1>2. PICK l \in Labels, i \in Nat : CallMade(m, p, l, i)
  BY <1>1, WorkMakesCall
<1>3. effects' # effects
  OBVIOUS
<1>4. pc[m][p] = "handle" /\ effects' = [effects EXCEPT ![Current(m, p)] = @ + 1]
  BY <1>2, <1>3 DEF CallMade, CallDone
<1>5. Current(m, p) = e
  BY <1>4 DEF ConsumerOK, TypeOK
<1> QED
  BY <1>4, <1>5

LEMMA StepKeepsTurn ==
    ASSUME ConsumerOK, faults \in Nat, log' = log, HandledInTurn, [Next]_vars
    PROVE  HandledInTurn'
<1>1. ASSUME NEW p \in Partitions, NEW n \in Int, SeenUpTo(p, n) PROVE SeenUpTo(p, n)'
  <2>1. \A i \in 1..n : log[p][i] \in Events \cup {NoId}
    <3>1. log[p] \in Seq(Events \cup {NoId})
      BY DEF ConsumerOK, TypeOK
    <3> QED
      BY <1>1, <3>1 DEF SeenUpTo
  <2>2. \A e \in Events : Tried(e) => e \in processed' \/ failures'[e] > 0
    BY TriedStays DEF Tried
  <2>3. /\ n <= Len(log[p])
        /\ \A i \in 1..n : log[p][i] = NoId \/ Tried(log[p][i])
    BY <1>1 DEF SeenUpTo
  <2>4. \A i \in 1..n :
           log[p][i] = NoId \/ log[p][i] \in processed' \/ failures'[log[p][i]] > 0
    BY <2>1, <2>2, <2>3
  <2> QED
    BY <2>3, <2>4 DEF SeenUpTo, Tried
<1>2. ASSUME NEW e \in Events, effects'[e] > 0
      PROVE  \E p \in Partitions : \E i \in 1..Len(log[p]) : log[p][i] = e /\ SeenUpTo(p, i - 1)
  <2>1. CASE effects'[e] = effects[e]
    BY <1>2, <2>1 DEF HandledInTurn
  <2>2. CASE effects'[e] # effects[e]
    <3>1. PICK m \in Members, p \in Partitions : pc[m][p] = "handle" /\ Current(m, p) = e
      BY <2>2, EffectsOfCalls
    <3>2. PICK i : i = pos[m][p]
      OBVIOUS
    <3>3. /\ i \in Nat /\ i > 0 /\ i <= Len(log[p])
          /\ log[p][i] = e /\ SeenUpTo(p, i - 1)
      BY <3>1, <3>2, AtEvent
    <3>4. Len(log[p]) \in Nat
      BY DEF ConsumerOK, TypeOK
    <3> QED
      BY <3>3, <3>4
  <2> QED
    BY <2>1, <2>2
<1>3. ASSUME NEW e \in Events, effects'[e] > 0
      PROVE  \E p \in Partitions : \E i \in 1..Len(log'[p]) :
                log'[p][i] = e /\ SeenUpTo(p, i - 1)'
  <2>1. PICK p \in Partitions : \E i \in 1..Len(log[p]) : log[p][i] = e /\ SeenUpTo(p, i - 1)
    BY <1>2, <1>3
  <2>2. PICK i \in 1..Len(log[p]) : log[p][i] = e /\ SeenUpTo(p, i - 1)
    BY <2>1
  <2>3. SeenUpTo(p, i - 1)'
    BY <1>1, <2>2
  <2> QED
    BY <2>2, <2>3
<1> QED
  BY <1>3 DEF HandledInTurn

\* A message that is published while the group works disturbs nothing.
LEMMA LogGrows ==
    ASSUME ConsumerOK, HandledOK, HandledInTurn,
           UNCHANGED <<committed, owner, dlq, processed, effects, session, retryCounts,
                       pc, pos, marked, failures>>,
           \/ log' = log
           \/ \E q \in Partitions, c \in Events : log' = [log EXCEPT ![q] = Append(@, c)]
    PROVE  /\ ConsumerOK' /\ HandledOK' /\ HandledInTurn'
           /\ \A p \in Partitions, e \in Events : Used(p, e)' = Used(p, e)
<1>1. TypeOK
  BY DEF ConsumerOK
<1>2. /\ log' \in [Partitions -> Seq(Events \cup {NoId})]
      /\ \A p \in Partitions :
            /\ Len(log[p]) \in Nat /\ Len(log'[p]) \in Nat /\ Len(log[p]) <= Len(log'[p])
            /\ \A i \in 1..Len(log[p]) : log'[p][i] = log[p][i]
  <2>1. CASE log' = log
    BY <1>1, <2>1 DEF TypeOK
  <2>2. ASSUME NEW q \in Partitions, NEW c \in Events, log' = [log EXCEPT ![q] = Append(@, c)]
        PROVE  /\ log' \in [Partitions -> Seq(Events \cup {NoId})]
               /\ \A p \in Partitions :
                     /\ Len(log[p]) \in Nat /\ Len(log'[p]) \in Nat /\ Len(log[p]) <= Len(log'[p])
                     /\ \A i \in 1..Len(log[p]) : log'[p][i] = log[p][i]
    <3>1. log[q] \in Seq(Events \cup {NoId})
      BY <1>1 DEF TypeOK
    <3>2. PICK s \in Seq(Events \cup {NoId}) : s = log[q]
      BY <3>1
    <3>3. PICK t : t = Append(s, c)
      OBVIOUS
    <3>4. /\ t \in Seq(Events \cup {NoId}) /\ Len(t) = Len(s) + 1 /\ Len(s) \in Nat
          /\ \A i \in 1..Len(s) : t[i] = s[i]
      BY <3>2, <3>3
    <3>5. \A p \in Partitions : log'[p] = IF p = q THEN t ELSE log[p]
      BY <1>1, <2>2, <3>2, <3>3 DEF TypeOK
    <3>6. log' \in [Partitions -> Seq(Events \cup {NoId})]
      BY <1>1, <2>2, <3>2, <3>3, <3>4 DEF TypeOK
    <3>7. \A p \in Partitions : log[p] \in Seq(Events \cup {NoId})
      BY <1>1 DEF TypeOK
    <3>8. ASSUME NEW p \in Partitions
          PROVE  /\ Len(log[p]) \in Nat /\ Len(log'[p]) \in Nat /\ Len(log[p]) <= Len(log'[p])
                 /\ \A i \in 1..Len(log[p]) : log'[p][i] = log[p][i]
      <4>1. CASE p = q
        BY <3>2, <3>4, <3>5, <4>1
      <4>2. CASE p # q
        BY <3>5, <3>7, <4>2
      <4> QED
        BY <4>1, <4>2
    <3> QED
      BY <3>6, <3>8
  <2> QED
    BY <2>1, <2>2
<1>3. ASSUME NEW m \in Members, NEW p \in Partitions, pc[m][p] \notin {"off", "next"}
      PROVE  /\ Current(m, p)' = Current(m, p)
             /\ pos[m][p] <= Len(log[p])
  <2>1. pos[m][p] \in Nat /\ pos[m][p] > 0 /\ pos[m][p] <= Len(log[p])
    <3>1. pos[m][p] \in Nat /\ marked[m][p] \in Nat /\ marked[m][p] < pos[m][p]
      BY <1>1, <1>3 DEF TypeOK
    <3>2. pos[m][p] <= Len(log[p])
      BY <1>3 DEF ConsumerOK, ClaimOK
    <3> QED
      BY <3>1, <3>2
  <2>2. log'[p][pos[m][p]] = log[p][pos[m][p]]
    BY SMTT(20), <1>2, <2>1
  <2> QED
    BY <2>1, <2>2 DEF Current
<1>4. ASSUME NEW p \in Partitions, NEW n \in Int, SeenUpTo(p, n)
      PROVE  SeenUpTo(p, n)'
  <2>1. \A i \in 1..n : i \in 1..Len(log[p])
    BY <1>2, <1>4 DEF SeenUpTo
  <2>2. n <= Len(log'[p])
    BY <1>2, <1>4 DEF SeenUpTo
  <2>3. \A i \in 1..n : log'[p][i] = NoId \/ log'[p][i] \in processed \/ failures[log'[p][i]] > 0
    BY <1>2, <1>4, <2>1 DEF SeenUpTo, Tried
  <2> QED
    BY <2>2, <2>3 DEF SeenUpTo, Tried
<1>5. TypeOK'
  <2>1. ASSUME NEW m \in Members, NEW p \in Partitions
        PROVE  /\ pc'[m][p] # "off" => marked'[m][p] < pos'[m][p] /\ pos'[m][p] <= Len(log'[p]) + 1
               /\ pc'[m][p] \notin {"off", "next"} => Current(m, p)' \in Events
    <3>1. pc[m][p] # "off" => marked[m][p] < pos[m][p] /\ pos[m][p] <= Len(log[p]) + 1
      BY <1>1 DEF TypeOK
    <3>2. pos[m][p] \in Nat
      BY <1>1 DEF TypeOK
    <3>3. pc[m][p] \notin {"off", "next"} => Current(m, p) \in Events
      BY <1>1 DEF TypeOK
    <3> QED
      BY <1>2, <1>3, <3>1, <3>2, <3>3
  <2> QED
    BY <1>1, <1>2, <2>1 DEF TypeOK
<1>6. ASSUME NEW m \in Members, NEW p \in Partitions PROVE ClaimOK(m, p)'
  <2>1. ClaimOK(m, p)
    BY DEF ConsumerOK
  <2>2. marked[m][p] \in Int /\ pos[m][p] - 1 \in Int /\ pos[m][p] \in Nat
    BY <1>1 DEF TypeOK
  <2>3. SeenUpTo(p, marked[m][p])' /\ (pc[m][p] # "off" => SeenUpTo(p, pos[m][p] - 1)')
    <3>1. PICK k \in Int, q \in Int : k = marked[m][p] /\ q = pos[m][p] - 1
      BY <2>2
    <3>2. SeenUpTo(p, k) /\ (pc[m][p] # "off" => SeenUpTo(p, q))
      BY <2>1, <3>1 DEF ClaimOK
    <3>3. SeenUpTo(p, k)' /\ (pc[m][p] # "off" => SeenUpTo(p, q)')
      BY <1>4, <3>2
    <3> QED
      BY <3>1, <3>3
  <2>4. pc[m][p] \notin {"off", "next"} => pos[m][p] <= Len(log'[p])
    BY <1>2, <1>3, <2>2
  <2>5. pc[m][p] = "dlq" => /\ failures[Current(m, p)'] >= MaxRetries
                            /\ Current(m, p)' \in processed \/ failures[Current(m, p)'] > 0
    BY <1>3, <2>1 DEF ClaimOK, Tried
  <2>6. owner[p] = m => session[m] # "none"
    BY <2>1 DEF ClaimOK
  <2> QED
    BY <2>3, <2>4, <2>5, <2>6 DEF ClaimOK, Tried
<1>7. NoMessageIsPassedUnseen'
  <2>1. \A p \in Partitions : committed[p] \in Int /\ SeenUpTo(p, committed[p])
    BY <1>1 DEF ConsumerOK, NoMessageIsPassedUnseen, TypeOK
  <2> QED
    BY <1>4, <2>1 DEF NoMessageIsPassedUnseen
<1>8. ConsumerOK'
  BY <1>5, <1>6, <1>7 DEF ConsumerOK, DeadLettersFailedOften
<1>9. HandledOK'
  BY <1>3 DEF HandledOK
<1>10. HandledInTurn'
  <2>1. ASSUME NEW e \in Events, effects[e] > 0
        PROVE  \E p \in Partitions : \E i \in 1..Len(log'[p]) :
                  log'[p][i] = e /\ SeenUpTo(p, i - 1)'
    <3>1. PICK p \in Partitions : \E i \in 1..Len(log[p]) : log[p][i] = e /\ SeenUpTo(p, i - 1)
      BY <2>1 DEF HandledInTurn
    <3>2. PICK i \in 1..Len(log[p]) : log[p][i] = e /\ SeenUpTo(p, i - 1)
      BY <3>1
    <3>3. SeenUpTo(p, i - 1)' /\ i \in 1..Len(log'[p]) /\ log'[p][i] = e
      BY <1>2, <1>4, <3>2
    <3> QED
      BY <3>3
  <2> QED
    BY <2>1 DEF HandledInTurn
<1>11. ASSUME NEW p \in Partitions, NEW e \in Events PROVE Used(p, e)' = Used(p, e)
  <2>1. MayHandle(p, e)' = MayHandle(p, e)
    BY <1>3 DEF MayHandle
  <2>2. Reserve(p, e)' = Reserve(p, e)
    BY DEF Reserve, Vacant
  <2> QED
    BY <2>1, <2>2 DEF Used
<1> QED
  BY <1>8, <1>9, <1>10, <1>11
=============================================================================
