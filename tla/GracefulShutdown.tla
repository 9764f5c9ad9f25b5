-------------------------- MODULE GracefulShutdown --------------------------
(***************************************************************************)
(* The relay under the shutdown sequence of cmd/server/main.go: a signal,  *)
(* srv.Shutdown with a timeout, cancel() of the relay's context, a sleep   *)
(* of 500 ms and the end of the process, after which it is started again.  *)
(* The cancelled context fails every database call of the relay, but       *)
(* SendMessage ignores it, and nobody waits for a batch to end.            *)
(***************************************************************************)
EXTENDS OutboxRelay

CONSTANT MaxStops    \* bound on shutdowns

ASSUME MaxStopsAssumption == MaxStops \in Nat

VARIABLES
    phase,    \* "serving", "draining" (after the signal) or "cancelled"
    stops     \* shutdowns that have cancelled the relay

shutdown == <<phase, stops>>
serverVars == <<vars, shutdown>>

ServerInit == Init /\ phase = "serving" /\ stops = 0

\* The signal: srv.Shutdown refuses new connections and waits for requests.
Signal ==
    /\ phase = "serving"
    /\ stops < MaxStops
    /\ phase' = "draining"
    /\ UNCHANGED <<vars, stops>>

\* cancel(), also when srv.Shutdown has timed out and requests still run.
CancelRelay ==
    /\ phase = "draining"
    /\ phase' = "cancelled"
    /\ stops' = stops + 1
    /\ UNCHANGED vars

\* main returns when the 500 ms are over, wherever the workers are.  The next
\* process starts with nothing in memory.
ExitAndRestart ==
    /\ phase = "cancelled"
    /\ phase' = "serving"
    /\ pc' = [w \in Workers |-> "poll"]
    /\ batch' = [w \in Workers |-> <<>>]
    /\ sent' = [w \in Workers |-> {}]
    /\ UNCHANGED <<table, topic, kafkaUp, faults, stops>>

\* Before cancel() the relay works as ever.
Serving(w) == phase # "cancelled" /\ Work(w) /\ UNCHANGED shutdown

\* Mutation: a worker goes on polling with a context of its own.
SendCancelledPolls(w) ==
    /\ phase = "cancelled"
    /\ FetchPending(w) \/ SendAcked(w) \/ SendFails(w) \/ SendAckLost(w)
    /\ UNCHANGED shutdown

\* After it, a batch in flight goes on sending.  FetchPending fails, so the
\* worker polls in vain until its loop sees ctx.Done.
SendCancelled(w) ==
    /\ phase = "cancelled"
    /\ SendAcked(w) \/ SendFails(w) \/ SendAckLost(w)
    /\ UNCHANGED shutdown

\* Mutation: the counters are written although the context is cancelled.
GiveUpUncancelled(w) ==
    /\ phase = "cancelled"
    /\ \/ /\ pc[w] = "increment"
          /\ Goto(w, "markFailed")
          /\ UNCHANGED <<status, batch, sent>>
       \/ /\ pc[w] = "markFailed"
          /\ status' = [status EXCEPT ![Current(w)[1]] = "FAILED"]
          /\ NextEvent(w, sent[w])
    /\ UNCHANGED <<retries, age, topic, kafkaUp, faults, shutdown>>

\* IncrementRetry and MarkFailed fail and their errors are ignored.
GiveUpCancelled(w) ==
    /\ phase = "cancelled"
    /\ \/ /\ pc[w] = "increment"
          /\ IF LastAttempt(w) THEN Goto(w, "markFailed") /\ UNCHANGED <<batch, sent>>
             ELSE NextEvent(w, sent[w])
       \/ pc[w] = "markFailed" /\ NextEvent(w, sent[w])
    /\ UNCHANGED <<table, topic, kafkaUp, faults, shutdown>>

\* MarkSent fails: what was sent stays PENDING.
MarkSentCancelled(w) ==
    /\ phase = "cancelled"
    /\ pc[w] = "markSent"
    /\ sent' = [sent EXCEPT ![w] = {}]
    /\ Goto(w, "poll")
    /\ UNCHANGED <<table, topic, kafkaUp, batch, faults, shutdown>>

ServerStep ==
    \/ Signal \/ CancelRelay \/ ExitAndRestart
    \/ \E w \in Workers :
          Serving(w) \/ SendCancelled(w) \/ GiveUpCancelled(w) \/ MarkSentCancelled(w)
    \/ \E e \in Events : Grow(e) /\ UNCHANGED shutdown
    \/ ((\E e \in Events : CommitEvent(e)) \/ KafkaFails \/ KafkaRecovers) /\ UNCHANGED shutdown
    \/ Crash /\ phase' = "serving" /\ UNCHANGED stops

ServerNext == ServerStep \/ (Idle /\ UNCHANGED shutdown)

\* The shutdown runs to its end and the process is started again.
ServerSpec ==
    /\ ServerInit /\ [][ServerNext]_serverVars
    /\ \A w \in Workers : WF_serverVars(Serving(w))
    /\ \A e \in Events : WF_serverVars(Grow(e) /\ UNCHANGED shutdown)
    /\ WF_serverVars(KafkaRecovers /\ UNCHANGED shutdown)
    /\ WF_serverVars(CancelRelay) /\ WF_serverVars(ExitAndRestart)
-----------------------------------------------------------------------------
\* With one worker, an event reaches Kafka once unless something went wrong: every
\* further copy costs a fault (a lost ack, a failed MarkSent, a crash) or a
\* shutdown, which cuts off at most one batch between its sends and MarkSent.
CopiesCostFaults == \A e \in Events : Copies(e) <= 1 + faults + stops

\* With one worker, events of one key first appear on the topic in id order
\* unless a send of the earlier one failed, which the row does not show if its
\* IncrementRetry failed or was cancelled.
OrderedUnlessRetried ==
    \A d, e \in Events :
        /\ KeyOf[d] = KeyOf[e]
        /\ d < e
        /\ Published(e)
        => \/ Published(d) /\ FirstAt(d) < FirstAt(e)
           \/ retries[d] + faults + stops > 0
=============================================================================
