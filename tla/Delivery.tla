------------------------------ MODULE Delivery ------------------------------
(***************************************************************************)
(* What the transactional outbox promises, whatever relays run and fail    *)
(* between the table and Kafka: only committed events are published, and   *)
(* only published ones are marked SENT.  Several relays may settle an      *)
(* event differently, one after the other.                                 *)
(***************************************************************************)
CONSTANT Events

VARIABLES
    status,     \* event -> "absent", "PENDING", "SENT" or "FAILED"
    published   \* events that Kafka has, one copy or more of each

Init ==
    /\ status = [e \in Events |-> "absent"]
    /\ published = {}

\* A transaction commits the event.
Commit(e) ==
    /\ status[e] = "absent"
    /\ status' = [status EXCEPT ![e] = "PENDING"]
    /\ UNCHANGED published

\* Nothing is published that was not committed.
Publish(e) ==
    /\ status[e] # "absent"
    /\ published' = published \cup {e}
    /\ UNCHANGED status

\* Events are confirmed together, all of them published.
Confirm(sent) ==
    /\ status' = [e \in Events |-> IF e \in sent THEN "SENT" ELSE status[e]]
    /\ UNCHANGED published

GiveUp(e) ==
    /\ status[e] # "absent"
    /\ status' = [status EXCEPT ![e] = "FAILED"]
    /\ UNCHANGED published

Next ==
    \/ \E e \in Events : Commit(e) \/ Publish(e) \/ GiveUp(e)
    \/ \E sent \in SUBSET published : Confirm(sent)

Spec == Init /\ [][Next]_<<status, published>>
=============================================================================
