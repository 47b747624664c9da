--------------------------- MODULE DeliveryQueue ---------------------------
(***************************************************************************)
(* What the notification module promises of its delivery jobs, whoever     *)
(* works on them: a job is settled once, and done only if it was sent.     *)
(* Leases, attempts and workers do not appear.                             *)
(***************************************************************************)
EXTENDS Naturals

CONSTANT Job

VARIABLES
    status,   \* job -> pending, done, dead, or gone with its channel
    sent,     \* the jobs that were sent at least once
    buried    \* job -> notification.delivery.dead events in the audit trail

vars == <<status, sent, buried>>

Init ==
    /\ status = [j \in Job |-> "pending"]
    /\ sent = {}
    /\ buried = [j \in Job |-> 0]

\* At least once: a send may be repeated, even after the job was settled.
Send(j) == sent' = sent \cup {j} /\ UNCHANGED <<status, buried>>

Complete(j) ==
    /\ status[j] = "pending" /\ j \in sent
    /\ status' = [status EXCEPT ![j] = "done"]
    /\ UNCHANGED <<sent, buried>>

Bury(j) ==
    /\ status[j] = "pending"
    /\ status' = [status EXCEPT ![j] = "dead"]
    /\ buried' = [buried EXCEPT ![j] = @ + 1]
    /\ UNCHANGED sent

Remove(j) ==
    /\ status' = [status EXCEPT ![j] = "gone"]
    /\ UNCHANGED <<sent, buried>>

Next == \E j \in Job : Send(j) \/ Complete(j) \/ Bury(j) \/ Remove(j)

Spec == Init /\ [][Next]_vars
=============================================================================
