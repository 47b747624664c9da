-------------------------- MODULE NotificationProofs --------------------------
(***************************************************************************)
(* Proofs about the delivery workers, for any jobs, any number of workers  *)
(* and faults, and any lease of at least three heartbeat intervals.        *)
(***************************************************************************)
EXTENDS NotificationWorker, TLAPS

Working == {"load", "deliver", "returned", "settle"}

\* w has sent j and has not recorded it yet.
Sender(w, j) == pc[w] \in {"returned", "settle"} /\ current[w] = j /\ result[w] = "ok"

\* An idle worker has nothing; a working one has its current job.
WorkerOK(w) ==
    /\ pc[w] = "idle" =>
          /\ Unsettled(w) = {} /\ cancelled[w] = {}
          /\ misses[w] = 0 /\ w \in beaten
    /\ pc[w] \in Working => current[w] \in Job /\ batch[w][current[w]] # None
    /\ pc[w] \in {"returned", "settle"} /\ result[w] = "ok" => sends[current[w]] > 0

WorkerInv == \A w \in Worker : WorkerOK(w)

\* Tokens are fresh, no two workers have the same one, and a row has one only
\* while it is pending.
TokenInv ==
    /\ \A j \in Job : token[j] # None => status[j] = "pending" /\ token[j] <= attempts[j]
    /\ \A w \in Worker, j \in Job : batch[w][j] # None => batch[w][j] <= attempts[j]
    /\ \A w, v \in Worker, j \in Job :
          batch[w][j] # None /\ batch[w][j] = batch[v][j] => w = v

\* A lease lost an interval for each missed heartbeat and for the one that is
\* due, so a ticking worker's lease never runs out under it.
HeldOK(w, j) ==
    j \in Unsettled(w) \ cancelled[w] /\ misses[w] < 2 /\ status[j] # "gone" =>
        /\ Holds(w, j)
        /\ lease[j] + misses[w] + (IF w \in beaten THEN 0 ELSE 1) >= Lease

HeldInv == \A w \in Worker, j \in Job : HeldOK(w, j)

\* A job without an excuse is with one worker at a time, which gives it up only
\* when its row is gone.
ExcuseOK(j) ==
    \A w \in Worker : j \in Unsettled(w) =>
        /\ misses[w] < 2
        /\ j \in cancelled[w] => status[j] = "gone"
        /\ \A v \in Worker : j \in Unsettled(v) => v = w

ExcuseInv == \A j \in Job \ excused : ExcuseOK(j)

\* Such a job was sent by the worker that is about to record it, or is settled.
SendOK(j) ==
    /\ sends[j] <= 1
    /\ \A w \in Worker : j \in Unsettled(w) => sends[j] = 0 \/ Sender(w, j)
    /\ status[j] = "pending" /\ sends[j] > 0 => \E w \in Worker : Sender(w, j)

SendInv == \A j \in Job \ excused : SendOK(j)

Inv1 == TypeOK /\ WorkerInv /\ TokenInv

-----------------------------------------------------------------------------

\* Freshly inserted jobs and workers without a batch satisfy the invariant.
LEMMA Init1 == Init => Inv1
<1> SUFFICES ASSUME Init PROVE Inv1
  OBVIOUS
<1> USE WorkerAssumption
<1>1. TypeOK
  BY DEF Init, TypeOK, Pc, Result
<1>2. WorkerInv
  BY DEF Init, WorkerInv, WorkerOK, Unsettled, Working
<1>3. TokenInv
  BY DEF Init, TokenInv
<1>4. QED
  BY <1>1, <1>2, <1>3 DEF Inv1

\* Settle completes, buries or reschedules a job the worker still holds, or
\* writes nothing.
LEMMA SettleCases ==
  ASSUME NEW w \in Worker, Settle(w)
  PROVE  \/ Holds(w, current[w]) /\ result[w] = "ok" /\ CompleteJob(current[w])
         \/ Holds(w, current[w]) /\ MarkJobDead(current[w])
         \/ Holds(w, current[w]) /\ result[w] # "ok" /\ RetryLater(current[w])
         \/ UNCHANGED <<rows, buried>>
BY DEF Settle, Write, FailJob

\* Types are kept by every step of a worker, its heartbeat, a fault, the clock
\* and a deletion.
LEMMA Type1 == Inv1 /\ [Next]_vars => TypeOK'
<1> SUFFICES ASSUME Inv1, [Next]_vars PROVE TypeOK'
  OBVIOUS
<1> USE WorkerAssumption DEF Inv1, TypeOK, Pc, Result
<1>1. ASSUME NEW w \in Worker, RunOnce(w) PROVE TypeOK'
  BY <1>1 DEF RunOnce, ClaimJobs, Goto, heart, history
<1>2. ASSUME NEW w \in Worker, TakeNext(w) PROVE TypeOK'
  BY <1>2 DEF TakeNext, Unsettled, Goto, rows, heart, history
<1>3. ASSUME NEW w \in Worker, SkipLost(w) PROVE TypeOK'
  BY <1>3 DEF SkipLost, Unsettled, rows, history
<1>4. ASSUME NEW w \in Worker, FinishBatch(w) PROVE TypeOK'
  BY <1>4 DEF FinishBatch, StopHeart, Goto, rows, history
<1>5. ASSUME NEW w \in Worker, LoadJobDelivery(w) PROVE TypeOK'
  BY <1>5 DEF LoadJobDelivery, Goto, rows, heart, history
<1>6. ASSUME NEW w \in Worker, Deliver(w) PROVE TypeOK'
  <2>1. current[w] \in Job
    BY <1>6 DEF Deliver, WorkerInv, WorkerOK, Working
  <2>2. sends' \in [Job -> Nat] /\ result' \in [Worker -> Result]
    BY <1>6, <2>1 DEF Deliver
  <2>3. QED
    BY <1>6, <2>2 DEF Deliver, Goto, rows, heart
<1>7. ASSUME NEW w \in Worker, AfterDelivery(w) PROVE TypeOK'
  <2>1. CASE Settled(w)
    BY <1>7, <2>1 DEF AfterDelivery, Settled, Goto, rows, history
  <2>2. CASE Goto(w, "settle") /\ UNCHANGED <<batch, cancelled, current, result>>
    BY <1>7, <2>2 DEF AfterDelivery, Goto, rows, history
  <2>3. QED
    BY <1>7, <2>1, <2>2 DEF AfterDelivery
<1>8. ASSUME NEW w \in Worker, Settle(w) PROVE TypeOK'
  <2>1. current[w] \in Job
    BY <1>8 DEF Settle, WorkerInv, WorkerOK, Working
  <2>. Settled(w)
    BY <1>8 DEF Settle
  <2>2. /\ batch' \in [Worker -> [Job -> Nat \cup {None}]]
        /\ cancelled' \in [Worker -> SUBSET Job]
        /\ current' \in [Worker -> Job \cup {None}] /\ result' \in [Worker -> Result]
        /\ pc' \in [Worker -> Pc]
    BY DEF Settled, Goto
  <2>3. /\ status' \in [Job -> {"pending", "done", "dead", "gone"}]
        /\ attempts' \in [Job -> Nat] /\ token' \in [Job -> Nat \cup {None}]
        /\ lease' \in [Job -> Nat] /\ buried' \in [Job -> Nat]
    <3>1. CASE CompleteJob(current[w])
      BY <2>1, <3>1 DEF CompleteJob
    <3>2. CASE MarkJobDead(current[w])
      BY <2>1, <3>2 DEF MarkJobDead
    <3>3. CASE RetryLater(current[w])
      BY <2>1, <3>3 DEF RetryLater
    <3>4. CASE UNCHANGED <<rows, buried>>
      BY <3>4 DEF rows
    <3>5. QED
      BY <1>8, <3>1, <3>2, <3>3, <3>4, SettleCases
  <2>4. QED
    BY <1>8, <2>2, <2>3 DEF Settle, history
<1>9. ASSUME NEW w \in Worker, LoadFails(w) PROVE TypeOK'
  BY <1>9 DEF LoadFails, Fault, Goto, rows, heart
<1>10. ASSUME NEW w \in Worker, AnswerLost(w) PROVE TypeOK'
  BY <1>10 DEF AnswerLost, Fault, Goto, rows, heart, WorkerInv, WorkerOK, Working
<1>11. ASSUME NEW w \in Worker, SettleFails(w) PROVE TypeOK'
  BY <1>11 DEF SettleFails, Settled, Fault, Goto, rows, WorkerInv, WorkerOK, Working
<1>12. ASSUME NEW w \in Worker, Crash(w) PROVE TypeOK'
  BY <1>12 DEF Crash, StopHeart, Fault, Goto, rows, WorkerInv, WorkerOK, Working
<1>13. ASSUME NEW w \in Worker, Heartbeat(w) PROVE TypeOK'
  BY <1>13 DEF Heartbeat, Covered, Unsettled, history
<1>14. ASSUME NEW w \in Worker, HeartbeatFails(w) PROVE TypeOK'
  BY <1>14 DEF HeartbeatFails, Fault, Unsettled, rows
<1>15. CASE Tick
  BY <1>15 DEF Tick, history
<1>16. ASSUME NEW j \in Job, DeleteChannel(j) PROVE TypeOK'
  BY <1>16 DEF DeleteChannel, heart, history
<1>17. CASE UNCHANGED vars
  BY <1>17 DEF vars, rows, heart, history
<1>18. QED
  BY <1>1, <1>2, <1>3, <1>4, <1>5, <1>6, <1>7, <1>8, <1>9, <1>10, <1>11, <1>12, <1>13,
     <1>14, <1>15, <1>16, <1>17 DEF Next, WorkerStep, Failure

\* A worker's program counter, its batch and its current job stay in step.
LEMMA Worker1 == Inv1 /\ [Next]_vars => WorkerInv'
<1> SUFFICES ASSUME Inv1, [Next]_vars, NEW v \in Worker PROVE WorkerOK(v)'
  BY DEF WorkerInv
<1> USE WorkerAssumption DEF Inv1, TypeOK, WorkerInv, WorkerOK, Working, Unsettled
<1>1. ASSUME NEW w \in Worker, RunOnce(w) PROVE WorkerOK(v)'
  BY <1>1 DEF RunOnce, ClaimJobs, Goto, heart, history
<1>2. ASSUME NEW w \in Worker, TakeNext(w) PROVE WorkerOK(v)'
  BY <1>2 DEF TakeNext, Goto, rows, heart, history
<1>3. ASSUME NEW w \in Worker, SkipLost(w) PROVE WorkerOK(v)'
  BY <1>3 DEF SkipLost, rows, history
<1>4. ASSUME NEW w \in Worker, FinishBatch(w) PROVE WorkerOK(v)'
  BY <1>4 DEF FinishBatch, StopHeart, Goto, rows, history
<1>5. ASSUME NEW w \in Worker, LoadJobDelivery(w) PROVE WorkerOK(v)'
  BY <1>5 DEF LoadJobDelivery, Goto, rows, heart, history
<1>6. ASSUME NEW w \in Worker, Deliver(w) PROVE WorkerOK(v)'
  BY <1>6 DEF Deliver, Goto, rows, heart
<1>7. ASSUME NEW w \in Worker, AfterDelivery(w) PROVE WorkerOK(v)'
  <2>1. CASE Settled(w)
    BY <1>7, <2>1 DEF AfterDelivery, Settled, Goto, rows, history
  <2>2. CASE Goto(w, "settle") /\ UNCHANGED <<batch, cancelled, current, result>>
    BY <1>7, <2>2 DEF AfterDelivery, Goto, rows, history
  <2>3. QED
    BY <1>7, <2>1, <2>2 DEF AfterDelivery
<1>8. ASSUME NEW w \in Worker, Settle(w) PROVE WorkerOK(v)'
  BY <1>8 DEF Settle, Settled, Goto, history
<1>9. ASSUME NEW w \in Worker, LoadFails(w) PROVE WorkerOK(v)'
  BY <1>9 DEF LoadFails, Fault, Goto, rows, heart
<1>10. ASSUME NEW w \in Worker, AnswerLost(w) PROVE WorkerOK(v)'
  BY <1>10 DEF AnswerLost, Fault, Goto, rows, heart
<1>11. ASSUME NEW w \in Worker, SettleFails(w) PROVE WorkerOK(v)'
  BY <1>11 DEF SettleFails, Settled, Fault, Goto, rows
<1>12. ASSUME NEW w \in Worker, Crash(w) PROVE WorkerOK(v)'
  BY <1>12 DEF Crash, StopHeart, Fault, Goto, rows
<1>13. ASSUME NEW w \in Worker, Heartbeat(w) PROVE WorkerOK(v)'
  BY <1>13 DEF Heartbeat, history
<1>14. ASSUME NEW w \in Worker, HeartbeatFails(w) PROVE WorkerOK(v)'
  BY <1>14 DEF HeartbeatFails, Fault, rows
<1>15. CASE Tick
  BY <1>15 DEF Tick, history
<1>16. ASSUME NEW j \in Job, DeleteChannel(j) PROVE WorkerOK(v)'
  BY <1>16 DEF DeleteChannel, heart, history
<1>17. CASE UNCHANGED vars
  BY <1>17 DEF vars, rows, heart, history
<1>18. QED
  BY <1>1, <1>2, <1>3, <1>4, <1>5, <1>6, <1>7, <1>8, <1>9, <1>10, <1>11, <1>12, <1>13,
     <1>14, <1>15, <1>16, <1>17 DEF Next, WorkerStep, Failure

\* Claims hand out fresh tokens; a fenced write ends the token it used.
LEMMA Token1 == Inv1 /\ [Next]_vars => TokenInv'
<1> SUFFICES ASSUME Inv1, [Next]_vars PROVE TokenInv'
  OBVIOUS
<1> USE WorkerAssumption DEF Inv1, TypeOK, TokenInv
<1>1. ASSUME NEW w \in Worker, RunOnce(w) PROVE TokenInv'
  <2>1. PICK S \in SUBSET Claimable :
          /\ ClaimJobs(S)
          /\ batch' = [batch EXCEPT ![w] = [j \in Job |-> IF j \in S THEN token'[j] ELSE None]]
    BY <1>1 DEF RunOnce
  <2>2. S \subseteq Job /\ \A j \in S : status[j] = "pending"
    BY DEF Claimable
  <2>3. /\ \A j \in S : attempts'[j] = attempts[j] + 1 /\ token'[j] = attempts[j] + 1
        /\ \A j \in Job \ S : attempts'[j] = attempts[j] /\ token'[j] = token[j]
        /\ status' = status
    BY <2>1, <2>2 DEF ClaimJobs
  <2>4. /\ \A j \in S : batch'[w][j] = attempts[j] + 1
        /\ \A j \in Job \ S : batch'[w][j] = None
        /\ \A u \in Worker \ {w} : batch'[u] = batch[u]
    BY <2>1, <2>2, <2>3
  <2>5. \A j \in Job : token'[j] # None => status'[j] = "pending" /\ token'[j] <= attempts'[j]
    BY <2>2, <2>3
  <2>6. \A u \in Worker, j \in Job : batch'[u][j] # None => batch'[u][j] <= attempts'[j]
    BY <2>2, <2>3, <2>4
  <2>7. \A u, v \in Worker, j \in Job :
          batch'[u][j] # None /\ batch'[u][j] = batch'[v][j] => u = v
    <3> SUFFICES ASSUME NEW u \in Worker, NEW v \in Worker, NEW j \in Job,
                        batch'[u][j] # None, batch'[u][j] = batch'[v][j], u # v
                 PROVE  FALSE
      OBVIOUS
    <3>1. CASE u = w
      <4>1. batch'[w][j] = attempts[j] + 1 /\ batch'[v][j] = batch[v][j]
        BY <2>2, <2>4, <3>1
      <4>2. batch[v][j] # None => batch[v][j] <= attempts[j] /\ batch[v][j] \in Nat
        OBVIOUS
      <4>3. QED
        BY <3>1, <4>1, <4>2
    <3>2. CASE v = w
      <4>1. batch'[w][j] = attempts[j] + 1 /\ batch'[u][j] = batch[u][j]
        BY <2>2, <2>4, <3>2
      <4>2. batch[u][j] # None => batch[u][j] <= attempts[j] /\ batch[u][j] \in Nat
        OBVIOUS
      <4>3. QED
        BY <3>2, <4>1, <4>2
    <3>3. CASE u # w /\ v # w
      BY <2>4, <3>3
    <3>4. QED
      BY <3>1, <3>2, <3>3
  <2>8. QED
    BY <2>5, <2>6, <2>7
<1>2. ASSUME NEW w \in Worker, TakeNext(w) PROVE TokenInv'
  BY <1>2 DEF TakeNext, rows
<1>3. ASSUME NEW w \in Worker, SkipLost(w) PROVE TokenInv'
  BY <1>3 DEF SkipLost, rows
<1>4. ASSUME NEW w \in Worker, FinishBatch(w) PROVE TokenInv'
  BY <1>4 DEF FinishBatch, rows
<1>5. ASSUME NEW w \in Worker, LoadJobDelivery(w) PROVE TokenInv'
  BY <1>5 DEF LoadJobDelivery, rows
<1>6. ASSUME NEW w \in Worker, Deliver(w) PROVE TokenInv'
  BY <1>6 DEF Deliver, rows
<1>7. ASSUME NEW w \in Worker, AfterDelivery(w) PROVE TokenInv'
  <2>1. CASE Settled(w)
    BY <1>7, <2>1 DEF AfterDelivery, Settled, rows
  <2>2. CASE UNCHANGED batch
    BY <1>7, <2>2 DEF AfterDelivery, rows
  <2>3. QED
    BY <1>7, <2>1, <2>2 DEF AfterDelivery
<1>8. ASSUME NEW w \in Worker, Settle(w) PROVE TokenInv'
  <2>1. current[w] \in Job /\ batch[w][current[w]] # None
    BY <1>8 DEF Settle, WorkerInv, WorkerOK, Working
  <2>2. Settled(w)
    BY <1>8 DEF Settle
  <2>3. \A u \in Worker, j \in Job : batch'[u][j] # None => batch'[u][j] = batch[u][j]
    BY <2>2 DEF Settled
  <2>4. UNCHANGED attempts
    BY <1>8, SettleCases DEF CompleteJob, MarkJobDead, RetryLater, rows
  <2>5. \A j \in Job : token'[j] # None => token'[j] = token[j] /\ status'[j] = status[j]
    <3>1. CASE CompleteJob(current[w])
      BY <2>1, <3>1 DEF CompleteJob
    <3>2. CASE MarkJobDead(current[w])
      BY <2>1, <3>2 DEF MarkJobDead
    <3>3. CASE RetryLater(current[w])
      BY <2>1, <3>3 DEF RetryLater
    <3>4. CASE UNCHANGED <<rows, buried>>
      BY <3>4 DEF rows
    <3>5. QED
      BY <1>8, <3>1, <3>2, <3>3, <3>4, SettleCases
  <2>6. QED
    BY <2>3, <2>4, <2>5
<1>9. ASSUME NEW w \in Worker, LoadFails(w) PROVE TokenInv'
  BY <1>9 DEF LoadFails, rows
<1>10. ASSUME NEW w \in Worker, AnswerLost(w) PROVE TokenInv'
  BY <1>10 DEF AnswerLost, rows
<1>11. ASSUME NEW w \in Worker, SettleFails(w) PROVE TokenInv'
  BY <1>11 DEF SettleFails, Settled, rows
<1>12. ASSUME NEW w \in Worker, Crash(w) PROVE TokenInv'
  BY <1>12 DEF Crash, rows
<1>13. ASSUME NEW w \in Worker, Heartbeat(w) PROVE TokenInv'
  BY <1>13 DEF Heartbeat
<1>14. ASSUME NEW w \in Worker, HeartbeatFails(w) PROVE TokenInv'
  BY <1>14 DEF HeartbeatFails, rows
<1>15. CASE Tick
  BY <1>15 DEF Tick
<1>16. ASSUME NEW j \in Job, DeleteChannel(j) PROVE TokenInv'
  BY <1>16 DEF DeleteChannel
<1>17. CASE UNCHANGED vars
  BY <1>17 DEF vars, rows
<1>18. QED
  BY <1>1, <1>2, <1>3, <1>4, <1>5, <1>6, <1>7, <1>8, <1>9, <1>10, <1>11, <1>12, <1>13,
     <1>14, <1>15, <1>16, <1>17 DEF Next, WorkerStep, Failure

\* The three parts of the invariant hold together.
LEMMA Inductive1 == Spec => []Inv1
<1>1. Inv1 /\ [Next]_vars => Inv1'
  BY Type1, Worker1, Token1 DEF Inv1
<1>2. QED
  BY Init1, <1>1, PTL DEF Spec

\* Every reachable row, batch and delivery is well typed: what ClaimJobs,
\* deliverLeased and the heartbeat write fits the schema for any number of
\* workers, jobs and faults.
THEOREM TypeCorrect == Spec => []TypeOK
<1>1. Inv1 => TypeOK
  BY DEF Inv1
<1>2. QED
  BY <1>1, Inductive1, PTL

-----------------------------------------------------------------------------
(* The workers implement the queue. *)

\* Each step is a step of the queue or leaves it alone; a fenced write acts on
\* a job that is still pending.
LEMMA QueueStep == Inv1 /\ [Next]_vars => [Queue!Next]_(Queue!vars)
<1> SUFFICES ASSUME Inv1, [Next]_vars PROVE [Queue!Next]_(Queue!vars)
  OBVIOUS
<1> DEFINE sent == {j \in Job : sends[j] > 0}
<1> USE WorkerAssumption DEF Inv1, TypeOK
<1>1. ASSUME UNCHANGED <<status, sends, buried>> PROVE UNCHANGED Queue!vars
  BY <1>1 DEF Queue!vars
<1>2. ASSUME NEW w \in Worker, Deliver(w) \/ AnswerLost(w) PROVE [Queue!Next]_(Queue!vars)
  <2>1. current[w] \in Job /\ UNCHANGED <<status, buried>>
    BY <1>2 DEF Deliver, AnswerLost, WorkerInv, WorkerOK, Working, rows
  <2>2. CASE sends' = [sends EXCEPT ![current[w]] = @ + 1]
    <3>1. sent' = sent \cup {current[w]}
      BY <2>1, <2>2
    <3>2. Queue!Send(current[w])
      BY <2>1, <3>1 DEF Queue!Send
    <3>3. QED
      BY <2>1, <3>2 DEF Queue!Next, Queue!Send
  <2>3. CASE sends' = sends
    BY <1>1, <2>1, <2>3
  <2>4. QED
    BY <1>2, <2>2, <2>3 DEF Deliver, AnswerLost
<1>3. ASSUME NEW w \in Worker, Settle(w) PROVE [Queue!Next]_(Queue!vars)
  <2> DEFINE j == current[w]
  <2>1. j \in Job /\ batch[w][j] # None /\ (result[w] = "ok" => sends[j] > 0)
    BY <1>3 DEF Settle, WorkerInv, WorkerOK, Working
  <2>2. UNCHANGED sends
    BY <1>3 DEF Settle, history
  <2>3. Holds(w, j) => status[j] = "pending"
    BY <2>1 DEF Holds, TokenInv
  <2>4. CASE Holds(w, j) /\ result[w] = "ok" /\ CompleteJob(j)
    <3>1. Queue!Complete(j)
      BY <2>1, <2>2, <2>3, <2>4 DEF CompleteJob, Queue!Complete
    <3>2. QED
      BY <2>1, <3>1 DEF Queue!Next
  <2>5. CASE Holds(w, j) /\ MarkJobDead(j)
    <3>1. Queue!Bury(j)
      BY <2>1, <2>2, <2>3, <2>5 DEF MarkJobDead, Queue!Bury
    <3>2. QED
      BY <2>1, <3>1 DEF Queue!Next
  <2>6. CASE Holds(w, j) /\ RetryLater(j)
    <3>1. UNCHANGED <<status, sends, buried>>
      BY <2>1, <2>2, <2>3, <2>6 DEF RetryLater
    <3>2. QED
      BY <1>1, <3>1
  <2>7. CASE UNCHANGED <<rows, buried>>
    BY <1>1, <2>2, <2>7 DEF rows
  <2>8. QED
    BY <1>3, <2>4, <2>5, <2>6, <2>7, SettleCases
<1>4. ASSUME NEW j \in Job, DeleteChannel(j) PROVE [Queue!Next]_(Queue!vars)
  <2>1. Queue!Remove(j)
    BY <1>4 DEF DeleteChannel, Queue!Remove, history
  <2>2. QED
    BY <2>1 DEF Queue!Next
<1>5. ASSUME NEW w \in Worker,
             \/ RunOnce(w) \/ TakeNext(w) \/ SkipLost(w) \/ FinishBatch(w)
             \/ LoadJobDelivery(w) \/ AfterDelivery(w)
      PROVE  UNCHANGED <<status, sends, buried>>
  BY <1>5 DEF RunOnce, ClaimJobs, TakeNext, SkipLost, FinishBatch, LoadJobDelivery,
     AfterDelivery, rows, history
<1>6. ASSUME NEW w \in Worker,
             \/ LoadFails(w) \/ SettleFails(w) \/ Crash(w)
             \/ Heartbeat(w) \/ HeartbeatFails(w)
      PROVE  UNCHANGED <<status, sends, buried>>
  BY <1>6 DEF LoadFails, SettleFails, Crash, Heartbeat, HeartbeatFails, rows, history
<1>7. Tick \/ UNCHANGED vars => UNCHANGED <<status, sends, buried>>
  BY DEF Tick, vars, rows, history
<1>8. QED
  BY <1>1, <1>2, <1>3, <1>4, <1>5, <1>6, <1>7 DEF Next, WorkerStep, Failure

\* The leased, retried and fenced jobs are the abstract queue: a job is settled
\* once, done only if it was sent, dead with one audit event, for any number of
\* workers, faults and stale writes (CompleteJob, FailJob, markJobDead).
THEOREM QueueImplemented == Spec => ImplementsQueue
<1>1. Init => Queue!Init
  BY DEF Init, Queue!Init
<1>2. QED
  BY <1>1, QueueStep, Inductive1, PTL DEF Spec, ImplementsQueue, Queue!Spec

-----------------------------------------------------------------------------
(* A ticking worker keeps its leases. *)

\* A lease of three intervals survives one missed heartbeat and the wait for the
\* next; nobody else's claim or fenced write reaches a job that is held.
LEMMA Held1 == Inv1 /\ HeldInv /\ [Next]_vars => HeldInv'
<1> SUFFICES ASSUME Inv1, HeldInv, [Next]_vars, NEW v \in Worker, NEW k \in Job
             PROVE  HeldOK(v, k)'
  BY DEF HeldInv
<1>a. HeldOK(v, k)
  BY DEF HeldInv
<1> USE WorkerAssumption, <1>a DEF Inv1, TypeOK, HeldOK, Unsettled, Holds
<1>1. ASSUME NEW w \in Worker, RunOnce(w) PROVE HeldOK(v, k)'
  <2>1. PICK S \in SUBSET Claimable :
          /\ ClaimJobs(S)
          /\ batch' = [batch EXCEPT ![w] = [j \in Job |-> IF j \in S THEN token'[j] ELSE None]]
    BY <1>1 DEF RunOnce
  <2>2. UNCHANGED <<status, cancelled, misses, beaten>> /\ misses[w] = 0 /\ w \in beaten
    BY <1>1, <2>1 DEF RunOnce, ClaimJobs, heart, WorkerInv, WorkerOK
  <2>3. CASE k \in S
    <3>1. lease[k] = 0 /\ status[k] = "pending"
      BY <2>3 DEF Claimable
    <3>2. lease'[k] = Lease /\ (v = w => batch'[v][k] = token'[k])
      BY <2>1, <2>3 DEF ClaimJobs
    <3>3. v # w => batch'[v][k] = batch[v][k]
      BY <2>1
    <3>4. QED
      BY <2>2, <3>1, <3>2, <3>3
  <2>4. CASE k \notin S
    <3>1. lease'[k] = lease[k] /\ token'[k] = token[k] /\ (v = w => batch'[v][k] = None)
      BY <2>1, <2>4 DEF ClaimJobs
    <3>2. v # w => batch'[v][k] = batch[v][k]
      BY <2>1
    <3>3. QED
      BY <2>2, <3>1, <3>2
  <2>5. QED
    BY <2>3, <2>4
<1>2. ASSUME NEW w \in Worker, Settle(w) PROVE HeldOK(v, k)'
  <2>1. current[w] \in Job /\ batch[w][current[w]] # None
    BY <1>2 DEF Settle, WorkerInv, WorkerOK, Working
  <2>2. /\ batch' = [batch EXCEPT ![w][current[w]] = None]
        /\ cancelled' = [cancelled EXCEPT ![w] = @ \ {current[w]}]
        /\ UNCHANGED <<misses, beaten>>
    BY <1>2 DEF Settle, Settled
  <2>3. CASE v = w /\ k = current[w]
    BY <2>1, <2>2, <2>3
  <2>4. CASE ~(v = w /\ k = current[w])
    <3>1. batch'[v][k] = batch[v][k] /\ (k \in cancelled'[v] <=> k \in cancelled[v])
      BY <2>2, <2>4
    <3>2. CASE ~Holds(w, current[w])
      BY <1>2, <2>2, <3>1, <3>2 DEF Settle, rows
    <3>3. CASE Holds(w, current[w]) /\ k = current[w]
      <4>1. batch[v][k] = None \/ batch[v][k] # token[k]
        BY <2>1, <2>4, <3>3 DEF TokenInv
      <4>2. status[k] # "gone"
        BY <2>1, <3>3 DEF TokenInv
      <4>3. QED
        BY <2>2, <3>1, <4>1, <4>2
    <3>4. CASE k # current[w]
      <4>1. status'[k] = status[k] /\ token'[k] = token[k] /\ lease'[k] = lease[k]
        BY <1>2, <2>1, <3>4, SettleCases DEF CompleteJob, MarkJobDead, RetryLater, rows
      <4>2. QED
        BY <2>2, <3>1, <4>1
    <3>5. QED
      BY <3>2, <3>3, <3>4
  <2>5. QED
    BY <2>3, <2>4
<1>3. ASSUME NEW w \in Worker, AfterDelivery(w) PROVE HeldOK(v, k)'
  <2>1. CASE Settled(w)
    BY <1>3, <2>1 DEF AfterDelivery, Settled, rows
  <2>2. CASE UNCHANGED <<batch, cancelled, current, result>>
    BY <1>3, <2>2 DEF AfterDelivery, rows
  <2>3. QED
    BY <1>3, <2>1, <2>2 DEF AfterDelivery
<1>4. ASSUME NEW w \in Worker, Heartbeat(w) PROVE HeldOK(v, k)'
  BY <1>4 DEF Heartbeat, Extended, Covered, TokenInv
<1>5. ASSUME NEW w \in Worker, TakeNext(w) PROVE HeldOK(v, k)'
  BY <1>5 DEF TakeNext, rows, heart
<1>6. ASSUME NEW w \in Worker, SkipLost(w) PROVE HeldOK(v, k)'
  BY <1>6 DEF SkipLost, rows
<1>7. ASSUME NEW w \in Worker, FinishBatch(w) PROVE HeldOK(v, k)'
  BY <1>7 DEF FinishBatch, StopHeart, rows
<1>8. ASSUME NEW w \in Worker, LoadJobDelivery(w) PROVE HeldOK(v, k)'
  BY <1>8 DEF LoadJobDelivery, rows, heart
<1>9. ASSUME NEW w \in Worker, Deliver(w) PROVE HeldOK(v, k)'
  BY <1>9 DEF Deliver, rows, heart
<1>10. ASSUME NEW w \in Worker, LoadFails(w) PROVE HeldOK(v, k)'
  BY <1>10 DEF LoadFails, rows, heart
<1>11. ASSUME NEW w \in Worker, AnswerLost(w) PROVE HeldOK(v, k)'
  BY <1>11 DEF AnswerLost, rows, heart
<1>12. ASSUME NEW w \in Worker, SettleFails(w) PROVE HeldOK(v, k)'
  BY <1>12 DEF SettleFails, Settled, rows
<1>13. ASSUME NEW w \in Worker, Crash(w) PROVE HeldOK(v, k)'
  BY <1>13 DEF Crash, StopHeart, rows
<1>14. ASSUME NEW w \in Worker, HeartbeatFails(w) PROVE HeldOK(v, k)'
  BY <1>14 DEF HeartbeatFails, rows
<1>15. CASE Tick
  BY <1>15 DEF Tick, WorkerInv, WorkerOK
<1>16. ASSUME NEW j \in Job, DeleteChannel(j) PROVE HeldOK(v, k)'
  BY <1>16 DEF DeleteChannel, heart
<1>17. CASE UNCHANGED vars
  BY <1>17 DEF vars, rows, heart
<1>18. QED
  BY <1>1, <1>2, <1>3, <1>4, <1>5, <1>6, <1>7, <1>8, <1>9, <1>10, <1>11, <1>12, <1>13,
     <1>14, <1>15, <1>16, <1>17 DEF Next, WorkerStep, Failure

\* What ExtendLeaseBatch's comment claims: while a worker ticks, missing at most
\* one heartbeat in a row, no job of its batch can be claimed by another, whether
\* or not its delivery has started.
THEOREM TickingWorkerHolds == Spec => []HeldWhileTicking
<1>1. Init => HeldInv
  BY WorkerAssumption DEF Init, HeldInv, HeldOK, Unsettled
<1>2. HeldInv => HeldWhileTicking
  BY DEF HeldInv, HeldOK, HeldWhileTicking, Unsettled
<1>3. QED
  BY <1>1, <1>2, Held1, Inductive1, PTL DEF Spec

-----------------------------------------------------------------------------
(* Without an excuse a target is reached once. *)

\* A job without an excuse cannot be claimed while a worker has it.
LEMMA HeldNotClaimable ==
  ASSUME Inv1, HeldInv, ExcuseInv, NEW j \in Job \ excused, NEW w \in Worker,
         j \in Unsettled(w)
  PROVE  j \notin Claimable
<1>1. HeldOK(w, j) /\ misses[w] < 2 /\ (j \in cancelled[w] => status[j] = "gone")
  BY DEF HeldInv, ExcuseInv, ExcuseOK
<1>2. QED
  BY <1>1, WorkerAssumption DEF Inv1, TypeOK, HeldOK, Claimable

\* A fenced write does not bring back a job whose row is gone.
LEMMA GoneForGood ==
  ASSUME Inv1, NEW w \in Worker, Settle(w), NEW j \in Job
  PROVE  (status[j] = "gone" => status'[j] = "gone")
<1>1. current[w] \in Job /\ batch[w][current[w]] # None
  BY DEF Settle, Inv1, WorkerInv, WorkerOK, Working
<1>2. Holds(w, current[w]) => status[current[w]] = "pending"
  BY <1>1 DEF Holds, Inv1, TokenInv
<1>3. QED
  BY <1>1, <1>2, SettleCases DEF CompleteJob, MarkJobDead, RetryLater, rows, Inv1, TypeOK

\* One worker at a time, and it gives the job up only when the row is gone.
LEMMA Excuse1 == Inv1 /\ HeldInv /\ ExcuseInv /\ [Next]_vars => ExcuseInv'
<1> SUFFICES ASSUME Inv1, HeldInv, ExcuseInv, [Next]_vars, NEW k \in Job, k \notin excused'
             PROVE  ExcuseOK(k)'
  BY DEF ExcuseInv
<1>a. k \notin excused
  BY DEF Next, WorkerStep, Failure, RunOnce, TakeNext, SkipLost, FinishBatch, LoadJobDelivery,
     LoadFails, Deliver, AnswerLost, AfterDelivery, Settle, SettleFails, Crash, Heartbeat,
     HeartbeatFails, Tick, DeleteChannel, vars, history
<1>b. ExcuseOK(k)
  BY <1>a DEF ExcuseInv
<1> USE WorkerAssumption, <1>b DEF Inv1, TypeOK, ExcuseOK, Unsettled
<1>1. ASSUME NEW w \in Worker, RunOnce(w) PROVE ExcuseOK(k)'
  <2>1. PICK S \in SUBSET Claimable :
          /\ ClaimJobs(S)
          /\ batch' = [batch EXCEPT ![w] = [j \in Job |-> IF j \in S THEN token'[j] ELSE None]]
    BY <1>1 DEF RunOnce
  <2>2. UNCHANGED <<status, cancelled, misses>> /\ misses[w] = 0 /\ cancelled[w] = {}
    BY <1>1, <2>1 DEF RunOnce, ClaimJobs, heart, WorkerInv, WorkerOK
  <2>3. \A u \in Worker \ {w} : batch'[u] = batch[u]
    BY <2>1
  <2>4. CASE k \in S
    <3>1. \A u \in Worker : batch[u][k] = None
      BY <1>a, <2>4, HeldNotClaimable
    <3>2. QED
      BY <2>2, <2>3, <3>1
  <2>5. CASE k \notin S
    <3>1. batch'[w][k] = None
      BY <2>1, <2>5
    <3>2. QED
      BY <2>2, <2>3, <3>1
  <2>6. QED
    BY <2>4, <2>5
<1>2. ASSUME NEW w \in Worker, Settle(w) PROVE ExcuseOK(k)'
  <2>1. status[k] = "gone" => status'[k] = "gone"
    BY <1>2, GoneForGood
  <2>2. QED
    BY <1>2, <2>1 DEF Settle, Settled
<1>3. ASSUME NEW w \in Worker, AfterDelivery(w) PROVE ExcuseOK(k)'
  <2>1. CASE Settled(w)
    BY <1>3, <2>1 DEF AfterDelivery, Settled, rows
  <2>2. CASE UNCHANGED <<batch, cancelled, current, result>>
    BY <1>3, <2>2 DEF AfterDelivery, rows
  <2>3. QED
    BY <1>3, <2>1, <2>2 DEF AfterDelivery
<1>4. ASSUME NEW w \in Worker, Heartbeat(w) PROVE ExcuseOK(k)'
  <2>1. k \in Covered(w) \ Extended(w) => status[k] = "gone"
    BY DEF Covered, Extended, HeldInv, HeldOK, Holds, TokenInv
  <2>2. QED
    BY <1>4, <2>1 DEF Heartbeat
<1>5. ASSUME NEW w \in Worker, TakeNext(w) PROVE ExcuseOK(k)'
  BY <1>5 DEF TakeNext, rows, heart, history
<1>6. ASSUME NEW w \in Worker, SkipLost(w) PROVE ExcuseOK(k)'
  BY <1>6 DEF SkipLost, rows, history
<1>7. ASSUME NEW w \in Worker, FinishBatch(w) PROVE ExcuseOK(k)'
  BY <1>7 DEF FinishBatch, StopHeart, rows, history
<1>8. ASSUME NEW w \in Worker, LoadJobDelivery(w) PROVE ExcuseOK(k)'
  BY <1>8 DEF LoadJobDelivery, rows, heart, history
<1>9. ASSUME NEW w \in Worker, Deliver(w) PROVE ExcuseOK(k)'
  BY <1>9 DEF Deliver, rows, heart
<1>10. ASSUME NEW w \in Worker, LoadFails(w) PROVE ExcuseOK(k)'
  BY <1>10 DEF LoadFails, rows, heart
<1>11. ASSUME NEW w \in Worker, AnswerLost(w) PROVE ExcuseOK(k)'
  BY <1>11 DEF AnswerLost, rows, heart
<1>12. ASSUME NEW w \in Worker, SettleFails(w) PROVE ExcuseOK(k)'
  BY <1>12 DEF SettleFails, Settled, rows
<1>13. ASSUME NEW w \in Worker, Crash(w) PROVE ExcuseOK(k)'
  BY <1>13 DEF Crash, StopHeart, rows
<1>14. ASSUME NEW w \in Worker, HeartbeatFails(w) PROVE ExcuseOK(k)'
  BY <1>14 DEF HeartbeatFails, rows
<1>15. CASE Tick
  BY <1>15 DEF Tick, history
<1>16. ASSUME NEW j \in Job, DeleteChannel(j) PROVE ExcuseOK(k)'
  BY <1>16 DEF DeleteChannel, heart
<1>17. CASE UNCHANGED vars
  BY <1>17 DEF vars, rows, heart
<1>18. QED
  BY <1>1, <1>2, <1>3, <1>4, <1>5, <1>6, <1>7, <1>8, <1>9, <1>10, <1>11, <1>12, <1>13,
     <1>14, <1>15, <1>16, <1>17 DEF Next, WorkerStep, Failure

\* A send is recorded, excused, or still to be recorded by the one worker that
\* has the job.
LEMMA Send1 == Inv1 /\ HeldInv /\ ExcuseInv /\ SendInv /\ [Next]_vars => SendInv'
<1> SUFFICES ASSUME Inv1, HeldInv, ExcuseInv, SendInv, [Next]_vars,
                    NEW k \in Job, k \notin excused'
             PROVE  SendOK(k)'
  BY DEF SendInv
<1>a. k \notin excused
  BY DEF Next, WorkerStep, Failure, RunOnce, TakeNext, SkipLost, FinishBatch, LoadJobDelivery,
     LoadFails, Deliver, AnswerLost, AfterDelivery, Settle, SettleFails, Crash, Heartbeat,
     HeartbeatFails, Tick, DeleteChannel, vars, history
<1>b. SendOK(k) /\ ExcuseOK(k)
  BY <1>a DEF SendInv, ExcuseInv
<1>c. \A w \in Worker : Sender(w, k) => k \in Unsettled(w)
  BY DEF Sender, Inv1, WorkerInv, WorkerOK, Working, Unsettled
<1> USE WorkerAssumption, <1>b, <1>c DEF Inv1, TypeOK, SendOK, Sender, Unsettled
<1>1. ASSUME NEW w \in Worker, RunOnce(w) PROVE SendOK(k)'
  <2>1. PICK S \in SUBSET Claimable :
          /\ ClaimJobs(S)
          /\ batch' = [batch EXCEPT ![w] = [j \in Job |-> IF j \in S THEN token'[j] ELSE None]]
    BY <1>1 DEF RunOnce
  <2>2. /\ UNCHANGED <<status, sends, current, result>>
        /\ pc[w] = "idle" /\ pc' = [pc EXCEPT ![w] = "next"]
    BY <1>1, <2>1 DEF RunOnce, ClaimJobs, history, Goto
  <2>3. \A u \in Worker : Sender(u, k)' <=> Sender(u, k)
    BY <2>2
  <2>4. \A u \in Worker \ {w} : batch'[u] = batch[u]
    BY <2>1
  <2>5. CASE k \in S
    <3>1. status[k] = "pending" /\ \A u \in Worker : k \notin Unsettled(u)
      BY <1>a, <2>5, HeldNotClaimable DEF Claimable
    <3>2. sends[k] = 0
      BY <3>1
    <3>3. QED
      BY <2>2, <3>2
  <2>6. CASE k \notin S
    <3>1. batch'[w][k] = None
      BY <2>1, <2>6
    <3>2. QED
      BY <2>2, <2>3, <2>4, <3>1
  <2>7. QED
    BY <2>5, <2>6
<1>2. ASSUME NEW w \in Worker, Deliver(w) PROVE SendOK(k)'
  <2>1. /\ current[w] \in Job /\ current[w] \in Unsettled(w)
        /\ UNCHANGED <<status, batch, current>> /\ pc[w] = "deliver"
        /\ pc' = [pc EXCEPT ![w] = "returned"]
    BY <1>2 DEF Deliver, WorkerInv, WorkerOK, Working, Goto, rows
  <2>2. PICK r \in Result :
          /\ result' = [result EXCEPT ![w] = r]
          /\ sends' = IF r = "ok" THEN [sends EXCEPT ![current[w]] = @ + 1] ELSE sends
    BY <1>2 DEF Deliver
  <2>3. \A u \in Worker \ {w} : Sender(u, k)' <=> Sender(u, k)
    BY <2>1, <2>2
  <2>4. ~Sender(w, k) /\ (Sender(w, k)' <=> current[w] = k /\ r = "ok")
    BY <2>1, <2>2
  <2>5. CASE current[w] = k /\ r = "ok"
    <3>1. sends[k] = 0 /\ sends'[k] = 1
      BY <2>1, <2>2, <2>4, <2>5, SMTT(30)
    <3>2. \A u \in Worker : k \in Unsettled(u)' => u = w
      BY <2>1, <2>5 DEF ExcuseOK
    <3>3. QED
      BY <2>4, <2>5, <3>1, <3>2
  <2>6. CASE ~(current[w] = k /\ r = "ok")
    <3>1. sends'[k] = sends[k]
      BY <2>1, <2>2, <2>6
    <3>2. \A u \in Worker : Sender(u, k)' <=> Sender(u, k)
      BY <2>3, <2>4, <2>6
    <3>3. QED
      BY <2>1, <3>1, <3>2
  <2>7. QED
    BY <2>5, <2>6
<1>3. ASSUME NEW w \in Worker, AfterDelivery(w) PROVE SendOK(k)'
  <2>1. CASE Settled(w) /\ current[w] \in cancelled[w]
    BY <1>3, <2>1 DEF AfterDelivery, Settled, Goto, rows, history, ExcuseOK,
       WorkerInv, WorkerOK, Working
  <2>2. CASE Goto(w, "settle") /\ UNCHANGED <<batch, cancelled, current, result>>
    BY <1>3, <2>2 DEF AfterDelivery, Goto, rows, history
  <2>3. QED
    BY <1>3, <2>1, <2>2 DEF AfterDelivery
<1>4. ASSUME NEW w \in Worker, Settle(w) PROVE SendOK(k)'
  <2>1. /\ current[w] \in Job /\ current[w] \in Unsettled(w) /\ pc[w] = "settle"
        /\ UNCHANGED sends
    BY <1>4 DEF Settle, WorkerInv, WorkerOK, Working, history
  <2>2. Settled(w)
    BY <1>4 DEF Settle
  <2>3. \A u \in Worker : k \in Unsettled(u)' => k \in Unsettled(u) /\ ~(u = w /\ k = current[w])
    BY <2>1, <2>2 DEF Settled
  <2>4. \A u \in Worker : Sender(u, k) /\ ~(u = w /\ k = current[w]) => Sender(u, k)'
    BY <2>2 DEF Settled, Goto
  <2>5. CASE k = current[w] /\ result[w] = "ok"
    <3>1. status'[k] # "pending"
      <4>1. CASE Holds(w, k)
        BY <1>4, <2>1, <2>5, <4>1 DEF Settle, Write, CompleteJob
      <4>2. CASE ~Holds(w, k)
        <5>1. status[k] = "gone"
          BY <2>1, <2>5, <4>2 DEF ExcuseOK, HeldInv, HeldOK
        <5>2. QED
          BY <1>4, <5>1, GoneForGood
      <4>3. QED
        BY <4>1, <4>2
    <3>2. QED
      BY <2>1, <2>3, <2>5, <3>1 DEF ExcuseOK
  <2>6. CASE k = current[w] /\ result[w] # "ok"
    <3>1. sends[k] = 0
      BY <2>1, <2>6
    <3>2. QED
      BY <2>1, <3>1
  <2>7. CASE k # current[w]
    <3>1. status'[k] = status[k]
      BY <1>4, <2>1, <2>7, SettleCases DEF CompleteJob, MarkJobDead, RetryLater, rows
    <3>2. QED
      BY <2>1, <2>3, <2>4, <2>7, <3>1
  <2>8. QED
    BY <2>5, <2>6, <2>7
<1>5. ASSUME NEW w \in Worker, TakeNext(w) PROVE SendOK(k)'
  BY <1>5 DEF TakeNext, Goto, rows, heart, history, WorkerInv, WorkerOK, Working
<1>6. ASSUME NEW w \in Worker, SkipLost(w) PROVE SendOK(k)'
  BY <1>6 DEF SkipLost, rows, history, WorkerInv, WorkerOK, Working
<1>7. ASSUME NEW w \in Worker, FinishBatch(w) PROVE SendOK(k)'
  BY <1>7 DEF FinishBatch, StopHeart, Goto, rows, history, WorkerInv, WorkerOK, Working
<1>8. ASSUME NEW w \in Worker, LoadJobDelivery(w) PROVE SendOK(k)'
  <2>1. UNCHANGED <<status, batch, current, sends>> /\ pc[w] = "load"
    BY <1>8 DEF LoadJobDelivery, rows, history
  <2>2. CASE pc' = [pc EXCEPT ![w] = "deliver"] /\ UNCHANGED result
    <3>1. \A u \in Worker : Sender(u, k)' <=> Sender(u, k)
      BY <2>1, <2>2
    <3>2. QED
      BY <2>1, <3>1
  <2>3. CASE pc' = [pc EXCEPT ![w] = "settle"] /\ result' = [result EXCEPT ![w] = "error"]
    <3>1. \A u \in Worker : Sender(u, k)' <=> Sender(u, k)
      BY <2>1, <2>3 DEF Result
    <3>2. QED
      BY <2>1, <3>1
  <2>4. QED
    BY <1>8, <2>2, <2>3 DEF LoadJobDelivery, Goto
<1>9. ASSUME NEW w \in Worker, LoadFails(w) PROVE SendOK(k)'
  BY <1>9 DEF LoadFails, Goto, rows, heart, WorkerInv, WorkerOK, Working
<1>10. ASSUME NEW w \in Worker, AnswerLost(w) PROVE SendOK(k)'
  BY <1>10 DEF AnswerLost, Goto, rows, heart, WorkerInv, WorkerOK, Working
<1>11. ASSUME NEW w \in Worker, SettleFails(w) PROVE SendOK(k)'
  BY <1>11 DEF SettleFails, Settled, Goto, rows, WorkerInv, WorkerOK, Working
<1>12. ASSUME NEW w \in Worker, Crash(w) PROVE SendOK(k)'
  BY <1>12 DEF Crash, StopHeart, Goto, rows, WorkerInv, WorkerOK, Working
<1>13. ASSUME NEW w \in Worker, Heartbeat(w) PROVE SendOK(k)'
  BY <1>13 DEF Heartbeat, history, WorkerInv, WorkerOK, Working
<1>14. ASSUME NEW w \in Worker, HeartbeatFails(w) PROVE SendOK(k)'
  BY <1>14 DEF HeartbeatFails, rows, WorkerInv, WorkerOK, Working
<1>15. CASE Tick
  BY <1>15 DEF Tick, history
<1>16. ASSUME NEW j \in Job, DeleteChannel(j) PROVE SendOK(k)'
  BY <1>16 DEF DeleteChannel, history
<1>17. CASE UNCHANGED vars
  BY <1>17 DEF vars, rows, history
<1>18. QED
  BY <1>1, <1>2, <1>3, <1>4, <1>5, <1>6, <1>7, <1>8, <1>9, <1>10, <1>11, <1>12, <1>13,
     <1>14, <1>15, <1>16, <1>17 DEF Next, WorkerStep, Failure

\* A target is reached once unless one of the named faults happened to the job:
\* the duplicate send that the batch heartbeat of runOnce closes stays closed for
\* any number of workers, jobs and retries.
THEOREM SentOnce == Spec => []SentOnceUnlessExcused
<1>1. Init => HeldInv /\ ExcuseInv /\ SendInv
  BY WorkerAssumption DEF Init, HeldInv, HeldOK, ExcuseInv, ExcuseOK, SendInv, SendOK,
     Unsettled
<1>2. SendInv => SentOnceUnlessExcused
  BY DEF SendInv, SendOK, SentOnceUnlessExcused
<1>3. QED
  BY <1>1, <1>2, Held1, Excuse1, Send1, Inductive1, PTL DEF Spec
=============================================================================
