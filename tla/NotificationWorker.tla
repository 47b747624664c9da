-------------------------- MODULE NotificationWorker --------------------------
(***************************************************************************)
(* The delivery workers of the notification module                         *)
(* (modules/notification/service/worker.go): claim a batch of jobs under a *)
(* lease, deliver one after the other, complete or fail each, while a      *)
(* heartbeat goroutine extends the leases of the whole batch.              *)
(*                                                                         *)
(* The unit of time is the heartbeat interval, a third of the lease.  A    *)
(* worker that lives beats once in each unit; a delivery may take any      *)
(* number of them.  Each database statement is one step: the worker, its   *)
(* heartbeat, other workers and the clock interleave between any two.  A   *)
(* lease token is a fresh UUID for each claim; here it is the number of    *)
(* the claim, which `attempts' counts.  The jobs of one claim come in any  *)
(* order, as UPDATE ... RETURNING gives them.                              *)
(*                                                                         *)
(* The branch for a missing deliverer is left out: the service always      *)
(* configures both.  Error texts and metrics are left out.                 *)
(***************************************************************************)
EXTENDS Naturals, FiniteSets

CONSTANTS
    Job,          \* jobs, as the INSERTs of SendMessage left them
    CreatedAt,    \* [Job -> Nat], created_at
    Worker,       \* worker processes, each restarted after a crash
    None,         \* no token, no job
    BatchSize,    \* jobs of one claim (10 in the code)
    MaxAttempts,  \* attempts after which a failure is final (8 in the code)
    Lease,        \* length of a lease in heartbeat intervals (3 in the code)
    Backoff,      \* length of a retry's delay in heartbeat intervals
    MaxFaults     \* bound: crashes, failing statements, lost answers

ASSUME WorkerAssumption ==
    /\ CreatedAt \in [Job -> Nat]
    /\ None \notin Job /\ None \notin Nat
    /\ BatchSize \in Nat \ {0} /\ MaxAttempts \in Nat \ {0}
    /\ Lease \in Nat /\ Lease >= 3 /\ Backoff \in Nat /\ MaxFaults \in Nat

VARIABLES
    status,     \* job -> pending, done, dead; gone when the row was deleted
    attempts,   \* job -> claims so far
    token,      \* job -> lease_token
    lease,      \* job -> intervals until leased_until, 0 when it has passed
    batch,      \* worker -> job -> its token while unsettled, or None
    current,    \* worker -> the job in deliverLeased
    pc,         \* worker -> idle, next, load, deliver, returned, settle
    result,     \* worker -> what Deliver (or the load) returned
    cancelled,  \* worker -> jobs whose context the heartbeat cancelled
    beaten,     \* workers whose heartbeat came in this interval
    misses,     \* history: worker -> failed heartbeats in a row
    faults,     \* history: faults so far
    sends,      \* history: job -> deliveries that reached the target
    excused,    \* history: jobs a fault may have sent twice
    buried      \* job -> notification.delivery.dead events

rows == <<status, attempts, token, lease>>
heart == <<cancelled, beaten, misses>>
history == <<faults, sends, excused>>
vars == <<rows, batch, current, pc, result, heart, history, buried>>

Pc == {"idle", "next", "load", "deliver", "returned", "settle"}

Result == {"ok", "error", "rejected"}

Init ==
    /\ status = [j \in Job |-> "pending"]
    /\ attempts = [j \in Job |-> 0]
    /\ token = [j \in Job |-> None]
    /\ lease = [j \in Job |-> 0]
    /\ batch = [w \in Worker |-> [j \in Job |-> None]]
    /\ current = [w \in Worker |-> None]
    /\ pc = [w \in Worker |-> "idle"]
    /\ result = [w \in Worker |-> "ok"]
    /\ cancelled = [w \in Worker |-> {}]
    /\ beaten = Worker
    /\ misses = [w \in Worker |-> 0]
    /\ faults = 0
    /\ sends = [j \in Job |-> 0]
    /\ excused = {}
    /\ buried = [j \in Job |-> 0]

-----------------------------------------------------------------------------
(* Helpers. *)

Goto(w, step) == pc' = [pc EXCEPT ![w] = step]

Unsettled(w) == {j \in Job : batch[w][j] # None}

\* Broken form of Holds: the writes look at the row's id alone.
HoldsById(w, j) == status[j] # "gone"

\* The WHERE clause that fences every write of a worker.
Holds(w, j) == token[j] = batch[w][j]

Fault == faults < MaxFaults /\ faults' = faults + 1

\* deliverLeased is over for the current job, whatever became of it.
Settled(w) ==
    /\ batch' = [batch EXCEPT ![w][current[w]] = None]
    /\ cancelled' = [cancelled EXCEPT ![w] = @ \ {current[w]}]
    /\ current' = [current EXCEPT ![w] = None]
    /\ result' = [result EXCEPT ![w] = "ok"]
    /\ Goto(w, "next")

\* The heartbeat goroutine ends with the batch.
StopHeart(w) ==
    /\ cancelled' = [cancelled EXCEPT ![w] = {}]
    /\ misses' = [misses EXCEPT ![w] = 0]
    /\ beaten' = beaten \cup {w}

-----------------------------------------------------------------------------
(* Claiming. *)

\* Broken forms of Claimable: leases are not looked at; only a row no worker
\* has left leased is looked at.
ClaimableLeased == {j \in Job : status[j] = "pending"}
ClaimableFresh == {j \in Job : status[j] = "pending" /\ lease[j] = 0 /\ token[j] = None}

Claimable == {j \in Job : status[j] = "pending" /\ lease[j] = 0}

\* The claim of the oldest jobs that are free or whose lease has passed.
ClaimJobs(S) ==
    /\ S \subseteq Claimable /\ S # {}
    /\ Cardinality(S) <= BatchSize
    /\ S # Claimable =>
          Cardinality(S) = BatchSize
            /\ \A j \in S, k \in Claimable \ S : CreatedAt[j] <= CreatedAt[k]
    /\ attempts' = [j \in Job |-> IF j \in S THEN attempts[j] + 1 ELSE attempts[j]]
    /\ token' = [j \in Job |-> IF j \in S THEN attempts[j] + 1 ELSE token[j]]
    /\ lease' = [j \in Job |-> IF j \in S THEN Lease ELSE lease[j]]
    /\ UNCHANGED status

RunOnce(w) ==
    /\ pc[w] = "idle"
    /\ \E S \in SUBSET Claimable :
          /\ ClaimJobs(S)
          /\ batch' = [batch EXCEPT ![w] = [j \in Job |-> IF j \in S THEN token'[j] ELSE None]]
    /\ Goto(w, "next")
    /\ UNCHANGED <<current, result, heart, history, buried>>

-----------------------------------------------------------------------------
(* Delivering one job after the other. *)

TakeNext(w) ==
    /\ pc[w] = "next"
    /\ \E j \in Unsettled(w) \ cancelled[w] :
          current' = [current EXCEPT ![w] = j]
    /\ Goto(w, "load")
    /\ UNCHANGED <<rows, batch, result, heart, history, buried>>

\* Lease lost before the delivery started: the job is left to its new holder.
SkipLost(w) ==
    /\ pc[w] = "next"
    /\ \E j \in Unsettled(w) \cap cancelled[w] :
          /\ batch' = [batch EXCEPT ![w][j] = None]
          /\ cancelled' = [cancelled EXCEPT ![w] = @ \ {j}]
    /\ UNCHANGED <<rows, current, pc, result, beaten, misses, history, buried>>

FinishBatch(w) ==
    /\ pc[w] = "next" /\ Unsettled(w) = {}
    /\ StopHeart(w) /\ Goto(w, "idle")
    /\ UNCHANGED <<rows, batch, current, result, history, buried>>

LoadJobDelivery(w) ==
    /\ pc[w] = "load"
    /\ IF status[current[w]] = "gone"
       THEN result' = [result EXCEPT ![w] = "error"] /\ Goto(w, "settle")
       ELSE Goto(w, "deliver") /\ UNCHANGED result
    /\ UNCHANGED <<rows, batch, current, heart, history, buried>>

LoadFails(w) ==
    /\ pc[w] = "load" /\ Fault
    /\ result' = [result EXCEPT ![w] = "error"]
    /\ Goto(w, "settle")
    /\ UNCHANGED <<rows, batch, current, heart, sends, excused, buried>>

\* Deliver reaches the target, fails before it does, or is refused by policy.
Deliver(w) ==
    /\ pc[w] = "deliver"
    /\ \E r \in Result :
          /\ result' = [result EXCEPT ![w] = r]
          /\ sends' = IF r = "ok" THEN [sends EXCEPT ![current[w]] = @ + 1] ELSE sends
    /\ Goto(w, "returned")
    /\ UNCHANGED <<rows, batch, current, heart, faults, excused, buried>>

\* The target got it and its answer is lost.
AnswerLost(w) ==
    /\ pc[w] = "deliver" /\ Fault
    /\ result' = [result EXCEPT ![w] = "error"]
    /\ sends' = [sends EXCEPT ![current[w]] = @ + 1]
    /\ excused' = excused \cup {current[w]}
    /\ Goto(w, "returned")
    /\ UNCHANGED <<rows, batch, current, heart, buried>>

\* A job whose context was cancelled meanwhile is abandoned.
AfterDelivery(w) ==
    /\ pc[w] = "returned"
    /\ IF current[w] \in cancelled[w]
       THEN Settled(w)
       ELSE Goto(w, "settle") /\ UNCHANGED <<batch, cancelled, current, result>>
    /\ UNCHANGED <<rows, beaten, misses, history, buried>>

-----------------------------------------------------------------------------
(* The fenced writes.  One whose token is stale changes no row. *)

CompleteJob(j) ==
    /\ status' = [status EXCEPT ![j] = "done"]
    /\ token' = [token EXCEPT ![j] = None]
    /\ UNCHANGED <<attempts, lease, buried>>

MarkJobDead(j) ==
    /\ status' = [status EXCEPT ![j] = "dead"]
    /\ lease' = [lease EXCEPT ![j] = 0]
    /\ token' = [token EXCEPT ![j] = None]
    /\ buried' = [buried EXCEPT ![j] = @ + 1]
    /\ UNCHANGED attempts

RetryLater(j) ==
    /\ status' = [status EXCEPT ![j] = "pending"]
    /\ lease' = [lease EXCEPT ![j] = Backoff]
    /\ token' = [token EXCEPT ![j] = None]
    /\ UNCHANGED <<attempts, buried>>

\* attempts is the number the claim returned, not the one in the row.
FailJob(j, n) == IF n >= MaxAttempts THEN MarkJobDead(j) ELSE RetryLater(j)

Write(j, r, n) ==
    CASE r = "ok" -> CompleteJob(j)
      [] r = "rejected" -> MarkJobDead(j)
      [] OTHER -> FailJob(j, n)

Settle(w) ==
    LET j == current[w] IN
    /\ pc[w] = "settle"
    /\ IF Holds(w, j) THEN Write(j, result[w], batch[w][j])
                      ELSE UNCHANGED <<rows, buried>>
    /\ Settled(w)
    /\ UNCHANGED <<beaten, misses, history>>

\* The write fails and is only logged.
SettleFails(w) ==
    /\ pc[w] = "settle" /\ Fault
    /\ excused' = IF result[w] = "ok" THEN excused \cup {current[w]} ELSE excused
    /\ Settled(w)
    /\ UNCHANGED <<rows, beaten, misses, sends, buried>>

\* The process dies, or its context is cancelled and none of its statements
\* succeeds any more.
Crash(w) ==
    /\ pc[w] # "idle" /\ Fault
    /\ excused' = IF pc[w] \in {"returned", "settle"} /\ result[w] = "ok"
                  THEN excused \cup {current[w]} ELSE excused
    /\ batch' = [batch EXCEPT ![w] = [j \in Job |-> None]]
    /\ current' = [current EXCEPT ![w] = None]
    /\ result' = [result EXCEPT ![w] = "ok"]
    /\ StopHeart(w) /\ Goto(w, "idle")
    /\ UNCHANGED <<rows, sends, buried>>

-----------------------------------------------------------------------------
(* Heartbeats, time and the rest of the module. *)

\* Broken form of Covered: only the job being delivered.
CoveredCurrent(w) == Unsettled(w) \cap {current[w]}

\* The jobs a heartbeat is for.
Covered(w) == Unsettled(w)

\* Those whose lease ExtendLeaseBatch extends; the others are lost.
Extended(w) ==
    {j \in Covered(w) : Holds(w, j) /\ status[j] = "pending"}

Heartbeat(w) ==
    /\ pc[w] # "idle" /\ w \notin beaten
    /\ lease' = [j \in Job |-> IF j \in Extended(w) THEN Lease ELSE lease[j]]
    /\ cancelled' = [cancelled EXCEPT ![w] = @ \cup (Covered(w) \ Extended(w))]
    /\ beaten' = beaten \cup {w}
    /\ misses' = [misses EXCEPT ![w] = 0]
    /\ UNCHANGED <<status, attempts, token, batch, current, pc, result, history, buried>>

\* The extend fails; the second failure in a row lets the lease run out.
HeartbeatFails(w) ==
    /\ pc[w] # "idle" /\ w \notin beaten /\ Fault
    /\ beaten' = beaten \cup {w}
    /\ misses' = [misses EXCEPT ![w] = @ + 1]
    /\ excused' = IF misses[w] > 0 THEN excused \cup Unsettled(w) ELSE excused
    /\ UNCHANGED <<rows, batch, current, pc, result, cancelled, sends, buried>>

\* An interval passes once every worker that has a batch has beaten in it.
Tick ==
    /\ \A w \in Worker : pc[w] # "idle" => w \in beaten
    /\ \E j \in Job : lease[j] > 0
    /\ lease' = [j \in Job |-> IF lease[j] > 0 THEN lease[j] - 1 ELSE 0]
    /\ beaten' = {w \in Worker : pc[w] = "idle"}
    /\ UNCHANGED <<status, attempts, token, batch, current, pc, result, cancelled,
                   misses, history, buried>>

\* DeleteChannel: the message and its jobs go with the channel.
DeleteChannel(j) ==
    /\ status[j] # "gone"
    /\ status' = [status EXCEPT ![j] = "gone"]
    /\ token' = [token EXCEPT ![j] = None]
    /\ lease' = [lease EXCEPT ![j] = 0]
    /\ UNCHANGED <<attempts, batch, current, pc, result, heart, history, buried>>

-----------------------------------------------------------------------------

WorkerStep(w) ==
    \/ RunOnce(w) \/ TakeNext(w) \/ SkipLost(w) \/ FinishBatch(w)
    \/ LoadJobDelivery(w) \/ Deliver(w) \/ AfterDelivery(w) \/ Settle(w)

Failure(w) ==
    \/ LoadFails(w) \/ AnswerLost(w) \/ SettleFails(w) \/ Crash(w)
    \/ HeartbeatFails(w)

Next ==
    \/ \E w \in Worker : WorkerStep(w) \/ Heartbeat(w) \/ Failure(w)
    \/ Tick
    \/ \E j \in Job : DeleteChannel(j)

\* The loop polls, deliveries have timeouts, tickers fire and time passes;
\* faults and deletions need never come.
Fairness ==
    /\ \A w \in Worker : WF_vars(WorkerStep(w)) /\ WF_vars(Heartbeat(w))
    /\ WF_vars(Tick)

Spec == Init /\ [][Next]_vars
FairSpec == Spec /\ Fairness

-----------------------------------------------------------------------------
(* Properties. *)

\* Types of the job rows, each worker's batch and its delivery, and the history.
TypeOK ==
    /\ status \in [Job -> {"pending", "done", "dead", "gone"}]
    /\ attempts \in [Job -> Nat]
    /\ token \in [Job -> Nat \cup {None}]
    /\ lease \in [Job -> Nat]
    /\ batch \in [Worker -> [Job -> Nat \cup {None}]]
    /\ current \in [Worker -> Job \cup {None}]
    /\ pc \in [Worker -> Pc] /\ result \in [Worker -> Result]
    /\ cancelled \in [Worker -> SUBSET Job] /\ beaten \subseteq Worker
    /\ misses \in [Worker -> Nat] /\ faults \in 0..MaxFaults
    /\ sends \in [Job -> Nat] /\ excused \subseteq Job
    /\ buried \in [Job -> Nat]

\* ExtendLeaseBatch's comment: "as long as this worker is still alive and
\* ticking, no job it holds can be reclaimed, whether or not delivery of it has
\* started yet".  One heartbeat that fails does not change that; after two in a
\* row the next one cancels what was lost.
HeldWhileTicking ==
    \A w \in Worker : misses[w] < 2 =>
        \A j \in Unsettled(w) \ cancelled[w] : Holds(w, j) \/ status[j] = "gone"

\* Without a lost answer, a crash or failed write right after the send, or two
\* heartbeats failing in a row, a target is reached once, however long the
\* delivery takes and whatever retries there are (the duplicate external send
\* that runOnce's batch heartbeat closes).
SentOnceUnlessExcused == \A j \in Job \ excused : sends[j] <= 1

Queue == INSTANCE DeliveryQueue WITH sent <- {j \in Job : sends[j] > 0}

\* The leased, retried, fenced jobs are a queue in which a job is settled once,
\* done only if it was sent and dead with one audit event, whatever stale
\* workers still write (CompleteJob, FailJob and markJobDead under lease_token).
ImplementsQueue == Queue!Spec

\* No job stays pending: a crashed worker's lease runs out and another worker
\* claims the job, and one that always fails dies (ClaimJobs, FailJob).
EveryJobSettles == \A j \in Job : <>(status[j] # "pending")
=============================================================================
