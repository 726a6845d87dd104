-------------------------- MODULE SelfHealingProofs --------------------------
(***************************************************************************)
(* The job queue and the self-healing path on it, for any jobs, callers    *)
(* and workers: a lease is exclusive until it expires, an execution has an *)
(* approval behind it, and a job whose workers neither die nor overrun nor *)
(* fail to record their result changes production at most once.            *)
(*                                                                         *)
(* The proof goes in layers.  The queue's invariant (QueueInv) holds of    *)
(* the queue alone, and every step of the self-healing path is a step of   *)
(* the queue or leaves it alone.  The layers above it each rest on the     *)
(* ones below: who holds what (HoldInv), which version an audit event may  *)
(* name (VersionInv), how many approvals there are (ApprovalInv), which    *)
(* plan each of them names (NamedInv), and what has become of a job that   *)
(* was executed (OnceInv).                                                 *)
(***************************************************************************)
EXTENDS SelfHealing, SequenceTheorems, FiniteSetTheorems, TLAPS

-----------------------------------------------------------------------------
(* The queue *)

\* When a failed job is due again.
DueTimes == Nat \union {at + Backoff(n) : at \in Nat, n \in Nat}

QueueRow == [status: JobStatus, attempts: Nat, not_before: DueTimes, lease_until: Nat]

QueueTypes ==
    /\ jobs \in [JobIds -> QueueRow]
    /\ workers \in [Workers -> Worker]
    /\ now \in Nat
    /\ overran \subseteq JobIds
    /\ crashed \subseteq JobIds

Busy(w) == workers[w].pc # "idle"

\* A worker that is not idle has a job, and one that exists.
BusyHasJob ==
    \A w \in Workers :
        IF Busy(w) THEN /\ workers[w].job \in JobIds
                        /\ jobs[workers[w].job].status # "absent"
        ELSE workers[w] = IdleWorker

\* A worker that has not overrun still has time.
LeaseIsLive ==
    \A w \in Workers :
        Busy(w) /\ workers[w].job \notin overran => workers[w].lease_until > now

QueueInv ==
    /\ QueueTypes
    /\ BusyHasJob
    /\ LeaseIsLive
    /\ LeaseIsExclusive

\* An idle worker has no job, so a worker with a job is busy.
LEMMA JobMeansBusy ==
    ASSUME QueueInv, NEW w \in Workers, workers[w].job \in JobIds
    PROVE  Busy(w)
  BY JobQueueConstants DEF QueueInv, BusyHasJob, IdleWorker

\* A new queue has no jobs and no busy worker.
LEMMA QueueInit == JobQueueInit => QueueInv
<1> SUFFICES ASSUME JobQueueInit PROVE QueueInv
  OBVIOUS
<1>1. QueueTypes
  BY DEF JobQueueInit, QueueTypes, QueueRow, JobStatus, DueTimes, Worker, IdleWorker
<1>2. \A w \in Workers : ~Busy(w) /\ workers[w] = IdleWorker
  BY DEF JobQueueInit, Busy, IdleWorker
<1> QED  BY <1>1, <1>2 DEF QueueInv, BusyHasJob, LeaseIsLive, LeaseIsExclusive, Busy

\* Enqueueing a job that is there changes nothing; one that is not has no lease.
LEMMA EnqueueKeepsQueue ==
    ASSUME QueueInv, NEW j \in JobIds, Enqueue(j)
    PROVE  QueueInv'
<1>1. /\ jobs' \in [JobIds -> QueueRow]
      /\ \A k \in JobIds :
            \/ jobs'[k] = jobs[k]
            \/ jobs[k].status = "absent" /\ jobs'[k].status = "queued"
  <2>1. now \in DueTimes /\ jobs \in [JobIds -> QueueRow]
    BY DEF QueueInv, QueueTypes, DueTimes
  <2>2. CASE jobs[j].status # "absent"
    BY <2>1, <2>2 DEF Enqueue
  <2>3. CASE jobs[j].status = "absent"
    BY <2>1, <2>3 DEF Enqueue, QueueRow, JobStatus
  <2> QED  BY <2>2, <2>3
<1>2. UNCHANGED <<workers, now, overran, crashed>>
  BY DEF Enqueue
<1>3. QueueTypes' /\ LeaseIsLive'
  BY <1>1, <1>2 DEF QueueInv, QueueTypes, LeaseIsLive, Busy
<1>4. BusyHasJob'
  BY <1>1, <1>2 DEF QueueInv, BusyHasJob, Busy
<1>5. LeaseIsExclusive'
  BY <1>1, <1>2 DEF QueueInv, BusyHasJob, LeaseIsExclusive, Busy
<1> QED  BY <1>3, <1>4, <1>5 DEF QueueInv

\* What a claim does to the job and to the worker.
LEMMA ClaimEffect ==
    ASSUME QueueInv, NEW w \in Workers, Claim(w)
    PROVE  \E j \in JobIds :
              /\ Claimable(j)
              /\ jobs' \in [JobIds -> QueueRow]
              /\ \A k \in JobIds \ {j} : jobs'[k] = jobs[k]
              /\ jobs'[j].status = "leased"
              /\ jobs'[j].lease_until = now + LeaseSeconds
              /\ workers' = [workers EXCEPT ![w] =
                                [pc |-> "handling", job |-> j,
                                 lease_until |-> now + LeaseSeconds,
                                 attempts |-> 0, at |-> 0]]
<1>1. PICK j \in JobIds :
        /\ First(j)
        /\ jobs' = [jobs EXCEPT ![j].status = "leased",
                                ![j].attempts = @ + 1,
                                ![j].lease_until = now + LeaseSeconds]
        /\ workers' = [workers EXCEPT ![w] =
                          [pc |-> "handling", job |-> j,
                           lease_until |-> now + LeaseSeconds,
                           attempts |-> 0, at |-> 0]]
  BY DEF Claim
<1>2. jobs \in [JobIds -> QueueRow] /\ now + LeaseSeconds \in Nat
  BY JobQueueConstants DEF QueueInv, QueueTypes
<1>3. /\ jobs' \in [JobIds -> QueueRow]
      /\ \A k \in JobIds \ {j} : jobs'[k] = jobs[k]
      /\ jobs'[j].status = "leased"
      /\ jobs'[j].lease_until = now + LeaseSeconds
  BY <1>1, <1>2 DEF QueueRow, JobStatus
<1> QED  BY <1>1, <1>3 DEF First

\* A claimed job was in nobody's hands, or in those of a worker that overran.
LEMMA ClaimKeepsQueue ==
    ASSUME QueueInv, NEW w \in Workers, Claim(w)
    PROVE  QueueInv'
<1>1. PICK j \in JobIds :
        /\ Claimable(j)
        /\ jobs' \in [JobIds -> QueueRow]
        /\ \A k \in JobIds \ {j} : jobs'[k] = jobs[k]
        /\ jobs'[j].status = "leased"
        /\ jobs'[j].lease_until = now + LeaseSeconds
        /\ workers' = [workers EXCEPT ![w] =
                          [pc |-> "handling", job |-> j,
                           lease_until |-> now + LeaseSeconds,
                           attempts |-> 0, at |-> 0]]
  BY ClaimEffect
<1>2. UNCHANGED <<now, overran, crashed>> /\ ~Busy(w)
  BY DEF Claim, Busy
<1>3. now \in Nat /\ now + LeaseSeconds \in Nat /\ now + LeaseSeconds > now
  BY JobQueueConstants DEF QueueInv, QueueTypes
<1>4. /\ workers' \in [Workers -> Worker]
      /\ workers'[w].pc = "handling" /\ workers'[w].job = j
      /\ workers'[w].lease_until = now + LeaseSeconds
      /\ \A v \in Workers \ {w} : workers'[v] = workers[v]
  BY <1>1, <1>3 DEF QueueInv, QueueTypes, Worker
<1>5. ASSUME NEW v \in Workers, workers[v].job = j PROVE j \in overran
  <2>1. Busy(v)
    BY <1>5, JobMeansBusy
  <2>2. SUFFICES ASSUME j \notin overran PROVE FALSE
    OBVIOUS
  <2>3. jobs[j].status = "leased" /\ jobs[j].lease_until = workers[v].lease_until
    BY <1>5, <2>1, <2>2 DEF QueueInv, LeaseIsExclusive, Busy
  <2>4. workers[v].lease_until > now
    BY <1>5, <2>1, <2>2 DEF QueueInv, LeaseIsLive
  <2>5. workers[v].lease_until <= now
    BY <1>1, <2>3 DEF Claimable
  <2>6. workers[v].lease_until \in Nat
    BY DEF QueueInv, QueueTypes, Worker
  <2> QED  BY <1>3, <2>4, <2>5, <2>6
<1>6. QueueTypes'
  BY <1>1, <1>2, <1>4 DEF QueueInv, QueueTypes
<1>7. BusyHasJob'
  BY <1>1, <1>4 DEF QueueInv, BusyHasJob, Busy
<1>8. LeaseIsLive'
  BY <1>2, <1>3, <1>4 DEF QueueInv, LeaseIsLive, Busy
<1>9. LeaseIsExclusive'
  <2> SUFFICES ASSUME NEW v \in Workers, workers'[v].pc # "idle",
                      workers'[v].job \notin overran
               PROVE  /\ jobs'[workers'[v].job].status = "leased"
                      /\ jobs'[workers'[v].job].lease_until = workers'[v].lease_until
                      /\ \A u \in Workers \ {v} : workers'[u].job # workers'[v].job
    BY <1>2 DEF LeaseIsExclusive
  <2>1. CASE v = w
    <3>1. \A u \in Workers \ {v} : workers[u].job # j
      BY <1>4, <1>5, <2>1
    <3> QED  BY <1>1, <1>4, <2>1, <3>1
  <2>2. CASE v # w
    <3>1. workers[v].job # j
      BY <1>4, <1>5, <2>2
    <3>2. workers[v].job \in JobIds
      BY <1>4, <2>2 DEF QueueInv, BusyHasJob, Busy
    <3>3. /\ jobs[workers[v].job].status = "leased"
          /\ jobs[workers[v].job].lease_until = workers[v].lease_until
          /\ \A u \in Workers \ {v} : workers[u].job # workers[v].job
      BY <1>4, <2>2 DEF QueueInv, LeaseIsExclusive
    <3> QED  BY <1>1, <1>4, <2>2, <3>1, <3>2, <3>3
  <2> QED  BY <2>1, <2>2
<1> QED  BY <1>6, <1>7, <1>8, <1>9 DEF QueueInv
\* A worker lets go of its job, writing the row or leaving it as it is: no other
\* worker can hold the job under a lease.
LEMMA LettingGoKeepsQueue ==
    ASSUME QueueInv, NEW w \in Workers, Busy(w),
           workers' = [workers EXCEPT ![w] = IdleWorker],
           jobs' \in [JobIds -> QueueRow],
           \A k \in JobIds \ {workers[w].job} : jobs'[k] = jobs[k],
           jobs'[workers[w].job].status # "absent",
           UNCHANGED <<now, overran>>, crashed' \subseteq JobIds
    PROVE  QueueInv'
<1>1. /\ workers' \in [Workers -> Worker]
      /\ workers'[w] = IdleWorker
      /\ \A v \in Workers \ {w} : workers'[v] = workers[v]
  BY DEF QueueInv, QueueTypes, Worker, IdleWorker
<1>2. IdleWorker.pc = "idle"
  BY DEF IdleWorker
<1>3. workers[w].job \in JobIds
  BY DEF QueueInv, BusyHasJob
<1>4. QueueTypes'
  BY <1>1 DEF QueueInv, QueueTypes
<1>5. BusyHasJob'
  BY <1>1, <1>2, <1>3 DEF QueueInv, BusyHasJob, Busy
<1>6. LeaseIsLive'
  BY <1>1, <1>2 DEF QueueInv, LeaseIsLive, Busy
<1>7. LeaseIsExclusive'
  <2> SUFFICES ASSUME NEW v \in Workers, workers'[v].pc # "idle",
                      workers'[v].job \notin overran
               PROVE  /\ jobs'[workers'[v].job].status = "leased"
                      /\ jobs'[workers'[v].job].lease_until = workers'[v].lease_until
                      /\ \A u \in Workers \ {v} : workers'[u].job # workers'[v].job
    BY DEF LeaseIsExclusive
  <2>1. v # w /\ workers'[v] = workers[v]
    BY <1>1, <1>2
  <2>2. workers[v].job \in JobIds
    BY <2>1 DEF QueueInv, BusyHasJob, Busy
  <2>3. /\ jobs[workers[v].job].status = "leased"
        /\ jobs[workers[v].job].lease_until = workers[v].lease_until
        /\ \A u \in Workers \ {v} : workers[u].job # workers[v].job
    BY <2>1 DEF QueueInv, LeaseIsExclusive
  <2>4. jobs'[workers[v].job] = jobs[workers[v].job]
    BY <2>1, <2>2, <2>3
  <2>5. workers'[w].job # workers[v].job
    BY <1>1, <2>2, JobQueueConstants DEF IdleWorker
  <2> QED  BY <1>1, <2>1, <2>3, <2>4, <2>5
<1> QED  BY <1>4, <1>5, <1>6, <1>7 DEF QueueInv

\* Completing the job.
LEMMA HandlerReturnsKeepsQueue ==
    ASSUME QueueInv, NEW w \in Workers, HandlerReturns(w)
    PROVE  QueueInv'
<1>1. Busy(w) /\ UNCHANGED <<now, overran, crashed>>
  BY DEF HandlerReturns, Busy
<1>2. workers[w].job \in JobIds /\ jobs \in [JobIds -> QueueRow]
  BY <1>1 DEF QueueInv, BusyHasJob, QueueTypes
<1>3. /\ jobs' \in [JobIds -> QueueRow]
      /\ \A k \in JobIds \ {workers[w].job} : jobs'[k] = jobs[k]
      /\ jobs'[workers[w].job].status = "completed"
  BY <1>2 DEF HandlerReturns, QueueRow, JobStatus
<1> QED  BY <1>1, <1>3, LettingGoKeepsQueue DEF HandlerReturns, QueueInv, QueueTypes

\* Reading the job that failed.
LEMMA HandlerRaisesKeepsQueue ==
    ASSUME QueueInv, NEW w \in Workers, HandlerRaises(w)
    PROVE  QueueInv'
<1>1. Busy(w) /\ UNCHANGED <<jobs, now, overran, crashed>>
  BY DEF HandlerRaises, Busy
<1>2. workers[w].job \in JobIds /\ jobs[workers[w].job].attempts \in Nat /\ now \in Nat
  BY <1>1 DEF QueueInv, BusyHasJob, QueueTypes, QueueRow
<1>3. /\ workers' \in [Workers -> Worker]
      /\ workers'[w].pc = "failing"
      /\ workers'[w].job = workers[w].job
      /\ workers'[w].lease_until = workers[w].lease_until
      /\ \A v \in Workers \ {w} : workers'[v] = workers[v]
  BY <1>2, ZenonT(40) DEF HandlerRaises, QueueInv, QueueTypes, Worker
<1>4. \A v \in Workers :
        /\ Busy(v)' <=> Busy(v)
        /\ workers'[v].job = workers[v].job
        /\ workers'[v].lease_until = workers[v].lease_until
  BY <1>1, <1>3 DEF Busy
<1>5. QueueTypes'
  BY <1>1, <1>3 DEF QueueInv, QueueTypes
<1>6. BusyHasJob'
  BY <1>1, <1>3, <1>4 DEF QueueInv, BusyHasJob, Busy
<1>7. LeaseIsLive'
  BY <1>1, <1>4 DEF QueueInv, LeaseIsLive
<1>8. LeaseIsExclusive'
  BY <1>1, <1>4 DEF QueueInv, LeaseIsExclusive, Busy
<1> QED  BY <1>5, <1>6, <1>7, <1>8 DEF QueueInv

\* Writing the failed job.
LEMMA FailKeepsQueue ==
    ASSUME QueueInv, NEW w \in Workers, Fail(w)
    PROVE  QueueInv' /\ jobs'[workers[w].job].status \in {"queued", "dead_letter"}
<1> DEFINE failed == Failed(workers[w].attempts, workers[w].at)
<1>1. Busy(w) /\ UNCHANGED <<now, overran, crashed>>
  BY DEF Fail, Busy
<1>2. /\ workers[w].job \in JobIds /\ jobs \in [JobIds -> QueueRow]
      /\ workers[w].attempts \in Nat /\ workers[w].at \in Nat
  BY <1>1 DEF QueueInv, BusyHasJob, QueueTypes, Worker
<1>3. failed.status \in {"queued", "dead_letter"} /\ failed.not_before \in DueTimes
  <2>1. CASE workers[w].attempts >= MaxAttempts
    BY <1>2, <2>1 DEF Failed, DueTimes
  <2>2. CASE ~(workers[w].attempts >= MaxAttempts)
    <3> DEFINE due == workers[w].at + Backoff(workers[w].attempts)
    <3>1. failed = [status |-> "queued", not_before |-> due]
      BY <2>2 DEF Failed
    <3>2. due \in DueTimes
      BY <1>2 DEF DueTimes
    <3> HIDE DEF due
    <3> QED  BY <3>1, <3>2
  <2> QED  BY <2>1, <2>2
<1>4. jobs' = [jobs EXCEPT ![workers[w].job].status = failed.status,
                           ![workers[w].job].not_before = failed.not_before,
                           ![workers[w].job].lease_until = 0]
  BY DEF Fail
<1> HIDE DEF failed
<1>5. /\ jobs' \in [JobIds -> QueueRow]
      /\ \A k \in JobIds \ {workers[w].job} : jobs'[k] = jobs[k]
      /\ jobs'[workers[w].job].status \in {"queued", "dead_letter"}
  BY <1>2, <1>3, <1>4 DEF QueueRow, JobStatus
<1>6. workers' = [workers EXCEPT ![w] = IdleWorker] /\ crashed \subseteq JobIds
  BY DEF Fail, QueueInv, QueueTypes
<1> QED  BY <1>1, <1>5, <1>6, LettingGoKeepsQueue

\* A worker that dies leaves the row as it is.
LEMMA WorkerDiesKeepsQueue ==
    ASSUME QueueInv, NEW w \in Workers, WorkerDies(w)
    PROVE  QueueInv'
<1>1. Busy(w) /\ UNCHANGED <<jobs, now, overran>>
  BY DEF WorkerDies, Busy
<1>2. workers[w].job \in JobIds /\ jobs[workers[w].job].status # "absent"
  BY <1>1 DEF QueueInv, BusyHasJob
<1>3. crashed' \subseteq JobIds /\ jobs \in [JobIds -> QueueRow]
  BY <1>2 DEF WorkerDies, QueueInv, QueueTypes
<1> QED  BY <1>1, <1>2, <1>3, LettingGoKeepsQueue DEF WorkerDies

\* When time passes, every worker whose lease is over has overrun.
LEMMA TickKeepsQueue ==
    ASSUME QueueInv, Tick
    PROVE  QueueInv'
<1>1. UNCHANGED <<jobs, workers, crashed>> /\ now \in Nat /\ now' = now + 1
  BY DEF Tick, QueueInv, QueueTypes
<1> DEFINE late == {v \in Workers : Busy(v) /\ workers[v].lease_until <= now + 1}
<1>2. overran' = overran \union {workers[v].job : v \in late}
  BY DEF Tick, Busy
<1>3. \A v \in late : workers[v].job \in JobIds
  BY DEF QueueInv, BusyHasJob
<1>4. QueueTypes'
  BY <1>1, <1>2, <1>3 DEF QueueInv, QueueTypes
<1>5. BusyHasJob'
  BY <1>1 DEF QueueInv, BusyHasJob, Busy
<1>6. LeaseIsLive'
  <2> SUFFICES ASSUME NEW w \in Workers, Busy(w), workers[w].job \notin overran'
               PROVE  workers[w].lease_until > now + 1
    BY <1>1 DEF LeaseIsLive, Busy
  <2>1. ~(workers[w].lease_until <= now + 1)
    BY <1>2
  <2>2. workers[w].lease_until \in Nat
    BY DEF QueueInv, QueueTypes, Worker
  <2> QED  BY <1>1, <2>1, <2>2
<1>7. LeaseIsExclusive'
  BY <1>1, <1>2 DEF QueueInv, LeaseIsExclusive
<1> QED  BY <1>4, <1>5, <1>6, <1>7 DEF QueueInv

\* Every step of the queue preserves its invariant.
LEMMA QueueNext == QueueInv /\ [JobQueueNext]_queueVars => QueueInv'
<1> SUFFICES ASSUME QueueInv, [JobQueueNext]_queueVars PROVE QueueInv'
  OBVIOUS
<1>1. CASE UNCHANGED queueVars
  BY <1>1 DEF queueVars, QueueInv, QueueTypes, BusyHasJob, LeaseIsLive,
              LeaseIsExclusive, Busy
<1>2. CASE JobQueueNext
  BY <1>2, EnqueueKeepsQueue, ClaimKeepsQueue, HandlerReturnsKeepsQueue,
     HandlerRaisesKeepsQueue, FailKeepsQueue, WorkerDiesKeepsQueue, TickKeepsQueue
     DEF JobQueueNext
<1> QED  BY <1>1, <1>2

\* Of the queue alone, whatever handlers it has: while no worker outlives its
\* lease, a job is in at most one worker's hands, however workers crash.
THEOREM QueueLeaseIsExclusive == JobQueueSpec => []LeaseIsExclusive
<1>1. QueueInv => LeaseIsExclusive
  BY DEF QueueInv
<1> QED  BY <1>1, QueueInit, QueueNext, PTL DEF JobQueueSpec
-----------------------------------------------------------------------------
(* Who holds what *)

HealingTypes ==
    /\ record \in WorkflowRecord
    /\ audit \in Seq(AuditEvent)
    /\ callers \in [Callers -> Caller]
    /\ stages \in [Workers -> Stage]
    /\ executions \in Seq(JobIds)
    /\ outages \subseteq JobIds

\* handle_job runs exactly while the queue's worker handles a job.
StageFollowsWorker ==
    \A w \in Workers : stages[w].pc # "idle" <=> workers[w].pc = "handling"

\* A request that is past prepare holds a plan, and an approved one an approval;
\* there is a record, with a plan, before there is a request or a job to hold it.
RecordComesFirst ==
    /\ record.version > 0 => record.plan_hash \in JobIds
    /\ \A c \in Callers : callers[c].pc # "idle" =>
        /\ record.version > 0
        /\ callers[c].prepared \in JobIds
        /\ callers[c].pc \in {"put_executing", "audit_approved", "enqueue"} =>
               callers[c].approved \in JobIds
    /\ \A j \in JobIds : jobs[j].status # "absent" => record.version > 0

HoldInv ==
    /\ QueueInv
    /\ HealingTypes
    /\ StageFollowsWorker
    /\ RecordComesFirst

-----------------------------------------------------------------------------
(* Which version an audit event may name *)

Owes(c) == callers[c].pc \in {"audit_planned", "audit_approved"}

OwesResult(w) == stages[w].pc = "audit_result"

\* A version that was written and is not in the log.
Unlogged(version) ==
    /\ version <= record.version
    /\ \A i \in DOMAIN audit : audit[i].version # version

\* Every version of the record is logged at most once, by whoever wrote it.
VersionInv ==
    /\ \A i \in DOMAIN audit : audit[i].version <= record.version
    /\ \A i, j \in DOMAIN audit : audit[i].version = audit[j].version => i = j
    /\ \A c \in Callers : Owes(c) => Unlogged(callers[c].version)
    /\ \A w \in Workers : OwesResult(w) => Unlogged(stages[w].version)
    /\ \A c, b \in Callers :
        Owes(c) /\ Owes(b) /\ callers[c].version = callers[b].version => c = b
    /\ \A w, v \in Workers :
        OwesResult(w) /\ OwesResult(v) /\ stages[w].version = stages[v].version => w = v
    /\ \A c \in Callers, w \in Workers :
        Owes(c) /\ OwesResult(w) => callers[c].version # stages[w].version

-----------------------------------------------------------------------------
(* How many approvals there are *)

Enqueued == {j \in JobIds : jobs[j].status # "absent"}

\* The requests whose approval is logged and whose job is not enqueued.
Admitted == {c \in Callers : callers[c].pc = "enqueue"}

ApprovalInv ==
    /\ IsFiniteSet(Enqueued) /\ IsFiniteSet(Admitted)
    /\ Cardinality(Enqueued) + Cardinality(Admitted) <= Cardinality(ApprovalEvents)
    /\ \A i \in DOMAIN executions : executions[i] \in Enqueued

-----------------------------------------------------------------------------
(* Which plan an approval names *)

\* A request whose plan was not replaced waits for the approval of the record's
\* plan, and once it has the approval it is of the plan the request holds.
OwnApproval(c) ==
    /\ c \in AwaitingApproval => record.plan_hash = callers[c].prepared
    /\ callers[c].pc \in {"put_executing", "audit_approved", "enqueue"} =>
           callers[c].approved = callers[c].prepared
    /\ callers[c].pc = "enqueue" => NamedByApproval(callers[c].prepared)

NamedInv ==
    /\ \A c \in Callers : callers[c].prepared \notin replaced => OwnApproval(c)
    /\ \A j \in Enqueued \ replaced : NamedByApproval(j)

-----------------------------------------------------------------------------
(* What has become of a job that was executed *)

Clean(j) == j \notin overran \union crashed \union outages

Past == {"finish", "put_result", "audit_result", "return"}

OnceInv ==
    /\ \A i, k \in DOMAIN executions :
        Clean(executions[i]) /\ executions[i] = executions[k] => i = k
    /\ \A i \in DOMAIN executions :
        Clean(executions[i]) =>
            \/ jobs[executions[i]].status = "completed"
            \/ \E w \in Workers : /\ workers[w].job = executions[i]
                                  /\ stages[w].pc \in Past

HealingInv == HoldInv /\ VersionInv /\ ApprovalInv /\ NamedInv /\ OnceInv

-----------------------------------------------------------------------------
(* The operators the steps are built from *)

\* A logged event is the new last one.
LEMMA Logged ==
    ASSUME audit \in Seq(AuditEvent), NEW action \in {"planned", "approved", "result"},
           NEW version \in Nat, NEW plan_hash \in JobIds,
           Log(action, version, plan_hash)
    PROVE  /\ audit' \in Seq(AuditEvent)
           /\ Len(audit) \in Nat
           /\ DOMAIN audit = 1..Len(audit) /\ DOMAIN audit' = 1..(Len(audit) + 1)
           /\ \A i \in 1..Len(audit) : audit'[i] = audit[i]
           /\ audit'[Len(audit) + 1].action = action
           /\ audit'[Len(audit) + 1].version = version
           /\ audit'[Len(audit) + 1].plan_hash = plan_hash
<1> DEFINE event == [action |-> action, version |-> version, plan_hash |-> plan_hash]
<1>1. event \in AuditEvent
  BY SelfHealingConstants DEF AuditEvent
<1>2. event.action = action /\ event.version = version /\ event.plan_hash = plan_hash
  OBVIOUS
<1>3. audit' = Append(audit, event)
  BY DEF Log
<1> HIDE DEF event
<1> QED  BY <1>1, <1>2, <1>3, AppendProperties, LenProperties

\* A written record is one version on.
LEMMA Written ==
    ASSUME record \in WorkflowRecord, NEW status \in WorkflowStatus,
           NEW plan_hash \in JobIds, Put(status, plan_hash)
    PROVE  /\ record' \in WorkflowRecord
           /\ record.version \in Nat
           /\ record'.version = record.version + 1
           /\ record'.plan_hash = plan_hash
<1>1. plan_hash \in PlanHashes \union {NoHash} /\ status \in Statuses
  BY SelfHealingConstants DEF Statuses
<1> DEFINE next == record.version + 1
<1>2. record' = [record EXCEPT !.status = status, !.plan_hash = plan_hash,
                               !.version = next]
  BY DEF Put
<1>3. record.version \in Nat /\ next \in Nat
  BY DEF WorkflowRecord
<1> HIDE DEF next
<1>4. /\ record' \in WorkflowRecord
      /\ record'.version = next /\ record'.plan_hash = plan_hash
  BY <1>1, <1>2, <1>3 DEF WorkflowRecord
<1> QED  BY <1>3, <1>4 DEF next

\* A caller's step.
LEMMA CallerSteps ==
    ASSUME callers \in [Callers -> Caller], NEW c \in Callers, NEW new \in Caller,
           callers' = [callers EXCEPT ![c] = new]
    PROVE  /\ callers' \in [Callers -> Caller]
           /\ callers'[c] = new
           /\ \A b \in Callers \ {c} : callers'[b] = callers[b]
  OBVIOUS

\* A step of handle_job.
LEMMA StageSteps ==
    ASSUME stages \in [Workers -> Stage], NEW w \in Workers, NEW new \in Stage,
           stages' = [stages EXCEPT ![w] = new]
    PROVE  /\ stages' \in [Workers -> Stage]
           /\ stages'[w] = new
           /\ \A v \in Workers \ {w} : stages'[v] = stages[v]
  OBVIOUS

\* The idle values have their types.
LEMMA IdleTypes ==
    /\ IdleCaller \in Caller /\ IdleCaller.pc = "idle"
    /\ IdleStage \in Stage /\ IdleStage.pc = "idle"
  BY DEF IdleCaller, Caller, IdleStage, Stage

\* Every action of the path is a step of the queue, or leaves the queue alone.
LEMMA QueueSteps == HoldInv /\ [Next]_vars => [JobQueueNext]_queueVars
<1> SUFFICES ASSUME HoldInv, [Next]_vars PROVE [JobQueueNext]_queueVars
  OBVIOUS
<1>1. CASE UNCHANGED vars
  BY <1>1 DEF vars
<1>2. ASSUME NEW c \in Callers,
             \/ \E plan_hash \in PlanHashes :
                    Prepare(c, plan_hash) \/ Approve(c, plan_hash)
             \/ AuditPlanned(c) \/ PutExecuting(c) \/ AuditApproved(c) \/ CallerDies(c)
      PROVE  UNCHANGED queueVars
  BY <1>2 DEF Prepare, Approve, AuditPlanned, PutExecuting, AuditApproved, CallerDies
<1>3. ASSUME NEW c \in Callers, EnqueueJob(c) PROVE JobQueueNext
  <2>1. callers[c].prepared \in JobIds
    BY <1>3 DEF EnqueueJob, HoldInv, RecordComesFirst
  <2> QED  BY <1>3, <2>1 DEF EnqueueJob, JobQueueNext
<1>4. ASSUME NEW w \in Workers,
             \/ ClaimJob(w) \/ Simulate(w) \/ Execute(w) \/ Finish(w) \/ PutResult(w)
             \/ AuditResult(w) \/ ReturnResult(w) \/ FailJob(w) \/ JobWorkerDies(w)
      PROVE  [JobQueueNext]_queueVars
  BY <1>4 DEF JobQueueNext, ClaimJob, Simulate, Execute, Finish, PutResult, AuditResult,
              ReturnResult, FailJob, JobWorkerDies, HandlerFails
<1>5. CASE TimePasses
  BY <1>5 DEF TimePasses, JobQueueNext
<1> QED  BY <1>1, <1>2, <1>3, <1>4, <1>5 DEF Next

-----------------------------------------------------------------------------
(* HoldInv *)

\* A step of a caller that leaves the queue and the stages alone.
LEMMA CallerKeepsHold ==
    ASSUME HoldInv, NEW c \in Callers, NEW new \in Caller,
           callers' = [callers EXCEPT ![c] = new],
           UNCHANGED <<queueVars, stages, executions, outages>>,
           audit' \in Seq(AuditEvent),
           record' \in WorkflowRecord, record'.version >= record.version,
           record'.version > 0 => record'.plan_hash \in JobIds,
           new.pc # "idle" =>
               /\ record'.version > 0
               /\ new.prepared \in JobIds
               /\ new.pc \in {"put_executing", "audit_approved", "enqueue"} =>
                      new.approved \in JobIds
    PROVE  HoldInv'
<1>1. QueueInv'
  BY QueueNext DEF HoldInv
<1>2. /\ callers' \in [Callers -> Caller] /\ callers'[c] = new
      /\ \A b \in Callers \ {c} : callers'[b] = callers[b]
  BY CallerSteps DEF HoldInv, HealingTypes
<1>3. HealingTypes'
  BY <1>2 DEF HoldInv, HealingTypes
<1>4. StageFollowsWorker'
  BY DEF HoldInv, StageFollowsWorker, queueVars
<1>5. record.version \in Nat /\ record'.version \in Nat
  BY DEF HoldInv, HealingTypes, WorkflowRecord
<1>6. record.version > 0 => record'.version > 0
  BY <1>5
<1>7. RecordComesFirst'
  BY <1>2, <1>6 DEF HoldInv, RecordComesFirst, queueVars
<1> QED  BY <1>1, <1>3, <1>4, <1>7 DEF HoldInv

\* A step of handle_job.
LEMMA StageKeepsHold ==
    ASSUME HoldInv, NEW w \in Workers, NEW new \in Stage,
           stages' = [stages EXCEPT ![w] = new],
           [JobQueueNext]_queueVars,
           \A v \in Workers \ {w} : workers'[v].pc = workers[v].pc,
           \A j \in JobIds : jobs'[j].status # "absent" => jobs[j].status # "absent",
           new.pc # "idle" <=> workers'[w].pc = "handling",
           UNCHANGED callers, audit' \in Seq(AuditEvent), executions' \in Seq(JobIds),
           outages' \subseteq JobIds,
           record' \in WorkflowRecord, record'.version >= record.version,
           record'.version > 0 => record'.plan_hash \in JobIds
    PROVE  HoldInv'
<1>1. QueueInv'
  BY QueueNext DEF HoldInv
<1>2. /\ stages' \in [Workers -> Stage] /\ stages'[w] = new
      /\ \A v \in Workers \ {w} : stages'[v] = stages[v]
  BY StageSteps DEF HoldInv, HealingTypes
<1>3. HealingTypes'
  BY <1>2 DEF HoldInv, HealingTypes
<1>4. StageFollowsWorker'
  BY <1>2 DEF HoldInv, StageFollowsWorker
<1>5. record.version \in Nat /\ record'.version \in Nat
  BY DEF HoldInv, HealingTypes, WorkflowRecord
<1>6. record.version > 0 => record'.version > 0
  BY <1>5
<1>7. RecordComesFirst'
  BY <1>6 DEF HoldInv, RecordComesFirst
<1> QED  BY <1>1, <1>3, <1>4, <1>7 DEF HoldInv
\* What a caller holds.
LEMMA CallerHolds ==
    ASSUME HoldInv, NEW c \in Callers
    PROVE  /\ callers[c] \in Caller /\ callers[c].version \in Nat
           /\ record \in WorkflowRecord /\ record.version \in Nat
           /\ audit \in Seq(AuditEvent)
           /\ record.version > 0 => record.plan_hash \in JobIds
           /\ callers[c].pc # "idle" =>
                  record.version > 0 /\ callers[c].prepared \in JobIds
           /\ callers[c].pc \in {"put_executing", "audit_approved", "enqueue"} =>
                  callers[c].approved \in JobIds
  BY DEF HoldInv, HealingTypes, RecordComesFirst, Caller, WorkflowRecord

\* What handle_job holds.
LEMMA StageHolds ==
    ASSUME HoldInv, NEW w \in Workers
    PROVE  /\ stages[w] \in Stage /\ stages[w].version \in Nat
           /\ record \in WorkflowRecord /\ record.version \in Nat
           /\ audit \in Seq(AuditEvent) /\ executions \in Seq(JobIds)
           /\ outages \subseteq JobIds
           /\ record.version > 0 => record.plan_hash \in JobIds
           /\ stages[w].pc # "idle" =>
                  /\ workers[w].pc = "handling"
                  /\ workers[w].job \in JobIds
                  /\ jobs[workers[w].job].status # "absent"
                  /\ record.version > 0
<1>1. /\ stages[w] \in Stage /\ stages[w].version \in Nat
      /\ record \in WorkflowRecord /\ record.version \in Nat
      /\ audit \in Seq(AuditEvent) /\ executions \in Seq(JobIds)
      /\ outages \subseteq JobIds
      /\ record.version > 0 => record.plan_hash \in JobIds
  BY DEF HoldInv, HealingTypes, RecordComesFirst, Stage, WorkflowRecord
<1>2. stages[w].pc # "idle" => workers[w].pc = "handling"
  BY DEF HoldInv, StageFollowsWorker
<1>3. stages[w].pc # "idle" => workers[w].job \in JobIds
                               /\ jobs[workers[w].job].status # "absent"
  BY <1>2 DEF HoldInv, QueueInv, BusyHasJob, Busy
<1> QED  BY <1>1, <1>2, <1>3 DEF HoldInv, RecordComesFirst

\* prepare writes the record the request then holds.
LEMMA PrepareKeepsHold ==
    ASSUME HoldInv, NEW c \in Callers, NEW plan_hash \in PlanHashes, Prepare(c, plan_hash)
    PROVE  HoldInv'
<1> DEFINE new == [pc |-> "audit_planned", prepared |-> plan_hash,
                   approved |-> NoHash, version |-> record.version + 1]
<1>1. /\ plan_hash \in JobIds /\ "waiting_approval" \in WorkflowStatus
  BY SelfHealingConstants DEF WorkflowStatus
<1>2. /\ record' \in WorkflowRecord /\ record.version \in Nat
      /\ record'.version = record.version + 1 /\ record'.plan_hash = plan_hash
  BY <1>1, Written DEF Prepare, HoldInv, HealingTypes
<1>3. new \in Caller /\ new.pc = "audit_planned" /\ new.prepared \in JobIds
  BY <1>1, <1>2 DEF Caller
<1>4. /\ callers' = [callers EXCEPT ![c] = new]
      /\ UNCHANGED <<queueVars, stages, executions, outages>>
      /\ audit' \in Seq(AuditEvent)
  BY DEF Prepare, HoldInv, HealingTypes
<1>5. record'.version >= record.version /\ record'.version > 0
  BY <1>2
<1> HIDE DEF new
<1> QED  BY <1>1, <1>2, <1>3, <1>4, <1>5, CallerKeepsHold

\* Logging the plan.
LEMMA AuditPlannedKeepsHold ==
    ASSUME HoldInv, NEW c \in Callers, AuditPlanned(c)
    PROVE  HoldInv'
<1> DEFINE new == [callers[c] EXCEPT !.pc = "prepared"]
<1>1. callers[c].pc # "idle" /\ UNCHANGED <<queueVars, record, stages, executions, outages>>
  BY DEF AuditPlanned
<1>2. audit' \in Seq(AuditEvent)
  BY <1>1, CallerHolds, Logged DEF AuditPlanned
<1>3. new \in Caller /\ new.pc = "prepared" /\ new.prepared = callers[c].prepared
  BY CallerHolds DEF Caller
<1>4. callers' = [callers EXCEPT ![c] = new]
  BY DEF AuditPlanned
<1>5. record'.version >= record.version
  BY <1>1, CallerHolds
<1> HIDE DEF new
<1> QED  BY <1>1, <1>2, <1>3, <1>4, <1>5, CallerHolds, CallerKeepsHold

\* Verifying the approval.
LEMMA ApproveKeepsHold ==
    ASSUME HoldInv, NEW c \in Callers, NEW plan_hash \in PlanHashes, Approve(c, plan_hash)
    PROVE  HoldInv'
<1> DEFINE new == [callers[c] EXCEPT !.pc = "put_executing", !.approved = plan_hash,
                                     !.version = record.version]
<1>1. /\ callers[c].pc = "prepared"
      /\ UNCHANGED <<queueVars, record, audit, stages, executions, outages>>
  BY DEF Approve
<1>2. /\ new \in Caller /\ new.pc = "put_executing" /\ new.approved \in JobIds
      /\ new.prepared = callers[c].prepared
  BY CallerHolds, SelfHealingConstants DEF Caller
<1>3. callers' = [callers EXCEPT ![c] = new]
  BY DEF Approve
<1>4. record'.version >= record.version
  BY <1>1, CallerHolds
<1> HIDE DEF new
<1> QED  BY <1>1, <1>2, <1>3, <1>4, CallerHolds, CallerKeepsHold

\* What PutExecuting does to the caller, and to the record unless it changed.
LEMMA PutExecutingEffect ==
    ASSUME HoldInv, NEW c \in Callers, PutExecuting(c)
    PROVE  /\ callers[c].pc = "put_executing"
           /\ UNCHANGED <<queueVars, audit, stages, executions, outages>>
           /\ record' \in WorkflowRecord
           /\ record'.version > 0 /\ record'.plan_hash \in JobIds
           /\ record'.plan_hash = record.plan_hash
           /\ \E new \in Caller :
                /\ callers' = [callers EXCEPT ![c] = new]
                /\ new.prepared = callers[c].prepared
                /\ new.approved = callers[c].approved
                /\ \/ /\ new.pc = "audit_approved"
                      /\ record'.version = record.version + 1
                      /\ new.version = record.version + 1
                   \/ new.pc = "prepared" /\ record' = record
<1>1. /\ callers[c].pc = "put_executing"
      /\ UNCHANGED <<queueVars, audit, stages, executions, outages>>
  BY DEF PutExecuting
<1>2. CASE record.version = callers[c].version
  <2> DEFINE next == record.version + 1
             new == [callers[c] EXCEPT !.pc = "audit_approved", !.version = next]
  <2>1. "executing" \in WorkflowStatus /\ record.plan_hash \in JobIds
    BY <1>1, CallerHolds DEF WorkflowStatus
  <2>2. /\ record' \in WorkflowRecord
        /\ record'.version = record.version + 1
        /\ record'.plan_hash = record.plan_hash
    BY <1>2, <2>1, Written, CallerHolds DEF PutExecuting
  <2>3. next \in Nat
    BY CallerHolds
  <2>4. callers' = [callers EXCEPT ![c] = new]
    BY <1>2 DEF PutExecuting
  <2>5. record'.version > 0
    BY <2>2, CallerHolds
  <2> HIDE DEF next
  <2>6. /\ new \in Caller /\ new.pc = "audit_approved" /\ new.version = next
        /\ new.prepared = callers[c].prepared
        /\ new.approved = callers[c].approved
    BY <2>3, CallerHolds DEF Caller
  <2> HIDE DEF new
  <2> QED  BY <1>1, <2>1, <2>2, <2>4, <2>5, <2>6 DEF next
<1>3. CASE record.version # callers[c].version
  <2> DEFINE new == [callers[c] EXCEPT !.pc = "prepared"]
  <2>1. /\ new \in Caller /\ new.pc = "prepared"
        /\ new.prepared = callers[c].prepared
        /\ new.approved = callers[c].approved
    BY CallerHolds DEF Caller
  <2>2. callers' = [callers EXCEPT ![c] = new] /\ record' = record
    BY <1>3 DEF PutExecuting
  <2> HIDE DEF new
  <2> QED  BY <1>1, <2>1, <2>2, CallerHolds
<1> QED  BY <1>2, <1>3

\* Writing `executing' on the version the approval was verified against.
LEMMA PutExecutingKeepsHold ==
    ASSUME HoldInv, NEW c \in Callers, PutExecuting(c)
    PROVE  HoldInv'
<1>1. PICK new \in Caller :
        /\ callers' = [callers EXCEPT ![c] = new]
        /\ new.prepared = callers[c].prepared
        /\ new.approved = callers[c].approved
        /\ \/ new.pc = "audit_approved" /\ record'.version = record.version + 1
           \/ new.pc = "prepared" /\ record' = record
  BY PutExecutingEffect
<1>2. /\ callers[c].pc = "put_executing"
      /\ UNCHANGED <<queueVars, audit, stages, executions, outages>>
      /\ record' \in WorkflowRecord
      /\ record'.version > 0 /\ record'.plan_hash \in JobIds
  BY PutExecutingEffect
<1>3. record'.version >= record.version
  BY <1>1, CallerHolds
<1> QED  BY <1>1, <1>2, <1>3, CallerHolds, CallerKeepsHold

\* Logging the approval.
LEMMA AuditApprovedKeepsHold ==
    ASSUME HoldInv, NEW c \in Callers, AuditApproved(c)
    PROVE  HoldInv'
<1> DEFINE new == [callers[c] EXCEPT !.pc = "enqueue"]
<1>1. /\ callers[c].pc = "audit_approved"
      /\ UNCHANGED <<queueVars, record, stages, executions, outages>>
  BY DEF AuditApproved
<1>2. audit' \in Seq(AuditEvent)
  BY <1>1, CallerHolds, Logged DEF AuditApproved
<1>3. /\ new \in Caller /\ new.pc = "enqueue" /\ new.prepared = callers[c].prepared
      /\ new.approved = callers[c].approved
  BY CallerHolds DEF Caller
<1>4. callers' = [callers EXCEPT ![c] = new]
  BY DEF AuditApproved
<1>5. record'.version >= record.version
  BY <1>1, CallerHolds
<1> HIDE DEF new
<1> QED  BY <1>1, <1>2, <1>3, <1>4, <1>5, CallerHolds, CallerKeepsHold

\* A request that dies.
LEMMA CallerDiesKeepsHold ==
    ASSUME HoldInv, NEW c \in Callers, CallerDies(c)
    PROVE  HoldInv'
<1>1. /\ callers' = [callers EXCEPT ![c] = IdleCaller]
      /\ UNCHANGED <<queueVars, record, audit, stages, executions, outages>>
  BY DEF CallerDies
<1>2. record'.version >= record.version
  BY <1>1, CallerHolds
<1> QED  BY <1>1, <1>2, IdleTypes, CallerHolds, CallerKeepsHold

\* Enqueueing the job of the prepared plan.
LEMMA EnqueueJobKeepsHold ==
    ASSUME HoldInv, NEW c \in Callers, EnqueueJob(c)
    PROVE  HoldInv'
<1>1. /\ callers[c].pc = "enqueue" /\ Enqueue(callers[c].prepared)
      /\ callers' = [callers EXCEPT ![c] = IdleCaller]
      /\ UNCHANGED <<record, audit, stages, executions, outages>>
  BY DEF EnqueueJob
<1>2. callers[c].prepared \in JobIds /\ record.version > 0
  BY <1>1, CallerHolds
<1>3. QueueInv' /\ UNCHANGED workers
  BY <1>1, <1>2, EnqueueKeepsQueue DEF HoldInv, Enqueue
<1>4. /\ callers' \in [Callers -> Caller] /\ callers'[c] = IdleCaller
      /\ \A b \in Callers \ {c} : callers'[b] = callers[b]
  BY <1>1, CallerSteps, IdleTypes DEF HoldInv, HealingTypes
<1>5. HealingTypes'
  BY <1>1, <1>4 DEF HoldInv, HealingTypes
<1>6. StageFollowsWorker'
  BY <1>1, <1>3 DEF HoldInv, StageFollowsWorker
<1>7. RecordComesFirst'
  BY <1>1, <1>2, <1>4, IdleTypes DEF HoldInv, RecordComesFirst
<1> QED  BY <1>3, <1>5, <1>6, <1>7 DEF HoldInv
\* A stage of handle_job that leaves the queue alone.
LEMMA QuietStageKeepsHold ==
    ASSUME HoldInv, NEW w \in Workers, NEW new \in Stage,
           stages' = [stages EXCEPT ![w] = new],
           stages[w].pc # "idle", new.pc # "idle",
           UNCHANGED <<queueVars, callers>>,
           audit' \in Seq(AuditEvent), executions' \in Seq(JobIds),
           outages' \subseteq JobIds,
           record' \in WorkflowRecord, record'.version >= record.version,
           record'.version > 0 => record'.plan_hash \in JobIds
    PROVE  HoldInv'
<1>1. UNCHANGED <<jobs, workers>>
  BY DEF queueVars
<1>2. workers'[w].pc = "handling"
  BY <1>1, StageHolds
<1> QED  BY <1>1, <1>2, StageKeepsHold

\* A handler that fails reads its job and leaves handle_job.
LEMMA HandlerFailsEffect ==
    ASSUME HoldInv, NEW w \in Workers, HandlerFails(w)
    PROVE  /\ stages' = [stages EXCEPT ![w] = IdleStage]
           /\ UNCHANGED <<jobs, now, overran, crashed>> /\ JobQueueNext
           /\ workers'[w].pc = "failing" /\ workers'[w].job = workers[w].job
           /\ \A v \in Workers \ {w} : workers'[v] = workers[v]
  BY DEF HandlerFails, HandlerRaises, JobQueueNext, HoldInv, QueueInv, QueueTypes,
     Worker

\* It keeps what everyone holds.
LEMMA HandlerFailsKeepsHold ==
    ASSUME HoldInv, NEW w \in Workers, HandlerFails(w),
           UNCHANGED <<record, audit, callers, executions>>, outages' \subseteq JobIds
    PROVE  HoldInv'
<1>1. record'.version >= record.version
  BY StageHolds
<1> QED  BY <1>1, HandlerFailsEffect, IdleTypes, StageHolds, StageKeepsHold

\* Claiming a job.
LEMMA ClaimJobKeepsHold ==
    ASSUME HoldInv, NEW w \in Workers, ClaimJob(w)
    PROVE  HoldInv'
<1> DEFINE new == [stages[w] EXCEPT !.pc = "simulate"]
<1>1. /\ Claim(w) /\ stages' = [stages EXCEPT ![w] = new]
      /\ UNCHANGED <<record, audit, callers, executions, outages>>
  BY DEF ClaimJob, Goto
<1>2. new \in Stage /\ new.pc # "idle"
  BY StageHolds DEF Stage
<1>3. PICK j \in JobIds :
        /\ Claimable(j)
        /\ \A k \in JobIds \ {j} : jobs'[k] = jobs[k]
        /\ workers' = [workers EXCEPT ![w] =
                          [pc |-> "handling", job |-> j,
                           lease_until |-> now + LeaseSeconds,
                           attempts |-> 0, at |-> 0]]
  BY <1>1, ClaimEffect DEF HoldInv
<1>4. /\ \A v \in Workers \ {w} : workers'[v].pc = workers[v].pc
      /\ workers'[w].pc = "handling"
      /\ \A k \in JobIds : jobs'[k].status # "absent" => jobs[k].status # "absent"
  BY <1>3 DEF Claimable, HoldInv, QueueInv, QueueTypes
<1>5. JobQueueNext
  BY <1>1 DEF JobQueueNext
<1>6. record'.version >= record.version
  BY <1>1, StageHolds
<1> HIDE DEF new
<1> QED  BY <1>1, <1>2, <1>4, <1>5, <1>6, StageHolds, StageKeepsHold

\* Simulating.
LEMMA SimulateKeepsHold ==
    ASSUME HoldInv, NEW w \in Workers, Simulate(w)
    PROVE  HoldInv'
<1>1. stages[w].pc = "simulate" /\ UNCHANGED <<record, audit, callers, executions, outages>>
  BY DEF Simulate, At
<1>2. CASE HandlerFails(w)
  BY <1>1, <1>2, StageHolds, HandlerFailsKeepsHold
<1>3. CASE Goto(w, "execute") /\ UNCHANGED queueVars
  <2> DEFINE new == [stages[w] EXCEPT !.pc = "execute"]
  <2>1. new \in Stage /\ new.pc # "idle" /\ stages' = [stages EXCEPT ![w] = new]
    BY <1>3, StageHolds DEF Stage, Goto
  <2>2. record'.version >= record.version
    BY <1>1, StageHolds
  <2> HIDE DEF new
  <2> QED  BY <1>1, <1>3, <2>1, <2>2, StageHolds, QuietStageKeepsHold
<1> QED  BY <1>2, <1>3 DEF Simulate

\* What Execute does: the stage moves on, and production may have changed.
LEMMA ExecuteEffect ==
    ASSUME HoldInv, NEW w \in Workers, Execute(w)
    PROVE  /\ stages[w].pc = "execute"
           /\ UNCHANGED <<queueVars, record, audit, callers, outages>>
           /\ \/ executions' = executions
              \/ executions' = Append(executions, workers[w].job)
           /\ \E new \in Stage :
                new.pc = "finish" /\ stages' = [stages EXCEPT ![w] = new]
<1>1. /\ stages[w].pc = "execute"
      /\ UNCHANGED <<queueVars, record, audit, callers, outages>>
      /\ \/ executions' = executions
         \/ executions' = Append(executions, workers[w].job)
  BY DEF Execute, At
<1>2. PICK status \in Refusals \union Results :
          stages' = [stages EXCEPT ![w].pc = "finish", ![w].status = status]
  BY DEF Execute
<1> DEFINE new == [stages[w] EXCEPT !.pc = "finish", !.status = status]
<1>3. new \in Stage /\ new.pc = "finish"
  BY StageHolds DEF Stage
<1>4. stages' = [stages EXCEPT ![w] = new]
  BY <1>2
<1> HIDE DEF new
<1> QED  BY <1>1, <1>3, <1>4

\* Executing.
LEMMA ExecuteKeepsHold ==
    ASSUME HoldInv, NEW w \in Workers, Execute(w)
    PROVE  HoldInv'
<1>1. /\ stages[w].pc = "execute"
      /\ UNCHANGED <<queueVars, record, audit, callers, outages>>
      /\ \/ executions' = executions
         \/ executions' = Append(executions, workers[w].job)
  BY ExecuteEffect
<1>2. PICK new \in Stage : new.pc = "finish" /\ stages' = [stages EXCEPT ![w] = new]
  BY ExecuteEffect
<1>3. executions' \in Seq(JobIds)
  BY <1>1, StageHolds, AppendProperties
<1>4. record'.version >= record.version
  BY <1>1, StageHolds
<1> QED  BY <1>1, <1>2, <1>3, <1>4, StageHolds, QuietStageKeepsHold

\* Reading the record to finish.
LEMMA FinishKeepsHold ==
    ASSUME HoldInv, NEW w \in Workers, Finish(w)
    PROVE  HoldInv'
<1> DEFINE new == [stages[w] EXCEPT !.pc = "put_result", !.version = record.version]
<1>1. /\ stages[w].pc = "finish" /\ stages' = [stages EXCEPT ![w] = new]
      /\ UNCHANGED <<queueVars, record, audit, callers, executions, outages>>
  BY DEF Finish, At
<1>2. new \in Stage /\ new.pc # "idle"
  BY StageHolds DEF Stage
<1>3. record'.version >= record.version
  BY <1>1, StageHolds
<1> HIDE DEF new
<1> QED  BY <1>1, <1>2, <1>3, StageHolds, QuietStageKeepsHold

\* What PutResult does.
LEMMA PutResultEffect ==
    ASSUME HoldInv, NEW w \in Workers, PutResult(w)
    PROVE  /\ stages[w].pc = "put_result" /\ UNCHANGED <<audit, callers, executions>>
           /\ \/ /\ UNCHANGED <<queueVars, outages>>
                 /\ record' \in WorkflowRecord
                 /\ record'.version = record.version + 1
                 /\ record'.plan_hash \in JobIds
                 /\ record'.plan_hash = record.plan_hash
                 /\ \E new \in Stage :
                      /\ new.pc = "audit_result" /\ new.version = record.version + 1
                      /\ stages' = [stages EXCEPT ![w] = new]
              \/ /\ HandlerFails(w) /\ UNCHANGED record
                 /\ outages' = outages \union {workers[w].job}
<1>1. stages[w].pc = "put_result" /\ UNCHANGED <<audit, callers, executions>>
  BY DEF PutResult, At
<1>2. CASE /\ record.version = stages[w].version
           /\ Put(WorkflowStatusForTerminal(stages[w].status), record.plan_hash)
           /\ stages' = [stages EXCEPT ![w].pc = "audit_result", ![w].version = @ + 1]
           /\ UNCHANGED <<queueVars, outages>>
  <2> DEFINE next == record.version + 1
             new == [stages[w] EXCEPT !.pc = "audit_result", !.version = next]
  <2>1. record.plan_hash \in JobIds /\ next \in Nat
    BY <1>1, StageHolds
  <2>2. WorkflowStatusForTerminal(stages[w].status) \in WorkflowStatus
    BY DEF WorkflowStatusForTerminal, WorkflowStatus, Terminal
  <2>3. /\ record' \in WorkflowRecord /\ record'.version = record.version + 1
        /\ record'.plan_hash \in JobIds /\ record'.plan_hash = record.plan_hash
    BY <1>2, <2>1, <2>2, Written, StageHolds
  <2>4. stages' = [stages EXCEPT ![w] = new]
    BY <1>2
  <2> HIDE DEF next
  <2>5. new \in Stage /\ new.pc = "audit_result" /\ new.version = next
    BY <2>1, StageHolds DEF Stage
  <2> HIDE DEF new
  <2> QED  BY <1>1, <1>2, <2>3, <2>4, <2>5 DEF next
<1> QED  BY <1>1, <1>2 DEF PutResult

\* Writing the result.
LEMMA PutResultKeepsHold ==
    ASSUME HoldInv, NEW w \in Workers, PutResult(w)
    PROVE  HoldInv'
<1>1. stages[w].pc = "put_result" /\ UNCHANGED <<audit, callers, executions>>
  BY PutResultEffect
<1>2. CASE HandlerFails(w) /\ UNCHANGED record /\ outages' = outages \union {workers[w].job}
  BY <1>1, <1>2, StageHolds, HandlerFailsKeepsHold
<1>3. CASE /\ UNCHANGED <<queueVars, outages>>
           /\ record' \in WorkflowRecord /\ record'.version = record.version + 1
           /\ record'.plan_hash \in JobIds
           /\ \E new \in Stage :
                /\ new.pc = "audit_result" /\ new.version = record.version + 1
                /\ stages' = [stages EXCEPT ![w] = new]
  <2>1. record'.version >= record.version
    BY <1>3, StageHolds
  <2> QED  BY <1>1, <1>3, <2>1, StageHolds, QuietStageKeepsHold
<1> QED  BY <1>2, <1>3, PutResultEffect

\* Logging the result.
LEMMA AuditResultKeepsHold ==
    ASSUME HoldInv, NEW w \in Workers, AuditResult(w)
    PROVE  HoldInv'
<1>1. stages[w].pc = "audit_result" /\ UNCHANGED <<record, callers, executions>>
  BY DEF AuditResult, At
<1>2. CASE HandlerFails(w) /\ outages' = outages \union {workers[w].job} /\ UNCHANGED audit
  BY <1>1, <1>2, StageHolds, HandlerFailsKeepsHold
<1>3. CASE /\ Log("result", stages[w].version, record.plan_hash)
           /\ Goto(w, "return") /\ UNCHANGED <<queueVars, outages>>
  <2> DEFINE new == [stages[w] EXCEPT !.pc = "return"]
  <2>1. new \in Stage /\ new.pc # "idle" /\ stages' = [stages EXCEPT ![w] = new]
    BY <1>3, StageHolds DEF Stage, Goto
  <2>2. audit' \in Seq(AuditEvent)
    BY <1>1, <1>3, Logged, StageHolds
  <2>3. record'.version >= record.version
    BY <1>1, StageHolds
  <2> HIDE DEF new
  <2> QED  BY <1>1, <1>3, <2>1, <2>2, <2>3, StageHolds, QuietStageKeepsHold
<1> QED  BY <1>2, <1>3 DEF AuditResult

\* What letting go of a job does to the workers and to the jobs.
LEMMA LettingGoEffect ==
    ASSUME HoldInv, NEW w \in Workers, HandlerReturns(w) \/ Fail(w) \/ WorkerDies(w)
    PROVE  /\ JobQueueNext /\ workers'[w] = IdleWorker /\ workers[w].job \in JobIds
           /\ \A v \in Workers \ {w} : workers'[v] = workers[v]
           /\ \A k \in JobIds \ {workers[w].job} : jobs'[k] = jobs[k]
           /\ \A k \in JobIds : jobs'[k].status # "absent" <=> jobs[k].status # "absent"
<1>1. /\ workers \in [Workers -> Worker] /\ jobs \in [JobIds -> QueueRow]
      /\ Busy(w)
  BY DEF HoldInv, QueueInv, QueueTypes, Busy, HandlerReturns, Fail, WorkerDies
<1>2. /\ workers[w].job \in JobIds
      /\ jobs[workers[w].job].status # "absent"
  BY <1>1 DEF HoldInv, QueueInv, BusyHasJob
<1>3. JobQueueNext /\ workers' = [workers EXCEPT ![w] = IdleWorker]
  BY DEF JobQueueNext, HandlerReturns, Fail, WorkerDies
<1>4. CASE HandlerReturns(w)
  BY <1>1, <1>2, <1>3, <1>4 DEF HandlerReturns, QueueRow
<1>5. CASE Fail(w)
  <2>1. jobs'[workers[w].job].status # "absent"
    BY <1>5, FailKeepsQueue DEF HoldInv
  <2>2. \A k \in JobIds \ {workers[w].job} : jobs'[k] = jobs[k]
    BY <1>1, <1>5 DEF Fail
  <2> QED  BY <1>1, <1>2, <1>3, <2>1, <2>2
<1>6. CASE WorkerDies(w)
  BY <1>1, <1>2, <1>3, <1>6 DEF WorkerDies
<1> QED  BY <1>4, <1>5, <1>6

\* Returning, failing or dying: the stage is idle again with the worker.
LEMMA LettingGoKeepsHold ==
    ASSUME HoldInv, NEW w \in Workers, ReturnResult(w) \/ FailJob(w) \/ JobWorkerDies(w)
    PROVE  HoldInv'
<1>1. /\ HandlerReturns(w) \/ Fail(w) \/ WorkerDies(w)
      /\ UNCHANGED <<record, audit, callers, executions, outages>>
  BY DEF ReturnResult, FailJob, JobWorkerDies, healing
<1>2. /\ JobQueueNext /\ workers'[w] = IdleWorker
      /\ \A v \in Workers \ {w} : workers'[v] = workers[v]
      /\ \A k \in JobIds : jobs'[k].status # "absent" <=> jobs[k].status # "absent"
  BY <1>1, LettingGoEffect
<1>3. workers'[w].pc = "idle" /\ record'.version >= record.version
  BY <1>1, <1>2, StageHolds DEF IdleWorker
<1>4. CASE stages' = [stages EXCEPT ![w] = IdleStage]
  BY <1>1, <1>2, <1>3, <1>4, IdleTypes, StageHolds, StageKeepsHold
<1>5. CASE FailJob(w)
  <2>1. stages[w].pc = "idle" /\ stages' = [stages EXCEPT ![w] = stages[w]]
    BY <1>5 DEF FailJob, Fail, healing, HoldInv, HealingTypes, StageFollowsWorker
  <2> QED  BY <1>1, <1>2, <1>3, <2>1, StageHolds, StageKeepsHold
<1> QED  BY <1>4, <1>5 DEF ReturnResult, JobWorkerDies

\* Time passes.
LEMMA TimePassesKeepsHold ==
    ASSUME HoldInv, TimePasses
    PROVE  HoldInv'
<1>1. UNCHANGED <<jobs, workers, record, audit, callers, stages, executions, outages>>
  BY DEF TimePasses, Tick, healing
<1>2. QueueInv'
  BY TickKeepsQueue DEF HoldInv, TimePasses
<1> QED  BY <1>1, <1>2 DEF HoldInv, HealingTypes, StageFollowsWorker, RecordComesFirst

\* Every step preserves who holds what.
LEMMA HoldNext == HoldInv /\ [Next]_vars => HoldInv'
<1> SUFFICES ASSUME HoldInv, [Next]_vars PROVE HoldInv'
  OBVIOUS
<1>1. CASE UNCHANGED vars
  <2>1. QueueInv'
    BY <1>1, QueueNext DEF HoldInv, vars
  <2> QED  BY <1>1, <2>1 DEF vars, queueVars, HoldInv, HealingTypes, StageFollowsWorker,
                             RecordComesFirst
<1>2. CASE Next
  BY <1>2, PrepareKeepsHold, ApproveKeepsHold, AuditPlannedKeepsHold,
     PutExecutingKeepsHold, AuditApprovedKeepsHold, EnqueueJobKeepsHold,
     CallerDiesKeepsHold, ClaimJobKeepsHold, SimulateKeepsHold, ExecuteKeepsHold,
     FinishKeepsHold, PutResultKeepsHold, AuditResultKeepsHold, LettingGoKeepsHold,
     TimePassesKeepsHold
     DEF Next
<1> QED  BY <1>1, <1>2

-----------------------------------------------------------------------------
(* VersionInv *)

\* The versions are numbers.
LEMMA Versions ==
    ASSUME HoldInv
    PROVE  /\ record.version \in Nat
           /\ \A i \in DOMAIN audit : audit[i].version \in Nat
           /\ \A c \in Callers : callers[c].version \in Nat
           /\ \A w \in Workers : stages[w].version \in Nat
<1>1. audit \in Seq(AuditEvent)
  BY DEF HoldInv, HealingTypes
<1>2. \A i \in DOMAIN audit : audit[i] \in AuditEvent
  BY <1>1, ElementOfSeq, LenProperties
<1>3. \A i \in DOMAIN audit : audit[i].version \in Nat
  BY <1>2 DEF AuditEvent
<1> QED  BY <1>3 DEF HoldInv, HealingTypes, WorkflowRecord, Caller, Stage

\* Nothing is logged, and nobody comes to owe a version.
LEMMA QuietVersions ==
    ASSUME HoldInv, HoldInv', VersionInv, UNCHANGED audit,
           record'.version >= record.version,
           \A c \in Callers : Owes(c)' => Owes(c) /\ callers'[c].version = callers[c].version,
           \A w \in Workers :
               OwesResult(w)' => OwesResult(w) /\ stages'[w].version = stages[w].version
    PROVE  VersionInv'
<1>1. /\ record.version \in Nat /\ record'.version \in Nat
      /\ \A i \in DOMAIN audit : audit[i].version \in Nat
      /\ \A c \in Callers : callers[c].version \in Nat
      /\ \A w \in Workers : stages[w].version \in Nat
  BY Versions DEF HoldInv, HealingTypes, WorkflowRecord
<1>2. ASSUME NEW n \in Nat, n <= record.version PROVE n <= record'.version
  BY <1>1, <1>2
<1>3. ASSUME NEW n \in Nat, Unlogged(n) PROVE Unlogged(n)'
  BY <1>2, <1>3 DEF Unlogged
<1>4. \A c \in Callers : Owes(c)' => Unlogged(callers[c].version)'
  BY <1>1, <1>3 DEF VersionInv, Unlogged
<1>5. \A w \in Workers : OwesResult(w)' => Unlogged(stages[w].version)'
  BY <1>1, <1>3 DEF VersionInv, Unlogged
<1>6. \A i \in DOMAIN audit' : audit'[i].version <= record'.version
  BY <1>1, <1>2 DEF VersionInv
<1> QED  BY <1>4, <1>5, <1>6 DEF VersionInv

\* A version is logged that was owed, and nobody owes it any more.
LEMMA LoggedVersion ==
    ASSUME HoldInv, HoldInv', VersionInv, UNCHANGED record,
           NEW action \in {"planned", "approved", "result"}, NEW n \in Nat,
           NEW plan_hash \in JobIds, Log(action, n, plan_hash), Unlogged(n),
           \A c \in Callers : Owes(c)' => /\ Owes(c) /\ callers[c].version # n
                                          /\ callers'[c].version = callers[c].version,
           \A w \in Workers : OwesResult(w)' => /\ OwesResult(w) /\ stages[w].version # n
                                                /\ stages'[w].version = stages[w].version
    PROVE  VersionInv'
<1>1. /\ Len(audit) \in Nat
      /\ DOMAIN audit = 1..Len(audit) /\ DOMAIN audit' = 1..(Len(audit) + 1)
      /\ \A i \in 1..Len(audit) : audit'[i] = audit[i]
      /\ audit'[Len(audit) + 1].version = n
  BY Logged DEF HoldInv, HealingTypes
<1>2. \A i \in DOMAIN audit' : \/ i \in DOMAIN audit /\ audit'[i] = audit[i]
                               \/ i = Len(audit) + 1 /\ audit'[i].version = n
  BY <1>1
<1>3. ASSUME NEW m \in Nat, m # n, Unlogged(m) PROVE Unlogged(m)'
  BY <1>2, <1>3 DEF Unlogged
<1>4. \A i \in DOMAIN audit' : audit'[i].version <= record'.version
  BY <1>2 DEF VersionInv, Unlogged
<1>5. \A i, j \in DOMAIN audit' : audit'[i].version = audit'[j].version => i = j
  BY <1>2 DEF VersionInv, Unlogged
<1>6. /\ \A c \in Callers : callers[c].version \in Nat
      /\ \A w \in Workers : stages[w].version \in Nat
  BY DEF HoldInv, HealingTypes, Caller, Stage
<1>7. \A c \in Callers : Owes(c)' => Unlogged(callers[c].version)'
  BY <1>3, <1>6 DEF VersionInv, Unlogged
<1>8. \A w \in Workers : OwesResult(w)' => Unlogged(stages[w].version)'
  BY <1>3, <1>6 DEF VersionInv, Unlogged
<1> QED  BY <1>4, <1>5, <1>7, <1>8 DEF VersionInv

\* A new version is above every other one.
LEMMA FreshVersion ==
    ASSUME HoldInv, HoldInv', VersionInv, UNCHANGED audit,
           record'.version = record.version + 1
    PROVE  /\ \A i \in DOMAIN audit : /\ audit[i].version <= record'.version
                                      /\ audit[i].version # record'.version
           /\ \A c \in Callers : Owes(c) =>
                /\ callers[c].version <= record'.version
                /\ callers[c].version # record'.version
                /\ \A i \in DOMAIN audit : audit[i].version # callers[c].version
           /\ \A w \in Workers : OwesResult(w) =>
                /\ stages[w].version <= record'.version
                /\ stages[w].version # record'.version
                /\ \A i \in DOMAIN audit : audit[i].version # stages[w].version
           /\ record'.version \in Nat
<1>1. /\ record.version \in Nat
      /\ \A i \in DOMAIN audit : audit[i].version \in Nat
      /\ \A c \in Callers : callers[c].version \in Nat
      /\ \A w \in Workers : stages[w].version \in Nat
  BY Versions
<1>2. ASSUME NEW n \in Nat, n <= record.version
      PROVE  n <= record'.version /\ n # record'.version
  BY <1>1, <1>2
<1> QED  BY <1>1, <1>2 DEF VersionInv, Unlogged

\* A request writes the record and owes the event of the version it wrote.
LEMMA CallerWrites ==
    ASSUME HoldInv, HoldInv', VersionInv, UNCHANGED <<audit, stages>>,
           record'.version = record.version + 1, NEW c \in Callers,
           callers'[c].version = record'.version,
           \A b \in Callers \ {c} : callers'[b] = callers[b]
    PROVE  VersionInv'
<1>1. \A b \in Callers \ {c} : Owes(b)' <=> Owes(b)
  BY DEF Owes
<1>2. \A w \in Workers : OwesResult(w)' <=> OwesResult(w)
  BY DEF OwesResult
<1>3. record'.version <= record'.version
  BY FreshVersion
<1>4. \A b \in Callers : Owes(b)' => Unlogged(callers[b].version)'
  BY <1>1, <1>3, FreshVersion DEF Unlogged
<1>5. \A w \in Workers : OwesResult(w)' => Unlogged(stages[w].version)'
  BY <1>2, FreshVersion DEF Unlogged
<1>6. \A a, b \in Callers :
        Owes(a)' /\ Owes(b)' /\ callers'[a].version = callers'[b].version => a = b
  BY <1>1, FreshVersion DEF VersionInv
<1>7. \A b \in Callers, w \in Workers :
        Owes(b)' /\ OwesResult(w)' => callers'[b].version # stages'[w].version
  BY <1>1, <1>2, FreshVersion DEF VersionInv
<1> QED  BY <1>2, <1>4, <1>5, <1>6, <1>7, FreshVersion DEF VersionInv

\* A worker writes the record and owes the event of the version it wrote.
LEMMA StageWrites ==
    ASSUME HoldInv, HoldInv', VersionInv, UNCHANGED <<audit, callers>>,
           record'.version = record.version + 1, NEW w \in Workers,
           stages'[w].version = record'.version,
           \A v \in Workers \ {w} : stages'[v] = stages[v]
    PROVE  VersionInv'
<1>1. \A v \in Workers \ {w} : OwesResult(v)' <=> OwesResult(v)
  BY DEF OwesResult
<1>2. \A c \in Callers : Owes(c)' <=> Owes(c)
  BY DEF Owes
<1>3. record'.version <= record'.version
  BY FreshVersion
<1>4. \A v \in Workers : OwesResult(v)' => Unlogged(stages[v].version)'
  BY <1>1, <1>3, FreshVersion DEF Unlogged
<1>5. \A c \in Callers : Owes(c)' => Unlogged(callers[c].version)'
  BY <1>2, FreshVersion DEF Unlogged
<1>6. \A u, v \in Workers :
        OwesResult(u)' /\ OwesResult(v)' /\ stages'[u].version = stages'[v].version => u = v
  BY <1>1, FreshVersion DEF VersionInv
<1>7. \A c \in Callers, v \in Workers :
        Owes(c)' /\ OwesResult(v)' => callers'[c].version # stages'[v].version
  BY <1>1, <1>2, FreshVersion DEF VersionInv
<1> QED  BY <1>2, <1>4, <1>5, <1>6, <1>7, FreshVersion DEF VersionInv

\* Every step preserves which versions are logged, and by whom the others are owed.
LEMMA VersionNext == HoldInv /\ VersionInv /\ [Next]_vars => VersionInv'
<1> SUFFICES ASSUME HoldInv, VersionInv, [Next]_vars PROVE VersionInv'
  OBVIOUS
<1>0. HoldInv' /\ record.version \in Nat /\ record.version >= record.version
  BY HoldNext, Versions
<1>1. ASSUME UNCHANGED <<record, audit, callers, stages>> PROVE VersionInv'
  BY <1>0, <1>1, QuietVersions DEF Owes, OwesResult
<1>2. ASSUME NEW c \in Callers, NEW plan_hash \in PlanHashes, Prepare(c, plan_hash)
      PROVE  VersionInv'
  <2>1. /\ record'.version = record.version + 1 /\ UNCHANGED <<audit, stages>>
        /\ callers'[c].version = record.version + 1
        /\ \A b \in Callers \ {c} : callers'[b] = callers[b]
    BY <1>2, <1>0 DEF Prepare, Put, HoldInv, HealingTypes, WorkflowRecord
  <2> QED  BY <1>0, <2>1, CallerWrites
<1>3. ASSUME NEW c \in Callers, UNCHANGED <<record, audit, stages>>,
             NEW new, callers' = [callers EXCEPT ![c] = new],
             new.pc \notin {"audit_planned", "audit_approved"}
      PROVE  VersionInv'
  <2>1. callers'[c] = new /\ \A b \in Callers \ {c} : callers'[b] = callers[b]
    BY <1>3 DEF HoldInv, HealingTypes
  <2>2. ~Owes(c)' /\ \A b \in Callers \ {c} : Owes(b)' <=> Owes(b)
    BY <1>3, <2>1 DEF Owes
  <2>3. \A w \in Workers : OwesResult(w)' <=> OwesResult(w)
    BY <1>3 DEF OwesResult
  <2> QED  BY <1>0, <1>3, <2>1, <2>2, <2>3, QuietVersions
<1>4. ASSUME NEW c \in Callers, NEW plan_hash \in PlanHashes, Approve(c, plan_hash)
      PROVE  VersionInv'
  <2> DEFINE new == [callers[c] EXCEPT !.pc = "put_executing", !.approved = plan_hash,
                                       !.version = record.version]
  <2>1. callers' = [callers EXCEPT ![c] = new] /\ new.pc = "put_executing"
    BY <1>4, CallerHolds DEF Approve, Caller
  <2> HIDE DEF new
  <2> QED  BY <1>3, <1>4, <2>1 DEF Approve
<1>5. ASSUME NEW c \in Callers, PutExecuting(c) PROVE VersionInv'
  <2>1. PICK new \in Caller :
          /\ callers' = [callers EXCEPT ![c] = new]
          /\ \/ /\ new.pc = "audit_approved"
                /\ record'.version = record.version + 1
                /\ new.version = record.version + 1
             \/ new.pc = "prepared" /\ record' = record
    BY <1>5, PutExecutingEffect
  <2>2. UNCHANGED <<audit, stages>>
    BY <1>5 DEF PutExecuting
  <2>3. callers'[c] = new /\ \A b \in Callers \ {c} : callers'[b] = callers[b]
    BY <2>1 DEF HoldInv, HealingTypes
  <2>4. CASE record'.version = record.version + 1 /\ new.version = record.version + 1
    BY <1>0, <2>2, <2>3, <2>4, CallerWrites
  <2> QED  BY <1>3, <2>1, <2>2, <2>4
<1>6. ASSUME NEW c \in Callers, CallerDies(c) \/ EnqueueJob(c) PROVE VersionInv'
  <2>1. callers' = [callers EXCEPT ![c] = IdleCaller] /\ UNCHANGED <<record, audit, stages>>
    BY <1>6 DEF CallerDies, EnqueueJob
  <2> QED  BY <1>3, <2>1, IdleTypes
<1>7. ASSUME NEW c \in Callers, AuditPlanned(c) \/ AuditApproved(c) PROVE VersionInv'
  <2>1. PICK action \in {"planned", "approved"}, plan_hash \in JobIds :
            Log(action, callers[c].version, plan_hash)
    BY <1>7, CallerHolds DEF AuditPlanned, AuditApproved
  <2>2. Owes(c) /\ UNCHANGED <<record, stages>> /\ callers[c].version \in Nat
    BY <1>7, CallerHolds DEF AuditPlanned, AuditApproved, Owes
  <2>3. /\ callers'[c].pc \in {"prepared", "enqueue"}
        /\ \A b \in Callers \ {c} : callers'[b] = callers[b]
    BY <1>7 DEF AuditPlanned, AuditApproved, HoldInv, HealingTypes, Caller
  <2>4. ~Owes(c)' /\ \A b \in Callers \ {c} : Owes(b)' <=> Owes(b)
    BY <2>3 DEF Owes
  <2>5. \A w \in Workers : OwesResult(w)' <=> OwesResult(w)
    BY <2>2 DEF OwesResult
  <2>6. /\ Unlogged(callers[c].version)
        /\ \A b \in Callers \ {c} : Owes(b) => callers[b].version # callers[c].version
        /\ \A w \in Workers : OwesResult(w) => stages[w].version # callers[c].version
    BY <2>2 DEF VersionInv
  <2> QED  BY <1>0, <2>1, <2>2, <2>3, <2>4, <2>5, <2>6, LoggedVersion
<1>8. ASSUME NEW w \in Workers, UNCHANGED <<record, audit, callers>>,
             NEW new, stages' = [stages EXCEPT ![w] = new], new.pc # "audit_result"
      PROVE  VersionInv'
  <2>1. stages'[w] = new /\ \A v \in Workers \ {w} : stages'[v] = stages[v]
    BY <1>8 DEF HoldInv, HealingTypes
  <2>2. ~OwesResult(w)' /\ \A v \in Workers \ {w} : OwesResult(v)' <=> OwesResult(v)
    BY <1>8, <2>1 DEF OwesResult
  <2>3. \A c \in Callers : Owes(c)' <=> Owes(c)
    BY <1>8 DEF Owes
  <2> QED  BY <1>0, <1>8, <2>1, <2>2, <2>3, QuietVersions
<1>9. ASSUME NEW w \in Workers, HandlerFails(w), UNCHANGED <<record, audit, callers>>
      PROVE  VersionInv'
  BY <1>8, <1>9, IdleTypes DEF HandlerFails
<1>10. ASSUME NEW w \in Workers, NEW pc \in {"simulate", "execute"}, Goto(w, pc),
              UNCHANGED <<record, audit, callers>>
       PROVE  VersionInv'
  <2> DEFINE new == [stages[w] EXCEPT !.pc = pc]
  <2>1. stages' = [stages EXCEPT ![w] = new] /\ new.pc = pc
    BY <1>10, StageHolds DEF Goto, Stage
  <2> HIDE DEF new
  <2> QED  BY <1>8, <1>10, <2>1
<1>11. ASSUME NEW w \in Workers, ClaimJob(w) \/ Simulate(w) PROVE VersionInv'
  BY <1>9, <1>10, <1>11 DEF ClaimJob, Simulate
<1>12. ASSUME NEW w \in Workers, Execute(w) PROVE VersionInv'
  <2>1. PICK new \in Stage : new.pc = "finish" /\ stages' = [stages EXCEPT ![w] = new]
    BY <1>12, ExecuteEffect
  <2> QED  BY <1>8, <1>12, <2>1 DEF Execute
<1>13. ASSUME NEW w \in Workers, Finish(w) PROVE VersionInv'
  <2> DEFINE new == [stages[w] EXCEPT !.pc = "put_result", !.version = record.version]
  <2>1. stages' = [stages EXCEPT ![w] = new] /\ new.pc = "put_result"
    BY <1>13, StageHolds DEF Finish, Stage
  <2> HIDE DEF new
  <2> QED  BY <1>8, <1>13, <2>1 DEF Finish
<1>14. ASSUME NEW w \in Workers, PutResult(w) PROVE VersionInv'
  <2>1. UNCHANGED <<audit, callers>>
    BY <1>14 DEF PutResult
  <2>2. CASE HandlerFails(w) /\ UNCHANGED record
    BY <1>9, <2>1, <2>2
  <2>3. CASE /\ record'.version = record.version + 1
             /\ \E new \in Stage :
                  /\ new.pc = "audit_result" /\ new.version = record.version + 1
                  /\ stages' = [stages EXCEPT ![w] = new]
    <3>1. PICK new \in Stage : /\ new.version = record.version + 1
                               /\ stages' = [stages EXCEPT ![w] = new]
      BY <2>3
    <3>2. stages'[w] = new /\ \A v \in Workers \ {w} : stages'[v] = stages[v]
      BY <3>1 DEF HoldInv, HealingTypes
    <3> QED  BY <1>0, <2>1, <2>3, <3>1, <3>2, StageWrites
  <2> QED  BY <1>14, <2>2, <2>3, PutResultEffect
<1>15. ASSUME NEW w \in Workers, AuditResult(w) PROVE VersionInv'
  <2>1. UNCHANGED <<record, callers>> /\ OwesResult(w)
    BY <1>15 DEF AuditResult, At, OwesResult
  <2>2. CASE HandlerFails(w) /\ UNCHANGED audit
    BY <1>9, <2>1, <2>2
  <2>3. CASE Log("result", stages[w].version, record.plan_hash) /\ Goto(w, "return")
    <3>1. stages[w].version \in Nat /\ record.plan_hash \in JobIds
      BY <2>1, StageHolds DEF OwesResult
    <3>2. /\ stages'[w].pc = "return"
          /\ \A v \in Workers \ {w} : stages'[v] = stages[v]
      BY <2>3 DEF Goto, HoldInv, HealingTypes, Stage
    <3>3. ~OwesResult(w)' /\ \A v \in Workers \ {w} : OwesResult(v)' <=> OwesResult(v)
      BY <3>2 DEF OwesResult
    <3>4. \A c \in Callers : Owes(c)' <=> Owes(c)
      BY <2>1 DEF Owes
    <3>5. /\ Unlogged(stages[w].version)
          /\ \A v \in Workers \ {w} : OwesResult(v) => stages[v].version # stages[w].version
          /\ \A c \in Callers : Owes(c) => callers[c].version # stages[w].version
      BY <2>1 DEF VersionInv
    <3> QED  BY <1>0, <2>1, <2>3, <3>1, <3>2, <3>3, <3>4, <3>5, LoggedVersion
  <2> QED  BY <1>15, <2>2, <2>3 DEF AuditResult
<1>16. ASSUME NEW w \in Workers, ReturnResult(w) \/ JobWorkerDies(w) PROVE VersionInv'
  BY <1>8, <1>16, IdleTypes DEF ReturnResult, JobWorkerDies
<1>17. ASSUME NEW w \in Workers, FailJob(w) PROVE VersionInv'
  BY <1>1, <1>17 DEF FailJob, healing
<1>18. CASE TimePasses
  BY <1>1, <1>18 DEF TimePasses, healing
<1>19. CASE UNCHANGED vars
  BY <1>1, <1>19 DEF vars
<1> QED  BY <1>2, <1>4, <1>5, <1>6, <1>7, <1>11, <1>12, <1>13, <1>14, <1>15, <1>16,
            <1>17, <1>18, <1>19 DEF Next

-----------------------------------------------------------------------------
(* ApprovalInv *)

\* There are finitely many approvals.
LEMMA ApprovalsFinite ==
    ASSUME audit \in Seq(AuditEvent)
    PROVE  IsFiniteSet(ApprovalEvents) /\ Cardinality(ApprovalEvents) \in Nat
<1>1. IsFiniteSet(1..Len(audit)) /\ DOMAIN audit = 1..Len(audit)
  BY FS_Interval, LenProperties
<1>2. ApprovalEvents \subseteq 1..Len(audit)
  BY <1>1 DEF ApprovalEvents
<1> QED  BY <1>1, <1>2, FS_Subset, FS_CardinalityType

\* An event that is no approval leaves the approvals as they are; an approval is
\* one more of them.
LEMMA LoggedApproval ==
    ASSUME audit \in Seq(AuditEvent), NEW action \in {"planned", "approved", "result"},
           NEW version \in Nat, NEW plan_hash \in JobIds,
           Log(action, version, plan_hash)
    PROVE  IF action = "approved"
           THEN Cardinality(ApprovalEvents') = Cardinality(ApprovalEvents) + 1
           ELSE ApprovalEvents' = ApprovalEvents
<1>1. /\ Len(audit) \in Nat
      /\ DOMAIN audit = 1..Len(audit) /\ DOMAIN audit' = 1..(Len(audit) + 1)
      /\ \A i \in 1..Len(audit) : audit'[i] = audit[i]
      /\ audit'[Len(audit) + 1].action = action
  BY Logged
<1>2. Len(audit) + 1 \notin DOMAIN audit /\ DOMAIN audit' = DOMAIN audit \union {Len(audit) + 1}
  BY <1>1
<1>3. CASE action = "approved"
  <2>1. ApprovalEvents' = ApprovalEvents \union {Len(audit) + 1} /\ Len(audit) + 1 \notin ApprovalEvents
    BY <1>1, <1>2, <1>3 DEF ApprovalEvents
  <2> QED  BY <1>3, <2>1, ApprovalsFinite, FS_AddElement
<1>4. CASE action # "approved"
  BY <1>1, <1>2, <1>4 DEF ApprovalEvents
<1> QED  BY <1>3, <1>4

\* The numbers of an invariant state.
LEMMA ApprovalNumbers ==
    ASSUME HoldInv, ApprovalInv
    PROVE  /\ IsFiniteSet(Enqueued) /\ IsFiniteSet(Admitted)
           /\ Cardinality(Enqueued) \in Nat /\ Cardinality(Admitted) \in Nat
           /\ Cardinality(ApprovalEvents) \in Nat
  BY ApprovalsFinite, FS_CardinalityType DEF ApprovalInv, HoldInv, HealingTypes

\* A step that admits nobody, enqueues nothing and executes only what is enqueued.
LEMMA QuietApprovals ==
    ASSUME HoldInv, ApprovalInv, Enqueued' = Enqueued, Admitted' \subseteq Admitted,
           ApprovalEvents' = ApprovalEvents,
           \A i \in DOMAIN executions' : executions'[i] \in Enqueued
    PROVE  ApprovalInv'
<1>1. IsFiniteSet(Admitted') /\ Cardinality(Admitted') <= Cardinality(Admitted)
  BY FS_Subset DEF ApprovalInv
<1>2. Cardinality(Admitted') \in Nat
  BY <1>1, FS_CardinalityType
<1>3. Cardinality(Enqueued) + Cardinality(Admitted') <= Cardinality(ApprovalEvents)
  BY <1>1, <1>2, ApprovalNumbers DEF ApprovalInv
<1> QED  BY <1>1, <1>3 DEF ApprovalInv

\* Logging the approval admits the request.
LEMMA AuditApprovedKeepsApprovals ==
    ASSUME HoldInv, ApprovalInv, NEW c \in Callers, AuditApproved(c)
    PROVE  ApprovalInv'
<1>1. /\ callers[c].pc = "audit_approved" /\ callers'[c].pc = "enqueue"
      /\ \A b \in Callers \ {c} : callers'[b] = callers[b]
      /\ UNCHANGED <<jobs, executions>>
  BY DEF AuditApproved, HoldInv, HealingTypes, Caller, queueVars
<1>2. Admitted' = Admitted \union {c} /\ c \notin Admitted
  BY <1>1 DEF Admitted
<1>3. IsFiniteSet(Admitted') /\ Cardinality(Admitted') = Cardinality(Admitted) + 1
  BY <1>2, ApprovalNumbers, FS_AddElement
<1>4. Cardinality(ApprovalEvents') = Cardinality(ApprovalEvents) + 1
  BY <1>1, CallerHolds, LoggedApproval DEF AuditApproved
<1>5. Enqueued' = Enqueued
  BY <1>1 DEF Enqueued
<1>6. Cardinality(Enqueued') + Cardinality(Admitted') <= Cardinality(ApprovalEvents')
  BY <1>3, <1>4, <1>5, ApprovalNumbers DEF ApprovalInv
<1> QED  BY <1>1, <1>3, <1>5, <1>6 DEF ApprovalInv

\* Enqueueing spends the admission on the job, or on nothing if it was there.
LEMMA EnqueueJobKeepsApprovals ==
    ASSUME HoldInv, ApprovalInv, NEW c \in Callers, EnqueueJob(c)
    PROVE  ApprovalInv'
<1> DEFINE j == callers[c].prepared
<1>1. /\ callers[c].pc = "enqueue" /\ callers'[c].pc = "idle"
      /\ \A b \in Callers \ {c} : callers'[b] = callers[b]
      /\ UNCHANGED <<audit, executions>>
  BY DEF EnqueueJob, HoldInv, HealingTypes, IdleCaller
<1>2. Admitted' = Admitted \ {c} /\ c \in Admitted
  BY <1>1 DEF Admitted
<1>3. IsFiniteSet(Admitted') /\ Cardinality(Admitted') = Cardinality(Admitted) - 1
  BY <1>2, ApprovalNumbers, FS_RemoveElement
<1>4. ApprovalEvents' = ApprovalEvents /\ j \in JobIds
  BY <1>1, CallerHolds DEF ApprovalEvents
<1>5. CASE jobs[j].status # "absent"
  <2>1. Enqueued' = Enqueued
    BY <1>5 DEF EnqueueJob, Enqueue, Enqueued
  <2> QED  BY <1>1, <1>2, <1>4, <2>1, QuietApprovals DEF ApprovalInv
<1>6. CASE jobs[j].status = "absent"
  <2>1. Enqueued' = Enqueued \union {j} /\ j \notin Enqueued
    BY <1>4, <1>6 DEF EnqueueJob, Enqueue, Enqueued, HoldInv, QueueInv, QueueTypes,
       QueueRow
  <2>2. IsFiniteSet(Enqueued') /\ Cardinality(Enqueued') = Cardinality(Enqueued) + 1
    BY <2>1, ApprovalNumbers, FS_AddElement
  <2>3. Cardinality(Enqueued') + Cardinality(Admitted') <= Cardinality(ApprovalEvents')
    BY <1>3, <1>4, <2>2, ApprovalNumbers DEF ApprovalInv
  <2> QED  BY <1>1, <1>3, <2>1, <2>2, <2>3 DEF ApprovalInv
<1> QED  BY <1>5, <1>6

\* Executing runs the job the worker holds, which is enqueued.
LEMMA ExecuteKeepsApprovals ==
    ASSUME HoldInv, ApprovalInv, NEW w \in Workers, Execute(w)
    PROVE  ApprovalInv'
<1>1. /\ stages[w].pc = "execute" /\ UNCHANGED <<jobs, audit, callers>>
      /\ \/ executions' = executions
         \/ executions' = Append(executions, workers[w].job)
  BY ExecuteEffect DEF queueVars
<1>2. executions \in Seq(JobIds) /\ workers[w].job \in Enqueued
  BY <1>1, StageHolds DEF Enqueued
<1>3. \A i \in DOMAIN executions' : executions'[i] \in Enqueued
  BY <1>1, <1>2, AppendProperties, LenProperties DEF ApprovalInv, Enqueued
<1>4. Enqueued' = Enqueued /\ Admitted' = Admitted /\ ApprovalEvents' = ApprovalEvents
  BY <1>1 DEF Enqueued, Admitted, ApprovalEvents
<1> QED  BY <1>3, <1>4, QuietApprovals

\* Every step preserves that each enqueued job, and each admitted request, has
\* an approval of its own.
LEMMA ApprovalNext == HoldInv /\ ApprovalInv /\ [Next]_vars => ApprovalInv'
<1> SUFFICES ASSUME HoldInv, ApprovalInv, [Next]_vars PROVE ApprovalInv'
  OBVIOUS
<1>1. ASSUME UNCHANGED <<audit, executions>>, Enqueued' = Enqueued, Admitted' \subseteq Admitted
      PROVE  ApprovalInv'
  BY <1>1, QuietApprovals DEF ApprovalInv, ApprovalEvents
<1>2. ASSUME UNCHANGED jobs PROVE Enqueued' = Enqueued
  BY <1>2 DEF Enqueued
<1>3. ASSUME UNCHANGED callers PROVE Admitted' = Admitted
  BY <1>3 DEF Admitted
<1>4. ASSUME NEW c \in Callers, callers'[c].pc # "enqueue",
             \A b \in Callers \ {c} : callers'[b] = callers[b]
      PROVE  Admitted' \subseteq Admitted
  BY <1>4 DEF Admitted
<1>5. ASSUME NEW c \in Callers, NEW plan_hash \in PlanHashes,
             Prepare(c, plan_hash) \/ Approve(c, plan_hash)
      PROVE  ApprovalInv'
  <2>1. /\ callers'[c].pc # "enqueue" /\ \A b \in Callers \ {c} : callers'[b] = callers[b]
        /\ UNCHANGED <<jobs, audit, executions>>
    BY <1>5 DEF Prepare, Approve, HoldInv, HealingTypes, Caller, queueVars
  <2> QED  BY <1>1, <1>2, <1>4, <2>1
<1>6. ASSUME NEW c \in Callers, AuditPlanned(c) PROVE ApprovalInv'
  <2>1. /\ callers'[c].pc # "enqueue" /\ \A b \in Callers \ {c} : callers'[b] = callers[b]
        /\ UNCHANGED <<jobs, executions>>
    BY <1>6 DEF AuditPlanned, HoldInv, HealingTypes, Caller, queueVars
  <2>2. ApprovalEvents' = ApprovalEvents
    BY <1>6, CallerHolds, LoggedApproval DEF AuditPlanned
  <2> QED  BY <1>2, <1>4, <2>1, <2>2, QuietApprovals DEF ApprovalInv
<1>7. ASSUME NEW c \in Callers, PutExecuting(c) PROVE ApprovalInv'
  <2>1. /\ callers'[c].pc # "enqueue" /\ \A b \in Callers \ {c} : callers'[b] = callers[b]
        /\ UNCHANGED <<jobs, audit, executions>>
    BY <1>7, PutExecutingEffect DEF HoldInv, HealingTypes, queueVars
  <2> QED  BY <1>1, <1>2, <1>4, <2>1
<1>8. ASSUME NEW c \in Callers, CallerDies(c) PROVE ApprovalInv'
  <2>1. /\ callers'[c].pc # "enqueue" /\ \A b \in Callers \ {c} : callers'[b] = callers[b]
        /\ UNCHANGED <<jobs, audit, executions>>
    BY <1>8 DEF CallerDies, HoldInv, HealingTypes, IdleCaller, queueVars
  <2> QED  BY <1>1, <1>2, <1>4, <2>1
<1>9. ASSUME NEW w \in Workers, ClaimJob(w) PROVE ApprovalInv'
  <2>1. Enqueued' = Enqueued
    <3>1. PICK j \in JobIds :
            /\ Claimable(j) /\ jobs'[j].status = "leased"
            /\ \A k \in JobIds \ {j} : jobs'[k] = jobs[k]
      BY <1>9, ClaimEffect DEF ClaimJob, HoldInv
    <3> QED  BY <3>1 DEF Enqueued, Claimable
  <2> QED  BY <1>1, <1>3, <1>9, <2>1 DEF ClaimJob
<1>10. ASSUME NEW w \in Workers, Simulate(w) \/ Finish(w) \/ PutResult(w) PROVE ApprovalInv'
  <2>1. UNCHANGED <<jobs, audit, callers, executions>>
    BY <1>10 DEF Simulate, Finish, PutResult, HandlerFails, HandlerRaises, queueVars
  <2> QED  BY <1>1, <1>2, <1>3, <2>1
<1>11. ASSUME NEW w \in Workers, AuditResult(w) PROVE ApprovalInv'
  <2>1. UNCHANGED <<jobs, callers, executions>> /\ stages[w].pc = "audit_result"
    BY <1>11 DEF AuditResult, At, HandlerFails, HandlerRaises, queueVars
  <2>2. CASE UNCHANGED audit
    BY <1>1, <1>2, <1>3, <2>1, <2>2
  <2>3. CASE Log("result", stages[w].version, record.plan_hash)
    <3>1. ApprovalEvents' = ApprovalEvents
      BY <2>1, <2>3, StageHolds, LoggedApproval
    <3> QED  BY <1>2, <1>3, <2>1, <3>1, QuietApprovals DEF ApprovalInv
  <2> QED  BY <1>11, <2>2, <2>3 DEF AuditResult
<1>12. ASSUME NEW w \in Workers, ReturnResult(w) \/ FailJob(w) \/ JobWorkerDies(w)
       PROVE  ApprovalInv'
  <2>1. /\ HandlerReturns(w) \/ Fail(w) \/ WorkerDies(w)
        /\ UNCHANGED <<audit, callers, executions>>
    BY <1>12 DEF ReturnResult, FailJob, JobWorkerDies, healing
  <2>2. Enqueued' = Enqueued
    BY <2>1, LettingGoEffect DEF Enqueued
  <2> QED  BY <1>1, <1>3, <2>1, <2>2
<1>13. CASE TimePasses
  BY <1>1, <1>2, <1>3, <1>13 DEF TimePasses, Tick, healing
<1>14. CASE UNCHANGED vars
  BY <1>1, <1>2, <1>3, <1>14 DEF vars, queueVars
<1> QED  BY <1>5, <1>6, <1>7, <1>8, <1>9, <1>10, <1>11, <1>12, <1>13, <1>14,
            AuditApprovedKeepsApprovals, EnqueueJobKeepsApprovals, ExecuteKeepsApprovals
         DEF Next

-----------------------------------------------------------------------------
(* NamedInv *)

\* What an approval names it names for good.
LEMMA StaysNamed ==
    ASSUME HoldInv,
           \/ UNCHANGED audit
           \/ \E action \in {"planned", "approved", "result"}, version \in Nat,
                 plan_hash \in JobIds : Log(action, version, plan_hash)
    PROVE  \A p : NamedByApproval(p) => NamedByApproval(p)'
<1>1. CASE UNCHANGED audit
  BY <1>1 DEF NamedByApproval, ApprovalEvents
<1>2. ASSUME NEW action \in {"planned", "approved", "result"}, NEW version \in Nat,
             NEW plan_hash \in JobIds, Log(action, version, plan_hash)
      PROVE  \A p : NamedByApproval(p) => NamedByApproval(p)'
  <2>1. /\ Len(audit) \in Nat
        /\ DOMAIN audit = 1..Len(audit) /\ DOMAIN audit' = 1..(Len(audit) + 1)
        /\ \A i \in 1..Len(audit) : audit'[i] = audit[i]
    BY <1>2, Logged DEF HoldInv, HealingTypes
  <2>2. \A i \in DOMAIN audit : i \in DOMAIN audit' /\ audit'[i] = audit[i]
    BY <2>1
  <2> QED  BY <2>2 DEF NamedByApproval, ApprovalEvents
<1> QED  BY <1>1, <1>2

\* The approval that is logged names its plan.
LEMMA LoggedNames ==
    ASSUME HoldInv, NEW version \in Nat, NEW plan_hash \in JobIds,
           Log("approved", version, plan_hash)
    PROVE  NamedByApproval(plan_hash)'
<1>1. /\ Len(audit) \in Nat /\ DOMAIN audit' = 1..(Len(audit) + 1)
      /\ audit'[Len(audit) + 1].action = "approved"
      /\ audit'[Len(audit) + 1].plan_hash = plan_hash
  BY Logged DEF HoldInv, HealingTypes
<1>2. Len(audit) + 1 \in DOMAIN audit'
  BY <1>1
<1> QED  BY <1>1, <1>2 DEF NamedByApproval, ApprovalEvents

\* A step of one request that enqueues nothing and leaves the plan in the record.
LEMMA CallerKeepsNamed ==
    ASSUME HoldInv, NamedInv, NEW c \in Callers, UNCHANGED replaced, Enqueued' = Enqueued,
           record'.plan_hash = record.plan_hash,
           \A p : NamedByApproval(p) => NamedByApproval(p)',
           \A b \in Callers \ {c} : callers'[b] = callers[b],
           callers'[c].prepared \notin replaced => OwnApproval(c)'
    PROVE  NamedInv'
<1>1. ASSUME NEW b \in Callers \ {c}, callers'[b].prepared \notin replaced
      PROVE  OwnApproval(b)'
  <2>1. OwnApproval(b) /\ callers'[b] = callers[b]
    BY <1>1 DEF NamedInv
  <2> QED  BY <2>1 DEF OwnApproval, AwaitingApproval
<1>2. \A j \in Enqueued' \ replaced' : NamedByApproval(j)'
  BY DEF NamedInv
<1> QED  BY <1>1, <1>2 DEF NamedInv

\* A step that leaves the requests, the queue's jobs and the record's plan alone.
LEMMA QuietNamed ==
    ASSUME HoldInv, NamedInv, UNCHANGED <<callers, replaced>>, Enqueued' = Enqueued,
           record'.plan_hash = record.plan_hash,
           \A p : NamedByApproval(p) => NamedByApproval(p)'
    PROVE  NamedInv'
  BY DEF NamedInv, OwnApproval, AwaitingApproval

\* Preparing a plan replaces every other one that waits for its approval.
LEMMA PrepareKeepsNamed ==
    ASSUME HoldInv, NamedInv, NEW c \in Callers, NEW plan_hash \in PlanHashes,
           Prepare(c, plan_hash)
    PROVE  NamedInv'
<1>1. /\ UNCHANGED <<jobs, audit>>
      /\ replaced' = replaced \union
                         ({callers[b].prepared : b \in AwaitingApproval} \ {plan_hash})
  BY DEF Prepare, queueVars
<1>2. /\ callers'[c].pc = "audit_planned" /\ callers'[c].prepared = plan_hash
      /\ \A b \in Callers \ {c} : callers'[b] = callers[b]
  BY DEF Prepare, HoldInv, HealingTypes
<1>3. record'.plan_hash = plan_hash
  <2>1. plan_hash \in JobIds /\ "waiting_approval" \in WorkflowStatus
    BY SelfHealingConstants DEF WorkflowStatus
  <2> QED  BY <2>1, Written DEF Prepare, HoldInv, HealingTypes
<1>4. \A p : NamedByApproval(p)' <=> NamedByApproval(p)
  BY <1>1 DEF NamedByApproval, ApprovalEvents
<1>5. OwnApproval(c)'
  BY <1>2, <1>3 DEF OwnApproval
<1>6. ASSUME NEW b \in Callers \ {c}, callers'[b].prepared \notin replaced'
      PROVE  OwnApproval(b)'
  <2>1. OwnApproval(b) /\ callers'[b] = callers[b]
    BY <1>1, <1>2, <1>6 DEF NamedInv
  <2>2. b \in AwaitingApproval => callers[b].prepared = plan_hash
    BY <1>1, <1>6, <2>1
  <2>3. b \in AwaitingApproval' <=> b \in AwaitingApproval
    BY <2>1 DEF AwaitingApproval
  <2> QED  BY <1>3, <1>4, <2>1, <2>2, <2>3 DEF OwnApproval
<1>7. \A j \in Enqueued' \ replaced' : NamedByApproval(j)'
  BY <1>1, <1>4 DEF NamedInv, Enqueued
<1> QED  BY <1>5, <1>6, <1>7 DEF NamedInv

\* Every step preserves that an approval names the plan it admits, unless the
\* plan was replaced.
LEMMA NamedNext == HoldInv /\ NamedInv /\ [Next]_vars => NamedInv'
<1> SUFFICES ASSUME HoldInv, NamedInv, [Next]_vars PROVE NamedInv'
  OBVIOUS
<1>1. ASSUME UNCHANGED jobs PROVE Enqueued' = Enqueued
  BY <1>1 DEF Enqueued
<1>2. ASSUME UNCHANGED audit PROVE \A p : NamedByApproval(p) => NamedByApproval(p)'
  BY <1>2, StaysNamed
<1>3. ASSUME NEW c \in Callers, AuditPlanned(c) PROVE NamedInv'
  <2>1. /\ callers[c].pc = "audit_planned" /\ callers'[c].pc = "prepared"
        /\ callers'[c].prepared = callers[c].prepared
        /\ \A b \in Callers \ {c} : callers'[b] = callers[b]
        /\ UNCHANGED <<jobs, record, replaced>>
    BY <1>3 DEF AuditPlanned, HoldInv, HealingTypes, Caller, queueVars
  <2>2. \A p : NamedByApproval(p) => NamedByApproval(p)'
    BY <1>3, <2>1, CallerHolds, StaysNamed DEF AuditPlanned
  <2>3. callers'[c].prepared \notin replaced => OwnApproval(c)'
    BY <2>1 DEF NamedInv, OwnApproval, AwaitingApproval
  <2> QED  BY <1>1, <2>1, <2>2, <2>3, CallerKeepsNamed
<1>4. ASSUME NEW c \in Callers, NEW plan_hash \in PlanHashes, Approve(c, plan_hash)
      PROVE  NamedInv'
  <2>1. /\ callers[c].pc = "prepared" /\ callers'[c].pc = "put_executing"
        /\ callers'[c].prepared = callers[c].prepared
        /\ callers'[c].approved = record.plan_hash
        /\ \A b \in Callers \ {c} : callers'[b] = callers[b]
        /\ UNCHANGED <<jobs, audit, record, replaced>>
    BY <1>4 DEF Approve, HoldInv, HealingTypes, Caller, queueVars
  <2>2. callers'[c].prepared \notin replaced => OwnApproval(c)'
    BY <2>1 DEF NamedInv, OwnApproval, AwaitingApproval
  <2> QED  BY <1>1, <1>2, <2>1, <2>2, CallerKeepsNamed
<1>5. ASSUME NEW c \in Callers, PutExecuting(c) PROVE NamedInv'
  <2>1. PICK new \in Caller :
          /\ callers' = [callers EXCEPT ![c] = new]
          /\ new.prepared = callers[c].prepared
          /\ new.approved = callers[c].approved
          /\ new.pc \in {"audit_approved", "prepared"}
    BY <1>5, PutExecutingEffect
  <2>2. /\ callers[c].pc = "put_executing" /\ record'.plan_hash = record.plan_hash
        /\ UNCHANGED <<jobs, audit>>
    BY <1>5, PutExecutingEffect DEF queueVars
  <2>3. UNCHANGED replaced
    BY <1>5 DEF PutExecuting
  <2>4. callers'[c] = new /\ \A b \in Callers \ {c} : callers'[b] = callers[b]
    BY <2>1 DEF HoldInv, HealingTypes
  <2>5. callers'[c].prepared \notin replaced => OwnApproval(c)'
    BY <2>1, <2>2, <2>4 DEF NamedInv, OwnApproval, AwaitingApproval
  <2> QED  BY <1>1, <1>2, <2>2, <2>3, <2>4, <2>5, CallerKeepsNamed
<1>6. ASSUME NEW c \in Callers, AuditApproved(c) PROVE NamedInv'
  <2>1. /\ callers[c].pc = "audit_approved" /\ callers'[c].pc = "enqueue"
        /\ callers'[c].prepared = callers[c].prepared
        /\ callers'[c].approved = callers[c].approved
        /\ \A b \in Callers \ {c} : callers'[b] = callers[b]
        /\ UNCHANGED <<jobs, record, replaced>>
        /\ Log("approved", callers[c].version, callers[c].approved)
    BY <1>6 DEF AuditApproved, HoldInv, HealingTypes, Caller, queueVars
  <2>2. callers[c].version \in Nat /\ callers[c].approved \in JobIds
    BY <2>1, CallerHolds
  <2>3. /\ \A p : NamedByApproval(p) => NamedByApproval(p)'
        /\ NamedByApproval(callers[c].approved)'
    BY <2>1, <2>2, StaysNamed, LoggedNames
  <2>4. callers'[c].prepared \notin replaced => OwnApproval(c)'
    BY <2>1, <2>3 DEF NamedInv, OwnApproval, AwaitingApproval
  <2> QED  BY <1>1, <2>1, <2>3, <2>4, CallerKeepsNamed
<1>7. ASSUME NEW c \in Callers, callers'[c].pc = "idle" PROVE OwnApproval(c)'
  BY <1>7 DEF OwnApproval, AwaitingApproval
<1>8. ASSUME NEW c \in Callers, CallerDies(c) PROVE NamedInv'
  <2>1. /\ callers'[c].pc = "idle" /\ \A b \in Callers \ {c} : callers'[b] = callers[b]
        /\ UNCHANGED <<jobs, audit, record, replaced>>
    BY <1>8 DEF CallerDies, HoldInv, HealingTypes, IdleCaller, queueVars
  <2> QED  BY <1>1, <1>2, <1>7, <2>1, CallerKeepsNamed
<1>9. ASSUME NEW c \in Callers, EnqueueJob(c) PROVE NamedInv'
  <2>1. /\ callers[c].pc = "enqueue" /\ callers'[c].pc = "idle"
        /\ \A b \in Callers \ {c} : callers'[b] = callers[b]
        /\ UNCHANGED <<audit, record, replaced>>
    BY <1>9 DEF EnqueueJob, HoldInv, HealingTypes, IdleCaller
  <2>2. Enqueued' \subseteq Enqueued \union {callers[c].prepared}
    BY <1>9 DEF EnqueueJob, Enqueue, Enqueued, HoldInv, QueueInv, QueueTypes, QueueRow
  <2>3. \A p : NamedByApproval(p)' <=> NamedByApproval(p)
    BY <2>1 DEF NamedByApproval, ApprovalEvents
  <2>4. callers[c].prepared \notin replaced => NamedByApproval(callers[c].prepared)
    BY <2>1 DEF NamedInv, OwnApproval
  <2>5. \A j \in Enqueued' \ replaced' : NamedByApproval(j)'
    BY <2>1, <2>2, <2>3, <2>4 DEF NamedInv
  <2>6. ASSUME NEW b \in Callers \ {c}, callers'[b].prepared \notin replaced'
        PROVE  OwnApproval(b)'
    <3>1. OwnApproval(b) /\ callers'[b] = callers[b] /\ UNCHANGED record
      BY <2>1, <2>6 DEF NamedInv
    <3> QED  BY <2>3, <3>1 DEF OwnApproval, AwaitingApproval
  <2> QED  BY <1>7, <2>1, <2>5, <2>6 DEF NamedInv
<1>10. ASSUME NEW w \in Workers, ClaimJob(w) PROVE NamedInv'
  <2>1. Enqueued' = Enqueued
    <3>1. PICK j \in JobIds :
            /\ Claimable(j) /\ jobs'[j].status = "leased"
            /\ \A k \in JobIds \ {j} : jobs'[k] = jobs[k]
      BY <1>10, ClaimEffect DEF ClaimJob, HoldInv
    <3> QED  BY <3>1 DEF Enqueued, Claimable
  <2> QED  BY <1>2, <1>10, <2>1, QuietNamed DEF ClaimJob
<1>11. ASSUME NEW w \in Workers, Simulate(w) \/ Execute(w) \/ Finish(w) PROVE NamedInv'
  <2>1. UNCHANGED <<jobs, audit, record, callers, replaced>>
    BY <1>11 DEF Simulate, Execute, Finish, HandlerFails, HandlerRaises, queueVars
  <2> QED  BY <1>1, <1>2, <2>1, QuietNamed
<1>12. ASSUME NEW w \in Workers, PutResult(w) PROVE NamedInv'
  <2>1. UNCHANGED <<jobs, audit, callers, replaced>>
    BY <1>12 DEF PutResult, HandlerFails, HandlerRaises, queueVars
  <2>2. record'.plan_hash = record.plan_hash
    BY <1>12, PutResultEffect
  <2> QED  BY <1>1, <1>2, <2>1, <2>2, QuietNamed
<1>13. ASSUME NEW w \in Workers, AuditResult(w) PROVE NamedInv'
  <2>1. /\ UNCHANGED <<jobs, record, callers, replaced>> /\ stages[w].pc = "audit_result"
        /\ UNCHANGED audit \/ Log("result", stages[w].version, record.plan_hash)
    BY <1>13 DEF AuditResult, At, HandlerFails, HandlerRaises, queueVars
  <2>2. \A p : NamedByApproval(p) => NamedByApproval(p)'
    BY <2>1, StageHolds, StaysNamed
  <2> QED  BY <1>1, <2>1, <2>2, QuietNamed
<1>14. ASSUME NEW w \in Workers, ReturnResult(w) \/ FailJob(w) \/ JobWorkerDies(w)
       PROVE  NamedInv'
  <2>1. /\ HandlerReturns(w) \/ Fail(w) \/ WorkerDies(w)
        /\ UNCHANGED <<audit, record, callers, replaced>>
    BY <1>14 DEF ReturnResult, FailJob, JobWorkerDies, healing
  <2>2. Enqueued' = Enqueued
    BY <2>1, LettingGoEffect DEF Enqueued
  <2> QED  BY <1>2, <2>1, <2>2, QuietNamed
<1>15. CASE TimePasses
  BY <1>1, <1>2, <1>15, QuietNamed DEF TimePasses, Tick, healing
<1>16. CASE UNCHANGED vars
  BY <1>1, <1>2, <1>16, QuietNamed DEF vars, queueVars
<1> QED  BY <1>3, <1>4, <1>5, <1>6, <1>8, <1>9, <1>10, <1>11, <1>12, <1>13, <1>14,
            <1>15, <1>16, PrepareKeepsNamed
         DEF Next

-----------------------------------------------------------------------------
(* OnceInv *)

\* A step that executes nothing keeps a completed job completed and a worker that
\* is past its execution on its job, unless the job comes to be overrun, crashed
\* or unrecorded.
LEMMA QuietOnce ==
    ASSUME HoldInv, OnceInv, UNCHANGED executions,
           overran \subseteq overran', crashed \subseteq crashed', outages \subseteq outages',
           \A j \in JobIds : jobs[j].status = "completed" /\ Clean(j) =>
               jobs'[j].status = "completed",
           \A w \in Workers, j \in JobIds :
               stages[w].pc \in Past /\ workers[w].job = j /\ Clean(j)' =>
                   \/ jobs'[j].status = "completed"
                   \/ workers'[w].job = j /\ stages'[w].pc \in Past
    PROVE  OnceInv'
<1>1. \A j \in JobIds : Clean(j)' => Clean(j)
  BY DEF Clean
<1>2. executions \in Seq(JobIds) /\ \A i \in DOMAIN executions : executions[i] \in JobIds
  BY ElementOfSeq, LenProperties DEF HoldInv, HealingTypes
<1> QED  BY <1>1, <1>2 DEF OnceInv, Clean

\* A clean job that someone holds is leased, and nobody else holds it.
LEMMA CleanHeld ==
    ASSUME HoldInv, NEW w \in Workers, Busy(w), Clean(workers[w].job)
    PROVE  /\ jobs[workers[w].job].status = "leased"
           /\ \A v \in Workers \ {w} : workers[v].job # workers[w].job
  BY DEF HoldInv, QueueInv, LeaseIsExclusive, Busy, Clean

\* The history only grows.
LEMMA HistoryGrows ==
    ASSUME HoldInv, [Next]_vars
    PROVE  overran \subseteq overran' /\ crashed \subseteq crashed' /\ outages \subseteq outages'
<1>1. CASE UNCHANGED vars
  BY <1>1 DEF vars, queueVars
<1>2. ASSUME NEW c \in Callers,
             \/ \E plan_hash \in PlanHashes :
                    Prepare(c, plan_hash) \/ Approve(c, plan_hash)
             \/ AuditPlanned(c) \/ PutExecuting(c) \/ AuditApproved(c)
             \/ EnqueueJob(c) \/ CallerDies(c)
      PROVE  UNCHANGED <<overran, crashed, outages>>
  BY <1>2 DEF Prepare, Approve, AuditPlanned, PutExecuting, AuditApproved, EnqueueJob,
              Enqueue, CallerDies, queueVars
<1>3. ASSUME NEW w \in Workers,
             ClaimJob(w) \/ Simulate(w) \/ Execute(w) \/ Finish(w) \/ PutResult(w)
             \/ AuditResult(w)
      PROVE  UNCHANGED <<overran, crashed>> /\ outages \subseteq outages'
  BY <1>3 DEF ClaimJob, Claim, Simulate, Execute, Finish, PutResult, AuditResult,
              HandlerFails, HandlerRaises, queueVars
<1>4. ASSUME NEW w \in Workers, ReturnResult(w) \/ FailJob(w) \/ JobWorkerDies(w)
      PROVE  UNCHANGED <<overran, outages>> /\ crashed \subseteq crashed'
  BY <1>4 DEF ReturnResult, HandlerReturns, FailJob, Fail, JobWorkerDies, WorkerDies,
     healing
<1>5. CASE TimePasses
  BY <1>5 DEF TimePasses, Tick, healing
<1> QED  BY <1>1, <1>2, <1>3, <1>4, <1>5 DEF Next

\* Executing a clean job that was executed before is impossible: that execution
\* has completed the job, or its worker still holds it.
LEMMA ExecuteKeepsOnce ==
    ASSUME HoldInv, OnceInv, NEW w \in Workers, Execute(w)
    PROVE  OnceInv'
<1> DEFINE j == workers[w].job
<1>1. /\ stages[w].pc = "execute" /\ UNCHANGED <<jobs, workers, overran, crashed, outages>>
      /\ executions' = executions \/ executions' = Append(executions, j)
  BY ExecuteEffect DEF queueVars
<1>2. /\ stages'[w].pc = "finish" /\ \A v \in Workers \ {w} : stages'[v] = stages[v]
  BY ExecuteEffect DEF HoldInv, HealingTypes
<1>3. \A v \in Workers : stages[v].pc \in Past => stages'[v].pc \in Past
  BY <1>1, <1>2 DEF Past
<1>4. CASE executions' = executions
  BY <1>1, <1>3, <1>4, QuietOnce
<1>5. CASE executions' = Append(executions, j)
  <2> DEFINE n == Len(executions) + 1
  <2>1. j \in JobIds /\ Busy(w) /\ executions \in Seq(JobIds)
    BY <1>1, StageHolds DEF Busy
  <2>2. /\ Len(executions) \in Nat /\ DOMAIN executions = 1..Len(executions)
        /\ DOMAIN executions' = 1..n /\ executions'[n] = j
        /\ \A i \in 1..Len(executions) : executions'[i] = executions[i]
    BY <1>5, <2>1, AppendProperties, LenProperties
  <2>3. /\ \A i \in DOMAIN executions' : i \in DOMAIN executions \/ i = n
        /\ executions'[n] = j
        /\ \A i \in DOMAIN executions : executions'[i] = executions[i]
    BY <2>2
  <2>4. ASSUME NEW i \in DOMAIN executions, executions[i] = j, Clean(j) PROVE FALSE
    <3>1. /\ jobs[j].status = "leased"
          /\ \A v \in Workers \ {w} : workers[v].job # j
      BY <2>1, <2>4, CleanHeld
    <3>2. PICK v \in Workers : workers[v].job = j /\ stages[v].pc \in Past
      BY <2>4, <3>1 DEF OnceInv
    <3> QED  BY <1>1, <3>1, <3>2 DEF Past
  <2> HIDE DEF j, n
  <2>5. \A k : Clean(k)' <=> Clean(k)
    BY <1>1 DEF Clean
  <2>6. \A i, k \in DOMAIN executions' :
          Clean(executions'[i]) /\ executions'[i] = executions'[k] => i = k
    BY <2>3, <2>4 DEF OnceInv
  <2>7. ASSUME NEW i \in DOMAIN executions', Clean(executions'[i])
        PROVE  \/ jobs'[executions'[i]].status = "completed"
               \/ \E v \in Workers : /\ workers'[v].job = executions'[i]
                                     /\ stages'[v].pc \in Past
    <3>1. CASE i = n
      BY <1>1, <1>2, <2>3, <3>1 DEF Past, j
    <3>2. CASE i \in DOMAIN executions
      BY <1>1, <1>3, <2>3, <2>7, <3>2 DEF OnceInv
    <3> QED  BY <2>3, <3>1, <3>2
  <2> QED  BY <1>1, <2>6, <2>7 DEF OnceInv, Clean
<1> QED  BY <1>1, <1>4, <1>5

\* Every step preserves that a clean job was executed at most once.
LEMMA OnceNext == HoldInv /\ OnceInv /\ [Next]_vars => OnceInv'
<1> SUFFICES ASSUME HoldInv, OnceInv, [Next]_vars PROVE OnceInv'
  OBVIOUS
<1>0. overran \subseteq overran' /\ crashed \subseteq crashed' /\ outages \subseteq outages'
  BY HistoryGrows
<1>1. ASSUME UNCHANGED <<jobs, workers, stages, executions>> PROVE OnceInv'
  BY <1>0, <1>1, QuietOnce
<1>2. ASSUME NEW c \in Callers,
             \/ \E plan_hash \in PlanHashes :
                    Prepare(c, plan_hash) \/ Approve(c, plan_hash)
             \/ AuditPlanned(c) \/ PutExecuting(c) \/ AuditApproved(c) \/ CallerDies(c)
      PROVE  OnceInv'
  <2>1. UNCHANGED <<jobs, workers, stages, executions>>
    BY <1>2 DEF Prepare, Approve, AuditPlanned, PutExecuting, AuditApproved,
                CallerDies, queueVars
  <2> QED  BY <1>1, <2>1
<1>3. ASSUME NEW c \in Callers, EnqueueJob(c) PROVE OnceInv'
  <2>1. /\ UNCHANGED <<workers, stages, executions>>
        /\ \A k \in JobIds : jobs[k].status = "completed" => jobs'[k].status = "completed"
    BY <1>3, CallerHolds DEF EnqueueJob, Enqueue, HoldInv, QueueInv, QueueTypes
  <2> QED  BY <1>0, <2>1, QuietOnce
<1>4. ASSUME NEW w \in Workers, ClaimJob(w) PROVE OnceInv'
  <2>1. PICK j \in JobIds :
          /\ Claimable(j)
          /\ \A k \in JobIds \ {j} : jobs'[k] = jobs[k]
          /\ workers' = [workers EXCEPT ![w] =
                            [pc |-> "handling", job |-> j,
                             lease_until |-> now + LeaseSeconds,
                             attempts |-> 0, at |-> 0]]
    BY <1>4, ClaimEffect DEF ClaimJob, HoldInv
  <2>2. \A k \in JobIds : jobs[k].status = "completed" => jobs'[k].status = "completed"
    BY <2>1 DEF Claimable
  <2>3. stages[w].pc = "idle" /\ UNCHANGED executions
    BY <1>4 DEF ClaimJob, At
  <2>4. \A v \in Workers \ {w} : workers'[v] = workers[v] /\ stages'[v] = stages[v]
    BY <1>4, <2>1 DEF ClaimJob, Goto, HoldInv, HealingTypes, QueueInv, QueueTypes
  <2> QED  BY <1>0, <2>2, <2>3, <2>4, QuietOnce DEF Past
<1>5. ASSUME NEW w \in Workers, HandlerFails(w), UNCHANGED executions,
             stages[w].pc \notin Past \/ workers[w].job \in outages'
      PROVE  OnceInv'
  <2>1. /\ UNCHANGED jobs
        /\ \A v \in Workers \ {w} : workers'[v] = workers[v] /\ stages'[v] = stages[v]
    BY <1>5, HandlerFailsEffect DEF HoldInv, HealingTypes
  <2>2. \A j : j \in outages' => ~Clean(j)'
    BY DEF Clean
  <2> QED  BY <1>0, <1>5, <2>1, <2>2, QuietOnce
<1>6. ASSUME NEW w \in Workers, UNCHANGED <<jobs, workers, executions>>,
             \A v \in Workers \ {w} : stages'[v] = stages[v],
             stages[w].pc \in Past => stages'[w].pc \in Past
      PROVE  OnceInv'
  BY <1>0, <1>6, QuietOnce
<1>7. ASSUME NEW w \in Workers, Simulate(w) PROVE OnceInv'
  <2>1. stages[w].pc \notin Past /\ UNCHANGED executions
    BY <1>7 DEF Simulate, At, Past
  <2>2. CASE HandlerFails(w)
    BY <1>5, <2>1, <2>2
  <2>3. CASE Goto(w, "execute") /\ UNCHANGED queueVars
    <3>1. \A v \in Workers \ {w} : stages'[v] = stages[v]
      BY <2>3 DEF Goto, HoldInv, HealingTypes
    <3> QED  BY <1>6, <2>1, <2>3, <3>1 DEF queueVars
  <2> QED  BY <1>7, <2>2, <2>3 DEF Simulate
<1>8. ASSUME NEW w \in Workers, Finish(w) PROVE OnceInv'
  <2>1. /\ UNCHANGED <<jobs, workers, executions>>
        /\ stages'[w].pc \in Past /\ \A v \in Workers \ {w} : stages'[v] = stages[v]
    BY <1>8 DEF Finish, HoldInv, HealingTypes, Stage, Past, queueVars
  <2> QED  BY <1>6, <2>1
<1>9. ASSUME NEW w \in Workers, PutResult(w) PROVE OnceInv'
  <2>1. UNCHANGED executions
    BY <1>9 DEF PutResult
  <2>2. CASE HandlerFails(w) /\ outages' = outages \union {workers[w].job}
    BY <1>5, <2>1, <2>2
  <2>3. CASE /\ UNCHANGED queueVars
             /\ \E new \in Stage : /\ new.pc = "audit_result"
                                   /\ stages' = [stages EXCEPT ![w] = new]
    <3>1. /\ stages'[w].pc = "audit_result"
          /\ \A v \in Workers \ {w} : stages'[v] = stages[v]
      BY <2>3 DEF HoldInv, HealingTypes
    <3> QED  BY <1>6, <2>1, <2>3, <3>1 DEF Past, queueVars
  <2> QED  BY <1>9, <2>2, <2>3, PutResultEffect
<1>10. ASSUME NEW w \in Workers, AuditResult(w) PROVE OnceInv'
  <2>1. UNCHANGED executions
    BY <1>10 DEF AuditResult
  <2>2. CASE HandlerFails(w) /\ outages' = outages \union {workers[w].job}
    BY <1>5, <2>1, <2>2
  <2>3. CASE Goto(w, "return") /\ UNCHANGED queueVars
    <3>1. /\ stages'[w].pc = "return"
          /\ \A v \in Workers \ {w} : stages'[v] = stages[v]
      BY <2>3 DEF Goto, HoldInv, HealingTypes, Stage
    <3> QED  BY <1>6, <2>1, <2>3, <3>1 DEF Past, queueVars
  <2> QED  BY <1>10, <2>2, <2>3 DEF AuditResult
<1>11. ASSUME NEW w \in Workers, HandlerReturns(w) \/ Fail(w) \/ WorkerDies(w),
              UNCHANGED executions, \A v \in Workers \ {w} : stages'[v] = stages[v],
              \/ stages[w].pc \notin Past \/ workers[w].job \in crashed'
              \/ jobs'[workers[w].job].status = "completed",
              \A k \in JobIds : jobs[k].status = "completed" /\ Clean(k) =>
                  jobs'[k].status = "completed"
       PROVE  OnceInv'
  <2>1. \A v \in Workers \ {w} : workers'[v] = workers[v]
    BY <1>11, LettingGoEffect
  <2>2. \A j : j \in crashed' => ~Clean(j)'
    BY DEF Clean
  <2> QED  BY <1>0, <1>11, <2>1, <2>2, QuietOnce
<1>12. ASSUME NEW w \in Workers, ReturnResult(w) PROVE OnceInv'
  <2>1. /\ HandlerReturns(w) /\ UNCHANGED executions
        /\ \A v \in Workers \ {w} : stages'[v] = stages[v]
    BY <1>12 DEF ReturnResult, HoldInv, HealingTypes
  <2>2. workers[w].job \in JobIds
    BY <2>1, LettingGoEffect
  <2>3. /\ jobs'[workers[w].job].status = "completed"
        /\ \A k \in JobIds \ {workers[w].job} : jobs'[k] = jobs[k]
    BY <2>1, <2>2 DEF HandlerReturns, HoldInv, QueueInv, QueueTypes, QueueRow
  <2> QED  BY <1>11, <2>1, <2>2, <2>3
<1>13. ASSUME NEW w \in Workers, FailJob(w) PROVE OnceInv'
  <2>1. Fail(w) /\ UNCHANGED <<executions, stages>> /\ workers[w].pc = "failing"
    BY <1>13 DEF FailJob, Fail, healing
  <2>2. Busy(w) /\ stages[w].pc = "idle"
    BY <2>1 DEF Busy, HoldInv, StageFollowsWorker
  <2>3. \A k \in JobIds : jobs[k].status = "completed" /\ Clean(k) =>
          jobs'[k].status = "completed"
    BY <2>1, <2>2, CleanHeld, LettingGoEffect
  <2> QED  BY <1>11, <2>1, <2>2, <2>3 DEF Past
<1>14. ASSUME NEW w \in Workers, JobWorkerDies(w) PROVE OnceInv'
  <2>1. /\ WorkerDies(w) /\ UNCHANGED <<executions, jobs>> /\ workers[w].job \in crashed'
        /\ \A v \in Workers \ {w} : stages'[v] = stages[v]
    BY <1>14 DEF JobWorkerDies, WorkerDies, HoldInv, HealingTypes
  <2> QED  BY <1>11, <2>1
<1>15. CASE TimePasses
  BY <1>1, <1>15 DEF TimePasses, Tick, healing
<1>16. CASE UNCHANGED vars
  BY <1>1, <1>16 DEF vars, queueVars
<1> QED  BY <1>2, <1>3, <1>4, <1>7, <1>8, <1>9, <1>10, <1>12, <1>13, <1>14, <1>15,
            <1>16, ExecuteKeepsOnce
         DEF Next

-----------------------------------------------------------------------------
(* The theorems *)

\* Nothing is held, logged, enqueued or executed in the initial state.
LEMMA HealingInit == Init => HealingInv
<1> SUFFICES ASSUME Init PROVE HealingInv
  OBVIOUS
<1>1. QueueInv
  BY QueueInit DEF Init
<1>2. /\ NoRecord \in WorkflowRecord /\ NoRecord.version = 0
      /\ \A S : <<>> \in Seq(S)
      /\ DOMAIN audit = {} /\ DOMAIN executions = {}
  BY EmptySeq, LenProperties DEF Init, NoRecord, WorkflowRecord, Statuses
<1>3. HealingTypes
  BY <1>2, IdleTypes DEF Init, HealingTypes
<1>4. /\ \A w \in Workers : stages[w].pc = "idle" /\ workers[w].pc = "idle"
      /\ \A c \in Callers : callers[c].pc = "idle"
      /\ \A j \in JobIds : jobs[j].status = "absent"
      /\ record.version = 0
  BY <1>2, IdleTypes DEF Init, JobQueueInit, IdleWorker
<1>5. HoldInv
  BY <1>1, <1>3, <1>4 DEF HoldInv, StageFollowsWorker, RecordComesFirst
<1>6. VersionInv
  BY <1>2, <1>4 DEF VersionInv, Owes, OwesResult
<1>7. Enqueued = {} /\ Admitted = {} /\ ApprovalEvents = {}
  BY <1>2, <1>4 DEF Enqueued, Admitted, ApprovalEvents
<1>8. ApprovalInv
  BY <1>2, <1>7, FS_EmptySet DEF ApprovalInv
<1>9. NamedInv
  BY <1>4, <1>7 DEF NamedInv, OwnApproval, AwaitingApproval
<1>10. OnceInv
  BY <1>2 DEF OnceInv
<1> QED  BY <1>5, <1>6, <1>8, <1>9, <1>10 DEF HealingInv

\* The invariant of the self-healing path, for any jobs, callers and workers.
THEOREM HealingInvariant == Spec => []HealingInv
<1>1. HealingInv /\ [Next]_vars => HealingInv'
  BY HoldNext, VersionNext, ApprovalNext, NamedNext, OnceNext DEF HealingInv
<1> QED  BY <1>1, HealingInit, PTL DEF Spec

\* On the self-healing path too a lease is exclusive until it expires.
THEOREM LeaseExclusive == Spec => []LeaseIsExclusive
<1>1. HealingInv => LeaseIsExclusive
  BY DEF HealingInv, HoldInv, QueueInv
<1> QED  BY <1>1, HealingInvariant, PTL

\* A plan that was executed is named by an approval in the audit log unless
\* prepare replaced it while it waited for one, there are as many approvals as
\* executed plans, and no two events of one kind claim the same version.  An
\* executed job is an enqueued one: NamedInv has the approval that names it, and
\* ApprovalInv counts the approvals.
THEOREM ExecutionApproved == Spec => []ExecutionFollowsApproval
<1>1. HealingInv => ExecutionFollowsApproval
  <2> SUFFICES ASSUME HealingInv PROVE ExecutionFollowsApproval
    OBVIOUS
  <2>1. ExecutedPlans \subseteq Enqueued
    BY DEF HealingInv, ApprovalInv, ExecutedPlans
  <2>2. /\ IsFiniteSet(Enqueued) /\ Cardinality(Enqueued) \in Nat
        /\ Cardinality(Admitted) \in Nat /\ Cardinality(ApprovalEvents) \in Nat
    BY ApprovalNumbers DEF HealingInv
  <2>3. IsFiniteSet(ExecutedPlans) /\ Cardinality(ExecutedPlans) <= Cardinality(Enqueued)
    BY <2>1, <2>2, FS_Subset
  <2>4. Cardinality(ExecutedPlans) \in Nat
    BY <2>3, FS_CardinalityType
  <2>5. Cardinality(Enqueued) + Cardinality(Admitted) <= Cardinality(ApprovalEvents)
    BY DEF HealingInv, ApprovalInv
  <2>6. Cardinality(ExecutedPlans) <= Cardinality(ApprovalEvents)
    BY <2>2, <2>3, <2>4, <2>5
  <2>7. \A p \in ExecutedPlans \ replaced : NamedByApproval(p)
    BY <2>1 DEF HealingInv, NamedInv
  <2>8. \A i, j \in DOMAIN audit :
          audit[i].version = audit[j].version /\ audit[i].action = audit[j].action => i = j
    BY DEF HealingInv, VersionInv
  <2> QED  BY <2>6, <2>7, <2>8 DEF ExecutionFollowsApproval
<1> QED  BY <1>1, HealingInvariant, PTL

\* A job whose workers neither die nor outlive their lease and whose result is
\* recorded changes production at most once.
THEOREM ExecutedAtMostOnce == Spec => []ExecutedOnce
<1>1. HealingInv => ExecutedOnce
  <2> SUFFICES ASSUME HealingInv, NEW j \in JobIds \ (overran \union crashed \union outages)
               PROVE  Executed(j) <= 1
    BY DEF ExecutedOnce
  <2> DEFINE runs == {i \in DOMAIN executions : executions[i] = j}
  <2>1. \A i, k \in runs : i = k
    BY DEF HealingInv, OnceInv, Clean
  <2>2. CASE runs = {}
    BY <2>2, FS_EmptySet DEF Executed
  <2>3. CASE runs # {}
    <3>1. PICK i : runs = {i}
      BY <2>1, <2>3
    <3>2. Cardinality(runs) = 1
      BY <3>1, FS_Singleton
    <3> QED  BY <3>2 DEF Executed
  <2> QED  BY <2>2, <2>3
<1> QED  BY <1>1, HealingInvariant, PTL
=============================================================================
