------------------------------ MODULE JobQueue ------------------------------
(***************************************************************************)
(* The durable job queue of orchestration/jobs.py (SqliteJobQueue) and the *)
(* workers of orchestration/runner.py (DurableRunner.run_once) on it.      *)
(* claim runs in one BEGIN IMMEDIATE transaction; fail reads the job in    *)
(* one transaction and updates it in another, and neither fail nor         *)
(* complete looks at the lease of the job it writes.                       *)
(*                                                                         *)
(* A worker may be slower than its lease, and may die at any step.  Time   *)
(* is a bounded clock of abstract seconds.                                 *)
(***************************************************************************)
EXTENDS Naturals, FiniteSets

CONSTANTS
    JobIds,         \* job identifiers, in the order job_id has as text
    Workers,        \* concurrent run_once loops
    MaxAttempts,    \* max_attempts of every job
    LeaseSeconds,   \* lease_seconds
    BaseBackoff,    \* base_backoff_seconds
    NoJob,          \* the job of a worker that has none
    MaxTime         \* bound on the clock

ASSUME JobQueueConstants ==
    /\ JobIds \subseteq Nat /\ NoJob \notin JobIds
    /\ MaxAttempts \in Nat \ {0}
    /\ LeaseSeconds \in Nat \ {0}       \* with 0 a lease is over as it is granted
    /\ BaseBackoff \in Nat /\ MaxTime \in Nat

VARIABLES
    jobs,           \* JobIds -> the row of the jobs table
    workers,        \* Workers -> what run_once is doing
    now,            \* the clock
    overran,        \* history: jobs one of whose workers outlived its lease
    crashed         \* history: jobs one of whose workers died

queueVars == <<jobs, workers, now, overran, crashed>>

JobStatus == {"absent", "queued", "leased", "completed", "dead_letter"}

\* lease_until = 0 stands for NULL.
Job == [status: JobStatus, attempts: Nat, not_before: Nat, lease_until: Nat]

\* A worker's lease, and the row `fail' has read at time `at'.
Worker == [pc: {"idle", "handling", "failing"}, job: JobIds \union {NoJob},
           lease_until: Nat, attempts: Nat, at: Nat]

IdleWorker == [pc |-> "idle", job |-> NoJob, lease_until |-> 0, attempts |-> 0,
               at |-> 0]

JobQueueTypeOK ==
    /\ jobs \in [JobIds -> Job]
    /\ workers \in [Workers -> Worker]
    /\ now \in 0..MaxTime
    /\ overran \subseteq JobIds
    /\ crashed \subseteq JobIds

JobQueueInit ==
    /\ jobs = [j \in JobIds |-> [status |-> "absent", attempts |-> 0,
                                 not_before |-> 0, lease_until |-> 0]]
    /\ workers = [w \in Workers |-> IdleWorker]
    /\ now = 0
    /\ overran = {}
    /\ crashed = {}

-----------------------------------------------------------------------------

\* Mutant of Enqueue: INSERT OR REPLACE.
EnqueueReplacing(j) ==
    /\ jobs' = [jobs EXCEPT ![j] = [status |-> "queued", attempts |-> 0,
                                    not_before |-> now, lease_until |-> 0]]
    /\ UNCHANGED <<workers, now, overran, crashed>>

\* enqueue: INSERT OR IGNORE on the primary key.
Enqueue(j) ==
    /\ jobs' = IF jobs[j].status = "absent"
               THEN [jobs EXCEPT ![j].status = "queued", ![j].not_before = now]
               ELSE jobs
    /\ UNCHANGED <<workers, now, overran, crashed>>

\* Mutant of Claimable: a live lease is not respected.
ClaimableWhileLeased(j) ==
    jobs[j].status \in {"queued", "leased"} /\ jobs[j].not_before <= now

Claimable(j) ==
    /\ jobs[j].status \in {"queued", "leased"}
    /\ jobs[j].not_before <= now
    /\ jobs[j].status = "queued" \/ jobs[j].lease_until <= now

\* ORDER BY not_before, job_id LIMIT 1.
First(j) ==
    /\ Claimable(j)
    /\ \A k \in JobIds \ {j} : Claimable(k) =>
        \/ jobs[j].not_before < jobs[k].not_before
        \/ jobs[j].not_before = jobs[k].not_before /\ j < k

Claim(w) ==
    /\ workers[w].pc = "idle"
    /\ \E j \in JobIds :
        /\ First(j)
        /\ jobs' = [jobs EXCEPT ![j].status = "leased",
                                ![j].attempts = @ + 1,
                                ![j].lease_until = now + LeaseSeconds]
        /\ workers' = [workers EXCEPT ![w] =
                          [pc |-> "handling", job |-> j,
                           lease_until |-> now + LeaseSeconds,
                           attempts |-> 0, at |-> 0]]
    /\ UNCHANGED <<now, overran, crashed>>

\* The handler returned: complete(job_id).
HandlerReturns(w) ==
    /\ workers[w].pc = "handling"
    /\ jobs' = [jobs EXCEPT ![workers[w].job].status = "completed",
                            ![workers[w].job].lease_until = 0]
    /\ workers' = [workers EXCEPT ![w] = IdleWorker]
    /\ UNCHANGED <<now, overran, crashed>>

\* The handler raised, or no handler has the job's kind: fail(job_id) first
\* reads the job...
HandlerRaises(w) ==
    /\ workers[w].pc = "handling"
    /\ workers' = [workers EXCEPT ![w].pc = "failing",
                                  ![w].attempts = jobs[workers[w].job].attempts,
                                  ![w].at = now]
    /\ UNCHANGED <<jobs, now, overran, crashed>>

Backoff(attempts) == BaseBackoff * 2 ^ (IF attempts = 0 THEN 0 ELSE attempts - 1)

\* ...and then writes it, from what it has read.
Failed(attempts, at) ==
    IF attempts >= MaxAttempts
    THEN [status |-> "dead_letter", not_before |-> at]
    ELSE [status |-> "queued", not_before |-> at + Backoff(attempts)]

Fail(w) ==
    /\ workers[w].pc = "failing"
    /\ LET failed == Failed(workers[w].attempts, workers[w].at)
       IN  jobs' = [jobs EXCEPT ![workers[w].job].status = failed.status,
                                ![workers[w].job].not_before = failed.not_before,
                                ![workers[w].job].lease_until = 0]
    /\ workers' = [workers EXCEPT ![w] = IdleWorker]
    /\ UNCHANGED <<now, overran, crashed>>

\* The worker's process dies; the job keeps its lease until it expires.
WorkerDies(w) ==
    /\ workers[w].pc # "idle"
    /\ workers' = [workers EXCEPT ![w] = IdleWorker]
    /\ crashed' = crashed \union {workers[w].job}
    /\ UNCHANGED <<jobs, now, overran>>

Tick ==
    /\ now < MaxTime
    /\ now' = now + 1
    /\ overran' = overran \union
                    {workers[w].job : w \in {v \in Workers :
                        /\ workers[v].pc # "idle"
                        /\ workers[v].lease_until <= now + 1}}
    /\ UNCHANGED <<jobs, workers, crashed>>

JobQueueNext ==
    \/ \E j \in JobIds : Enqueue(j)
    \/ \E w \in Workers :
        \/ Claim(w)
        \/ HandlerReturns(w)
        \/ HandlerRaises(w) \/ Fail(w)
        \/ WorkerDies(w)
    \/ Tick

JobQueueSpec == JobQueueInit /\ [][JobQueueNext]_queueVars

-----------------------------------------------------------------------------
(* Properties *)

\* While no worker outlives its lease, a job is in at most one worker's hands
\* and the row carries exactly that worker's lease, however workers crash.
LeaseIsExclusive ==
    \A w \in Workers :
        workers[w].pc # "idle" /\ workers[w].job \notin overran =>
            /\ jobs[workers[w].job].status = "leased"
            /\ jobs[workers[w].job].lease_until = workers[w].lease_until
            /\ \A v \in Workers \ {w} : workers[v].job # workers[w].job

=============================================================================
