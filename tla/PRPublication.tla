---------------------------- MODULE PRPublication ----------------------------
(***************************************************************************)
(* PR Guardian as a service: the GitHub webhook (app/pr_guardian_api.py)   *)
(* runs PRGuardianService.evaluate, which records the review as a workflow *)
(* with its audit event (control_plane/workflows.py), then the immutable   *)
(* finding (product/pr_guardian/store.py), then the artifact in the        *)
(* outbox, and only then lets PRGuardianPublisher                          *)
(* (product/pr_guardian/publication.py) show a check and a sticky comment  *)
(* on GitHub.  A recovery worker delivers what requests left behind.       *)
(*                                                                         *)
(* Requests and recovery workers run concurrently, each may be slower than *)
(* its lease and may die between any two steps; a GitHub call may fail     *)
(* before or after it took effect; GitHub may deliver an event again, with *)
(* the same delivery id and so the same correlation id.                    *)
(***************************************************************************)
EXTENDS GuardianDecisions, ArtifactOutbox, Sequences

CONSTANTS
    Workers,        \* concurrent requests and recovery workers
    Recoverers,     \* the workers that may run recovery
    Events,         \* pull_request events of one pull request: [head, corr]
    Changes,        \* what a review may find the change of an event to be
    Config,         \* the repository configuration the service was built with
    NoFinding,      \* the finding of a head that has none
    NoDelivery,     \* the delivery of a worker that holds no lease
    MaxDeliveries,  \* maximum_deliveries of one deliver_pending
    MaxDelay,       \* cap of the retry delay
    MaxReceipts,    \* bound: webhook requests
    MaxFaults,      \* bound: crashes and failed calls
    Horizon,        \* bound: requests and faults happen before this time
    MaxClock        \* bound on the clock

ASSUME PublicationConstants ==
    /\ Recoverers \subseteq Workers
    /\ {MaxDeliveries, MaxDelay} \subseteq Nat \ {0}
    /\ {MaxReceipts, MaxFaults, Horizon, MaxClock} \subseteq Nat

VARIABLES
    clock,
    workers,        \* what each worker is doing
    workflow,       \* the pr-review workflow of the pull request
    audit,          \* its audit events: the version and correlation id of each
    findings,       \* the finding recorded for each head
    checks,         \* GitHub: check runs per external_id
    comments,       \* GitHub: the comments with PR Guardian's marker
    shown,          \* history: deliveries whose effect GitHub has seen
    overrun,        \* history: deliveries taken over from a worker still at them
    receipts,       \* webhook requests so far
    faults          \* faults so far

reviewVars == <<workflow, audit, findings>>
githubVars == <<checks, comments, shown>>
vars == <<clock, artifacts, deliveries, workers, workflow, audit, findings, checks,
          comments, shown, overrun, receipts, faults>>

Heads == {e.head : e \in Events}
Corrs == {e.corr : e \in Events}

\* PRGuardianPublisher._artifact: observed_at is read when it is rendered, and
\* is part of the payloads the artifact id digests.
NewArtifact(e, conclusion, at) ==
    [head |-> e.head, corr |-> e.corr, observed_at |-> at, conclusion |-> conclusion]

Findings == [corr: Corrs, band: {"low", "moderate", "high", "critical"},
             action: {"none", "extended-tests", "additional-approval", "would-block"}]

\* PRFindingFactory.create
NewFinding(e, change) ==
    [corr |-> e.corr, band |-> Band(Score(change)), action |-> SimulatedAction(change)]

Worker == [pc: {"idle", "start", "audit", "finding", "insert", "artifact", "deliver",
                "lookup", "write", "acknowledge", "retry"},
           event: Events, change: Changes, version: Nat, scope: SUBSET Artifact,
           at: Nat, delivered: Nat, d: Delivery \union {NoDelivery}, token: Nat,
           found: Nat]

IdleWorker == [pc |-> "idle", event |-> CHOOSE e \in Events : TRUE,
               change |-> CHOOSE c \in Changes : TRUE, version |-> 0, scope |-> {},
               at |-> 0, delivered |-> 0, d |-> NoDelivery, token |-> 0, found |-> 0]

Init ==
    /\ OutboxInit
    /\ clock = 0
    /\ workers = [w \in Workers |-> IdleWorker]
    /\ workflow = [version |-> 0, corr |-> CHOOSE c \in Corrs : TRUE]
    /\ audit = {}
    /\ findings = [h \in Heads |-> NoFinding]
    /\ checks = [a \in Artifact |-> 0]
    /\ comments = <<>>
    /\ shown = {} /\ overrun = {}
    /\ receipts = 0 /\ faults = 0

TypeOK ==
    /\ OutboxTypeOK
    /\ clock \in 0..MaxClock
    /\ workers \in [Workers -> Worker]
    /\ workflow \in [version: Nat, corr: Corrs]
    /\ audit \subseteq Nat \X Corrs
    /\ findings \in [Heads -> Findings \union {NoFinding}]
    /\ checks \in [Artifact -> Nat]
    /\ comments \in Seq(Artifact)
    /\ shown \subseteq Delivery /\ overrun \subseteq Delivery
    /\ receipts \in 0..MaxReceipts /\ faults \in 0..MaxFaults

At(w, pc) == workers[w].pc = pc
Goto(w, pc) == workers' = [workers EXCEPT ![w].pc = pc]
End(w) == workers' = [workers EXCEPT ![w] = IdleWorker]

-----------------------------------------------------------------------------
(* PRGuardianService.evaluate *)

\* github_webhook: a signed event with a review action; PRReviewPreparer.prepare
\* reads the changed files, the graph and the context, and changes nothing.
Webhook(w) ==
    /\ At(w, "idle") /\ receipts < MaxReceipts /\ clock < Horizon
    /\ \E e \in Events, c \in Changes :
          workers' = [workers EXCEPT ![w].pc = "start", ![w].event = e, ![w].change = c]
    /\ receipts' = receipts + 1
    /\ UNCHANGED <<clock, artifacts, deliveries, reviewVars, githubVars, overrun, faults>>

\* start_pr_review: put_workflow names no expected version.
StartReview(w) ==
    /\ At(w, "start")
    /\ workflow' = [version |-> workflow.version + 1, corr |-> workers[w].event.corr]
    /\ workers' = [workers EXCEPT ![w].pc = "audit", ![w].version = workflow.version + 1]
    /\ UNCHANGED <<clock, artifacts, deliveries, audit, findings, githubVars, overrun,
                   receipts, faults>>

AuditReview(w) ==
    /\ At(w, "audit")
    /\ audit' = audit \union {<<workers[w].version, workers[w].event.corr>>}
    /\ Goto(w, "finding")
    /\ UNCHANGED <<clock, artifacts, deliveries, workflow, findings, githubVars, overrun,
                   receipts, faults>>

\* record_finding, its SELECT: the finding of a head is immutable, and a review
\* that found something else ends with PRGuardianStoreError.
FindFinding(w) ==
    LET e == workers[w].event
        row == findings[e.head]
        finding == NewFinding(e, workers[w].change)
    IN /\ At(w, "finding")
       /\ \/ row = NoFinding /\ Goto(w, "insert")
          \/ row = finding /\ Goto(w, "artifact")
          \/ row \notin {NoFinding, finding} /\ End(w)
       /\ UNCHANGED <<clock, artifacts, deliveries, reviewVars, githubVars, overrun,
                      receipts, faults>>

\* Mutant: INSERT OR REPLACE.
RecordFindingOverwriting(w) ==
    LET e == workers[w].event
    IN /\ At(w, "insert")
       /\ findings' = [findings EXCEPT ![e.head] = NewFinding(e, workers[w].change)]
       /\ Goto(w, "artifact")
       /\ UNCHANGED <<clock, artifacts, deliveries, workflow, audit, githubVars, overrun,
                      receipts, faults>>

\* ... and its INSERT: the SELECT opened no transaction, so another review may have
\* recorded the finding since, and the primary key refuses this one.
RecordFinding(w) ==
    LET e == workers[w].event
    IN /\ At(w, "insert")
       /\ \/ /\ findings[e.head] = NoFinding
             /\ findings' = [findings EXCEPT ![e.head] = NewFinding(e, workers[w].change)]
             /\ Goto(w, "artifact")
          \/ findings[e.head] # NoFinding /\ End(w) /\ UNCHANGED findings
       /\ UNCHANGED <<clock, artifacts, deliveries, workflow, audit, githubVars, overrun,
                      receipts, faults>>

Conclusion(change) ==
    IF ServiceDecision(Config, change, 0, FALSE).would_block THEN "failure" ELSE "neutral"

\* There is something to review, and Artifact has what a review may record.
ASSUME ReviewConstants ==
    /\ Events # {} /\ Changes # {}
    /\ NoFinding \notin Findings
    /\ \A e \in Events, c \in Changes, t \in 0..Horizon :
          NewArtifact(e, Conclusion(c), t) \in Artifact

\* publish: record the artifact, then deliver what is due of it.
Publish(w) ==
    LET a == NewArtifact(workers[w].event, Conclusion(workers[w].change),
                         Least(clock, Horizon))
    IN /\ At(w, "artifact")
       /\ RecordArtifact(a, clock)
       /\ workers' = [workers EXCEPT ![w].pc = "deliver", ![w].scope = {a}, ![w].at = clock]
       /\ UNCHANGED <<clock, reviewVars, githubVars, overrun, receipts, faults>>

\* recover_pending_publications, and scripts/recover_pr_guardian_publications.py
Recover(w) ==
    /\ w \in Recoverers /\ At(w, "idle") /\ Due(clock, artifacts) # {}
    /\ workers' = [workers EXCEPT ![w].pc = "deliver", ![w].scope = Artifact, ![w].at = clock]
    /\ UNCHANGED <<clock, artifacts, deliveries, reviewVars, githubVars, overrun, receipts,
                   faults>>

-----------------------------------------------------------------------------
(* PRGuardianPublisher.deliver_pending: the time is read once, before the loop *)

\* Another worker is still making the call for this delivery.
StillAtIt(d, w) == \E v \in Workers \ {w} :
    workers[v].d = d /\ workers[v].pc \in {"lookup", "write", "acknowledge", "retry"}

Claim(w) ==
    /\ At(w, "deliver") /\ workers[w].delivered < MaxDeliveries
    /\ \E d \in FirstOf(Due(workers[w].at, workers[w].scope)) :
          /\ ClaimNext(d, workers[w].at)
          /\ workers' = [workers EXCEPT ![w].pc = "lookup", ![w].d = d,
                                        ![w].token = deliveries[d].attempts + 1]
          /\ overrun' = IF StillAtIt(d, w) THEN overrun \union {d} ELSE overrun
    /\ UNCHANGED <<clock, reviewVars, githubVars, receipts, faults>>

Finish(w) ==
    /\ At(w, "deliver")
    /\ \/ workers[w].delivered = MaxDeliveries
       \/ Due(workers[w].at, workers[w].scope) = {}
    /\ End(w)
    /\ UNCHANGED <<clock, artifacts, deliveries, reviewVars, githubVars, overrun, receipts,
                   faults>>

\* Mutant: always POST.
LookupNothing(w) ==
    /\ At(w, "lookup")
    /\ workers' = [workers EXCEPT ![w].pc = "write", ![w].found = 0]
    /\ UNCHANGED <<clock, artifacts, deliveries, reviewVars, githubVars, overrun,
                   receipts, faults>>

\* publish_check looks for a run with the external_id, publish_sticky_comment
\* for its newest comment with the marker. Each reads one page of 100: the model
\* has the heads and pull requests whose runs and comments fit on it.
Lookup(w) ==
    LET d == workers[w].d
    IN /\ At(w, "lookup")
       /\ workers' = [workers EXCEPT ![w].pc = "write",
                        ![w].found = IF d[2] = "check" THEN checks[d[1]] ELSE Len(comments)]
       /\ UNCHANGED <<clock, artifacts, deliveries, reviewVars, githubVars, overrun,
                      receipts, faults>>

\* PATCH what was found, or POST.
Show(d, found) ==
    /\ checks' = IF d[2] = "check" /\ found = 0 THEN [checks EXCEPT ![d[1]] = @ + 1]
                 ELSE checks
    /\ comments' = CASE d[2] = "comment" /\ found = 0 -> Append(comments, d[1])
                     [] d[2] = "comment" /\ found # 0 -> [comments EXCEPT ![found] = d[1]]
                     [] OTHER -> comments
    /\ shown' = shown \union {d}

Write(w) ==
    /\ At(w, "write")
    /\ Show(workers[w].d, workers[w].found)
    /\ Goto(w, "acknowledge")
    /\ UNCHANGED <<clock, artifacts, deliveries, reviewVars, overrun, receipts, faults>>

AcknowledgeDelivery(w) ==
    /\ At(w, "acknowledge")
    /\ \/ /\ HoldsLease(workers[w].d, workers[w].token)
          /\ Acknowledge(workers[w].d)
          /\ workers' = [workers EXCEPT ![w].pc = "deliver", ![w].d = NoDelivery,
                            ![w].token = 0, ![w].found = 0, ![w].delivered = @ + 1]
       \/ /\ ~HoldsLease(workers[w].d, workers[w].token)
          /\ End(w)
          /\ UNCHANGED outboxVars
    /\ UNCHANGED <<clock, reviewVars, githubVars, overrun, receipts, faults>>

\* _retry_delay: 2 ** (attempt - 1) seconds, capped.
RetryDelay(attempt) == Least(2 ^ (attempt - 1), MaxDelay)

RetryDelivery(w) ==
    /\ At(w, "retry")
    /\ End(w)
    /\ \/ /\ HoldsLease(workers[w].d, workers[w].token)
          /\ Retry(workers[w].d, workers[w].at + RetryDelay(workers[w].token))
       \/ /\ ~HoldsLease(workers[w].d, workers[w].token)
          /\ UNCHANGED outboxVars
    /\ UNCHANGED <<clock, reviewVars, githubVars, overrun, receipts, faults>>

-----------------------------------------------------------------------------
(* Faults *)

Fault == faults < MaxFaults /\ clock < Horizon /\ faults' = faults + 1

\* A GitHub request fails without effect ...
CallFails(w) ==
    /\ Fault
    /\ At(w, "lookup") \/ At(w, "write")
    /\ Goto(w, "retry")
    /\ UNCHANGED <<clock, artifacts, deliveries, reviewVars, githubVars, overrun, receipts>>

\* ... or it takes effect and the answer is lost.
AnswerLost(w) ==
    /\ Fault
    /\ At(w, "write")
    /\ Show(workers[w].d, workers[w].found)
    /\ Goto(w, "retry")
    /\ UNCHANGED <<clock, artifacts, deliveries, reviewVars, overrun, receipts>>

Crash(w) ==
    /\ Fault
    /\ ~At(w, "idle")
    /\ End(w)
    /\ UNCHANGED <<clock, artifacts, deliveries, reviewVars, githubVars, overrun, receipts>>

Tick ==
    /\ clock < MaxClock
    /\ clock' = clock + 1
    /\ UNCHANGED <<artifacts, deliveries, workers, reviewVars, githubVars, overrun,
                   receipts, faults>>

\* The steps a worker takes of its own accord.
Work(w) ==
    \/ StartReview(w) \/ AuditReview(w) \/ FindFinding(w) \/ RecordFinding(w) \/ Publish(w)
    \/ Claim(w) \/ Finish(w) \/ Lookup(w) \/ Write(w)
    \/ AcknowledgeDelivery(w) \/ RetryDelivery(w)

Next ==
    \/ \E w \in Workers :
          Work(w) \/ Webhook(w) \/ Recover(w) \/ CallFails(w) \/ AnswerLost(w) \/ Crash(w)
    \/ Tick

\* A live worker goes on, recovery is scheduled, and time passes.
Fairness ==
    /\ \A w \in Workers : WF_vars(Work(w)) /\ WF_vars(Recover(w))
    /\ WF_vars(Tick)

Spec == Init /\ [][Next]_vars
FairSpec == Spec /\ Fairness

-----------------------------------------------------------------------------
(* Properties *)

\* Presentation follows the record: an artifact is only ever in the outbox with
\* the finding of its head and correlation id retained and its review audited
\* (the order of evaluate, product/pr_guardian_service.py).
PublishedIsRecorded ==
    \A a \in artifacts :
        /\ findings[a.head] # NoFinding /\ findings[a.head].corr = a.corr
        /\ \E entry \in audit : entry[2] = a.corr

\* A check run is created twice for one delivery identity only when the lease
\* was taken over from a worker still making the call: a crash, a failed call or
\* a lost answer alone is repaired by the lookup of the external_id.
DuplicateNeedsOverrun ==
    \A a \in Artifact : checks[a] > 1 => <<a, "check">> \in overrun

\* A lease is ended by the worker that holds its token, or after it has expired:
\* a late acknowledgement or retry of an earlier attempt never touches it
\* (_require_lease).
LeaseEndsByHolder ==
    [][\A d \in Delivery :
          (deliveries[d].state = "leased" /\ deliveries'[d] # deliveries[d]) =>
              \/ deliveries[d].lease_expires_at <= clock
              \/ \E w \in Workers : /\ workers[w].d = d
                                    /\ workers[w].token = deliveries[d].token
                                    /\ workers'[w] # workers[w]]_vars

\* The outbox keeps the contract of external effects.
Contract == INSTANCE DeliveryContract WITH
    recorded <- {d \in Delivery : deliveries[d].state # "absent"},
    effected <- shown,
    complete <- {d \in Delivery : deliveries[d].state = "delivered"}

ImplementsContract == Contract!Spec

\* Every recorded delivery is completed in the end, by the request or by
\* recovery, whatever crashed or failed on the way.
EveryDeliveryCompletes ==
    <>[](\A d \in Delivery : deliveries[d].state \in {"absent", "delivered"})

\* "GitHub checks use stable external IDs for retry upsert": a review of one head
\* for one correlation id, delivered again, is shown under one check identity.
OneCheckPerReview ==
    \A a, b \in Artifact :
        (checks[a] > 0 /\ checks[b] > 0 /\ a.head = b.head /\ a.corr = b.corr) => a = b
=============================================================================
