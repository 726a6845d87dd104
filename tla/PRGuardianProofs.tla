-------------------------- MODULE PRGuardianProofs --------------------------
(***************************************************************************)
(* What PR Guardian promises, for any pull requests, workers and bounds:   *)
(* its publication (PRPublication), its shadow pilot (ShadowPilot), and    *)
(* the boundary its calls of the provider go through (DependencyBoundary). *)
(*                                                                         *)
(* Publication: the artifact outbox keeps the contract of external         *)
(* effects, a lease is ended by the worker that holds its token or after   *)
(* it expired, nothing is in the outbox that is not recorded and audited,  *)
(* and a check run is created twice only where a lease was taken over from *)
(* a worker still at it. One inductive invariant in three parts carries    *)
(* all four: what a worker in the middle of a delivery knows               *)
(* (DeliveryInv), what it has looked up (CallInv) and what a review has    *)
(* recorded when it publishes (ReviewInv).                                 *)
(*                                                                         *)
(* The pilot: a record, the comment it is read from and the artifact the   *)
(* comment was written from all name a head, and publishers of different   *)
(* heads overwrite each other. The invariant is that whatever names a      *)
(* head says of it what a run of that head evaluated (ArtifactsAreTrue,    *)
(* CommentIsTrue), and that a head has one change (HeadsAreChanges).       *)
(*                                                                         *)
(* The boundary: permits and calls in flight add up, and an admission of   *)
(* an earlier generation cannot decide the present one.                    *)
(***************************************************************************)
EXTENDS PRPublication, ShadowPilot, DependencyBoundary, SequenceTheorems, FiniteSetTheorems,
        TLAPS

-----------------------------------------------------------------------------
(* The invariant *)

\* When a delivery is due again.
DueTimes == Nat \union {at + RetryDelay(n) : at \in Nat, n \in Nat}

OutboxRow == [state: DeliveryState, attempts: Nat, available_at: DueTimes, token: Nat,
              lease_expires_at: Nat, last_error: BOOLEAN]

Types ==
    /\ artifacts \subseteq Artifact
    /\ deliveries \in [Delivery -> OutboxRow]
    /\ clock \in Nat
    /\ workers \in [Workers -> Worker]
    /\ workflow \in [version: Nat, corr: Corrs]
    /\ findings \in [Heads -> Findings \union {NoFinding}]
    /\ checks \in [Artifact -> Nat]
    /\ comments \in Seq(Artifact)
    /\ shown \subseteq Delivery

\* A worker in the middle of a delivery.
Calling(w) == workers[w].pc \in {"lookup", "write", "acknowledge", "retry"}

Recorded == {d \in Delivery : deliveries[d].state # "absent"}

\* A worker delivers what is recorded, acknowledges what was shown, and its time
\* is not ahead of the clock.
DeliveryInv ==
    /\ Types
    /\ \A d \in Recorded : d[1] \in artifacts
    /\ \A w \in Workers : workers[w].at <= clock
    /\ \A w \in Workers : Calling(w) => workers[w].d \in Recorded
    /\ \A w \in Workers : workers[w].pc = "acknowledge" => workers[w].d \in shown

\* Unless its lease was taken over, a delivery is in one worker's hands, and what
\* that worker has looked up is still so when it writes.
CallInv ==
    /\ \A w, v \in Workers :
        Calling(w) /\ Calling(v) /\ workers[w].d = workers[v].d
                   /\ workers[w].d \notin overrun => w = v
    /\ \A w \in Workers :
        workers[w].pc = "write" /\ workers[w].d[2] = "check"
                                /\ workers[w].d \notin overrun =>
            workers[w].found = checks[workers[w].d[1]]
    /\ \A a \in Artifact : <<a, "check">> \notin overrun => checks[a] \in {0, 1}

Audited(corr) == \E entry \in audit : entry[2] = corr

Retained(head, corr) == findings[head] # NoFinding /\ findings[head].corr = corr

\* A review is audited before its finding is recorded, and both before it is
\* published.
ReviewInv ==
    /\ \A w \in Workers : workers[w].pc \in {"finding", "insert", "artifact"} =>
           Audited(workers[w].event.corr)
    /\ \A w \in Workers : workers[w].pc = "artifact" =>
           Retained(workers[w].event.head, workers[w].event.corr)
    /\ \A a \in artifacts : a.head \in Heads
    /\ PublishedIsRecorded

Inv == DeliveryInv /\ CallInv /\ ReviewInv

-----------------------------------------------------------------------------
(* The operators the steps are built from *)

\* A worker's step.
LEMMA WorkerSteps ==
    ASSUME workers \in [Workers -> Worker], NEW w \in Workers, NEW new \in Worker,
           workers' = [workers EXCEPT ![w] = new]
    PROVE  /\ workers' \in [Workers -> Worker]
           /\ workers'[w] = new
           /\ \A v \in Workers \ {w} : workers'[v] = workers[v]
  OBVIOUS

\* A worker that is done holds nothing.
LEMMA IdleType ==
    IdleWorker \in Worker /\ IdleWorker.pc = "idle" /\ IdleWorker.at = 0
<1>1. (CHOOSE e \in Events : TRUE) \in Events /\ (CHOOSE c \in Changes : TRUE) \in Changes
  BY ReviewConstants
<1> QED  BY <1>1 DEF IdleWorker, Worker

\* What a worker's record holds.
LEMMA WorkerType ==
    ASSUME DeliveryInv, NEW w \in Workers
    PROVE  /\ workers[w] \in Worker
           /\ workers[w].event \in Events /\ workers[w].change \in Changes
           /\ workers[w].at \in Nat /\ workers[w].at <= clock /\ workers[w].token \in Nat
           /\ workers[w].found \in Nat /\ workers[w].version \in Nat
           /\ clock \in Nat /\ workflow.version \in Nat
           /\ workers[w].event.corr \in Corrs /\ workers[w].event.head \in Heads
  BY DEF DeliveryInv, Types, Worker, Corrs, Heads

\* A step of one worker that takes back no record and no effect.
LEMMA DeliveryKept ==
    ASSUME DeliveryInv, NEW w \in Workers, NEW new \in Worker,
           workers' = [workers EXCEPT ![w] = new], UNCHANGED clock,
           artifacts \subseteq artifacts', artifacts' \subseteq Artifact,
           deliveries' \in [Delivery -> OutboxRow],
           workflow' \in [version: Nat, corr: Corrs],
           findings' \in [Heads -> Findings \union {NoFinding}],
           checks' \in [Artifact -> Nat], comments' \in Seq(Artifact),
           shown \subseteq shown', shown' \subseteq Delivery,
           Recorded \subseteq Recorded', \A d \in Recorded' \ Recorded : d[1] \in artifacts',
           new.at <= clock,
           new.pc \in {"lookup", "write", "acknowledge", "retry"} => new.d \in Recorded',
           new.pc = "acknowledge" => new.d \in shown'
    PROVE  DeliveryInv'
<1>1. /\ workers' \in [Workers -> Worker] /\ workers'[w] = new
      /\ \A v \in Workers \ {w} : workers'[v] = workers[v]
  BY WorkerSteps DEF DeliveryInv, Types
<1>2. Types'
  BY <1>1 DEF DeliveryInv, Types
<1>3. \A d \in Recorded' : d[1] \in artifacts'
  BY DEF DeliveryInv
<1>4. \A v \in Workers : workers'[v].at <= clock'
  BY <1>1 DEF DeliveryInv
<1>5. \A v \in Workers : Calling(v)' => workers'[v].d \in Recorded'
  BY <1>1 DEF DeliveryInv, Calling
<1>6. \A v \in Workers : workers'[v].pc = "acknowledge" => workers'[v].d \in shown'
  BY <1>1 DEF DeliveryInv
<1> QED  BY <1>2, <1>3, <1>4, <1>5, <1>6 DEF DeliveryInv

\* A step of one worker that shows nothing and does not come to write, and comes
\* to no delivery it was not at.
LEMMA CallsKept ==
    ASSUME DeliveryInv, CallInv, NEW w \in Workers, NEW new \in Worker,
           workers' = [workers EXCEPT ![w] = new], UNCHANGED <<checks, overrun>>,
           new.pc # "write",
           new.pc \in {"lookup", "write", "acknowledge", "retry"} =>
               Calling(w) /\ new.d = workers[w].d
    PROVE  CallInv'
<1>1. /\ workers'[w] = new /\ \A v \in Workers \ {w} : workers'[v] = workers[v]
  BY WorkerSteps DEF DeliveryInv, Types
<1>2. \A v \in Workers : Calling(v)' => Calling(v) /\ workers'[v].d = workers[v].d
  BY <1>1 DEF Calling
<1>3. \A v \in Workers : workers'[v].pc = "write" => workers'[v] = workers[v]
  BY <1>1
<1> QED  BY <1>2, <1>3 DEF CallInv

\* A step of one worker that changes no artifact, takes no audit event and no
\* finding back.
LEMMA ReviewKept ==
    ASSUME DeliveryInv, ReviewInv, NEW w \in Workers, NEW new \in Worker,
           workers' = [workers EXCEPT ![w] = new], UNCHANGED artifacts,
           audit \subseteq audit',
           \A h \in Heads : findings[h] # NoFinding => findings'[h] = findings[h],
           NEW corr, NEW head, corr = new.event.corr, head = new.event.head,
           new.pc \in {"finding", "insert", "artifact"} => \E entry \in audit' : entry[2] = corr,
           new.pc = "artifact" => findings'[head] # NoFinding /\ findings'[head].corr = corr
    PROVE  ReviewInv'
<1>1. /\ workers'[w] = new /\ \A v \in Workers \ {w} : workers'[v] = workers[v]
  BY WorkerSteps DEF DeliveryInv, Types
<1>2. \A v \in Workers : workers'[v].pc \in {"finding", "insert", "artifact"} =>
          Audited(workers[v].event.corr)'
  BY <1>1 DEF ReviewInv, Audited
<1>3. \A v \in Workers : workers'[v].pc = "artifact" =>
          Retained(workers[v].event.head, workers[v].event.corr)'
  BY <1>1, WorkerType DEF ReviewInv, Retained
<1>4. PublishedIsRecorded'
  BY DEF ReviewInv, PublishedIsRecorded
<1> QED  BY <1>2, <1>3, <1>4 DEF ReviewInv

\* A step of one worker that leaves the outbox, the review and GitHub alone, and
\* takes the worker to no call it was not at.
LEMMA QuietStep ==
    ASSUME Inv, NEW w \in Workers, NEW new \in Worker,
           workers' = [workers EXCEPT ![w] = new],
           UNCHANGED <<clock, artifacts, deliveries, reviewVars, githubVars, overrun>>,
           new.at <= clock,
           new.pc \in {"idle", "start", "deliver"} \/ (new.pc = "retry" /\ Calling(w)
                                                      /\ new.d = workers[w].d)
    PROVE  Inv'
<1>1. UNCHANGED <<workflow, audit, findings, checks, comments, shown>> /\ Recorded' = Recorded
  BY DEF reviewVars, githubVars, Recorded
<1>2. Calling(w) => workers[w].d \in Recorded
  BY DEF Inv, DeliveryInv
<1>3. DeliveryInv'
  BY <1>1, <1>2, DeliveryKept DEF Inv, DeliveryInv, Types
<1>4. CallInv'
  BY <1>1, CallsKept DEF Inv
<1>5. ReviewInv'
  BY <1>1, ReviewKept DEF Inv
<1> QED  BY <1>3, <1>4, <1>5 DEF Inv

-----------------------------------------------------------------------------
(* The steps of a review *)

\* A request is received, or recovery begins.
LEMMA BeginKeeps ==
    ASSUME Inv, NEW w \in Workers, Webhook(w) \/ Recover(w)
    PROVE  Inv'
<1>1. CASE Webhook(w)
  <2>1. PICK e \in Events, c \in Changes :
          workers' = [workers EXCEPT ![w].pc = "start", ![w].event = e, ![w].change = c]
    BY <1>1 DEF Webhook
  <2> DEFINE new == [workers[w] EXCEPT !.pc = "start", !.event = e, !.change = c]
  <2>2. /\ new \in Worker /\ new.pc = "start" /\ new.at <= clock
        /\ workers' = [workers EXCEPT ![w] = new]
    BY <2>1, WorkerType DEF Inv, Worker
  <2> HIDE DEF new
  <2> QED  BY <1>1, <2>2, QuietStep DEF Webhook
<1>2. CASE Recover(w)
  <2> DEFINE new == [workers[w] EXCEPT !.pc = "deliver", !.scope = Artifact, !.at = clock]
  <2>1. clock \in Nat /\ clock <= clock /\ Artifact \in SUBSET Artifact
    BY WorkerType DEF Inv
  <2>2. new \in Worker /\ new.pc = "deliver" /\ new.at = clock
    BY <2>1, WorkerType DEF Inv, Worker
  <2>3. workers' = [workers EXCEPT ![w] = new]
    BY <1>2 DEF Recover
  <2> HIDE DEF new
  <2> QED  BY <1>2, <2>1, <2>2, <2>3, QuietStep DEF Recover
<1> QED  BY <1>1, <1>2

\* A worker ends, by itself or because it dies.
LEMMA EndKeeps ==
    ASSUME Inv, NEW w \in Workers, End(w),
           UNCHANGED <<clock, artifacts, deliveries, reviewVars, githubVars, overrun>>
    PROVE  Inv'
<1>1. workers' = [workers EXCEPT ![w] = IdleWorker] /\ 0 <= clock
  BY WorkerType DEF End, Inv
<1> QED  BY <1>1, IdleType, QuietStep

\* The review becomes a workflow.
LEMMA StartReviewKeeps ==
    ASSUME Inv, NEW w \in Workers, StartReview(w)
    PROVE  Inv'
<1> DEFINE next == workflow.version + 1
           new == [workers[w] EXCEPT !.pc = "audit", !.version = next]
<1>1. workers' = [workers EXCEPT ![w] = new]
  BY DEF StartReview
<1>2. /\ next \in Nat /\ workers[w].event.corr \in Corrs
      /\ workflow' = [version |-> next, corr |-> workers[w].event.corr]
  BY WorkerType DEF Inv, StartReview
<1>3. /\ UNCHANGED <<clock, artifacts, deliveries, audit, findings, checks, comments, shown, overrun>>
      /\ Recorded' = Recorded
  BY DEF StartReview, githubVars, Recorded
<1> HIDE DEF next
<1>4. new \in Worker /\ new.pc = "audit" /\ new.at <= clock
  BY <1>2, WorkerType DEF Inv, Worker
<1> HIDE DEF new
<1>5. workflow' \in [version: Nat, corr: Corrs]
  BY <1>2
<1>6. DeliveryInv'
  BY <1>1, <1>3, <1>4, <1>5, DeliveryKept DEF Inv, DeliveryInv, Types
<1>7. CallInv'
  BY <1>1, <1>3, <1>4, CallsKept DEF Inv
<1>8. ReviewInv'
  BY <1>1, <1>3, <1>4, ReviewKept DEF Inv
<1> QED  BY <1>6, <1>7, <1>8 DEF Inv

\* The workflow is audited.
LEMMA AuditReviewKeeps ==
    ASSUME Inv, NEW w \in Workers, AuditReview(w)
    PROVE  Inv'
<1> DEFINE new == [workers[w] EXCEPT !.pc = "finding"]
<1>1. workers' = [workers EXCEPT ![w] = new]
  BY DEF AuditReview, Goto
<1>2. /\ UNCHANGED <<clock, artifacts, deliveries, workflow, findings, checks, comments, shown, overrun>>
      /\ Recorded' = Recorded
  BY DEF AuditReview, githubVars, Recorded
<1>3. new \in Worker /\ new.pc = "finding" /\ new.at <= clock
      /\ new.event = workers[w].event
  BY WorkerType DEF Inv, Worker
<1> HIDE DEF new
<1>4. audit \subseteq audit' /\ \E entry \in audit' : entry[2] = workers[w].event.corr
  <2> DEFINE event == <<workers[w].version, workers[w].event.corr>>
  <2>1. audit' = audit \union {event} /\ event[2] = workers[w].event.corr
    BY DEF AuditReview
  <2> HIDE DEF event
  <2> QED  BY <2>1
<1>5. DeliveryInv'
  BY <1>1, <1>2, <1>3, DeliveryKept DEF Inv, DeliveryInv, Types
<1>6. CallInv'
  BY <1>1, <1>2, <1>3, CallsKept DEF Inv
<1>7. ReviewInv'
  BY <1>1, <1>2, <1>3, <1>4, ReviewKept DEF Inv
<1> QED  BY <1>5, <1>6, <1>7 DEF Inv

\* A finding is never the absence of one.
LEMMA FindingType ==
    ASSUME NEW e \in Events, NEW change \in Changes
    PROVE  /\ NewFinding(e, change) \in Findings
           /\ NewFinding(e, change) # NoFinding
           /\ NewFinding(e, change).corr = e.corr
<1>1. Band(Score(change)) \in {"low", "moderate", "high", "critical"}
  BY DEF Band
<1>2. SimulatedAction(change) \in
          {"none", "extended-tests", "additional-approval", "would-block"}
  BY DEF SimulatedAction
<1>3. e.corr \in Corrs
  BY DEF Corrs
<1>4. NewFinding(e, change) \in Findings /\ NewFinding(e, change).corr = e.corr
  BY <1>1, <1>2, <1>3 DEF NewFinding, Findings
<1> QED  BY <1>4, ReviewConstants

\* The SELECT of record_finding: the finding is there, is another one, or is to be
\* recorded.
LEMMA FindFindingKeeps ==
    ASSUME Inv, NEW w \in Workers, FindFinding(w)
    PROVE  Inv'
<1> DEFINE e == workers[w].event
           finding == NewFinding(e, workers[w].change)
<1>1. e \in Events /\ e.head \in Heads /\ workers[w].change \in Changes
  BY WorkerType DEF Inv
<1>2. finding # NoFinding /\ finding.corr = e.corr
  BY <1>1, FindingType
<1>3. /\ UNCHANGED <<clock, artifacts, deliveries, workflow, audit, findings, checks, comments>>
      /\ UNCHANGED <<shown, overrun>>
      /\ Recorded' = Recorded /\ workers[w].pc = "finding"
  BY DEF FindFinding, reviewVars, githubVars, Recorded, At
<1>4. ASSUME NEW pc \in {"insert", "artifact"}, Goto(w, pc),
             pc = "artifact" => findings[e.head] = finding
      PROVE  Inv'
  <2> DEFINE new == [workers[w] EXCEPT !.pc = pc]
  <2>1. workers' = [workers EXCEPT ![w] = new]
    BY <1>4 DEF Goto
  <2>2. new \in Worker /\ new.pc = pc /\ new.at <= clock /\ new.event = e
    BY WorkerType DEF Inv, Worker
  <2>3. \E entry \in audit : entry[2] = e.corr
    BY <1>3 DEF Inv, ReviewInv, Audited
  <2>4. pc = "artifact" => findings[e.head] # NoFinding /\ findings[e.head].corr = e.corr
    BY <1>2, <1>4
  <2> HIDE DEF new, finding, e
  <2>5. DeliveryInv'
    BY <1>3, <2>1, <2>2, DeliveryKept DEF Inv, DeliveryInv, Types
  <2>6. CallInv'
    BY <1>3, <2>1, <2>2, CallsKept DEF Inv
  <2>7. ReviewInv'
    <3>1. e.corr = new.event.corr /\ e.head = new.event.head
      BY <2>2
    <3> QED  BY <1>3, <2>1, <2>2, <2>3, <2>4, <3>1, ReviewKept, ZenonT(40) DEF Inv
  <2> QED  BY <2>5, <2>6, <2>7 DEF Inv
<1>5. CASE End(w)
  BY <1>3, <1>5, EndKeeps DEF reviewVars, githubVars
<1> QED  BY <1>4, <1>5 DEF FindFinding

\* The INSERT of record_finding: the finding of a head is recorded, or the review
\* ends.
LEMMA RecordFindingKeeps ==
    ASSUME Inv, NEW w \in Workers, RecordFinding(w)
    PROVE  Inv'
<1> DEFINE e == workers[w].event
           finding == NewFinding(e, workers[w].change)
           new == [workers[w] EXCEPT !.pc = "artifact"]
<1>1. e \in Events /\ e.head \in Heads /\ workers[w].change \in Changes
  BY WorkerType DEF Inv
<1>2. finding \in Findings /\ finding # NoFinding /\ finding.corr = e.corr
  BY <1>1, FindingType
<1>3. /\ UNCHANGED <<clock, artifacts, deliveries, workflow, audit, checks, comments, shown, overrun>>
      /\ Recorded' = Recorded /\ workers[w].pc = "insert"
  BY DEF RecordFinding, githubVars, Recorded, At
<1>4. CASE /\ findings[e.head] = NoFinding
           /\ findings' = [findings EXCEPT ![e.head] = finding]
           /\ Goto(w, "artifact")
  <2>1. workers' = [workers EXCEPT ![w] = new]
    BY <1>4 DEF Goto
  <2>2. new \in Worker /\ new.pc = "artifact" /\ new.at <= clock
        /\ new.event = e
    BY WorkerType DEF Inv, Worker
  <2>3. \E entry \in audit : entry[2] = e.corr
    BY <1>3 DEF Inv, ReviewInv, Audited
  <2> HIDE DEF new, finding, e
  <2>4. findings \in [Heads -> Findings \union {NoFinding}]
    BY DEF Inv, DeliveryInv, Types
  <2>5. /\ findings' \in [Heads -> Findings \union {NoFinding}]
        /\ findings'[e.head] = finding
        /\ \A h \in Heads : findings[h] # NoFinding => findings'[h] = findings[h]
    <3>1. /\ findings' \in [Heads -> Findings \union {NoFinding}]
          /\ findings'[e.head] = finding
          /\ \A h \in Heads : h # e.head => findings'[h] = findings[h]
      BY <1>1, <1>2, <1>4, <2>4
    <3> QED  BY <1>4, <3>1
  <2>6. DeliveryInv'
    BY <1>3, <2>1, <2>2, <2>5, DeliveryKept DEF Inv, DeliveryInv, Types
  <2>7. CallInv'
    BY <1>3, <2>1, <2>2, CallsKept DEF Inv
  <2>8. ReviewInv'
    <3>1. e.corr = new.event.corr /\ e.head = new.event.head
      BY <2>2
    <3>2. findings'[e.head] # NoFinding /\ findings'[e.head].corr = e.corr
      BY <1>2, <2>5
    <3> QED  BY <1>3, <2>1, <2>2, <2>3, <2>5, <3>1, <3>2, ReviewKept, ZenonT(40) DEF Inv
  <2> QED  BY <2>6, <2>7, <2>8 DEF Inv
<1>5. CASE End(w) /\ UNCHANGED findings
  BY <1>3, <1>5, EndKeeps DEF RecordFinding, reviewVars
<1> QED  BY <1>4, <1>5 DEF RecordFinding

\* The artifact goes into the outbox, with its deliveries.
LEMMA PublishKeeps ==
    ASSUME Inv, NEW w \in Workers, Publish(w)
    PROVE  Inv'
<1> DEFINE e == workers[w].event
           a == NewArtifact(e, Conclusion(workers[w].change), Least(clock, Horizon))
           new == [workers[w] EXCEPT !.pc = "deliver", !.scope = {a}, !.at = clock]
<1>1. a \in Artifact /\ a.head = e.head /\ a.corr = e.corr
  <2>1. clock \in Nat /\ Horizon \in Nat
    BY PublicationConstants DEF Inv, DeliveryInv, Types
  <2>2. Least(clock, Horizon) \in 0..Horizon
    BY <2>1 DEF Least
  <2>3. a \in Artifact
    BY <2>2, WorkerType, ReviewConstants DEF Inv
  <2> QED  BY <2>3 DEF NewArtifact
<1>2. /\ UNCHANGED <<clock, workflow, audit, findings, checks, comments, shown, overrun>>
      /\ workers[w].pc = "artifact" /\ workers' = [workers EXCEPT ![w] = new]
  BY DEF Publish, reviewVars, githubVars, At
<1>3. RecordArtifact(a, clock)
  BY DEF Publish
<1> HIDE DEF a, e
<1>4. new \in Worker /\ new.pc = "deliver" /\ new.at <= clock
  <2>1. clock \in Nat /\ clock <= clock /\ {a} \in SUBSET Artifact
    BY <1>1, WorkerType DEF Inv
  <2>2. new \in Worker /\ new.pc = "deliver" /\ new.at = clock
    BY <2>1, WorkerType DEF Inv, Worker
  <2> QED  BY <2>1, <2>2
<1> HIDE DEF new
<1>5. /\ artifacts' = artifacts \union {a}
      /\ \A d \in Delivery : \/ deliveries'[d] = deliveries[d]
                            \/ /\ d[1] = a /\ a \notin artifacts
                               /\ deliveries'[d].state = "pending"
                               /\ deliveries'[d] \in OutboxRow
      /\ deliveries' \in [Delivery -> OutboxRow]
  <2> DEFINE row == [AbsentRow EXCEPT !.state = "pending", !.available_at = clock]
  <2>1. clock \in DueTimes
    BY WorkerType DEF Inv, DueTimes
  <2>2. row \in OutboxRow /\ row.state = "pending"
    BY <2>1 DEF AbsentRow, OutboxRow, DeliveryState
  <2>3. deliveries' = [d \in Delivery |-> IF d[1] = a /\ a \notin artifacts THEN row
                                          ELSE deliveries[d]]
    BY <1>3 DEF RecordArtifact
  <2> HIDE DEF row
  <2>4. deliveries \in [Delivery -> OutboxRow]
    BY DEF Inv, DeliveryInv, Types
  <2> QED  BY <1>3, <2>2, <2>3, <2>4 DEF RecordArtifact
<1>6. Recorded \subseteq Recorded' /\ \A d \in Recorded' \ Recorded : d[1] \in artifacts'
  BY <1>5 DEF Recorded
<1>7. DeliveryInv'
  BY <1>1, <1>2, <1>4, <1>5, <1>6, DeliveryKept DEF Inv, DeliveryInv, Types
<1>8. CallInv'
  BY <1>2, <1>4, CallsKept DEF Inv
<1>9. ReviewInv'
  <2>1. /\ workers'[w] = new /\ \A v \in Workers \ {w} : workers'[v] = workers[v]
    BY <1>2, <1>4, WorkerSteps DEF Inv, DeliveryInv, Types
  <2>2. (\E entry \in audit : entry[2] = a.corr)
        /\ findings[a.head] # NoFinding /\ findings[a.head].corr = a.corr
    BY <1>1, <1>2 DEF Inv, ReviewInv, Audited, Retained, e
  <2>3. PublishedIsRecorded' /\ \A b \in artifacts' : b.head \in Heads
    BY <1>1, <1>2, <1>5, <2>2, WorkerType DEF Inv, ReviewInv, PublishedIsRecorded, e
  <2>4. \A v \in Workers : workers'[v].pc \in {"finding", "insert", "artifact"} => workers'[v] = workers[v]
    BY <1>4, <2>1
  <2> QED  BY <1>2, <2>3, <2>4 DEF Inv, ReviewInv, Audited, Retained
<1> QED  BY <1>7, <1>8, <1>9 DEF Inv

-----------------------------------------------------------------------------
(* The steps of a delivery *)

\* A row of the outbox is rewritten, and stays.
LEMMA RowWritten ==
    ASSUME Inv, NEW d \in Recorded, NEW row \in OutboxRow, row.state # "absent",
           deliveries' = [deliveries EXCEPT ![d] = row]
    PROVE  /\ deliveries' \in [Delivery -> OutboxRow]
           /\ deliveries'[d] = row
           /\ \A c \in Delivery \ {d} : deliveries'[c] = deliveries[c]
           /\ Recorded' = Recorded
<1>1. d \in Delivery /\ deliveries[d].state # "absent"
  BY DEF Recorded
<1>2. /\ deliveries' \in [Delivery -> OutboxRow]
      /\ deliveries'[d] = row
      /\ \A c \in Delivery \ {d} : deliveries'[c] = deliveries[c]
  BY <1>1 DEF Inv, DeliveryInv, Types
<1> QED  BY <1>1, <1>2 DEF Recorded

\* What a claim does to the row.
LEMMA ClaimEffect ==
    ASSUME Inv, NEW w \in Workers, Claim(w)
    PROVE  \E d \in Recorded, row \in OutboxRow :
              /\ \/ deliveries[d].state = "pending"
                 \/ /\ deliveries[d].state = "leased"
                    /\ deliveries[d].lease_expires_at <= workers[w].at
              /\ deliveries' = [deliveries EXCEPT ![d] = row] /\ row.state = "leased"
              /\ workers' = [workers EXCEPT ![w].pc = "lookup", ![w].d = d,
                                            ![w].token = deliveries[d].attempts + 1]
              /\ overrun' = IF StillAtIt(d, w) THEN overrun \union {d} ELSE overrun
<1>1. PICK d \in FirstOf(Due(workers[w].at, workers[w].scope)) :
          /\ ClaimNext(d, workers[w].at)
          /\ workers' = [workers EXCEPT ![w].pc = "lookup", ![w].d = d,
                                        ![w].token = deliveries[d].attempts + 1]
          /\ overrun' = IF StillAtIt(d, w) THEN overrun \union {d} ELSE overrun
  BY DEF Claim
<1>2. /\ d \in Delivery
      /\ \/ deliveries[d].state = "pending"
         \/ /\ deliveries[d].state = "leased"
            /\ deliveries[d].lease_expires_at <= workers[w].at
  BY <1>1 DEF FirstOf, Due
<1> DEFINE attempt == deliveries[d].attempts + 1
           until == workers[w].at + LeaseDuration
           row == [deliveries[d] EXCEPT !.state = "leased", !.attempts = attempt,
                       !.token = attempt, !.lease_expires_at = until,
                       !.last_error = FALSE]
<1>3. deliveries[d] \in OutboxRow /\ attempt \in Nat /\ until \in Nat
  BY <1>2, WorkerType, OutboxConstants, SMTT(30) DEF Inv, DeliveryInv, Types, OutboxRow
<1>4. deliveries' = [deliveries EXCEPT ![d] = row]
  BY <1>1 DEF ClaimNext
<1> HIDE DEF attempt, until
<1>5. row \in OutboxRow /\ row.state = "leased"
  BY <1>3 DEF OutboxRow, DeliveryState
<1> HIDE DEF row
<1>6. d \in Recorded
  BY <1>2 DEF Recorded
<1> QED  BY <1>1, <1>2, <1>4, <1>5, <1>6

\* A claim of a delivery another worker is still at is an overrun.
LEMMA ClaimKeeps ==
    ASSUME Inv, NEW w \in Workers, Claim(w)
    PROVE  Inv'
<1>1. PICK d \in Recorded, row \in OutboxRow :
          /\ deliveries' = [deliveries EXCEPT ![d] = row] /\ row.state = "leased"
          /\ workers' = [workers EXCEPT ![w].pc = "lookup", ![w].d = d,
                                        ![w].token = deliveries[d].attempts + 1]
          /\ overrun' = IF StillAtIt(d, w) THEN overrun \union {d} ELSE overrun
  BY ClaimEffect
<1> DEFINE token == deliveries[d].attempts + 1
           new == [workers[w] EXCEPT !.pc = "lookup", !.d = d, !.token = token]
<1>2. d \in Delivery /\ token \in Nat
  BY DEF Recorded, Inv, DeliveryInv, Types, OutboxRow
<1>3. workers' = [workers EXCEPT ![w] = new]
  BY <1>1
<1> HIDE DEF token
<1>4. new \in Worker /\ new.pc = "lookup" /\ new.d = d /\ new.at <= clock
  BY <1>2, WorkerType DEF Inv, Worker
<1> HIDE DEF new
<1>5. deliveries' \in [Delivery -> OutboxRow] /\ Recorded' = Recorded
  BY <1>1, RowWritten
<1>6. /\ UNCHANGED <<clock, artifacts, workflow, audit, findings, checks, comments, shown>>
      /\ workers[w].pc = "deliver"
  BY DEF Claim, FirstOf, ClaimNext, reviewVars, githubVars, At
<1>7. DeliveryInv'
  BY <1>3, <1>4, <1>5, <1>6, DeliveryKept DEF Inv, DeliveryInv, Types
<1>8. ReviewInv'
  BY <1>3, <1>4, <1>6, ReviewKept DEF Inv
<1>9. /\ workers'[w] = new /\ \A v \in Workers \ {w} : workers'[v] = workers[v]
  BY <1>3, <1>4, WorkerSteps DEF Inv, DeliveryInv, Types
<1>10. overrun \subseteq overrun'
  BY <1>1
<1>11. ASSUME NEW v \in Workers \ {w}, Calling(v), workers[v].d = d PROVE d \in overrun'
  <2>1. StillAtIt(d, w)
    BY <1>11 DEF StillAtIt, Calling
  <2> QED  BY <1>1, <2>1
<1>12. \A u, v \in Workers :
          Calling(u)' /\ Calling(v)' /\ workers'[u].d = workers'[v].d
                      /\ workers'[u].d \notin overrun' => u = v
  BY <1>4, <1>9, <1>10, <1>11 DEF Inv, CallInv, Calling
<1>13. \A v \in Workers : workers'[v].pc = "write" => workers'[v] = workers[v]
  BY <1>4, <1>9
<1>14. CallInv'
  BY <1>6, <1>10, <1>12, <1>13 DEF Inv, CallInv
<1> QED  BY <1>7, <1>8, <1>14 DEF Inv

\* Looking up what GitHub has.
LEMMA LookupKeeps ==
    ASSUME Inv, NEW w \in Workers, Lookup(w)
    PROVE  Inv'
<1> DEFINE d == workers[w].d
           seen == IF d[2] = "check" THEN checks[d[1]] ELSE Len(comments)
           new == [workers[w] EXCEPT !.pc = "write", !.found = seen]
<1>1. /\ UNCHANGED <<clock, artifacts, deliveries, workflow, audit, findings, checks,
                     comments, shown, overrun>>
      /\ Recorded' = Recorded /\ workers[w].pc = "lookup"
      /\ workers' = [workers EXCEPT ![w] = new]
  BY DEF Lookup, reviewVars, githubVars, Recorded, At
<1>2. d \in Recorded /\ d \in Delivery /\ d[1] \in Artifact
  BY <1>1 DEF Inv, DeliveryInv, Calling, Recorded, Delivery
<1>3. seen \in Nat
  BY <1>2, LenProperties DEF Inv, DeliveryInv, Types
<1>4. d[2] = "check" => seen = checks[d[1]]
  OBVIOUS
<1> HIDE DEF seen
<1>5. /\ new \in Worker /\ new.pc = "write" /\ new.d = d /\ new.at <= clock
      /\ new.found = seen
  BY <1>3, WorkerType DEF Inv, Worker
<1> HIDE DEF new
<1>6. DeliveryInv'
  BY <1>1, <1>2, <1>5, DeliveryKept DEF Inv, DeliveryInv, Types
<1>7. ReviewInv'
  BY <1>1, <1>5, ReviewKept DEF Inv
<1>8. /\ workers'[w] = new /\ \A v \in Workers \ {w} : workers'[v] = workers[v]
  BY <1>1, <1>5, WorkerSteps DEF Inv, DeliveryInv, Types
<1>9. \A v \in Workers : Calling(v)' => Calling(v) /\ workers'[v].d = workers[v].d
  BY <1>1, <1>5, <1>8 DEF Calling
<1>10. CallInv'
  BY <1>1, <1>4, <1>5, <1>8, <1>9 DEF Inv, CallInv
<1> QED  BY <1>6, <1>7, <1>10 DEF Inv

\* What showing a delivery does.
LEMMA ShowEffect ==
    ASSUME Inv, NEW w \in Workers, workers[w].pc = "write",
           Show(workers[w].d, workers[w].found)
    PROVE  /\ workers[w].d \in Recorded
           /\ comments' \in Seq(Artifact) /\ checks' \in [Artifact -> Nat]
           /\ shown' = shown \union {workers[w].d}
           /\ \A a \in Artifact :
                \/ checks'[a] = checks[a]
                \/ /\ workers[w].d = <<a, "check">> /\ workers[w].found = 0
                   /\ checks'[a] = checks[a] + 1
<1> DEFINE d == workers[w].d
           found == workers[w].found
<1>1. /\ d \in Recorded /\ d \in Delivery /\ d[1] \in Artifact /\ d = <<d[1], d[2]>>
      /\ d[2] \in {"check", "comment"}
  BY DEF Inv, DeliveryInv, Calling, Recorded, Delivery, DeliveryKey
<1>2. checks \in [Artifact -> Nat] /\ comments \in Seq(Artifact) /\ found \in Nat
  BY WorkerType DEF Inv, DeliveryInv, Types
<1>3. shown' = shown \union {d}
  BY DEF Show
<1>4. comments' \in Seq(Artifact)
  <2>1. CASE d[2] = "check"
    BY <1>2, <2>1 DEF Show
  <2>2. CASE d[2] # "check" /\ found = 0
    <3>1. comments' = Append(comments, d[1])
      BY <1>1, <2>2 DEF Show
    <3> QED  BY <1>1, <1>2, <3>1, AppendProperties
  <2>3. CASE d[2] # "check" /\ found # 0
    <3>1. comments' = [comments EXCEPT ![found] = d[1]]
      BY <1>1, <2>3 DEF Show
    <3>2. /\ Len(comments) \in Nat /\ comments \in [1..Len(comments) -> Artifact]
      BY <1>2, LenProperties
    <3>3. comments' \in [1..Len(comments) -> Artifact]
      BY <1>1, <3>1, <3>2
    <3> QED  BY <3>2, <3>3, SeqDef
  <2> QED  BY <2>1, <2>2, <2>3
<1>5. CASE ~(d[2] = "check" /\ found = 0)
  <2>1. checks' = checks
    BY <1>5 DEF Show
  <2> QED  BY <1>1, <1>2, <1>3, <1>4, <2>1
<1>6. CASE d[2] = "check" /\ found = 0
  <2> DEFINE more == checks[d[1]] + 1
  <2>1. checks' = [checks EXCEPT ![d[1]] = more]
    BY <1>6 DEF Show
  <2>2. more \in Nat
    BY <1>1, <1>2
  <2> HIDE DEF more
  <2>3. /\ checks' \in [Artifact -> Nat] /\ checks'[d[1]] = more
        /\ \A a \in Artifact \ {d[1]} : checks'[a] = checks[a]
    BY <1>1, <1>2, <2>1, <2>2
  <2>4. d = <<d[1], "check">>
    BY <1>1, <1>6
  <2> QED  BY <1>1, <1>3, <1>4, <1>6, <2>3, <2>4 DEF more
<1> QED  BY <1>5, <1>6

\* Showing a delivery: a check is created where none was, and nobody else is at it.
LEMMA ShowKeeps ==
    ASSUME Inv, NEW w \in Workers, NEW pc \in {"acknowledge", "retry"},
           workers[w].pc = "write", Show(workers[w].d, workers[w].found), Goto(w, pc),
           UNCHANGED <<clock, artifacts, deliveries, reviewVars, overrun>>
    PROVE  Inv'
<1> DEFINE d == workers[w].d
           new == [workers[w] EXCEPT !.pc = pc]
<1>1. /\ UNCHANGED <<workflow, audit, findings>> /\ Recorded' = Recorded
      /\ workers' = [workers EXCEPT ![w] = new]
  BY DEF Goto, reviewVars, Recorded
<1>2. /\ d \in Recorded /\ d \in Delivery
      /\ comments' \in Seq(Artifact) /\ checks' \in [Artifact -> Nat]
      /\ shown' = shown \union {d}
      /\ \A a \in Artifact :
           \/ checks'[a] = checks[a]
           \/ /\ d = <<a, "check">> /\ workers[w].found = 0
              /\ checks'[a] = checks[a] + 1
  BY ShowEffect DEF Recorded
<1>3. new \in Worker /\ new.pc = pc /\ new.d = d /\ new.at <= clock
  BY WorkerType DEF Inv, Worker
<1> HIDE DEF new
<1>4. DeliveryInv'
  BY <1>1, <1>2, <1>3, DeliveryKept DEF Inv, DeliveryInv, Types
<1>5. ReviewInv'
  BY <1>1, <1>3, ReviewKept DEF Inv
<1>6. /\ workers'[w] = new /\ \A v \in Workers \ {w} : workers'[v] = workers[v]
  BY <1>1, <1>3, WorkerSteps DEF Inv, DeliveryInv, Types
<1>7. Calling(w) /\ \A v \in Workers : Calling(v)' => Calling(v) /\ workers'[v].d = workers[v].d
  BY <1>3, <1>6 DEF Calling
<1>8. \A a \in Artifact : <<a, "check">> \notin overrun' => checks'[a] \in {0, 1}
  <2> SUFFICES ASSUME NEW a \in Artifact, <<a, "check">> \notin overrun
               PROVE  checks'[a] \in {0, 1}
    OBVIOUS
  <2>1. CASE d = <<a, "check">> /\ workers[w].found = 0 /\ checks'[a] = checks[a] + 1
    <3>1. d[1] = a /\ d[2] = "check"
      BY <2>1
    <3>2. checks[a] = 0
      BY <2>1, <3>1 DEF Inv, CallInv
    <3> QED  BY <2>1, <3>2
  <2>2. CASE checks'[a] = checks[a]
    BY <2>2 DEF Inv, CallInv
  <2> QED  BY <1>2, <2>1, <2>2
<1>9. ASSUME NEW v \in Workers, workers'[v].pc = "write", workers'[v].d[2] = "check",
             workers'[v].d \notin overrun'
      PROVE  workers'[v].found = checks'[workers'[v].d[1]]
  <2>1. v # w /\ workers'[v] = workers[v] /\ Calling(v)
    BY <1>3, <1>6, <1>9 DEF Calling
  <2>2. workers[v].d # d
    BY <1>7, <1>9, <2>1 DEF Inv, CallInv
  <2>3. /\ workers[v].d \in Delivery /\ workers[v].d[1] \in Artifact
        /\ workers[v].d = <<workers[v].d[1], "check">>
    BY <1>9, <2>1 DEF Inv, DeliveryInv, Recorded, Delivery
  <2>4. checks'[workers[v].d[1]] = checks[workers[v].d[1]]
    BY <1>2, <2>2, <2>3
  <2> QED  BY <1>9, <2>1, <2>4 DEF Inv, CallInv
<1>10. CallInv'
  BY <1>7, <1>8, <1>9 DEF Inv, CallInv
<1> QED  BY <1>4, <1>5, <1>10 DEF Inv

\* A step that ends a held lease rewrites one row, which stays.
LEMMA OutboxStepKeeps ==
    ASSUME Inv, NEW w \in Workers, NEW new \in Worker, NEW row \in OutboxRow,
           workers[w].d \in Recorded, row.state # "absent",
           deliveries' = [deliveries EXCEPT ![workers[w].d] = row],
           workers' = [workers EXCEPT ![w] = new],
           UNCHANGED <<clock, artifacts, reviewVars, githubVars, overrun>>,
           new.pc \in {"idle", "deliver"}, new.at <= clock
    PROVE  Inv'
<1>1. UNCHANGED <<workflow, audit, findings, checks, comments, shown>>
  BY DEF reviewVars, githubVars
<1>2. deliveries' \in [Delivery -> OutboxRow] /\ Recorded' = Recorded
  BY RowWritten
<1>3. DeliveryInv'
  BY <1>1, <1>2, DeliveryKept DEF Inv, DeliveryInv, Types
<1>4. CallInv'
  BY <1>1, CallsKept DEF Inv
<1>5. ReviewInv'
  BY <1>1, ReviewKept DEF Inv
<1> QED  BY <1>3, <1>4, <1>5 DEF Inv

\* What acknowledging does, where the lease is held.
LEMMA AcknowledgeEffect ==
    ASSUME Inv, NEW w \in Workers, AcknowledgeDelivery(w),
           HoldsLease(workers[w].d, workers[w].token)
    PROVE  /\ workers[w].d \in Recorded /\ workers[w].d \in shown
           /\ deliveries[workers[w].d].state = "leased"
           /\ \E row \in OutboxRow : /\ row.state = "delivered"
                                     /\ deliveries' = [deliveries EXCEPT ![workers[w].d] = row]
<1> DEFINE d == workers[w].d
           row == [deliveries[d] EXCEPT !.state = "delivered", !.token = 0,
                                        !.lease_expires_at = 0, !.last_error = FALSE]
<1>1. d \in Recorded /\ d \in Delivery /\ d \in shown
  BY DEF Inv, DeliveryInv, AcknowledgeDelivery, At, Calling, Recorded
<1>2. deliveries[d] \in OutboxRow /\ deliveries[d].state = "leased"
  BY <1>1 DEF Inv, DeliveryInv, Types, HoldsLease
<1>3. row \in OutboxRow /\ row.state = "delivered"
  BY <1>2 DEF OutboxRow, DeliveryState
<1>4. deliveries' = [deliveries EXCEPT ![d] = row]
  BY DEF AcknowledgeDelivery, Acknowledge
<1> HIDE DEF row
<1> QED  BY <1>1, <1>2, <1>3, <1>4

\* Acknowledging.
LEMMA AcknowledgeKeeps ==
    ASSUME Inv, NEW w \in Workers, AcknowledgeDelivery(w)
    PROVE  Inv'
<1>1. UNCHANGED <<clock, artifacts, reviewVars, githubVars, overrun>>
  BY DEF AcknowledgeDelivery, Acknowledge, outboxVars
<1>2. CASE HoldsLease(workers[w].d, workers[w].token)
  <2> DEFINE count == workers[w].delivered + 1
             new == [workers[w] EXCEPT !.pc = "deliver", !.d = NoDelivery,
                            !.token = 0, !.found = 0, !.delivered = count]
  <2>1. workers' = [workers EXCEPT ![w] = new]
    BY <1>2 DEF AcknowledgeDelivery
  <2>2. count \in Nat
    BY DEF Inv, DeliveryInv, Types, Worker
  <2> HIDE DEF count
  <2>3. new \in Worker /\ new.pc = "deliver" /\ new.at <= clock
    BY <2>2, WorkerType DEF Inv, Worker
  <2> HIDE DEF new
  <2>4. PICK row \in OutboxRow :
          row.state = "delivered" /\ deliveries' = [deliveries EXCEPT ![workers[w].d] = row]
    BY <1>2, AcknowledgeEffect
  <2> QED  BY <1>1, <1>2, <2>1, <2>3, <2>4, AcknowledgeEffect, OutboxStepKeeps
<1>3. CASE ~HoldsLease(workers[w].d, workers[w].token)
  BY <1>1, <1>3, EndKeeps DEF AcknowledgeDelivery, outboxVars
<1> QED  BY <1>2, <1>3

\* What returning a delivery for retry does, where the lease is held.
LEMMA RetryEffect ==
    ASSUME Inv, NEW w \in Workers, RetryDelivery(w),
           HoldsLease(workers[w].d, workers[w].token)
    PROVE  /\ workers[w].d \in Recorded /\ deliveries[workers[w].d].state = "leased"
           /\ \E row \in OutboxRow : /\ row.state = "pending"
                                     /\ deliveries' = [deliveries EXCEPT ![workers[w].d] = row]
<1> DEFINE d == workers[w].d
           due == workers[w].at + RetryDelay(workers[w].token)
           row == [deliveries[d] EXCEPT !.state = "pending", !.available_at = due,
                       !.token = 0, !.lease_expires_at = 0, !.last_error = TRUE]
<1>1. d \in Recorded /\ d \in Delivery
  BY DEF Inv, DeliveryInv, RetryDelivery, At, Calling, Recorded
<1>2. deliveries[d] \in OutboxRow /\ deliveries[d].state = "leased"
  BY <1>1 DEF Inv, DeliveryInv, Types, HoldsLease
<1>3. due \in DueTimes
  BY WorkerType DEF Inv, DueTimes
<1>4. deliveries' = [deliveries EXCEPT ![d] = row]
  BY DEF RetryDelivery, Retry
<1> HIDE DEF due
<1>5. row \in OutboxRow /\ row.state = "pending"
  BY <1>2, <1>3 DEF OutboxRow, DeliveryState
<1> HIDE DEF row
<1> QED  BY <1>1, <1>2, <1>4, <1>5

\* Returning a delivery for retry.
LEMMA RetryKeeps ==
    ASSUME Inv, NEW w \in Workers, RetryDelivery(w)
    PROVE  Inv'
<1>1. UNCHANGED <<clock, artifacts, reviewVars, githubVars, overrun>> /\ End(w)
  BY DEF RetryDelivery, Retry, outboxVars
<1>2. CASE HoldsLease(workers[w].d, workers[w].token)
  <2>1. PICK row \in OutboxRow :
          row.state = "pending" /\ deliveries' = [deliveries EXCEPT ![workers[w].d] = row]
    BY <1>2, RetryEffect
  <2>2. workers' = [workers EXCEPT ![w] = IdleWorker] /\ 0 <= clock
    BY <1>1, WorkerType DEF End, Inv
  <2> QED  BY <1>1, <1>2, <2>1, <2>2, IdleType, RetryEffect, OutboxStepKeeps
<1>3. CASE ~HoldsLease(workers[w].d, workers[w].token)
  BY <1>1, <1>3, EndKeeps DEF RetryDelivery, outboxVars
<1> QED  BY <1>2, <1>3

\* A call that fails without effect.
LEMMA CallFailsKeeps ==
    ASSUME Inv, NEW w \in Workers, CallFails(w)
    PROVE  Inv'
<1> DEFINE new == [workers[w] EXCEPT !.pc = "retry"]
<1>1. /\ workers' = [workers EXCEPT ![w] = new] /\ Calling(w)
      /\ UNCHANGED <<clock, artifacts, deliveries, reviewVars, githubVars, overrun>>
  BY DEF CallFails, Goto, At, Calling
<1>2. new \in Worker /\ new.pc = "retry" /\ new.d = workers[w].d /\ new.at <= clock
  BY WorkerType DEF Inv, Worker
<1> HIDE DEF new
<1> QED  BY <1>1, <1>2, QuietStep

\* Time passes.
LEMMA TickKeeps ==
    ASSUME Inv, Tick
    PROVE  Inv'
<1>1. UNCHANGED <<artifacts, deliveries, workers, workflow, audit, findings, checks,
                  comments, shown, overrun>>
  BY DEF Tick, reviewVars, githubVars
<1>2. clock \in Nat /\ clock' = clock + 1
  BY DEF Tick, Inv, DeliveryInv, Types
<1>3. \A w \in Workers : workers[w].at <= clock'
  BY <1>2, WorkerType DEF Inv
<1>4. DeliveryInv'
  BY <1>1, <1>2, <1>3 DEF Inv, DeliveryInv, Types, Recorded, Calling
<1>5. CallInv' /\ ReviewInv'
  BY <1>1 DEF Inv, CallInv, Calling, ReviewInv, Audited, Retained, PublishedIsRecorded
<1> QED  BY <1>4, <1>5 DEF Inv

\* Every step preserves the invariant.
LEMMA InvNext == Inv /\ [Next]_vars => Inv'
<1> SUFFICES ASSUME Inv, [Next]_vars PROVE Inv'
  OBVIOUS
<1>1. CASE UNCHANGED vars
  BY <1>1 DEF vars, Inv, DeliveryInv, Types, Recorded, Calling, CallInv, ReviewInv,
              Audited, Retained, PublishedIsRecorded
<1>2. ASSUME NEW w \in Workers, Finish(w) \/ Crash(w) PROVE Inv'
  BY <1>2, EndKeeps DEF Finish, Crash
<1>3. ASSUME NEW w \in Workers, Write(w) \/ AnswerLost(w) PROVE Inv'
  BY <1>3, ShowKeeps DEF Write, AnswerLost, At
<1> QED  BY <1>1, <1>2, <1>3, BeginKeeps, StartReviewKeeps, AuditReviewKeeps,
            FindFindingKeeps, RecordFindingKeeps, PublishKeeps, ClaimKeeps, LookupKeeps, AcknowledgeKeeps,
            RetryKeeps, CallFailsKeeps, TickKeeps
         DEF Next, Work

\* The empty outbox.
LEMMA InvInit == Init => Inv
<1> SUFFICES ASSUME Init PROVE Inv
  OBVIOUS
<1>1. AbsentRow \in OutboxRow /\ AbsentRow.state = "absent"
  BY DEF AbsentRow, OutboxRow, DeliveryState, DueTimes
<1>2. (CHOOSE c \in Corrs : TRUE) \in Corrs
  BY ReviewConstants DEF Corrs
<1>3. Types
  BY <1>1, <1>2, IdleType, EmptySeq DEF Init, OutboxInit, Types
<1>4. /\ Recorded = {} /\ artifacts = {} /\ clock = 0
      /\ \A w \in Workers : workers[w].pc = "idle" /\ workers[w].at = 0
      /\ \A a \in Artifact : checks[a] = 0
  BY <1>1, IdleType DEF Init, OutboxInit, Recorded
<1>5. DeliveryInv
  BY <1>3, <1>4 DEF DeliveryInv, Calling
<1>6. CallInv /\ ReviewInv
  BY <1>4 DEF CallInv, Calling, ReviewInv, PublishedIsRecorded
<1> QED  BY <1>5, <1>6 DEF Inv

-----------------------------------------------------------------------------
(* The theorems *)

\* The invariant of publication, whatever dies, fails or is delivered again.
THEOREM PublicationInvariant == Spec => []Inv
  BY InvInit, InvNext, PTL DEF Spec

\* Nothing is in the outbox whose finding is not retained and audited.
THEOREM PublicationIsRecorded == Spec => []PublishedIsRecorded
<1>1. Inv => PublishedIsRecorded
  BY DEF Inv, ReviewInv
<1> QED  BY <1>1, PublicationInvariant, PTL

\* A second check run for one delivery needs a lease taken over from a worker that
\* is still at it: crashes, failed calls and lost answers are not enough.
THEOREM DuplicatesNeedOverrun == Spec => []DuplicateNeedsOverrun
<1>1. Inv => DuplicateNeedsOverrun
  BY DEF Inv, CallInv, DuplicateNeedsOverrun
<1> QED  BY <1>1, PublicationInvariant, PTL

\* One step's part of LeaseEndsByHolder.
LeaseStep ==
    \A d \in Delivery :
        (deliveries[d].state = "leased" /\ deliveries'[d] # deliveries[d]) =>
            \/ deliveries[d].lease_expires_at <= clock
            \/ \E w \in Workers : /\ workers[w].d = d
                                  /\ workers[w].token = deliveries[d].token
                                  /\ workers'[w] # workers[w]

\* A lease is ended by the worker that holds its token, or after it has expired:
\* a late acknowledgement or retry of an earlier attempt never touches it.
THEOREM LeasesEndByHolder == Spec => LeaseEndsByHolder
<1>1. ASSUME Inv, Next PROVE LeaseStep
  <2>1. ASSUME UNCHANGED deliveries PROVE LeaseStep
    BY <2>1 DEF LeaseStep
  <2>2. ASSUME NEW w \in Workers,
               \/ Webhook(w) \/ Recover(w) \/ StartReview(w) \/ AuditReview(w)
               \/ FindFinding(w) \/ RecordFinding(w) \/ Finish(w) \/ Lookup(w) \/ Write(w)
               \/ CallFails(w) \/ AnswerLost(w) \/ Crash(w)
        PROVE  UNCHANGED deliveries
    BY <2>2 DEF Webhook, Recover, StartReview, AuditReview, FindFinding, RecordFinding,
                Finish, Lookup, Write, CallFails, AnswerLost, Crash
  <2>3. ASSUME NEW w \in Workers, Publish(w) PROVE LeaseStep
    <3>1. \A d \in Delivery : deliveries[d].state = "leased" => d[1] \in artifacts
      BY <1>1 DEF Inv, DeliveryInv, Recorded
    <3> QED  BY <2>3, <3>1 DEF Publish, RecordArtifact, LeaseStep
  <2>4. ASSUME NEW w \in Workers, Claim(w) PROVE LeaseStep
    <3>1. PICK d \in Recorded, row \in OutboxRow :
            /\ \/ deliveries[d].state = "pending"
               \/ /\ deliveries[d].state = "leased"
                  /\ deliveries[d].lease_expires_at <= workers[w].at
            /\ deliveries' = [deliveries EXCEPT ![d] = row] /\ row.state = "leased"
            /\ workers' = [workers EXCEPT ![w].pc = "lookup", ![w].d = d,
                                          ![w].token = deliveries[d].attempts + 1]
            /\ overrun' = IF StillAtIt(d, w) THEN overrun \union {d} ELSE overrun
      BY <1>1, <2>4, ClaimEffect
    <3>2. \A c \in Delivery \ {d} : deliveries'[c] = deliveries[c]
      BY <1>1, <3>1, RowWritten
    <3>3. /\ d \in Delivery /\ deliveries[d].lease_expires_at \in Nat
          /\ workers[w].at \in Nat /\ clock \in Nat /\ workers[w].at <= clock
      BY <1>1, WorkerType DEF Recorded, Inv, DeliveryInv, Types, OutboxRow
    <3>4. deliveries[d].state = "leased" => deliveries[d].lease_expires_at <= clock
      BY <3>1, <3>3
    <3> QED  BY <3>2, <3>4 DEF LeaseStep
  <2>5. ASSUME NEW w \in Workers, AcknowledgeDelivery(w) \/ RetryDelivery(w) PROVE LeaseStep
    <3> DEFINE d == workers[w].d
    <3>1. CASE HoldsLease(d, workers[w].token)
      <4>1. d \in Recorded /\ \E row \in OutboxRow :
              row.state # "absent" /\ deliveries' = [deliveries EXCEPT ![d] = row]
        BY <1>1, <2>5, <3>1, AcknowledgeEffect, RetryEffect
      <4>2. \A c \in Delivery \ {d} : deliveries'[c] = deliveries[c]
        BY <1>1, <4>1, RowWritten
      <4>3. workers[w] \in Worker /\ workers[w].pc \in {"acknowledge", "retry"}
        BY <1>1, <2>5, WorkerType DEF Inv, AcknowledgeDelivery, RetryDelivery, At
      <4>4. workers'[w].pc \in {"deliver", "idle"}
        BY <1>1, <2>5, <3>1, <4>3, IdleType
           DEF Inv, DeliveryInv, Types, AcknowledgeDelivery, RetryDelivery, End, At, Worker
      <4>5. workers'[w] # workers[w]
        BY <4>3, <4>4
      <4>6. deliveries[d].token = workers[w].token
        BY <3>1 DEF HoldsLease
      <4> QED  BY <4>2, <4>5, <4>6 DEF LeaseStep
    <3>2. CASE ~HoldsLease(d, workers[w].token)
      BY <2>1, <2>5, <3>2 DEF AcknowledgeDelivery, RetryDelivery, outboxVars
    <3> QED  BY <3>1, <3>2
  <2>6. CASE Tick
    BY <2>1, <2>6 DEF Tick
  <2> QED  BY <1>1, <2>1, <2>2, <2>3, <2>4, <2>5, <2>6 DEF Next, Work
<1>2. Inv /\ [Next]_vars => [LeaseStep]_vars
  BY <1>1
<1>3. LeaseEndsByHolder <=> [][LeaseStep]_vars
  BY DEF LeaseEndsByHolder, LeaseStep
<1> QED  BY <1>2, <1>3, PublicationInvariant, PTL DEF Spec

-----------------------------------------------------------------------------
(* The outbox implements the contract of external effects *)

Completed == {d \in Delivery : deliveries[d].state = "delivered"}

\* What a step does to the three sets of the contract: nothing, a record, the
\* effect of one recorded delivery or the completion of one shown delivery.
ContractStep ==
    \/ Recorded' = Recorded /\ shown' = shown /\ Completed' = Completed
    \/ /\ Recorded \subseteq Recorded' /\ Recorded' # Recorded
       /\ shown' = shown /\ Completed' = Completed
    \/ /\ \E d \in Recorded \ shown : shown' = shown \union {d}
       /\ Recorded' = Recorded /\ Completed' = Completed
    \/ /\ \E d \in shown \ Completed : Completed' = Completed \union {d}
       /\ Recorded' = Recorded /\ shown' = shown

\* Every step of a worker is a step of the contract, or none.
LEMMA StepsContract ==
    ASSUME Inv, [Next]_vars
    PROVE  ContractStep
<1>1. ASSUME UNCHANGED deliveries PROVE Recorded' = Recorded /\ Completed' = Completed
  BY <1>1 DEF Recorded, Completed
<1>2. ASSUME UNCHANGED <<deliveries, shown>> PROVE ContractStep
  BY <1>1, <1>2 DEF ContractStep
<1>3. ASSUME NEW w \in Workers,
             \/ Webhook(w) \/ Recover(w) \/ StartReview(w) \/ AuditReview(w)
             \/ FindFinding(w) \/ RecordFinding(w) \/ Finish(w) \/ Lookup(w) \/ CallFails(w) \/ Crash(w)
      PROVE  UNCHANGED <<deliveries, shown>>
  BY <1>3 DEF Webhook, Recover, StartReview, AuditReview, FindFinding, RecordFinding, Finish, Lookup,
              CallFails, Crash, githubVars
<1>4. ASSUME NEW w \in Workers, Publish(w) PROVE ContractStep
  <2> DEFINE a == NewArtifact(workers[w].event, Conclusion(workers[w].change),
                              Least(clock, Horizon))
             row == [AbsentRow EXCEPT !.state = "pending", !.available_at = clock]
  <2>1. row.state = "pending"
    BY DEF AbsentRow
  <2>2. /\ deliveries' = [d \in Delivery |-> IF d[1] = a /\ a \notin artifacts THEN row
                                             ELSE deliveries[d]]
        /\ shown' = shown
    BY <1>4 DEF Publish, RecordArtifact, githubVars
  <2> HIDE DEF a, row
  <2>3. \A d \in Delivery : d[1] \notin artifacts => deliveries[d].state = "absent"
    BY DEF Inv, DeliveryInv, Recorded
  <2>4. Recorded \subseteq Recorded' /\ Completed' = Completed
    BY <2>1, <2>2, <2>3 DEF Recorded, Completed
  <2> QED  BY <2>2, <2>4 DEF ContractStep
<1>5. ASSUME NEW d \in Recorded, NEW row \in OutboxRow,
             deliveries[d].state # "delivered", row.state \in {"pending", "leased"},
             deliveries' = [deliveries EXCEPT ![d] = row], shown' = shown
      PROVE  ContractStep
  <2>1. /\ deliveries'[d] = row /\ Recorded' = Recorded
        /\ \A c \in Delivery \ {d} : deliveries'[c] = deliveries[c]
    BY <1>5, RowWritten
  <2>2. Completed' = Completed
    BY <1>5, <2>1 DEF Completed
  <2> QED  BY <1>5, <2>1, <2>2 DEF ContractStep
<1>6. ASSUME NEW w \in Workers, Claim(w) PROVE ContractStep
  <2>1. PICK d \in Recorded, row \in OutboxRow :
          /\ \/ deliveries[d].state = "pending"
             \/ /\ deliveries[d].state = "leased"
                /\ deliveries[d].lease_expires_at <= workers[w].at
          /\ deliveries' = [deliveries EXCEPT ![d] = row] /\ row.state = "leased"
          /\ workers' = [workers EXCEPT ![w].pc = "lookup", ![w].d = d,
                                        ![w].token = deliveries[d].attempts + 1]
          /\ overrun' = IF StillAtIt(d, w) THEN overrun \union {d} ELSE overrun
    BY <1>6, ClaimEffect
  <2>2. shown' = shown
    BY <1>6 DEF Claim, githubVars
  <2> QED  BY <1>5, <2>1, <2>2
<1>7. ASSUME NEW w \in Workers, Write(w) \/ AnswerLost(w) PROVE ContractStep
  <2>1. workers[w].d \in Recorded /\ shown' = shown \union {workers[w].d}
    BY <1>7, ShowEffect DEF Write, AnswerLost, At
  <2>2. Recorded' = Recorded /\ Completed' = Completed
    BY <1>1, <1>7 DEF Write, AnswerLost
  <2>3. CASE workers[w].d \in shown
    <3>1. shown' = shown
      BY <2>1, <2>3
    <3> QED  BY <2>2, <3>1 DEF ContractStep
  <2>4. CASE workers[w].d \notin shown
    BY <2>1, <2>2, <2>4 DEF ContractStep
  <2> QED  BY <2>3, <2>4
<1>8. ASSUME NEW w \in Workers, AcknowledgeDelivery(w) PROVE ContractStep
  <2>1. shown' = shown
    BY <1>8 DEF AcknowledgeDelivery, githubVars
  <2>2. CASE HoldsLease(workers[w].d, workers[w].token)
    <3>1. /\ workers[w].d \in Recorded /\ workers[w].d \in shown
          /\ deliveries[workers[w].d].state = "leased"
      BY <1>8, <2>2, AcknowledgeEffect
    <3>2. PICK row \in OutboxRow :
            row.state = "delivered" /\ deliveries' = [deliveries EXCEPT ![workers[w].d] = row]
      BY <1>8, <2>2, AcknowledgeEffect
    <3>3. /\ deliveries'[workers[w].d] = row /\ Recorded' = Recorded
          /\ \A c \in Delivery \ {workers[w].d} : deliveries'[c] = deliveries[c]
      BY <3>1, <3>2, RowWritten
    <3>4. /\ workers[w].d \in shown \ Completed
          /\ Completed' = Completed \union {workers[w].d}
      BY <3>1, <3>2, <3>3 DEF Completed, Recorded
    <3> QED  BY <2>1, <3>3, <3>4 DEF ContractStep
  <2>3. CASE ~HoldsLease(workers[w].d, workers[w].token)
    BY <1>2, <1>8, <2>1, <2>3 DEF AcknowledgeDelivery, outboxVars
  <2> QED  BY <2>2, <2>3
<1>9. ASSUME NEW w \in Workers, RetryDelivery(w) PROVE ContractStep
  <2>1. shown' = shown
    BY <1>9 DEF RetryDelivery, githubVars
  <2>2. CASE HoldsLease(workers[w].d, workers[w].token)
    <3>1. PICK row \in OutboxRow :
            row.state = "pending" /\ deliveries' = [deliveries EXCEPT ![workers[w].d] = row]
      BY <1>9, <2>2, RetryEffect
    <3> QED  BY <1>5, <1>9, <2>1, <2>2, <3>1, RetryEffect
  <2>3. CASE ~HoldsLease(workers[w].d, workers[w].token)
    BY <1>2, <1>9, <2>1, <2>3 DEF RetryDelivery, outboxVars
  <2> QED  BY <2>2, <2>3
<1>10. CASE Tick \/ UNCHANGED vars
  BY <1>2, <1>10 DEF Tick, vars, githubVars
<1> QED  BY <1>2, <1>3, <1>4, <1>6, <1>7, <1>8, <1>9, <1>10 DEF Next, Work

\* Refinement: what is shown outside was recorded before, a delivery is complete
\* only when its effect has happened, and neither is taken back.
THEOREM OutboxKeepsContract == Spec => ImplementsContract
<1>1. Init => Contract!Init
  BY DEF Init, OutboxInit, AbsentRow, Contract!Init
<1>2. Inv /\ [Next]_vars => [Contract!Next]_(Contract!contractVars)
  <2> SUFFICES ASSUME Inv, [Next]_vars PROVE [Contract!Next]_(Contract!contractVars)
    OBVIOUS
  <2>1. ContractStep /\ Recorded' \subseteq Delivery
    BY StepsContract DEF Recorded
  <2> QED  BY <2>1 DEF ContractStep, Recorded, Completed, Contract!Next,
              Contract!Record,
                       Contract!Effect, Contract!Complete, Contract!contractVars
<1> QED  BY <1>1, <1>2, PublicationInvariant, PTL DEF Spec, ImplementsContract,
            Contract!Spec

-----------------------------------------------------------------------------
(* The shadow pilot: the invariant *)

\* The artifacts at hand, and the runs over them.
Artifacts == {runs[r].artifact : r \in 1..Len(runs)}

Run(written) ==
    [stage: {"queued", "evaluated", "checked", "done"}, head: Nat, change: HeadChanges,
     artifact: written]

Pull == [head: Nat, change: HeadChanges, open: BOOLEAN, labels: Labels \union {{}}]

\* What an observation says of a change, whatever configuration, date and kill
\* switch it was evaluated under.
SaysOf(o, change) ==
    /\ o.score = Score(change)
    /\ o.policy = SimulatedPolicy(change)
    /\ o.would_block => /\ change.context # "unqualified"
                        /\ WeakTests(change)
                        /\ {p \in change.paths : o.rule \in p} # {}

\* A run of the head wrote it, or the workflow of that head made it up.
EvaluatedBy(r, a) ==
    /\ runs[r].head = a.observation.head
    /\ \/ a.altered /\ Touches(runs[r].change.paths, "delivery")
       \/ SaysOf(a.observation, runs[r].change)

\* A head has one change, and the newest head is that of the pull request.
HeadsAreChanges ==
    /\ runs \in Seq(Run(Artifacts))
    /\ pull \in Pull
    /\ \A r \in 1..Len(runs) :
          /\ runs[r].head <= pull.head
          /\ runs[r].head = pull.head => runs[r].change = pull.change
    /\ \A q, r \in 1..Len(runs) : runs[q].head = runs[r].head => runs[q].change = runs[r].change

\* An artifact was written by a run of the head that it names, even where it is
\* downloaded by the run of another.
TrueArtifact(a) ==
    a # Missing => \E q \in 1..Len(runs) : EvaluatedBy(q, a)

ArtifactsAreTrue == \A a \in Artifacts : TrueArtifact(a)

\* A run that is done, and published the observation of its head.
Published(r, o) ==
    /\ runs[r].stage = "done" /\ runs[r].artifact # Missing
    /\ o = runs[r].artifact.observation
    /\ EvaluatedBy(r, runs[r].artifact)

\* The sticky comment is that of a run that is done.
CommentIsTrue ==
    comment.joined => \E r \in 1..Len(runs) : Published(r, comment.observation)

\* The report is that of records that are still there, and dates are numbers.
PacketsAreOfRecords ==
    /\ today \in Nat /\ IsFiniteSet(outcomes)
    /\ report = Report(report.export) /\ report.export \subseteq outcomes
    /\ packet.written => packet.expires_on \in Nat

PilotInv ==
    /\ HeadsAreChanges
    /\ ArtifactsAreTrue
    /\ CommentIsTrue
    /\ JoinedToItsHead
    /\ PacketsAreOfRecords
    /\ ValidPacketIsSound

-----------------------------------------------------------------------------
(* What the evaluation says, and what the publisher concludes from it *)

\* enforcement_decision only blocks a change that meets its condition.
LEMMA BlockedMeetsCondition ==
    ASSUME NEW config, NEW change, NEW day, NEW killed,
           EnforcementDecision(config, change, day, killed).would_block
    PROVE  ConditionMet(config, change)
           /\ EnforcementDecision(config, change, day, killed).rule = config.enforcement.rule
<1>1. Decision(FALSE, "kill-switch", config.enforcement.rule, "none").would_block = FALSE
  BY DEF Decision
<1>2. Decision(FALSE, "mode-not-enforcing", "none", "none").would_block = FALSE
  BY DEF Decision
<1>3. Decision(FALSE, "approval-expired", config.enforcement.rule, "none").would_block = FALSE
  BY DEF Decision
<1>4. Decision(FALSE, "condition-not-met", config.enforcement.rule, "none").would_block = FALSE
  BY DEF Decision
<1>5. \A by : Decision(FALSE, "waived", config.enforcement.rule, by).would_block = FALSE
  BY DEF Decision
<1>6. Decision(TRUE, "condition-met", config.enforcement.rule, "none").rule
          = config.enforcement.rule
  BY DEF Decision
<1> QED
  BY <1>1, <1>2, <1>3, <1>4, <1>5, <1>6, Zenon DEF EnforcementDecision

\* observation_from_assessment: what an observation says of the change it is of.
LEMMA ObservationSaysOfChange ==
    ASSUME NEW config, NEW change, NEW day, NEW killed, NEW at
    PROVE  /\ Observation(config, change, day, killed, at).head = at
           /\ SaysOf(Observation(config, change, day, killed, at), change)
<1> PICK d : d = ServiceDecision(config, change, day, killed)
  OBVIOUS
<1> PICK o : o = Observation(config, change, day, killed, at)
  OBVIOUS
<1>1. /\ o.head = at /\ o.score = Score(change) /\ o.policy = SimulatedPolicy(change)
      /\ o.would_block = d.would_block /\ o.rule = d.rule
  BY DEF Observation
<1>2. SUFFICES ASSUME d.would_block
               PROVE  /\ change.context # "unqualified" /\ WeakTests(change)
                      /\ {p \in change.paths : d.rule \in p} # {}
  BY <1>1 DEF SaysOf
<1>3. change.context # "unqualified"
  <2>1. \A r : Decision(FALSE, "context-unqualified", r, "none").would_block = FALSE
    BY DEF Decision
  <2> QED
    BY <1>2, <2>1, Zenon DEF ServiceDecision
<1>4. d = EnforcementDecision(config, change, day, killed)
  BY <1>3, Zenon DEF ServiceDecision
<1>5. ConditionMet(config, change) /\ d.rule = config.enforcement.rule
  BY <1>2, <1>4, BlockedMeetsCondition
<1> QED
  BY <1>3, <1>5 DEF ConditionMet, Triggering

\* publishable_conclusion fails a check only for an observation that blocks by
\* the rule in force, at its threshold, before its approval expires.
LEMMA FailureMeansEnforced ==
    ASSUME NEW o, NEW config, NEW killed, NEW day
    PROVE  /\ PublishDecision(o, config, killed, day).conclusion \in {"neutral", "failure"}
           /\ PublishDecision(o, config, killed, day).conclusion = "failure" =>
                  /\ o.would_block /\ ~killed /\ config.mode = "enforce"
                  /\ o.rule = config.enforcement.rule
                  /\ ~(o.score < config.enforcement.threshold)
                  /\ ~(config.enforcement.expires_on < day)
<1> PICK fail : fail = [conclusion |-> "failure", reason |-> "enforced"]
  OBVIOUS
<1>1. fail.conclusion = "failure"
  OBVIOUS
<1>2. \A why : [conclusion |-> "neutral", reason |-> why].conclusion = "neutral"
  OBVIOUS
<1>3. "neutral" # "failure"
  OBVIOUS
<1> QED
  BY <1>1, <1>2, <1>3, Zenon DEF PublishDecision

\* A configuration that enforces is a file that was accepted, so its threshold is
\* a number.
LEMMA EnforcingConfig ==
    ASSUME NEW file, NEW day, EffectiveConfig(file, day).mode = "enforce"
    PROVE  EffectiveConfig(file, day).enforcement.threshold \in 0..100
<1>1. ShadowConfig.mode = "shadow"
  BY DEF ShadowConfig
<1>2. file.present /\ ConfigAccepted(file, day, FALSE)
  BY <1>1, Zenon DEF EffectiveConfig
<1>3. EffectiveConfig(file, day)
          = [mode |-> file.mode, owners |-> file.owners, enforcement |-> file.enforcement]
  BY <1>2 DEF EffectiveConfig
<1>4. file.mode = "enforce" /\ EffectiveConfig(file, day).enforcement = file.enforcement
  BY <1>3
<1>5. EnforcementAccepted(file.enforcement, file.owners, day, FALSE)
  BY <1>2, <1>4 DEF ConfigAccepted
<1> QED
  BY <1>4, <1>5 DEF EnforcementAccepted

\* A change that an enforced observation is true of is blocked now or waived.
LEMMA EnforcedIsDeserved ==
    ASSUME NEW o, NEW change, NEW file, NEW day, NEW killed, NEW config,
           config = EffectiveConfig(file, day),
           SaysOf(o, change), o.score \in 0..100,
           PublishDecision(o, config, killed, day).conclusion = "failure"
    PROVE  LET d == ServiceDecision(config, change, day, killed)
           IN d.would_block \/ d.reason = "waived"
<1>1. /\ o.would_block /\ ~killed /\ config.mode = "enforce"
      /\ o.rule = config.enforcement.rule
      /\ ~(o.score < config.enforcement.threshold)
      /\ ~(config.enforcement.expires_on < day)
  BY FailureMeansEnforced
<1>2. config.enforcement.threshold \in 0..100
  BY <1>1, EnforcingConfig
<1>3. ConditionMet(config, change) /\ change.context # "unqualified"
  <2>1. /\ change.context # "unqualified" /\ WeakTests(change)
        /\ {p \in change.paths : o.rule \in p} # {}
        /\ o.score = Score(change)
    BY <1>1 DEF SaysOf
  <2>2. Score(change) >= config.enforcement.threshold
    <3>1. PICK score, least : score = o.score /\ least = config.enforcement.threshold
      OBVIOUS
    <3>2. score \in 0..100 /\ least \in 0..100 /\ ~(score < least)
      BY <1>1, <1>2, <3>1
    <3>3. score >= least
      BY <3>2
    <3> QED BY <2>1, <3>1, <3>3
  <2> QED BY <1>1, <2>1, <2>2 DEF ConditionMet, Triggering
<1>4. ServiceDecision(config, change, day, killed)
          = EnforcementDecision(config, change, day, killed)
  BY <1>3 DEF ServiceDecision
<1>5. \A by : Decision(FALSE, "waived", config.enforcement.rule, by).reason = "waived"
  BY DEF Decision
<1>6. Decision(TRUE, "condition-met", config.enforcement.rule, "none").would_block
  BY DEF Decision
<1>7. \/ EnforcementDecision(config, change, day, killed).would_block
      \/ EnforcementDecision(config, change, day, killed).reason = "waived"
  BY <1>1, <1>3, <1>5, <1>6, Zenon DEF EnforcementDecision
<1> QED
  BY <1>4, <1>7

-----------------------------------------------------------------------------
(* What the runs keep *)

\* Runs are added and go on; a run that is done stays done, with its artifact.
RunsKept ==
    /\ Len(runs) \in Nat /\ Len(runs') \in Nat /\ Len(runs) <= Len(runs')
    /\ \A r \in 1..Len(runs) :
          /\ runs'[r].head = runs[r].head /\ runs'[r].change = runs[r].change
          /\ runs[r].stage = "done" =>
                 runs'[r].stage = "done" /\ runs'[r].artifact = runs[r].artifact

\* What a run says of its head it goes on saying.
LEMMA KeptEvaluation ==
    ASSUME RunsKept, NEW r \in 1..Len(runs), NEW a, EvaluatedBy(r, a)
    PROVE  r \in 1..Len(runs') /\ EvaluatedBy(r, a)'
  BY DEF RunsKept, EvaluatedBy

\* A comment that is left alone stays true.
LEMMA KeptComment ==
    ASSUME RunsKept, CommentIsTrue, UNCHANGED comment
    PROVE  CommentIsTrue'
<1>1. SUFFICES ASSUME comment.joined
               PROVE  \E r \in 1..Len(runs') : Published(r, comment.observation)'
  BY DEF CommentIsTrue
<1>2. PICK r \in 1..Len(runs) : Published(r, comment.observation)
  BY <1>1 DEF CommentIsTrue
<1>3. /\ r \in 1..Len(runs') /\ runs'[r].stage = "done"
      /\ runs'[r].artifact = runs[r].artifact
      /\ runs'[r].head = runs[r].head /\ runs'[r].change = runs[r].change
  BY <1>2 DEF RunsKept, Published
<1> QED
  BY <1>2, <1>3 DEF Published, EvaluatedBy

\* A run that a record is joined to.
JoinedBy(r, o) ==
    LET said == runs[r].artifact.observation
    IN /\ runs[r].head = o.head /\ runs[r].stage = "done"
       /\ runs[r].artifact # Missing
       /\ o.source.score = said.score /\ o.source.would_block = said.policy.block
       /\ \/ OwnWorkflow(runs[r])
          \/ /\ said.score = Score(runs[r].change)
             /\ said.policy = SimulatedPolicy(runs[r].change)

\* A record that is joined to its head.
JoinedTo(o) == \E r \in 1..Len(runs) : JoinedBy(r, o)

\* Records that are left alone stay joined.
LEMMA KeptRecord ==
    ASSUME RunsKept, NEW o, JoinedTo(o)
    PROVE  JoinedTo(o)'
<1>1. PICK r \in 1..Len(runs) : JoinedBy(r, o)
  BY DEF JoinedTo
<1>2. /\ r \in 1..Len(runs') /\ runs'[r].head = runs[r].head /\ runs'[r].stage = "done"
      /\ runs'[r].change = runs[r].change /\ runs'[r].artifact = runs[r].artifact
  BY <1>1 DEF RunsKept, JoinedBy
<1>3. JoinedBy(r, o)'
  BY <1>1, <1>2 DEF JoinedBy, OwnWorkflow
<1> QED
  BY <1>2, <1>3 DEF JoinedTo

\* Records that are left alone stay joined, all of them.
LEMMA KeptRecords ==
    ASSUME RunsKept, JoinedToItsHead, UNCHANGED outcomes
    PROVE  JoinedToItsHead'
<1>1. \A o \in Joined(outcomes) : JoinedTo(o)
  BY DEF JoinedToItsHead, JoinedTo, JoinedBy
<1>2. \A o \in Joined(outcomes) : JoinedTo(o)'
  BY <1>1, KeptRecord
<1>3. Joined(outcomes') = Joined(outcomes)
  OBVIOUS
<1> QED
  BY <1>2, <1>3 DEF JoinedToItsHead, JoinedTo, JoinedBy

\* The runs are those of a set of artifacts as soon as they are runs at all.
LEMMA RunsOfArtifacts ==
    ASSUME NEW s, NEW S, s \in Seq(Run(S))
    PROVE  s \in Seq(Run({s[r].artifact : r \in 1..Len(s)}))
<1>1. \A r \in 1..Len(s) : s[r] \in Run(S)
  OBVIOUS
<1>2. \A r \in 1..Len(s) : s[r] \in Run({s[q].artifact : q \in 1..Len(s)})
  BY <1>1 DEF Run
<1>3. DOMAIN s = 1..Len(s) /\ Len(s) \in Nat /\ s = [r \in 1..Len(s) |-> s[r]]
  OBVIOUS
<1> QED
  BY <1>2, <1>3

\* A sequence over a set is one over any larger set.
LEMMA RunsOfMore ==
    ASSUME NEW S, NEW T, S \subseteq T, NEW s \in Seq(S)
    PROVE  s \in Seq(T)
<1>1. \A r \in 1..Len(s) : s[r] \in T
  BY ElementOfSeq
<1> QED
  BY <1>1

\* An artifact that is true stays true.
LEMMA KeptArtifact ==
    ASSUME RunsKept, NEW a, TrueArtifact(a)
    PROVE  TrueArtifact(a)'
<1>1. SUFFICES ASSUME a # Missing
               PROVE  \E q \in 1..Len(runs') : EvaluatedBy(q, a)'
  BY DEF TrueArtifact
<1>2. PICK q \in 1..Len(runs) : EvaluatedBy(q, a)
  BY <1>1 DEF TrueArtifact
<1> QED
  BY <1>2, KeptEvaluation

\* One run goes on: its head and its change stay.
LEMMA RunGoesOn ==
    ASSUME HeadsAreChanges, ArtifactsAreTrue, UNCHANGED pull,
           NEW r \in 1..Len(runs), NEW new, new \in Run({new.artifact}),
           new.head = runs[r].head, new.change = runs[r].change,
           runs[r].stage # "done",
           TrueArtifact(new.artifact),
           runs' = [runs EXCEPT ![r] = new]
    PROVE  RunsKept /\ HeadsAreChanges' /\ ArtifactsAreTrue'
<1>1. /\ Len(runs') = Len(runs) /\ Len(runs) \in Nat
      /\ runs'[r] = new /\ \A q \in 1..Len(runs) : q # r => runs'[q] = runs[q]
  BY DEF HeadsAreChanges
<1>2. RunsKept
  BY <1>1 DEF RunsKept
<1>3. runs' \in Seq(Run(Artifacts'))
  <2>1. new \in Run(Artifacts \union {new.artifact})
    BY DEF Run
  <2>2. Run(Artifacts) \subseteq Run(Artifacts \union {new.artifact})
    BY DEF Run
  <2>3. runs \in Seq(Run(Artifacts))
    BY DEF HeadsAreChanges
  <2>4. runs \in Seq(Run(Artifacts \union {new.artifact}))
    BY <2>2, <2>3, RunsOfMore
  <2>5. runs' \in Seq(Run(Artifacts \union {new.artifact}))
    BY <2>1, <2>4, ExceptSeq
  <2>6. runs' \in Seq(Run({runs'[q].artifact : q \in 1..Len(runs')}))
    <3>1. PICK s, S : s = runs' /\ S = Artifacts \union {new.artifact}
      OBVIOUS
    <3>2. s \in Seq(Run(S))
      BY <2>5, <3>1
    <3>3. s \in Seq(Run({s[q].artifact : q \in 1..Len(s)}))
      BY <3>2, RunsOfArtifacts
    <3> QED BY <3>1, <3>3
  <2> QED
    BY <2>6 DEF Artifacts
<1>4. HeadsAreChanges'
  BY <1>1, <1>2, <1>3 DEF HeadsAreChanges, RunsKept
<1>5. ArtifactsAreTrue'
  <2>1. Artifacts' \subseteq Artifacts \union {new.artifact}
    BY <1>1 DEF Artifacts
  <2>2. \A a \in Artifacts \union {new.artifact} : TrueArtifact(a)
    BY DEF ArtifactsAreTrue
  <2>3. \A a \in Artifacts \union {new.artifact} : TrueArtifact(a)'
    BY <1>2, <2>2, KeptArtifact
  <2> QED
    BY <2>1, <2>3 DEF ArtifactsAreTrue
<1> QED
  BY <1>2, <1>4, <1>5

\* A run of the head is added.
LEMMA RunStarts ==
    ASSUME HeadsAreChanges, ArtifactsAreTrue, NEW h \in Nat, NEW c \in HeadChanges,
           runs' = Append(runs, NewRun(h, c)),
           pull' \in Pull, pull'.head = h, pull'.change = c,
           \/ h > pull.head
           \/ h = pull.head /\ c = pull.change
    PROVE  RunsKept /\ HeadsAreChanges' /\ ArtifactsAreTrue'
<1> PICK new : new = NewRun(h, c)
  OBVIOUS
<1>1. /\ new \in Run({Missing}) /\ new.head = h /\ new.change = c /\ new.artifact = Missing
  BY DEF NewRun, Run
<1>2. runs \in Seq(Run(Artifacts \union {Missing})) /\ new \in Run(Artifacts \union {Missing})
  <2>1. Run(Artifacts) \subseteq Run(Artifacts \union {Missing})
    BY DEF Run
  <2>2. Run({Missing}) \subseteq Run(Artifacts \union {Missing})
    BY DEF Run
  <2>3. runs \in Seq(Run(Artifacts))
    BY DEF HeadsAreChanges
  <2>4. runs \in Seq(Run(Artifacts \union {Missing}))
    BY <2>1, <2>3, RunsOfMore
  <2> QED
    BY <1>1, <2>2, <2>4
<1>3. /\ runs' \in Seq(Run(Artifacts \union {Missing}))
      /\ Len(runs) \in Nat /\ Len(runs') = Len(runs) + 1
      /\ \A q \in 1..Len(runs) : runs'[q] = runs[q]
      /\ runs'[Len(runs) + 1] = new
  BY <1>2, AppendProperties
<1>4. RunsKept
  BY <1>3 DEF RunsKept
<1>5. \A q \in 1..Len(runs') : q \in 1..Len(runs) \/ runs'[q] = new
  BY <1>3
<1>6. HeadsAreChanges'
  <2>1. runs' \in Seq(Run(Artifacts'))
    <3>1. PICK s : s = runs'
      OBVIOUS
    <3>2. s \in Seq(Run(Artifacts \union {Missing}))
      BY <1>3, <3>1
    <3>3. s \in Seq(Run({s[r].artifact : r \in 1..Len(s)}))
      BY <3>2, RunsOfArtifacts
    <3> QED
      BY <3>1, <3>3 DEF Artifacts
  <2>2. /\ pull.head \in Nat
        /\ \A q \in 1..Len(runs) : /\ runs[q].head \in Nat /\ runs[q].head <= pull.head
                                   /\ runs[q].head = pull.head => runs[q].change = pull.change
        /\ \A q, r \in 1..Len(runs) :
              runs[q].head = runs[r].head => runs[q].change = runs[r].change
    <3>1. \A q \in 1..Len(runs) : runs[q] \in Run(Artifacts)
      BY ElementOfSeq DEF HeadsAreChanges
    <3> QED
      BY <3>1 DEF HeadsAreChanges, Run, Pull
  <2>3. \A q \in 1..Len(runs') : /\ runs'[q].head <= h
                                 /\ runs'[q].head = h => runs'[q].change = c
    BY <1>1, <1>3, <1>5, <2>2
  <2>4. \A q, r \in 1..Len(runs') :
            runs'[q].head = runs'[r].head => runs'[q].change = runs'[r].change
    <3> SUFFICES ASSUME NEW q \in 1..Len(runs'), NEW r \in 1..Len(runs'),
                        runs'[q].head = runs'[r].head
                 PROVE  runs'[q].change = runs'[r].change
      OBVIOUS
    <3>1. CASE q \in 1..Len(runs) /\ r \in 1..Len(runs)
      BY <1>3, <2>2, <3>1
    <3>2. CASE runs'[q] = new \/ runs'[r] = new
      BY <1>1, <2>3, <3>2
    <3> QED
      BY <1>5, <3>1, <3>2
  <2> QED
    BY <2>1, <2>3, <2>4 DEF HeadsAreChanges
<1>7. ArtifactsAreTrue'
  <2>1. Artifacts' \subseteq Artifacts \union {Missing}
    BY <1>1, <1>3, <1>5 DEF Artifacts
  <2>2. \A a \in Artifacts \union {Missing} : TrueArtifact(a)
    BY DEF ArtifactsAreTrue, TrueArtifact
  <2>3. \A a \in Artifacts \union {Missing} : TrueArtifact(a)'
    BY <1>4, <2>2, KeptArtifact
  <2> QED
    BY <2>1, <2>3 DEF ArtifactsAreTrue
<1> QED
  BY <1>4, <1>6, <1>7

\* Nothing of the runs changes.
LEMMA RunsUntouched ==
    ASSUME HeadsAreChanges, ArtifactsAreTrue, UNCHANGED runs,
           pull' \in Pull, pull'.head = pull.head, pull'.change = pull.change
    PROVE  RunsKept /\ HeadsAreChanges' /\ ArtifactsAreTrue'
<1>1. RunsKept
  BY DEF RunsKept, HeadsAreChanges
<1>2. HeadsAreChanges'
  BY DEF HeadsAreChanges, Artifacts
<1>3. \A a \in Artifacts : TrueArtifact(a)'
  BY <1>1, KeptArtifact DEF ArtifactsAreTrue
<1> QED
  BY <1>1, <1>2, <1>3 DEF ArtifactsAreTrue, Artifacts

-----------------------------------------------------------------------------
(* Packets *)

\* What a review found, apart from the records that are retained.
SoundReview(v) ==
    LET records == v.packet.feedback.export
        evidence == v.packet.evidence
    IN /\ EnoughEvidence(records)
       /\ \A p \in Purpose : \E e \in evidence : e.purpose = p
       /\ \A e, f \in evidence : e.purpose = f.purpose => e = f
       /\ \A e \in evidence : SoundEvidence(e, records)
       /\ v.on <= v.packet.expires_on

\* ValidPacketIsSound, one review at a time: now and after a step.
LEMMA SoundReviews ==
    ValidPacketIsSound <=>
        \A v \in reviewed : SoundReview(v) /\ v.packet.feedback.export \subseteq outcomes
  BY DEF ValidPacketIsSound, SoundReview

\* The same after a step.
LEMMA SoundReviewsNext ==
    ValidPacketIsSound' <=>
        \A v \in reviewed' : SoundReview(v) /\ v.packet.feedback.export \subseteq outcomes'
  BY DEF ValidPacketIsSound, SoundReview

\* Records are only added, and what rests on them is left alone.
LEMMA PacketsKept ==
    ASSUME PacketsAreOfRecords, ValidPacketIsSound, outcomes \subseteq outcomes',
           IsFiniteSet(outcomes'), today' \in Nat, UNCHANGED <<report, packet, reviewed>>
    PROVE  PacketsAreOfRecords' /\ ValidPacketIsSound'
<1>1. PacketsAreOfRecords'
  BY DEF PacketsAreOfRecords
<1>2. ValidPacketIsSound'
  BY SoundReviews, SoundReviewsNext
<1> QED
  BY <1>1, <1>2

-----------------------------------------------------------------------------
(* Every step keeps the invariant *)

\* The runs go on, and no record, report or packet changes.
LEMMA RunsStep ==
    ASSUME PilotInv, RunsKept, HeadsAreChanges', ArtifactsAreTrue', CommentIsTrue',
           today' \in Nat, UNCHANGED <<outcomes, report, packet, reviewed>>
    PROVE  PilotInv'
<1>1. JoinedToItsHead'
  BY KeptRecords DEF PilotInv
<1>2. PacketsAreOfRecords' /\ ValidPacketIsSound'
  BY PacketsKept DEF PilotInv, PacketsAreOfRecords
<1> QED
  BY <1>1, <1>2 DEF PilotInv

\* People edit files, the kill switch and labels; days pass.
LEMMA PeopleStep ==
    ASSUME PilotInv,
           SetConfig \/ SetManifest \/ Bootstrap \/ ToggleKillSwitch \/ SetLabels \/ NextDay
    PROVE  PilotInv'
<1>1. /\ UNCHANGED <<runs, comment, outcomes, report, packet, reviewed>>
      /\ pull' = pull \/ \E ls \in Labels : pull' = [pull EXCEPT !.labels = ls]
      /\ today' = today \/ today' = today + 1
  BY DEF SetConfig, SetManifest, Bootstrap, ToggleKillSwitch, SetLabels, NextDay, pilot
<1>2. today' \in Nat
  BY <1>1 DEF PilotInv, PacketsAreOfRecords
<1>3. pull' \in Pull /\ pull'.head = pull.head /\ pull'.change = pull.change
  BY <1>1 DEF PilotInv, HeadsAreChanges, Pull
<1>4. RunsKept /\ HeadsAreChanges' /\ ArtifactsAreTrue'
  BY <1>1, <1>3, RunsUntouched DEF PilotInv
<1>5. CommentIsTrue'
  BY <1>1, <1>4, KeptComment DEF PilotInv
<1> QED
  BY <1>1, <1>2, <1>4, <1>5, RunsStep

\* Push: a new head, with a run of its own.
LEMMA PushStep ==
    ASSUME PilotInv, Push
    PROVE  PilotInv'
<1>1. /\ UNCHANGED <<today, comment, outcomes, report, packet, reviewed>>
      /\ today \in Nat /\ HeadsAreChanges /\ ArtifactsAreTrue /\ CommentIsTrue
      /\ pull \in Pull
  BY DEF Push, people, pilot, PilotInv, PacketsAreOfRecords, HeadsAreChanges
<1>2. PICK c \in HeadChanges : /\ pull' = [pull EXCEPT !.head = @ + 1, !.change = c]
                               /\ runs' = Append(runs, NewRun(pull.head + 1, c))
  BY DEF Push
<1>3. PICK h : h = pull.head + 1
  OBVIOUS
<1>4. h \in Nat /\ h > pull.head /\ pull' \in Pull /\ pull'.head = h /\ pull'.change = c
  <2>1. h \in Nat /\ h > pull.head
    BY <1>1, <1>3 DEF Pull
  <2>2. pull' = [pull EXCEPT !.head = h, !.change = c]
    BY <1>2, <1>3
  <2> QED
    BY <1>1, <2>1, <2>2 DEF Pull
<1>5. runs' = Append(runs, NewRun(h, c))
  BY <1>2, <1>3
<1>6. RunsKept /\ HeadsAreChanges' /\ ArtifactsAreTrue'
  BY <1>1, <1>4, <1>5, RunStarts
<1>7. CommentIsTrue'
  BY <1>1, <1>6, KeptComment
<1> QED
  BY <1>1, <1>6, <1>7, RunsStep

\* Reopen: another run of the same head.
LEMMA ReopenStep ==
    ASSUME PilotInv, Reopen
    PROVE  PilotInv'
<1>1. /\ UNCHANGED <<today, comment, outcomes, report, packet, reviewed>>
      /\ today \in Nat /\ HeadsAreChanges /\ ArtifactsAreTrue /\ CommentIsTrue
      /\ pull \in Pull
  BY DEF Reopen, people, pilot, PilotInv, PacketsAreOfRecords, HeadsAreChanges
<1>2. /\ pull' = [pull EXCEPT !.open = TRUE]
      /\ runs' = Append(runs, NewRun(pull.head, pull.change))
  BY DEF Reopen
<1>3. /\ pull' \in Pull /\ pull'.head = pull.head /\ pull'.change = pull.change
      /\ pull.head \in Nat /\ pull.change \in HeadChanges
  BY <1>1, <1>2 DEF Pull
<1>4. RunsKept /\ HeadsAreChanges' /\ ArtifactsAreTrue'
  BY <1>1, <1>2, <1>3, RunStarts
<1>5. CommentIsTrue'
  BY <1>1, <1>4, KeptComment
<1> QED
  BY <1>1, <1>4, <1>5, RunsStep

\* Close: the records of a head that is closed come later.
LEMMA CloseStep ==
    ASSUME PilotInv, Close
    PROVE  PilotInv'
<1>1. /\ UNCHANGED <<today, runs, comment, outcomes, report, packet, reviewed>>
      /\ today \in Nat /\ HeadsAreChanges /\ ArtifactsAreTrue /\ CommentIsTrue
      /\ pull \in Pull /\ pull' = [pull EXCEPT !.open = FALSE]
  BY DEF Close, people, PilotInv, PacketsAreOfRecords, HeadsAreChanges
<1>2. pull' \in Pull /\ pull'.head = pull.head /\ pull'.change = pull.change
  BY <1>1 DEF Pull
<1>3. RunsKept /\ HeadsAreChanges' /\ ArtifactsAreTrue'
  BY <1>1, <1>2, RunsUntouched
<1>4. CommentIsTrue'
  BY <1>1, <1>3, KeptComment
<1> QED
  BY <1>1, <1>3, <1>4, RunsStep

\* A run of the sequence and what is at its index.
LEMMA RunAt ==
    ASSUME HeadsAreChanges, NEW r \in 1..Len(runs)
    PROVE  /\ runs[r] \in Run({runs[r].artifact})
           /\ runs[r].artifact \in Artifacts
           /\ runs[r].head \in Nat /\ runs[r].change \in HeadChanges
<1>1. runs[r] \in Run(Artifacts)
  BY ElementOfSeq DEF HeadsAreChanges
<1> QED
  BY <1>1 DEF Run, Artifacts

\* Evaluate: the artifact that is written says of its change what it should, or
\* the head alters the workflow that writes it.
LEMMA EvaluateStep ==
    ASSUME PilotInv, NEW r \in 1..Len(runs),
           Evaluate(r) \/ UploadAltered(r) \/ EvaluationLost(r) \/ WrongArtifact(r)
    PROVE  PilotInv'
<1>1. /\ UNCHANGED <<today, pull, comment, outcomes, report, packet, reviewed>>
      /\ today \in Nat /\ HeadsAreChanges /\ ArtifactsAreTrue /\ CommentIsTrue
      /\ runs[r].stage # "done"
  BY DEF Evaluate, UploadAltered, EvaluationLost, WrongArtifact, people, pilot, PilotInv,
         PacketsAreOfRecords
<1>2. /\ runs[r] \in Run({runs[r].artifact}) /\ TrueArtifact(runs[r].artifact)
      /\ runs[r].head \in Nat /\ runs[r].change \in HeadChanges
  BY <1>1, RunAt DEF ArtifactsAreTrue
<1>3. \E new : /\ new \in Run({new.artifact})
               /\ new.head = runs[r].head /\ new.change = runs[r].change
               /\ TrueArtifact(new.artifact)
               /\ runs' = [runs EXCEPT ![r] = new]
  <2>1. CASE Evaluate(r)
    <3>1. PICK o : o = Observation(EffectiveConfig(raw, today), runs[r].change, today, kill,
                                   runs[r].head)
      OBVIOUS
    <3>2. EvaluatedBy(r, Uploaded(o, FALSE))
      BY <3>1, ObservationSaysOfChange DEF EvaluatedBy, Uploaded
    <3>3. PICK a : a = IF ObservationAccepted(o) THEN Uploaded(o, FALSE) ELSE Missing
      OBVIOUS
    <3>4. TrueArtifact(a)
      BY <3>2, <3>3 DEF TrueArtifact
    <3>5. PICK new : new = [runs[r] EXCEPT !.stage = "evaluated", !.artifact = a]
      OBVIOUS
    <3>6. /\ new \in Run({new.artifact}) /\ new.artifact = a
          /\ new.head = runs[r].head /\ new.change = runs[r].change
      BY <1>2, <3>5 DEF Run
    <3>7. runs' = [runs EXCEPT ![r].stage = "evaluated", ![r].artifact = a]
      BY <2>1, <3>1, <3>3 DEF Evaluate
    <3>8. runs' = [runs EXCEPT ![r] = new]
      BY <1>1, <3>5, <3>7 DEF HeadsAreChanges
    <3> QED
      BY <3>4, <3>6, <3>8
  <2>2. CASE EvaluationLost(r)
    <3>1. PICK new : new = [runs[r] EXCEPT !.stage = "evaluated"]
      OBVIOUS
    <3>2. /\ new \in Run({new.artifact}) /\ new.artifact = runs[r].artifact
          /\ new.head = runs[r].head /\ new.change = runs[r].change
      BY <1>2, <3>1 DEF Run
    <3>3. runs' = [runs EXCEPT ![r] = new]
      BY <2>2, <3>1 DEF EvaluationLost
    <3> QED
      BY <1>2, <3>2, <3>3
  <2>3. CASE WrongArtifact(r)
    <3>1. PICK q \in 1..Len(runs) : runs' = [runs EXCEPT ![r].artifact = runs[q].artifact]
      BY <2>3 DEF WrongArtifact
    <3>2. PICK new : new = [runs[r] EXCEPT !.artifact = runs[q].artifact]
      OBVIOUS
    <3>3. /\ new \in Run({new.artifact}) /\ new.artifact = runs[q].artifact
          /\ new.head = runs[r].head /\ new.change = runs[r].change
      BY <1>2, <3>2 DEF Run
    <3>4. TrueArtifact(new.artifact)
      BY <1>1, <3>3, RunAt DEF ArtifactsAreTrue
    <3>5. runs' = [runs EXCEPT ![r] = new]
      BY <3>1, <3>2
    <3> QED
      BY <3>3, <3>4, <3>5
  <2>4. CASE UploadAltered(r)
    <3>1. PICK claim \in Claims :
              runs' = [runs EXCEPT ![r].stage = "evaluated",
                          ![r].artifact = Uploaded([claim EXCEPT !.head = runs[r].head], TRUE)]
      BY <2>4 DEF UploadAltered
    <3>2. PICK o : o = [claim EXCEPT !.head = runs[r].head]
      OBVIOUS
    <3>3. o.head = runs[r].head
      BY <3>2, PilotConstants
    <3>4. PICK a : a = Uploaded(o, TRUE)
      OBVIOUS
    <3>5. a.altered /\ a.observation = o
      BY <3>4 DEF Uploaded
    <3>6. EvaluatedBy(r, a)
      BY <2>4, <3>3, <3>5 DEF EvaluatedBy, UploadAltered
    <3>7. PICK new : new = [runs[r] EXCEPT !.stage = "evaluated", !.artifact = a]
      OBVIOUS
    <3>8. /\ new \in Run({new.artifact}) /\ new.artifact = a
          /\ new.head = runs[r].head /\ new.change = runs[r].change
      BY <1>2, <3>7 DEF Run
    <3>9. runs' = [runs EXCEPT ![r].stage = "evaluated", ![r].artifact = a]
      BY <3>1, <3>2, <3>4
    <3>10. runs' = [runs EXCEPT ![r] = new]
      BY <1>1, <3>7, <3>9 DEF HeadsAreChanges
    <3> QED
      BY <3>6, <3>8, <3>10 DEF TrueArtifact
  <2> QED
    BY <2>1, <2>2, <2>3, <2>4
<1>4. RunsKept /\ HeadsAreChanges' /\ ArtifactsAreTrue'
  BY <1>1, <1>3, RunGoesOn
<1>5. CommentIsTrue'
  BY <1>1, <1>4, KeptComment
<1> QED
  BY <1>1, <1>4, <1>5, RunsStep

\* PublishCheck: a run goes on, and its artifact stays or is the one downloaded.
LEMMA PublishCheckStep ==
    ASSUME PilotInv, NEW r \in 1..Len(runs), PublishCheck(r)
    PROVE  PilotInv'
<1>1. /\ UNCHANGED <<today, pull, comment, outcomes, report, packet, reviewed>>
      /\ today \in Nat /\ HeadsAreChanges /\ ArtifactsAreTrue /\ CommentIsTrue
      /\ runs[r].stage # "done" /\ runs' = [runs EXCEPT ![r].stage = "checked"]
  BY DEF PublishCheck, people, pilot, PilotInv, PacketsAreOfRecords
<1>2. runs[r] \in Run({runs[r].artifact}) /\ TrueArtifact(runs[r].artifact)
  BY <1>1, RunAt DEF ArtifactsAreTrue
<1>3. PICK new : new = [runs[r] EXCEPT !.stage = "checked"]
  OBVIOUS
<1>4. /\ new \in Run({new.artifact}) /\ new.artifact = runs[r].artifact
      /\ new.head = runs[r].head /\ new.change = runs[r].change
  BY <1>2, <1>3 DEF Run
<1>5. runs' = [runs EXCEPT ![r] = new]
  BY <1>1, <1>3
<1>6. RunsKept /\ HeadsAreChanges' /\ ArtifactsAreTrue'
  BY <1>1, <1>2, <1>4, <1>5, RunGoesOn
<1>7. CommentIsTrue'
  BY <1>1, <1>6, KeptComment
<1> QED
  BY <1>1, <1>6, <1>7, RunsStep

\* An artifact the publisher trusts is one of the run's own head, and so of its
\* own change.
LEMMA TrustedIsOwn ==
    ASSUME HeadsAreChanges, ArtifactsAreTrue, NEW r \in 1..Len(runs), Trusted(runs[r])
    PROVE  runs[r].artifact # Missing /\ EvaluatedBy(r, runs[r].artifact)
<1>1. runs[r].artifact # Missing /\ runs[r].artifact.observation.head = runs[r].head
  BY DEF Trusted, Missing
<1>2. PICK q \in 1..Len(runs) : EvaluatedBy(q, runs[r].artifact)
  BY <1>1, RunAt DEF ArtifactsAreTrue, TrueArtifact
<1>3. runs[q].head = runs[r].head
  BY <1>1, <1>2 DEF EvaluatedBy
<1>4. runs[q].change = runs[r].change
  BY <1>3 DEF HeadsAreChanges
<1> QED
  BY <1>1, <1>2, <1>4 DEF EvaluatedBy

\* PublishComment: the comment is that of a run that is done.
LEMMA PublishCommentStep ==
    ASSUME PilotInv, NEW r \in 1..Len(runs), PublishComment(r)
    PROVE  PilotInv'
<1>1. /\ UNCHANGED <<today, pull, outcomes, report, packet, reviewed>>
      /\ today \in Nat /\ HeadsAreChanges /\ ArtifactsAreTrue
      /\ runs[r].stage # "done" /\ runs' = [runs EXCEPT ![r].stage = "done"]
      /\ comment' = IF Trusted(runs[r])
                    THEN [joined |-> TRUE, observation |-> runs[r].artifact.observation]
                    ELSE NoComment
  BY DEF PublishComment, people, pilot, PilotInv, PacketsAreOfRecords
<1>2. runs[r] \in Run({runs[r].artifact}) /\ TrueArtifact(runs[r].artifact)
  BY <1>1, RunAt DEF ArtifactsAreTrue
<1>3. PICK new : new = [runs[r] EXCEPT !.stage = "done"]
  OBVIOUS
<1>4. /\ new \in Run({new.artifact}) /\ new.artifact = runs[r].artifact
      /\ new.head = runs[r].head /\ new.change = runs[r].change /\ new.stage = "done"
  BY <1>2, <1>3 DEF Run
<1>5. runs' = [runs EXCEPT ![r] = new]
  BY <1>1, <1>3
<1>6. RunsKept /\ HeadsAreChanges' /\ ArtifactsAreTrue'
  BY <1>1, <1>2, <1>4, <1>5, RunGoesOn
<1>7. CommentIsTrue'
  <2>1. CASE Trusted(runs[r])
    <3>1. PICK a : a = runs[r].artifact
      OBVIOUS
    <3>2. a # Missing /\ EvaluatedBy(r, a)
      BY <1>1, <2>1, <3>1, TrustedIsOwn
    <3>3. r \in 1..Len(runs') /\ EvaluatedBy(r, a)'
      BY <1>6, <3>2, KeptEvaluation
    <3>4. runs'[r].stage = "done" /\ runs'[r].artifact = a
      BY <1>1, <1>4, <1>5, <3>1 DEF HeadsAreChanges
    <3>5. comment'.observation = a.observation
      BY <1>1, <2>1, <3>1
    <3>6. Published(r, comment.observation)'
      BY <3>2, <3>3, <3>4, <3>5 DEF Published, EvaluatedBy
    <3> QED
      BY <3>3, <3>6 DEF CommentIsTrue
  <2>2. CASE ~Trusted(runs[r])
    BY <1>1, <2>2 DEF CommentIsTrue, NoComment
  <2> QED
    BY <2>1, <2>2
<1> QED
  BY <1>1, <1>6, <1>7, RunsStep

\* closure_outcome joins a record to the head that was closed, or not at all.
LEMMA OutcomeIsJoined ==
    ASSUME CommentIsTrue, NEW closure, OutcomeAccepted(closure, comment),
           Outcome(closure, comment).source.joined
    PROVE  JoinedTo(Outcome(closure, comment))
<1>1. PICK o : o = Outcome(closure, comment)
  OBVIOUS
<1>2. comment.joined
  BY DEF Outcome, NoSource
<1>3. /\ o.head = closure.head
      /\ o.source.score = comment.observation.score
      /\ o.source.would_block = comment.observation.policy.block
  BY <1>1, <1>2 DEF Outcome
<1>4. comment.observation.head = closure.head
  BY <1>2 DEF OutcomeAccepted
<1>5. PICK r \in 1..Len(runs) : Published(r, comment.observation)
  BY <1>2 DEF CommentIsTrue
<1>6. JoinedBy(r, o)
  BY <1>3, <1>4, <1>5 DEF Published, JoinedBy, EvaluatedBy, SaysOf, OwnWorkflow
<1> QED
  BY <1>1, <1>6 DEF JoinedTo

\* Capture: the record is joined to the head that was closed, or not at all.
LEMMA CaptureStep ==
    ASSUME PilotInv, NEW c \in 1..Len(closures), Capture(c)
    PROVE  PilotInv'
<1>1. /\ UNCHANGED <<today, pull, runs, comment, report, packet, reviewed>>
      /\ today \in Nat /\ HeadsAreChanges /\ ArtifactsAreTrue /\ CommentIsTrue
      /\ pull \in Pull
  BY DEF Capture, people, PilotInv, PacketsAreOfRecords, HeadsAreChanges
<1>2. RunsKept /\ HeadsAreChanges' /\ ArtifactsAreTrue'
  BY <1>1, RunsUntouched
<1>3. CommentIsTrue'
  BY <1>1, <1>2, KeptComment
<1>4. \/ UNCHANGED outcomes
      \/ /\ OutcomeAccepted(closures[c], comment)
         /\ outcomes' = outcomes \union {Outcome(closures[c], comment)}
  BY DEF Capture
<1>5. PacketsAreOfRecords' /\ ValidPacketIsSound'
  <2>1. IsFiniteSet(outcomes) /\ outcomes \subseteq outcomes'
    BY <1>4 DEF PilotInv, PacketsAreOfRecords
  <2>2. IsFiniteSet(outcomes')
    BY <1>4, <2>1, FS_AddElement
  <2> QED
    BY <1>1, <2>1, <2>2, PacketsKept DEF PilotInv
<1>6. JoinedToItsHead'
  <2>1. \A o \in Joined(outcomes) : JoinedTo(o)
    BY DEF PilotInv, JoinedToItsHead, JoinedTo, JoinedBy
  <2>2. \A o \in Joined(outcomes') : JoinedTo(o)
    BY <1>1, <1>4, <2>1, OutcomeIsJoined DEF Joined
  <2>3. \A o \in Joined(outcomes') : JoinedTo(o)'
    BY <1>2, <2>2, KeptRecord
  <2> QED
    BY <2>3 DEF JoinedToItsHead, JoinedTo, JoinedBy
<1> QED
  BY <1>2, <1>3, <1>5, <1>6 DEF PilotInv

\* Summarize: the report is that of the records there are.
LEMMA SummarizeStep ==
    ASSUME PilotInv, Summarize
    PROVE  PilotInv'
<1>1. /\ UNCHANGED <<today, pull, runs, comment, outcomes, packet, reviewed>>
      /\ HeadsAreChanges /\ ArtifactsAreTrue /\ CommentIsTrue /\ pull \in Pull
      /\ report' = Report(outcomes)
  BY DEF Summarize, people, PilotInv, HeadsAreChanges
<1>2. RunsKept /\ HeadsAreChanges' /\ ArtifactsAreTrue'
  BY <1>1, RunsUntouched
<1>3. CommentIsTrue' /\ JoinedToItsHead'
  BY <1>1, <1>2, KeptComment, KeptRecords DEF PilotInv
<1>4. report'.export = outcomes
  BY <1>1 DEF Report
<1>5. PacketsAreOfRecords'
  BY <1>1, <1>4 DEF PilotInv, PacketsAreOfRecords
<1>6. ValidPacketIsSound'
  BY <1>1, SoundReviews, SoundReviewsNext DEF PilotInv
<1> QED
  BY <1>2, <1>3, <1>5, <1>6 DEF PilotInv

\* WritePacket: whatever evidence it is given, nothing is found valid yet.
LEMMA WritePacketStep ==
    ASSUME PilotInv, WritePacket
    PROVE  PilotInv'
<1>1. /\ UNCHANGED <<today, pull, runs, comment, outcomes, report, reviewed>>
      /\ today \in Nat /\ HeadsAreChanges /\ ArtifactsAreTrue /\ CommentIsTrue /\ pull \in Pull
  BY DEF WritePacket, people, PilotInv, PacketsAreOfRecords, HeadsAreChanges
<1>2. RunsKept /\ HeadsAreChanges' /\ ArtifactsAreTrue'
  BY <1>1, RunsUntouched
<1>3. CommentIsTrue' /\ JoinedToItsHead'
  BY <1>1, <1>2, KeptComment, KeptRecords DEF PilotInv
<1>4. PICK flaw \in Flaws, records \in {{}, report.export, outcomes} :
          packet' = [written |-> TRUE, feedback |-> Feedback(report), mode |-> "shadow",
                     evidence |-> Evidence(Report(records), flaw),
                     prepared_on |-> today, expires_on |-> today + ReviewDays]
  BY DEF WritePacket
<1>5. packet'.expires_on \in Nat
  BY <1>1, <1>4, PilotConstants
<1>6. PacketsAreOfRecords'
  BY <1>1, <1>5 DEF PilotInv, PacketsAreOfRecords
<1>7. ValidPacketIsSound'
  BY <1>1, SoundReviews, SoundReviewsNext DEF PilotInv
<1> QED
  BY <1>2, <1>3, <1>6, <1>7 DEF PilotInv

\* build_shadow_report: a report without unmet requirement is of enough evidence.
LEMMA CandidateHasEnough ==
    ASSUME NEW records, IsFiniteSet(records), Unmet(records) = {}
    PROVE  EnoughEvidence(records)
<1> DEFINE joined == {o \in records : o.source.joined}
           classified == {o \in joined : o.risk # "not-reviewed"}
           risks == {o \in joined : o.risk = "confirmed-risk"}
           blocks == {o \in classified : o.source.would_block}
           hits == Cardinality(blocks \intersect risks)
<1>1. /\ Joined(records) = joined /\ Reviewed(records) = classified
      /\ Confirmed(records) = risks /\ Blocked(records) = blocks
  BY DEF Joined, Reviewed, Confirmed, Blocked
<1>2. /\ Requirements(records)["joined"] /\ Requirements(records)["reviewed"]
      /\ Requirements(records)["confirmed"]
      /\ Requirements(records)["precision"] /\ Requirements(records)["recall"]
  BY DEF Unmet
<1>3. /\ Requirements(records).joined = (Cardinality(joined) >= MinJoined)
      /\ Requirements(records).reviewed = (Cardinality(classified) >= MinReviewed)
      /\ Requirements(records).confirmed = (Cardinality(risks) >= MinConfirmed)
      /\ Requirements(records).precision = AtLeast(hits, Cardinality(blocks), 1, 2)
      /\ Requirements(records).recall = AtLeast(hits, Cardinality(risks), 4, 5)
  BY <1>1 DEF Requirements
<1>4. IsFiniteSet(blocks) /\ IsFiniteSet(risks) /\ IsFiniteSet(blocks \intersect risks)
  BY FS_Subset
<1>5. Cardinality(blocks) \in Nat /\ Cardinality(risks) \in Nat /\ hits \in Nat
  BY <1>4, FS_CardinalityType
<1> HIDE DEF joined, classified, risks, blocks, hits
<1>6. /\ Cardinality(joined) >= MinJoined /\ Cardinality(classified) >= MinReviewed
      /\ Cardinality(risks) >= MinConfirmed
  BY <1>2, <1>3
<1>7. AtLeast(hits, Cardinality(blocks), 1, 2) /\ AtLeast(hits, Cardinality(risks), 4, 5)
  BY <1>2, <1>3, Zenon
<1>8. /\ Cardinality(blocks) > 0 /\ 2 * hits >= Cardinality(blocks)
      /\ Cardinality(risks) > 0 /\ 5 * hits >= 4 * Cardinality(risks)
  BY <1>5, <1>7 DEF AtLeast
<1> QED
  BY <1>6, <1>8 DEF EnoughEvidence, joined, classified, risks, blocks, hits

\* RetainedEvidenceReference and the digests of the packet: each piece is sound.
LEMMA AcceptedIsSound ==
    ASSUME NEW e, NEW records, EvidenceAccepted(e),
           e.purpose = "shadow-report" => e.content = Digest("report", Report(records)),
           e.purpose = "shadow-outcome-export" => e.content = Digest("export", records)
    PROVE  SoundEvidence(e, records)
  BY DEF EvidenceAccepted, SoundEvidence

\* validate_packet_against_shadow_report accepts what is sound.
LEMMA ReviewIsSound ==
    ASSUME PacketsAreOfRecords, packet.written, PacketValid(packet, report, today)
    PROVE  /\ SoundReview([packet |-> packet, on |-> today])
           /\ packet.feedback.export \subseteq outcomes
<1>1. /\ packet.feedback.report = report /\ packet.feedback.export = report.export
      /\ report.unmet = {} /\ PacketAccepted(packet) /\ packet.expires_on >= today
  BY DEF PacketValid, Feedback, ReportIsCandidate
<1>2. PICK records : records = report.export
  OBVIOUS
<1>3. report = Report(records) /\ records \subseteq outcomes
  BY <1>2 DEF PacketsAreOfRecords
<1>4. Unmet(records) = {}
  BY <1>1, <1>3 DEF Report
<1>5. EnoughEvidence(records)
  <2>1. IsFiniteSet(records)
    BY <1>3, FS_Subset DEF PacketsAreOfRecords
  <2> QED
    BY <1>4, <2>1, CandidateHasEnough
<1>6. /\ \A p \in Purpose : \E e \in packet.evidence : e.purpose = p
      /\ \A e, f \in packet.evidence : e.purpose = f.purpose => e = f
  BY <1>1 DEF PacketAccepted, EveryPurposeOnce
<1>7. \A e \in packet.evidence : SoundEvidence(e, records)
  <2> SUFFICES ASSUME NEW e \in packet.evidence PROVE SoundEvidence(e, records)
    OBVIOUS
  <2>1. /\ EvidenceAccepted(e)
        /\ e.purpose = "shadow-report" => e.content = Digest("report", report)
        /\ e.purpose = "shadow-outcome-export" => e.content = Digest("export", records)
    BY <1>1, <1>2 DEF PacketAccepted
  <2> QED
    BY <1>3, <2>1, AcceptedIsSound
<1>8. today <= packet.expires_on
  BY <1>1 DEF PacketsAreOfRecords
<1>9. PICK v : v = [packet |-> packet, on |-> today]
  OBVIOUS
<1>10. v.packet = packet /\ v.on = today /\ v.packet.feedback.export = records
  BY <1>1, <1>2, <1>9
<1>11. SoundReview(v)
  BY <1>5, <1>6, <1>7, <1>8, <1>10 DEF SoundReview
<1> QED
  BY <1>1, <1>2, <1>3, <1>9, <1>11

\* ReviewPacket: a packet that is found valid is sound.
LEMMA ReviewPacketStep ==
    ASSUME PilotInv, ReviewPacket
    PROVE  PilotInv'
<1>1. /\ UNCHANGED <<today, pull, runs, comment, outcomes, report, packet>>
      /\ HeadsAreChanges /\ ArtifactsAreTrue /\ CommentIsTrue /\ pull \in Pull
      /\ PacketsAreOfRecords /\ packet.written /\ PacketValid(packet, report, today)
      /\ reviewed' = reviewed \union {[packet |-> packet, on |-> today]}
  BY DEF ReviewPacket, people, PilotInv, HeadsAreChanges
<1>2. RunsKept /\ HeadsAreChanges' /\ ArtifactsAreTrue'
  BY <1>1, RunsUntouched
<1>3. CommentIsTrue' /\ JoinedToItsHead'
  BY <1>1, <1>2, KeptComment, KeptRecords DEF PilotInv
<1>4. PacketsAreOfRecords'
  BY <1>1 DEF PacketsAreOfRecords
<1>5. ValidPacketIsSound'
  <2>1. PICK v : v = [packet |-> packet, on |-> today]
    OBVIOUS
  <2>2. SoundReview(v) /\ v.packet.feedback.export \subseteq outcomes
    BY <1>1, <2>1, ReviewIsSound
  <2>3. reviewed' = reviewed \union {v}
    BY <1>1, <2>1
  <2> QED
    BY <1>1, <2>2, <2>3, SoundReviews, SoundReviewsNext DEF PilotInv
<1> QED
  BY <1>2, <1>3, <1>4, <1>5 DEF PilotInv

-----------------------------------------------------------------------------
(* The theorems of the pilot *)

\* InitPilot: no run, no record, no packet.
LEMMA InitPilotInv == InitPilot => PilotInv
<1> SUFFICES ASSUME InitPilot PROVE PilotInv
  OBVIOUS
<1>1. PICK c \in HeadChanges :
          /\ pull = [head |-> 1, change |-> c, open |-> TRUE, labels |-> {}]
          /\ runs = <<NewRun(1, c)>>
  BY DEF InitPilot
<1>2. PICK new : new = NewRun(1, c)
  OBVIOUS
<1>3. new \in Run({Missing}) /\ new.head = 1 /\ new.change = c /\ new.artifact = Missing
  BY <1>2 DEF NewRun, Run
<1>4. runs = <<new>> /\ Len(runs) = 1 /\ runs[1] = new
  BY <1>1, <1>2
<1>5. Artifacts = {Missing}
  BY <1>3, <1>4 DEF Artifacts
<1>6. runs \in Seq(Run(Artifacts))
  BY <1>3, <1>4, <1>5
<1>7. pull \in Pull /\ pull.head = 1 /\ pull.change = c
  BY <1>1 DEF Pull
<1>8. HeadsAreChanges
  BY <1>3, <1>4, <1>6, <1>7 DEF HeadsAreChanges
<1>9. ArtifactsAreTrue
  BY <1>5 DEF ArtifactsAreTrue, TrueArtifact
<1>10. CommentIsTrue /\ JoinedToItsHead
  BY DEF InitPilot, CommentIsTrue, NoComment, JoinedToItsHead, Joined
<1>11. PacketsAreOfRecords
  <2>1. report = Report({}) /\ report.export = {}
    BY DEF InitPilot, Report
  <2>2. report = Report(report.export)
    BY <2>1
  <2> QED
    BY <2>1, <2>2, FS_EmptySet DEF InitPilot, PacketsAreOfRecords, NoPacket
<1>12. ValidPacketIsSound
  BY DEF InitPilot, ValidPacketIsSound
<1> QED
  BY <1>8, <1>9, <1>10, <1>11, <1>12 DEF PilotInv

\* A step that changes nothing.
LEMMA PilotStutters ==
    ASSUME PilotInv, UNCHANGED pilotVars
    PROVE  PilotInv'
<1>1. /\ UNCHANGED <<today, pull, runs, comment, outcomes, report, packet, reviewed>>
      /\ today \in Nat /\ HeadsAreChanges /\ ArtifactsAreTrue /\ CommentIsTrue /\ pull \in Pull
  BY DEF pilotVars, PilotInv, PacketsAreOfRecords, HeadsAreChanges
<1>2. RunsKept /\ HeadsAreChanges' /\ ArtifactsAreTrue'
  BY <1>1, RunsUntouched
<1>3. CommentIsTrue'
  BY <1>1, <1>2, KeptComment
<1> QED
  BY <1>1, <1>2, <1>3, RunsStep

\* Every step keeps the invariant of the pilot.
LEMMA PilotNextInv == PilotInv /\ [NextPilot]_pilotVars => PilotInv'
<1> SUFFICES ASSUME PilotInv, [NextPilot]_pilotVars PROVE PilotInv'
  OBVIOUS
<1>1. CASE SetConfig \/ SetManifest \/ Bootstrap \/ ToggleKillSwitch \/ SetLabels \/ NextDay
  BY <1>1, PeopleStep
<1>2. CASE Push
  BY <1>2, PushStep
<1>3. CASE Reopen
  BY <1>3, ReopenStep
<1>4. CASE Close
  BY <1>4, CloseStep
<1>5. CASE \E r \in 1..Len(runs) :
              Evaluate(r) \/ UploadAltered(r) \/ EvaluationLost(r) \/ WrongArtifact(r)
  BY <1>5, EvaluateStep
<1>6. CASE \E r \in 1..Len(runs) : PublishCheck(r)
  BY <1>6, PublishCheckStep
<1>7. CASE \E r \in 1..Len(runs) : PublishComment(r)
  BY <1>7, PublishCommentStep
<1>8. CASE \E c \in 1..Len(closures) : Capture(c)
  BY <1>8, CaptureStep
<1>9. CASE Summarize
  BY <1>9, SummarizeStep
<1>10. CASE WritePacket
  BY <1>10, WritePacketStep
<1>11. CASE ReviewPacket
  BY <1>11, ReviewPacketStep
<1>12. CASE UNCHANGED pilotVars
  BY <1>12, PilotStutters
<1> QED
  BY <1>1, <1>2, <1>3, <1>4, <1>5, <1>6, <1>7, <1>8, <1>9, <1>10, <1>11, <1>12 DEF NextPilot

\* The invariant of the shadow pilot holds, whatever heads are pushed, reopened and
\* closed while their runs publish (product/pr_guardian_shadow.py).
THEOREM PilotInvariant == PilotSpec => []PilotInv
  BY InitPilotInv, PilotNextInv, PTL DEF PilotSpec

\* A joined record carries what a run of the very head that was closed published,
\* which is true of its change unless its own workflow made it up, however
\* publishers of several heads overwrote the comment (closure_outcome,
\* product/pr_guardian_shadow.py:593).
THEOREM RecordsJoinTheirHead == PilotSpec => []JoinedToItsHead
<1>1. PilotInv => JoinedToItsHead
  BY DEF PilotInv
<1> QED
  BY PilotInvariant, <1>1, PTL

\* A packet is only found valid while it is current, over retained records that
\* meet all five requirements, with one sound piece of evidence about those very
\* records for each purpose, whatever the packet was written with
\* (validate_packet_against_shadow_report, feedback/pr_guardian_promotion.py:595).
THEOREM ValidPacketsAreSound == PilotSpec => []ValidPacketIsSound
<1>1. PilotInv => ValidPacketIsSound
  BY DEF PilotInv
<1> QED
  BY PilotInvariant, <1>1, PTL

\* Only a publisher adds a check run, and the one it adds is its run's.
LEMMA OnlyPublishersCheck ==
    ASSUME [NextPilot]_pilotVars
    PROVE  \/ UNCHANGED checkRuns
           \/ \E r \in 1..Len(runs) : PublishCheck(r)
<1>1. CASE UNCHANGED pilotVars
  BY <1>1 DEF pilotVars
<1>2. CASE SetConfig \/ SetManifest \/ Bootstrap \/ ToggleKillSwitch \/ SetLabels \/ NextDay
  BY <1>2 DEF SetConfig, SetManifest, Bootstrap, ToggleKillSwitch, SetLabels, NextDay
<1>3. CASE Push \/ Reopen \/ Close
  BY <1>3 DEF Push, Reopen, Close
<1>4. CASE \E r \in 1..Len(runs) :
              \/ Evaluate(r) \/ UploadAltered(r) \/ EvaluationLost(r) \/ WrongArtifact(r)
              \/ PublishComment(r)
  BY <1>4 DEF Evaluate, UploadAltered, EvaluationLost, WrongArtifact, PublishComment
<1>5. CASE \E c \in 1..Len(closures) : Capture(c)
  BY <1>5 DEF Capture
<1>6. CASE Summarize \/ WritePacket \/ ReviewPacket
  BY <1>6 DEF Summarize, WritePacket, ReviewPacket
<1> QED
  BY <1>1, <1>2, <1>3, <1>4, <1>5, <1>6 DEF NextPilot

\* What a publisher's new check run says.
LEMMA NewCheck ==
    ASSUME NEW r, PublishCheck(r), NEW k \in checkRuns' \ checkRuns
    PROVE  /\ k.run = r /\ k.mode = EffectiveConfig(raw, today).mode
           /\ k.conclusion = Conclude(runs[r], EffectiveConfig(raw, today),
                                      ConfigError(raw, today), kill, today)
  BY DEF PublishCheck

\* What makes a failing check of a run deserved.
Deserved(run) ==
    LET config == EffectiveConfig(raw, today)
        e == config.enforcement
        o == run.artifact.observation
        d == ServiceDecision(config, run.change, today, kill)
    IN /\ ~kill /\ config.mode = "enforce" /\ ~(e.expires_on < today)
       /\ o.head = run.head /\ o.rule = e.rule /\ ~(o.score < e.threshold)
       /\ d.would_block \/ d.reason = "waived" \/ OwnWorkflow(run)

\* A failing check is allowed by the configuration, the kill switch and the date
\* it is published under, and the change deserves it but for a waiver granted
\* since; only a head that alters the delivery workflows may fail undeserved
\* (publishable_conclusion, product/pr_guardian/enforcement.py:200).
THEOREM FailuresAreDeserved == PilotSpec => FailureIsDeserved
<1>1. ASSUME PilotInv, [NextPilot]_pilotVars
      PROVE  [\A k \in checkRuns' \ checkRuns :
                 k.conclusion = "failure" => Deserved(runs[k.run])]_pilotVars
  <2>1. SUFFICES ASSUME NEW r \in 1..Len(runs), PublishCheck(r),
                        NEW k \in checkRuns' \ checkRuns, k.conclusion = "failure"
                 PROVE  Deserved(runs[k.run])
    BY <1>1, OnlyPublishersCheck
  <2>2. PICK config : config = EffectiveConfig(raw, today)
    OBVIOUS
  <2>3. k.run = r /\ Conclude(runs[r], config, ConfigError(raw, today), kill, today) = "failure"
    BY <2>1, <2>2, NewCheck
  <2>4. PICK o : o = runs[r].artifact.observation
    OBVIOUS
  <2>5. Trusted(runs[r]) /\ PublishDecision(o, config, kill, today).conclusion = "failure"
    <3>1. "neutral" # "failure"
      OBVIOUS
    <3> QED
      BY <2>3, <2>4, <3>1, Zenon DEF Conclude
  <2>6. OwnWorkflow(runs[r]) \/ SaysOf(o, runs[r].change)
    BY <1>1, <2>4, <2>5, TrustedIsOwn DEF PilotInv, EvaluatedBy, OwnWorkflow
  <2>7. o.score \in 0..100 /\ o.head = runs[r].head
    BY <2>4, <2>5 DEF Trusted, ObservationAccepted, AssessmentAccepted
  <2>8. /\ ~kill /\ config.mode = "enforce" /\ o.rule = config.enforcement.rule
        /\ ~(o.score < config.enforcement.threshold)
        /\ ~(config.enforcement.expires_on < today)
    BY <2>5, FailureMeansEnforced
  <2>9. \/ ServiceDecision(config, runs[r].change, today, kill).would_block
        \/ ServiceDecision(config, runs[r].change, today, kill).reason = "waived"
        \/ OwnWorkflow(runs[r])
    BY <2>2, <2>5, <2>6, <2>7, EnforcedIsDeserved
  <2> QED
    BY <2>2, <2>3, <2>4, <2>7, <2>8, <2>9 DEF Deserved
<1> QED
  BY <1>1, PilotInvariant, PTL DEF PilotSpec, FailureIsDeserved, Deserved

\* While the default branch is ready for a pilot no check blocks
\* (assess_shadow_pilot_checkout, product/pr_guardian/pilot_readiness.py:77).
THEOREM ReadyPilotNeverBlocks == PilotSpec => PilotNeverBlocks
<1>1. ASSUME [NextPilot]_pilotVars
      PROVE  [ContractReady(manifest, raw, today) =>
                 \A k \in checkRuns' \ checkRuns :
                     k.conclusion = "neutral" /\ k.mode = "shadow"]_pilotVars
  <2>1. SUFFICES ASSUME ContractReady(manifest, raw, today),
                        NEW r \in 1..Len(runs), PublishCheck(r),
                        NEW k \in checkRuns' \ checkRuns
                 PROVE  k.conclusion = "neutral" /\ k.mode = "shadow"
    BY <1>1, OnlyPublishersCheck
  <2>2. PICK config : config = EffectiveConfig(raw, today)
    OBVIOUS
  <2>3. raw.present /\ raw.mode = "shadow" /\ ConfigAccepted(raw, today, TRUE)
    BY <2>1 DEF ContractReady, ConfigLoads, InstallationMatches
  <2>4. ConfigAccepted(raw, today, FALSE)
    BY <2>3 DEF ConfigAccepted
  <2>5. config.mode = "shadow"
    BY <2>2, <2>3, <2>4 DEF EffectiveConfig
  <2>6. PublishDecision(runs[r].artifact.observation, config, kill, today).conclusion = "neutral"
    BY <2>5, FailureMeansEnforced
  <2>7. Conclude(runs[r], config, ConfigError(raw, today), kill, today) = "neutral"
    BY <2>6, Zenon DEF Conclude
  <2> QED
    BY <2>1, <2>2, <2>5, <2>7, NewCheck
<1> QED
  BY <1>1, PTL DEF PilotSpec, PilotNeverBlocks

-----------------------------------------------------------------------------
(* The dependency boundary: the bulkhead and the circuit breaker *)

InFlight == {c \in Callers : calls[c].pc # "idle"}

\* The breaker state is well formed (permits apart, which need the account).
BreakerTypeOK ==
    /\ permits \in Nat
    /\ failures \in Nat
    /\ open_until \in Nat
    /\ probe_active \in BOOLEAN
    /\ generation \in Nat
    /\ calls \in [Callers -> Call]
    /\ now \in Nat \ {0}
    /\ up \in BOOLEAN
    /\ abandoned \in BOOLEAN

\* No admission is of a generation that has not begun, a running probe of this
\* generation means an open circuit, and no call of this generation runs
\* during its cool-down: what a result may conclude from its admission.
AdmissionsAreOld ==
    \A c \in Callers : calls[c].pc = "running" =>
        /\ calls[c].generation <= generation
        /\ calls[c].generation = generation =>
            /\ open_until <= now
            /\ calls[c].half_open_probe => open_until # 0

Account ==
    /\ IsFiniteSet(InFlight)
    /\ PermitsAccounted

\* The part of the invariant about the breaker, without the semaphore.
BreakerInv ==
    /\ BreakerTypeOK
    /\ AdmissionsAreOld
    /\ SingleProbe
    /\ ThresholdRespected

BoundaryInv == BreakerInv /\ Account

-----------------------------------------------------------------------------

\* A boundary starts closed, with all its permits.
LEMMA InitBoundaryInv == InitBoundary => BoundaryInv
<1> SUFFICES ASSUME InitBoundary PROVE BoundaryInv
  OBVIOUS
<1>1. BreakerInv
  <2>1. /\ permits \in Nat /\ failures \in Nat /\ open_until \in Nat
        /\ generation \in Nat /\ now \in Nat \ {0}
    BY DependencyLimits DEF InitBoundary
  <2>2. calls \in [Callers -> Call]
    BY DEF InitBoundary, Call, IdleCall
  <2>3. BreakerTypeOK
    BY <2>1, <2>2 DEF InitBoundary, BreakerTypeOK
  <2>4. AdmissionsAreOld /\ SingleProbe
    BY DEF InitBoundary, AdmissionsAreOld, SingleProbe, IdleCall
  <2>5. ThresholdRespected
    BY DependencyLimits DEF InitBoundary, ThresholdRespected
  <2> QED
    BY <2>3, <2>4, <2>5 DEF BreakerInv
<1>2. InFlight = {}
  BY DEF InitBoundary, InFlight, IdleCall
<1>3. Account
  BY <1>2, FS_EmptySet, DependencyLimits DEF Account, PermitsAccounted, InFlight, InitBoundary
<1> QED
  BY <1>1, <1>3 DEF BoundaryInv

-----------------------------------------------------------------------------
(* The semaphore *)

\* A step that moves one call between two non-idle states keeps the account.
LEMMA SameInFlight ==
    ASSUME Account, NEW c \in Callers, calls \in [Callers -> Call],
           NEW call \in Call, calls[c].pc # "idle", call.pc # "idle",
           calls' = [calls EXCEPT ![c] = call], permits' = permits
    PROVE  Account'
<1>1. InFlight' = InFlight
  BY DEF InFlight, Call
<1> QED
  BY <1>1 DEF Account, PermitsAccounted, InFlight

\* acquire takes one permit for one call.
LEMMA AcquireAccount ==
    ASSUME BreakerTypeOK, Account, NEW c \in Callers, Acquire(c)
    PROVE  Account'
<1>1. InFlight' = InFlight \union {c}
  BY DEF InFlight, Acquire, BreakerTypeOK, Call
<1>2. c \notin InFlight
  BY DEF InFlight, Acquire
<1>3. /\ IsFiniteSet(InFlight')
      /\ Cardinality(InFlight') = Cardinality(InFlight) + 1
  BY <1>1, <1>2, FS_AddElement DEF Account
<1>4. Cardinality(InFlight) \in Nat
  BY FS_CardinalityType DEF Account
<1>5. permits' + Cardinality(InFlight') = MaxInFlight
  <2>1. permits + Cardinality(InFlight) = MaxInFlight
    BY DEF Account, PermitsAccounted, InFlight
  <2>2. permits' = permits - 1 /\ permits \in Nat
    BY DEF Acquire, BreakerTypeOK
  <2> QED
    BY <1>3, <1>4, <2>1, <2>2, DependencyLimits
<1> QED
  BY <1>3, <1>5 DEF Account, PermitsAccounted, InFlight

\* release gives back the one permit of its call.
LEMMA ReleaseAccount ==
    ASSUME BreakerTypeOK, Account, NEW c \in Callers, Release(c)
    PROVE  Account'
<1>1. InFlight' = InFlight \ {c}
  BY DEF InFlight, Release, IdleCall, BreakerTypeOK
<1>2. c \in InFlight
  BY DEF InFlight, Release
<1>3. /\ IsFiniteSet(InFlight')
      /\ Cardinality(InFlight') = Cardinality(InFlight) - 1
  BY <1>1, <1>2, FS_RemoveElement DEF Account
<1>4. Cardinality(InFlight) \in Nat
  BY FS_CardinalityType DEF Account
<1>5. permits' + Cardinality(InFlight') = MaxInFlight
  <2>1. permits + Cardinality(InFlight) = MaxInFlight
    BY DEF Account, PermitsAccounted, InFlight
  <2>2. permits' = permits + 1 /\ permits \in Nat
    BY DEF Release, BreakerTypeOK
  <2> QED
    BY <1>3, <1>4, <2>1, <2>2, DependencyLimits
<1> QED
  BY <1>3, <1>5 DEF Account, PermitsAccounted, InFlight

-----------------------------------------------------------------------------
(* The breaker, one lemma per action *)

\* The records a call may become are calls.
LEMMA CallTypes ==
    /\ IdleCall \in Call
    /\ [IdleCall EXCEPT !.pc = "releasing"] \in Call
    /\ [IdleCall EXCEPT !.pc = "releasing"].pc = "releasing"
    /\ \A g \in Nat, p \in BOOLEAN :
        [pc |-> "running", generation |-> g, half_open_probe |-> p] \in Call
BY DEF IdleCall, Call

\* A step that starts no operation and leaves the breaker alone keeps the
\* breaker's invariant: fewer admissions run than before.
LEMMA BreakerStable ==
    ASSUME BreakerInv, NEW c \in Callers, NEW call \in Call, call.pc # "running",
           calls' = [calls EXCEPT ![c] = call], permits' \in Nat,
           UNCHANGED <<breaker, now, up>>, abandoned' \in BOOLEAN
    PROVE  BreakerInv'
<1>1. /\ \A d \in Callers : calls'[d].pc = "running" => calls'[d] = calls[d]
      /\ calls' \in [Callers -> Call]
  BY DEF BreakerInv, BreakerTypeOK
<1>2. BreakerTypeOK'
  BY <1>1 DEF BreakerInv, BreakerTypeOK, breaker
<1>3. AdmissionsAreOld'
  BY <1>1 DEF BreakerInv, AdmissionsAreOld, breaker
<1>4. SingleProbe'
  BY <1>1 DEF BreakerInv, SingleProbe, breaker
<1>5. ThresholdRespected'
  BY DEF BreakerInv, ThresholdRespected, breaker
<1> QED
  BY <1>2, <1>3, <1>4, <1>5 DEF BreakerInv

\* _admit gives out at most one probe of an open circuit, after its cool-down.
LEMMA AdmitBreaker ==
    ASSUME BreakerInv, NEW c \in Callers, Admit(c)
    PROVE  BreakerInv'
<1>1. CASE open_until > now \/ (open_until # 0 /\ probe_active)
  <2>1. /\ calls' = [calls EXCEPT ![c] = [IdleCall EXCEPT !.pc = "releasing"]]
        /\ UNCHANGED <<breaker, now, up, abandoned, permits>>
    BY <1>1 DEF Admit, Releasing, breaker
  <2> QED
    BY <2>1, CallTypes, BreakerStable DEF BreakerInv, BreakerTypeOK
<1>2. CASE ~(open_until > now \/ (open_until # 0 /\ probe_active))
  <2> DEFINE call == [pc |-> "running", generation |-> generation,
                      half_open_probe |-> open_until # 0]
  <2>1. /\ calls' = [calls EXCEPT ![c] = call]
        /\ probe_active' = (probe_active \/ open_until # 0)
        /\ UNCHANGED <<permits, failures, open_until, generation, now, up, abandoned>>
    BY <1>2 DEF Admit
  <2>2. BreakerTypeOK'
    <3>1. call \in Call
      BY DEF Call, BreakerInv, BreakerTypeOK
    <3>2. calls' \in [Callers -> Call]
      BY <2>1, <3>1 DEF BreakerInv, BreakerTypeOK
    <3>3. probe_active' \in BOOLEAN
      BY <2>1 DEF BreakerInv, BreakerTypeOK
    <3> QED
      BY <2>1, <3>2, <3>3 DEF BreakerInv, BreakerTypeOK
  <2>3. /\ \A d \in Callers \ {c} : calls'[d] = calls[d]
        /\ calls'[c] = call
    BY <2>1 DEF BreakerInv, BreakerTypeOK
  <2>4. AdmissionsAreOld'
    <3>1. open_until <= now
      BY <1>2 DEF BreakerInv, BreakerTypeOK
    <3>2. call.half_open_probe => open_until # 0
      BY Zenon
    <3>3. call.generation <= generation
      BY DEF BreakerInv, BreakerTypeOK
    <3> QED
      BY <2>1, <2>3, <3>1, <3>2, <3>3 DEF BreakerInv, AdmissionsAreOld
  <2>5. SingleProbe'
    BY <1>2, <2>1, <2>3 DEF BreakerInv, BreakerTypeOK, SingleProbe
  <2>6. ThresholdRespected'
    BY <2>1 DEF BreakerInv, ThresholdRespected
  <2> QED
    BY <2>2, <2>4, <2>5, <2>6 DEF BreakerInv
<1> QED
  BY <1>1, <1>2

\* What the end of an operation does to the calls in flight.
LEMMA EndedCall ==
    ASSUME BreakerInv, NEW c \in Callers, Releasing(c)
    PROVE  /\ calls' \in [Callers -> Call]
           /\ \A d \in Callers : calls'[d].pc = "running" => d # c /\ calls'[d] = calls[d]
           /\ calls' = [calls EXCEPT ![c] = [IdleCall EXCEPT !.pc = "releasing"]]
BY CallTypes DEF Releasing, BreakerInv, BreakerTypeOK

\* _record_success closes the circuit only for the probe, or changes nothing.
LEMMA SuccessBreaker ==
    ASSUME BreakerInv, NEW c \in Callers, calls[c].pc = "running",
           RecordSuccess(calls[c]), Releasing(c), UNCHANGED <<permits, now, up, abandoned>>
    PROVE  BreakerInv'
<1>1. CASE \/ calls[c].generation # generation
           \/ open_until # 0 /\ ~calls[c].half_open_probe
  <2>1. UNCHANGED breaker
    BY <1>1 DEF RecordSuccess
  <2> QED
    BY <2>1, CallTypes, EndedCall, BreakerStable DEF BreakerInv, BreakerTypeOK
<1>2. CASE ~(\/ calls[c].generation # generation
             \/ open_until # 0 /\ ~calls[c].half_open_probe)
  <2>1. /\ failures' = 0 /\ open_until' = 0 /\ probe_active' = FALSE
        /\ UNCHANGED <<generation, now, up, abandoned, permits>>
    BY <1>2 DEF RecordSuccess
  <2>2. BreakerTypeOK'
    BY <2>1, EndedCall DEF BreakerInv, BreakerTypeOK
  <2>3. AdmissionsAreOld'
    BY <1>2, <2>1, EndedCall
    DEF BreakerInv, BreakerTypeOK, AdmissionsAreOld, SingleProbe
  <2>4. SingleProbe' /\ ThresholdRespected'
    BY <2>1, DependencyLimits DEF SingleProbe, ThresholdRespected
  <2> QED
    BY <2>2, <2>3, <2>4 DEF BreakerInv
<1> QED
  BY <1>1, <1>2

\* _record_transient_failure opens the circuit in a new generation, in which
\* nothing runs yet, or counts a failure of a closed circuit.
LEMMA FailureBreaker ==
    ASSUME BreakerInv, NEW c \in Callers, calls[c].pc = "running",
           RecordTransientFailure(calls[c]), Releasing(c),
           UNCHANGED <<permits, now, up, abandoned>>
    PROVE  BreakerInv'
<1>1. CASE calls[c].generation # generation
  <2>1. UNCHANGED breaker
    BY <1>1 DEF RecordTransientFailure
  <2> QED
    BY <2>1, CallTypes, EndedCall, BreakerStable DEF BreakerInv, BreakerTypeOK
<1>2. CASE /\ calls[c].generation = generation
           /\ calls[c].half_open_probe \/ failures + 1 >= FailureThreshold
  <2>1. /\ failures' = failures + 1 /\ probe_active' = FALSE
        /\ open_until' = now + RecoverySeconds /\ generation' = generation + 1
    BY <1>2 DEF RecordTransientFailure
  <2>2. BreakerTypeOK'
    <3>1. failures' \in Nat /\ open_until' \in Nat /\ generation' \in Nat
      BY <2>1, DependencyLimits DEF BreakerInv, BreakerTypeOK
    <3> QED
      BY <2>1, <3>1, EndedCall DEF BreakerInv, BreakerTypeOK
  <2>3. \A d \in Callers : calls'[d].pc = "running" => calls'[d].generation < generation'
    <3> SUFFICES ASSUME NEW d \in Callers, calls'[d].pc = "running"
                 PROVE  calls'[d].generation < generation'
      OBVIOUS
    <3>1. calls'[d] = calls[d] /\ calls[d].generation \in Nat
      BY EndedCall DEF BreakerInv, BreakerTypeOK, Call
    <3> QED
      BY <2>1, <3>1 DEF BreakerInv, BreakerTypeOK, AdmissionsAreOld
  <2>4. \A d \in Callers : calls'[d].generation \in Nat
    BY EndedCall DEF Call
  <2>5. AdmissionsAreOld' /\ SingleProbe'
    BY <2>2, <2>3, <2>4 DEF AdmissionsAreOld, SingleProbe, BreakerTypeOK
  <2>6. ThresholdRespected'
    BY <2>1, DependencyLimits DEF ThresholdRespected, BreakerInv, BreakerTypeOK
  <2> QED
    BY <2>2, <2>5, <2>6 DEF BreakerInv
<1>3. CASE /\ calls[c].generation = generation
           /\ ~(calls[c].half_open_probe \/ failures + 1 >= FailureThreshold)
  <2>1. /\ failures' = failures + 1 /\ probe_active' = FALSE
        /\ UNCHANGED <<open_until, generation>>
    BY <1>3 DEF RecordTransientFailure
  <2>2. open_until = 0
    BY <1>3 DEF BreakerInv, SingleProbe
  <2>3. BreakerTypeOK'
    <3>1. failures' \in Nat
      BY <2>1 DEF BreakerInv, BreakerTypeOK
    <3> QED
      BY <2>1, <3>1, EndedCall DEF BreakerInv, BreakerTypeOK
  <2>4. AdmissionsAreOld'
    BY <2>1, EndedCall DEF BreakerInv, AdmissionsAreOld
  <2>5. SingleProbe' /\ ThresholdRespected'
    BY <1>3, <2>1, <2>2, DependencyLimits
    DEF SingleProbe, ThresholdRespected, BreakerInv, BreakerTypeOK
  <2> QED
    BY <2>3, <2>4, <2>5 DEF BreakerInv
<1> QED
  BY <1>1, <1>2, <1>3

-----------------------------------------------------------------------------

\* The end of a call keeps the account: its permit is released later.
LEMMA EndAccount ==
    ASSUME BoundaryInv, NEW c \in Callers, calls[c].pc \in {"admitting", "running"},
           Releasing(c), permits' = permits
    PROVE  Account'
BY CallTypes, SameInFlight DEF BoundaryInv, BreakerInv, BreakerTypeOK, Releasing

\* Every step of every thread keeps the invariant.
LEMMA NextBoundaryInv == BoundaryInv /\ [NextBoundary]_boundaryVars => BoundaryInv'
<1> SUFFICES ASSUME BoundaryInv, [NextBoundary]_boundaryVars PROVE BoundaryInv'
  OBVIOUS
<1> USE DEF BoundaryInv
<1>1. ASSUME NEW c \in Callers, Acquire(c) PROVE BoundaryInv'
  <2>1. /\ calls' = [calls EXCEPT ![c] = [calls[c] EXCEPT !.pc = "admitting"]]
        /\ [calls[c] EXCEPT !.pc = "admitting"] \in Call
        /\ [calls[c] EXCEPT !.pc = "admitting"].pc # "running"
    BY <1>1 DEF Acquire, BreakerInv, BreakerTypeOK, Call
  <2>2. permits' \in Nat
    BY <1>1 DEF Acquire, BreakerInv, BreakerTypeOK
  <2>3. UNCHANGED <<breaker, now, up>> /\ abandoned' \in BOOLEAN
    BY <1>1 DEF Acquire, BreakerInv, BreakerTypeOK
  <2>4. BreakerInv'
    BY <2>1, <2>2, <2>3, BreakerStable
  <2> QED
    BY <1>1, <2>4, AcquireAccount DEF BreakerInv
<1>2. ASSUME NEW c \in Callers, Admit(c) PROVE BoundaryInv'
  <2>1. BreakerInv'
    BY <1>2, AdmitBreaker
  <2>2. Account'
    <3>1. CASE open_until > now \/ (open_until # 0 /\ probe_active)
      BY <1>2, <3>1, EndAccount DEF Admit
    <3>2. CASE ~(open_until > now \/ (open_until # 0 /\ probe_active))
      <4>1. [pc |-> "running", generation |-> generation,
             half_open_probe |-> open_until # 0] \in Call
        BY DEF Call, BreakerInv, BreakerTypeOK
      <4> QED
        BY <1>2, <3>2, <4>1, SameInFlight DEF Admit, BreakerInv, BreakerTypeOK
    <3> QED
      BY <3>1, <3>2
  <2> QED
    BY <2>1, <2>2
<1>3. ASSUME NEW c \in Callers, Succeed(c) PROVE BoundaryInv'
  BY <1>3, SuccessBreaker, EndAccount DEF Succeed
<1>4. ASSUME NEW c \in Callers, FailOtherwise(c) PROVE BoundaryInv'
  <2>1. CASE calls[c].half_open_probe
    BY <1>4, <2>1, SuccessBreaker, EndAccount DEF FailOtherwise
  <2>2. CASE ~calls[c].half_open_probe
    <3>1. BreakerInv'
      BY <1>4, <2>2, CallTypes, EndedCall, BreakerStable
      DEF FailOtherwise, BreakerInv, BreakerTypeOK
    <3> QED
      BY <1>4, <3>1, EndAccount DEF FailOtherwise
  <2> QED
    BY <2>1, <2>2
<1>5. ASSUME NEW c \in Callers, FailTransiently(c) PROVE BoundaryInv'
  BY <1>5, FailureBreaker, EndAccount DEF FailTransiently
<1>6. ASSUME NEW c \in Callers, Interrupt(c) PROVE BoundaryInv'
  <2>1. permits' \in Nat /\ UNCHANGED <<breaker, now, up>>
    BY <1>6 DEF Interrupt, BreakerInv, BreakerTypeOK
  <2>2. abandoned' \in BOOLEAN
    BY <1>6 DEF Interrupt
  <2>3. BreakerInv'
    BY <1>6, <2>1, <2>2, CallTypes, EndedCall, BreakerStable DEF Interrupt
  <2> QED
    BY <1>6, <2>3, EndAccount DEF Interrupt
<1>7. ASSUME NEW c \in Callers, Release(c) PROVE BoundaryInv'
  <2>1. permits' \in Nat /\ UNCHANGED <<breaker, now, up>> /\ abandoned' \in BOOLEAN
    BY <1>7 DEF Release, BreakerInv, BreakerTypeOK
  <2>2. calls' = [calls EXCEPT ![c] = IdleCall] /\ IdleCall.pc # "running"
    BY <1>7 DEF Release, IdleCall
  <2>3. BreakerInv'
    BY <2>1, <2>2, CallTypes, BreakerStable
  <2> QED
    BY <1>7, <2>3, ReleaseAccount DEF BreakerInv
<1>8. CASE TimePasses
  <2>1. now' = now + 1 /\ UNCHANGED <<permits, breaker, calls, up, abandoned>>
    BY <1>8 DEF TimePasses
  <2>2. BreakerTypeOK' /\ SingleProbe' /\ ThresholdRespected'
    BY <2>1 DEF BreakerInv, BreakerTypeOK, SingleProbe, ThresholdRespected, breaker
  <2>3. AdmissionsAreOld'
    BY <2>1 DEF BreakerInv, BreakerTypeOK, AdmissionsAreOld, breaker
  <2>4. Account'
    BY <2>1 DEF Account, PermitsAccounted, InFlight
  <2> QED
    BY <2>2, <2>3, <2>4 DEF BreakerInv
<1>9. CASE DependencyRecovers \/ UNCHANGED boundaryVars
  <2>1. UNCHANGED <<permits, breaker, calls, now, abandoned>> /\ up' \in BOOLEAN
    BY <1>9 DEF DependencyRecovers, boundaryVars, breaker, BreakerInv, BreakerTypeOK
  <2>2. BreakerInv'
    BY <2>1 DEF BreakerInv, BreakerTypeOK, SingleProbe, ThresholdRespected,
       AdmissionsAreOld, breaker
  <2>3. Account'
    BY <2>1 DEF Account, PermitsAccounted, InFlight
  <2> QED
    BY <2>2, <2>3
<1> QED
  BY <1>1, <1>2, <1>3, <1>4, <1>5, <1>6, <1>7, <1>8, <1>9 DEF NextBoundary, OperationEnds

\* BoundaryInv is an invariant of the boundary.
THEOREM BoundaryInvariant == BoundarySpec => []BoundaryInv
<1>1. InitBoundary => BoundaryInv
  BY InitBoundaryInv
<1>2. BoundaryInv /\ [NextBoundary]_boundaryVars => BoundaryInv'
  BY NextBoundaryInv
<1> QED
  BY <1>1, <1>2, PTL DEF BoundarySpec

\* The invariant bounds the permits.
LEMMA InvTypeOK == BoundaryInv => BoundaryTypeOK
<1> SUFFICES ASSUME BoundaryInv PROVE BoundaryTypeOK
  OBVIOUS
<1>1. Cardinality(InFlight) \in Nat /\ permits + Cardinality(InFlight) = MaxInFlight
  BY FS_CardinalityType DEF BoundaryInv, Account, PermitsAccounted, InFlight
<1>2. permits \in 0..MaxInFlight
  BY <1>1, DependencyLimits DEF BoundaryInv, BreakerInv, BreakerTypeOK
<1> QED
  BY <1>2 DEF BoundaryTypeOK, BoundaryInv, BreakerInv, BreakerTypeOK

\* The boundary's state is well typed, and the semaphore is never released
\* above its bound (BoundedSemaphore would raise).
THEOREM BoundaryTypeCorrect == BoundarySpec => []BoundaryTypeOK
BY BoundaryInvariant, InvTypeOK, PTL

\* The bulkhead holds for any number of threads: permits and calls in flight
\* add up to max_in_flight.
THEOREM Bulkhead == BoundarySpec => []PermitsAccounted
<1>1. BoundaryInv => PermitsAccounted
  BY DEF BoundaryInv, Account
<1> QED
  BY <1>1, BoundaryInvariant, PTL

\* At most one probe of an open circuit is in flight.
THEOREM OneProbe == BoundarySpec => []SingleProbe
<1>1. BoundaryInv => SingleProbe
  BY DEF BoundaryInv, BreakerInv
<1> QED
  BY <1>1, BoundaryInvariant, PTL

\* A closed circuit has seen fewer than failure_threshold failures in a row.
THEOREM Threshold == BoundarySpec => []ThresholdRespected
<1>1. BoundaryInv => ThresholdRespected
  BY DEF BoundaryInv, BreakerInv
<1> QED
  BY <1>1, BoundaryInvariant, PTL

\* No late result undoes or prolongs a cool-down, and only the probe of its
\* own generation closes a circuit.
THEOREM CoolDown == BoundarySpec => CoolDownRespected
<1>1. BoundaryInv /\ [NextBoundary]_boundaryVars => [CoolDownStep]_boundaryVars
  <2> SUFFICES ASSUME BoundaryInv, NextBoundary PROVE CoolDownStep
    OBVIOUS
  <2> DEFINE
        Kept == open_until > now => UNCHANGED <<open_until, generation>>
        Closer(c) == /\ calls[c].pc = "running" /\ calls[c].half_open_probe
                     /\ calls[c].generation = generation
                     /\ calls'[c].pc = "releasing"
        ClosedByProbe == open_until # 0 /\ open_until' = 0 => \E c \in Callers : Closer(c)
  <2>1. ASSUME UNCHANGED <<open_until, generation>> PROVE Kept /\ ClosedByProbe
    BY <2>1
  <2>2. ASSUME NEW c \in Callers, calls[c].pc = "running", Releasing(c),
               RecordSuccess(calls[c]), ~UNCHANGED <<open_until, generation>>
        PROVE  Kept /\ ClosedByProbe
    <3>1. /\ calls[c].generation = generation
          /\ open_until # 0 => calls[c].half_open_probe
      BY <2>2 DEF RecordSuccess, breaker
    <3>2. open_until <= now
      BY <2>2, <3>1 DEF BoundaryInv, BreakerInv, AdmissionsAreOld
    <3>3. Kept
      BY <3>2 DEF BoundaryInv, BreakerInv, BreakerTypeOK
    <3>4. calls'[c].pc = "releasing"
      BY <2>2, CallTypes DEF Releasing, BoundaryInv, BreakerInv, BreakerTypeOK
    <3> QED
      BY <2>2, <3>1, <3>3, <3>4
  <2>3. ASSUME NEW c \in Callers, FailTransiently(c),
               ~UNCHANGED <<open_until, generation>>
        PROVE  Kept /\ ClosedByProbe
    <3>1. /\ calls[c].generation = generation /\ calls[c].pc = "running"
          /\ open_until' = now + RecoverySeconds
      BY <2>3 DEF FailTransiently, RecordTransientFailure, breaker
    <3>2. open_until <= now
      BY <3>1 DEF BoundaryInv, BreakerInv, AdmissionsAreOld
    <3> QED
      BY <3>1, <3>2, DependencyLimits DEF BoundaryInv, BreakerInv, BreakerTypeOK
  <2>4. \/ UNCHANGED <<open_until, generation>>
        \/ \E c \in Callers :
            \/ /\ calls[c].pc = "running" /\ Releasing(c) /\ RecordSuccess(calls[c])
            \/ FailTransiently(c)
    BY DEF NextBoundary, Acquire, Admit, OperationEnds, Succeed, FailOtherwise, Interrupt,
       Release, TimePasses, DependencyRecovers, breaker
  <2>5. Kept /\ ClosedByProbe
    BY <2>1, <2>2, <2>3, <2>4
  <2> QED
    BY <2>5 DEF CoolDownStep
<1> QED
  BY <1>1, BoundaryInvariant, PTL DEF BoundarySpec, CoolDownRespected

=============================================================================
