# Formal model of the engineering-intelligence platform

This directory models the parts of the platform that must not go wrong while
nobody is looking: the durable state and audit stores, the remediation workflow
and the control loop that change production, PR Guardian from a webhook to the
check on GitHub and from a shadow pilot to a promotion review, the ingestion of
sources, and Company Brain with the human reviews over it. Modules are TLA+;
TLC checks them on small instances, and TLAPS proves their safety properties for
every instance. Paths are relative to the repository root.

## 1. Inventory

### Parts that keep state

| Part | State | Operations | What makes it correct |
|---|---|---|---|
| `state/lifecycle.py`, `state/models.py` | none (contract) | validate, apply_to | only legal transitions; terminal statuses are final; an event that names no plan hash keeps the record's |
| `state/store.py` | workflow rows, transition receipts | put_workflow, apply_workflow_event, put_service | no lost update, retries answer as the first delivery did |
| `state/cosmos_store.py` | workflow documents with etags, receipts | the same, as sequences of requests | the same as the SQLite store, for concurrent callers and lost answers |
| `state/audit.py`, `state/cosmos_audit.py` | chained audit events, chain tip | append, verify_chain | one chain, no gap, retries append once |
| `orchestration/remediation_workflow.py`, `control_plane_activities.py` | a Temporal run, its pending signals | run, submit_approval, seven activities | one authorised mutation at most, audited first, truthful outcome |
| `orchestration/jobs.py`, `runner.py` | jobs table | enqueue, claim, complete, fail, run_once | one unexpired lease |
| `product/durable_self_healing.py`, `control_plane/remediation.py` | record, audit, jobs | prepare, approve_and_enqueue, handle_job | what runs was approved, and runs once |
| `remediation/executor.py`, `canary.py`, `concurrency_lock.py` | leases | execute_control_loop, acquire, release | gate, exclusion of overlapping blast radii, truthful result |
| `remediation/kubernetes_adapter.py`, `digital_twin.py`, `catalog.py` | a deployment, a sandbox | preflight, execute, verify, rollback, provision, simulate, destroy | what is changed was checked; a rehearsal leaves nothing |
| `remediation/opa_policy.py`, `infra/policy/*.rego`, `resilience/certification.py`, `scripts/certify_l4_scope.py` | certifications on file | evaluate, evaluate_l4_eligibility, certification_refusal | both evaluators agree; L4 needs a live certification of exactly this scope, earned by its evidence |
| `resilience/dependencies.py` | permits, breaker | call | bulkhead, single probe, cool-down, recovery |
| `company_brain/artifact_outbox.py`, `product/pr_guardian/publication.py`, `store.py`, `control_plane/workflows.py`, `app/pr_guardian_api.py` | review record and audit, findings, artifacts, deliveries with leases | webhook, evaluate, record, claim_next, acknowledge, retry, deliver_pending, recover | record before presentation; a stale lease ends nothing; every delivery completes |
| `product/pr_guardian/{enforcement,config,contracts,review_pipeline}.py`, `product/pr_guardian_shadow.py`, `product/pr_guardian/pilot*.py`, `feedback/pr_guardian_*.py` | configuration, manifest, checks, the sticky comment, outcomes, reports, packets | evaluate, publish, close, summarise, promote | a failing check is deserved when shown; a pilot never blocks; a packet rests on its own records |
| `ingestion/*` | ledger, dead letters, index, catalog | handle, replay, apply_changes, reconcile, ingest_checkout | what catalog and ledger claim is so; the index converges to the source |
| `company_brain/store.py`, `memory.py`, `projector.py` | entities, evidence, relationships, projection journal | put, tombstone, project, delete | old evidence is retired; no edge without evidence |
| `company_brain/world_model.py`, `decision_context.py`, `context_packet.py`, `context_health.py`, `decision_brief.py` | none (reads) | query, context_for_change, packet, health, brief | what is called qualified is whole |
| `company_brain/corrections.py`, `evidence_receipts.py` | receipts, corrections, reviews | issue, submit, review | a proposal rests on a whole read, within its lifetime |
| `company_brain/maintenance.py`, `maintenance_outcomes.py` | proposals, decisions, observations, outcomes | plan, decide, observe, evaluate | a verified outcome happened |

`app` (but for the PR webhook), `portal`, the other `integrations`,
`intelligence` (but for risk, graph, calibration and decay), `topology`,
`telemetry`, `finops`, `governance`, `security`, `validation`, `eval`,
`supply_chain`, most of `scripts`, `infra` and `helm` keep no state that several
steps share: routes, clients, scores, reports and deployment files.

### How they interact

    approval --> RemediationWorkflow (Temporal) --> activities --> StateStore, AuditLog (SQLite | Cosmos)
                                                        |
    API --> prepare / approve --> store, audit, queue --+--> execute_control_loop --> adapter --> cluster | twin
                                                                 |
                              OPA / local evaluator (behind DependencyBoundary), L4 certification, leases, canary

    webhook --> review record, audit --> finding --> outbox --> deliver --> GitHub check, comment <-- recovery worker
    CI jobs --> evaluate --> publish --> close --> report --> promotion packet

    push, checkout, connector --> ledger --> index, Company Brain, catalog <-- reconcile
    Company Brain --> qualified context --> packet --> receipt --> correction --> review
                  \-> decay findings --> proposals --> decision, observation --> outcome

### What is hard

Concurrent callers of a store without transactions; answers lost after a write
took effect; attempts that keep running after somebody gave up on them; deaths
between two durable writes; leases that run out under a slow holder; events that
are lost, repeated and reordered; jobs that act on an evaluation, a
configuration or a read that is no longer current; several sources behind one
shared edge; reads that take several calls; two implementations of one rule
chain. `PROJECT.json` lists each hazard at its line with the properties that
would show it going wrong.

## 2. Modules

| Module | Models | State and actions |
|---|---|---|
| `Lifecycle` | the lifecycle contract | operators only; a record is status, plan hash, version and scope, everything else of an event is its `body` |
| `StateStore` | `SqliteStateStore`, and the abstract specification of a store | `workflows`, `receipts`, `answers` (history); one action per transaction |
| `CosmosStateStore` | `CosmosStateStore` | one action per Cosmos request of each caller; `Batch` may lose its answer; `Crash` between any two |
| `AuditLog`, `CosmosAuditLog` | the chained log, atomic and over Cosmos | `AppendEvent`, `Replayed`; tip document, `ReadTip`, `AppendBatch`, `ReadStored`, `ExporterDies`; a hash is the tuple of what it hashes |
| `RemediationWorkflow` | the Temporal workflow and its activities | `run`, `pending` (signals), `attempts` (zombies included); an activity is `Begin`, `Commit`, `Export`, for the action also `Mutate` and `Settle`, then `Return` |
| `JobQueue`, `SelfHealing` | the leased queue, and the coordinator over it | a row per job; every durable write of a caller or of `handle_job` is a step |
| `RemediationPolicy` | level resolution, both evaluators, certification gate | operators over one request; a chain of rules is a sequence whose first match decides |
| `L4Certification` | eligibility and `certify_l4_scope.py` | operators over one promotion: exercises, evidence records, arguments |
| `RunbookAdapter` | the default catalog, `KubernetesActionAdapter`, the clone of a twin | operators on a deployment: its revisions, what its pods report, its annotations |
| `ControlLoop` | `execute_control_loop`, canary, lock manager, `KubernetesDigitalTwin.simulate`, the filing of certifications | one record per call; the calls out of the process are steps; a rehearsal is `Rehearse`, `Provision`, the same loop on the clone, `Destroy` |
| `DependencyBoundary` | `DependencyBoundary` | what runs under the lock is one action; the operation runs between two of them |
| `DeliveryContract` | what the outbox promises (abstract) | recorded, effected, complete; nothing is taken back, effects may repeat |
| `ArtifactOutbox` | `SqliteArtifactOutbox` | artifacts and delivery rows; an operation is a transaction; the attempt number stands for the lease token |
| `PRPublication` | webhook, `evaluate`, publisher, recovery worker, GitHub | `Work(w)` is the next step of a worker, from the workflow record to the acknowledgement; `CallFails`, `AnswerLost`, `Crash`, `Tick` |
| `GuardianDecisions` | risk, policy, configuration, enforcement, finding | operators, used by both guardian specifications; a path is the set of classes it falls in |
| `GuardianPilot` | manifest, readiness, outcome, report, promotion packet | operators |
| `ShadowPilot` | the CI jobs around one pull request | jobs overlap and may never end, while people edit the default branch, labels, kill switch; an evaluation uploads what the code observes (`Evaluate`), or what a workflow altered by the head says (`UploadAltered`); which of the two is history no action reads |
| `BrainMemory` | the store and the projector of Company Brain | a projection is the list of the store calls it makes, each a transaction |
| `Ingestion` | ledger, worker, dead letters, index, catalog, reconciliation, checkout runner | extends `BrainMemory`; one worker, `Call` makes the next write, `Crash` and `CallRaises` between any two; a push is one event with an entry per path, or two where commits name a path twice; `unfinished` (history) has a mark for every change that was begun and not carried through: its event, or the revision and access list its manifest gave; `owed` (history) has one for every change of a started event that is still to be made |
| `WorldModel` | qualified context, packet, health, brief | operators on a view, which need not be the store at one moment; the blast radius is the least set closed under the dependencies; a context whose packet fits no budget is `Unpackable`, and no receipt is issued for it |
| `KnowledgeReview` | projector, reader, receipts, corrections, reviews | three list calls of a query interleave with the projector's writes |
| `KnowledgeMaintenance` | plan, decision, observation, outcome | sources are edited and edited back |
| `KnowledgeGovernance` | the two review flows under one clock | a behaviour follows one of them, as they share no state but time and facts they only read |

`MC*` modules give the constants values; `DependencyBoundary` and `Ingestion` need
no more than their `.cfg` files. `*Proofs` modules hold the theorems, those of
components that belong together in one module: `CosmosProofs` (both adapters),
`PRGuardianProofs` (publication, pilot and the boundary of its provider calls),
`KnowledgeProofs` (context, corrections, maintenance). Modules that share a proof
module name their specification after their part (`SinkSpec`, `BoundarySpec`,
`PilotSpec`), as does `Ingestion` (`IngestionSpec`).
A definition named "Mutant of X" is a plausible slip in X that the runs must
catch; no specification uses it.

Composition: `CosmosStateStore` implements `StateStore`, `CosmosAuditLog`
implements `AuditLog` and `PRPublication` implements `DeliveryContract`
(refinement, INSTANCE ... WITH). `RemediationWorkflow` uses the actions of
`StateStore` for its writes, so what is shown for it holds over either adapter.
`SelfHealing` extends `JobQueue`, `PRPublication` extends `ArtifactOutbox` and
`GuardianDecisions`, `Ingestion` extends `BrainMemory`. `ControlLoop`, with its
policy, certification and adapter, is the inside of the single mutation step of
`RemediationWorkflow` and `SelfHealing`.

## 3. Runs

| Run | Checks | Instance |
|---|---|---|
| `sqlite_store` | replays agree, one receipt per version, receipts form a legal history, versions only grow | one workflow, nine events that share ids, keys and expected versions in conflicting ways, unversioned puts, 4 versions |
| `cosmos_store` | refinement of `StateStore`; no acknowledged transition is overwritten | two callers, the same events, 3 versions |
| `cosmos_audit` | refinement of `AuditLog`; the chain verifies | two exporters, three ids (one with two contents), 2 attempts |
| `remediation_workflow` | one mutation, authorised and audited first; the trail lags the record by at most the owed export; truthful outcome; every run closes | two runs, 2 attempts per step, two live attempts; genuine, forged and foreign approvals |
| `self_healing` | exclusive lease; a plan that runs is named by an approval unless it was replaced in the record meanwhile, and no approval starts two; single execution while nobody dies or overruns | two plans, two API callers, two workers |
| `dependency_boundary` | permits, single probe, cool-down, recovery | three threads, two permits, threshold 2, cool-down 2 |
| `control_loop` | gate, evaluator agreement, exclusive blast radius, truthful result | 1,332 requests with up to two defects; two concurrent loops; four deployments, one change of the pods, 20 promotions (17 with a defect); rehearsals |
| `guardian_publication` | record before presentation, a duplicate needs an overrun lease, a lease is ended by its holder, the delivery contract, every delivery completes | one head, two events that may each be delivered again, a request worker and a recovery worker, one fault; the SELECT and the INSERT of a finding are two steps |
| `shadow_pilot` | failing checks are deserved, a pilot never blocks, outcomes join the closed head, a valid packet is sound | two evaluation runs, two closures, two days. A repository that enforces: one edit, two thresholds, a waiver, a defective configuration and a pilot; a head that alters the workflows may claim a block at one threshold, at both, or none. A repository with a pilot: two changes of labels, one packet with at most one of five flaws, two joined records required |
| `ingestion` | catalog and ledger are truthful, stale evidence is retired, edges are backed | three wirings, two documents that share an edge, two commits of either or both of them with up to three changes, two attempts, one fault, two checkouts, one reconciliation, one change of the access list |
| `knowledge_governance` | a qualified context is whole, a proposal is backed, an outcome is earned | two services, three sources, two of which claim one edge, three writes by a projector between the calls of one query; two documents edited twice |
| `reconcile_convergence` (violation) | a reconciliation that runs to its end leaves the index at the source | the ingestion instance |

The largest passing runs, with two workers of TLC: `ingestion` (4.0 million
states, 1m40), `self_healing` (2.6 million, 1m10), `shadow_pilot` (1.2 million,
1m35), `knowledge_governance` (865,027, 57 s), `control_loop` (447,729, 51 s) and
`guardian_publication` (173,928, 44 s).

`reconcile_convergence` states what a document says and the code does not do; so
do these, which are checked by hand and each violated within seconds:

    tlc -config MCRemediationClosed.cfg MCRemediationWorkflow    ClosedRunsAreRecorded
    tlc -config MCPRRedelivery.cfg MCPRPublication               OneCheckPerReview
    tlc -config MCShadowPilotForged.cfg MCShadowPilot            ForgedBlockIsNeutral
    tlc -config IngestionCheckout.cfg Ingestion                  CheckoutIsCurrent

and `ExecutedPlanWasApproved` and `SingleUseJob`, each in place of
`ExecutionFollowsApproval` in `MCSelfHealing.cfg`. Section 5 has the traces. A
passing run states what does hold beside them: `OutcomeIsTrue`,
`DuplicateNeedsOverrun`, `FailureIsDeserved`, `LedgerIsTruthful` (the ledger is right
about its event; the file has moved on), `ExecutionFollowsApproval`,
`ExecutedOnce` and, for reconciliation, `CatalogIsTruthful`.

### Why the bounds are enough

Two callers are enough for every race the adapters have: a call conflicts with
the document, the tip or the row, not with a second caller's local state. The
proofs (section 4) remove the bounds for every safety property; for liveness
they are what is checked. Versions go far enough for a
creation, two competing successors and a put in between. Two runs and two live
attempts give a zombie of an earlier run beside the current attempt. Two webhook
deliveries, one fault and a clock past one lease give a second review beside
the first, a recovery of what the first left, and an overrun. Two heads, two
closures and one edit give every order of evaluation, edit, publication and
closure; two thresholds put a claimed score below the one in force and at it. Two
records let a packet's evidence be about an earlier set than its report, and make
precision and recall differ. Two pushes and one death give an event that is
replayed after its successor, or never, or that stops between its two documents; a
second document is also there for the edge both support, and a third change for a
path a push deletes and adds again. Two requests with different plans give every
order of prepare, approval and enqueue. Three writes of a projector put a
supersession between any two of the list calls of a query.

`MaxTime`, `MaxVersion`, `MaxRuns`, `MaxPending`, `MaxLive`, `MaxFaults`,
`Horizon` and the other `Max...` constants are bounds of the model only;
`CHECK_DEADLOCK FALSE` is set because all of these systems may stop when their
work is done or a bound is reached. In `control_loop` the constraint `Focus`
lets a defective request run alone and lets the deployment, the pods and the
certifications vary only for requests that look at them; in `shadow_pilot` a
constraint of that name keeps a behaviour in one of the two repositories, lets
days pass in the second only for a packet, and has reports only there. Symmetry is
used only for sets whose members no definition tells apart, in runs without
liveness.

### Assumptions of the models

One ingestion worker (the docstring of `ingestion/ledger.py` asks for it), and
the source moves only between its jobs. One tenant. No time passes inside a
projection. In `knowledge_governance` a packet item weighs three units and a
disclosure one; a tick is ten minutes or fifty days, so that both a receipt's
lifetime and a staleness threshold can be crossed. A call that raises before it
changes anything is no step where nothing follows from it.

In the pilot only a head that changes a delivery path can have its evaluation
upload something else than what the code observes: the job runs the workflow
definition of the head and the evaluator of the base. What it uploads then is any
member of `Claims`, about its own head; the publisher refuses an artifact of
another head, which `WrongArtifact` provides. GitHub's lists are read as one page
of 100 (`integrations/github/pr_guardian.py:217, 255`): the models have heads and
pull requests whose check runs and comments fit on it, and a presentation beyond
it would be made again. Ratios of a report are compared exactly, where `_ratio`
rounds to four digits; below ten thousand records that decides nothing.
Observations of maintenance are honest, as the trusted observer of the code is
assumed to be.

### Fairness

`remediation_workflow`: some worker executes the attempts it holds, the timer
for the approval deadline fires, and the workflow function resumes. These are
Temporal's guarantees while a worker is up. Signals, failures and time-outs are
not fair. `dependency_boundary`: calls that began end, callers keep calling and
the clock advances; `CircuitCloses` speaks of a dependency that has recovered
for good, and excepts a half-open probe that was interrupted.
`guardian_publication`: a worker that has not died goes on, the recovery script
is scheduled again and again, and time passes. Faults and new requests happen
only before `Horizon`, so `EveryDeliveryCompletes` says that what they left is
completed once they stop.

## 4. Proofs

Every safety property a passing run checks, and each of the three refinements, is
a theorem for every value of the constants. A proof has an inductive invariant, a
lemma per action that the action keeps it, and a temporal step.

* `StateStoreProofs`: type correctness, `OneReceiptPerVersion`,
  `ReceiptsFormAHistory`, `AnswersAgree`, `VersionsAdvance`. None of the
  invariants is inductive alone: a new receipt is in order only because every
  receipt lies behind the record (`ReceiptsBehindRecord`), and replays agree
  only because keys are unique and every answer has its receipt. `Inv` is the
  conjunction.
* `CosmosProofs`, the state store: the adapter implements `StateStore`
  (`Implementation`), so the theorems above hold for any number of interleaved
  callers (`NoLostUpdate`, `History`, `ReplaysAgree`). The invariant says of
  each caller that what it read is the document as long as the etag still
  matches (`ReadIsCurrent`) and that a call that reached its batch passed the
  checks on what it read (`CallIsChecked`). Every step is then a step of
  `StateStore` or a stutter.
* `CosmosProofs`, the audit sink: it implements `AuditLog` (`SinkImplementation`)
  and `verify_chain` accepts what any number of exporters stored
  (`ChainAlwaysVerifies`). A batch appends to the right place only because a tip
  whose etag still matches is the tip that was read (`TipIsCurrent`), the
  documents are numbered without gap up to it (`Numbered`) and it has the hash of
  the newest one (`Linked`).
* `SelfHealingProofs`: `LeaseIsExclusive` for the queue alone and under the
  coordinator, `ExecutionFollowsApproval` and `ExecutedOnce`. The invariant has
  five layers: who holds a job (`HoldInv`), that a version of the record is
  logged once, by whoever wrote it (`VersionInv`), that jobs and admitted
  requests never outnumber the approvals in the log, which is a count over two
  sets that change in different steps (`ApprovalInv`), that the record has the
  plan of every request that waits and was not replaced, so that its approval
  names the plan it holds and later its job (`NamedInv`), and what became of a job
  that was executed (`OnceInv`). `replaced` is history: the plans a request held
  when `prepare` wrote another one, which is the case of `ExecutedPlanWasApproved`.
* `RemediationWorkflowProofs`: `MutationOnce`, `MutationAuthorised`,
  `AuditTrailsState`, `OutcomeIsTrue` and the type invariant, for any number of
  runs and attempts. Zombie attempts are why the invariant is long: `StoreInv` and
  `PlanInv` speak of the store (what is in the trail is never taken back, and one
  evidence leads to one plan), `OrderInv` says that no attempt is ahead of its run
  and that the action has one attempt, `AttemptInv` what the locals of an attempt
  have earned and which of them the trail confirms, `RunInv` the same of the
  workflow function, `EffectInv` whose the one mutation was.
* `ControlLoopProofs`: `MutationGated`, `EvaluatorsAgree`,
  `BlastRadiusExclusive`, `ResultIsTrue` and the type invariant, for any number
  of concurrent calls and any requests, clusters and promotions. The two rule
  chains are first turned into chains of questions (`LocalRules`, `RegoRules`)
  and shown to agree on every request, level and moment (`ReasonsAgree`);
  `GateClears` puts claim, kill switch, answer and certification together. The
  invariant then says that a call is cleared before it acts and that its effects
  follow its phase (`LoopInv`), that a certification on file rests on a promotion
  that passed every check (`IssuedInv`), that a loop within its time has its lease
  and that two that acquired overlapping scopes raced (`LeaseInv`: pruning by an
  old moment drops only leases that ran out), and that what a loop looked at is
  there until somebody stirs it (`SceneInv`).
* `PRGuardianProofs`, publication: `PublishedIsRecorded`, `DuplicateNeedsOverrun`,
  `LeaseEndsByHolder` and the refinement of `DeliveryContract`
  (`OutboxKeepsContract`), for any workers, heads and events. A check run is
  created once because, until its lease is taken over, a delivery is in one
  worker's hands, and what it looked up is still so when it writes (`CallInv`).
* `PRGuardianProofs`, the pilot: `JoinedToItsHead`, `ValidPacketIsSound`,
  `FailureIsDeserved` and `PilotNeverBlocks`, for any pushes, runs, closures and
  edits. A record is joined to a comment, the comment was written from an
  artifact, and the artifact by some run, which jobs of other heads may have
  overtaken. The invariant follows the chain back: a head has one change
  (`HeadsAreChanges`), and whatever names a head says of it what a run of that
  head evaluated, or was made up by the workflow of a head that alters it
  (`ArtifactsAreTrue`, `CommentIsTrue`). An honest block therefore met its rule's
  condition whatever configuration it was evaluated under, and the publisher checks
  rule, threshold, date and kill switch again; of an altered one only these checks
  are left. The figures of a report are those of the records it names
  (`PacketsAreOfRecords`), so a packet that repeats the report's digests is about
  the same records, and all five requirements hold of them.
* `PRGuardianProofs`, the boundary: permits, single probe, threshold and
  cool-down for any number of threads. The invariant adds that no admission is
  newer than the breaker's generation (`AdmissionsAreOld`) and counts the calls in
  flight.
* `IngestionProofs`: `CatalogIsTruthful`, `NoStaleEvidence`, `EdgesAreBacked` and
  `LedgerIsTruthful`, in all three wirings. A projection is a list of calls made
  before the first of them is executed, and between two of them the stores
  contradict each other. The invariant therefore speaks of what is still to be
  called: `JobInv` says that the calls come in the order of the code, that each
  fits the change it is made for, and what the calls made so far have left
  (`BeforeJournal`, `AfterJournal`): an edge that loses evidence is superseded
  before the evidence is retired, and the journal is written when what it will name
  is there and what it named is gone. `StoresInv` is what then holds
  outside: the entry of the journal is materialised unless a change with another
  revision or access list was begun (`JournalInv`), and evidence the journal does
  not name has such a change (`StaleInv`). `EventsInv` says that one id is one
  event and that every change comes from one, `LedgerInv` that the unfinished
  changes of the event at work are those it has still to make. For the ledger a
  second invariant (`OwedInv`) says of an event of several documents that what it
  owes is ahead of it in the queue of the job, or in the call that ends the change
  at work: an event that stops between two documents therefore owes the second,
  and one that is completed owes nothing. The proof is why a
  mark of a reconciliation has its access list: a manifest whose access list
  returns to the journal's is skipped as a duplicate (`memory.py:628`), although a
  projection in between may have left the evidence with another one; without the
  list the second would count as the completion of the first.
* `KnowledgeProofs`: `OutcomeIsEarned`, `ProposalIsBacked`, `QualifiedIsWhole`.
  For maintenance the invariant places every observed revision in the history of
  its source (`ObservationsAreTrue`), so that a later edit back does not undo what
  was seen. For corrections it says that a packet without omissions has every
  claim and every piece of evidence of its context (`PacketTells`); the loop that
  takes claims is a recursive function, and what it took is proved from its least
  counterexample. For the context, a qualified one has no edge at its radius that
  is unusable, so the radius is closed under all edges read (`Whole`), also those
  of a walk over more edges; entities and evidence were read before the edges, and
  an edge that was there throughout is among them. Of the store only this is
  needed: its edges are among those sources claim (`StoreInv`).

Assumptions are the named ASSUMEs of the modules: constants have their types, a
record put by a caller has a status and a scope, limits are positive, documents
are finitely many and commits numbered from 1, `Nothing` is none of the records it
stands for the absence of, time moves forward. Those that say more:
`JobQueueConstants` asks for a positive lease (the default is
60 s, `orchestration/jobs.py:84`); with none a claim is expired when it is made.
`PolicyConstants` has what `remediation/catalog.py` guarantees: a runbook
requires at least L3 and declares preconditions.
`ControlLoopConstants` says that a caller that reads its certification from the
file has none of its own to present, without which `MutationGated` would call a
certification earned that nobody filed, and which arguments `simulate` leaves at
their defaults. `OwnersOwn` has what `company_brain/projector.py` guarantees, that
only owners own, and `ClaimsAreEdges` that the order in which a packet lists edges
is one of all that sources may claim. `TtlsAreAllowed` is the check of
`evidence_receipts.py:31`.

TLC also finds each inductive invariant, or the parts of it that are not types,
to hold in every state of its run's instance.

Only model-checked:

* liveness under fairness (`RunCloses`, `CircuitCloses`,
  `EveryDeliveryCompletes`), which is beyond the prover;
* the type invariants of `JobQueue`, `SelfHealing` and `PRPublication` as they
  are stated: the moment a failed job or delivery is due again is a sum with a
  power of two, of which the provers know nothing. The proofs use types that
  leave that moment open (`DueTimes`). `KnowledgeGovernance`, `ShadowPilot` and
  `Ingestion` have their types as parts of the invariants above;
* what does not hold: `ReconcileConverges` and the six properties of section 5
  that are checked by hand.

## 5. Differences worth knowing

A document says one thing and the code does another:

* **A run that times out** (`MCRemediationClosed.cfg`). The action has one
  attempt and `run` no handler around it; when the attempt times out the run
  fails and the record stays in `executing`.
  `architecture/authoritative-state.md:28-29`: "A timeout must be represented by
  a named lifecycle event".
* **A job that runs twice** (`SingleUseJob`). A worker that dies or
  overruns its lease between the control loop and `complete` is followed by one
  that executes the job again. `product/self_healing_service.py:57-59`: "binds the
  verified approval to a durable, single-use job". `ExecutedOnce` states what does
  hold.
* **An older plan** (`ExecutedPlanWasApproved`). The approval is verified against
  the stored record and the job is built from the plan the caller prepared
  earlier. `architecture/design.md:226-228`: "If the plan changes, the hash changes
  and every prior approval is invalid". `ExecutionFollowsApproval` confines it to a
  plan that was replaced while its request waited.
* **A block its own workflow reports** (`MCShadowPilotForged.cfg`). `publishable_conclusion`
  checks the reported rule and score against the default branch
  (`product/pr_guardian/enforcement.py:239-247`) and not the rule's condition, so a
  reported block with a score at the threshold fails a change no rule is about.
  `docs/PR-GUARDIAN-REPOSITORY-CONFIG.md:174-178`: "a forged `would_block: true`
  [...] degrade to `neutral`". The failure is one a pull request that alters the
  delivery workflows brings on itself; `FailureIsDeserved` states the rest.
* **Content that returns** (`IngestionCheckout.cfg`). The event id of a checkout leaves
  the commit out (`ingestion/runner.py:127-147`), so a file that is changed and
  changed back is a duplicate of its first ingestion and the index keeps what was
  in between. `ingestion/runner.py:17-19`: "a later commit re-ingests only the files
  whose content actually changed".
* **A reconciliation that does not converge** (`reconcile_convergence`). One push
  adds a document, a later push deletes it; the worker writes the index for the
  first event and dies before the catalog. `reconcile` looks for surplus documents
  only among the catalog's active records (`ingestion/reconciliation.py:57`), so the
  deleted document stays in the index, although the file begins "Source-manifest
  reconciliation for repairing webhook and index drift."
* **A redelivered webhook** (`MCPRRedelivery.cfg`). The summary of a review holds
  the current time (`product/pr_guardian_shadow.py:203`), the artifact id and the
  idempotency key are digests of it (`product/pr_guardian/publication.py:166-196,
  274-298`), so the same delivery of GitHub is shown as a second check run.
  `architecture/adr/004-*.md:45-46`: "GitHub checks use stable external IDs for
  retry upsert".
* The Cosmos store has no counterpart of the SQLite constraint
  `UNIQUE(event_id)`, for which `architecture/authoritative-state.md:40-41` asks.
  `StateStore` has it as the constant `UniqueEventIds`.
* `resilience/certification.py:172` says that every kind of exercise must have
  succeeded; the code asks for seven passes that include five kinds. Nor does
  `_attests` read the result of an evidence record: one whose review failed
  attests its controls.

Behaviour the models contain and no property forbids, in remediation:

* `prepare` overwrites any stored record, also a terminal one.
* `fail` counts attempts only when a handler raises; a job whose workers only
  die is claimed again for ever. `complete` and `fail` do not name a lease.
* A half-open probe that ends in something that is no `Exception` keeps the
  slot: every later call is refused.
* An aborted canary is reported as `rolled_back`, also when its rollback raised
  or the runbook names none. With the Kubernetes adapter it is always aborted:
  no `.canary` action exists, so nothing is ever changed.
* Preconditions are checked before the lease is asked for. Two loops that
  undo the same release both pass, one after the other: the second brings the bad
  release back, and its preconditions (degraded, with history) still hold.
* `aks.rollout.redo` always raises, so an unverified undo escalates. The rollback
  of a memory profile goes to what an annotation names, which `execute` does not
  write.
* A rehearsal is refused where OPA is required (`simulate` passes no evaluator)
  and at L4 (no certification). Of the catalog's runbooks only the restarts can
  succeed on a clone: it has one revision and none of the annotations. A sandbox
  whose deletion fails, or whose process dies, stays.
* `acquire` of the lock manager is not synchronised, and a lease is judged by
  the moment its loop started. `BlastRadiusExclusive` states what is left. Nor is
  `release`: a lease that ran out and is pruned between its test and its deletion
  raises a KeyError out of a call that has changed production
  (`remediation/concurrency_lock.py:95-99`).
* The expiry of a certification is judged by the moment its loop started too, so
  one that runs out during the call is still used.
* The local evaluator reads an expiry without an offset as UTC; the bundle
  refuses it. The durable workflow passes no certification to the control loop,
  so an L4 policy is always refused there.

In PR Guardian, ingestion and Company Brain:

* A waiver granted after the evaluation is not seen at publication.
* Events that arrive in the wrong order can leave a document that is tombstoned
  in Company Brain and active in the source; reconciliation then raises
  "tombstoned records cannot be silently recreated", and so does every later
  attempt to add it. The same happens when a service's last file is deleted and
  added again.
* A stale event delivered under another id overwrites the index before Company
  Brain refuses it, and reconciliation reports the document unchanged.
* A path deleted and added in one Azure DevOps event has one event id for both
  changes; the journal of Company Brain refuses the second as a conflict
  (`company_brain/memory.py:464`), so the event fails however often it is tried.
* A death inside a projection followed by the next commit leaves evidence and
  edges nobody retires; one inside a deletion, followed by an upsert of the same
  revision, takes the fingerprint's fast path and leaves the edges deleted.
* The world model answers from list calls that a projection may interleave with,
  where `store.snapshot` raises. The version of a context leaves revisions out.
* The lifetime of a receipt counts from its issue, not from the read. A reviewer
  may be the requester, contradictory reviews are both kept, and a submission
  retried at another time conflicts with itself.
* An accepted maintenance decision about an outdated revision may be verified by a
  change that is older than the review, if the source kept it until then.

## 6. Not modelled, and the plan

Abstracted everywhere: text, payloads, formats, telemetry, HTTP and SQL. Left
out of modelled parts: `put_service` (the compare-and-swap of `put_workflow` on
another table), the purge of retained Company Brain records, key rotation of
receipts, `record_outcome` of findings, the older `AutonomyCertification`, and
the process's death inside a rehearsal.

Not modelled at all: the content pipeline (chunking, embedding, ranking,
normalisation: functions of text), feedback labels and their evaluation
(append-only inserts and counting), level-two proposals, the remaining routes,
clients, scores, validators and offline scripts (one input, one report), and the
infrastructure definitions. None of them shares state between steps, so a model
would restate the code.

What is left to prove is liveness, when the prover can: `RunCloses`,
`CircuitCloses` and `EveryDeliveryCompletes` would rest on the invariants of
section 4. What is left to model, in the order of what it would show: the
ingestion and incident services of `control_plane/workflows.py`, which open and
close records as a review does; the purge of Company Brain records beside a legal
hold; and a second ingestion worker, which `ingestion/ledger.py` excludes.
