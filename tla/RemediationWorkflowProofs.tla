--------------------- MODULE RemediationWorkflowProofs ---------------------
(***************************************************************************)
(* Proofs about RemediationWorkflow, for any evidence, plans and signals,  *)
(* any retry budget of the steps and any number of runs and of attempts    *)
(* still executing: the audit trail follows the record, production is      *)
(* changed at most once per request and only for the approved plan, and a  *)
(* run that returned told the truth.                                       *)
(*                                                                         *)
(* The invariant has one part per question the argument asks.  StoreInv:   *)
(* receipts and trail are one history.  OrderInv: which attempts can still *)
(* be executing, given where the run is.  AttemptInv and RunInv: what an   *)
(* attempt or the run may hold in its locals.  EffectInv: how the adapter  *)
(* calls made so far relate to all of that.                                *)
(***************************************************************************)
EXTENDS RemediationWorkflow, SequenceTheorems, WellFoundedInduction, TLAPS

-----------------------------------------------------------------------------
(* The invariant *)

\* Receipts are numbered by the versions they produced and keyed by step; the
\* trail lists them in that order and lags the record by at most one.
StoreInv ==
    /\ \A r \in receipts :
        /\ r.event.idempotency_key = r.event.event_id
        /\ r.record.version = r.event.expected_version + 1
        /\ r.record.version <= record.version
        /\ r.record.status = r.event.to_status
    /\ \A r, s \in receipts : r.record.version = s.record.version => r = s
    /\ \A r, s \in receipts : r.event.event_id = s.event.event_id => r = s
    /\ record.version \in {Len(trail), Len(trail) + 1}
    /\ \A i \in DOMAIN trail : trail[i].record.version = i /\ trail[i] \in receipts

\* The plan of the request is the one its first recorded evidence leads to, and
\* nothing follows an outcome.
PlanInv ==
    \A r \in receipts :
        /\ r.event.plan_hash # NoHash =>
            /\ Len(trail) > 0
            /\ r.event.plan_hash = PlanFor[trail[1].event.body.evidence]
            /\ r.event.plan_hash = record.plan_hash
        /\ r.event.event_id = "outcome" =>
            /\ r.event.to_status = TerminalStatus(r.event.body.status)
            /\ r.record = record

\* The order in which a run passes through its activities.
Rank(pc) ==
    CASE pc = "collect"  -> 1
      [] pc = "plan"     -> 2
      [] pc = "awaiting" -> 3
      [] pc = "verify"   -> 4
      [] pc = "policy"   -> 5
      [] pc = "rehearse" -> 6
      [] pc = "execute"  -> 7
      [] pc = "record"   -> 8
      [] OTHER           -> 9

\* No attempt is ahead of its run, an attempt is known by its number, and the
\* action has one attempt, which is over once the outcome is being recorded.
OrderInv ==
    /\ \A a \in attempts :
        /\ a.run <= run.number
        /\ a.run = run.number => Rank(a.activity) <= Rank(run.pc)
        /\ a.run = run.number /\ a.activity = run.pc => a.number <= run.attempt
        /\ a.activity = "execute" => a.number = 1
        /\ a.activity = "execute" /\ run.locals.status # "none" =>
               a.run # run.number
    /\ run.pc = "execute" => run.attempt = 1
    /\ \A a, b \in attempts :
        /\ a.run = b.run /\ a.activity = b.activity /\ a.number = b.number => a = b
        /\ a.activity = "record" /\ b.activity = "execute" => a.run # b.run

\* What the locals have earned on the way to the action.
Planned(locals) ==
    /\ locals.evidence \in Evidence
    /\ locals.plan_hash = PlanFor[locals.evidence]
    /\ locals.plan_hash # NoHash

Chosen(locals) ==
    /\ Planned(locals)
    /\ locals.signal \in Signals
    /\ locals.signal.workflow_id = Workflow
    /\ locals.signal.plan_hash = locals.plan_hash

Approved(locals) == Chosen(locals) /\ locals.verified /\ locals.signal.genuine

Permitted(locals) == Approved(locals) /\ locals.allowed

Cleared(locals) == Permitted(locals) /\ locals.safe

\* The locals a run has when it reaches pc.
Ready(pc, locals) ==
    /\ pc = "collect" => locals.version = 0
    /\ pc \notin {"collect", "failed"} => locals.version > 0
    /\ locals.version = 0 => locals.status = "none"
    /\ locals.version > 0 =>
        /\ locals.evidence \in Evidence
        /\ locals.plan_hash \in {NoHash, PlanFor[locals.evidence]}
    /\ pc \in {"collect", "plan"} => locals.plan_hash = NoHash
    /\ pc = "awaiting" => Planned(locals)
    /\ pc = "verify" => Chosen(locals)
    /\ pc = "policy" => Approved(locals)
    /\ pc = "rehearse" => Permitted(locals)
    /\ pc = "execute" => Cleared(locals)
    /\ pc \in {"record", "done"} => locals.status # "none"
    /\ pc \notin {"record", "done", "failed"} => locals.status = "none"

\* An attempt that holds an event of one of these steps.
Holds(a, steps) == a.pc \in {"commit", "export"} /\ a.event.event_id \in steps

\* The action's attempt has not reached the adapter.
BeforeAction(a) ==
    /\ a.activity = "execute"
    /\ a.pc \in {"begin", "loop"} \/ Holds(a, {"executing"})

\* The locals of an attempt inside its activity.
Shape(a) ==
    /\ a.pc = "begin" => Ready(a.activity, a.locals)
    /\ a.activity = "collect" =>
        /\ a.locals.plan_hash = NoHash /\ a.locals.status = "none"
        /\ a.pc = "begin" \/ Holds(a, {"evidence"}) \/ a.pc = "return"
        /\ a.pc # "return" => a.locals.version = 0
        /\ a.pc # "begin" => a.locals.evidence \in Evidence
        /\ a.pc = "return" => a.locals.version > 0
    /\ a.activity # "collect" =>
        /\ a.locals.version > 0 /\ a.locals.evidence \in Evidence
        /\ a.locals.plan_hash \in {NoHash, PlanFor[a.locals.evidence]}
        /\ ~Holds(a, {"evidence"})
    /\ a.activity = "plan" =>
        /\ a.locals.status = "none"
        /\ a.pc = "begin" \/ Holds(a, {"planned", "awaiting-approval"})
                          \/ a.pc = "return"
    /\ a.activity = "verify" =>
        /\ Chosen(a.locals) /\ a.locals.status = "none"
        /\ a.pc \in {"begin", "return"}
        /\ a.pc = "return" /\ a.locals.verified => a.locals.signal.genuine
    /\ a.activity = "policy" =>
        /\ Approved(a.locals) /\ a.locals.status = "none"
        /\ a.pc \in {"begin", "return"}
    /\ a.activity = "rehearse" =>
        /\ Permitted(a.locals) /\ a.locals.status = "none"
        /\ a.pc \in {"begin", "return"}
    /\ a.activity = "execute" =>
        /\ Cleared(a.locals)
        /\ a.pc \in {"begin", "loop", "mutated", "return"}
               \/ Holds(a, {"executing", "verifying"})
        /\ a.locals.status = "none" <=> BeforeAction(a) \/ a.pc = "mutated"
    /\ a.activity = "record" =>
        /\ a.locals.status # "none"
        /\ a.pc \in {"begin", "return"} \/ Holds(a, {"outcome"})
    /\ a.pc \in {"loop", "mutated"} => a.activity = "execute"

\* The event an attempt holds is made of its locals.
Sent(a) ==
    a.pc \in {"commit", "export"} =>
        /\ a.event \in LifecycleEvent
        /\ a.event.idempotency_key = a.event.event_id
        /\ a.event.expected_version = a.locals.version
        /\ a.event.plan_hash = a.locals.plan_hash
        /\ a.event.body.run = a.run
        /\ a.event.body.status = a.locals.status
        /\ a.event.event_id = "evidence" =>
               a.event.body.evidence = a.locals.evidence
        /\ a.event.event_id = "outcome" =>
               a.event.to_status = TerminalStatus(a.locals.status)

\* Everything past the first version belongs to one run and one evidence.
Lineage(number, locals) ==
    /\ locals.version <= Len(trail)
    /\ locals.version > 0 =>
        /\ trail[1].event.body.run = number
        /\ trail[1].event.body.evidence = locals.evidence

\* The trail ends with the outcome the locals claim.
Told(locals) ==
    /\ locals.version \in DOMAIN trail
    /\ trail[locals.version].event.event_id = "outcome"
    /\ trail[locals.version].event.body.status = locals.status

\* The transition to `executing' is in the trail, for this plan.
Announced(locals) ==
    \E j \in DOMAIN trail :
        /\ trail[j].event.event_id = "executing"
        /\ trail[j].event.plan_hash = locals.plan_hash

Traced(a) ==
    /\ Lineage(a.run, a.locals)
    /\ a.pc = "export" => [event |-> a.event, record |-> a.record] \in receipts
    /\ a.pc = "loop" => Announced(a.locals)
    /\ a.activity = "record" /\ a.pc = "return" => Told(a.locals)

\* A status claims what happened to production.
Claims(locals) ==
    /\ locals.status = "succeeded" => Len(mutations) = 1 /\ rollbacks = 0
    /\ locals.status = "rolled_back" => Len(mutations) = 1 /\ rollbacks = 1

Effect(a) ==
    /\ Claims(a.locals)
    /\ BeforeAction(a) => mutations = <<>> /\ rollbacks = 0
    /\ a.pc = "mutated" => Len(mutations) = 1 /\ rollbacks = 0

AttemptInv == \A a \in attempts : Shape(a) /\ Sent(a) /\ Traced(a) /\ Effect(a)

RunInv ==
    /\ Ready(run.pc, run.locals)
    /\ Lineage(run.number, run.locals)
    /\ run.pc = "done" => Told(run.locals)
    /\ Claims(run.locals)

\* The one mutation was cleared, announced, and made by the run that owns the
\* trail, at its action or after it.
EffectInv ==
    /\ Len(mutations) <= 1
    /\ rollbacks # 0 => mutations # <<>>
    /\ \A i \in DOMAIN mutations :
        /\ Cleared(mutations[i].locals)
        /\ Announced(mutations[i].locals)
        /\ Len(trail) > 0
        /\ trail[1].event.body.run = mutations[i].run
        /\ mutations[i].run <= run.number
        /\ mutations[i].run = run.number => Rank(run.pc) >= 7

Inv ==
    /\ TypeOK /\ StoreInv /\ PlanInv /\ OrderInv /\ AttemptInv /\ RunInv
    /\ EffectInv

-----------------------------------------------------------------------------
(* What the operators return *)

\* A type-correct state is made of these pieces.
LEMMA Types ==
    ASSUME TypeOK
    PROVE  /\ record \in WorkflowRecord
           /\ Len(trail) \in Nat /\ DOMAIN trail = 1..Len(trail)
           /\ \A i \in DOMAIN trail : trail[i] \in AuditEvent
           /\ run.number \in 1..MaxRuns /\ run.attempt \in Nat
           /\ run.locals \in Locals
           /\ run.pc \in Activities \union Closed \union {"awaiting"}
           /\ Len(mutations) \in Nat /\ DOMAIN mutations = 1..Len(mutations)
           /\ \A i \in DOMAIN mutations : mutations[i] \in Mutation
    BY RemediationConstants, ElementOfSeq, LenProperties
    DEF TypeOK, record, Run

\* The event of a step is made of the attempt's locals.
LEMMA EventOf ==
    ASSUME NEW a \in Attempt, NEW step \in Steps, NEW to \in WorkflowStatus
    PROVE  LET e == Event(a, step, a.locals.from_status, a.locals.version, to)
           IN  /\ e \in LifecycleEvent
               /\ e.event_id = step /\ e.idempotency_key = step
               /\ e.to_status = to
               /\ e.expected_version = a.locals.version
               /\ e.plan_hash = a.locals.plan_hash
               /\ e.body.run = a.run
               /\ e.body.status = a.locals.status
               /\ step = "evidence" => e.body.evidence = a.locals.evidence
<1> DEFINE e == Event(a, step, a.locals.from_status, a.locals.version, to)
           body == [run |-> a.run,
                    evidence |-> IF step = "evidence" THEN a.locals.evidence
                                 ELSE NoEvidence,
                    status |-> a.locals.status]
<1>1. a.locals \in Locals /\ a.run \in 1..MaxRuns
    BY DEF Attempt
<1>2. /\ body \in Body /\ body.run = a.run /\ body.status = a.locals.status
      /\ step = "evidence" => body.evidence = a.locals.evidence
    BY <1>1 DEF Body, Locals
<1>3. e = [event_id |-> step, idempotency_key |-> step, workflow_id |-> Workflow,
           from_status |-> a.locals.from_status, to_status |-> to,
           expected_version |-> a.locals.version,
           plan_hash |-> a.locals.plan_hash, scope |-> Scope, body |-> body]
    BY DEF Event
<1> HIDE DEF e, body
<1> QED
    BY <1>1, <1>2, <1>3 DEF LifecycleEvent, Locals, e

\* _advance turns an attempt into one that holds its event, and nothing else.
LEMMA AdvanceOf ==
    ASSUME NEW a \in Attempt, NEW step, step \in Steps,
           NEW to, to \in WorkflowStatus,
           step = "outcome" => to = TerminalStatus(a.locals.status),
           NEW b, b = Advance(a, step, to)
    PROVE  /\ b \in Attempt
           /\ b.run = a.run /\ b.activity = a.activity /\ b.number = a.number
           /\ b.locals = a.locals /\ b.pc = "commit"
           /\ b.event.event_id = step
           /\ Sent(b)
<1> DEFINE e == Event(a, step, a.locals.from_status, a.locals.version, to)
<1>1. /\ e \in LifecycleEvent
      /\ e.event_id = step /\ e.idempotency_key = step
      /\ e.to_status = to
      /\ e.expected_version = a.locals.version
      /\ e.plan_hash = a.locals.plan_hash
      /\ e.body.run = a.run
      /\ e.body.status = a.locals.status
      /\ step = "evidence" => e.body.evidence = a.locals.evidence
    BY EventOf
<1>2. b = [a EXCEPT !.pc = "commit", !.event = e]
    BY DEF Advance
<1> HIDE DEF e
<1>3. /\ b \in Attempt
      /\ b.run = a.run /\ b.activity = a.activity /\ b.number = a.number
      /\ b.locals = a.locals /\ b.pc = "commit" /\ b.event = e
    BY <1>1, <1>2 DEF Attempt
<1> QED
    BY <1>1, <1>3 DEF Sent

\* The steps and the statuses they lead to.
LEMMA StepNames ==
    /\ "evidence" \in Steps /\ "received" \in WorkflowStatus
    /\ "planned" \in Steps /\ "planned" \in WorkflowStatus
    /\ "awaiting-approval" \in Steps /\ "waiting_approval" \in WorkflowStatus
    /\ "executing" \in Steps /\ "executing" \in WorkflowStatus
    /\ "verifying" \in Steps /\ "verifying" \in WorkflowStatus
    /\ "outcome" \in Steps
    BY DEF Steps, WorkflowStatus

\* The fields of a new attempt.
LEMMA NewAttemptOf ==
    ASSUME NEW number \in 1..MaxRuns, NEW activity \in Activities,
           NEW attempt \in Nat \ {0}, NEW locals \in Locals
    PROVE  LET b == NewAttempt(number, activity, attempt, locals)
           IN  /\ b \in Attempt
               /\ b.run = number /\ b.activity = activity /\ b.number = attempt
               /\ b.pc = "begin" /\ b.locals = locals
    BY LifecycleConstants
    DEF NewAttempt, Attempt, NoRecord, WorkflowRecord, Statuses

\* A fresh run starts from nothing.
LEMMA NewLocalsOf ==
    /\ NewLocals \in Locals
    /\ Ready("collect", NewLocals)
    /\ NewLocals.version = 0 /\ NewLocals.status = "none"
    BY DEF NewLocals, Locals, Ready, Statuses, ActionStatus

\* The status an action ends with names a terminal status of the record.
LEMMA TerminalStatusType ==
    ASSUME NEW status \in ActionStatus
    PROVE  /\ TerminalStatus(status) \in Terminal
           /\ TerminalStatus(status) \in WorkflowStatus
           /\ TerminalStatus(status) = "succeeded" <=> status = "succeeded"
           /\ TerminalStatus(status) = "rolled_back" <=> status = "rolled_back"
    BY DEF TerminalStatus, ActionStatus, Terminal, WorkflowStatus

-----------------------------------------------------------------------------
(* Which attempts can be executing *)

\* The run stays where it is and an attempt takes a step of its own.
LEMMA OrderContinue ==
    ASSUME TypeOK, OrderInv, NEW a \in attempts, NEW b,
           b.run = a.run, b.activity = a.activity, b.number = a.number,
           attempts' = (attempts \ {a}) \union {b}, run' = run
    PROVE  OrderInv'
<1>1. \A c \in attempts' :
        \E d \in attempts : /\ c.run = d.run /\ c.activity = d.activity
                            /\ c.number = d.number
                            /\ c = d \/ (c = b /\ d = a)
    OBVIOUS
<1>2. \A c, d \in attempts :
        /\ c.run = d.run /\ c.activity = d.activity /\ c.number = d.number => c = d
        /\ c.activity = "record" /\ d.activity = "execute" => c.run # d.run
    BY DEF OrderInv
<1>3. \A c, d \in attempts' :
        /\ c.run = d.run /\ c.activity = d.activity /\ c.number = d.number => c = d
        /\ c.activity = "record" /\ d.activity = "execute" => c.run # d.run
  <2> SUFFICES ASSUME NEW c \in attempts', NEW d \in attempts'
               PROVE  /\ /\ c.run = d.run /\ c.activity = d.activity
                         /\ c.number = d.number
                         => c = d
                      /\ /\ c.activity = "record" /\ d.activity = "execute"
                         => c.run # d.run
    OBVIOUS
  <2>1. PICK c1 \in attempts : /\ c.run = c1.run /\ c.activity = c1.activity
                               /\ c.number = c1.number
                               /\ c = c1 \/ (c = b /\ c1 = a)
    BY <1>1
  <2>2. PICK d1 \in attempts : /\ d.run = d1.run /\ d.activity = d1.activity
                               /\ d.number = d1.number
                               /\ d = d1 \/ (d = b /\ d1 = a)
    BY <1>1
  <2> QED
    BY <1>2, <2>1, <2>2
<1>4. \A c \in attempts :
        /\ c.run <= run.number
        /\ c.run = run.number => Rank(c.activity) <= Rank(run.pc)
        /\ c.run = run.number /\ c.activity = run.pc => c.number <= run.attempt
        /\ c.activity = "execute" => c.number = 1
        /\ c.activity = "execute" /\ run.locals.status # "none" =>
               c.run # run.number
    BY DEF OrderInv
<1>5. run.pc = "execute" => run.attempt = 1
    BY DEF OrderInv
<1> HIDE DEF Rank
<1>6. \A c \in attempts' :
        /\ c.run <= run'.number
        /\ c.run = run'.number => Rank(c.activity) <= Rank(run'.pc)
        /\ c.run = run'.number /\ c.activity = run'.pc => c.number <= run'.attempt
        /\ c.activity = "execute" => c.number = 1
        /\ c.activity = "execute" /\ run'.locals.status # "none" =>
               c.run # run'.number
    BY <1>1, <1>4
<1> QED
    BY <1>3, <1>5, <1>6 DEF OrderInv

\* The run goes on, in place or to a later activity, and attempts end.
LEMMA OrderMove ==
    ASSUME TypeOK, TypeOK', OrderInv, attempts' \subseteq attempts,
           run'.number = run.number,
           Rank(run.pc) <= Rank(run'.pc),
           run'.pc = run.pc => run.attempt <= run'.attempt,
           run'.pc # run.pc => \A c \in attempts' :
                c.run = run.number => c.activity # run'.pc,
           run'.pc = "execute" => run'.attempt = 1,
           run'.locals.status # "none" => \A c \in attempts' :
                c.activity = "execute" => c.run # run.number
    PROVE  OrderInv'
<1>1. /\ run.attempt \in Nat /\ run'.attempt \in Nat
      /\ \A c \in attempts : c.number \in Nat
    BY Types DEF TypeOK, Run, Attempt
<1>2. \A pc : Rank(pc) \in Nat
    BY DEF Rank
<1> HIDE DEF Rank
<1>3. \A c \in attempts' :
        /\ c.run <= run'.number
        /\ c.run = run'.number => Rank(c.activity) <= Rank(run'.pc)
        /\ c.run = run'.number /\ c.activity = run'.pc => c.number <= run'.attempt
        /\ c.activity = "execute" => c.number = 1
        /\ c.activity = "execute" /\ run'.locals.status # "none" =>
               c.run # run'.number
    BY <1>1, <1>2 DEF OrderInv
<1>4. \A c, d \in attempts' :
        /\ c.run = d.run /\ c.activity = d.activity /\ c.number = d.number => c = d
        /\ c.activity = "record" /\ d.activity = "execute" => c.run # d.run
    BY DEF OrderInv
<1> QED
    BY <1>3, <1>4 DEF OrderInv

\* Attempts are known by their numbers; none records while another acts.
Distinct(S) ==
    \A c, d \in S :
        /\ c.run = d.run /\ c.activity = d.activity /\ c.number = d.number => c = d
        /\ c.activity = "record" /\ d.activity = "execute" => c.run # d.run

\* Every attempt of S is behind the one the run starts now.
Behind(S) ==
    \A c \in S :
        /\ c.run \in Nat /\ c.number \in Nat
        /\ c.run <= run'.number
        /\ c.run = run'.number => Rank(c.activity) <= Rank(run'.pc)
        /\ c.run = run'.number /\ c.activity = run'.pc => c.number < run'.attempt
        /\ c.activity = "execute" => c.number = 1
        /\ c.activity = "execute" /\ run'.locals.status # "none" =>
               c.run # run'.number
        /\ run'.pc = "record" /\ c.activity = "execute" => c.run # run'.number

\* Adding the attempt the run has come to wait for.
LEMMA OrderStart ==
    ASSUME NEW S, NEW b, attempts' = S \union {b}, Behind(S), Distinct(S),
           b.run = run'.number, b.activity = run'.pc, b.number = run'.attempt,
           run'.number \in Nat, run'.attempt \in Nat,
           run'.pc = "execute" => run'.attempt = 1 /\ run'.locals.status = "none"
    PROVE  OrderInv'
<1>1. \A pc : Rank(pc) \in Nat
    BY DEF Rank
<1>2. Rank("execute") = 7 /\ Rank("record") = 8
    BY DEF Rank
<1> HIDE DEF Rank
<1>3. \A c \in attempts' :
        /\ c.run <= run'.number
        /\ c.run = run'.number => Rank(c.activity) <= Rank(run'.pc)
        /\ c.run = run'.number /\ c.activity = run'.pc => c.number <= run'.attempt
        /\ c.activity = "execute" => c.number = 1
        /\ c.activity = "execute" /\ run'.locals.status # "none" =>
               c.run # run'.number
    BY <1>1 DEF Behind
<1>4. \A c, d \in attempts' :
        /\ c.run = d.run /\ c.activity = d.activity /\ c.number = d.number => c = d
        /\ c.activity = "record" /\ d.activity = "execute" => c.run # d.run
    BY <1>1, <1>2 DEF Behind, Distinct
<1> QED
    BY <1>3, <1>4 DEF OrderInv

-----------------------------------------------------------------------------
(* What stays true while the store and the trail grow *)

\* Receipts are never removed and the trail is append-only.
Grows ==
    /\ receipts \subseteq receipts'
    /\ Len(trail) <= Len(trail')
    /\ \A i \in DOMAIN trail : i \in DOMAIN trail' /\ trail'[i] = trail[i]

\* The lineage of an attempt or a run survives.
LEMMA LineageStable ==
    ASSUME TypeOK, TypeOK', Grows, NEW number, NEW locals \in Locals,
           Lineage(number, locals)
    PROVE  Lineage(number, locals)'
<1>1. Len(trail) \in Nat /\ DOMAIN trail = 1..Len(trail) /\ Len(trail') \in Nat
    BY Types, LenProperties DEF TypeOK
<1>2. locals.version \in Nat
    BY DEF Locals
<1>3. ASSUME locals.version > 0
      PROVE  trail'[1] = trail[1]
  <2>1. 1 \in DOMAIN trail
    BY <1>1, <1>2, <1>3 DEF Lineage
  <2> QED
    BY <2>1 DEF Grows
<1>4. locals.version <= Len(trail')
    BY <1>1, <1>2 DEF Lineage, Grows
<1> QED
    BY <1>3, <1>4 DEF Lineage

\* So does everything an attempt has to show in receipts and trail.
LEMMA TracedStable ==
    ASSUME TypeOK, TypeOK', Grows, NEW a \in Attempt, Traced(a)
    PROVE  Traced(a)'
<1>1. a.locals \in Locals
    BY DEF Attempt
<1>2. Lineage(a.run, a.locals)'
    BY <1>1, LineageStable DEF Traced
<1>3. a.pc = "loop" => Announced(a.locals)'
    BY DEF Traced, Announced, Grows
<1>4. a.activity = "record" /\ a.pc = "return" => Told(a.locals)'
    BY DEF Traced, Told, Grows
<1>5. a.pc = "export" => [event |-> a.event, record |-> a.record] \in receipts'
    BY DEF Traced, Grows
<1> QED
    BY <1>2, <1>3, <1>4, <1>5 DEF Traced

\* When no adapter call is made, the attempts that stay keep their facts.
LEMMA AttemptStable ==
    ASSUME TypeOK, TypeOK', Grows, NEW a \in Attempt,
           Shape(a), Sent(a), Traced(a), Effect(a),
           UNCHANGED <<mutations, rollbacks>>
    PROVE  Shape(a)' /\ Sent(a)' /\ Traced(a)' /\ Effect(a)'
<1>1. Traced(a)'
    BY TracedStable
<1>2. Shape(a)' /\ Sent(a)'
    BY DEF Shape, Sent, Ready, Holds, BeforeAction, Planned, Chosen, Approved,
           Permitted, Cleared
<1>3. Effect(a)'
    BY DEF Effect, Claims
<1> QED
    BY <1>1, <1>2, <1>3

\* The run, where it does not move.
LEMMA RunStable ==
    ASSUME TypeOK, TypeOK', Grows, RunInv, UNCHANGED <<run, mutations, rollbacks>>
    PROVE  RunInv'
<1>1. run.locals \in Locals
    BY Types
<1>2. PICK number, locals : number = run.number /\ locals = run.locals
    OBVIOUS
<1>3. Lineage(number, locals)'
    BY <1>1, <1>2, LineageStable DEF RunInv
<1>4. Lineage(run.number, run.locals)'
    BY <1>2, <1>3
<1>5. run'.pc = "done" => Told(run.locals)'
    BY DEF RunInv, Told, Grows
<1>6. Ready(run.pc, run.locals)' /\ Claims(run.locals)'
    BY DEF RunInv, Ready, Claims, Planned, Chosen, Approved, Permitted, Cleared
<1> QED
    BY <1>4, <1>5, <1>6 DEF RunInv

\* The mutations of the past, while the run does not go back.
LEMMA EffectStable ==
    ASSUME TypeOK, TypeOK', Grows, EffectInv, UNCHANGED <<mutations, rollbacks>>,
           run.number <= run'.number,
           run'.number = run.number => Rank(run.pc) <= Rank(run'.pc)
    PROVE  EffectInv'
<1>1. /\ Len(trail) \in Nat /\ Len(trail') \in Nat
      /\ DOMAIN trail = 1..Len(trail)
      /\ run.number \in Nat /\ run'.number \in Nat
      /\ \A i \in DOMAIN mutations : mutations[i].run \in Nat
    BY Types, LenProperties DEF TypeOK, Run, Mutation
<1>2. \A pc : Rank(pc) \in Nat
    BY DEF Rank
<1> HIDE DEF Rank
<1>3. ASSUME NEW i \in DOMAIN mutations
      PROVE  /\ Cleared(mutations[i].locals)
             /\ Announced(mutations[i].locals)'
             /\ Len(trail') > 0
             /\ trail'[1].event.body.run = mutations[i].run
             /\ mutations[i].run <= run'.number
             /\ mutations[i].run = run'.number => Rank(run'.pc) >= 7
  <2>1. /\ Cleared(mutations[i].locals)
        /\ Announced(mutations[i].locals)
        /\ Len(trail) > 0
        /\ trail[1].event.body.run = mutations[i].run
        /\ mutations[i].run <= run.number
        /\ mutations[i].run = run.number => Rank(run.pc) >= 7
    BY DEF EffectInv
  <2>2. Announced(mutations[i].locals)'
    BY <2>1 DEF Announced, Grows
  <2>3. Len(trail') > 0 /\ trail'[1] = trail[1]
    BY <1>1, <2>1 DEF Grows
  <2>4. mutations[i].run <= run'.number
    BY <1>1, <2>1
  <2>5. mutations[i].run = run'.number => Rank(run'.pc) >= 7
    BY <1>1, <1>2, <2>1
  <2> QED
    BY <2>1, <2>2, <2>3, <2>4, <2>5
<1>4. Len(mutations') <= 1 /\ (rollbacks' # 0 => mutations' # <<>>)
    BY DEF EffectInv
<1> QED
    BY <1>3, <1>4 DEF EffectInv, Cleared, Permitted, Approved, Chosen, Planned

-----------------------------------------------------------------------------
(* The ways attempts and run change *)

\* Nothing is written.
Quiet == UNCHANGED <<workflows, receipts, trail, mutations, rollbacks>>

\* A step that writes nothing durable keeps what the store and the trail say.
LEMMA QuietStep ==
    ASSUME TypeOK, StoreInv, PlanInv, UNCHANGED <<workflows, receipts, trail>>
    PROVE  StoreInv' /\ PlanInv' /\ Grows
<1>1. Len(trail) \in Nat
    BY Types
<1>2. StoreInv'
    BY DEF StoreInv, record
<1>3. PlanInv'
    BY DEF PlanInv, record
<1> QED
    BY <1>1, <1>2, <1>3 DEF Grows

\* An attempt takes a step; b is what becomes of it.
LEMMA ContinueStep ==
    ASSUME TypeOK, TypeOK', OrderInv, AttemptInv, RunInv, EffectInv, Grows,
           NEW a \in attempts, NEW b \in Attempt,
           b.run = a.run, b.activity = a.activity, b.number = a.number,
           Shape(b), Sent(b), Traced(b)', Effect(b),
           Continue(a, b), UNCHANGED <<mutations, rollbacks>>
    PROVE  OrderInv' /\ AttemptInv' /\ RunInv' /\ EffectInv'
<1>1. attempts' = (attempts \ {a}) \union {b} /\ run' = run
    BY DEF Continue
<1>2. OrderInv'
    BY <1>1, OrderContinue
<1>3. RunInv'
    BY <1>1, RunStable
<1>4. EffectInv'
  <2>1. run.number \in Nat /\ Rank(run.pc) \in Nat
    BY Types DEF Rank
  <2> HIDE DEF Rank
  <2>2. run.number <= run'.number /\ Rank(run.pc) <= Rank(run'.pc)
    BY <1>1, <2>1
  <2> QED
    BY <2>2, EffectStable
<1>5. ASSUME NEW c \in attempts'
      PROVE  Shape(c)' /\ Sent(c)' /\ Traced(c)' /\ Effect(c)'
  <2>1. CASE c \in attempts
    <3>1. c \in Attempt
        BY <2>1 DEF TypeOK
    <3>2. Shape(c) /\ Sent(c) /\ Traced(c) /\ Effect(c)
        BY <2>1 DEF AttemptInv
    <3> QED
        BY <3>1, <3>2, AttemptStable
  <2>2. CASE c = b
    <3>1. Shape(b)' /\ Sent(b)'
        BY DEF Shape, Sent, Ready, Holds, BeforeAction, Planned, Chosen, Approved,
               Permitted, Cleared
    <3>2. Effect(b)'
        BY DEF Effect, Claims
    <3> QED
        BY <2>2, <3>1, <3>2
  <2> QED
    BY <1>1, <2>1, <2>2
<1> QED
    BY <1>2, <1>3, <1>4, <1>5 DEF AttemptInv

\* An attempt that has not begun has what its run had.
LEMMA BeginShape ==
    ASSUME NEW b, b.pc = "begin", b.activity \in Activities,
           b.locals \in Locals, Ready(b.activity, b.locals)
    PROVE  Shape(b) /\ Sent(b)
    BY DEF Shape, Sent, Ready, Holds, BeforeAction, Activities, Locals, Planned,
           Chosen, Approved, Permitted, Cleared

\* Attempts end and the run stays, or closes or waits at a later pc.
LEMMA DropStep ==
    ASSUME TypeOK, TypeOK', OrderInv, AttemptInv, EffectInv, StoreInv, PlanInv,
           Quiet, attempts' \subseteq attempts, run'.number = run.number,
           Rank(run.pc) <= Rank(run'.pc),
           run'.pc = run.pc => run.attempt <= run'.attempt,
           run'.pc # run.pc => \A c \in attempts' :
                c.run = run.number => c.activity # run'.pc,
           run'.pc = "execute" => run'.attempt = 1,
           run'.locals.status # "none" => \A c \in attempts' :
                c.activity = "execute" => c.run # run.number,
           RunInv'
    PROVE  Inv'
<1>1. UNCHANGED <<workflows, receipts, trail>> /\ UNCHANGED <<mutations, rollbacks>>
    BY DEF Quiet
<1>2. StoreInv' /\ PlanInv' /\ Grows
    BY <1>1, QuietStep
<1>3. OrderInv'
    BY OrderMove
<1>4. ASSUME NEW c \in attempts'
      PROVE  Shape(c)' /\ Sent(c)' /\ Traced(c)' /\ Effect(c)'
  <2>1. c \in attempts /\ c \in Attempt
    BY DEF TypeOK
  <2>2. Shape(c) /\ Sent(c) /\ Traced(c) /\ Effect(c)
    BY <2>1 DEF AttemptInv
  <2> QED
    BY <1>1, <1>2, <2>1, <2>2, AttemptStable
<1>5. EffectInv'
  <2>1. run.number <= run'.number
    BY Types
  <2> QED
    BY <1>1, <1>2, <2>1, EffectStable
<1> QED
    BY <1>2, <1>3, <1>4, <1>5 DEF Inv, AttemptInv

\* The run gets a new attempt to wait for.
LEMMA StartStep ==
    ASSUME TypeOK, TypeOK', OrderInv', AttemptInv, StoreInv, PlanInv,
           EffectInv, Quiet, NEW S, S \subseteq attempts,
           NEW b \in Attempt, attempts' = S \union {b},
           b.pc = "begin", b.run = run'.number, b.activity = run'.pc,
           b.locals = run'.locals,
           Ready(run'.pc, run'.locals), Lineage(b.run, b.locals), Claims(b.locals),
           run'.pc = "execute" => mutations = <<>> /\ rollbacks = 0,
           run.number <= run'.number,
           run'.number = run.number => Rank(run.pc) <= Rank(run'.pc)
    PROVE  Inv'
<1>1. UNCHANGED <<workflows, receipts, trail>> /\ UNCHANGED <<mutations, rollbacks>>
    BY DEF Quiet
<1>2. StoreInv' /\ PlanInv' /\ Grows
    BY <1>1, QuietStep
<1>3. EffectInv'
    BY <1>1, <1>2, EffectStable
<1>4. b.activity \in Activities /\ b.locals \in Locals
    BY DEF Attempt
<1>5. Shape(b) /\ Sent(b)
    BY <1>4, BeginShape
<1>6. Traced(b)
    BY DEF Traced
<1>7. Effect(b)
    BY DEF Effect, BeforeAction, Holds
<1>8. ASSUME NEW c \in attempts'
      PROVE  Shape(c)' /\ Sent(c)' /\ Traced(c)' /\ Effect(c)'
  <2>1. c \in Attempt
    BY DEF TypeOK
  <2>2. Shape(c) /\ Sent(c) /\ Traced(c) /\ Effect(c)
    BY <1>5, <1>6, <1>7 DEF AttemptInv
  <2> QED
    BY <1>1, <1>2, <2>1, <2>2, AttemptStable
<1>9. RunInv'
  <2>1. Lineage(b.run, b.locals)'
    BY <1>1 DEF Lineage
  <2>2. Claims(b.locals)'
    BY <1>1 DEF Claims
  <2>3. Lineage(run.number, run.locals)' /\ Claims(run.locals)'
    BY <2>1, <2>2
  <2>4. run'.pc # "done"
    BY <1>4 DEF Activities
  <2>5. Ready(run.pc, run.locals)'
    BY DEF Ready, Planned, Chosen, Approved, Permitted, Cleared
  <2> QED
    BY <2>3, <2>4, <2>5 DEF RunInv
<1> QED
    BY <1>2, <1>3, <1>8, <1>9 DEF Inv, AttemptInv

\* The attempt the run waits for is lost: another one starts, or the run fails.
LEMMA RetryStep ==
    ASSUME Inv, NEW others, others \subseteq attempts, run.pc \in Activities,
           Retry(others), Quiet, pending' = pending
    PROVE  Inv'
<1>1. /\ TypeOK /\ StoreInv /\ PlanInv /\ OrderInv /\ AttemptInv /\ RunInv
      /\ EffectInv
    BY DEF Inv
<1>2. /\ run.number \in 1..MaxRuns /\ run.attempt \in Nat /\ run.locals \in Locals
      /\ run \in Run /\ MaxRuns \in Nat
    BY <1>1, Types, RemediationConstants DEF TypeOK
<1>3. \A pc : Rank(pc) \in Nat
    BY DEF Rank
<1>4. CASE run.attempt < MaxAttempts(run.pc)
  <2>1. PICK b : b = NewAttempt(run.number, run.pc, run.attempt + 1, run.locals)
    OBVIOUS
  <2>2. /\ run' = [run EXCEPT !.attempt = @ + 1]
        /\ attempts' = others \union {b}
    BY <1>4, <2>1 DEF Retry
  <2>3. /\ b \in Attempt /\ b.run = run.number /\ b.activity = run.pc
        /\ b.number = run.attempt + 1 /\ b.pc = "begin" /\ b.locals = run.locals
    <3>1. PICK next : next = run.attempt + 1
        OBVIOUS
    <3>2. next \in Nat \ {0}
        BY <1>2, <3>1
    <3>3. b = NewAttempt(run.number, run.pc, next, run.locals)
        BY <2>1, <3>1
    <3>4. /\ b \in Attempt /\ b.run = run.number /\ b.activity = run.pc
          /\ b.number = next /\ b.pc = "begin" /\ b.locals = run.locals
        BY <1>2, <3>2, <3>3, NewAttemptOf
    <3> QED
        BY <3>1, <3>4
  <2>4. /\ run' \in Run /\ run'.number = run.number /\ run'.pc = run.pc
        /\ run'.attempt = run.attempt + 1 /\ run'.locals = run.locals
    BY <1>2, <2>2 DEF Run
  <2>5. TypeOK'
    BY <1>1, <2>2, <2>3, <2>4 DEF TypeOK, Quiet
  <2>6. run.pc # "execute"
    BY <1>1, <1>4 DEF OrderInv, MaxAttempts, ActionAttempts
  <2>7. OrderInv'
    <3>1. \A c \in others :
              /\ c.run \in Nat /\ c.number \in Nat
              /\ c.run <= run'.number
              /\ c.run = run'.number => Rank(c.activity) <= Rank(run'.pc)
              /\ c.run = run'.number /\ c.activity = run'.pc =>
                     c.number <= run.attempt
              /\ c.activity = "execute" => c.number = 1
              /\ c.activity = "execute" /\ run'.locals.status # "none" =>
                     c.run # run'.number
        BY <1>1, <1>2, <2>4 DEF OrderInv, TypeOK, Attempt
    <3>2. \A c \in others :
            c.run = run'.number /\ c.activity = run'.pc => c.number < run'.attempt
        BY <1>2, <2>4, <3>1
    <3>3. run'.pc = "record" => run'.locals.status # "none"
        BY <1>1, <2>4 DEF RunInv, Ready
    <3>4. Distinct(others)
        BY <1>1 DEF OrderInv, Distinct
    <3>5. run'.number \in Nat /\ run'.attempt \in Nat
        BY <1>2, <2>4
    <3> HIDE DEF Rank
    <3>6. Behind(others)
        BY <3>1, <3>2, <3>3 DEF Behind
    <3>7. b.run = run'.number /\ b.activity = run'.pc /\ b.number = run'.attempt
        BY <2>3, <2>4
    <3>8. attempts' = others \union {b} /\ run'.pc # "execute"
        BY <2>2, <2>4, <2>6
    <3> QED
        BY <3>4, <3>5, <3>6, <3>7, <3>8, OrderStart
  <2>8. Ready(run'.pc, run'.locals)
    BY <1>1, <2>4 DEF RunInv
  <2>9. Lineage(b.run, b.locals) /\ Claims(b.locals)
    BY <1>1, <2>3 DEF RunInv
  <2>10. run.number <= run'.number /\ Rank(run.pc) <= Rank(run'.pc)
    BY <1>2, <1>3, <2>4
  <2> QED
    BY <1>1, <2>2, <2>3, <2>4, <2>5, <2>6, <2>7, <2>8, <2>9, <2>10, StartStep
<1>5. CASE ~(run.attempt < MaxAttempts(run.pc))
  <2>1. run' = [run EXCEPT !.pc = "failed"] /\ attempts' = others
    BY <1>5 DEF Retry
  <2>2. /\ run' \in Run /\ run'.number = run.number /\ run'.pc = "failed"
        /\ run'.locals = run.locals
    BY <1>2, <2>1 DEF Run, Closed
  <2>3. TypeOK'
    BY <1>1, <2>1, <2>2 DEF TypeOK, Quiet
  <2>4. Rank(run.pc) <= Rank(run'.pc) /\ run'.pc # run.pc
    BY <2>2 DEF Rank, Activities
  <2>5. \A c \in attempts' : c.activity # run'.pc
    BY <1>1, <2>1, <2>2 DEF TypeOK, Attempt, Activities
  <2>6. run'.locals.status # "none" => \A c \in attempts' :
            c.activity = "execute" => c.run # run.number
    BY <1>1, <2>1, <2>2 DEF OrderInv
  <2>7. RunInv'
    <3>1. Lineage(run.number, run.locals)'
        BY <1>1, <2>2 DEF Lineage, RunInv, Quiet
    <3>2. Claims(run.locals)'
        BY <1>1, <2>2 DEF Claims, RunInv, Quiet
    <3>3. Ready(run.pc, run.locals)'
        BY <1>1, <2>2 DEF Ready, RunInv
    <3> QED
        BY <2>2, <3>1, <3>2, <3>3 DEF RunInv
  <2> HIDE DEF Rank
  <2> QED
    BY <1>1, <2>1, <2>2, <2>3, <2>4, <2>5, <2>6, <2>7, DropStep
<1> QED
    BY <1>4, <1>5

\* An attempt that is not waited for disappears.
LEMMA DiscardStep ==
    ASSUME Inv, NEW a, attempts' = attempts \ {a}, run' = run, pending' = pending,
           Quiet
    PROVE  Inv'
<1>1. /\ TypeOK /\ StoreInv /\ PlanInv /\ OrderInv /\ AttemptInv /\ RunInv
      /\ EffectInv
    BY DEF Inv
<1>2. TypeOK'
    BY <1>1 DEF TypeOK, Quiet
<1>3. Grows /\ UNCHANGED <<run, mutations, rollbacks>>
    BY <1>1, QuietStep DEF Quiet
<1>4. RunInv'
    BY <1>1, <1>2, <1>3, RunStable
<1>5. Rank(run.pc) <= Rank(run'.pc) /\ run.attempt <= run'.attempt
  <2>1. Rank(run.pc) \in Nat /\ run.attempt \in Nat
    BY <1>1, Types DEF Rank
  <2> HIDE DEF Rank
  <2> QED
    BY <2>1
<1>6. run'.locals.status # "none" => \A c \in attempts' :
            c.activity = "execute" => c.run # run.number
    BY <1>1 DEF OrderInv
<1>7. run'.pc = "execute" => run'.attempt = 1
    BY <1>1 DEF OrderInv
<1> HIDE DEF Rank
<1> QED
    BY <1>1, <1>2, <1>4, <1>5, <1>6, <1>7, DropStep

\* An attempt raises.
LEMMA RaiseStep ==
    ASSUME Inv, NEW a \in attempts, Raise(a), Quiet
    PROVE  Inv'
<1>1. CASE Current(a)
  <2>1. run.pc \in Activities
    BY <1>1 DEF Current, Inv, TypeOK, Attempt
  <2>2. Retry(attempts \ {a}) /\ pending' = pending
    BY <1>1 DEF Raise
  <2> QED
    BY <2>1, <2>2, RetryStep
<1>2. CASE ~Current(a)
    BY <1>2, DiscardStep DEF Raise
<1> QED
    BY <1>1, <1>2

\* The run goes on to its next activity.
LEMMA ScheduleStep ==
    ASSUME Inv, NEW activity \in Activities, NEW locals \in Locals,
           NEW others, others \subseteq attempts,
           Schedule(activity, locals, others), Quiet,
           Rank(run.pc) < Rank(activity),
           Ready(activity, locals), Lineage(run.number, locals), Claims(locals),
           locals.status # "none" => \A c \in others :
                c.activity = "execute" => c.run # run.number,
           pending' \in Seq(Signals)
    PROVE  Inv'
<1>1. /\ TypeOK /\ StoreInv /\ PlanInv /\ OrderInv /\ AttemptInv /\ RunInv
      /\ EffectInv
    BY DEF Inv
<1>2. /\ run.number \in 1..MaxRuns /\ run.number \in Nat /\ run \in Run
    BY <1>1, Types, RemediationConstants DEF TypeOK
<1>3. \A pc : Rank(pc) \in Nat
    BY DEF Rank
<1>4. PICK b : b = NewAttempt(run.number, activity, 1, locals)
    OBVIOUS
<1>5. /\ run' = [run EXCEPT !.pc = activity, !.attempt = 1, !.locals = locals]
      /\ attempts' = others \union {b}
    BY <1>4 DEF Schedule
<1>6. /\ b \in Attempt /\ b.run = run.number /\ b.activity = activity
      /\ b.number = 1 /\ b.pc = "begin" /\ b.locals = locals
    BY <1>2, <1>4, NewAttemptOf
<1>7. /\ run' \in Run /\ run'.number = run.number /\ run'.pc = activity
      /\ run'.attempt = 1 /\ run'.locals = locals
    BY <1>2, <1>5 DEF Run
<1>8. TypeOK'
    BY <1>1, <1>5, <1>6, <1>7 DEF TypeOK, Quiet
<1>9. activity = "execute" => mutations = <<>> /\ rollbacks = 0
  <2>1. SUFFICES ASSUME activity = "execute", mutations # <<>> PROVE FALSE
    BY <1>1 DEF EffectInv
  <2>2. 1 \in DOMAIN mutations
    BY <1>1, <2>1, EmptySeq, Types, LenProperties DEF TypeOK
  <2>3. trail[1].event.body.run = mutations[1].run
    BY <1>1, <2>2 DEF EffectInv
  <2>4. trail[1].event.body.run = run.number
    BY <2>1 DEF Lineage, Ready
  <2>5. Rank(run.pc) >= 7
    BY <1>1, <2>2, <2>3, <2>4 DEF EffectInv
  <2>6. Rank(activity) = 7
    BY <2>1 DEF Rank
  <2> HIDE DEF Rank
  <2> QED
    BY <1>3, <2>5, <2>6
<1>10. OrderInv'
  <2>1. \A c \in others :
            /\ c.run \in Nat /\ c.number \in Nat
            /\ c.run <= run'.number
            /\ c.run = run'.number => Rank(c.activity) <= Rank(run.pc)
            /\ c.activity = "execute" => c.number = 1
    BY <1>1, <1>2, <1>7 DEF OrderInv, TypeOK, Attempt
  <2> HIDE DEF Rank
  <2>2. \A c \in others :
            /\ c.run = run'.number => Rank(c.activity) <= Rank(run'.pc)
            /\ c.run = run'.number => c.activity # run'.pc
    BY <1>3, <1>7, <2>1
  <2>3. activity = "record" => locals.status # "none"
    BY DEF Ready
  <2>4. activity = "execute" => locals.status = "none"
    BY DEF Ready
  <2>5. Distinct(others)
    BY <1>1 DEF OrderInv, Distinct
  <2>6. run'.number \in Nat /\ run'.attempt \in Nat
    BY <1>2, <1>7
  <2>7. Behind(others)
    BY <1>7, <2>1, <2>2, <2>3 DEF Behind
  <2>8. run'.pc = "execute" => run'.attempt = 1 /\ run'.locals.status = "none"
    BY <1>7, <2>4
  <2>9. b.run = run'.number /\ b.activity = run'.pc /\ b.number = run'.attempt
    BY <1>6, <1>7
  <2>10. attempts' = others \union {b}
    BY <1>5
  <2> QED
    BY <2>5, <2>6, <2>7, <2>8, <2>9, <2>10, OrderStart
<1>11. run.number <= run'.number /\ Rank(run.pc) <= Rank(run'.pc)
  <2> HIDE DEF Rank
  <2> QED
    BY <1>2, <1>3, <1>7
<1>12. Lineage(b.run, b.locals) /\ Claims(b.locals)
    BY <1>6
<1>13. Ready(run'.pc, run'.locals)
    BY <1>7
<1> HIDE DEF Rank
<1> QED
    BY <1>1, <1>5, <1>6, <1>7, <1>8, <1>9, <1>10, <1>11, <1>12, <1>13, StartStep

-----------------------------------------------------------------------------
(* The activities up to their first write *)

\* An attempt takes a step that writes nothing.
LEMMA QuietContinue ==
    ASSUME Inv, NEW a \in attempts, NEW b \in Attempt,
           b.run = a.run, b.activity = a.activity, b.number = a.number,
           Shape(b), Sent(b), Traced(b), Effect(b), Continue(a, b), Quiet
    PROVE  Inv'
<1>1. /\ TypeOK /\ StoreInv /\ PlanInv /\ OrderInv /\ AttemptInv /\ RunInv
      /\ EffectInv
    BY DEF Inv
<1>2. UNCHANGED <<workflows, receipts, trail>> /\ UNCHANGED <<mutations, rollbacks>>
    BY DEF Quiet
<1>3. TypeOK'
    BY <1>1, <1>2 DEF TypeOK, Continue
<1>4. StoreInv' /\ PlanInv' /\ Grows
    BY <1>1, <1>2, QuietStep
<1>5. Traced(b)'
    BY <1>1, <1>3, <1>4, TracedStable
<1>6. OrderInv' /\ AttemptInv' /\ RunInv' /\ EffectInv'
    BY <1>1, <1>2, <1>3, <1>4, <1>5, ContinueStep
<1> QED
    BY <1>3, <1>4, <1>6 DEF Inv

\* What an attempt of the invariant is known to be.
LEMMA AttemptFacts ==
    ASSUME Inv, NEW a \in attempts
    PROVE  /\ a \in Attempt /\ a.locals \in Locals
           /\ Shape(a) /\ Sent(a) /\ Traced(a) /\ Effect(a)
    BY DEF Inv, TypeOK, AttemptInv, Attempt

\* collect_evidence: the evidence read is new, nothing else is.
LEMMA CollectStep ==
    ASSUME Inv, NEW a \in attempts, a.pc = "begin", CollectEvidence(a), Quiet
    PROVE  Inv'
<1>1. /\ a \in Attempt /\ a.locals \in Locals
      /\ Shape(a) /\ Sent(a) /\ Traced(a) /\ Effect(a)
    BY AttemptFacts
<1>2. PICK evidence \in Evidence :
        Continue(a, Advance([a EXCEPT !.locals.evidence = evidence],
                            "evidence", "received"))
    BY DEF CollectEvidence
<1>3. PICK a1 : a1 = [a EXCEPT !.locals.evidence = evidence]
    OBVIOUS
<1>4. /\ a1 \in Attempt /\ a1.run = a.run /\ a1.activity = a.activity
      /\ a1.number = a.number /\ a1.locals.evidence = evidence
      /\ a1.locals.version = a.locals.version
      /\ a1.locals.plan_hash = a.locals.plan_hash
      /\ a1.locals.status = a.locals.status
    BY <1>1, <1>3 DEF Attempt, Locals
<1>5. PICK b : b = Advance(a1, "evidence", "received")
    OBVIOUS
<1>6. /\ b \in Attempt /\ b.run = a.run /\ b.activity = "collect"
      /\ b.number = a.number /\ b.locals = a1.locals /\ b.pc = "commit"
      /\ b.event.event_id = "evidence" /\ Sent(b)
    BY <1>4, <1>5, AdvanceOf, StepNames DEF CollectEvidence
<1>7. /\ b.locals.version = 0 /\ b.locals.plan_hash = NoHash
      /\ b.locals.status = "none"
    BY <1>1, <1>4, <1>6 DEF Shape, CollectEvidence
<1>8. Shape(b)
    BY <1>4, <1>6, <1>7 DEF Shape, Holds
<1>9. Traced(b)
    BY <1>1, <1>4, <1>6, <1>7 DEF Traced, Lineage
<1>10. Effect(b)
    BY <1>6, <1>7 DEF Effect, Claims, BeforeAction
<1>11. Continue(a, b) /\ b.activity = a.activity
    BY <1>2, <1>3, <1>5, <1>6 DEF CollectEvidence
<1> QED
    BY <1>6, <1>8, <1>9, <1>10, <1>11, QuietContinue

\* plan_remediation: the plan is the one the recorded evidence leads to.
LEMMA PlanStep ==
    ASSUME Inv, NEW a \in attempts, a.pc = "begin", PlanRemediation(a), Quiet
    PROVE  Inv'
<1>1. /\ a \in Attempt /\ a.locals \in Locals
      /\ Shape(a) /\ Sent(a) /\ Traced(a) /\ Effect(a)
    BY AttemptFacts
<1>2. a.activity = "plan"
    BY DEF PlanRemediation
<1>3. PICK plan_hash : plan_hash = PlanFor[a.locals.evidence]
    OBVIOUS
<1>4. /\ a.locals.evidence \in Evidence /\ a.locals.version > 0
      /\ a.locals.status = "none" /\ a.locals.plan_hash = NoHash
    BY <1>1, <1>2 DEF Shape, Ready
<1>5. CASE plan_hash = NoHash
  <2>1. PICK b : b = [a EXCEPT !.pc = "return"]
    OBVIOUS
  <2>2. /\ b \in Attempt /\ b.run = a.run /\ b.activity = a.activity
        /\ b.number = a.number /\ b.locals = a.locals /\ b.pc = "return"
    BY <1>1, <2>1 DEF Attempt
  <2>3. Shape(b) /\ Sent(b)
    BY <1>2, <1>4, <2>2 DEF Shape, Holds, Sent
  <2>4. Traced(b)
    BY <1>1, <1>2, <2>2 DEF Traced
  <2>5. Effect(b)
    BY <1>1, <1>2, <2>2 DEF Effect, BeforeAction
  <2>6. Continue(a, b)
    BY <1>3, <1>5, <2>1 DEF PlanRemediation
  <2> QED
    BY <2>2, <2>3, <2>4, <2>5, <2>6, QuietContinue
<1>6. CASE plan_hash # NoHash
  <2>1. PICK a1 : a1 = [a EXCEPT !.locals.plan_hash = plan_hash]
    OBVIOUS
  <2>2. plan_hash \in PlanHashes
    BY <1>3, <1>4, <1>6, RemediationConstants
  <2>3. /\ a1 \in Attempt /\ a1.run = a.run /\ a1.activity = a.activity
        /\ a1.number = a.number /\ a1.locals.evidence = a.locals.evidence
        /\ a1.locals.version = a.locals.version
        /\ a1.locals.plan_hash = plan_hash
        /\ a1.locals.status = a.locals.status
    BY <1>1, <2>1, <2>2 DEF Attempt, Locals
  <2>4. PICK b : b = Advance(a1, "planned", "planned")
    OBVIOUS
  <2>5. /\ b \in Attempt /\ b.run = a.run /\ b.activity = a.activity
        /\ b.number = a.number /\ b.locals = a1.locals /\ b.pc = "commit"
        /\ b.event.event_id = "planned" /\ Sent(b)
    BY <2>3, <2>4, AdvanceOf, StepNames
  <2>6. Shape(b)
    BY <1>2, <1>3, <1>4, <2>3, <2>5 DEF Shape, Holds
  <2>7. Traced(b)
    BY <1>1, <1>2, <2>3, <2>5 DEF Traced, Lineage
  <2>8. Effect(b)
    BY <1>2, <1>4, <2>3, <2>5 DEF Effect, Claims, BeforeAction
  <2>9. Continue(a, b)
    BY <1>3, <1>6, <2>1, <2>4 DEF PlanRemediation
  <2> QED
    BY <2>5, <2>6, <2>7, <2>8, <2>9, QuietContinue
<1> QED
    BY <1>5, <1>6

\* verify_approval, evaluate_policy and rehearse_in_twin set one verdict each.
LEMMA VerdictStep ==
    ASSUME Inv, NEW a \in attempts, a.pc = "begin", Quiet,
           VerifyApproval(a) \/ EvaluatePolicy(a) \/ RehearseInTwin(a)
    PROVE  Inv'
<1>1. /\ a \in Attempt /\ a.locals \in Locals
      /\ Shape(a) /\ Sent(a) /\ Traced(a) /\ Effect(a)
    BY AttemptFacts
<1>2. PICK b : /\ Continue(a, b)
               /\ \/ /\ a.activity = "verify"
                     /\ \E verified \in BOOLEAN :
                         /\ b = [a EXCEPT !.pc = "return", !.locals.verified = verified]
                         /\ verified => a.locals.signal.genuine
                  \/ /\ a.activity = "policy"
                     /\ \E allowed \in BOOLEAN :
                         b = [a EXCEPT !.pc = "return", !.locals.allowed = allowed]
                  \/ /\ a.activity = "rehearse"
                     /\ \E safe \in BOOLEAN :
                         b = [a EXCEPT !.pc = "return", !.locals.safe = safe]
  <2>1. CASE VerifyApproval(a)
    <3>1. PICK expired \in BOOLEAN :
            LET verified == /\ a.locals.signal.workflow_id = Workflow
                            /\ a.locals.signal.plan_hash = a.locals.plan_hash
                            /\ a.locals.signal.genuine
                            /\ ~expired
            IN  Continue(a, [a EXCEPT !.pc = "return",
                                      !.locals.verified = verified])
        BY <2>1 DEF VerifyApproval
    <3> DEFINE verified == /\ a.locals.signal.workflow_id = Workflow
                           /\ a.locals.signal.plan_hash = a.locals.plan_hash
                           /\ a.locals.signal.genuine
                           /\ ~expired
    <3>2. verified \in BOOLEAN /\ (verified => a.locals.signal.genuine)
        OBVIOUS
    <3>3. Continue(a, [a EXCEPT !.pc = "return", !.locals.verified = verified])
        BY <3>1
    <3> HIDE DEF verified
    <3> QED
        BY <2>1, <3>2, <3>3 DEF VerifyApproval
  <2>2. CASE EvaluatePolicy(a)
    BY <2>2 DEF EvaluatePolicy
  <2>3. CASE RehearseInTwin(a)
    BY <2>3, RemediationConstants DEF RehearseInTwin
  <2> QED
    BY <2>1, <2>2, <2>3
<1>3. /\ b \in Attempt /\ b.run = a.run /\ b.activity = a.activity
      /\ b.number = a.number /\ b.pc = "return"
      /\ b.locals.evidence = a.locals.evidence
      /\ b.locals.version = a.locals.version
      /\ b.locals.plan_hash = a.locals.plan_hash
      /\ b.locals.status = a.locals.status
      /\ b.locals.signal = a.locals.signal
      /\ a.activity = "verify" /\ b.locals.verified => b.locals.signal.genuine
      /\ a.activity # "verify" => b.locals.verified = a.locals.verified
      /\ a.activity = "rehearse" => b.locals.allowed = a.locals.allowed
  <2>1. CASE a.activity = "verify"
    <3>1. PICK v \in BOOLEAN :
            /\ b = [a EXCEPT !.pc = "return", !.locals.verified = v]
            /\ v => a.locals.signal.genuine
        BY <1>2, <2>1
    <3>2. PICK locals : locals = [a.locals EXCEPT !.verified = v]
        OBVIOUS
    <3>3. locals \in Locals
        BY <1>1, <3>2 DEF Locals
    <3>4. b = [a EXCEPT !.pc = "return", !.locals = locals]
        BY <3>1, <3>2
    <3>5. /\ b \in Attempt /\ b.run = a.run /\ b.activity = a.activity
          /\ b.number = a.number /\ b.pc = "return" /\ b.locals = locals
        BY <1>1, <3>3, <3>4 DEF Attempt
    <3> QED
        BY <1>1, <2>1, <3>1, <3>2, <3>5 DEF Locals
  <2>2. CASE a.activity = "policy"
    <3>1. PICK v \in BOOLEAN :
            /\ b = [a EXCEPT !.pc = "return", !.locals.allowed = v]
        BY <1>2, <2>2
    <3>2. PICK locals : locals = [a.locals EXCEPT !.allowed = v]
        OBVIOUS
    <3>3. locals \in Locals
        BY <1>1, <3>2 DEF Locals
    <3>4. b = [a EXCEPT !.pc = "return", !.locals = locals]
        BY <3>1, <3>2
    <3>5. /\ b \in Attempt /\ b.run = a.run /\ b.activity = a.activity
          /\ b.number = a.number /\ b.pc = "return" /\ b.locals = locals
        BY <1>1, <3>3, <3>4 DEF Attempt
    <3> QED
        BY <1>1, <2>2, <3>1, <3>2, <3>5 DEF Locals
  <2>3. CASE a.activity = "rehearse"
    <3>1. PICK v \in BOOLEAN :
            /\ b = [a EXCEPT !.pc = "return", !.locals.safe = v]
        BY <1>2, <2>3
    <3>2. PICK locals : locals = [a.locals EXCEPT !.safe = v]
        OBVIOUS
    <3>3. locals \in Locals
        BY <1>1, <3>2 DEF Locals
    <3>4. b = [a EXCEPT !.pc = "return", !.locals = locals]
        BY <3>1, <3>2
    <3>5. /\ b \in Attempt /\ b.run = a.run /\ b.activity = a.activity
          /\ b.number = a.number /\ b.pc = "return" /\ b.locals = locals
        BY <1>1, <3>3, <3>4 DEF Attempt
    <3> QED
        BY <1>1, <2>3, <3>1, <3>2, <3>5 DEF Locals
  <2> QED
    BY <1>2, <2>1, <2>2, <2>3
<1>4. a.activity \in {"verify", "policy", "rehearse"} /\ b.locals.status = "none"
    BY <1>1, <1>2, <1>3 DEF Shape
<1>5. Shape(b) /\ Sent(b)
    BY <1>1, <1>3, <1>4 DEF Shape, Holds, Sent, Ready, Planned, Chosen, Approved,
       Permitted
<1>6. Traced(b)
    BY <1>1, <1>3, <1>4 DEF Traced, Lineage
<1>7. Effect(b)
    BY <1>3, <1>4 DEF Effect, Claims, BeforeAction
<1> QED
    BY <1>2, <1>3, <1>5, <1>6, <1>7, QuietContinue

\* execute_action: the transition to `executing' comes before the action.
LEMMA ExecuteStep ==
    ASSUME Inv, NEW a \in attempts, a.pc = "begin", ExecuteAction(a), Quiet
    PROVE  Inv'
<1>1. /\ a \in Attempt /\ a.locals \in Locals
      /\ Shape(a) /\ Sent(a) /\ Traced(a) /\ Effect(a)
    BY AttemptFacts
<1>2. a.activity = "execute" /\ Cleared(a.locals)
    BY <1>1 DEF ExecuteAction, Shape
<1>3. PICK b : b = Advance(a, "executing", "executing")
    OBVIOUS
<1>4. Continue(a, b)
    BY <1>2, <1>3 DEF ExecuteAction, Cleared, Permitted, Approved
<1>5. /\ b \in Attempt /\ b.run = a.run /\ b.activity = a.activity
      /\ b.number = a.number /\ b.locals = a.locals /\ b.pc = "commit"
      /\ b.event.event_id = "executing" /\ Sent(b)
    BY <1>1, <1>3, AdvanceOf, StepNames
<1>6. Shape(b)
    BY <1>1, <1>2, <1>5 DEF Shape, Holds, BeforeAction
<1>7. Traced(b)
    BY <1>1, <1>2, <1>5 DEF Traced
<1>8. Effect(b)
    BY <1>1, <1>2, <1>5 DEF Effect, BeforeAction
<1> QED
    BY <1>4, <1>5, <1>6, <1>7, <1>8, QuietContinue

\* record_outcome: the terminal status is the one of the run's result.
LEMMA RecordStep ==
    ASSUME Inv, NEW a \in attempts, a.pc = "begin", RecordOutcome(a), Quiet
    PROVE  Inv'
<1>1. /\ a \in Attempt /\ a.locals \in Locals
      /\ Shape(a) /\ Sent(a) /\ Traced(a) /\ Effect(a)
    BY AttemptFacts
<1>2. PICK to : to = TerminalStatus(a.locals.status)
    OBVIOUS
<1>3. to \in WorkflowStatus
    BY <1>1, <1>2, TerminalStatusType DEF Locals
<1>4. PICK b : b = Advance(a, "outcome", to)
    OBVIOUS
<1>5. Continue(a, b) /\ a.activity = "record"
    BY <1>2, <1>4 DEF RecordOutcome
<1>6. /\ b \in Attempt /\ b.run = a.run /\ b.activity = a.activity
      /\ b.number = a.number /\ b.locals = a.locals /\ b.pc = "commit"
      /\ b.event.event_id = "outcome" /\ Sent(b)
    BY <1>1, <1>2, <1>3, <1>4, AdvanceOf, StepNames
<1>7. Shape(b)
    BY <1>1, <1>5, <1>6 DEF Shape, Holds
<1>8. Traced(b)
    BY <1>1, <1>5, <1>6 DEF Traced
<1>9. Effect(b)
    BY <1>1, <1>5, <1>6 DEF Effect, BeforeAction
<1> QED
    BY <1>5, <1>6, <1>7, <1>8, <1>9, QuietContinue

\* An attempt begins.
LEMMA BeginStep ==
    ASSUME Inv, NEW a \in attempts, Begin(a)
    PROVE  Inv'
<1>1. a.pc = "begin" /\ Quiet
    BY DEF Begin, Quiet
<1> QED
    BY <1>1, CollectStep, PlanStep, VerdictStep, ExecuteStep, RecordStep DEF Begin

-----------------------------------------------------------------------------
(* persist_workflow_lifecycle *)

\* A terminal status has no successor.
LEMMA TerminalIsFinal ==
    ASSUME NEW status \in Terminal
    PROVE  AllowedTransitions[status] = {}
    BY DEF AllowedTransitions, Terminal, Statuses, WorkflowStatus, NoStatus

\* What a commit does to the record and to the receipts.
LEMMA CommitFacts ==
    ASSUME TypeOK, NEW e \in LifecycleEvent, State!CommitTransition(e)
    PROVE  /\ record' \in WorkflowRecord
           /\ record'.status = e.to_status
           /\ record'.plan_hash = IF e.plan_hash # NoHash THEN e.plan_hash
                                  ELSE record.plan_hash
           /\ record'.version = record.version + 1
           /\ e.expected_version = record.version
           /\ workflows' \in [WorkflowIds -> WorkflowRecord]
           /\ receipts' = receipts \union {[event |-> e, record |-> record']}
           /\ \A r \in receipts : r.event.idempotency_key # e.idempotency_key
           /\ record.status \in Terminal => record.version = 0
<1>1. /\ e.workflow_id = Workflow /\ e.scope = Scope /\ Scope \in Scopes
      /\ Workflow \in WorkflowIds
      /\ e.to_status \in Statuses /\ e.expected_version \in Nat
      /\ e.plan_hash \in PlanHashes \union {NoHash}
    BY RemediationConstants DEF LifecycleEvent, Statuses
<1>2. record \in WorkflowRecord /\ workflows \in [WorkflowIds -> WorkflowRecord]
    BY Types DEF TypeOK
<1>3. PICK stored : stored = ApplyTo(e, record)
    OBVIOUS
<1>3a. /\ State!Validate(e) <=> Validate(e)
       /\ \A r : State!CanApply(e, r) <=> CanApply(e, r)
       /\ \A r, n : State!ExpectedHolds(r, n) <=> ExpectedHolds(r, n)
       /\ \A r : State!ApplyTo(e, r) = ApplyTo(e, r)
    BY DEF State!Validate, Validate, State!CanApply, CanApply,
           State!ExpectedHolds, ExpectedHolds, State!ApplyTo, ApplyTo,
           State!AllowedTransitions, AllowedTransitions, State!NoStatus,
           NoStatus, State!Statuses, Statuses, State!WorkflowStatus,
           WorkflowStatus, State!Terminal, Terminal
<1>4. /\ Validate(e) /\ State!ReceiptsFor(e) = {}
      /\ ExpectedHolds(record, e.expected_version) /\ CanApply(e, record)
      /\ workflows' = [workflows EXCEPT ![Workflow] = stored]
      /\ receipts' = receipts \union {[event |-> e, record |-> stored]}
    BY <1>1, <1>3, <1>3a DEF State!CommitTransition, record
<1>5. /\ stored \in WorkflowRecord /\ stored.status = e.to_status
      /\ stored.plan_hash = IF e.plan_hash # NoHash THEN e.plan_hash
                            ELSE record.plan_hash
      /\ stored.version = record.version + 1
    BY <1>1, <1>2, <1>3 DEF ApplyTo, WorkflowRecord
<1>6. record' = stored /\ workflows' \in [WorkflowIds -> WorkflowRecord]
    BY <1>1, <1>2, <1>4, <1>5 DEF record
<1>7. e.expected_version = record.version
    BY <1>1, <1>2, <1>4 DEF Validate, ExpectedHolds, CanApply, WorkflowRecord
<1>8. \A r \in receipts : r.event.idempotency_key # e.idempotency_key
    BY <1>1, <1>4 DEF State!ReceiptsFor, TypeOK, AuditEvent, LifecycleEvent
<1>9. ASSUME record.status \in Terminal, record.version # 0
      PROVE  FALSE
    BY <1>2, <1>4, <1>9, TerminalIsFinal DEF Validate, CanApply
<1> QED
    BY <1>4, <1>5, <1>6, <1>7, <1>8, <1>9

\* A transition commits: the history and the plan are extended.
LEMMA CommitStore ==
    ASSUME Inv, NEW a \in attempts, a.pc = "commit",
           State!CommitTransition(a.event), trail' = trail
    PROVE  StoreInv' /\ PlanInv' /\ Grows
<1>1. TypeOK /\ StoreInv /\ PlanInv
    BY DEF Inv
<1>2. /\ a \in Attempt /\ a.locals \in Locals
      /\ Shape(a) /\ Sent(a) /\ Traced(a) /\ Effect(a)
    BY AttemptFacts
<1>3. PICK e \in LifecycleEvent : e = a.event
    BY <1>2 DEF Sent
<1>4. PICK new : new = [event |-> e, record |-> record']
    OBVIOUS
<1>5. /\ record' \in WorkflowRecord
      /\ record'.status = e.to_status
      /\ record'.plan_hash = IF e.plan_hash # NoHash THEN e.plan_hash
                             ELSE record.plan_hash
      /\ record'.version = record.version + 1
      /\ e.expected_version = record.version
      /\ receipts' = receipts \union {new}
      /\ \A r \in receipts : r.event.idempotency_key # e.idempotency_key
      /\ record.status \in Terminal => record.version = 0
    BY <1>1, <1>3, <1>4, CommitFacts
<1>6. /\ record.version \in Nat /\ Len(trail) \in Nat
      /\ \A r \in receipts : /\ r.record.version \in Nat
                             /\ r.event.expected_version \in Nat
                             /\ r.record.version > 0
                             /\ r.record.version <= record.version
                             /\ r.record \in WorkflowRecord
    <2>1. record.version \in Nat /\ Len(trail) \in Nat
        BY <1>1, Types DEF WorkflowRecord
    <2>2. ASSUME NEW r \in receipts
          PROVE  /\ r.record.version \in Nat /\ r.event.expected_version \in Nat
                 /\ r.record.version > 0 /\ r.record.version <= record.version
                 /\ r.record \in WorkflowRecord
        BY <1>1, <2>1 DEF TypeOK, AuditEvent, LifecycleEvent, WorkflowRecord, StoreInv
    <2> QED
        BY <2>1, <2>2
<1>7. record.version = Len(trail)
    BY <1>1, <1>2, <1>3, <1>5, <1>6 DEF Sent, Traced, Lineage, StoreInv
<1>8. /\ new.event = e /\ new.record = record'
      /\ e.idempotency_key = e.event_id
    BY <1>2, <1>3, <1>4 DEF Sent
<1>9. StoreInv'
  <2>1. ASSUME NEW r \in receipts'
        PROVE  /\ r.event.idempotency_key = r.event.event_id
               /\ r.record.version = r.event.expected_version + 1
               /\ r.record.version <= record'.version
               /\ r.record.status = r.event.to_status
    <3>1. CASE r \in receipts
        BY <1>1, <1>5, <1>6, <3>1 DEF StoreInv
    <3>2. CASE r = new
        BY <1>5, <1>6, <1>8, <3>2
    <3> QED
        BY <1>5, <3>1, <3>2
  <2>2. \A r \in receipts : /\ r.record.version # new.record.version
                            /\ r.event.event_id # new.event.event_id
    BY <1>1, <1>5, <1>6, <1>8 DEF StoreInv
  <2>3. \A r, s \in receipts' : r.record.version = s.record.version => r = s
    BY <1>1, <1>5, <2>2 DEF StoreInv
  <2>4. \A r, s \in receipts' : r.event.event_id = s.event.event_id => r = s
    BY <1>1, <1>5, <2>2 DEF StoreInv
  <2>5. record'.version \in {Len(trail'), Len(trail') + 1}
    BY <1>5, <1>7
  <2>6. \A i \in DOMAIN trail' : /\ trail'[i].record.version = i
                                 /\ trail'[i] \in receipts'
    BY <1>1, <1>5 DEF StoreInv
  <2> QED
    BY <2>1, <2>3, <2>4, <2>5, <2>6 DEF StoreInv
<1>10. \A r \in receipts : r.event.event_id # "outcome"
  <2> SUFFICES ASSUME NEW r \in receipts, r.event.event_id = "outcome"
               PROVE  FALSE
    OBVIOUS
  <2>1. /\ r.event.to_status = TerminalStatus(r.event.body.status)
        /\ r.record = record /\ r.record.status = r.event.to_status
    BY <1>1 DEF PlanInv, StoreInv
  <2>2. r.event.body.status \in ActionStatus
    BY <1>1 DEF TypeOK, AuditEvent, LifecycleEvent, Body
  <2>3. record.status \in Terminal
    BY <2>1, <2>2, TerminalStatusType
  <2> QED
    BY <1>5, <1>6, <2>1, <2>3
<1>11. e.plan_hash # NoHash =>
        /\ Len(trail) > 0
        /\ e.plan_hash = PlanFor[trail[1].event.body.evidence]
  <2> SUFFICES ASSUME e.plan_hash # NoHash
               PROVE  /\ Len(trail) > 0
                      /\ e.plan_hash = PlanFor[trail[1].event.body.evidence]
    OBVIOUS
  <2>1. a.locals.plan_hash = e.plan_hash
    BY <1>2, <1>3 DEF Sent
  <2>2. /\ a.locals.version > 0 /\ a.locals.evidence \in Evidence
        /\ a.locals.plan_hash = PlanFor[a.locals.evidence]
    BY <1>2, <2>1 DEF Shape
  <2>3. /\ a.locals.version \in Nat /\ a.locals.version <= Len(trail)
        /\ trail[1].event.body.evidence = a.locals.evidence
    BY <1>2, <2>2 DEF Traced, Lineage, Locals
  <2> QED
    BY <1>6, <2>1, <2>2, <2>3
<1>12. PlanInv'
  <2> SUFFICES ASSUME NEW r \in receipts'
               PROVE  /\ r.event.plan_hash # NoHash =>
                            /\ Len(trail') > 0
                            /\ r.event.plan_hash =
                                   PlanFor[trail'[1].event.body.evidence]
                            /\ r.event.plan_hash = record'.plan_hash
                      /\ r.event.event_id = "outcome" =>
                            /\ r.event.to_status = TerminalStatus(r.event.body.status)
                            /\ r.record = record'
    BY DEF PlanInv
  <2>1. CASE r \in receipts
    <3>1. r.event.plan_hash # NoHash =>
              /\ Len(trail) > 0
              /\ r.event.plan_hash = PlanFor[trail[1].event.body.evidence]
              /\ r.event.plan_hash = record.plan_hash
        BY <1>1, <2>1 DEF PlanInv
    <3>2. r.event.plan_hash # NoHash => r.event.plan_hash = record'.plan_hash
        BY <1>5, <1>11, <3>1
    <3> QED
        BY <1>10, <2>1, <3>1, <3>2
  <2>2. CASE r = new
    <3>1. e.event_id = "outcome" => e.to_status = TerminalStatus(e.body.status)
        BY <1>2, <1>3 DEF Sent
    <3> QED
        BY <1>5, <1>8, <1>11, <2>2, <3>1
  <2> QED
    BY <1>5, <2>1, <2>2
<1>13. Grows
    BY <1>5, <1>6 DEF Grows
<1> QED
    BY <1>9, <1>12, <1>13

\* The event is in the store, now or since an earlier attempt.
LEMMA CommitStep ==
    ASSUME Inv, NEW a \in attempts, Commit(a)
    PROVE  Inv'
<1>1. /\ TypeOK /\ StoreInv /\ PlanInv /\ OrderInv /\ AttemptInv /\ RunInv
      /\ EffectInv
    BY DEF Inv
<1>2. /\ a \in Attempt /\ a.locals \in Locals
      /\ Shape(a) /\ Sent(a) /\ Traced(a) /\ Effect(a)
    BY AttemptFacts
<1>3. /\ a.pc = "commit" /\ UNCHANGED <<trail, mutations, rollbacks>>
      /\ a.event \in LifecycleEvent
    BY <1>2 DEF Commit, Sent
<1>4. ASSUME NEW rec \in WorkflowRecord,
             Continue(a, [a EXCEPT !.pc = "export", !.record = rec]),
             [event |-> a.event, record |-> rec] \in receipts',
             receipts' \subseteq AuditEvent,
             workflows' \in [WorkflowIds -> WorkflowRecord],
             StoreInv', PlanInv', Grows
      PROVE  Inv'
  <2>1. PICK b : b = [a EXCEPT !.pc = "export", !.record = rec]
    OBVIOUS
  <2>2. /\ b \in Attempt /\ b.run = a.run /\ b.activity = a.activity
        /\ b.number = a.number /\ b.pc = "export" /\ b.locals = a.locals
        /\ b.event = a.event /\ b.record = rec
    BY <1>2, <2>1 DEF Attempt
  <2>3. Continue(a, b)
    BY <1>4, <2>1
  <2>4. TypeOK'
    BY <1>1, <1>3, <1>4, <2>2, <2>3 DEF TypeOK, Continue
  <2>5. Shape(b)
    BY <1>2, <1>3, <2>2 DEF Shape, Holds, BeforeAction
  <2>6. Sent(b)
    BY <1>2, <1>3, <2>2 DEF Sent
  <2>7. Lineage(b.run, b.locals)'
    <3>1. Lineage(a.run, a.locals)'
        BY <1>1, <1>2, <1>4, <2>4, LineageStable DEF Traced
    <3> QED
        BY <2>2, <3>1
  <2>8. Traced(b)'
    BY <1>4, <2>2, <2>7 DEF Traced
  <2>9. Effect(b)
    BY <1>2, <1>3, <2>2 DEF Effect, BeforeAction, Holds
  <2>10. OrderInv' /\ AttemptInv' /\ RunInv' /\ EffectInv'
    BY <1>1, <1>3, <1>4, <2>2, <2>3, <2>4, <2>5, <2>6, <2>8, <2>9, ContinueStep
  <2> QED
    BY <1>4, <2>4, <2>10 DEF Inv
<1>5. CASE /\ State!CommitTransition(a.event)
           /\ Continue(a, [a EXCEPT !.pc = "export", !.record = workflows'[Workflow]])
  <2>1. StoreInv' /\ PlanInv' /\ Grows
    BY <1>3, <1>5, CommitStore
  <2>2. /\ record' \in WorkflowRecord
        /\ workflows' \in [WorkflowIds -> WorkflowRecord]
        /\ receipts' = receipts \union {[event |-> a.event, record |-> record']}
    BY <1>1, <1>3, <1>5, CommitFacts
  <2>3. PICK rec \in WorkflowRecord : rec = record'
    BY <2>2
  <2>4. receipts' \subseteq AuditEvent
    BY <1>1, <1>3, <2>2 DEF TypeOK, AuditEvent
  <2>5. Continue(a, [a EXCEPT !.pc = "export", !.record = rec])
    BY <1>5, <2>3 DEF record
  <2> QED
    BY <1>4, <2>1, <2>2, <2>3, <2>4, <2>5
<1>6. CASE /\ State!ReplayedTransition(a.event)
           /\ \E r \in State!ReceiptsFor(a.event) :
                Continue(a, [a EXCEPT !.pc = "export", !.record = r.record])
  <2>1. PICK r \in State!ReceiptsFor(a.event) :
            Continue(a, [a EXCEPT !.pc = "export", !.record = r.record])
    BY <1>6
  <2>2. PICK s \in State!ReceiptsFor(a.event) : s.event = a.event
    BY <1>6 DEF State!ReplayedTransition
  <2>3. UNCHANGED <<workflows, receipts, trail>>
    BY <1>3, <1>6 DEF State!ReplayedTransition
  <2>4. r \in receipts /\ s \in receipts /\ r = s
    BY <1>1, <2>1, <2>2 DEF State!ReceiptsFor, StoreInv
  <2>5. r \in AuditEvent /\ r.event = a.event
    BY <1>1, <2>2, <2>4 DEF TypeOK
  <2>6. r = [event |-> a.event, record |-> r.record] /\ r.record \in WorkflowRecord
    BY <2>5 DEF AuditEvent
  <2>7. StoreInv' /\ PlanInv' /\ Grows
    BY <1>1, <2>3, QuietStep
  <2>8. /\ receipts' \subseteq AuditEvent
        /\ workflows' \in [WorkflowIds -> WorkflowRecord]
    BY <1>1, <2>3 DEF TypeOK
  <2>9. [event |-> a.event, record |-> r.record] \in receipts'
    BY <2>3, <2>4, <2>6
  <2> QED
    BY <1>4, <2>1, <2>6, <2>7, <2>8, <2>9
<1> QED
    BY <1>5, <1>6 DEF Commit

\* An export puts the entry where its version says, once.
LEMMA ExportStore ==
    ASSUME Inv, NEW a \in attempts, Export(a)
    PROVE  /\ StoreInv' /\ PlanInv' /\ Grows
           /\ trail' \in Seq(AuditEvent)
           /\ a.record.version \in Nat \ {0}
           /\ a.record.version = a.locals.version + 1
           /\ a.record.version \in DOMAIN trail'
           /\ trail'[a.record.version] = [event |-> a.event, record |-> a.record]
<1>1. TypeOK /\ StoreInv /\ PlanInv
    BY DEF Inv
<1>2. /\ a \in Attempt /\ a.locals \in Locals
      /\ Shape(a) /\ Sent(a) /\ Traced(a) /\ Effect(a)
    BY AttemptFacts
<1>3. PICK entry : entry = [event |-> a.event, record |-> a.record]
    OBVIOUS
<1>4. /\ a.pc = "export" /\ entry \in receipts /\ entry \in AuditEvent
      /\ entry.event = a.event /\ entry.record = a.record
      /\ UNCHANGED <<workflows, receipts>>
    BY <1>1, <1>2, <1>3 DEF Export, Traced, TypeOK
<1>5. PICK v : v = a.record.version
    OBVIOUS
<1>6. /\ record.version \in Nat /\ Len(trail) \in Nat
      /\ DOMAIN trail = 1..Len(trail) /\ trail \in Seq(AuditEvent)
      /\ v \in Nat /\ a.locals.version \in Nat
      /\ record.version \in {Len(trail), Len(trail) + 1}
    BY <1>1, <1>2, <1>4, <1>5, Types
    DEF WorkflowRecord, Attempt, Locals, StoreInv, TypeOK
<1>7. /\ v = a.locals.version + 1 /\ v <= record.version
    BY <1>1, <1>2, <1>4, <1>5 DEF StoreInv, Sent
<1>8. \A i \in DOMAIN trail : trail[i].record.version = i /\ trail[i] \in receipts
    BY <1>1 DEF StoreInv
<1>9. CASE Exported(a.event.event_id) = {}
  <2>1. trail' = Append(trail, entry)
    BY <1>3, <1>9 DEF Export
  <2>2. v \notin DOMAIN trail
    <3> SUFFICES ASSUME v \in DOMAIN trail PROVE FALSE
        OBVIOUS
    <3>1. trail[v] = entry
        BY <1>1, <1>4, <1>5, <1>8 DEF StoreInv
    <3> QED
        BY <1>4, <1>9, <3>1 DEF Exported
  <2>3. v = Len(trail) + 1 /\ record.version = Len(trail) + 1
    BY <1>6, <1>7, <2>2
  <2>4. /\ trail' \in Seq(AuditEvent) /\ Len(trail') = Len(trail) + 1
        /\ trail'[Len(trail) + 1] = entry
        /\ \A i \in 1..Len(trail) : trail'[i] = trail[i]
    BY <1>4, <1>6, <2>1, AppendProperties
  <2>5. DOMAIN trail' = 1..(Len(trail) + 1)
    BY <2>4, LenProperties
  <2>6. trail'[v] = entry /\ v \in DOMAIN trail'
    BY <1>6, <2>3, <2>4, <2>5
  <2>7. Grows
    BY <1>4, <1>6, <2>4, <2>5 DEF Grows
  <2>8. StoreInv'
    <3>1. \A i \in DOMAIN trail' : /\ trail'[i].record.version = i
                                   /\ trail'[i] \in receipts'
        <4> SUFFICES ASSUME NEW i \in DOMAIN trail'
                     PROVE  trail'[i].record.version = i /\ trail'[i] \in receipts'
            OBVIOUS
        <4>1. CASE i = v
            BY <1>4, <1>5, <2>6, <4>1
        <4>2. CASE i # v
            BY <1>4, <1>6, <1>8, <2>3, <2>4, <2>5, <4>2
        <4> QED
            BY <4>1, <4>2
    <3>2. record'.version \in {Len(trail'), Len(trail') + 1}
        BY <1>4, <1>6, <2>3, <2>4 DEF record
    <3> QED
        BY <1>1, <1>4, <3>1, <3>2 DEF StoreInv, record
  <2>9. PlanInv'
    <3>1. Len(trail) > 0 => Len(trail') > 0 /\ trail'[1] = trail[1]
        BY <1>6, <2>4
    <3> QED
        BY <1>1, <1>4, <3>1 DEF PlanInv, record
  <2> QED
    BY <1>3, <1>5, <1>6, <1>7, <2>3, <2>4, <2>6, <2>7, <2>8, <2>9
<1>10. CASE Exported(a.event.event_id) # {}
  <2>1. PICK i \in Exported(a.event.event_id) : trail[i] = entry /\ trail' = trail
    BY <1>3, <1>10 DEF Export
  <2>2. i \in DOMAIN trail /\ i = v
    BY <1>4, <1>5, <1>8, <2>1 DEF Exported
  <2>3. StoreInv' /\ PlanInv' /\ Grows
    BY <1>1, <1>4, <2>1, QuietStep
  <2> QED
    BY <1>3, <1>5, <1>6, <1>7, <2>1, <2>2, <2>3
<1> QED
    BY <1>9, <1>10

\* The activity goes on with the version its export has put in the trail.
LEMMA ExportStep ==
    ASSUME Inv, NEW a \in attempts, Export(a)
    PROVE  Inv'
<1>1. /\ TypeOK /\ StoreInv /\ PlanInv /\ OrderInv /\ AttemptInv /\ RunInv
      /\ EffectInv
    BY DEF Inv
<1>2. /\ a \in Attempt /\ a.locals \in Locals
      /\ Shape(a) /\ Sent(a) /\ Traced(a) /\ Effect(a)
    BY AttemptFacts
<1>3. PICK v : v = a.record.version
    OBVIOUS
<1>4. /\ StoreInv' /\ PlanInv' /\ Grows
      /\ trail' \in Seq(AuditEvent)
      /\ v \in Nat \ {0} /\ v = a.locals.version + 1
      /\ v \in DOMAIN trail'
      /\ trail'[v] = [event |-> a.event, record |-> a.record]
    BY <1>3, ExportStore
<1>5. /\ a.pc = "export" /\ Continue(a, AfterExport(a))
      /\ UNCHANGED <<workflows, receipts>> /\ UNCHANGED <<mutations, rollbacks>>
      /\ a.event \in LifecycleEvent /\ a.event.to_status \in Statuses
    BY <1>2 DEF Export, Sent, LifecycleEvent, Statuses
<1>6. PICK c : c = [a EXCEPT !.locals.version = v,
                             !.locals.from_status = a.event.to_status]
    OBVIOUS
<1>7. /\ c \in Attempt /\ c.run = a.run /\ c.activity = a.activity
      /\ c.number = a.number /\ c.event = a.event /\ c.record = a.record
      /\ c.locals.version = v
      /\ c.locals.evidence = a.locals.evidence
      /\ c.locals.plan_hash = a.locals.plan_hash
      /\ c.locals.signal = a.locals.signal
      /\ c.locals.verified = a.locals.verified
      /\ c.locals.allowed = a.locals.allowed
      /\ c.locals.safe = a.locals.safe
      /\ c.locals.status = a.locals.status
  <2>1. PICK locals : locals = [a.locals EXCEPT !.version = v,
                                                !.from_status = a.event.to_status]
    OBVIOUS
  <2>2. locals \in Locals
    BY <1>2, <1>4, <1>5, <2>1 DEF Locals
  <2>3. c = [a EXCEPT !.locals = locals]
    BY <1>2, <1>6, <2>1 DEF Attempt, Locals
  <2>4. /\ c \in Attempt /\ c.run = a.run /\ c.activity = a.activity
        /\ c.number = a.number /\ c.event = a.event /\ c.record = a.record
        /\ c.locals = locals
    BY <1>2, <2>2, <2>3 DEF Attempt
  <2> QED
    BY <1>2, <2>1, <2>4 DEF Locals
<1>8. PICK b : b = AfterExport(a)
    OBVIOUS
<1>9. /\ b \in Attempt /\ b.run = a.run /\ b.activity = a.activity
      /\ b.number = a.number /\ b.locals = c.locals /\ Sent(b)
      /\ a.event.event_id = "planned" =>
            b.pc = "commit" /\ b.event.event_id = "awaiting-approval"
      /\ a.event.event_id = "executing" => b.pc = "loop"
      /\ a.event.event_id \notin {"planned", "executing"} => b.pc = "return"
  <2>1. CASE a.event.event_id = "planned"
    <3>1. b = Advance(c, "awaiting-approval", "waiting_approval")
        BY <1>3, <1>6, <1>8, <2>1 DEF AfterExport
    <3> QED
        BY <1>7, <2>1, <3>1, AdvanceOf, StepNames
  <2>2. CASE a.event.event_id = "executing"
    <3>1. b = [c EXCEPT !.pc = "loop"]
        BY <1>3, <1>6, <1>8, <2>2 DEF AfterExport
    <3> QED
        BY <1>7, <2>2, <3>1 DEF Attempt, Sent
  <2>3. CASE a.event.event_id \notin {"planned", "executing"}
    <3>1. b = [c EXCEPT !.pc = "return"]
        BY <1>3, <1>6, <1>8, <2>3 DEF AfterExport
    <3> QED
        BY <1>7, <2>3, <3>1 DEF Attempt, Sent
  <2> QED
    BY <2>1, <2>2, <2>3
<1>10. Continue(a, b)
    BY <1>5, <1>8
<1>11. TypeOK'
    BY <1>1, <1>4, <1>5, <1>9, <1>10 DEF TypeOK, Continue
<1>12. /\ Planned(b.locals) <=> Planned(a.locals)
       /\ Chosen(b.locals) <=> Chosen(a.locals)
       /\ Approved(b.locals) <=> Approved(a.locals)
       /\ Permitted(b.locals) <=> Permitted(a.locals)
       /\ Cleared(b.locals) <=> Cleared(a.locals)
    BY <1>7, <1>9 DEF Planned, Chosen, Approved, Permitted, Cleared
<1>13. Shape(b)
  <2>1. a.activity \in {"collect", "plan", "execute", "record"}
    BY <1>2, <1>5 DEF Shape, Attempt, Activities
  <2>2. b.locals.version > 0
    BY <1>4, <1>7, <1>9
  <2>3. CASE a.activity = "collect"
    <3>1. a.event.event_id = "evidence"
        BY <1>2, <1>5, <2>3 DEF Shape, Holds
    <3>2. /\ a.locals.plan_hash = NoHash /\ a.locals.status = "none"
          /\ a.locals.evidence \in Evidence
        BY <1>2, <1>5, <2>3 DEF Shape
    <3> QED
        BY <1>7, <1>9, <2>2, <2>3, <3>1, <3>2 DEF Shape, Holds
  <2>4. ASSUME a.activity # "collect"
        PROVE  /\ b.locals.evidence \in Evidence
               /\ b.locals.plan_hash \in {NoHash, PlanFor[b.locals.evidence]}
    BY <1>2, <1>7, <1>9, <2>4 DEF Shape
  <2>5. CASE a.activity = "plan"
    <3>1. /\ a.event.event_id \in {"planned", "awaiting-approval"}
          /\ a.locals.status = "none"
        BY <1>2, <1>5, <2>5 DEF Shape, Holds
    <3> QED
        BY <1>7, <1>9, <2>2, <2>4, <2>5, <3>1 DEF Shape, Holds
  <2>6. CASE a.activity = "execute"
    <3>1. /\ Cleared(b.locals)
          /\ a.event.event_id \in {"executing", "verifying"}
          /\ a.locals.status = "none" <=> a.event.event_id = "executing"
        BY <1>2, <1>5, <1>12, <2>6 DEF Shape, Holds, BeforeAction
    <3> QED
        BY <1>7, <1>9, <2>2, <2>4, <2>6, <3>1 DEF Shape, Holds, BeforeAction
  <2>7. CASE a.activity = "record"
    <3>1. a.event.event_id = "outcome" /\ a.locals.status # "none"
        BY <1>2, <1>5, <2>7 DEF Shape, Holds
    <3> QED
        BY <1>7, <1>9, <2>2, <2>4, <2>7, <3>1 DEF Shape, Holds
  <2> QED
    BY <2>1, <2>3, <2>5, <2>6, <2>7
<1>14. Lineage(b.run, b.locals)'
  <2>1. /\ Len(trail') \in Nat /\ DOMAIN trail' = 1..Len(trail')
        /\ Len(trail) \in Nat /\ a.locals.version \in Nat
    BY <1>1, <1>2, <1>4, Types, LenProperties DEF Locals
  <2>2. b.locals.version <= Len(trail')
    BY <1>4, <1>7, <1>9, <2>1
  <2>3. /\ trail'[1].event.body.run = a.run
        /\ trail'[1].event.body.evidence = a.locals.evidence
    <3>1. CASE a.locals.version = 0
        <4>1. a.event.event_id = "evidence"
            BY <1>2, <1>5, <3>1 DEF Shape, Holds
        <4>2. trail'[1].event = a.event
            BY <1>4, <3>1
        <4> QED
            BY <1>2, <1>5, <4>1, <4>2 DEF Sent
    <3>2. CASE a.locals.version > 0
        <4>1. Lineage(a.run, a.locals)'
            BY <1>1, <1>2, <1>4, <1>11, LineageStable DEF Traced
        <4> QED
            BY <3>2, <4>1 DEF Lineage
    <3> QED
        BY <2>1, <3>1, <3>2
  <2> QED
    BY <1>7, <1>9, <2>2, <2>3 DEF Lineage
<1>15. Traced(b)'
  <2>1. b.pc # "export"
    BY <1>9
  <2>2. b.pc = "loop" => Announced(b.locals)'
    <3> SUFFICES ASSUME b.pc = "loop" PROVE Announced(b.locals)'
        OBVIOUS
    <3>1. a.event.event_id = "executing" /\ a.event.plan_hash = b.locals.plan_hash
        BY <1>2, <1>5, <1>7, <1>9 DEF Sent
    <3> QED
        BY <1>4, <3>1 DEF Announced
  <2>3. b.activity = "record" /\ b.pc = "return" => Told(b.locals)'
    <3> SUFFICES ASSUME b.activity = "record" PROVE Told(b.locals)'
        OBVIOUS
    <3>1. a.event.event_id = "outcome"
        BY <1>2, <1>5, <1>9 DEF Shape, Holds
    <3>2. a.event.body.status = b.locals.status
        BY <1>2, <1>5, <1>7, <1>9 DEF Sent
    <3> QED
        BY <1>4, <1>7, <1>9, <3>1, <3>2 DEF Told
  <2> QED
    BY <1>14, <2>1, <2>2, <2>3 DEF Traced
<1>16. Effect(b)
  <2>1. Claims(b.locals)
    BY <1>2, <1>7, <1>9 DEF Effect, Claims
  <2>2. BeforeAction(b) => BeforeAction(a)
    BY <1>2, <1>5, <1>9 DEF BeforeAction, Holds, Shape
  <2>3. b.pc # "mutated"
    BY <1>9
  <2> QED
    BY <1>2, <2>1, <2>2, <2>3 DEF Effect
<1>17. OrderInv' /\ AttemptInv' /\ RunInv' /\ EffectInv'
    BY <1>1, <1>4, <1>5, <1>9, <1>10, <1>11, <1>13, <1>15, <1>16, ContinueStep
<1> QED
    BY <1>4, <1>11, <1>17 DEF Inv

-----------------------------------------------------------------------------
(* The action *)

\* While the action is on its way, nobody else acts and nobody has a result.
LEMMA OthersIdle ==
    ASSUME Inv, NEW a \in attempts, a.activity = "execute", a.locals.status = "none"
    PROVE  /\ \A c \in attempts \ {a} :
                c.activity # "execute" /\ c.locals.status = "none"
           /\ run.locals.status = "none"
           /\ a.run <= run.number
           /\ a.run = run.number => Rank(run.pc) >= 7
           /\ Len(trail) > 0 /\ trail[1].event.body.run = a.run
<1>1. TypeOK /\ OrderInv /\ AttemptInv /\ RunInv
    BY DEF Inv
<1>2. /\ a \in Attempt /\ a.locals \in Locals
      /\ Shape(a) /\ Sent(a) /\ Traced(a) /\ Effect(a)
    BY AttemptFacts
<1>3. /\ a.locals.version \in Nat /\ a.locals.version > 0
      /\ a.locals.version <= Len(trail) /\ Len(trail) \in Nat
      /\ trail[1].event.body.run = a.run
    BY <1>1, <1>2, Types DEF Shape, Traced, Lineage, Locals
<1>4. ASSUME NEW c \in attempts \ {a}
      PROVE  c.activity # "execute" /\ c.locals.status = "none"
  <2>1. /\ c \in Attempt /\ c.locals \in Locals /\ c.activity \in Activities
        /\ Shape(c) /\ Sent(c) /\ Traced(c) /\ Effect(c)
    BY AttemptFacts DEF Attempt
  <2>2. c.activity # "collect" => c.run = a.run
    BY <1>3, <2>1 DEF Shape, Traced, Lineage
  <2>3. c.activity # "execute"
    BY <1>1, <2>2 DEF OrderInv
  <2>4. c.activity # "record"
    BY <1>1, <2>2 DEF OrderInv
  <2> QED
    BY <2>1, <2>3, <2>4 DEF Shape, Activities
<1>5. run.locals.status = "none"
  <2> SUFFICES ASSUME run.locals.status # "none" PROVE FALSE
    OBVIOUS
  <2>1. run.locals.version \in Nat /\ run.locals.version # 0
    BY <1>1, Types DEF RunInv, Ready, Locals
  <2>2. run.number = a.run
    BY <1>1, <1>3, <2>1 DEF RunInv, Lineage
  <2> QED
    BY <1>1, <2>2 DEF OrderInv
<1>6. a.run <= run.number /\ (a.run = run.number => Rank(run.pc) >= 7)
  <2>1. /\ a.run <= run.number
        /\ a.run = run.number => Rank("execute") <= Rank(run.pc)
    BY <1>1 DEF OrderInv
  <2>2. Rank("execute") = 7 /\ Rank(run.pc) \in Nat
    BY DEF Rank
  <2> HIDE DEF Rank
  <2> QED
    BY <2>1, <2>2
<1> QED
    BY <1>3, <1>4, <1>5, <1>6

\* The one attempt that can touch production does.
LEMMA ActionStep ==
    ASSUME Inv, TypeOK', NEW a \in attempts, NEW b \in Attempt,
           b.run = a.run, b.activity = a.activity, b.number = a.number,
           a.activity = "execute", a.locals.status = "none",
           Shape(b), Sent(b), Traced(b), Effect(b)', EffectInv',
           Continue(a, b), UNCHANGED <<workflows, receipts, trail>>
    PROVE  Inv'
<1>1. /\ TypeOK /\ StoreInv /\ PlanInv /\ OrderInv /\ AttemptInv /\ RunInv
    BY DEF Inv
<1>2. StoreInv' /\ PlanInv' /\ Grows
    BY <1>1, QuietStep
<1>3. attempts' = (attempts \ {a}) \union {b} /\ run' = run
    BY DEF Continue
<1>4. OrderInv'
    BY <1>1, <1>3, OrderContinue
<1>5. /\ \A c \in attempts \ {a} :
            c.activity # "execute" /\ c.locals.status = "none"
      /\ run.locals.status = "none"
    BY OthersIdle
<1>6. ASSUME NEW c \in attempts'
      PROVE  Shape(c)' /\ Sent(c)' /\ Traced(c)' /\ Effect(c)'
  <2>1. CASE c = b
    <3>1. Shape(b)' /\ Sent(b)'
        BY DEF Shape, Sent, Ready, Holds, BeforeAction, Planned, Chosen, Approved,
               Permitted, Cleared
    <3>2. Traced(b)'
        BY <1>1, <1>2, TracedStable
    <3> QED
        BY <2>1, <3>1, <3>2
  <2>2. CASE c \in attempts \ {a}
    <3>1. c \in Attempt /\ Shape(c) /\ Sent(c) /\ Traced(c)
        BY <2>2, AttemptFacts
    <3>2. Shape(c)' /\ Sent(c)'
        BY <3>1
        DEF Shape, Sent, Ready, Holds, BeforeAction, Planned, Chosen, Approved,
            Permitted, Cleared
    <3>3. Traced(c)'
        BY <1>1, <1>2, <3>1, TracedStable
    <3>4. Effect(c)'
        BY <1>5, <2>2, <3>1 DEF Effect, Claims, BeforeAction, Shape
    <3> QED
        BY <3>2, <3>3, <3>4
  <2> QED
    BY <1>3, <2>1, <2>2
<1>7. RunInv'
  <2>1. Claims(run.locals)'
    BY <1>3, <1>5 DEF Claims
  <2>2. Lineage(run.number, run.locals)' /\ (run'.pc = "done" => Told(run.locals)')
    BY <1>1, <1>3 DEF RunInv, Lineage, Told
  <2>3. Ready(run.pc, run.locals)'
    BY <1>1, <1>3
    DEF RunInv, Ready, Planned, Chosen, Approved, Permitted, Cleared
  <2> QED
    BY <2>1, <2>2, <2>3 DEF RunInv
<1> QED
    BY <1>2, <1>4, <1>6, <1>7 DEF Inv, AttemptInv

\* c is a with a status.
WithStatus(a, c, status) ==
    /\ c \in Attempt /\ c.run = a.run /\ c.activity = a.activity
    /\ c.number = a.number /\ c.locals.status = status
    /\ c.locals.version = a.locals.version
    /\ c.locals.evidence = a.locals.evidence
    /\ c.locals.plan_hash = a.locals.plan_hash
    /\ c.locals.signal = a.locals.signal
    /\ c.locals.verified = a.locals.verified
    /\ c.locals.allowed = a.locals.allowed
    /\ c.locals.safe = a.locals.safe

\* An attempt learns the status of its action and nothing else.
LEMMA StatusOf ==
    ASSUME NEW a \in Attempt, NEW status \in ActionStatus,
           NEW c, c = [a EXCEPT !.locals.status = status]
    PROVE  WithStatus(a, c, status)
<1>1. PICK locals : locals = [a.locals EXCEPT !.status = status]
    OBVIOUS
<1>2. a.locals \in Locals
    BY DEF Attempt
<1>3. /\ locals \in Locals /\ locals.status = status
      /\ locals.version = a.locals.version
      /\ locals.evidence = a.locals.evidence
      /\ locals.plan_hash = a.locals.plan_hash
      /\ locals.signal = a.locals.signal
      /\ locals.verified = a.locals.verified
      /\ locals.allowed = a.locals.allowed
      /\ locals.safe = a.locals.safe
    BY <1>1, <1>2 DEF Locals
<1>4. c = [a EXCEPT !.locals = locals]
    BY <1>1, <1>2 DEF Attempt, Locals
<1>5. /\ c \in Attempt /\ c.run = a.run /\ c.activity = a.activity
      /\ c.number = a.number /\ c.locals = locals
    BY <1>3, <1>4 DEF Attempt
<1> QED
    BY <1>3, <1>5 DEF WithStatus

\* The result of the action goes into the transition to `verifying'.
LEMMA VerifyingOf ==
    ASSUME NEW a, a.activity = "execute", Shape(a), Traced(a),
           NEW status, status # "none", NEW c, WithStatus(a, c, status),
           NEW b, b = Advance(c, "verifying", "verifying")
    PROVE  /\ b \in Attempt /\ b.run = a.run /\ b.activity = a.activity
           /\ b.number = a.number /\ b.pc = "commit" /\ b.locals.status = status
           /\ Shape(b) /\ Sent(b) /\ Traced(b) /\ ~BeforeAction(b)
<1>1. c \in Attempt
    BY DEF WithStatus
<1>2. /\ b \in Attempt
      /\ b.run = c.run /\ b.activity = c.activity /\ b.number = c.number
      /\ b.locals = c.locals /\ b.pc = "commit"
      /\ b.event.event_id = "verifying"
      /\ Sent(b)
  <2>1. PICK step, to : step = "verifying" /\ to = "verifying"
    OBVIOUS
  <2>2. step \in Steps /\ to \in WorkflowStatus /\ step # "outcome"
    BY <2>1, StepNames
  <2>3. b = Advance(c, step, to)
    BY <2>1
  <2>4. /\ b \in Attempt
        /\ b.run = c.run /\ b.activity = c.activity /\ b.number = c.number
        /\ b.locals = c.locals /\ b.pc = "commit"
        /\ b.event.event_id = step
        /\ Sent(b)
    BY <1>1, <2>2, <2>3, AdvanceOf
  <2> QED
    BY <2>1, <2>4
<1>3. Cleared(b.locals)
  <2>1. Cleared(a.locals)
    BY DEF Shape
  <2> QED
    BY <1>2, <2>1, ZenonT(40) DEF Cleared, Permitted, Approved, Chosen, Planned, WithStatus
<1>4. /\ b.locals.version > 0 /\ b.locals.evidence \in Evidence
      /\ b.locals.plan_hash \in {NoHash, PlanFor[b.locals.evidence]}
    BY <1>2 DEF Shape, WithStatus
<1>5. ~BeforeAction(b)
    BY <1>2 DEF Holds, BeforeAction
<1>6. b.activity = "execute" /\ b.locals.status = status
    BY <1>2 DEF WithStatus
<1>7. Shape(b)
    BY <1>2, <1>3, <1>4, <1>5, <1>6 DEF Shape, Holds
<1>8. Traced(b)
    BY <1>2, <1>6 DEF Traced, Lineage, WithStatus
<1> QED
    BY <1>2, <1>5, <1>6, <1>7, <1>8 DEF WithStatus

\* The control loop refuses, or asks the adapter to change production.
LEMMA MutateStep ==
    ASSUME Inv, NEW a \in attempts, Mutate(a)
    PROVE  Inv'
<1>1. /\ TypeOK /\ OrderInv /\ EffectInv
    BY DEF Inv
<1>2. /\ a \in Attempt /\ a.locals \in Locals
      /\ Shape(a) /\ Sent(a) /\ Traced(a) /\ Effect(a)
    BY AttemptFacts
<1>3. /\ a.pc = "loop" /\ UNCHANGED <<workflows, receipts, trail>>
      /\ rollbacks' = rollbacks
    BY DEF Mutate
<1>4. /\ a.activity = "execute" /\ BeforeAction(a) /\ a.locals.status = "none"
      /\ Cleared(a.locals) /\ mutations = <<>> /\ rollbacks = 0
    BY <1>2, <1>3 DEF Shape, BeforeAction, Effect
<1>5. ASSUME NEW status \in {"denied", "blocked"}, mutations' = mutations,
             Continue(a, Advance([a EXCEPT !.locals.status = status],
                                 "verifying", "verifying"))
      PROVE  Inv'
  <2>1. PICK c : c = [a EXCEPT !.locals.status = status]
    OBVIOUS
  <2>2. PICK b : b = Advance(c, "verifying", "verifying")
    OBVIOUS
  <2>3. status \in ActionStatus /\ status # "none"
    BY DEF ActionStatus
  <2>4. WithStatus(a, c, status)
    BY <1>2, <2>1, <2>3, StatusOf
  <2>5. /\ b \in Attempt /\ b.run = a.run /\ b.activity = a.activity
        /\ b.number = a.number /\ b.pc = "commit" /\ b.locals.status = status
        /\ Shape(b) /\ Sent(b) /\ Traced(b) /\ ~BeforeAction(b)
    BY <1>2, <1>4, <2>2, <2>3, <2>4, VerifyingOf
  <2>6. Effect(b)
    BY <2>5 DEF Effect, Claims
  <2>7. Continue(a, b) /\ Quiet
    BY <1>3, <1>5, <2>1, <2>2 DEF Quiet
  <2> QED
    BY <2>5, <2>6, <2>7, QuietContinue
<1>6. ASSUME mutations' = Append(mutations, [run |-> a.run, locals |-> a.locals]),
             run' = run
      PROVE  mutations' \in Seq(Mutation) /\ Len(mutations') = 1 /\ EffectInv'
  <2>1. PICK m \in Mutation : m = [run |-> a.run, locals |-> a.locals]
    BY <1>2 DEF Attempt, Mutation
  <2>2. mutations' = <<m>>
    BY <1>4, <1>6, <2>1
  <2>3. /\ mutations' \in Seq(Mutation) /\ Len(mutations') = 1
        /\ DOMAIN mutations' = {1} /\ mutations'[1] = m
    BY <2>1, <2>2
  <2>4. /\ a.run <= run.number
        /\ a.run = run.number => Rank(run.pc) >= 7
        /\ Len(trail) > 0 /\ trail[1].event.body.run = a.run
    BY <1>4, OthersIdle
  <2>5. m.run = a.run /\ m.locals = a.locals
    BY <2>1
  <2>6. Cleared(m.locals) /\ Announced(m.locals)
    BY <1>2, <1>3, <1>4, <2>5 DEF Traced
  <2>7. Cleared(m.locals)' /\ Announced(m.locals)'
    BY <1>3, <2>6
    DEF Announced, Cleared, Permitted, Approved, Chosen, Planned
  <2>8. ASSUME NEW i \in DOMAIN mutations'
        PROVE  /\ Cleared(mutations[i].locals)'
               /\ Announced(mutations[i].locals)'
               /\ Len(trail') > 0
               /\ trail'[1].event.body.run = mutations'[i].run
               /\ mutations'[i].run <= run'.number
               /\ mutations'[i].run = run'.number => Rank(run'.pc) >= 7
    <3>1. mutations'[i] = m
        BY <2>3
    <3>2. Cleared(mutations[i].locals)' /\ Announced(mutations[i].locals)'
        BY <2>7, <3>1
    <3> HIDE DEF Rank
    <3> QED
        BY <1>3, <1>6, <2>4, <2>5, <3>1, <3>2
  <2>9. mutations' # <<>>
    BY <2>2
  <2>10. Len(mutations') <= 1
    BY <2>3
  <2> QED
    BY <2>3, <2>8, <2>9, <2>10 DEF EffectInv
<1>7. ASSUME mutations' = Append(mutations, [run |-> a.run, locals |-> a.locals]),
             Continue(a, [a EXCEPT !.pc = "mutated", !.locals.executed = TRUE])
      PROVE  Inv'
  <2>1. PICK locals : locals = [a.locals EXCEPT !.executed = TRUE]
    OBVIOUS
  <2>2. PICK b : b = [a EXCEPT !.pc = "mutated", !.locals.executed = TRUE]
    OBVIOUS
  <2>3. /\ locals \in Locals /\ locals.status = a.locals.status
        /\ locals.version = a.locals.version
        /\ locals.evidence = a.locals.evidence
        /\ locals.plan_hash = a.locals.plan_hash
        /\ locals.signal = a.locals.signal
        /\ locals.verified = a.locals.verified
        /\ locals.allowed = a.locals.allowed
        /\ locals.safe = a.locals.safe
    BY <1>2, <2>1 DEF Locals
  <2>4. b = [a EXCEPT !.pc = "mutated", !.locals = locals]
    BY <1>2, <2>1, <2>2 DEF Attempt, Locals
  <2>5. /\ b \in Attempt /\ b.run = a.run /\ b.activity = a.activity
        /\ b.number = a.number /\ b.pc = "mutated" /\ b.locals = locals
    BY <1>2, <2>3, <2>4 DEF Attempt
  <2>6. Cleared(b.locals)
    BY <1>4, <2>3, <2>5 DEF Cleared, Permitted, Approved, Chosen, Planned
  <2>7. Shape(b) /\ Sent(b)
    BY <1>2, <1>4, <2>3, <2>5, <2>6 DEF Shape, Sent, Holds, BeforeAction
  <2>8. Traced(b)
    BY <1>2, <1>4, <2>3, <2>5 DEF Traced, Lineage
  <2>9. Continue(a, b)
    BY <1>7, <2>2
  <2>10. run' = run
    BY <2>9 DEF Continue
  <2>11. mutations' \in Seq(Mutation) /\ Len(mutations') = 1 /\ EffectInv'
    BY <1>6, <1>7, <2>10
  <2>12. Effect(b)'
    BY <1>3, <1>4, <2>3, <2>5, <2>11 DEF Effect, Claims, BeforeAction, Holds
  <2>13. TypeOK'
    BY <1>1, <1>3, <2>5, <2>9, <2>11 DEF TypeOK, Continue
  <2> QED
    BY <1>3, <1>4, <2>5, <2>7, <2>8, <2>9, <2>11, <2>12, <2>13, ActionStep
<1>8. ASSUME mutations' = Append(mutations, [run |-> a.run, locals |-> a.locals]),
             Continue(a, Advance([a EXCEPT !.locals.status = "escalate"],
                                 "verifying", "verifying"))
      PROVE  Inv'
  <2>1. PICK status : status = "escalate"
    OBVIOUS
  <2>2. PICK c : c = [a EXCEPT !.locals.status = status]
    OBVIOUS
  <2>3. PICK b : b = Advance(c, "verifying", "verifying")
    OBVIOUS
  <2>4. status \in ActionStatus /\ status # "none"
    BY <2>1 DEF ActionStatus
  <2>5. WithStatus(a, c, status)
    BY <1>2, <2>2, <2>4, StatusOf
  <2>6. /\ b \in Attempt /\ b.run = a.run /\ b.activity = a.activity
        /\ b.number = a.number /\ b.pc = "commit" /\ b.locals.status = status
        /\ Shape(b) /\ Sent(b) /\ Traced(b) /\ ~BeforeAction(b)
    BY <1>2, <1>4, <2>3, <2>4, <2>5, VerifyingOf
  <2>7. Continue(a, b)
    BY <1>8, <2>1, <2>2, <2>3
  <2>8. run' = run
    BY <2>7 DEF Continue
  <2>9. mutations' \in Seq(Mutation) /\ Len(mutations') = 1 /\ EffectInv'
    BY <1>6, <1>8, <2>8
  <2>10. Effect(b)'
    BY <2>1, <2>6 DEF Effect, Claims, BeforeAction, Holds
  <2>11. TypeOK'
    BY <1>1, <1>3, <2>6, <2>7, <2>9 DEF TypeOK, Continue
  <2> QED
    BY <1>3, <1>4, <2>6, <2>7, <2>9, <2>10, <2>11, ActionStep
<1> QED
    BY <1>5, <1>7, <1>8 DEF Mutate

\* Verification, and the rollback when it fails.
LEMMA SettleStep ==
    ASSUME Inv, NEW a \in attempts, Settle(a)
    PROVE  Inv'
<1>1. /\ TypeOK /\ OrderInv /\ EffectInv
    BY DEF Inv
<1>2. /\ a \in Attempt /\ a.locals \in Locals
      /\ Shape(a) /\ Sent(a) /\ Traced(a) /\ Effect(a)
    BY AttemptFacts
<1>3. /\ a.pc = "mutated" /\ UNCHANGED <<workflows, receipts, trail>>
      /\ mutations' = mutations
    BY DEF Settle
<1>4. /\ a.activity = "execute" /\ a.locals.status = "none"
      /\ Len(mutations) = 1 /\ rollbacks = 0
    BY <1>2, <1>3 DEF Shape, Effect
<1>5. PICK status \in {"succeeded", "rolled_back", "escalate"} :
        /\ Continue(a, Advance([a EXCEPT !.locals.status = status],
                               "verifying", "verifying"))
        /\ rollbacks' = IF status = "rolled_back" THEN rollbacks + 1
                        ELSE rollbacks
    BY DEF Settle
<1>6. PICK c : c = [a EXCEPT !.locals.status = status]
    OBVIOUS
<1>7. PICK b : b = Advance(c, "verifying", "verifying")
    OBVIOUS
<1>8. status \in ActionStatus /\ status # "none"
    BY DEF ActionStatus
<1>9. WithStatus(a, c, status)
    BY <1>2, <1>6, <1>8, StatusOf
<1>10. /\ b \in Attempt /\ b.run = a.run /\ b.activity = a.activity
       /\ b.number = a.number /\ b.pc = "commit" /\ b.locals.status = status
       /\ Shape(b) /\ Sent(b) /\ Traced(b) /\ ~BeforeAction(b)
    BY <1>2, <1>4, <1>7, <1>8, <1>9, VerifyingOf
<1>11. Continue(a, b) /\ run' = run
    BY <1>5, <1>6, <1>7 DEF Continue
<1>12. rollbacks' = IF status = "rolled_back" THEN 1 ELSE 0
    BY <1>4, <1>5
<1>13. Effect(b)'
    BY <1>3, <1>4, <1>10, <1>12 DEF Effect, Claims, BeforeAction, Holds
<1>14. TypeOK'
    BY <1>1, <1>3, <1>10, <1>11, <1>12 DEF TypeOK, Continue
<1>15. EffectInv'
  <2>1. mutations # <<>>
    BY <1>4, EmptySeq
  <2> QED
    BY <1>1, <1>3, <1>11, <2>1
    DEF EffectInv, Announced, Cleared, Permitted, Approved, Chosen, Planned
<1> QED
    BY <1>3, <1>4, <1>10, <1>11, <1>13, <1>14, <1>15, ActionStep

-----------------------------------------------------------------------------
(* The run between two activities *)

\* Nothing was executed, and the decision goes on record.
LEMMA FinishStep ==
    ASSUME Inv, NEW status \in {"escalate", "denied"}, NEW locals \in Locals,
           locals.version > 0, locals.evidence \in Evidence,
           locals.plan_hash \in {NoHash, PlanFor[locals.evidence]},
           Lineage(run.number, locals), Rank(run.pc) < 7,
           NEW others, others \subseteq attempts,
           Finish(status, locals, others), Quiet, pending' \in Seq(Signals)
    PROVE  Inv'
<1>1. PICK done : done = [locals EXCEPT !.status = status]
    OBVIOUS
<1>2. /\ done \in Locals /\ done.status = status
      /\ done.version = locals.version /\ done.evidence = locals.evidence
      /\ done.plan_hash = locals.plan_hash
    BY <1>1 DEF Locals, ActionStatus
<1>3. Schedule("record", done, others)
    BY <1>1 DEF Finish
<1>4. Rank("record") = 8 /\ Rank("execute") = 7 /\ \A pc : Rank(pc) \in Nat
    BY DEF Rank
<1>5. \A c \in others : c.run = run.number => Rank(c.activity) <= Rank(run.pc)
    BY DEF Inv, OrderInv
<1> HIDE DEF Rank
<1>6. Rank(run.pc) < Rank("record")
    BY <1>4
<1>7. \A c \in others : c.activity = "execute" => c.run # run.number
    BY <1>4, <1>5
<1>8. Ready("record", done)
    BY <1>2 DEF Ready, Locals
<1>9. Lineage(run.number, done) /\ Claims(done)
    BY <1>2 DEF Lineage, Claims
<1>10. "record" \in Activities
    BY DEF Activities
<1> QED
    BY <1>2, <1>3, <1>6, <1>7, <1>8, <1>9, <1>10, ScheduleStep

\* The run stops at pc, with the locals of the attempt it waited for.
LEMMA RestStep ==
    ASSUME Inv, NEW a \in attempts, Current(a), a.pc = "return",
           NEW pc \in {"awaiting", "done"}, Rank(run.pc) < Rank(pc),
           run' = [run EXCEPT !.pc = pc, !.attempt = 0, !.locals = a.locals],
           attempts' = attempts \ {a}, pending' = pending, Quiet,
           Ready(pc, a.locals), pc = "done" => Told(a.locals),
           a.locals.status # "none" => a.activity = "record"
    PROVE  Inv'
<1>1. /\ TypeOK /\ StoreInv /\ PlanInv /\ OrderInv /\ AttemptInv /\ RunInv
      /\ EffectInv
    BY DEF Inv
<1>2. /\ a \in Attempt /\ a.locals \in Locals
      /\ Shape(a) /\ Sent(a) /\ Traced(a) /\ Effect(a)
    BY AttemptFacts
<1>3. /\ run' \in Run /\ run'.number = run.number /\ run'.pc = pc
      /\ run'.attempt = 0 /\ run'.locals = a.locals
    BY <1>1, <1>2 DEF TypeOK, Run, Closed
<1>4. TypeOK'
    BY <1>1, <1>3 DEF TypeOK, Quiet
<1>5. \A c \in attempts' : c.activity # run'.pc
    BY <1>1, <1>3 DEF TypeOK, Attempt, Activities
<1>6. Rank(run.pc) <= Rank(run'.pc) /\ run'.pc # run.pc
  <2>1. \A p : Rank(p) \in Nat
    BY DEF Rank
  <2> HIDE DEF Rank
  <2> QED
    BY <1>3, <2>1
<1>7. run'.locals.status # "none" => \A c \in attempts' :
            c.activity = "execute" => c.run # run.number
    BY <1>1, <1>3 DEF OrderInv, Current
<1>8. RunInv'
  <2>1. Lineage(a.run, a.locals)' /\ Claims(a.locals)'
    BY <1>2 DEF Traced, Effect, Lineage, Claims, Quiet
  <2>2. Lineage(run.number, run.locals)' /\ Claims(run.locals)'
    BY <1>3, <2>1 DEF Current
  <2>3. run'.pc = "done" => Told(run.locals)'
    BY <1>3 DEF Told, Quiet
  <2>4. Ready(run.pc, run.locals)'
    BY <1>3 DEF Ready, Planned, Chosen, Approved, Permitted, Cleared
  <2> QED
    BY <2>2, <2>3, <2>4 DEF RunInv
<1>9. run'.pc # "execute"
    BY <1>3
<1> HIDE DEF Rank
<1> QED
    BY <1>1, <1>3, <1>4, <1>5, <1>6, <1>7, <1>8, <1>9, DropStep

\* A result resumes the run, which passes on what it has learned.
LEMMA ReturnStep ==
    ASSUME Inv, NEW a \in attempts, Return(a)
    PROVE  Inv'
<1>1. /\ TypeOK /\ StoreInv /\ PlanInv /\ OrderInv /\ AttemptInv /\ RunInv
      /\ EffectInv
    BY DEF Inv
<1>2. /\ a \in Attempt /\ a.locals \in Locals /\ a.activity \in Activities
      /\ Shape(a) /\ Sent(a) /\ Traced(a) /\ Effect(a)
    BY AttemptFacts DEF Attempt
<1>3. a.pc = "return" /\ Quiet /\ pending' = pending /\ pending' \in Seq(Signals)
    BY <1>1 DEF Return, Quiet, TypeOK
<1>4. CASE ~Current(a)
    BY <1>3, <1>4, DiscardStep DEF Return
<1>5. CASE Current(a)
  <2>1. AfterActivity(a) /\ a.run = run.number /\ a.activity = run.pc
    BY <1>5 DEF Return, Current
  <2>2. PICK others : others = attempts \ {a}
    OBVIOUS
  <2>3. Lineage(run.number, a.locals) /\ Claims(a.locals) /\ others \subseteq attempts
    BY <1>2, <2>1, <2>2 DEF Traced, Effect
  <2>4. /\ a.locals.version > 0 /\ a.locals.evidence \in Evidence
        /\ a.locals.plan_hash \in {NoHash, PlanFor[a.locals.evidence]}
        /\ a.locals.version # 0
    BY <1>2, <1>3 DEF Shape, Locals
  <2>5. /\ Rank("collect") = 1 /\ Rank("plan") = 2 /\ Rank("awaiting") = 3
        /\ Rank("verify") = 4 /\ Rank("policy") = 5 /\ Rank("rehearse") = 6
        /\ Rank("execute") = 7 /\ Rank("record") = 8 /\ Rank("done") = 9
    BY DEF Rank
  <2> HIDE DEF Rank
  <2>6. /\ "plan" \in Activities /\ "policy" \in Activities
        /\ "rehearse" \in Activities /\ "execute" \in Activities
        /\ "record" \in Activities
    BY DEF Activities
  <2>7. CASE a.activity = "collect"
    <3>1. Schedule("plan", a.locals, others)
        BY <2>1, <2>2, <2>7 DEF AfterActivity
    <3>2. Ready("plan", a.locals) /\ a.locals.status = "none"
        BY <1>2, <2>4, <2>7 DEF Shape, Ready
    <3>3. Rank(run.pc) < Rank("plan")
        BY <2>1, <2>5, <2>7
    <3> QED
        BY <1>2, <1>3, <2>3, <2>6, <3>1, <3>2, <3>3, ScheduleStep
  <2>8. CASE a.activity = "plan"
    <3>1. a.locals.status = "none" /\ Rank(run.pc) = 2
        BY <1>2, <2>1, <2>5, <2>8 DEF Shape
    <3>2. CASE a.locals.plan_hash = NoHash
        <4>1. Finish("escalate", a.locals, others)
            BY <2>1, <2>2, <2>8, <3>2 DEF AfterActivity
        <4>2. Rank(run.pc) < 7
            BY <3>1
        <4> QED
            BY <1>2, <1>3, <2>3, <2>4, <4>1, <4>2, FinishStep
    <3>3. CASE a.locals.plan_hash # NoHash
        <4>1. /\ run' = [run EXCEPT !.pc = "awaiting", !.attempt = 0,
                                    !.locals = a.locals]
              /\ attempts' = attempts \ {a}
            BY <2>1, <2>8, <3>3 DEF AfterActivity
        <4>2. Ready("awaiting", a.locals)
            BY <2>4, <3>1, <3>3 DEF Ready, Planned
        <4>3. Rank(run.pc) < Rank("awaiting")
            BY <2>5, <3>1
        <4> QED
            BY <1>3, <1>5, <3>1, <4>1, <4>2, <4>3, RestStep
    <3> QED
        BY <3>2, <3>3
  <2>9. CASE a.activity = "verify"
    <3>1. /\ a.locals.status = "none" /\ Chosen(a.locals)
          /\ a.locals.verified => a.locals.signal.genuine
        BY <1>2, <1>3, <2>9 DEF Shape
    <3>2. CASE a.locals.verified
        <4>1. Schedule("policy", a.locals, others)
            BY <2>1, <2>2, <2>9, <3>2 DEF AfterActivity
        <4>2. Approved(a.locals)
            BY <3>1, <3>2 DEF Approved
        <4>3. Ready("policy", a.locals)
            BY <2>4, <3>1, <4>2 DEF Ready
        <4>4. Rank(run.pc) < Rank("policy")
            BY <2>1, <2>5, <2>9
        <4> QED
            BY <1>2, <1>3, <2>3, <2>6, <3>1, <4>1, <4>3, <4>4, ScheduleStep
    <3>3. CASE ~a.locals.verified
        <4>1. Finish("escalate", a.locals, others)
            BY <2>1, <2>2, <2>9, <3>3 DEF AfterActivity
        <4>2. Rank(run.pc) < 7
            BY <2>1, <2>5, <2>9
        <4> QED
            BY <1>2, <1>3, <2>3, <2>4, <4>1, <4>2, FinishStep
    <3> QED
        BY <3>2, <3>3
  <2>10. CASE a.activity = "policy"
    <3>1. a.locals.status = "none" /\ Approved(a.locals)
        BY <1>2, <2>10 DEF Shape
    <3>2. CASE a.locals.allowed
        <4>1. Schedule("rehearse", a.locals, others)
            BY <2>1, <2>2, <2>10, <3>2 DEF AfterActivity
        <4>2. Permitted(a.locals)
            BY <3>1, <3>2 DEF Permitted
        <4>3. Ready("rehearse", a.locals)
            BY <2>4, <3>1, <4>2 DEF Ready
        <4>4. Rank(run.pc) < Rank("rehearse")
            BY <2>1, <2>5, <2>10
        <4> QED
            BY <1>2, <1>3, <2>3, <2>6, <3>1, <4>1, <4>3, <4>4, ScheduleStep
    <3>3. CASE ~a.locals.allowed
        <4>1. Finish("denied", a.locals, others)
            BY <2>1, <2>2, <2>10, <3>3 DEF AfterActivity
        <4>2. Rank(run.pc) < 7
            BY <2>1, <2>5, <2>10
        <4> QED
            BY <1>2, <1>3, <2>3, <2>4, <4>1, <4>2, FinishStep
    <3> QED
        BY <3>2, <3>3
  <2>11. CASE a.activity = "rehearse"
    <3>1. a.locals.status = "none" /\ Permitted(a.locals)
        BY <1>2, <2>11 DEF Shape
    <3>2. CASE a.locals.safe
        <4>1. Schedule("execute", a.locals, others)
            BY <2>1, <2>2, <2>11, <3>2 DEF AfterActivity
        <4>2. Cleared(a.locals)
            BY <3>1, <3>2 DEF Cleared
        <4>3. Ready("execute", a.locals)
            BY <2>4, <3>1, <4>2 DEF Ready
        <4>4. Rank(run.pc) < Rank("execute")
            BY <2>1, <2>5, <2>11
        <4> QED
            BY <1>2, <1>3, <2>3, <2>6, <3>1, <4>1, <4>3, <4>4, ScheduleStep
    <3>3. CASE ~a.locals.safe
        <4>1. Finish("escalate", a.locals, others)
            BY <2>1, <2>2, <2>11, <3>3 DEF AfterActivity
        <4>2. Rank(run.pc) < 7
            BY <2>1, <2>5, <2>11
        <4> QED
            BY <1>2, <1>3, <2>3, <2>4, <4>1, <4>2, FinishStep
    <3> QED
        BY <3>2, <3>3
  <2>12. CASE a.activity = "execute"
    <3>1. Schedule("record", a.locals, others)
        BY <2>1, <2>2, <2>12 DEF AfterActivity
    <3>2. a.locals.status # "none"
        BY <1>2, <1>3, <2>12 DEF Shape, BeforeAction, Holds
    <3>3. Ready("record", a.locals)
        BY <2>4, <3>2 DEF Ready
    <3>4. \A c \in others : c.activity = "execute" => c.run # run.number
        BY <1>1, <2>1, <2>2, <2>12 DEF OrderInv
    <3>5. Rank(run.pc) < Rank("record")
        BY <2>1, <2>5, <2>12
    <3> QED
        BY <1>2, <1>3, <2>3, <2>6, <3>1, <3>3, <3>4, <3>5, ScheduleStep
  <2>13. CASE a.activity = "record"
    <3>1. /\ run' = [run EXCEPT !.pc = "done", !.attempt = 0, !.locals = a.locals]
          /\ attempts' = attempts \ {a}
        BY <2>1, <2>13 DEF AfterActivity
    <3>2. Ready("done", a.locals) /\ Told(a.locals)
        BY <1>2, <1>3, <2>4, <2>13 DEF Ready, Shape, Traced
    <3>3. Rank(run.pc) < Rank("done")
        BY <2>1, <2>5, <2>13
    <3> QED
        BY <1>3, <1>5, <2>13, <3>1, <3>2, <3>3, RestStep
  <2> QED
    BY <1>2, <2>7, <2>8, <2>9, <2>10, <2>11, <2>12, <2>13 DEF Activities
<1> QED
    BY <1>4, <1>5

\* A set of positions has a first one.
LEMMA FirstPosition ==
    ASSUME NEW T, T \subseteq Nat, T # {}
    PROVE  \E i \in T : \A j \in T : i <= j
<1>1. PICK R : R = OpToRel(<, Nat)
    OBVIOUS
<1>2. IsWellFoundedOn(R, Nat)
    BY <1>1, NatLessThanWellFounded
<1>3. PICK i \in T : \A j \in T : ~(<<j, i>> \in R)
    BY <1>2, WFMin
<1>4. \A j \in T : <<j, i>> \in R <=> j < i
    BY <1>1 DEF OpToRel
<1>5. ASSUME NEW j \in T PROVE i <= j
  <2>1. ~(j < i)
    BY <1>3, <1>4
  <2>2. i \in Nat /\ j \in Nat
    OBVIOUS
  <2> QED
    BY <2>1, <2>2
<1> QED
    BY <1>5

\* The run stays where it is, and attempts are left alone.
LEMMA WaitStep ==
    ASSUME Inv, run' \in Run, run'.number = run.number, run'.pc = run.pc,
           run'.attempt = run.attempt, run'.locals = run.locals,
           attempts' = attempts, pending' \in Seq(Signals), Quiet
    PROVE  Inv'
<1>1. /\ TypeOK /\ StoreInv /\ PlanInv /\ OrderInv /\ AttemptInv /\ RunInv
      /\ EffectInv
    BY DEF Inv
<1>2. TypeOK'
    BY <1>1 DEF TypeOK, Quiet
<1>3. RunInv'
  <2>1. Lineage(run.number, run.locals)' /\ Claims(run.locals)'
    BY <1>1 DEF RunInv, Lineage, Claims, Quiet
  <2>2. Ready(run.pc, run.locals)'
    BY <1>1 DEF RunInv, Ready, Planned, Chosen, Approved, Permitted, Cleared
  <2>3. run'.pc = "done" => Told(run.locals)'
    BY <1>1 DEF RunInv, Told, Quiet
  <2> QED
    BY <2>1, <2>2, <2>3 DEF RunInv
<1>4. Rank(run.pc) <= Rank(run'.pc) /\ run.attempt <= run'.attempt
  <2>1. Rank(run.pc) \in Nat /\ run.attempt \in Nat
    BY <1>1, Types DEF Rank
  <2> HIDE DEF Rank
  <2> QED
    BY <2>1
<1>5. /\ run'.pc = "execute" => run'.attempt = 1
      /\ run'.locals.status # "none" => \A c \in attempts' :
            c.activity = "execute" => c.run # run.number
    BY <1>1 DEF OrderInv
<1> HIDE DEF Rank
<1> QED
    BY <1>1, <1>2, <1>3, <1>4, <1>5, DropStep

\* The approval wait: the first acceptable signal, or the deadline.
LEMMA AwaitStep ==
    ASSUME Inv, AwaitApproval
    PROVE  Inv'
<1>1. TypeOK /\ OrderInv /\ RunInv
    BY DEF Inv
<1>2. /\ run.pc = "awaiting" /\ Quiet /\ run.locals \in Locals /\ run \in Run
      /\ pending \in Seq(Signals)
    BY <1>1, Types DEF AwaitApproval, Quiet, TypeOK
<1>3. PICK locals \in Locals : locals = run.locals
    BY <1>2
<1>4. /\ locals.version > 0 /\ Planned(locals) /\ locals.status = "none"
      /\ locals.evidence \in Evidence
      /\ locals.plan_hash \in {NoHash, PlanFor[locals.evidence]}
      /\ Lineage(run.number, locals)
    BY <1>1, <1>2, <1>3 DEF RunInv, Ready, Planned
<1>5. Rank(run.pc) = 3 /\ Rank("verify") = 4
    BY <1>2 DEF Rank
<1>6. Rank(run.pc) < Rank("verify") /\ Rank(run.pc) < 7
    BY <1>5
<1> HIDE DEF Rank
<1>7. /\ Len(pending) \in Nat /\ DOMAIN pending = 1..Len(pending)
      /\ \A i \in 1..Len(pending) : pending[i] \in Signals
    BY <1>2, ElementOfSeq, LenProperties
<1> DEFINE accepted == {i \in DOMAIN pending : Accepted(pending[i])}
           first == CHOOSE i \in accepted : \A j \in accepted : i <= j
<1>8. CASE accepted # {}
  <2>1. PICK i : i = first
    OBVIOUS
  <2>2. i \in accepted
    <3>1. accepted \subseteq Nat
        BY <1>7
    <3>2. \E k \in accepted : \A j \in accepted : k <= j
      <4> HIDE DEF accepted
      <4> QED
        BY <1>8, <3>1, FirstPosition
    <3> HIDE DEF accepted
    <3> QED
        BY <2>1, <3>2
  <2>3. /\ pending' = SubSeq(pending, i + 1, Len(pending))
        /\ Schedule("verify", [run.locals EXCEPT !.signal = pending[i]], attempts)
    BY <1>8, <2>1 DEF AwaitApproval
  <2>4. /\ i \in 1..Len(pending) /\ pending[i] \in Signals
        /\ pending[i].workflow_id = Workflow
        /\ pending[i].plan_hash = locals.plan_hash
    BY <1>3, <1>7, <2>2 DEF Accepted
  <2>5. pending' \in Seq(Signals)
    <3>1. \A j \in (i + 1)..Len(pending) : pending[j] \in Signals
        BY <1>7, <2>4
    <3>2. i + 1 \in Int /\ Len(pending) \in Int
        BY <1>7, <2>4
    <3> QED
        BY <2>3, <3>1, <3>2, SubSeqProperties
  <2>6. PICK new : new = [locals EXCEPT !.signal = pending[i]]
    OBVIOUS
  <2>7. /\ new \in Locals /\ new.signal = pending[i]
        /\ new.version = locals.version /\ new.evidence = locals.evidence
        /\ new.plan_hash = locals.plan_hash /\ new.status = "none"
    BY <1>4, <2>4, <2>6 DEF Locals
  <2>8. Schedule("verify", new, attempts)
    BY <1>3, <2>3, <2>6
  <2>9. Chosen(new)
    BY <1>4, <2>4, <2>7 DEF Chosen, Planned
  <2>10. Ready("verify", new)
    BY <1>4, <2>7, <2>9 DEF Ready
  <2>11. Lineage(run.number, new) /\ Claims(new)
    BY <1>4, <2>7 DEF Lineage, Claims
  <2>12. "verify" \in Activities
    BY DEF Activities
  <2> QED
    BY <1>2, <1>6, <2>5, <2>7, <2>8, <2>10, <2>11, <2>12, ScheduleStep
<1>9. CASE accepted = {}
  <2>1. pending' = <<>> /\ pending' \in Seq(Signals)
    BY <1>9, EmptySeq DEF AwaitApproval
  <2>2. CASE run.late
    <3>1. Finish("escalate", locals, attempts)
        BY <1>3, <1>9, <2>2 DEF AwaitApproval
    <3> QED
        BY <1>2, <1>4, <1>6, <2>1, <3>1, FinishStep
  <2>3. CASE ~run.late
    <3>1. run' = run /\ attempts' = attempts
        BY <1>9, <2>3 DEF AwaitApproval
    <3> QED
        BY <1>2, <2>1, <3>1, WaitStep
  <2> QED
    BY <2>2, <2>3
<1> QED
    BY <1>8, <1>9

\* A signal is queued, or the deadline of the wait passes.
LEMMA SignalStep ==
    ASSUME Inv, NEW signal \in Signals, SubmitApproval(signal)
    PROVE  Inv'
<1>1. TypeOK
    BY DEF Inv
<1>2. /\ pending' \in Seq(Signals)
    BY <1>1, AppendProperties DEF SubmitApproval, TypeOK
<1>3. run' = run /\ run \in Run /\ attempts' = attempts /\ Quiet
    BY <1>1 DEF SubmitApproval, TypeOK, Quiet
<1> QED
    BY <1>2, <1>3, WaitStep

\* The timer of the approval fires.
LEMMA DeadlineStep ==
    ASSUME Inv, DeadlinePasses
    PROVE  Inv'
<1>1. TypeOK
    BY DEF Inv
<1>2. /\ run' \in Run /\ run'.number = run.number /\ run'.pc = run.pc
      /\ run'.attempt = run.attempt /\ run'.locals = run.locals
    BY <1>1 DEF DeadlinePasses, TypeOK, Run
<1>3. attempts' = attempts /\ pending' \in Seq(Signals) /\ Quiet
    BY <1>1 DEF DeadlinePasses, TypeOK, Quiet
<1> QED
    BY <1>2, <1>3, WaitStep

\* The server gives up on an attempt that keeps executing.
LEMMA TimeOutStep ==
    ASSUME Inv, NEW a \in attempts, AttemptTimesOut(a)
    PROVE  Inv'
<1>1. run.pc \in Activities
    BY DEF AttemptTimesOut, Current, Inv, TypeOK, Attempt
<1>2. Retry(attempts) /\ Quiet /\ pending' = pending
    BY DEF AttemptTimesOut, Quiet
<1> QED
    BY <1>1, <1>2, RetryStep

\* A request is started again: whatever still executes belongs to older runs.
LEMMA StartAgainStep ==
    ASSUME Inv, StartAgain
    PROVE  Inv'
<1>1. /\ TypeOK /\ StoreInv /\ PlanInv /\ OrderInv /\ AttemptInv /\ RunInv
      /\ EffectInv
    BY DEF Inv
<1>2. run.number \in 1..MaxRuns /\ MaxRuns \in Nat /\ run.number < MaxRuns
    BY <1>1, Types, RemediationConstants DEF StartAgain
<1>3. PICK n : n = run.number + 1
    OBVIOUS
<1>4. n \in 1..MaxRuns /\ n \in Nat /\ run.number < n /\ run.number \in Nat
    BY <1>2, <1>3
<1>5. /\ NewLocals \in Locals /\ Ready("collect", NewLocals)
      /\ NewLocals.version = 0 /\ NewLocals.status = "none"
    BY NewLocalsOf
<1>6. PICK b : b = NewAttempt(n, "collect", 1, NewLocals)
    OBVIOUS
<1>7. /\ b \in Attempt /\ b.run = n /\ b.activity = "collect" /\ b.number = 1
      /\ b.pc = "begin" /\ b.locals = NewLocals
  <2>1. "collect" \in Activities
    BY DEF Activities
  <2> QED
    BY <1>4, <1>5, <1>6, <2>1, NewAttemptOf
<1>8. /\ run' = NewRun(n) /\ pending' = <<>> /\ attempts' = attempts \union {b}
      /\ Quiet
    BY <1>3, <1>6 DEF StartAgain, Quiet
<1>9. /\ run' \in Run /\ run'.number = n /\ run'.pc = "collect"
      /\ run'.attempt = 1 /\ run'.locals = NewLocals
  <2> HIDE DEF NewLocals
  <2> QED
    BY <1>4, <1>5, <1>8 DEF NewRun, Run, Activities
<1>10. TypeOK'
    BY <1>1, <1>7, <1>8, <1>9, EmptySeq DEF TypeOK, Quiet
<1>11. OrderInv'
  <2>1. \A c \in attempts : /\ c.run \in Nat /\ c.number \in Nat
                            /\ c.run <= run.number
                            /\ c.activity = "execute" => c.number = 1
    BY <1>1 DEF OrderInv, TypeOK, Attempt
  <2>2. \A c \in attempts : c.run <= n /\ c.run # n
    BY <1>4, <2>1
  <2>3. Behind(attempts)
    BY <1>9, <2>1, <2>2 DEF Behind
  <2>4. Distinct(attempts)
    BY <1>1 DEF OrderInv, Distinct
  <2>5. /\ b.run = run'.number /\ b.activity = run'.pc /\ b.number = run'.attempt
        /\ run'.number \in Nat /\ run'.attempt \in Nat /\ run'.pc # "execute"
        /\ attempts' = attempts \union {b}
    BY <1>4, <1>7, <1>8, <1>9
  <2> QED
    BY <2>3, <2>4, <2>5, OrderStart
<1>12. Lineage(b.run, b.locals) /\ Claims(b.locals)
  <2>1. Len(trail) \in Nat
    BY <1>1, Types
  <2> QED
    BY <1>5, <1>7, <2>1 DEF Lineage, Claims
<1>13. run.number <= run'.number /\ run'.number # run.number
    BY <1>4, <1>9
<1>14. Ready(run'.pc, run'.locals) /\ run'.pc # "execute"
    BY <1>5, <1>9
<1>15. /\ b.run = run'.number /\ b.activity = run'.pc /\ b.locals = run'.locals
    BY <1>7, <1>9
<1> QED
    BY <1>1, <1>7, <1>8, <1>10, <1>11, <1>12, <1>13, <1>14, <1>15, StartStep

-----------------------------------------------------------------------------
(* The invariant holds *)

\* The invariant holds before the first run.
LEMMA InitInv == Init => Inv
<1> SUFFICES ASSUME Init PROVE Inv
    OBVIOUS
<1>1. /\ NewLocals \in Locals /\ Ready("collect", NewLocals)
      /\ NewLocals.version = 0 /\ NewLocals.status = "none"
    BY NewLocalsOf
<1>2. PICK locals : locals = NewLocals
    OBVIOUS
<1>3. PICK b : b = NewAttempt(1, "collect", 1, locals)
    OBVIOUS
<1>4. 1 \in 1..MaxRuns
    BY RemediationConstants
<1>5. /\ b \in Attempt /\ b.run = 1 /\ b.activity = "collect" /\ b.number = 1
      /\ b.pc = "begin" /\ b.locals = locals
  <2>1. "collect" \in Activities
    BY DEF Activities
  <2> QED
    BY <1>1, <1>2, <1>3, <1>4, <2>1, NewAttemptOf
<1>6. attempts = {b} /\ run = [number |-> 1, pc |-> "collect", attempt |-> 1,
                               locals |-> locals, late |-> FALSE]
    BY <1>2, <1>3 DEF Init, NewRun
<1>7. /\ run \in Run /\ run.number = 1 /\ run.pc = "collect" /\ run.attempt = 1
      /\ run.locals = locals
    BY <1>1, <1>2, <1>4, <1>6 DEF Run, Activities
<1>8. record = NoRecord /\ NoRecord \in WorkflowRecord /\ record.version = 0
    BY RemediationConstants
    DEF Init, record, NoRecord, WorkflowRecord, Statuses
<1>9. Len(trail) = 0 /\ trail = <<>> /\ DOMAIN trail = {} /\ receipts = {}
    BY DEF Init
<1>10. /\ Len(mutations) = 0 /\ mutations = <<>> /\ DOMAIN mutations = {}
       /\ rollbacks = 0
    BY DEF Init
<1>11. TypeOK
    BY <1>5, <1>6, <1>7, <1>8, EmptySeq DEF TypeOK, Init
<1>12. StoreInv
    BY <1>8, <1>9 DEF StoreInv
<1>13. PlanInv
    BY <1>9 DEF PlanInv
<1>14. OrderInv
    BY <1>1, <1>2, <1>5, <1>6, <1>7 DEF OrderInv, Rank
<1>15. Lineage(b.run, b.locals) /\ Lineage(run.number, run.locals)
    BY <1>1, <1>2, <1>5, <1>7, <1>9 DEF Lineage
<1>16. Claims(b.locals) /\ Claims(run.locals)
    BY <1>1, <1>2, <1>5, <1>7 DEF Claims
<1>17. AttemptInv
  <2>1. Shape(b) /\ Sent(b)
    <3>1. /\ b.activity \in Activities /\ b.locals \in Locals
          /\ Ready(b.activity, b.locals)
        BY <1>1, <1>2, <1>5 DEF Activities
    <3> QED
        BY <1>5, <3>1, BeginShape
  <2>2. Traced(b)
    BY <1>5, <1>15 DEF Traced
  <2>3. Effect(b)
    BY <1>5, <1>10, <1>16 DEF Effect, BeforeAction
  <2> QED
    BY <1>6, <2>1, <2>2, <2>3 DEF AttemptInv
<1>18. RunInv
    BY <1>1, <1>2, <1>7, <1>15, <1>16 DEF RunInv
<1>19. EffectInv
    BY <1>10 DEF EffectInv
<1> QED
    BY <1>11, <1>12, <1>13, <1>14, <1>17, <1>18, <1>19 DEF Inv

\* Every step keeps the invariant.
LEMMA NextInv == Inv /\ [Next]_vars => Inv'
<1> SUFFICES ASSUME Inv, [Next]_vars PROVE Inv'
    OBVIOUS
<1>1. ASSUME NEW a \in attempts, AttemptStep(a) PROVE Inv'
  <2>1. CASE Begin(a)
    BY <2>1, BeginStep
  <2>2. CASE Commit(a)
    BY <2>2, CommitStep
  <2>3. CASE CommitRefused(a)
    BY <2>3, RaiseStep DEF CommitRefused, Quiet
  <2>4. CASE Export(a)
    BY <2>4, ExportStep
  <2>5. CASE ExportRefused(a)
    BY <2>5, RaiseStep DEF ExportRefused, Quiet
  <2>6. CASE Mutate(a)
    BY <2>6, MutateStep
  <2>7. CASE Settle(a)
    BY <2>7, SettleStep
  <2>8. CASE Return(a)
    BY <2>8, ReturnStep
  <2> QED
    BY <1>1, <2>1, <2>2, <2>3, <2>4, <2>5, <2>6, <2>7, <2>8 DEF AttemptStep
<1>2. ASSUME NEW a \in attempts, AttemptFails(a) PROVE Inv'
    BY <1>2, RaiseStep DEF AttemptFails, Quiet
<1>3. ASSUME NEW a \in attempts, AttemptTimesOut(a) PROVE Inv'
    BY <1>3, TimeOutStep
<1>4. CASE UNCHANGED vars
  <2>1. run \in Run /\ pending \in Seq(Signals)
    BY DEF Inv, TypeOK
  <2>2. Quiet /\ run' = run /\ attempts' = attempts /\ pending' = pending
    BY <1>4 DEF vars, Quiet
  <2> QED
    BY <2>1, <2>2, WaitStep
<1> QED
    BY <1>1, <1>2, <1>3, <1>4, SignalStep, DeadlineStep, AwaitStep, StartAgainStep
    DEF Next

\* The invariant of the durable remediation loop, for every retry budget,
\* number of runs and interleaving of the attempts left over.
THEOREM WorkflowInvariant == Spec => []Inv
    BY InitInv, NextInv, PTL DEF Spec

-----------------------------------------------------------------------------
(* What follows *)

\* The state has its type in every behaviour.
THEOREM TypeCorrect == Spec => []TypeOK
<1>1. Inv => TypeOK
    BY DEF Inv
<1> QED
    BY <1>1, WorkflowInvariant, PTL

\* persist_workflow_lifecycle: no step advances without its audit export, for
\* any interleaving of attempts of any number of runs.
THEOREM ExportBeforeAdvance == Spec => []AuditTrailsState
<1>1. ASSUME Inv PROVE AuditTrailsState
    BY <1>1 DEF Inv, StoreInv, RunInv, AttemptInv, Traced, Lineage, AuditTrailsState
<1> QED
    BY <1>1, WorkflowInvariant, PTL

\* No silent retry of a mutation: execute_action reaches the adapter at most
\* once per request, whatever is retried, times out or is started again.
THEOREM NoSecondMutation == Spec => []MutationOnce
<1>1. ASSUME Inv PROVE MutationOnce
    BY <1>1
    DEF Inv, EffectInv, AttemptInv, Shape, Effect, BeforeAction, MutationOnce
<1> QED
    BY <1>1, WorkflowInvariant, PTL

\* execute_action changes production only for the plan on record, under a
\* genuine approval of it, and after the log says so.
THEOREM OnlyAuthorisedMutation == Spec => []MutationAuthorised
<1>1. ASSUME Inv PROVE MutationAuthorised
  <2>1. SUFFICES ASSUME NEW i \in DOMAIN mutations
                 PROVE  /\ mutations[i].locals.signal.genuine
                        /\ mutations[i].locals.signal.workflow_id = Workflow
                        /\ mutations[i].locals.signal.plan_hash = record.plan_hash
                        /\ mutations[i].locals.allowed /\ mutations[i].locals.safe
                        /\ \E j \in Exported("executing") :
                               trail[j].event.plan_hash =
                                   mutations[i].locals.signal.plan_hash
    BY DEF MutationAuthorised
  <2>2. PICK locals : locals = mutations[i].locals
    OBVIOUS
  <2>3. Cleared(locals) /\ Announced(locals)
    BY <1>1, <2>2 DEF Inv, EffectInv
  <2>4. /\ locals.signal.genuine /\ locals.signal.workflow_id = Workflow
        /\ locals.signal.plan_hash = locals.plan_hash
        /\ locals.plan_hash # NoHash /\ locals.allowed /\ locals.safe
    BY <2>3 DEF Cleared, Permitted, Approved, Chosen, Planned
  <2>5. PICK j \in DOMAIN trail : /\ trail[j].event.event_id = "executing"
                                  /\ trail[j].event.plan_hash = locals.plan_hash
    BY <2>3 DEF Announced
  <2>6. j \in Exported("executing")
    BY <2>5 DEF Exported
  <2>7. trail[j] \in receipts
    BY <1>1 DEF Inv, StoreInv
  <2>8. locals.plan_hash = record.plan_hash
    BY <1>1, <2>4, <2>5, <2>7 DEF Inv, PlanInv
  <2> QED
    BY <2>2, <2>4, <2>5, <2>6, <2>8
<1> QED
    BY <1>1, WorkflowInvariant, PTL

\* A run that returned told the truth about the record, the log and what
\* happened to production.
THEOREM OutcomeTold == Spec => []OutcomeIsTrue
<1>1. ASSUME Inv PROVE OutcomeIsTrue
  <2> SUFFICES ASSUME run.pc = "done"
               PROVE  /\ record.status = TerminalStatus(run.locals.status)
                      /\ Len(trail) = record.version
                      /\ record.status \in {"succeeded", "rolled_back"} =>
                            Len(mutations) = 1
                      /\ record.status = "rolled_back" => rollbacks = 1
                      /\ record.status = "succeeded" => rollbacks = 0
                      /\ \A a \in attempts : a.pc \notin {"loop", "mutated"}
    BY DEF OutcomeIsTrue
  <2>1. /\ TypeOK /\ StoreInv /\ PlanInv /\ OrderInv /\ AttemptInv /\ RunInv
    BY <1>1 DEF Inv
  <2>2. PICK v : v = run.locals.version
    OBVIOUS
  <2>3. /\ v \in DOMAIN trail /\ trail[v].event.event_id = "outcome"
        /\ trail[v].event.body.status = run.locals.status
        /\ Ready(run.pc, run.locals) /\ Claims(run.locals)
    BY <2>1, <2>2 DEF RunInv, Told
  <2>4. trail[v] \in receipts /\ trail[v].record.version = v
    BY <2>1, <2>3 DEF StoreInv
  <2>5. /\ trail[v].record = record
        /\ trail[v].event.to_status = TerminalStatus(run.locals.status)
        /\ trail[v].record.status = trail[v].event.to_status
    BY <2>1, <2>3, <2>4 DEF PlanInv, StoreInv
  <2>6. record.status = TerminalStatus(run.locals.status)
    BY <2>5
  <2>7. Len(trail) = record.version
    <3>1. Len(trail) \in Nat /\ DOMAIN trail = 1..Len(trail)
        BY <2>1, Types
    <3>2. record.version = v /\ record.version \in {Len(trail), Len(trail) + 1}
        BY <2>1, <2>4, <2>5 DEF StoreInv
    <3> QED
        BY <2>3, <3>1, <3>2
  <2>8. run.locals.status \in ActionStatus
    BY <2>1, Types DEF Locals
  <2>9. /\ record.status = "succeeded" <=> run.locals.status = "succeeded"
        /\ record.status = "rolled_back" <=> run.locals.status = "rolled_back"
    BY <2>6, <2>8, TerminalStatusType
  <2>10. \A a \in attempts : a.pc \notin {"loop", "mutated"}
    <3> SUFFICES ASSUME NEW a \in attempts, a.pc \in {"loop", "mutated"}
                 PROVE  FALSE
        OBVIOUS
    <3>1. a.activity = "execute" /\ a.locals.status = "none"
        BY <2>1 DEF AttemptInv, Shape, BeforeAction
    <3>2. run.locals.status = "none"
        BY <1>1, <3>1, OthersIdle
    <3> QED
        BY <2>3, <3>2 DEF Ready
  <2> QED
    BY <2>3, <2>6, <2>7, <2>9, <2>10 DEF Claims
<1> QED
    BY <1>1, WorkflowInvariant, PTL

=============================================================================
