------------------------- MODULE KnowledgeMaintenance -------------------------
(***************************************************************************)
(* Review-only maintenance of knowledge: the planner over the stored       *)
(* documents (company_brain/maintenance.py, intelligence/knowledge_        *)
(* decay.py) and the correlation of a proposal, a human decision and a     *)
(* later observation of the source (maintenance_outcomes.py), with the     *)
(* commands that run them.                                                 *)
(*                                                                         *)
(* The documents share one kind and title.  Decisions and observations are *)
(* artifacts people write; an observation is what its observer saw.        *)
(***************************************************************************)
EXTENDS Integers, Sequences, FiniteSets

CONSTANTS
    Docs, SourceRevisions,
    People,             \* reviewers and observers
    StaleAfterDays,     \* MemoryMaintenancePolicy.stale_after_days
    MaxEdits, MaxProjections, MaxPlans, MaxDecisions, MaxObservations, MaxOutcomes,   \* bounds
    Absent

VARIABLES
    history,        \* the source system: each document's revisions, with times
    stored,         \* the documents in Company Brain
    owned,          \* documents with an accountable owner in Company Brain
    planner,        \* the plan under way
    edits, projections, plans,      \* how many so far
    proposals, decisions, observations, outcomes

maintenance ==
    <<history, stored, owned, planner, edits, projections, plans,
      proposals, decisions, observations, outcomes>>

reviewed == <<proposals, decisions, observations, outcomes>>

MinutesPerDay == 24 * 60

CurrentRevision(d) == history[d][Len(history[d])].revision

InitMaintenance ==
    /\ history = [d \in Docs |-> <<[revision |-> CHOOSE r \in SourceRevisions : TRUE, since |-> 0]>>]
    /\ stored = [d \in Docs |-> Absent] /\ owned = {}
    /\ planner = Absent /\ edits = 0 /\ projections = 0 /\ plans = 0
    /\ proposals = {} /\ decisions = {} /\ observations = {} /\ outcomes = {}

\* The source system: an edit may return to an earlier revision.
EditSource(d, r, now) ==
    /\ edits < MaxEdits /\ r # CurrentRevision(d)
    /\ edits' = edits + 1
    /\ history' = [history EXCEPT ![d] = Append(@, [revision |-> r, since |-> now])]
    /\ UNCHANGED <<stored, owned, planner, projections, plans, reviewed>>

\* The projection of a document: a new version of its entity, with its source
\* timestamp if the source gave a valid one, and with or without an owner.
ProjectDocument(d, updated, hasOwner) ==
    LET version == IF stored[d] = Absent THEN 1 ELSE stored[d].version + 1
    IN /\ projections < MaxProjections /\ projections' = projections + 1
       /\ stored[d] # Absent => stored[d].revision # CurrentRevision(d)
       /\ stored' = [stored EXCEPT ![d] =
             [version |-> version, revision |-> CurrentRevision(d), updated |-> updated]]
       /\ owned' = IF hasOwner THEN owned \union {d} ELSE owned \ {d}
       /\ UNCHANGED <<history, planner, edits, plans, reviewed>>

-----------------------------------------------------------------------------
(* The planner *)

\* _source_updated_at: Absent when the attribute is missing or malformed.
Dated(docs, d) == docs[d].updated # Absent

\* The age of a KnowledgeRecord counts whole days.
Stale(docs, d, now) ==
    Dated(docs, d) /\ (now - docs[d].updated) \div MinutesPerDay > StaleAfterDays

\* detect_knowledge_decay over the stored documents, and the missing source
\* timestamp.
Findings(docs, owners, now) ==
    LET known == {d \in Docs : docs[d] # Absent}
        contested == Cardinality({docs[d].revision : d \in known}) > 1
    IN {f \in [doc : known, kind : {"stale", "missing-owner", "conflict", "missing-source-freshness"}] :
            \/ f.kind = "stale" /\ Stale(docs, f.doc, now)
            \/ f.kind = "missing-owner" /\ f.doc \notin owners
            \/ f.kind = "conflict" /\ contested
            \/ f.kind = "missing-source-freshness" /\ ~Dated(docs, f.doc)}

\* MemoryMaintenanceProposal, as _proposal_for makes it: the id is made of the
\* source's version and revision and of the finding, and no time.
Proposal(docs, f) ==
    [source |-> f.doc, version |-> docs[f.doc].version,
     revision |-> docs[f.doc].revision, finding |-> f.kind]

\* MemoryMaintenancePlan: one proposal for each finding.
Plan(docs, owners, now) == {Proposal(docs, f) : f \in Findings(docs, owners, now)}

\* plan_company_brain_maintenance: list_entities, then list_relationships.
PlanEntities ==
    /\ planner = Absent /\ plans < MaxPlans
    /\ planner' = stored /\ plans' = plans + 1
    /\ UNCHANGED <<history, stored, owned, edits, projections, reviewed>>

PlanRelationships(now) ==
    /\ planner # Absent
    /\ proposals' = proposals \union Plan(planner, owned, now)
    /\ planner' = Absent
    /\ UNCHANGED <<history, stored, owned, edits, projections, plans, decisions, observations, outcomes>>

-----------------------------------------------------------------------------
(* Decisions, observations, outcomes *)

Decide(p, disposition, by, now) ==
    /\ Cardinality(decisions) < MaxDecisions
    /\ decisions' = decisions \union
          {[proposal |-> p, source |-> p.source, version |-> p.version, revision |-> p.revision,
            disposition |-> disposition, by |-> by, at |-> now]}
    /\ UNCHANGED <<history, stored, owned, planner, edits, projections, plans, proposals, observations, outcomes>>

\* Made for a proposal, before or after its decision.
Observe(p, by, now) ==
    /\ Cardinality(observations) < MaxObservations
    /\ observations' = observations \union
          {[source |-> p.source, revision |-> CurrentRevision(p.source), by |-> by, at |-> now]}
    /\ UNCHANGED <<history, stored, owned, planner, edits, projections, plans, proposals, decisions, outcomes>>

\* _assert_decision_matches_proposal
DecisionMatches(p, dec) ==
    /\ dec.proposal = p
    /\ <<dec.source, dec.version, dec.revision>> = <<p.source, p.version, p.revision>>

\* Mutant: the time of the observation is not compared.
ObservationMatchesAnyTime(p, dec, o) ==
    /\ o.source = p.source /\ o.revision # p.revision
    /\ o.by # dec.by

\* _assert_observation_matches_proposal
ObservationMatches(p, dec, o) ==
    /\ o.source = p.source /\ o.revision # p.revision
    /\ o.by # dec.by
    /\ o.at >= dec.at

\* _outcome_for, as MaintenanceOutcome.__post_init__ demands it.
OutcomeState(dec, o) ==
    CASE dec.disposition # "accepted" -> dec.disposition
      [] dec.disposition = "accepted" /\ o = Absent -> "accepted-awaiting-source-observation"
      [] OTHER -> "verified-source-revision"

\* evaluate_maintenance_outcome; a combination it refuses has no outcome.
Evaluate(p, dec, o) ==
    /\ DecisionMatches(p, dec) /\ Cardinality(outcomes) < MaxOutcomes
    /\ o # Absent => dec.disposition = "accepted" /\ ObservationMatches(p, dec, o)
    /\ outcomes' = outcomes \union
          {[proposal |-> p, decision |-> dec, observation |-> o, state |-> OutcomeState(dec, o)]}
    /\ UNCHANGED <<history, stored, owned, planner, edits, projections, plans, proposals, decisions, observations>>

NextMaintenance(now) ==
    \/ \E d \in Docs, r \in SourceRevisions : EditSource(d, r, now)
    \/ \E d \in Docs, u \in {Absent, now}, own \in BOOLEAN : ProjectDocument(d, u, own)
    \/ PlanEntities
    \/ PlanRelationships(now)
    \/ \E p \in proposals, s \in {"accepted", "rejected", "expired"}, by \in People :
          Decide(p, s, by, now)
    \/ \E p \in proposals, by \in People : Observe(p, by, now)
    \/ \E p \in proposals, dec \in decisions, o \in observations \union {Absent} : Evaluate(p, dec, o)

-----------------------------------------------------------------------------
(* Properties *)

\* A verified outcome (evaluate_maintenance_outcome) means that somebody else
\* than the reviewer of an accepted proposal saw the source at a revision
\* other than the proposal's, and that the source did have another revision
\* at some time from the review on, even when sources are edited back and
\* decisions, observations and projections come in any order.
OutcomeIsEarned ==
    \A o \in outcomes : o.state = "verified-source-revision" =>
        /\ o.decision.disposition = "accepted" /\ o.observation.by # o.decision.by
        /\ LET h == history[o.proposal.source]
           IN \E i \in 1..Len(h) :
                 /\ h[i].revision # o.proposal.revision
                 /\ i < Len(h) => h[i + 1].since >= o.decision.at
=============================================================================
