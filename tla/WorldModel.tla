------------------------------ MODULE WorldModel ------------------------------
(***************************************************************************)
(* The qualified context of a change: which stored relationships may drive *)
(* a decision (company_brain/world_model.py), the adapter that decides     *)
(* whether the whole context qualifies (product/pr_guardian/company_       *)
(* brain.py), the decision context and its bounded packet                  *)
(* (decision_context.py, context_packet.py), and the health of the packet  *)
(* (context_health.py, decision_brief.py).                                 *)
(*                                                                         *)
(* Everything here is a function of a view: what the three list calls of   *)
(* one query returned, which need not be the store at one moment.          *)
(*   entities  the active entities                                         *)
(*   evidence  evidence id -> [at, acl], an id being <<source, revision>>  *)
(*   edges     [kind, from, to] -> the evidence ids it rests on            *)
(* Confidence is in hundredths, time in minutes.                           *)
(***************************************************************************)
EXTENDS Integers, Sequences, FiniteSets, FiniteSetsExt, SequencesExt

CONSTANTS
    Repo, Services, OwnerIds,   \* the entities, by kind
    SourceKindOf,               \* the kind of each source of evidence
    EdgeOrder,                  \* the edge keys in the order of their sort key
    MaxRelationships,           \* ContextPacketBudget.maximum_relationships,
    MaxEvidence,                \* .maximum_evidence,
    MaxItems,                   \* .maximum_limitations and .maximum_conflicts,
    MaxRendered                 \* .maximum_rendered_bytes, in units of Rendered

ASSUME EdgeOrderIsSequence == EdgeOrder \in Seq(Range(EdgeOrder))

\* The projectors relate an owner to what it owns (projector.py).
ASSUME OwnersOwn == \A k \in Range(EdgeOrder) : k.kind = "owns" => k.from \in OwnerIds

ASSUME BudgetIsNatural == MaxEvidence \in Nat /\ MaxItems \in Nat

Edge(kind, from, to) == [kind |-> kind, from |-> from, to |-> to]

DayInMinutes == 24 * 60

\* _DEFAULT_SOURCE_TRUST and WorldModelPolicy.default_rule
SourceTrust(kind) ==
    CASE kind = "adr"               -> [confidence |-> 98, days |-> 365]
      [] kind = "conversation"      -> [confidence |-> 45, days |-> 30]
      [] kind = "deployment"        -> [confidence |-> 80, days |-> 30]
      [] kind = "documentation"     -> [confidence |-> 70, days |-> 180]
      [] kind = "incident"          -> [confidence |-> 75, days |-> 90]
      [] kind = "repository-change" -> [confidence |-> 85, days |-> 45]
      [] kind = "runbook"           -> [confidence |-> 82, days |-> 90]
      [] kind = "work_item"         -> [confidence |-> 65, days |-> 120]
      [] OTHER                      -> [confidence |-> 40, days |-> 30]

MinimumConfidence == 70

TrustOf(e) == SourceTrust(SourceKindOf[e[1]])

\* _qualify_evidence: evidence observed after the query began has age zero.
Fresh(view, e, now) == now - view.evidence[e].at <= TrustOf(e).days * DayInMinutes

\* _combine_confidence against minimum_confidence: 1 - prod(1 - c) >= 0.70.
Confident(support) ==
    FoldSet(LAMBDA e, doubt : doubt * (100 - TrustOf(e).confidence), 1, support) * 100
        <= (100 - MinimumConfidence) * 100^Cardinality(support)

\* _qualify_relationship
Qualify(view, principal, now, k) ==
    LET known == view.edges[k] \intersect DOMAIN view.evidence
        authorized == {e \in known : view.evidence[e].acl \intersect principal # {}}
        fresh == {e \in authorized : Fresh(view, e, now)}
    IN [evidence |-> authorized, fresh |-> fresh, withheld |-> known # authorized,
        freshness |-> IF authorized = {} THEN "unknown" ELSE IF fresh = {} THEN "stale" ELSE "fresh",
        usable |-> fresh # {} /\ Confident(fresh)]

-----------------------------------------------------------------------------
(* context_for_change *)

\* _detect_conflicts, the direct dependency cycles.
Cyclic(q, k) ==
    LET reverse == Edge("depends_on", k.to, k.from)
    IN /\ k.kind = "depends_on" /\ q[k].usable
       /\ reverse \in DOMAIN q /\ q[reverse].usable

OwnersOf(q, view, s) ==
    {k.from : k \in {k \in DOMAIN q : /\ k.kind = "owns" /\ k.to = s /\ q[k].usable
                                      /\ k.from \in view.entities \intersect OwnerIds}}

\* _detect_conflicts: each conflict with the entities it names.
Conflicts(q, view) ==
    {[kind |-> "dependency_cycle", about |-> {k.from, k.to}] : k \in {k \in DOMAIN q : Cyclic(q, k)}}
    \union {[kind |-> "ambiguous_ownership", about |-> {s} \union OwnersOf(q, view, s)] :
                s \in {s \in {k.to : k \in DOMAIN q} : Cardinality(OwnersOf(q, view, s)) > 1}}

\* Nothing outside a set of services depends on one inside it.
Closed(arrows, T) == \A k \in arrows : k.to \in T => k.from \in T

\* Everything the walk against the arrows reaches from a set of services: the
\* least closed set around it.
Dependents(arrows, from) ==
    LET all == Services \union from
    IN {s \in all : \A T \in SUBSET all : from \subseteq T /\ Closed(arrows, T) => s \in T}

Dependencies(keys, entities) ==
    {k \in keys : k.kind = "depends_on" /\ {k.from, k.to} \subseteq entities \intersect Services}

\* Mutant: a relationship without authorized evidence does not limit.
LimitationsHidden(requested, changed, relevant, conflicts) ==
    {l \in {"unmapped", "stale", "withheld", "unusable", "conflicts", "none_usable"} :
        \/ l = "unmapped" /\ requested # changed
        \/ l = "stale" /\ \E r \in relevant : r.freshness = "stale"
        \/ l = "conflicts" /\ conflicts # {}
        \/ l = "none_usable" /\ ~\E r \in relevant : r.usable}

\* _context_limitations
Limitations(requested, changed, relevant, conflicts) ==
    {l \in {"unmapped", "stale", "withheld", "unusable", "conflicts", "none_usable"} :
        \/ l = "unmapped" /\ requested # changed
        \/ l = "stale" /\ \E r \in relevant : r.freshness = "stale"
        \/ l = "withheld" /\ \E r \in relevant : r.withheld
        \/ l = "unusable" /\ \E r \in relevant : ~r.usable
        \/ l = "conflicts" /\ conflicts # {}
        \/ l = "none_usable" /\ ~\E r \in relevant : r.usable}

\* CompanyBrainWorldModel.context_for_change.  Edges of a cycle are unusable;
\* contested ownership stays usable.
WorldModelContext(view, requested, principal, now) ==
    LET q == [k \in DOMAIN view.edges |-> Qualify(view, principal, now, k)]
        usable == {k \in DOMAIN q : q[k].usable /\ ~Cyclic(q, k)}
        members == {k.from : k \in usable \intersect
                        {Edge("belongs_to", s, Repo) : s \in Services \intersect view.entities}}
        changed == requested \intersect members
        radius == Dependents(Dependencies(usable, view.entities), changed)
        owners == {k.from : k \in {k \in usable : /\ k.kind = "owns" /\ k.to \in radius
                                                  /\ k.from \in view.entities \intersect OwnerIds}}
        scope == {Repo} \union radius \union owners
        relevant == {k \in DOMAIN q : {k.from, k.to} \intersect scope # {}}
        conflicts == {c \in Conflicts(q, view) : c.about \intersect scope # {}}
        assessed == [k \in relevant |-> [q[k] EXCEPT !.usable = k \in usable]]
    IN [changed |-> changed, radius |-> radius, owners |-> owners, scope |-> scope,
        relationships |-> assessed,
        contested |-> {k \in relevant :
                          \/ Cyclic(q, k)
                          \/ k.kind = "owns" /\ q[k].usable /\ k.from \in view.entities \intersect OwnerIds
                             /\ Cardinality(OwnersOf(q, view, k.to)) > 1},
        evidence |-> UNION {assessed[k].evidence : k \in relevant},
        confident |-> \E k \in relevant : k \in usable /\ k.kind # "has_evidence",
        conflicts |-> conflicts,
        limitations |-> Limitations(requested, changed,
                                    {assessed[k] : k \in relevant}, conflicts)]

\* PRGuardianWorldModelAdapter.context_for: the least confidence of usable
\* relationships is at least the minimum, or zero when there is none.
Qualified(context) ==
    /\ context.changed # {} /\ context.evidence # {} /\ context.confident
    /\ context.conflicts = {} /\ context.limitations = {}

Nobody == "nobody"

\* PRGuardianWorldModelAdapter._graph: what the risk score reads.  A service
\* with several owners, or one outside the context, has none.  The tier is the
\* entity's and left out.
GraphOf(context) ==
    LET rel == context.relationships
        Owning(s) == {k.from : k \in {k \in DOMAIN rel : k.kind = "owns" /\ k.to = s /\ rel[k].usable}}
    IN [dependencies |-> {k \in DOMAIN rel : /\ k.kind = "depends_on" /\ rel[k].usable
                                             /\ {k.from, k.to} \subseteq context.radius},
        owner |-> [s \in context.radius |->
                      IF Cardinality(Owning(s)) = 1 /\ Owning(s) \subseteq context.scope
                      THEN CHOOSE o \in Owning(s) : TRUE ELSE Nobody]]

-----------------------------------------------------------------------------
(* The plain Company Brain (company_brain/model.py) over the same view: the *)
(* same question asked without qualification.  Its evidence, which hangs on *)
(* has_evidence edges, is left out.                                         *)

\* store.snapshot: relate raises on an edge whose ends or evidence the two
\* earlier lists did not have.
SnapshotReads(view) ==
    \A k \in DOMAIN view.edges :
        {k.from, k.to} \subseteq view.entities /\ view.edges[k] \subseteq DOMAIN view.evidence

ServicesForRepository(view) ==
    {k.from : k \in {k \in DOMAIN view.edges : k.kind = "belongs_to" /\ k.to = Repo /\ k.from \in Services}}

OwnerIdsForService(view, s) ==
    {k.from : k \in {k \in DOMAIN view.edges : k.kind = "owns" /\ k.to = s /\ k.from \in OwnerIds}}

PlainBlastRadius(view, changed) ==
    Dependents({k \in DOMAIN view.edges : k.kind = "depends_on" /\ k.from \in Services}, changed)

\* CompanyBrain.context_for_change
PlainContext(view, requested) ==
    LET changed == requested \intersect ServicesForRepository(view)
        radius == PlainBlastRadius(view, changed)
    IN [changed |-> changed, radius |-> radius,
        owners |-> UNION {OwnerIdsForService(view, s) : s \in radius}]

\* PRGuardianCompanyBrainAdapter._service_graph: the services of the
\* repository; the first owner in order is the owner.
PlainGraph(view) ==
    LET known == ServicesForRepository(view)
        Owning(s) == {i \in 1..Len(EdgeOrder) :
                        LET k == EdgeOrder[i]
                        IN k \in DOMAIN view.edges /\ k.kind = "owns" /\ k.to = s /\ k.from \in OwnerIds}
    IN [dependencies |-> {k \in DOMAIN view.edges : k.kind = "depends_on" /\ {k.from, k.to} \subseteq known},
        owner |-> [s \in known |-> IF Owning(s) = {} THEN Nobody ELSE EdgeOrder[Min(Owning(s))].from]]

-----------------------------------------------------------------------------
(* The decision context and its packet *)

\* _relationship_from_qualification: usable, uncontested claims between
\* entities of the context.
ClaimsOf(context) ==
    {k \in DOMAIN context.relationships :
        /\ context.relationships[k].usable /\ k \notin context.contested
        /\ k.kind # "has_evidence" /\ {k.from, k.to} \subseteq context.scope
        /\ context.relationships[k].fresh # {}}

\* DecisionContextRelationship: a claim cites its fresh evidence.
Citations(context) == [k \in ClaimsOf(context) |-> context.relationships[k].fresh]

\* _evidence_bundle: everything the principal may see, cited or not.
Inventory(context) == context.evidence

\* A set of keys in the order of their sort key.
InOrder(keys) ==
    LET upTo[i \in 0..Len(EdgeOrder)] ==
            IF i = 0 THEN <<>>
            ELSE IF EdgeOrder[i] \in keys THEN Append(upTo[i - 1], EdgeOrder[i]) ELSE upTo[i - 1]
    IN upTo[Len(EdgeOrder)]

\* decision_context_from_world_model
DecisionContext(context) ==
    LET qualified == Qualified(context)
    IN [qualified |-> qualified,
        relationships |-> InOrder(ClaimsOf(context)),
        support |-> Citations(context),
        evidence |-> Inventory(context),
        limitations |-> IF ~qualified /\ context.limitations = {} THEN {"insufficient"}
                        ELSE context.limitations,
        conflicts |-> context.conflicts]

\* context_packet_from_decision_context, the first loop: a claim is taken with
\* all its evidence or not at all.
TakeClaim(acc, k, support) ==
    IF Len(acc.claims) >= MaxRelationships
    THEN [acc EXCEPT !.omissions = @ \union {<<"relationships", "relationship_limit">>}]
    ELSE IF Cardinality(acc.evidence \union support) > MaxEvidence
    THEN [acc EXCEPT !.omissions = @ \union {<<"relationships", "evidence_limit">>}]
    ELSE [acc EXCEPT !.claims = Append(@, k), !.evidence = @ \union support]

TakeClaims(dc) ==
    LET take[n \in 0..Len(dc.relationships)] ==
            IF n = 0 THEN [claims |-> <<>>, evidence |-> {}, omissions |-> {}]
            ELSE TakeClaim(take[n - 1], dc.relationships[n], dc.support[dc.relationships[n]])
    IN take[Len(dc.relationships)]

AtMost(n, limit) == IF n > limit THEN limit ELSE n
Less(n, d) == IF n > d THEN n - d ELSE 0
Noted(omitted, section, reason) == IF omitted > 0 THEN {<<section, reason>>} ELSE {}

\* The packet after its byte limit has cost it n items: first evidence of no
\* claim, then limitations, then conflicts, then claims from the end.  Of the
\* first three only the numbers kept matter, of their omissions the kind.
Shrunk(dc, n) ==
    LET taken == TakeClaims(dc)
        spare == Cardinality(dc.evidence \ taken.evidence)
        extras == AtMost(spare, Less(MaxEvidence, Cardinality(taken.evidence)))
        limits == AtMost(Cardinality(dc.limitations), MaxItems)
        conflicts == AtMost(Cardinality(dc.conflicts), MaxItems)
        toLimits == Less(n, extras)
        toConflicts == Less(toLimits, limits)
        toClaims == Less(toConflicts, conflicts)
        claims == SubSeq(taken.claims, 1, Less(Len(taken.claims), toClaims))
    IN [claims |-> claims,
        cited |-> UNION {dc.support[claims[i]] : i \in 1..Len(claims)},
        extras |-> Less(extras, n), limitations |-> Less(limits, toLimits),
        conflicts |-> Less(conflicts, toConflicts),
        omissions |-> taken.omissions
            \union Noted(Less(spare, extras), "evidence", "evidence_limit")
            \union Noted(Less(Cardinality(dc.limitations), limits), "limitations", "item_limit")
            \union Noted(Less(Cardinality(dc.conflicts), conflicts), "conflicts", "item_limit")
            \union Noted(AtMost(n, extras), "evidence", "byte_limit")
            \union Noted(AtMost(toLimits, limits), "limitations", "byte_limit")
            \union Noted(AtMost(toConflicts, conflicts), "conflicts", "byte_limit")
            \union Noted(AtMost(toClaims, Len(taken.claims)), "relationships", "byte_limit")]

\* _rendered_bytes: a disclosed omission takes room too, though less than what
\* it stands for.
Rendered(p) ==
    3 * (Len(p.claims) + Cardinality(p.cited) + p.extras + p.limitations + p.conflicts)
        + Cardinality(p.omissions)

\* ContextPacketError: nothing is left to drop and the packet does not fit.
Unpackable == [raised |-> TRUE]

\* How many items there are to drop, at most.
Droppable(dc) ==
    Cardinality(dc.evidence) + Cardinality(dc.limitations) + Cardinality(dc.conflicts) + Len(dc.relationships)

\* The drops that make the packet fit.
Fitting(dc) == {n \in 0..Droppable(dc) : Rendered(Shrunk(dc, n)) <= MaxRendered}

\* Mutant: what the byte limit drops is not disclosed.
ContextPacketSilent(dc) ==
    IF Fitting(dc) = {} THEN Unpackable
    ELSE [Shrunk(dc, Min(Fitting(dc))) EXCEPT !.omissions = {o \in @ : o[2] # "byte_limit"}]

\* context_packet_from_decision_context: the first packet that fits.
ContextPacket(dc) == IF Fitting(dc) = {} THEN Unpackable ELSE Shrunk(dc, Min(Fitting(dc)))

Complete(packet) == packet.omissions = {}

\* context_health._state
HealthState(dc, packet) ==
    CASE ~dc.qualified -> "unqualified"
      [] dc.qualified /\ dc.conflicts # {} -> "conflicted"
      [] dc.qualified /\ dc.conflicts = {} /\ (~Complete(packet) \/ dc.limitations # {}) -> "limited"
      [] OTHER -> "ready"

\* DecisionBrief.requires_human_review
RequiresHumanReview(dc, packet) ==
    ~dc.qualified \/ ~Complete(packet) \/ packet.limitations > 0 \/ packet.conflicts > 0
=============================================================================
