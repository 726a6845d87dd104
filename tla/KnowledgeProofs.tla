--------------------------- MODULE KnowledgeProofs ---------------------------
(***************************************************************************)
(* What the company brain promises, for any documents, claims, entities,   *)
(* principals and bounds, over its three parts.                            *)
(*                                                                         *)
(* Maintenance (KnowledgeMaintenance): a verified outcome is earned. An    *)
(* observation remembers a revision and not when the source had it, so the *)
(* invariant says where in the source's history the observed revision      *)
(* lies, and that the history only grows at its end.                       *)
(*                                                                         *)
(* The packet (KnowledgeReview): a proposal is backed by what a reader was *)
(* issued. The packet is made by folding one candidate after another under *)
(* a budget; the fold is a function over the natural numbers, and what it  *)
(* has taken is read off by its least counterexample.                      *)
(*                                                                         *)
(* The blast radius (WorldModel): a qualified context is whole. Dependents *)
(* is the least set closed under the dependencies, so that a radius closed *)
(* under a smaller graph is compared with one closed under a larger one    *)
(* without a walk; the context is rejected unless every edge into the      *)
(* radius is usable; and the edges in the store are among those that       *)
(* sources claim (StoreInv), which the packet's order lists.               *)
(***************************************************************************)
EXTENDS KnowledgeGovernance, SequenceTheorems, FiniteSetTheorems, WellFoundedInduction, TLAPS

-----------------------------------------------------------------------------
(* Maintenance: what a verified outcome rests on *)

SourceVersions ==
    [revision : SourceRevisions \union {CHOOSE r \in SourceRevisions : TRUE}, since : Nat]

\* The time and the source system: every document has a revision.
HistoryIsTyped ==
    /\ now \in Nat
    /\ history \in [Docs -> Seq(SourceVersions)]
    /\ \A d \in Docs : Len(history[d]) > 0

\* A proposal is about a document; a decision was made by now.
DecisionsAreDated ==
    /\ \A p \in proposals : p.source \in Docs
    /\ \A dec \in decisions :
          /\ dec.at \in Nat /\ dec.at <= now
          /\ dec.disposition \in {"accepted", "rejected", "expired"}

\* The source was at a version other than one with revision r at some time
\* from t on.
HadOther(h, r, t) ==
    \E i \in 1..Len(h) : h[i].revision # r /\ (i < Len(h) => h[i + 1].since >= t)

\* The source was at revision r at some time from t on.
HadRevision(h, r, t) ==
    \E i \in 1..Len(h) : h[i].revision = r /\ (i < Len(h) => h[i + 1].since >= t)

\* An observation saw a revision the source had when it was made.
ObservationsAreTrue ==
    \A o \in observations :
        /\ o.source \in Docs /\ o.at \in Nat /\ o.at <= now
        /\ HadRevision(history[o.source], o.revision, o.at)

\* An outcome's decision was made by now, and a verified one is earned.
OutcomesAreTrue ==
    \A o \in outcomes :
        /\ o.proposal.source \in Docs /\ o.decision.at \in Nat /\ o.decision.at <= now
        /\ o.state = "verified-source-revision" =>
              /\ o.decision.disposition = "accepted" /\ o.observation.by # o.decision.by
              /\ HadOther(history[o.proposal.source], o.proposal.revision, o.decision.at)

MaintenanceInv == HistoryIsTyped /\ DecisionsAreDated /\ ObservationsAreTrue /\ OutcomesAreTrue

\* The first version of a document: dated at the start.
LEMMA InitMaintenanceInv == Init => MaintenanceInv
<1> SUFFICES ASSUME Init PROVE MaintenanceInv
  OBVIOUS
<1> DEFINE first == [revision |-> CHOOSE r \in SourceRevisions : TRUE, since |-> 0]
<1>1. first \in SourceVersions
  BY DEF SourceVersions
<1>2. history = [d \in Docs |-> <<first>>]
  BY DEF Init, InitMaintenance
<1>3. /\ history \in [Docs -> Seq(SourceVersions)]
      /\ \A d \in Docs : Len(history[d]) > 0
  <2> HIDE DEF first
  <2>1. <<first>> \in Seq(SourceVersions) /\ Len(<<first>>) = 1
    BY <1>1
  <2> QED BY <2>1, <1>2
<1>4. now = 0 /\ proposals = {} /\ decisions = {} /\ observations = {} /\ outcomes = {}
  BY DEF Init, InitReview, InitMaintenance
<1> QED BY <1>3, <1>4 DEF MaintenanceInv, HistoryIsTyped, DecisionsAreDated, ObservationsAreTrue, OutcomesAreTrue

\* An edit at time t keeps what was seen of a source by time t.
LEMMA EditKeepsSeen ==
    ASSUME NEW h \in Seq(SourceVersions), NEW v \in SourceVersions, NEW r, NEW t \in Nat, t <= v.since
    PROVE  /\ HadOther(h, r, t) => HadOther(Append(h, v), r, t)
           /\ HadRevision(h, r, t) => HadRevision(Append(h, v), r, t)
<1> PICK g : g = Append(h, v)
  OBVIOUS
<1>1. /\ g \in Seq(SourceVersions) /\ Len(g) = Len(h) + 1 /\ Len(h) \in Nat
      /\ g[Len(h) + 1] = v
      /\ \A i \in 1..Len(h) : g[i] = h[i]
  BY AppendProperties, LenProperties
<1>2. ASSUME NEW i \in 1..Len(h), i < Len(h) => h[i + 1].since >= t
      PROVE  i \in 1..Len(g) /\ g[i] = h[i] /\ (i < Len(g) => g[i + 1].since >= t)
  <2>1. CASE i < Len(h)
    <3>1. i + 1 \in 1..Len(h)
      BY <1>1, <2>1
    <3>2. g[i + 1] = h[i + 1]
      BY <1>1, <3>1
    <3> QED BY <1>1, <1>2, <2>1, <3>2
  <2>2. CASE i = Len(h)
    <3>1. g[i + 1] = v
      BY <1>1, <2>2
    <3>2. v.since \in Nat
      BY DEF SourceVersions
    <3> QED BY <1>1, <2>2, <3>1, <3>2
  <2> QED BY <1>1, <2>1, <2>2
<1>3. HadOther(h, r, t) => HadOther(g, r, t)
  <2> SUFFICES ASSUME HadOther(h, r, t) PROVE HadOther(g, r, t)
    OBVIOUS
  <2>1. PICK i \in 1..Len(h) : h[i].revision # r /\ (i < Len(h) => h[i + 1].since >= t)
    BY DEF HadOther
  <2>2. i \in 1..Len(g) /\ g[i] = h[i] /\ (i < Len(g) => g[i + 1].since >= t)
    BY <1>2, <2>1
  <2> QED BY <2>1, <2>2 DEF HadOther
<1>4. HadRevision(h, r, t) => HadRevision(g, r, t)
  <2> SUFFICES ASSUME HadRevision(h, r, t) PROVE HadRevision(g, r, t)
    OBVIOUS
  <2>1. PICK i \in 1..Len(h) : h[i].revision = r /\ (i < Len(h) => h[i + 1].since >= t)
    BY DEF HadRevision
  <2>2. i \in 1..Len(g) /\ g[i] = h[i] /\ (i < Len(g) => g[i + 1].since >= t)
    BY <1>2, <2>1
  <2> QED BY <2>1, <2>2 DEF HadRevision
<1> QED BY <1>3, <1>4

\* An edit of a source keeps what was seen of it before.
LEMMA EditSourceStep ==
    ASSUME MaintenanceInv, NEW d \in Docs, NEW r \in SourceRevisions, EditSource(d, r, now), now' = now
    PROVE  MaintenanceInv'
<1> DEFINE v == [revision |-> r, since |-> now]
<1>1. v \in SourceVersions /\ v.since = now
  BY DEF MaintenanceInv, HistoryIsTyped, SourceVersions
<1>2. history' = [history EXCEPT ![d] = Append(history[d], v)]
  BY DEF EditSource
<1>3. UNCHANGED <<proposals, decisions, observations, outcomes>>
  BY DEF EditSource, reviewed
<1> HIDE DEF v
<1>4. \A e \in Docs : history[e] \in Seq(SourceVersions) /\ Len(history[e]) > 0
  BY DEF MaintenanceInv, HistoryIsTyped
<1>5. Append(history[d], v) \in Seq(SourceVersions) /\ Len(Append(history[d], v)) = Len(history[d]) + 1
      /\ Len(history[d]) \in Nat
  BY <1>1, <1>4, AppendProperties, LenProperties
<1>6. \A e \in Docs : history'[e] = IF e = d THEN Append(history[d], v) ELSE history[e]
  BY <1>2 DEF MaintenanceInv, HistoryIsTyped
<1>7. HistoryIsTyped'
  <2>1. history' \in [Docs -> Seq(SourceVersions)]
    <3>1. history \in [Docs -> Seq(SourceVersions)]
      BY DEF MaintenanceInv, HistoryIsTyped
    <3> PICK g : g = Append(history[d], v)
      OBVIOUS
    <3>2. g \in Seq(SourceVersions) /\ history' = [history EXCEPT ![d] = g]
      BY <1>2, <1>5
    <3> QED BY <3>1, <3>2
  <2>2. \A e \in Docs : Len(history'[e]) > 0
    <3> SUFFICES ASSUME NEW e \in Docs PROVE Len(history'[e]) > 0
      OBVIOUS
    <3>1. CASE e = d
      <4>1. history'[e] = Append(history[d], v)
        BY <1>6, <3>1
      <4> QED BY <1>5, <4>1
    <3>2. CASE e # d
      BY <1>4, <1>6, <3>2
    <3> QED BY <3>1, <3>2
  <2> QED BY <2>1, <2>2 DEF MaintenanceInv, HistoryIsTyped
<1>8. \A x : \A e \in Docs, t \in Nat : t <= now =>
        /\ HadOther(history[e], x, t) => HadOther(history'[e], x, t)
        /\ HadRevision(history[e], x, t) => HadRevision(history'[e], x, t)
  BY <1>1, <1>4, <1>6, EditKeepsSeen
<1>9. DecisionsAreDated'
  BY <1>3 DEF MaintenanceInv, DecisionsAreDated
<1>10. ObservationsAreTrue'
  BY <1>3, <1>8 DEF MaintenanceInv, ObservationsAreTrue
<1>11. OutcomesAreTrue'
  BY <1>3, <1>8 DEF MaintenanceInv, OutcomesAreTrue
<1> QED BY <1>7, <1>9, <1>10, <1>11 DEF MaintenanceInv

\* A step that keeps what was reviewed and the source system, as time passes.
LEMMA ReviewedKept ==
    ASSUME MaintenanceInv, now' \in Nat, now <= now',
           UNCHANGED <<history, proposals, decisions, observations, outcomes>>
    PROVE  MaintenanceInv'
<1>1. now \in Nat
  BY DEF MaintenanceInv, HistoryIsTyped
<1>2. HistoryIsTyped' /\ DecisionsAreDated'
  BY <1>1 DEF MaintenanceInv, HistoryIsTyped, DecisionsAreDated
<1>3. ObservationsAreTrue'
  BY <1>1 DEF MaintenanceInv, ObservationsAreTrue
<1>4. OutcomesAreTrue'
  BY <1>1 DEF MaintenanceInv, OutcomesAreTrue
<1> QED BY <1>2, <1>3, <1>4 DEF MaintenanceInv

\* A plan's proposals are about stored documents.
LEMMA PlanRelationshipsStep ==
    ASSUME MaintenanceInv, PlanRelationships(now), now' = now
    PROVE  MaintenanceInv'
<1>1. \A p \in Plan(planner, owned, now) : p.source \in Docs
  <2> SUFFICES ASSUME NEW p \in Plan(planner, owned, now) PROVE p.source \in Docs
    OBVIOUS
  <2>1. PICK f \in Findings(planner, owned, now) : p = Proposal(planner, f)
    BY DEF Plan
  <2>2. f.doc \in Docs
    BY <2>1 DEF Findings
  <2> QED BY <2>1, <2>2 DEF Proposal
<1>2. /\ proposals' = proposals \union Plan(planner, owned, now)
      /\ UNCHANGED <<history, decisions, observations, outcomes>>
  BY DEF PlanRelationships
<1> HIDE DEF Plan
<1> QED BY <1>1, <1>2 DEF MaintenanceInv, HistoryIsTyped, DecisionsAreDated, ObservationsAreTrue, OutcomesAreTrue

\* A decision is made now.
LEMMA DecideStep ==
    ASSUME MaintenanceInv, NEW p \in proposals, NEW s \in {"accepted", "rejected", "expired"}, NEW by,
           Decide(p, s, by, now), now' = now
    PROVE  MaintenanceInv'
<1> PICK dec : dec = [proposal |-> p, source |-> p.source, version |-> p.version, revision |-> p.revision,
                      disposition |-> s, by |-> by, at |-> now]
  OBVIOUS
<1>1. /\ decisions' = decisions \union {dec}
      /\ UNCHANGED <<history, proposals, observations, outcomes>>
  BY DEF Decide
<1>2. dec.at = now /\ dec.disposition = s
  OBVIOUS
<1> QED BY <1>1, <1>2 DEF MaintenanceInv, HistoryIsTyped, DecisionsAreDated, ObservationsAreTrue, OutcomesAreTrue

\* An observation sees the source's last version, which nothing follows.
LEMMA ObserveStep ==
    ASSUME MaintenanceInv, NEW p \in proposals, NEW by, Observe(p, by, now), now' = now
    PROVE  MaintenanceInv'
<1> PICK o : o = [source |-> p.source, revision |-> CurrentRevision(p.source), by |-> by, at |-> now]
  OBVIOUS
<1>1. /\ observations' = observations \union {o}
      /\ UNCHANGED <<history, proposals, decisions, outcomes>>
  BY DEF Observe
<1>2. o.source = p.source /\ o.source \in Docs /\ o.at = now /\ o.revision = CurrentRevision(p.source)
  BY DEF MaintenanceInv, DecisionsAreDated
<1>3. Len(history[o.source]) \in Nat /\ Len(history[o.source]) > 0
  BY <1>2, LenProperties DEF MaintenanceInv, HistoryIsTyped
<1>4. HadRevision(history[o.source], o.revision, o.at)
  BY <1>2, <1>3 DEF HadRevision, CurrentRevision
<1>5. ObservationsAreTrue'
  BY <1>1, <1>2, <1>4 DEF MaintenanceInv, HistoryIsTyped, ObservationsAreTrue
<1> QED BY <1>1, <1>5 DEF MaintenanceInv, HistoryIsTyped, DecisionsAreDated, OutcomesAreTrue

\* An outcome: a verified one has an observation that matches.
LEMMA EvaluateOutcomeStep ==
    ASSUME MaintenanceInv, NEW p \in proposals, NEW dec \in decisions, NEW o \in observations \union {Absent},
           Evaluate(p, dec, o), now' = now
    PROVE  MaintenanceInv'
<1> PICK x : x = [proposal |-> p, decision |-> dec, observation |-> o, state |-> OutcomeState(dec, o)]
  OBVIOUS
<1>1. /\ outcomes' = outcomes \union {x}
      /\ UNCHANGED <<history, proposals, decisions, observations>>
  BY DEF Evaluate
<1>2. x.proposal = p /\ x.decision = dec /\ x.observation = o /\ x.state = OutcomeState(dec, o)
  OBVIOUS
<1>3. /\ p.source \in Docs /\ dec.at \in Nat /\ dec.at <= now
      /\ dec.disposition \in {"accepted", "rejected", "expired"}
  BY DEF MaintenanceInv, DecisionsAreDated
<1>4. ASSUME OutcomeState(dec, o) = "verified-source-revision"
      PROVE  /\ dec.disposition = "accepted" /\ o.by # dec.by
             /\ HadOther(history[p.source], p.revision, dec.at)
  <2>1. dec.disposition = "accepted" /\ o # Absent
    BY <1>3, <1>4 DEF OutcomeState
  <2>2. ObservationMatches(p, dec, o) /\ o \in observations
    BY <2>1 DEF Evaluate
  <2>3. /\ o.source = p.source /\ o.at \in Nat
        /\ HadRevision(history[p.source], o.revision, o.at)
        /\ o.revision # p.revision /\ o.by # dec.by /\ o.at >= dec.at
    BY <2>2 DEF ObservationMatches, MaintenanceInv, ObservationsAreTrue
  <2>4. PICK i \in 1..Len(history[p.source]) :
          /\ history[p.source][i].revision = o.revision
          /\ i < Len(history[p.source]) => history[p.source][i + 1].since >= o.at
    BY <2>3 DEF HadRevision
  <2>5. i < Len(history[p.source]) => history[p.source][i + 1].since \in Nat
    <3> SUFFICES ASSUME i < Len(history[p.source]) PROVE history[p.source][i + 1] \in SourceVersions
      BY DEF SourceVersions
    <3>1. history[p.source] \in Seq(SourceVersions) /\ Len(history[p.source]) \in Nat
      BY <1>3, LenProperties DEF MaintenanceInv, HistoryIsTyped
    <3> QED BY <3>1, ElementOfSeq
  <2>6. i < Len(history[p.source]) => history[p.source][i + 1].since >= dec.at
    BY <1>3, <2>3, <2>4, <2>5
  <2> QED BY <2>1, <2>3, <2>4, <2>6 DEF HadOther
<1>5. OutcomesAreTrue'
  BY <1>1, <1>2, <1>3, <1>4 DEF MaintenanceInv, OutcomesAreTrue
<1> QED BY <1>1, <1>5 DEF MaintenanceInv, HistoryIsTyped, DecisionsAreDated, ObservationsAreTrue

\* Every step of the two flows and of time keeps the maintenance invariant.
LEMMA MaintenanceNext ==
    ASSUME MaintenanceInv, [Next]_vars
    PROVE  MaintenanceInv'
<1>0. now \in Nat
  BY DEF MaintenanceInv, HistoryIsTyped
<1>1. CASE Time
  <2>1. PICK d \in TickSteps : now' = now + d
    BY <1>1 DEF Time, Tick
  <2>2. d \in Nat
    BY TimeMovesForward
  <2> QED BY <1>0, <1>1, <2>1, <2>2, ReviewedKept DEF Time, maintenance
<1>2. CASE Correction
  <2>1. UNCHANGED <<history, proposals, decisions, observations, outcomes>> /\ now' = now
    BY <1>2 DEF Correction, maintenance, NextReview, StoreStep, ReadStep, ReviewStep
  <2> QED BY <1>0, <2>1, ReviewedKept
<1>3. CASE Maintenance
  <2>0. now' = now /\ NextMaintenance(now)
    BY <1>3 DEF Maintenance
  <2>1. CASE \E d \in Docs, r \in SourceRevisions : EditSource(d, r, now)
    BY <2>0, <2>1, EditSourceStep
  <2>2. CASE \E d \in Docs, u \in {Absent, now}, own \in BOOLEAN : ProjectDocument(d, u, own)
    <3>1. UNCHANGED <<history, proposals, decisions, observations, outcomes>>
      BY <2>2 DEF ProjectDocument, reviewed
    <3> QED BY <1>0, <2>0, <3>1, ReviewedKept
  <2>3. CASE PlanEntities
    <3>1. UNCHANGED <<history, proposals, decisions, observations, outcomes>>
      BY <2>3 DEF PlanEntities, reviewed
    <3> QED BY <1>0, <2>0, <3>1, ReviewedKept
  <2>4. CASE PlanRelationships(now)
    BY <2>0, <2>4, PlanRelationshipsStep
  <2>5. CASE \E p \in proposals, s \in {"accepted", "rejected", "expired"}, by \in People :
               Decide(p, s, by, now)
    BY <2>0, <2>5, DecideStep
  <2>6. CASE \E p \in proposals, by \in People : Observe(p, by, now)
    BY <2>0, <2>6, ObserveStep
  <2>7. CASE \E p \in proposals, dec \in decisions, o \in observations \union {Absent} : Evaluate(p, dec, o)
    BY <2>0, <2>7, EvaluateOutcomeStep
  <2> QED BY <2>0, <2>1, <2>2, <2>3, <2>4, <2>5, <2>6, <2>7 DEF NextMaintenance
<1>4. CASE UNCHANGED vars
  <2>1. UNCHANGED <<history, proposals, decisions, observations, outcomes>> /\ now' = now
    BY <1>4 DEF vars, maintenance
  <2> QED BY <1>0, <2>1, ReviewedKept
<1> QED BY <1>1, <1>2, <1>3, <1>4 DEF Next

\* A verified outcome of evaluate_maintenance_outcome is earned: somebody else
\* than the reviewer of an accepted proposal saw the source at another
\* revision, which it had at some time from the review on.
THEOREM OutcomesAreEarned == Spec => []OutcomeIsEarned
<1>1. Init => MaintenanceInv
  BY InitMaintenanceInv
<1>2. MaintenanceInv /\ [Next]_vars => MaintenanceInv'
  BY MaintenanceNext
<1>3. MaintenanceInv => OutcomeIsEarned
  BY DEF MaintenanceInv, OutcomesAreTrue, OutcomeIsEarned, HadOther
<1> QED BY <1>1, <1>2, <1>3, PTL DEF Spec

-----------------------------------------------------------------------------
(* Recursive operators of the packet, by their least counterexample *)

\* A set of numbers has a least one.
LEMMA LeastNumber ==
    ASSUME NEW T, T \subseteq Nat, T # {}
    PROVE  \E i \in T : \A j \in T : i <= j
<1>1. PICK R : R = OpToRel(<, Nat)
  OBVIOUS
<1>2. IsWellFoundedOn(R, Nat)
  BY <1>1, NatLessThanWellFounded
<1>3. PICK i \in T : \A j \in T : ~(<<j, i>> \in R)
  BY <1>2, WFMin
<1>4. \A j \in T : <<j, i>> \in R <=> j < i
  BY <1>1 DEF OpToRel
<1>5. ASSUME NEW j \in T PROVE i <= j
  <2>1. ~(j < i) /\ i \in Nat /\ j \in Nat
    BY <1>3, <1>4
  <2> QED BY <2>1
<1> QED BY <1>5

\* A set of numbers that has every number whose predecessors it has is Nat.
LEMMA AllNumbers ==
    ASSUME NEW T, 0 \in T, \A m \in Nat : m \in T => m + 1 \in T
    PROVE  Nat \subseteq T
<1> DEFINE bad == Nat \ T
<1>1. ASSUME bad # {} PROVE FALSE
  <2>1. PICK m \in bad : \A j \in bad : m <= j
    <3>1. bad \subseteq Nat
      OBVIOUS
    <3> HIDE DEF bad
    <3> QED BY <1>1, <3>1, LeastNumber
  <2>2. m # 0 /\ m \in Nat
    OBVIOUS
  <2>3. m - 1 \in Nat /\ m - 1 < m
    BY <2>2
  <2>4. m - 1 \notin bad
    <3> HIDE DEF bad
    <3> QED BY <2>1, <2>2, <2>3
  <2>5. m - 1 \in T
    BY <2>3, <2>4
  <2>6. (m - 1) + 1 = m
    BY <2>2
  <2>7. m \in T
    BY <2>3, <2>5, <2>6
  <2> QED BY <2>7
<1> QED BY <1>1

\* InOrder lists keys it was given.
LEMMA InOrderIsOfKeys ==
    ASSUME NEW keys
    PROVE  InOrder(keys) \in Seq(keys)
<1> DEFINE L == Len(EdgeOrder)
           Def(g, i) == IF i = 0 THEN <<>>
                        ELSE IF EdgeOrder[i] \in keys THEN Append(g[i - 1], EdgeOrder[i]) ELSE g[i - 1]
           Is(g, m) == g = [i \in 0..m |-> Def(g, i)]
           T == {m \in Nat : \E g : Is(g, m)}
<1>0. L \in Nat
  BY EdgeOrderIsSequence, LenProperties
<1>1. 0 \in T
  <2> PICK g : g = [i \in 0..0 |-> <<>>]
    OBVIOUS
  <2>1. Is(g, 0)
    OBVIOUS
  <2> QED BY <2>1
<1>2. ASSUME NEW m \in Nat, m \in T PROVE m + 1 \in T
  <2>1. PICK g : Is(g, m)
    BY <1>2
  <2> PICK h : h = [i \in 0..(m + 1) |-> IF i <= m THEN g[i] ELSE Def(g, m + 1)]
    OBVIOUS
  <2>2. ASSUME NEW i \in 0..(m + 1) PROVE h[i] = Def(h, i)
    <3>1. i \in Nat /\ (i # 0 => i - 1 \in 0..m /\ h[i - 1] = g[i - 1])
      BY <1>2
    <3>2. Def(h, i) = Def(g, i)
      BY <3>1
    <3>3. h[i] = Def(g, i)
      <4>1. CASE i <= m
        <5>1. i \in 0..m /\ h[i] = g[i]
          BY <1>2, <3>1, <4>1
        <5> HIDE DEF Def
        <5> QED BY <2>1, <5>1
      <4>2. CASE ~(i <= m)
        <5>1. i = m + 1
          BY <1>2, <3>1, <4>2
        <5>2. h[i] = Def(g, m + 1)
          <6> HIDE DEF Def
          <6> QED BY <1>2, <4>2
        <5> QED BY <5>1, <5>2
      <4> QED BY <4>1, <4>2
    <3> QED BY <3>2, <3>3
  <2>3. Is(h, m + 1)
    <3> HIDE DEF Def
    <3> QED BY <2>2
  <2>4. m + 1 \in Nat
    BY <1>2
  <2> HIDE DEF Is
  <2> QED BY <2>3, <2>4
<1>3. L \in T
  <2> HIDE DEF T, L
  <2> QED BY <1>0, <1>1, <1>2, AllNumbers
<1>4. PICK f : Is(f, L) /\ InOrder(keys) = f[L]
  <2>1. \E g : Is(g, L)
    BY <1>3
  <2>2. InOrder(keys) = (CHOOSE g : Is(g, L))[L]
    BY DEF InOrder
  <2> HIDE DEF Is, L
  <2> QED BY <2>1, <2>2
<1> DEFINE U == {m \in Nat : m <= L => f[m] \in Seq(keys)}
<1>5. 0 \in U
  BY <1>0, <1>4
<1>6. ASSUME NEW m \in Nat, m \in U PROVE m + 1 \in U
  <2> SUFFICES ASSUME m + 1 <= L PROVE f[m + 1] \in Seq(keys)
    BY <1>6
  <2>1. m + 1 \in 0..L /\ m <= L /\ m + 1 # 0 /\ (m + 1) - 1 = m
    BY <1>0, <1>6
  <2>2. f[m] \in Seq(keys)
    BY <1>6, <2>1
  <2>3. f[m + 1] = Def(f, m + 1)
    <3> HIDE DEF Def
    <3> QED BY <1>4, <2>1
  <2>4. f[m + 1] = IF EdgeOrder[m + 1] \in keys THEN Append(f[m], EdgeOrder[m + 1]) ELSE f[m]
    BY <2>1, <2>3
  <2> QED BY <2>2, <2>4, AppendProperties
<1>7. L \in U
  <2> HIDE DEF U, L
  <2> QED BY <1>0, <1>5, <1>6, AllNumbers
<1> QED BY <1>0, <1>4, <1>7

\* The record the first loop of a packet carries along.
Taken(K, E) ==
    [claims : Seq(K), evidence : SUBSET E,
     omissions : SUBSET {<<"relationships", "relationship_limit">>, <<"relationships", "evidence_limit">>}]

\* The loop has left out nothing of the first n relationships.
TookAll(dc, t, n) ==
    /\ Len(t.claims) = n
    /\ \A i \in 1..n : t.claims[i] = dc.relationships[i]
    /\ t.evidence = UNION {dc.support[dc.relationships[i]] : i \in 1..n}

\* One round of the loop.
LEMMA TakeClaimStep ==
    ASSUME NEW dc, NEW K, NEW E, NEW n \in Nat, NEW k \in K, NEW t \in Taken(K, E),
           k = dc.relationships[n + 1], dc.support[k] \subseteq E,
           t.omissions = {} => TookAll(dc, t, n)
    PROVE  /\ TakeClaim(t, k, dc.support[k]) \in Taken(K, E)
           /\ TakeClaim(t, k, dc.support[k]).omissions = {} => TookAll(dc, TakeClaim(t, k, dc.support[k]), n + 1)
<1> PICK sup : sup = dc.support[k]
  OBVIOUS
<1> PICK u : u = TakeClaim(t, k, sup)
  OBVIOUS
<1>1. t.claims \in Seq(K) /\ t.evidence \in SUBSET E
  BY DEF Taken
<1>2. CASE Len(t.claims) >= MaxRelationships
  <2>1. u = [t EXCEPT !.omissions = t.omissions \union {<<"relationships", "relationship_limit">>}]
    BY <1>2 DEF TakeClaim
  <2> QED BY <2>1 DEF Taken
<1>3. CASE ~(Len(t.claims) >= MaxRelationships) /\ Cardinality(t.evidence \union sup) > MaxEvidence
  <2>1. u = [t EXCEPT !.omissions = t.omissions \union {<<"relationships", "evidence_limit">>}]
    BY <1>3 DEF TakeClaim
  <2> QED BY <2>1 DEF Taken
<1>4. CASE ~(Len(t.claims) >= MaxRelationships) /\ ~(Cardinality(t.evidence \union sup) > MaxEvidence)
  <2> PICK c : c = Append(t.claims, k)
    OBVIOUS
  <2> PICK e : e = t.evidence \union sup
    OBVIOUS
  <2>1. u = [t EXCEPT !.claims = c, !.evidence = e]
    BY <1>4 DEF TakeClaim
  <2>2. /\ c \in Seq(K) /\ Len(c) = Len(t.claims) + 1
        /\ c[Len(t.claims) + 1] = k /\ \A i \in 1..Len(t.claims) : c[i] = t.claims[i]
    BY <1>1, AppendProperties
  <2>3. e \in SUBSET E
    BY <1>1
  <2>4. u \in Taken(K, E) /\ u.claims = c /\ u.evidence = e /\ u.omissions = t.omissions
    BY <2>1, <2>2, <2>3 DEF Taken
  <2>5. ASSUME t.omissions = {} PROVE TookAll(dc, u, n + 1)
    <3>1. TookAll(dc, t, n)
      BY <2>5
    <3>2. Len(c) = n + 1 /\ \A i \in 1..(n + 1) : c[i] = dc.relationships[i]
      BY <2>2, <3>1 DEF TookAll
    <3>3. e = UNION {dc.support[dc.relationships[i]] : i \in 1..(n + 1)}
      <4>1. t.evidence = UNION {dc.support[dc.relationships[i]] : i \in 1..n}
        BY <3>1 DEF TookAll
      <4>2. \A i : i \in 1..(n + 1) <=> i \in 1..n \/ i = n + 1
        OBVIOUS
      <4>3. \A x : x \in e <=> \E i \in 1..(n + 1) : x \in dc.support[dc.relationships[i]]
        <5>1. \A x : x \in e <=> x \in t.evidence \/ x \in dc.support[dc.relationships[n + 1]]
          OBVIOUS
        <5>2. \A x : x \in t.evidence <=> \E i \in 1..n : x \in dc.support[dc.relationships[i]]
          BY <4>1
        <5> QED BY <4>2, <5>1, <5>2, Zenon
      <4> QED BY <4>3, Zenon
    <3> QED BY <2>4, <3>2, <3>3 DEF TookAll
  <2> QED BY <2>4, <2>5
<1> QED BY <1>2, <1>3, <1>4

\* The first loop of a packet, over all relationships: with no omission it has
\* taken every claim and all the evidence the claims cite.
LEMMA TakeClaimsTells ==
    ASSUME NEW dc, NEW K, NEW E, dc.relationships \in Seq(K),
           \A k \in K : dc.support[k] \subseteq E
    PROVE  /\ TakeClaims(dc) \in Taken(K, E)
           /\ TakeClaims(dc).omissions = {} => TookAll(dc, TakeClaims(dc), Len(dc.relationships))
<1> DEFINE L == Len(dc.relationships)
           first == [claims |-> <<>>, evidence |-> {}, omissions |-> {}]
           Def(g, i) == IF i = 0 THEN first
                        ELSE TakeClaim(g[i - 1], dc.relationships[i], dc.support[dc.relationships[i]])
           Is(g, m) == g = [i \in 0..m |-> Def(g, i)]
           T == {m \in Nat : \E g : Is(g, m)}
<1>0. L \in Nat
  BY LenProperties
<1>1. 0 \in T
  <2> PICK g : g = [i \in 0..0 |-> first]
    OBVIOUS
  <2>1. Is(g, 0)
    OBVIOUS
  <2> QED BY <2>1
<1>2. ASSUME NEW m \in Nat, m \in T PROVE m + 1 \in T
  <2>1. PICK g : Is(g, m)
    BY <1>2
  <2> PICK h : h = [i \in 0..(m + 1) |-> IF i <= m THEN g[i] ELSE Def(g, m + 1)]
    OBVIOUS
  <2>2. ASSUME NEW i \in 0..(m + 1) PROVE h[i] = Def(h, i)
    <3>1. i \in Nat /\ (i # 0 => i - 1 \in 0..m /\ h[i - 1] = g[i - 1])
      BY <1>2
    <3>2. Def(h, i) = Def(g, i)
      BY <3>1
    <3>3. h[i] = Def(g, i)
      <4>1. CASE i <= m
        <5>1. i \in 0..m /\ h[i] = g[i]
          BY <1>2, <3>1, <4>1
        <5> HIDE DEF Def
        <5> QED BY <2>1, <5>1
      <4>2. CASE ~(i <= m)
        <5>1. i = m + 1
          BY <1>2, <3>1, <4>2
        <5>2. h[i] = Def(g, m + 1)
          <6> HIDE DEF Def
          <6> QED BY <1>2, <4>2
        <5> QED BY <5>1, <5>2
      <4> QED BY <4>1, <4>2
    <3> QED BY <3>2, <3>3
  <2>3. Is(h, m + 1)
    <3> HIDE DEF Def
    <3> QED BY <2>2
  <2>4. m + 1 \in Nat
    BY <1>2
  <2> HIDE DEF Is
  <2> QED BY <2>3, <2>4
<1>3. L \in T
  <2> HIDE DEF T, L
  <2> QED BY <1>0, <1>1, <1>2, AllNumbers
<1>4. PICK f : Is(f, L) /\ TakeClaims(dc) = f[L]
  <2>1. \E g : Is(g, L)
    BY <1>3
  <2>2. TakeClaims(dc) = (CHOOSE g : Is(g, L))[L]
    BY DEF TakeClaims
  <2> HIDE DEF Is, L
  <2> QED BY <2>1, <2>2
<1> DEFINE Good(m) == f[m] \in Taken(K, E) /\ (f[m].omissions = {} => TookAll(dc, f[m], m))
           U == {m \in Nat : m <= L => Good(m)}
<1>5. 0 \in U
  <2>1. f[0] = first
    BY <1>0, <1>4
  <2>2. first \in Taken(K, E) /\ TookAll(dc, first, 0)
    <3>1. <<>> \in Seq(K) /\ Len(<<>>) = 0
      BY EmptySeq
    <3>2. UNION {dc.support[dc.relationships[i]] : i \in 1..0} = {}
      BY SMT
    <3> QED BY <3>1, <3>2 DEF Taken, TookAll
  <2> HIDE DEF first
  <2> QED BY <2>1, <2>2
<1>6. ASSUME NEW m \in Nat, m \in U PROVE m + 1 \in U
  <2> SUFFICES ASSUME m + 1 <= L PROVE Good(m + 1)
    BY <1>6
  <2>1. m + 1 \in 0..L /\ m + 1 \in 1..L /\ m <= L /\ m + 1 # 0 /\ (m + 1) - 1 = m
    BY <1>0, <1>6
  <2>2. Good(m)
    BY <1>6, <2>1
  <2>3. f[m + 1] = Def(f, m + 1)
    <3> HIDE DEF Def
    <3> QED BY <1>4, <2>1
  <2>4. PICK k : k = dc.relationships[m + 1]
    OBVIOUS
  <2>5. f[m + 1] = TakeClaim(f[m], k, dc.support[k])
    BY <2>1, <2>3, <2>4
  <2>6. k \in K
    BY <2>1, <2>4, ElementOfSeq
  <2>7. PICK t : t = f[m]
    OBVIOUS
  <2>8. dc.support[k] \subseteq E /\ t \in Taken(K, E) /\ (t.omissions = {} => TookAll(dc, t, m))
    BY <2>2, <2>6, <2>7
  <2>9. PICK u : u = TakeClaim(t, k, dc.support[k])
    OBVIOUS
  <2>10. u \in Taken(K, E) /\ (u.omissions = {} => TookAll(dc, u, m + 1))
    BY <1>6, <2>4, <2>6, <2>8, <2>9, TakeClaimStep
  <2>11. f[m + 1] = u
    BY <2>5, <2>7, <2>9
  <2> QED BY <2>10, <2>11
<1>7. L \in U
  <2> HIDE DEF U, L
  <2> QED BY <1>0, <1>5, <1>6, AllNumbers
<1>8. Good(L)
  <2> HIDE DEF Good, L
  <2> QED BY <1>0, <1>7
<1> QED BY <1>4, <1>8

\* A packet without omissions, of a context that has no limitations and no
\* conflicts, leaves nothing of the context out.
LEMMA ShrunkTellsAll ==
    ASSUME NEW dc, NEW K, NEW n \in Nat, dc.relationships \in Seq(K),
           \A k \in K : dc.support[k] \subseteq dc.evidence,
           IsFiniteSet(dc.evidence), dc.limitations = {}, dc.conflicts = {},
           Shrunk(dc, n).omissions = {}
    PROVE  /\ Shrunk(dc, n).claims = dc.relationships
           /\ Shrunk(dc, n).limitations = 0 /\ Shrunk(dc, n).conflicts = 0
           /\ Cardinality(Shrunk(dc, n).cited) + Shrunk(dc, n).extras = Cardinality(dc.evidence)
<1> DEFINE taken == TakeClaims(dc)
           spare == Cardinality(dc.evidence \ taken.evidence)
           extras == AtMost(spare, Less(MaxEvidence, Cardinality(taken.evidence)))
           limits == AtMost(Cardinality(dc.limitations), MaxItems)
           conflicts == AtMost(Cardinality(dc.conflicts), MaxItems)
           toLimits == Less(n, extras)
           toConflicts == Less(toLimits, limits)
           toClaims == Less(toConflicts, conflicts)
           claims == SubSeq(taken.claims, 1, Less(Len(taken.claims), toClaims))
           p == Shrunk(dc, n)
<1>1. /\ p.claims = claims
      /\ p.cited = UNION {dc.support[claims[i]] : i \in 1..Len(claims)}
      /\ p.extras = Less(extras, n) /\ p.limitations = Less(limits, toLimits)
      /\ p.conflicts = Less(conflicts, toConflicts)
  BY DEF Shrunk
<1>2. /\ taken.omissions = {}
      /\ Noted(Less(spare, extras), "evidence", "evidence_limit") = {}
      /\ Noted(AtMost(n, extras), "evidence", "byte_limit") = {}
      /\ Noted(AtMost(toClaims, Len(taken.claims)), "relationships", "byte_limit") = {}
  BY DEF Shrunk
<1>3. /\ taken \in Taken(K, dc.evidence)
      /\ TookAll(dc, taken, Len(dc.relationships))
  BY <1>2, TakeClaimsTells
<1>4. taken.claims = dc.relationships
  <2>1. taken.claims \in Seq(K)
    BY <1>3 DEF Taken
  <2>2. Len(taken.claims) = Len(dc.relationships) /\ \A i \in 1..Len(taken.claims) : taken.claims[i] = dc.relationships[i]
    BY <1>3 DEF TookAll
  <2> HIDE DEF taken
  <2> QED BY <2>1, <2>2, SeqEqual
<1>5. /\ taken.evidence \subseteq dc.evidence
      /\ taken.evidence = UNION {dc.support[dc.relationships[i]] : i \in 1..Len(dc.relationships)}
  BY <1>3 DEF Taken, TookAll
<1>6. /\ Cardinality(dc.evidence) \in Nat /\ spare \in Nat /\ Cardinality(taken.evidence) \in Nat
      /\ spare = Cardinality(dc.evidence) - Cardinality(taken.evidence)
  <2>1. IsFiniteSet(taken.evidence) /\ dc.evidence \intersect taken.evidence = taken.evidence
    BY <1>5, FS_Subset
  <2>2. IsFiniteSet(dc.evidence \ taken.evidence)
        /\ spare = Cardinality(dc.evidence) - Cardinality(dc.evidence \intersect taken.evidence)
    BY FS_Difference
  <2> HIDE DEF taken
  <2> QED BY <2>1, <2>2, FS_CardinalityType
<1>7. Len(taken.claims) \in Nat /\ Len(dc.relationships) \in Nat
  BY <1>4, LenProperties
<1>8. limits = 0 /\ conflicts = 0
  BY FS_EmptySet, BudgetIsNatural DEF AtMost
<1>9. extras \in Nat /\ extras <= spare
  <2> HIDE DEF taken, spare
  <2> QED BY <1>6, BudgetIsNatural DEF AtMost, Less
<1>10. Less(spare, extras) = 0
  <2> HIDE DEF extras, spare
  <2>1. Less(spare, extras) \in Nat
    BY <1>6, <1>9 DEF Less
  <2>2. ~(Less(spare, extras) > 0)
    BY <1>2 DEF Noted
  <2> QED BY <2>1, <2>2
<1>11. extras = spare
  <2> HIDE DEF extras, spare
  <2> QED BY <1>6, <1>9, <1>10 DEF Less
<1>12. n = 0 \/ extras = 0
  <2> HIDE DEF extras
  <2>1. ~(AtMost(n, extras) > 0)
    BY <1>2 DEF Noted
  <2> QED BY <2>1, <1>9 DEF AtMost
<1>13. p.extras = extras /\ p.limitations = 0 /\ p.conflicts = 0 /\ toClaims \in Nat
  <2>1. toLimits \in Nat
    <3> HIDE DEF extras
    <3> QED BY <1>9 DEF Less
  <2>2. toConflicts = toLimits
    <3> HIDE DEF limits, toLimits
    <3> QED BY <2>1, <1>8 DEF Less
  <2>3. toClaims = toLimits
    <3> HIDE DEF conflicts, toConflicts, toLimits
    <3> QED BY <2>1, <2>2, <1>8 DEF Less
  <2>4. p.extras = extras
    <3> HIDE DEF extras, p
    <3> QED BY <1>1, <1>9, <1>12 DEF Less
  <2>5. p.limitations = 0
    <3> HIDE DEF limits, toLimits, p
    <3> QED BY <1>1, <1>8, <2>1 DEF Less
  <2>6. p.conflicts = 0
    <3> HIDE DEF conflicts, toConflicts, toLimits, p
    <3> QED BY <1>1, <1>8, <2>1, <2>2 DEF Less
  <2> HIDE DEF p, toLimits, toClaims
  <2> QED BY <2>1, <2>3, <2>4, <2>5, <2>6
<1>14. Less(Len(taken.claims), toClaims) = Len(taken.claims)
  <2> HIDE DEF taken, toClaims
  <2>1. ~(AtMost(toClaims, Len(taken.claims)) > 0)
    BY <1>2 DEF Noted
  <2> QED BY <2>1, <1>7, <1>13 DEF AtMost, Less
<1>15. claims = dc.relationships
  <2> HIDE DEF taken, toClaims
  <2> QED BY <1>4, <1>14, SubSeqFull
<1>16. p.cited = taken.evidence
  <2> HIDE DEF taken, claims, p
  <2> QED BY <1>1, <1>5, <1>15
<1>17. Cardinality(p.cited) + p.extras = Cardinality(dc.evidence)
  <2> HIDE DEF taken, spare, extras, p
  <2> QED BY <1>6, <1>9, <1>11, <1>13, <1>16
<1>18. p.claims = dc.relationships
  BY <1>1, <1>15
<1> HIDE DEF p
<1> QED BY <1>13, <1>17, <1>18 DEF p

\* What a context says of the view it was computed from.
ContextIs(c, view, requested, principal, when, q, usable) ==
    /\ q = [k \in DOMAIN view.edges |-> Qualify(view, principal, when, k)]
    /\ usable = {k \in DOMAIN q : q[k].usable /\ ~Cyclic(q, k)}
    /\ c.changed = requested \intersect
          {k.from : k \in usable \intersect {Edge("belongs_to", s, Repo) : s \in Services \intersect view.entities}}
    /\ c.radius = Dependents(Dependencies(usable, view.entities), c.changed)
    /\ c.owners = {k.from : k \in {k \in usable : /\ k.kind = "owns" /\ k.to \in c.radius
                                                 /\ k.from \in view.entities \intersect OwnerIds}}
    /\ c.scope = {Repo} \union c.radius \union c.owners
    /\ DOMAIN c.relationships = {k \in DOMAIN q : {k.from, k.to} \intersect c.scope # {}}
    /\ \A k \in DOMAIN c.relationships : c.relationships[k] = [q[k] EXCEPT !.usable = k \in usable]
    /\ c.evidence = UNION {c.relationships[k].evidence : k \in DOMAIN c.relationships}
    /\ c.conflicts = {x \in Conflicts(q, view) : x.about \intersect c.scope # {}}
    /\ c.limitations = Limitations(requested, c.changed,
                                   {c.relationships[k] : k \in DOMAIN c.relationships}, c.conflicts)

\* context_for_change, field by field.
LEMMA ContextFields ==
    ASSUME NEW view, NEW requested, NEW principal, NEW when
    PROVE  \E q, usable :
              ContextIs(WorldModelContext(view, requested, principal, when), view, requested, principal, when, q, usable)
<1> DEFINE q == [k \in DOMAIN view.edges |-> Qualify(view, principal, when, k)]
           usable == {k \in DOMAIN q : q[k].usable /\ ~Cyclic(q, k)}
           members == {k.from : k \in usable \intersect
                          {Edge("belongs_to", s, Repo) : s \in Services \intersect view.entities}}
           changed == requested \intersect members
           radius == Dependents(Dependencies(usable, view.entities), changed)
           owners == {k.from : k \in {k \in usable : /\ k.kind = "owns" /\ k.to \in radius
                                                    /\ k.from \in view.entities \intersect OwnerIds}}
           scope == {Repo} \union radius \union owners
           relevant == {k \in DOMAIN q : {k.from, k.to} \intersect scope # {}}
           conflicts == {x \in Conflicts(q, view) : x.about \intersect scope # {}}
           assessed == [k \in relevant |-> [q[k] EXCEPT !.usable = k \in usable]]
           contested == {k \in relevant :
                          \/ Cyclic(q, k)
                          \/ k.kind = "owns" /\ q[k].usable /\ k.from \in view.entities \intersect OwnerIds
                             /\ Cardinality(OwnersOf(q, view, k.to)) > 1}
           cited == UNION {assessed[k].evidence : k \in relevant}
           confident == \E k \in relevant : k \in usable /\ k.kind # "has_evidence"
           limitations == Limitations(requested, changed, {assessed[k] : k \in relevant}, conflicts)
<1>0. PICK c : c = WorldModelContext(view, requested, principal, when)
  OBVIOUS
<1>1. c = [changed |-> changed, radius |-> radius, owners |-> owners, scope |-> scope,
           relationships |-> assessed, contested |-> contested, evidence |-> cited,
           confident |-> confident, conflicts |-> conflicts, limitations |-> limitations]
  BY <1>0, Zenon DEF WorldModelContext
<1>2. /\ c.changed = changed /\ c.radius = radius /\ c.owners = owners /\ c.scope = scope
      /\ c.relationships = assessed /\ c.conflicts = conflicts
      /\ c.evidence = cited /\ c.limitations = limitations
  <2> HIDE DEF q, usable, members, changed, radius, owners, scope, relevant, conflicts, assessed, contested,
               cited, confident, limitations
  <2> QED BY <1>1
<1>3. DOMAIN assessed = relevant /\ \A k \in relevant : assessed[k] = [q[k] EXCEPT !.usable = k \in usable]
  <2> HIDE DEF q, usable, relevant
  <2> QED OBVIOUS
<1>4. /\ cited = UNION {c.relationships[k].evidence : k \in DOMAIN c.relationships}
      /\ limitations = Limitations(requested, c.changed,
                                   {c.relationships[k] : k \in DOMAIN c.relationships}, c.conflicts)
  <2>1. c.relationships = assessed /\ DOMAIN c.relationships = relevant /\ c.changed = changed /\ c.conflicts = conflicts
    <3> HIDE DEF assessed, relevant, changed, conflicts
    <3> QED BY <1>2, <1>3
  <2>2. cited = UNION {assessed[k].evidence : k \in relevant}
        /\ limitations = Limitations(requested, changed, {assessed[k] : k \in relevant}, conflicts)
    BY Zenon
  <2> HIDE DEF assessed, changed, conflicts, relevant, cited, limitations
  <2>3. {c.relationships[k].evidence : k \in DOMAIN c.relationships} = {assessed[k].evidence : k \in relevant}
        /\ {c.relationships[k] : k \in DOMAIN c.relationships} = {assessed[k] : k \in relevant}
    BY <2>1
  <2> QED BY <2>1, <2>2, <2>3
<1>5. /\ usable = {k \in DOMAIN q : q[k].usable /\ ~Cyclic(q, k)}
      /\ q = [k \in DOMAIN view.edges |-> Qualify(view, principal, when, k)]
  BY Zenon
<1>6. /\ changed = requested \intersect
          {k.from : k \in usable \intersect {Edge("belongs_to", s, Repo) : s \in Services \intersect view.entities}}
      /\ radius = Dependents(Dependencies(usable, view.entities), changed)
      /\ owners = {k.from : k \in {k \in usable : /\ k.kind = "owns" /\ k.to \in radius
                                                  /\ k.from \in view.entities \intersect OwnerIds}}
      /\ scope = {Repo} \union radius \union owners
      /\ relevant = {k \in DOMAIN q : {k.from, k.to} \intersect scope # {}}
      /\ conflicts = {x \in Conflicts(q, view) : x.about \intersect scope # {}}
  BY Zenon
<1> HIDE DEF q, usable, members, changed, radius, owners, scope, relevant, conflicts, assessed, contested,
             cited, confident, limitations
<1>7. ContextIs(c, view, requested, principal, when, q, usable)
  <2>1. c.radius = Dependents(Dependencies(usable, view.entities), c.changed)
    BY <1>2, <1>6, Zenon
  <2>2. c.owners = {k.from : k \in {k \in usable : /\ k.kind = "owns" /\ k.to \in c.radius
                                                  /\ k.from \in view.entities \intersect OwnerIds}}
    BY <1>2, <1>6
  <2>3. c.scope = {Repo} \union c.radius \union c.owners
    BY <1>2, <1>6, Zenon
  <2>4. DOMAIN c.relationships = {k \in DOMAIN q : {k.from, k.to} \intersect c.scope # {}}
    BY <1>2, <1>3, <1>6
  <2>5. \A k \in DOMAIN c.relationships : c.relationships[k] = [q[k] EXCEPT !.usable = k \in usable]
    BY <1>2, <1>3
  <2>6. c.conflicts = {x \in Conflicts(q, view) : x.about \intersect c.scope # {}}
    BY <1>2, <1>6
  <2>7. /\ c.evidence = UNION {c.relationships[k].evidence : k \in DOMAIN c.relationships}
        /\ c.limitations = Limitations(requested, c.changed,
                                   {c.relationships[k] : k \in DOMAIN c.relationships}, c.conflicts)
    BY <1>2, <1>4, Zenon
  <2>8. c.changed = requested \intersect
          {k.from : k \in usable \intersect {Edge("belongs_to", s, Repo) : s \in Services \intersect view.entities}}
    BY <1>2, <1>6, Zenon
  <2> QED BY <1>5, <2>1, <2>2, <2>3, <2>4, <2>5, <2>6, <2>7, <2>8, Zenon DEF ContextIs
<1> QED BY <1>0, <1>7

-----------------------------------------------------------------------------
(* A decision context and its packet *)

\* What the packet rests on: a context's claims cite evidence of the context,
\* and a qualified context has no limitation and no conflict.
ContextIsSound(dc) ==
    /\ dc.relationships \in Seq(DOMAIN dc.support)
    /\ \A k \in DOMAIN dc.support : dc.support[k] \subseteq dc.evidence
    /\ IsFiniteSet(dc.evidence)
    /\ dc.qualified => dc.limitations = {} /\ dc.conflicts = {}

\* The evidence a context holds was listed.
LEMMA ContextEvidence ==
    ASSUME NEW c, NEW view, NEW requested, NEW principal, NEW when, NEW q, NEW usable,
           ContextIs(c, view, requested, principal, when, q, usable)
    PROVE  /\ \A k \in DOMAIN c.relationships : c.relationships[k].fresh \subseteq c.relationships[k].evidence
           /\ c.evidence \subseteq DOMAIN view.evidence
<1>1. \A k \in DOMAIN view.edges : /\ q[k] = Qualify(view, principal, when, k)
                                  /\ DOMAIN q = DOMAIN view.edges
  BY DEF ContextIs
<1>2. \A k \in DOMAIN c.relationships : k \in DOMAIN view.edges
                                        /\ c.relationships[k] = [q[k] EXCEPT !.usable = k \in usable]
  BY DEF ContextIs
<1>3. ASSUME NEW k \in DOMAIN c.relationships
      PROVE  /\ c.relationships[k].fresh \subseteq c.relationships[k].evidence
             /\ c.relationships[k].evidence \subseteq DOMAIN view.evidence
  <2> DEFINE known == view.edges[k] \intersect DOMAIN view.evidence
             authorized == {e \in known : view.evidence[e].acl \intersect principal # {}}
             fresh == {e \in authorized : Fresh(view, e, when)}
  <2>1. c.relationships[k] = [Qualify(view, principal, when, k) EXCEPT !.usable = k \in usable]
    BY <1>1, <1>2
  <2>2. Qualify(view, principal, when, k) =
          [evidence |-> authorized, fresh |-> fresh, withheld |-> known # authorized,
           freshness |-> IF authorized = {} THEN "unknown" ELSE IF fresh = {} THEN "stale" ELSE "fresh",
           usable |-> fresh # {} /\ Confident(fresh)]
    BY Zenon DEF Qualify
  <2>3. fresh \subseteq authorized /\ authorized \subseteq DOMAIN view.evidence
    OBVIOUS
  <2> HIDE DEF known, authorized, fresh
  <2>4. c.relationships[k].evidence = authorized /\ c.relationships[k].fresh = fresh
    BY <2>1, <2>2
  <2> QED BY <2>3, <2>4
<1>4. c.evidence = UNION {c.relationships[k].evidence : k \in DOMAIN c.relationships}
  BY DEF ContextIs
<1> QED BY <1>3, <1>4

\* decision_context_from_world_model of a context of a finite view is sound.
LEMMA DecisionContextIsSound ==
    ASSUME NEW view, NEW requested, NEW principal, NEW when, IsFiniteSet(DOMAIN view.evidence)
    PROVE  ContextIsSound(DecisionContext(WorldModelContext(view, requested, principal, when)))
<1> PICK c : c = WorldModelContext(view, requested, principal, when)
  OBVIOUS
<1>1. PICK q, usable : ContextIs(c, view, requested, principal, when, q, usable)
  BY ContextFields
<1>2. /\ \A k \in DOMAIN c.relationships : c.relationships[k].fresh \subseteq c.relationships[k].evidence
      /\ c.evidence \subseteq DOMAIN view.evidence
      /\ c.evidence = UNION {c.relationships[k].evidence : k \in DOMAIN c.relationships}
  <2>1. c.evidence = UNION {c.relationships[k].evidence : k \in DOMAIN c.relationships}
    BY <1>1 DEF ContextIs
  <2> QED BY <1>1, <2>1, ContextEvidence
<1> PICK dc : dc = DecisionContext(c)
  OBVIOUS
<1>3. /\ dc.qualified = Qualified(c) /\ dc.relationships = InOrder(ClaimsOf(c))
      /\ dc.support = Citations(c) /\ dc.evidence = c.evidence /\ dc.conflicts = c.conflicts
      /\ dc.limitations = IF ~Qualified(c) /\ c.limitations = {} THEN {"insufficient"} ELSE c.limitations
  BY DEF DecisionContext, Inventory
<1>4. DOMAIN dc.support = ClaimsOf(c) /\ \A k \in ClaimsOf(c) : dc.support[k] = c.relationships[k].fresh
  BY <1>3 DEF Citations
<1>5. ClaimsOf(c) \subseteq DOMAIN c.relationships
  BY DEF ClaimsOf
<1>6. dc.relationships \in Seq(DOMAIN dc.support)
  BY <1>3, <1>4, InOrderIsOfKeys
<1>7. \A k \in DOMAIN dc.support : dc.support[k] \subseteq dc.evidence
  BY <1>2, <1>3, <1>4, <1>5
<1>8. IsFiniteSet(dc.evidence)
  BY <1>2, <1>3, FS_Subset
<1>9. dc.qualified => dc.limitations = {} /\ dc.conflicts = {}
  BY <1>3 DEF Qualified
<1> QED BY <1>6, <1>7, <1>8, <1>9 DEF ContextIsSound

\* The judgements of a packet agree: one that a proposal may rest on is ready,
\* asks for no human review, and left nothing of its context out.
PacketTells(dc, packet) ==
    dc.qualified /\ Complete(packet) =>
        /\ HealthState(dc, packet) = "ready" /\ ~RequiresHumanReview(dc, packet)
        /\ packet.claims = dc.relationships
        /\ Cardinality(packet.cited) + packet.extras = Cardinality(dc.evidence)

\* context_packet_from_decision_context of a sound context.
LEMMA PacketOfSoundContext ==
    ASSUME NEW dc, ContextIsSound(dc), ContextPacket(dc) # Unpackable
    PROVE  PacketTells(dc, ContextPacket(dc))
<1> PICK p : p = ContextPacket(dc)
  OBVIOUS
<1> SUFFICES ASSUME dc.qualified, Complete(p)
             PROVE  /\ HealthState(dc, p) = "ready" /\ ~RequiresHumanReview(dc, p)
                    /\ p.claims = dc.relationships
                    /\ Cardinality(p.cited) + p.extras = Cardinality(dc.evidence)
  BY DEF PacketTells
<1>1. /\ dc.relationships \in Seq(DOMAIN dc.support)
      /\ \A k \in DOMAIN dc.support : dc.support[k] \subseteq dc.evidence
      /\ IsFiniteSet(dc.evidence) /\ dc.limitations = {} /\ dc.conflicts = {}
  BY DEF ContextIsSound
<1>2. Droppable(dc) \in Nat
  <2>1. /\ Cardinality(dc.evidence) \in Nat /\ Len(dc.relationships) \in Nat
        /\ Cardinality(dc.limitations) = 0 /\ Cardinality(dc.conflicts) = 0
    BY <1>1, FS_CardinalityType, FS_EmptySet, LenProperties
  <2> QED BY <2>1 DEF Droppable
<1>3. Fitting(dc) \subseteq Nat /\ Fitting(dc) # {}
  BY <1>2 DEF Fitting, ContextPacket
<1>4. PICK n \in Nat : p = Shrunk(dc, n)
  <2>1. \E n \in Fitting(dc) : \A m \in Fitting(dc) : n <= m
    BY <1>3, LeastNumber
  <2>2. Min(Fitting(dc)) \in Fitting(dc)
    BY <2>1 DEF Min
  <2>3. p = Shrunk(dc, Min(Fitting(dc)))
    BY <1>3 DEF ContextPacket
  <2> QED BY <1>3, <2>2, <2>3
<1>5. p.omissions = {}
  BY DEF Complete
<1>6. /\ p.claims = dc.relationships /\ p.limitations = 0 /\ p.conflicts = 0
      /\ Cardinality(p.cited) + p.extras = Cardinality(dc.evidence)
  <2> PICK K : K = DOMAIN dc.support
    OBVIOUS
  <2>1. dc.relationships \in Seq(K) /\ \A k \in K : dc.support[k] \subseteq dc.evidence
    BY <1>1
  <2>2. Shrunk(dc, n).omissions = {}
    BY <1>4, <1>5
  <2>3. /\ Shrunk(dc, n).claims = dc.relationships
        /\ Shrunk(dc, n).limitations = 0 /\ Shrunk(dc, n).conflicts = 0
        /\ Cardinality(Shrunk(dc, n).cited) + Shrunk(dc, n).extras = Cardinality(dc.evidence)
    BY <1>1, <2>1, <2>2, ShrunkTellsAll
  <2> QED BY <1>4, <2>3
<1>7. HealthState(dc, p) = "ready"
  BY <1>1 DEF HealthState
<1>8. ~RequiresHumanReview(dc, p)
  BY <1>6 DEF RequiresHumanReview
<1> QED BY <1>6, <1>7, <1>8

\* A receipt's life, and what its packet tells, for a retained correction.
BackedAt(r, t) ==
    /\ r.issued <= t /\ t < r.expires
    /\ HealthState(r.dc, r.packet) = "ready" /\ ~RequiresHumanReview(r.dc, r.packet)
    /\ r.packet.claims = r.dc.relationships
    /\ Cardinality(r.packet.cited) + r.packet.extras = Cardinality(r.dc.evidence)

\* What a reader and the receipts hold is what packets of sound contexts tell.
ReviewInv ==
    /\ IsFiniteSet(DOMAIN evidence)
    /\ reader.step = "evidence" => IsFiniteSet(DOMAIN reader.evidence)
    /\ reader.step = "done" /\ reader.packet # Unpackable => PacketTells(reader.dc, reader.packet)
    /\ \A r \in receipts : PacketTells(r.dc, r.packet)
    /\ \A r \in DOMAIN corrections : BackedAt(r, corrections[r])

\* The stored evidence stays finite.
LEMMA EvidenceStaysFinite ==
    ASSUME IsFiniteSet(DOMAIN evidence), ProjectorCall
    PROVE  IsFiniteSet(DOMAIN evidence')
<1> PICK c : c = Head(script)
  OBVIOUS
<1>1. evidence' = CASE c.op = "evidence" -> Put(evidence, c.key, [at |-> now, acl |-> c.acl])
                    [] c.op = "retire" -> Drop(evidence, c.key)
                    [] OTHER -> evidence
  BY DEF ProjectorCall
<1>2. CASE c.op = "evidence"
  <2>1. evidence' = Put(evidence, c.key, [at |-> now, acl |-> c.acl])
    BY <1>1, <1>2
  <2>2. DOMAIN evidence' = DOMAIN evidence \union {c.key}
    BY <2>1 DEF Put
  <2> QED BY <2>2, FS_AddElement
<1>3. CASE c.op = "retire"
  <2>1. evidence' = Drop(evidence, c.key)
    BY <1>1, <1>3
  <2>2. DOMAIN evidence' = DOMAIN evidence \ {c.key}
    BY <2>1 DEF Drop
  <2> QED BY <2>2, FS_RemoveElement
<1>4. CASE c.op # "evidence" /\ c.op # "retire"
  BY <1>1, <1>4
<1> QED BY <1>2, <1>3, <1>4

\* The store's steps and the passing of time leave the review alone.
LEMMA ReviewInvKept ==
    ASSUME ReviewInv, IsFiniteSet(DOMAIN evidence'), UNCHANGED <<reader, review>>
    PROVE  ReviewInv'
BY DEF ReviewInv, review, PacketTells, BackedAt

\* A query: its context and its packet come from what its calls listed.
LEMMA ReadStepReviewInv ==
    ASSUME ReviewInv, ReadStep
    PROVE  ReviewInv'
<1>1. UNCHANGED <<evidence, receipts, corrections>>
  BY DEF ReadStep, store, review
<1> SUFFICES /\ reader'.step = "evidence" => IsFiniteSet(DOMAIN reader'.evidence)
             /\ reader'.step = "done" /\ reader'.packet # Unpackable => PacketTells(reader'.dc, reader'.packet)
  BY <1>1 DEF ReviewInv, PacketTells, BackedAt
<1>2. CASE \E s \in Requests : ListEntities(s)
  BY <1>2 DEF ListEntities
<1>3. CASE ListEvidence
  BY <1>3 DEF ListEvidence, ReviewInv
<1>4. CASE ListRelationships
  <2> PICK view : view = [entities |-> reader.entities, evidence |-> reader.evidence, edges |-> edges]
    OBVIOUS
  <2> PICK dc : dc = DecisionContext(WorldModelContext(view, reader.requested, Principal, reader.when))
    OBVIOUS
  <2>1. reader'.step = "done" /\ reader'.dc = dc /\ reader'.packet = ContextPacket(dc)
    BY <1>4 DEF ListRelationships
  <2>2. IsFiniteSet(DOMAIN view.evidence)
    BY <1>4 DEF ListRelationships, ReviewInv
  <2>3. ContextIsSound(dc)
    BY <2>2, DecisionContextIsSound
  <2> QED BY <2>1, <2>3, PacketOfSoundContext
<1> QED BY <1>2, <1>3, <1>4 DEF ReadStep

\* Receipts bind a packet the reader holds; a proposal rests on a live receipt
\* of a qualified, complete packet.
LEMMA ReviewStepReviewInv ==
    ASSUME ReviewInv, ReviewStep
    PROVE  ReviewInv'
<1>1. UNCHANGED <<evidence, reader, now>>
  BY DEF ReviewStep, store
<1> SUFFICES /\ \A r \in receipts' : PacketTells(r.dc, r.packet)
             /\ \A r \in DOMAIN corrections' : BackedAt(r, corrections'[r])
  BY <1>1 DEF ReviewInv, PacketTells, BackedAt
<1>2. CASE \E t \in Ttls : Issue(t)
  <2>1. PICK t \in Ttls : Issue(t)
    BY <1>2
  <2> PICK x : x = Receipt(reader.dc, reader.packet, t)
    OBVIOUS
  <2>2. receipts' = receipts \union {x} /\ corrections' = corrections
    BY <2>1 DEF Issue, RecordReceipt
  <2>3. x.dc = reader.dc /\ x.packet = reader.packet
    BY DEF Receipt
  <2>4. PacketTells(reader.dc, reader.packet)
    BY <2>1 DEF Issue, ReviewInv
  <2> QED BY <2>2, <2>3, <2>4 DEF ReviewInv
<1>3. CASE \E r \in receipts : Submit(r)
  <2>1. PICK r \in receipts : Submit(r)
    BY <1>3
  <2>2. receipts' = receipts /\ corrections' = Put(corrections, r, now)
    BY <2>1 DEF Submit, RecordProposal, CorrectionId
  <2>3. BackedAt(r, now)
    <3>1. PacketTells(r.dc, r.packet) /\ r.dc.qualified /\ Complete(r.packet)
          /\ r.issued <= now /\ now < r.expires
      BY <2>1 DEF ReviewInv, Submit, MaySupportProposal
    <3> QED BY <3>1 DEF PacketTells, BackedAt
  <2>4. ASSUME NEW x \in DOMAIN corrections' PROVE BackedAt(x, corrections'[x])
    <3>1. /\ DOMAIN corrections' = DOMAIN corrections \union {r} /\ corrections'[r] = now
          /\ \A y \in DOMAIN corrections : y # r => corrections'[y] = corrections[y]
      BY <2>2 DEF Put
    <3>2. CASE x = r
      BY <2>3, <3>1, <3>2
    <3>3. CASE x # r
      BY <3>1, <3>3 DEF ReviewInv
    <3> QED BY <3>2, <3>3
  <2> QED BY <2>2, <2>4 DEF ReviewInv
<1>4. CASE \E r \in receipts, b \in Reviewers, d \in {"accept_for_revalidation", "reject"} : Review(r, b, d)
  <2>1. UNCHANGED <<receipts, corrections>>
    BY <1>4 DEF Review
  <2> QED BY <2>1 DEF ReviewInv
<1> QED BY <1>2, <1>3, <1>4 DEF ReviewStep

\* Every step keeps what the review rests on.
LEMMA ReviewInvNext ==
    ASSUME ReviewInv, [Next]_vars
    PROVE  ReviewInv'
<1>0. IsFiniteSet(DOMAIN evidence)
  BY DEF ReviewInv
<1>1. CASE Time
  <2>1. UNCHANGED <<evidence, reader, review>>
    BY <1>1 DEF Time, store
  <2> QED BY <1>0, <2>1, ReviewInvKept
<1>2. CASE Correction
  <2>1. CASE StoreStep
    <3>1. UNCHANGED <<reader, review>>
      BY <2>1 DEF StoreStep
    <3>2. evidence' = evidence \/ ProjectorCall
      BY <2>1 DEF StoreStep, Upsert, Retract
    <3>3. IsFiniteSet(DOMAIN evidence')
      BY <1>0, <3>2, EvidenceStaysFinite
    <3> QED BY <3>1, <3>3, ReviewInvKept
  <2>2. CASE ReadStep
    BY <2>2, ReadStepReviewInv
  <2>3. CASE ReviewStep
    BY <2>3, ReviewStepReviewInv
  <2> QED BY <1>2, <2>1, <2>2, <2>3 DEF Correction, NextReview
<1>3. CASE Maintenance
  <2>1. UNCHANGED <<evidence, reader, review>>
    BY <1>3 DEF Maintenance, store
  <2> QED BY <1>0, <2>1, ReviewInvKept
<1>4. CASE UNCHANGED vars
  <2>1. UNCHANGED <<evidence, reader, review>>
    BY <1>4 DEF vars, store
  <2> QED BY <1>0, <2>1, ReviewInvKept
<1> QED BY <1>1, <1>2, <1>3, <1>4 DEF Next

\* A retained correction (SqliteCorrectionStore.record_proposal) was submitted
\* in the life of a receipt whose packet left nothing of the read out, and the
\* receipt's gate, the context health and the decision brief agree on it.
THEOREM ProposalsAreBacked == Spec => []ProposalIsBacked
<1>1. Init => ReviewInv
  <2> SUFFICES ASSUME Init PROVE ReviewInv
    OBVIOUS
  <2>1. evidence = <<>> /\ reader.step = "idle" /\ receipts = {} /\ corrections = <<>>
    BY DEF Init, InitReview, Idle
  <2>2. DOMAIN evidence = {} /\ DOMAIN corrections = {}
    BY <2>1
  <2> QED BY <2>1, <2>2, FS_EmptySet DEF ReviewInv
<1>2. ReviewInv /\ [Next]_vars => ReviewInv'
  BY ReviewInvNext
<1>3. ReviewInv => ProposalIsBacked
  BY DEF ReviewInv, ProposalIsBacked, BackedAt
<1> QED BY <1>1, <1>2, <1>3, PTL DEF Spec

-----------------------------------------------------------------------------
(* The blast radius *)

\* The walk reaches its start, and what depends on what it reached.
LEMMA DependentsAreClosed ==
    ASSUME NEW arrows, NEW from, \A k \in arrows : k.from \in Services
    PROVE  /\ from \subseteq Dependents(arrows, from)
           /\ Closed(arrows, Dependents(arrows, from))
           /\ Dependents(arrows, from) \subseteq Services \union from
<1> PICK all : all = Services \union from
  OBVIOUS
<1> PICK D : D = Dependents(arrows, from)
  OBVIOUS
<1>1. D = {s \in all : \A T \in SUBSET all : from \subseteq T /\ Closed(arrows, T) => s \in T}
  BY DEF Dependents
<1>2. from \subseteq D /\ D \subseteq all
  BY <1>1
<1>3. ASSUME NEW k \in arrows, k.to \in D PROVE k.from \in D
  <2>1. k.from \in all
    OBVIOUS
  <2>2. ASSUME NEW T \in SUBSET all, from \subseteq T, Closed(arrows, T) PROVE k.from \in T
    <3>1. k.to \in T
      BY <1>1, <1>3, <2>2
    <3> QED BY <2>2, <3>1 DEF Closed
  <2> QED BY <1>1, <2>1, <2>2
<1> QED BY <1>2, <1>3 DEF Closed

\* The walk reaches no more than any closed set around its start.
LEMMA DependentsAreLeast ==
    ASSUME NEW arrows, NEW from, NEW T, from \subseteq T, T \subseteq Services \union from, Closed(arrows, T)
    PROVE  Dependents(arrows, from) \subseteq T
BY DEF Dependents

\* What a qualified context says: everything requested is known, and every
\* relationship that touches the context is usable.
LEMMA QualifiedContext ==
    ASSUME NEW c, NEW view, NEW requested, NEW principal, NEW when, NEW q, NEW usable,
           ContextIs(c, view, requested, principal, when, q, usable), Qualified(c)
    PROVE  /\ c.changed = requested
           /\ DOMAIN q = DOMAIN view.edges
           /\ \A k \in DOMAIN c.relationships : k \in usable /\ c.relationships[k].usable
           /\ \A k \in usable : k \in DOMAIN view.edges /\ q[k].usable
<1>1. c.limitations = {} /\ c.conflicts = {}
  BY DEF Qualified
<1>2. c.limitations = Limitations(requested, c.changed,
                                  {c.relationships[k] : k \in DOMAIN c.relationships}, c.conflicts)
  BY DEF ContextIs
<1>3. /\ c.changed = requested
      /\ \A r \in {c.relationships[k] : k \in DOMAIN c.relationships} : r.usable
  <2> PICK rs : rs = {c.relationships[k] : k \in DOMAIN c.relationships}
    OBVIOUS
  <2>1. "unmapped" \notin c.limitations /\ "unusable" \notin c.limitations
    BY <1>1
  <2> QED BY <1>2, <2>1 DEF Limitations
<1>4. \A k \in DOMAIN c.relationships : c.relationships[k].usable
  BY <1>3
<1>5. DOMAIN q = DOMAIN view.edges /\ \A k \in usable : k \in DOMAIN view.edges /\ q[k].usable
  BY DEF ContextIs
<1>6. ASSUME NEW k \in DOMAIN c.relationships PROVE k \in usable
  <2>1. c.relationships[k] = [q[k] EXCEPT !.usable = k \in usable] /\ k \in DOMAIN view.edges
    BY DEF ContextIs
  <2>2. q[k] = Qualify(view, principal, when, k)
    BY <2>1 DEF ContextIs
  <2>3. c.relationships[k].usable = (k \in usable)
    BY <2>1, <2>2 DEF Qualify
  <2> QED BY <1>4, <2>3
<1> QED BY <1>3, <1>4, <1>5, <1>6

\* The part of a context that a qualified one says of its view's edges.
Whole(c, view, requested, usable) ==
    /\ requested \subseteq Services
    /\ c.radius \subseteq Services /\ requested \subseteq c.radius
    /\ Closed(Dependencies(usable, view.entities), c.radius)
    /\ usable \subseteq DOMAIN view.edges
    /\ \A k \in DOMAIN view.edges : k.to \in c.radius => k \in DOMAIN c.relationships /\ k \in usable
    /\ \A s \in requested : Edge("belongs_to", s, Repo) \in DOMAIN view.edges
    /\ \A T : requested \subseteq T /\ T \subseteq Services /\ Closed(Dependencies(usable, view.entities), T)
                => c.radius \subseteq T

\* A qualified context is whole.
LEMMA QualifiedContextIsWhole ==
    ASSUME NEW c, NEW view, NEW requested, NEW principal, NEW when, NEW q, NEW usable,
           ContextIs(c, view, requested, principal, when, q, usable), Qualified(c)
    PROVE  Whole(c, view, requested, usable)
<1>1. /\ c.changed = requested /\ DOMAIN q = DOMAIN view.edges
      /\ \A k \in DOMAIN c.relationships : k \in usable
      /\ usable \subseteq DOMAIN view.edges
  BY QualifiedContext
<1> PICK arrows : arrows = Dependencies(usable, view.entities)
  OBVIOUS
<1>2. \A k \in arrows : k.from \in Services
  BY DEF Dependencies
<1>3. \A s \in requested : s \in Services /\ Edge("belongs_to", s, Repo) \in usable
  <2> SUFFICES ASSUME NEW s \in requested PROVE s \in Services /\ Edge("belongs_to", s, Repo) \in usable
    OBVIOUS
  <2>1. s \in {k.from : k \in usable \intersect {Edge("belongs_to", x, Repo) : x \in Services \intersect view.entities}}
    BY <1>1 DEF ContextIs
  <2>2. PICK x \in Services : Edge("belongs_to", x, Repo) \in usable /\ s = Edge("belongs_to", x, Repo).from
    BY <2>1
  <2>3. s = x
    BY <2>2 DEF Edge
  <2> QED BY <2>2, <2>3
<1>4. c.radius = Dependents(arrows, requested)
  BY <1>1 DEF ContextIs
<1>5. /\ requested \subseteq c.radius /\ Closed(arrows, c.radius)
      /\ c.radius \subseteq Services \union requested
  BY <1>2, <1>4, DependentsAreClosed
<1>6. c.radius \subseteq Services
  BY <1>3, <1>5
<1>7. \A k \in DOMAIN view.edges : k.to \in c.radius => k \in DOMAIN c.relationships
  <2>1. /\ DOMAIN c.relationships = {k \in DOMAIN q : {k.from, k.to} \intersect c.scope # {}}
        /\ c.radius \subseteq c.scope
    BY DEF ContextIs
  <2> QED BY <1>1, <2>1
<1>8. ASSUME NEW T, requested \subseteq T, T \subseteq Services, Closed(arrows, T) PROVE c.radius \subseteq T
  BY <1>4, <1>8, DependentsAreLeast
<1> QED BY <1>1, <1>3, <1>5, <1>6, <1>7, <1>8 DEF Whole

\* The radius has what depends on it through the edges of the view that were
\* also there when the query began.
LEMMA SteadyDependents ==
    ASSUME NEW c, NEW view, NEW requested, NEW usable, NEW began, Whole(c, view, requested, usable)
    PROVE  Dependents(Dependencies(began \intersect DOMAIN view.edges, view.entities), requested) \subseteq c.radius
<1> PICK steady : steady = Dependencies(began \intersect DOMAIN view.edges, view.entities)
  OBVIOUS
<1>1. Closed(steady, c.radius)
  <2> SUFFICES ASSUME NEW k \in steady, k.to \in c.radius PROVE k.from \in c.radius
    BY DEF Closed
  <2>1. k \in DOMAIN view.edges /\ k.kind = "depends_on" /\ {k.from, k.to} \subseteq view.entities \intersect Services
    BY DEF Dependencies
  <2>2. k \in usable
    BY <2>1 DEF Whole
  <2>3. k \in Dependencies(usable, view.entities)
    BY <2>1, <2>2 DEF Dependencies
  <2> QED BY <2>3 DEF Whole, Closed
<1> QED BY <1>1, DependentsAreLeast DEF Whole

\* The graph the risk score reads reaches the same services.
LEMMA GraphReachesRadius ==
    ASSUME NEW c, NEW view, NEW requested, NEW usable, Whole(c, view, requested, usable),
           \A k \in DOMAIN c.relationships : c.relationships[k].usable
    PROVE  Dependents(GraphOf(c).dependencies, requested) = c.radius
<1> PICK arrows : arrows = GraphOf(c).dependencies
  OBVIOUS
<1>1. arrows = {k \in DOMAIN c.relationships : /\ k.kind = "depends_on" /\ c.relationships[k].usable
                                             /\ {k.from, k.to} \subseteq c.radius}
  BY DEF GraphOf
<1>2. requested \subseteq c.radius /\ c.radius \subseteq Services
  BY DEF Whole
<1> PICK D : D = Dependents(arrows, requested)
  OBVIOUS
<1>3. D \subseteq c.radius
  <2>1. Closed(arrows, c.radius)
    BY <1>1 DEF Closed
  <2> QED BY <1>2, <2>1, DependentsAreLeast
<1>4. \A k \in arrows : k.from \in Services
  BY <1>1, <1>2
<1>5. requested \subseteq D /\ Closed(arrows, D)
  BY <1>4, DependentsAreClosed
<1>6. Closed(Dependencies(usable, view.entities), D)
  <2> SUFFICES ASSUME NEW k \in Dependencies(usable, view.entities), k.to \in D PROVE k.from \in D
    BY DEF Closed
  <2>1. k \in usable /\ k.kind = "depends_on" /\ k.to \in c.radius
    BY <1>3 DEF Dependencies
  <2>2. k.from \in c.radius /\ k \in DOMAIN c.relationships
    BY <2>1 DEF Whole, Closed
  <2>3. k \in arrows
    BY <1>1, <2>1, <2>2
  <2> QED BY <1>5, <2>3 DEF Closed
<1>7. c.radius \subseteq D
  BY <1>2, <1>3, <1>5, <1>6 DEF Whole
<1> QED BY <1>3, <1>7

\* The plain Company Brain, when it can read the view, has the same radius and
\* the same owners.
LEMMA PlainAgrees ==
    ASSUME NEW c, NEW view, NEW requested, NEW principal, NEW when, NEW q, NEW usable,
           ContextIs(c, view, requested, principal, when, q, usable), Qualified(c), SnapshotReads(view)
    PROVE  /\ PlainContext(view, requested).radius = c.radius
           /\ PlainContext(view, requested).owners = c.owners
<1>0. Whole(c, view, requested, usable)
  BY QualifiedContextIsWhole
<1>1. requested \intersect ServicesForRepository(view) = requested
  <2> SUFFICES ASSUME NEW s \in requested PROVE s \in ServicesForRepository(view)
    OBVIOUS
  <2>1. PICK k : k = Edge("belongs_to", s, Repo)
    OBVIOUS
  <2>2. k.kind = "belongs_to" /\ k.to = Repo /\ k.from = s
    BY <2>1 DEF Edge
  <2>3. k \in DOMAIN view.edges /\ s \in Services
    BY <1>0, <2>1 DEF Whole
  <2> QED BY <2>2, <2>3 DEF ServicesForRepository
<1> PICK arrows : arrows = {k \in DOMAIN view.edges : k.kind = "depends_on" /\ k.from \in Services}
  OBVIOUS
<1> PICK D : D = Dependents(arrows, requested)
  OBVIOUS
<1>2. /\ PlainContext(view, requested).radius = D
      /\ PlainContext(view, requested).owners = UNION {OwnerIdsForService(view, s) : s \in D}
  BY <1>1 DEF PlainContext, PlainBlastRadius
<1>3. \A k \in DOMAIN view.edges : {k.from, k.to} \subseteq view.entities
  BY DEF SnapshotReads
<1>4. requested \subseteq c.radius /\ c.radius \subseteq Services
  BY <1>0 DEF Whole
<1>5. D \subseteq c.radius
  <2>1. Closed(arrows, c.radius)
    <3> SUFFICES ASSUME NEW k \in arrows, k.to \in c.radius PROVE k.from \in c.radius
      BY DEF Closed
    <3>1. k \in usable /\ k.kind = "depends_on" /\ k.from \in Services /\ k.to \in Services
      BY <1>0, <1>4 DEF Whole
    <3>2. k \in Dependencies(usable, view.entities)
      BY <1>3, <3>1 DEF Dependencies
    <3> QED BY <1>0, <3>2 DEF Whole, Closed
  <2> QED BY <1>4, <2>1, DependentsAreLeast
<1>6. requested \subseteq D /\ Closed(arrows, D)
  <2>1. \A k \in arrows : k.from \in Services
    OBVIOUS
  <2> QED BY <2>1, DependentsAreClosed
<1>7. Closed(Dependencies(usable, view.entities), D)
  <2> SUFFICES ASSUME NEW k \in Dependencies(usable, view.entities), k.to \in D PROVE k.from \in D
    BY DEF Closed
  <2>1. k \in DOMAIN view.edges /\ k.kind = "depends_on" /\ k.from \in Services
    BY <1>0 DEF Dependencies, Whole
  <2>2. k \in arrows
    BY <2>1
  <2> QED BY <1>6, <2>2 DEF Closed
<1>8. D = c.radius
  <2>1. D \subseteq Services
    BY <1>4, <1>5
  <2>2. c.radius \subseteq D
    BY <1>0, <1>6, <1>7, <2>1 DEF Whole
  <2> QED BY <1>5, <2>2
<1>9. c.owners = UNION {OwnerIdsForService(view, s) : s \in D}
  <2>1. c.owners = {k.from : k \in {k \in usable : /\ k.kind = "owns" /\ k.to \in c.radius
                                                   /\ k.from \in view.entities \intersect OwnerIds}}
    BY DEF ContextIs
  <2>2. \A o : o \in c.owners <=> \E k \in DOMAIN view.edges :
                  k.kind = "owns" /\ k.to \in c.radius /\ k.from \in OwnerIds /\ o = k.from
    <3>1. \A k : k \in usable /\ k.to \in c.radius /\ k.from \in view.entities
                  <=> k \in DOMAIN view.edges /\ k.to \in c.radius
      BY <1>0, <1>3 DEF Whole
    <3> QED BY <2>1, <3>1
  <2>3. \A o : o \in UNION {OwnerIdsForService(view, s) : s \in D} <=>
               \E k \in DOMAIN view.edges : k.kind = "owns" /\ k.to \in D /\ k.from \in OwnerIds /\ o = k.from
    BY DEF OwnerIdsForService
  <2>4. \A o : o \in c.owners <=> o \in UNION {OwnerIdsForService(view, s) : s \in D}
    <3> PICK all : all = UNION {OwnerIdsForService(view, s) : s \in D}
      OBVIOUS
    <3>1. \A o : o \in all <=>
               \E k \in DOMAIN view.edges : k.kind = "owns" /\ k.to \in c.radius /\ k.from \in OwnerIds /\ o = k.from
      BY <1>8, <2>3, Zenon
    <3>2. \A o : o \in c.owners <=> o \in all
      BY <2>2, <3>1, Zenon
    <3> QED BY <3>2
  <2> QED BY <2>4, Zenon
<1> QED BY <1>2, <1>8, <1>9

\* The services two graphs share have the same owner in both.
LEMMA OwnersAgree ==
    ASSUME NEW c, NEW view, NEW requested, NEW principal, NEW when, NEW q, NEW usable,
           ContextIs(c, view, requested, principal, when, q, usable), Qualified(c), SnapshotReads(view),
           DOMAIN view.edges \subseteq Range(EdgeOrder), IsFiniteSet(DOMAIN view.edges),
           NEW s \in c.radius, s \in ServicesForRepository(view)
    PROVE  PlainGraph(view).owner[s] = GraphOf(c).owner[s]
<1>0. Whole(c, view, requested, usable)
  BY QualifiedContextIsWhole
<1> DEFINE owns == {k \in DOMAIN view.edges : k.kind = "owns" /\ k.to = s}
           owners == {k.from : k \in owns}
<1>1. \A k \in owns : /\ k \in usable /\ k \in DOMAIN c.relationships /\ c.relationships[k].usable /\ q[k].usable
                     /\ k.from \in OwnerIds /\ k.from \in view.entities
  <2>1. \A k \in owns : k \in usable /\ k \in DOMAIN c.relationships
    BY <1>0 DEF Whole
  <2>2. \A k \in DOMAIN c.relationships : c.relationships[k].usable
    BY QualifiedContext
  <2>3. \A k \in usable : q[k].usable
    BY QualifiedContext
  <2>4. \A k \in owns : k.from \in OwnerIds
    BY OwnersOwn
  <2>5. \A k \in owns : k.from \in view.entities
    BY DEF SnapshotReads
  <2> QED BY <2>1, <2>2, <2>3, <2>4, <2>5
<1>2. IsFiniteSet(owners)
  <2> PICK f : f = [k \in owns |-> k.from]
    OBVIOUS
  <2>1. f \in Surjection(owns, owners)
    BY DEF Surjection
  <2>2. IsFiniteSet(owns)
    BY FS_Subset
  <2> HIDE DEF owns, owners
  <2> QED BY <2>1, <2>2, FS_Surjection
<1>3. OwnersOf(q, view, s) = owners
  <2>1. DOMAIN q = DOMAIN view.edges
    BY QualifiedContext
  <2>2. \A k : k \in DOMAIN q /\ k.kind = "owns" /\ k.to = s /\ q[k].usable /\ k.from \in view.entities \intersect OwnerIds
               <=> k \in owns
    BY <1>1, <2>1
  <2> QED BY <2>2 DEF OwnersOf
<1>4. ~(Cardinality(owners) > 1)
  <2> SUFFICES ASSUME Cardinality(owners) > 1 PROVE FALSE
    OBVIOUS
  <2>1. s \in Services /\ s \in c.scope
    BY <1>0 DEF Whole, ContextIs
  <2> PICK x : x = [kind |-> "ambiguous_ownership", about |-> {s} \union OwnersOf(q, view, s)]
    OBVIOUS
  <2>2. x \in Conflicts(q, view)
    <3>1. owners # {}
      <4>1. Cardinality({}) = 0
        BY FS_EmptySet, Zenon
      <4> HIDE DEF owners
      <4> QED BY <4>1
    <3>2. s \in {k.to : k \in DOMAIN q}
      <4>1. DOMAIN q = DOMAIN view.edges
        BY QualifiedContext
      <4> QED BY <3>1, <4>1
    <3> HIDE DEF owners
    <3> QED BY <1>3, <3>2 DEF Conflicts
  <2>3. x.about \intersect c.scope # {}
    BY <2>1
  <2>4. x \in c.conflicts
    BY <2>2, <2>3 DEF ContextIs
  <2> QED BY <2>4 DEF Qualified
<1>5. {k.from : k \in {k \in DOMAIN c.relationships : k.kind = "owns" /\ k.to = s /\ c.relationships[k].usable}} = owners
  <2>1. \A k : k \in DOMAIN c.relationships /\ k.kind = "owns" /\ k.to = s /\ c.relationships[k].usable <=> k \in owns
    <3>1. DOMAIN c.relationships \subseteq DOMAIN view.edges
      BY DEF ContextIs
    <3> QED BY <1>1, <3>1
  <2> QED BY <2>1
<1>6. owners \subseteq c.scope
  <2>1. /\ c.owners = {k.from : k \in {k \in usable : /\ k.kind = "owns" /\ k.to \in c.radius
                                                    /\ k.from \in view.entities \intersect OwnerIds}}
        /\ c.owners \subseteq c.scope
    BY DEF ContextIs
  <2> QED BY <1>1, <2>1
<1>7. GraphOf(c).owner[s] = IF Cardinality(owners) = 1 THEN CHOOSE o \in owners : TRUE ELSE Nobody
  <2>1. GraphOf(c).owner = [x \in c.radius |->
            IF /\ Cardinality({k.from : k \in {k \in DOMAIN c.relationships : k.kind = "owns" /\ k.to = x /\ c.relationships[k].usable}}) = 1
               /\ {k.from : k \in {k \in DOMAIN c.relationships : k.kind = "owns" /\ k.to = x /\ c.relationships[k].usable}} \subseteq c.scope
            THEN CHOOSE o \in {k.from : k \in {k \in DOMAIN c.relationships : k.kind = "owns" /\ k.to = x /\ c.relationships[k].usable}} : TRUE
            ELSE Nobody]
    BY DEF GraphOf
  <2>2. GraphOf(c).owner[s] =
            IF /\ Cardinality({k.from : k \in {k \in DOMAIN c.relationships : k.kind = "owns" /\ k.to = s /\ c.relationships[k].usable}}) = 1
               /\ {k.from : k \in {k \in DOMAIN c.relationships : k.kind = "owns" /\ k.to = s /\ c.relationships[k].usable}} \subseteq c.scope
            THEN CHOOSE o \in {k.from : k \in {k \in DOMAIN c.relationships : k.kind = "owns" /\ k.to = s /\ c.relationships[k].usable}} : TRUE
            ELSE Nobody
    BY <2>1
  <2> HIDE DEF owners
  <2> QED BY <1>5, <1>6, <2>2
<1> DEFINE at == {i \in 1..Len(EdgeOrder) :
                    LET k == EdgeOrder[i]
                    IN k \in DOMAIN view.edges /\ k.kind = "owns" /\ k.to = s /\ k.from \in OwnerIds}
<1>8. PlainGraph(view).owner[s] = IF at = {} THEN Nobody ELSE EdgeOrder[Min(at)].from
  BY DEF PlainGraph
<1>9. at \subseteq Nat /\ \A i \in at : EdgeOrder[i] \in owns
  BY EdgeOrderIsSequence, LenProperties
<1>10. owns # {} => at # {}
  <2> SUFFICES ASSUME NEW k \in owns PROVE at # {}
    OBVIOUS
  <2>1. k \in Range(EdgeOrder) /\ k.from \in OwnerIds /\ k \in DOMAIN view.edges /\ k.kind = "owns" /\ k.to = s
    BY <1>1
  <2>2. PICK i \in DOMAIN EdgeOrder : EdgeOrder[i] = k
    BY <2>1 DEF Range
  <2>3. DOMAIN EdgeOrder = 1..Len(EdgeOrder)
    BY EdgeOrderIsSequence, LenProperties
  <2>4. i \in at
    BY <2>1, <2>2, <2>3
  <2> QED BY <2>4
<1>11. CASE owners = {}
  <2>1. at = {}
    <3>1. owns = {}
      BY <1>11
    <3> HIDE DEF at, owns
    <3> QED BY <1>9, <3>1
  <2>2. Cardinality(owners) # 1
    <3> HIDE DEF owners
    <3> QED BY <1>11, FS_EmptySet
  <2> HIDE DEF at, owners
  <2> QED BY <1>7, <1>8, <2>1, <2>2
<1>12. CASE owners # {}
  <2>1. Cardinality(owners) = 1
    <3>1. Cardinality(owners) \in Nat /\ Cardinality(owners) # 0
      <4> HIDE DEF owners
      <4> QED BY <1>2, <1>12, FS_CardinalityType, FS_EmptySet
    <3> HIDE DEF owners
    <3> QED BY <1>4, <3>1
  <2>2. PICK o : owners = {o}
    <3> HIDE DEF owners
    <3> QED BY <1>2, <2>1, FS_Singleton
  <2>3. at # {}
    BY <1>10, <1>12
  <2>4. Min(at) \in at
    <3> HIDE DEF at
    <3>1. \E i \in at : \A j \in at : i <= j
      BY <1>9, <2>3, LeastNumber
    <3> QED BY <3>1 DEF Min
  <2>5. EdgeOrder[Min(at)].from = o
    <3>1. EdgeOrder[Min(at)] \in owns
      <4> HIDE DEF at, owns
      <4> QED BY <1>9, <2>4
    <3> HIDE DEF at
    <3> QED BY <2>2, <3>1
  <2>6. (CHOOSE x \in owners : TRUE) = o
    <3> HIDE DEF owners
    <3> QED BY <2>2
  <2> HIDE DEF at, owners
  <2> QED BY <1>7, <1>8, <2>1, <2>3, <2>5, <2>6
<1> QED BY <1>11, <1>12

\* The arrows between services two graphs share are in both.
LEMMA ArrowsAgree ==
    ASSUME NEW c, NEW view, NEW requested, NEW principal, NEW when, NEW q, NEW usable,
           ContextIs(c, view, requested, principal, when, q, usable), Qualified(c),
           NEW k \in PlainGraph(view).dependencies \union GraphOf(c).dependencies,
           {k.from, k.to} \subseteq c.radius \intersect ServicesForRepository(view)
    PROVE  k \in PlainGraph(view).dependencies \intersect GraphOf(c).dependencies
<1>0. Whole(c, view, requested, usable)
  BY QualifiedContextIsWhole
<1>1. \A x \in DOMAIN c.relationships : c.relationships[x].usable
  BY QualifiedContext
<1>2. GraphOf(c).dependencies = {x \in DOMAIN c.relationships : /\ x.kind = "depends_on" /\ c.relationships[x].usable
                                             /\ {x.from, x.to} \subseteq c.radius}
  BY DEF GraphOf
<1>3. PlainGraph(view).dependencies =
         {x \in DOMAIN view.edges : x.kind = "depends_on" /\ {x.from, x.to} \subseteq ServicesForRepository(view)}
  BY DEF PlainGraph
<1>4. DOMAIN c.relationships \subseteq DOMAIN view.edges
  BY DEF ContextIs
<1>5. k \in DOMAIN view.edges /\ k.kind = "depends_on"
  BY <1>2, <1>3, <1>4
<1>6. k \in DOMAIN c.relationships
  BY <1>0, <1>5 DEF Whole
<1> QED BY <1>1, <1>2, <1>3, <1>5, <1>6

-----------------------------------------------------------------------------
(* The store: only edges that some source claims *)

\* The calls a projection makes.
ProjectorCalls ==
    [op : {"entity"}, key : UNION {EndpointsOf(d) : d \in Sources}]
    \union [op : {"evidence"}, key : Sources \X Nat, acl : Acls]
    \union [op : {"edge"}, key : Range(EdgeOrder), support : SUBSET (Sources \X Nat)]
    \union [op : {"retire"}, key : Sources \X Nat]
    \union [op : {"journal"}, key : Sources, revision : Nat]

\* The projector's calls are about what its sources claim, and so are the edges.
StoreInv ==
    /\ live \in [Sources -> Nat] /\ revision \in [Sources -> Nat]
    /\ script \in Seq(ProjectorCalls)
    /\ DOMAIN edges \subseteq Range(EdgeOrder)

\* There are finitely many edges.
LEMMA EdgesAreFinite == IsFiniteSet(Range(EdgeOrder))
<1>1. Len(EdgeOrder) \in Nat /\ EdgeOrder \in [1..Len(EdgeOrder) -> Range(EdgeOrder)]
  BY EdgeOrderIsSequence, LenProperties
<1>2. IsFiniteSet(1..Len(EdgeOrder))
  BY <1>1, FS_Interval
<1>3. EdgeOrder \in Surjection(1..Len(EdgeOrder), Range(EdgeOrder))
  BY <1>1 DEF Surjection, Range
<1> QED BY <1>2, <1>3, FS_Surjection

\* SetToSeq lists a finite set.
LEMMA SetToSeqIsSequence ==
    ASSUME NEW S, IsFiniteSet(S)
    PROVE  SetToSeq(S) \in Seq(S)
<1>1. Cardinality(S) \in Nat /\ ExistsBijection(1..Cardinality(S), S)
  BY FS_CardinalityType
<1>2. PICK f \in [1..Cardinality(S) -> S] : \A a, b \in 1..Cardinality(S) : f[a] = f[b] => a = b
  BY <1>1 DEF ExistsBijection, Bijection, Injection, IsInjective
<1>3. IsInjective(f)
  BY <1>2 DEF IsInjective
<1>4. SetToSeq(S) \in [1..Cardinality(S) -> S]
  BY <1>2, <1>3 DEF SetToSeq
<1> QED BY <1>1, <1>4

\* The ends of a source's edges are finitely many.
LEMMA EndpointsAreFinite ==
    ASSUME NEW d \in Sources
    PROVE  IsFiniteSet(EndpointsOf(d))
<1> DEFINE ks == Claims[d]
           froms == {k.from : k \in ks}
           tos == {k.to : k \in ks}
<1>1. IsFiniteSet(ks)
  BY ClaimsAreEdges, EdgesAreFinite, FS_Subset
<1>2. IsFiniteSet(froms)
  <2> PICK f : f = [k \in ks |-> k.from]
    OBVIOUS
  <2>1. f \in Surjection(ks, froms)
    BY DEF Surjection
  <2> HIDE DEF ks, froms
  <2> QED BY <1>1, <2>1, FS_Surjection
<1>3. IsFiniteSet(tos)
  <2> PICK f : f = [k \in ks |-> k.to]
    OBVIOUS
  <2>1. f \in Surjection(ks, tos)
    BY DEF Surjection
  <2> HIDE DEF ks, tos
  <2> QED BY <1>1, <2>1, FS_Surjection
<1>4. EndpointsOf(d) = froms \union tos
  BY DEF EndpointsOf
<1> HIDE DEF froms, tos
<1> QED BY <1>2, <1>3, <1>4, FS_Union

\* The edge calls of a projection.
LEMMA EdgeCallsAreCalls ==
    ASSUME NEW d \in Sources, NEW at \in [Sources -> Nat]
    PROVE  EdgeCallsOf(d, at) \in Seq(ProjectorCalls)
<1> PICK keys : keys = SetToSeq(Claims[d])
  OBVIOUS
<1>1. keys \in Seq(Claims[d])
  <2>1. IsFiniteSet(Claims[d])
    BY ClaimsAreEdges, EdgesAreFinite, FS_Subset
  <2> QED BY <2>1, SetToSeqIsSequence
<1>2. Len(keys) \in Nat /\ \A i \in 1..Len(keys) : keys[i] \in Range(EdgeOrder)
  BY <1>1, ElementOfSeq, LenProperties, ClaimsAreEdges
<1>3. \A k : SupportOf(at, k) \in SUBSET (Sources \X Nat)
  BY DEF SupportOf
<1>4. \A i \in 1..Len(keys) : [op |-> "edge", key |-> keys[i], support |-> SupportOf(at, keys[i])] \in ProjectorCalls
  BY <1>2, <1>3 DEF ProjectorCalls
<1>5. EdgeCallsOf(d, at) = [i \in 1..Len(keys) |-> [op |-> "edge", key |-> keys[i], support |-> SupportOf(at, keys[i])]]
  BY DEF EdgeCallsOf
<1>6. EdgeCallsOf(d, at) \in [1..Len(keys) -> ProjectorCalls]
  <2> HIDE DEF SupportOf
  <2> QED BY <1>4, <1>5
<1> QED BY <1>2, <1>6

\* What a projection retires.
LEMMA RetireIsCalls ==
    ASSUME NEW d \in Sources, live \in [Sources -> Nat]
    PROVE  RetireOf(d) \in Seq(ProjectorCalls)
<1>1. <<d, live[d]>> \in Sources \X Nat
  OBVIOUS
<1>2. [op |-> "retire", key |-> <<d, live[d]>>] \in ProjectorCalls
  BY <1>1 DEF ProjectorCalls
<1> QED BY <1>2 DEF RetireOf

\* Starting a projection, a deletion, or making one call of it.
LEMMA StoreStepStoreInv ==
    ASSUME StoreInv, StoreStep
    PROVE  StoreInv'
<1>0. /\ live \in [Sources -> Nat] /\ revision \in [Sources -> Nat]
      /\ script \in Seq(ProjectorCalls) /\ DOMAIN edges \subseteq Range(EdgeOrder)
  BY DEF StoreInv
<1>1. CASE \E d \in Sources, acl \in Acls : Upsert(d, acl)
  <2>1. PICK d \in Sources, acl \in Acls : Upsert(d, acl)
    BY <1>1
  <2> PICK r : r = revision[d] + 1
    OBVIOUS
  <2> PICK at : at = [live EXCEPT ![d] = r]
    OBVIOUS
  <2> PICK fresh : fresh = SetToSeq(EndpointsOf(d) \ entities)
    OBVIOUS
  <2>2. r \in Nat /\ at \in [Sources -> Nat]
    BY <1>0
  <2> DEFINE s1 == [i \in 1..Len(fresh) |-> [op |-> "entity", key |-> fresh[i]]]
             s2 == <<[op |-> "evidence", key |-> <<d, r>>, acl |-> acl]>>
             s3 == EdgeCallsOf(d, at)
             s4 == RetireOf(d)
             s5 == <<[op |-> "journal", key |-> d, revision |-> r]>>
  <2>3. /\ script' = s1 \o s2 \o s3 \o s4 \o s5
        /\ revision' = [revision EXCEPT ![d] = r] /\ live' = live /\ edges' = edges
    BY <2>1 DEF Upsert
  <2>4. s1 \in Seq(ProjectorCalls)
    <3>1. fresh \in Seq(EndpointsOf(d) \ entities)
      <4>1. IsFiniteSet(EndpointsOf(d) \ entities)
        BY EndpointsAreFinite, FS_Difference
      <4> QED BY <4>1, SetToSeqIsSequence
    <3>2. Len(fresh) \in Nat /\ \A i \in 1..Len(fresh) : fresh[i] \in EndpointsOf(d)
      BY <3>1, ElementOfSeq, LenProperties
    <3>3. \A i \in 1..Len(fresh) : [op |-> "entity", key |-> fresh[i]] \in ProjectorCalls
      BY <3>2 DEF ProjectorCalls
    <3>4. s1 \in [1..Len(fresh) -> ProjectorCalls]
      BY <3>3
    <3>5. PICK n : n = Len(fresh)
      OBVIOUS
    <3> HIDE DEF s1
    <3>6. n \in Nat /\ s1 \in [1..n -> ProjectorCalls]
      BY <3>2, <3>4, <3>5, Zenon
    <3> QED BY <3>6
  <2>5. s2 \in Seq(ProjectorCalls)
    <3>1. [op |-> "evidence", key |-> <<d, r>>, acl |-> acl] \in ProjectorCalls
      BY <2>2 DEF ProjectorCalls
    <3> QED BY <3>1
  <2>6. s3 \in Seq(ProjectorCalls)
    BY <2>2, EdgeCallsAreCalls
  <2>7. s4 \in Seq(ProjectorCalls)
    BY <1>0, RetireIsCalls
  <2>8. s5 \in Seq(ProjectorCalls)
    <3>1. [op |-> "journal", key |-> d, revision |-> r] \in ProjectorCalls
      BY <2>2 DEF ProjectorCalls
    <3> QED BY <3>1
  <2>9. script' \in Seq(ProjectorCalls)
    <3> HIDE DEF s1, s2, s3, s4, s5
    <3>1. s1 \o s2 \in Seq(ProjectorCalls)
      BY <2>4, <2>5, ConcatProperties
    <3>2. s1 \o s2 \o s3 \in Seq(ProjectorCalls)
      BY <3>1, <2>6, ConcatProperties
    <3>3. s1 \o s2 \o s3 \o s4 \in Seq(ProjectorCalls)
      BY <3>2, <2>7, ConcatProperties
    <3> QED BY <2>3, <3>3, <2>8, ConcatProperties
  <2> HIDE DEF s1, s2, s3, s4, s5
  <2> QED BY <1>0, <2>2, <2>3, <2>9 DEF StoreInv
<1>2. CASE \E d \in Sources : Retract(d)
  <2>1. PICK d \in Sources : Retract(d)
    BY <1>2
  <2> PICK at : at = [live EXCEPT ![d] = 0]
    OBVIOUS
  <2>2. at \in [Sources -> Nat]
    BY <1>0
  <2> DEFINE s3 == EdgeCallsOf(d, at)
             s4 == RetireOf(d)
             s5 == <<[op |-> "journal", key |-> d, revision |-> 0]>>
  <2>3. script' = s3 \o s4 \o s5 /\ UNCHANGED <<revision, live, edges>>
    BY <2>1 DEF Retract
  <2>4. s3 \in Seq(ProjectorCalls)
    BY <2>2, EdgeCallsAreCalls
  <2>5. s4 \in Seq(ProjectorCalls)
    BY <1>0, RetireIsCalls
  <2>6. s5 \in Seq(ProjectorCalls)
    <3>1. [op |-> "journal", key |-> d, revision |-> 0] \in ProjectorCalls
      BY DEF ProjectorCalls
    <3> QED BY <3>1
  <2>7. script' \in Seq(ProjectorCalls)
    <3> HIDE DEF s3, s4, s5
    <3>1. s3 \o s4 \in Seq(ProjectorCalls)
      BY <2>4, <2>5, ConcatProperties
    <3> QED BY <2>3, <3>1, <2>6, ConcatProperties
  <2> HIDE DEF s3, s4, s5
  <2> QED BY <1>0, <2>3, <2>7 DEF StoreInv
<1>3. CASE ProjectorCall
  <2> PICK c : c = Head(script)
    OBVIOUS
  <2>1. c \in ProjectorCalls /\ Tail(script) \in Seq(ProjectorCalls)
    BY <1>0, <1>3, HeadTailProperties DEF ProjectorCall
  <2>2. script' \in Seq(ProjectorCalls) /\ revision' = revision
    <3>1. script' = <<>> \/ script' = Tail(script)
      BY <1>3 DEF ProjectorCall
    <3> QED BY <1>3, <2>1, <3>1 DEF ProjectorCall
  <2>3. live' \in [Sources -> Nat]
    <3>1. live' = IF c.op = "journal" THEN [live EXCEPT ![c.key] = c.revision] ELSE live
      BY <1>3 DEF ProjectorCall
    <3>2. c.op = "journal" => c.key \in Sources /\ c.revision \in Nat
      BY <2>1 DEF ProjectorCalls
    <3> QED BY <1>0, <3>1, <3>2
  <2>4. DOMAIN edges' \subseteq Range(EdgeOrder)
    <3>1. \/ c.op = "edge" /\ edges' = Put(edges, c.key, c.support)
          \/ edges' = Drop(edges, c.key)
          \/ edges' = edges
      BY <1>3 DEF ProjectorCall
    <3>2. c.op = "edge" => c.key \in Range(EdgeOrder)
      BY <2>1 DEF ProjectorCalls
    <3>3. CASE c.op = "edge" /\ edges' = Put(edges, c.key, c.support)
      <4>1. DOMAIN edges' = DOMAIN edges \union {c.key}
        BY <3>3 DEF Put
      <4> QED BY <1>0, <3>2, <3>3, <4>1
    <3>4. CASE edges' = Drop(edges, c.key)
      <4>1. DOMAIN edges' = DOMAIN edges \ {c.key}
        BY <3>4 DEF Drop
      <4> QED BY <1>0, <4>1
    <3>5. CASE edges' = edges
      BY <1>0, <3>5
    <3> QED BY <3>1, <3>3, <3>4, <3>5
  <2> QED BY <1>0, <2>2, <2>3, <2>4 DEF StoreInv
<1> QED BY <1>1, <1>2, <1>3 DEF StoreStep

\* QualifiedIsWhole, of a reading w.
WholeReader(w) ==
    w.step = "done" /\ w.dc.qualified =>
        /\ Dependents(w.steady, w.requested) \subseteq w.radius
        /\ Dependents(w.graph.dependencies, w.requested) = w.radius
        /\ w.plain # Unreadable =>
               LET shared == w.radius \intersect DOMAIN w.plainGraph.owner
               IN /\ w.plain.radius = w.radius /\ w.plain.owners = w.owners
                  /\ \A s \in shared : w.plainGraph.owner[s] = w.graph.owner[s]
                  /\ \A k \in w.plainGraph.dependencies \union w.graph.dependencies :
                        {k.from, k.to} \subseteq shared =>
                            k \in w.plainGraph.dependencies \intersect w.graph.dependencies

\* A query ends with a reading in which what is qualified is whole.
LEMMA ListRelationshipsIsWhole ==
    ASSUME StoreInv, ListRelationships
    PROVE  QualifiedIsWhole'
<1> PICK view : view = [entities |-> reader.entities, evidence |-> reader.evidence, edges |-> edges]
  OBVIOUS
<1> PICK requested : requested = reader.requested
  OBVIOUS
<1> PICK began : began = reader.began
  OBVIOUS
<1> PICK c : c = WorldModelContext(view, requested, Principal, reader.when)
  OBVIOUS
<1>1. reader' = [step |-> "done", requested |-> requested, radius |-> c.radius,
                 steady |-> Dependencies(began \intersect DOMAIN edges, reader.entities),
                 owners |-> c.owners, graph |-> GraphOf(c),
                 plain |-> IF SnapshotReads(view) THEN PlainContext(view, requested) ELSE Unreadable,
                 plainGraph |-> PlainGraph(view),
                 dc |-> DecisionContext(c), packet |-> ContextPacket(DecisionContext(c))]
  BY DEF ListRelationships
<1>2. view.edges = edges /\ view.entities = reader.entities
  OBVIOUS
<1>3. /\ reader'.requested = requested /\ reader'.radius = c.radius /\ reader'.owners = c.owners
      /\ reader'.steady = Dependencies(began \intersect DOMAIN view.edges, view.entities)
      /\ reader'.graph = GraphOf(c) /\ reader'.plainGraph = PlainGraph(view)
      /\ reader'.plain = IF SnapshotReads(view) THEN PlainContext(view, requested) ELSE Unreadable
      /\ reader'.dc = DecisionContext(c)
  BY <1>1, <1>2
<1> SUFFICES ASSUME Qualified(c)
             PROVE  /\ Dependents(reader'.steady, requested) \subseteq c.radius
                    /\ Dependents(GraphOf(c).dependencies, requested) = c.radius
                    /\ SnapshotReads(view) =>
                         LET shared == c.radius \intersect DOMAIN PlainGraph(view).owner
                         IN /\ PlainContext(view, requested).radius = c.radius
                            /\ PlainContext(view, requested).owners = c.owners
                            /\ \A s \in shared : PlainGraph(view).owner[s] = GraphOf(c).owner[s]
                            /\ \A k \in PlainGraph(view).dependencies \union GraphOf(c).dependencies :
                                  {k.from, k.to} \subseteq shared =>
                                      k \in PlainGraph(view).dependencies \intersect GraphOf(c).dependencies
  <2>1. reader'.dc.qualified = Qualified(c)
    BY <1>3 DEF DecisionContext
  <2>2. reader'.plain # Unreadable => SnapshotReads(view) /\ reader'.plain = PlainContext(view, requested)
    BY <1>3
  <2>3. PICK w : w = reader'
    OBVIOUS
  <2>4. WholeReader(w)
    BY <1>3, <2>1, <2>2, <2>3 DEF WholeReader
  <2> QED BY <2>3, <2>4, Zenon DEF QualifiedIsWhole, WholeReader
<1>4. PICK when : when = reader.when
  OBVIOUS
<1>5. PICK q, usable : ContextIs(c, view, requested, Principal, when, q, usable)
  BY <1>4, ContextFields
<1>6. Whole(c, view, requested, usable)
  BY <1>5, QualifiedContextIsWhole
<1>7. \A k \in DOMAIN c.relationships : c.relationships[k].usable
  BY <1>5, QualifiedContext
<1>8. Dependents(reader'.steady, requested) \subseteq c.radius
  <2> PICK steady : steady = Dependencies(began \intersect DOMAIN view.edges, view.entities)
    OBVIOUS
  <2>1. Dependents(steady, requested) \subseteq c.radius
    BY <1>6, SteadyDependents
  <2>2. reader'.steady = steady
    BY <1>3
  <2> QED BY <2>1, <2>2
<1>9. Dependents(GraphOf(c).dependencies, requested) = c.radius
  BY <1>6, <1>7, GraphReachesRadius
<1>10. DOMAIN view.edges \subseteq Range(EdgeOrder) /\ IsFiniteSet(DOMAIN view.edges)
  BY <1>2, EdgesAreFinite, FS_Subset DEF StoreInv
<1>11. DOMAIN PlainGraph(view).owner = ServicesForRepository(view)
  BY DEF PlainGraph
<1>12. ASSUME SnapshotReads(view)
       PROVE  /\ PlainContext(view, requested).radius = c.radius
              /\ PlainContext(view, requested).owners = c.owners
              /\ \A s \in c.radius \intersect DOMAIN PlainGraph(view).owner : PlainGraph(view).owner[s] = GraphOf(c).owner[s]
  <2>1. PlainContext(view, requested).radius = c.radius /\ PlainContext(view, requested).owners = c.owners
    BY <1>5, <1>12, PlainAgrees
  <2>2. ASSUME NEW s \in c.radius, s \in ServicesForRepository(view) PROVE PlainGraph(view).owner[s] = GraphOf(c).owner[s]
    BY <1>5, <1>10, <1>12, <2>2, OwnersAgree
  <2> QED BY <1>11, <2>1, <2>2
<1>13. ASSUME NEW k \in PlainGraph(view).dependencies \union GraphOf(c).dependencies,
              {k.from, k.to} \subseteq c.radius \intersect DOMAIN PlainGraph(view).owner
       PROVE  k \in PlainGraph(view).dependencies \intersect GraphOf(c).dependencies
  BY <1>5, <1>11, <1>13, ArrowsAgree
<1> QED BY <1>8, <1>9, <1>12, <1>13

\* The edges are claimed, and what is qualified is whole.
ReadingInv == StoreInv /\ QualifiedIsWhole

\* Every step keeps the claimed edges and the whole reading.
LEMMA ReadingInvNext ==
    ASSUME ReadingInv, [Next]_vars
    PROVE  ReadingInv'
<1>0. StoreInv /\ QualifiedIsWhole
  BY DEF ReadingInv
<1>1. UNCHANGED store => StoreInv'
  BY <1>0 DEF store, StoreInv
<1>2. UNCHANGED reader => QualifiedIsWhole'
  BY <1>0 DEF QualifiedIsWhole
<1>3. CASE Time
  BY <1>1, <1>2, <1>3 DEF Time, ReadingInv
<1>4. CASE Correction
  <2>1. CASE StoreStep
    <3>1. UNCHANGED reader
      BY <2>1 DEF StoreStep
    <3> QED BY <1>0, <1>2, <2>1, <3>1, StoreStepStoreInv DEF ReadingInv
  <2>2. CASE ReadStep
    <3>1. UNCHANGED store
      BY <2>2 DEF ReadStep
    <3>2. CASE \E s \in Requests : ListEntities(s)
      <4>1. reader'.step = "entities"
        BY <3>2 DEF ListEntities
      <4> QED BY <1>1, <3>1, <4>1 DEF QualifiedIsWhole, ReadingInv
    <3>3. CASE ListEvidence
      <4>1. reader'.step = "evidence"
        BY <3>3 DEF ListEvidence
      <4> QED BY <1>1, <3>1, <4>1 DEF QualifiedIsWhole, ReadingInv
    <3>4. CASE ListRelationships
      BY <1>0, <1>1, <3>1, <3>4, ListRelationshipsIsWhole DEF ReadingInv
    <3> QED BY <2>2, <3>2, <3>3, <3>4 DEF ReadStep
  <2>3. CASE ReviewStep
    BY <1>1, <1>2, <2>3 DEF ReviewStep, ReadingInv
  <2> QED BY <1>4, <2>1, <2>2, <2>3 DEF Correction, NextReview
<1>5. CASE Maintenance
  BY <1>1, <1>2, <1>5 DEF Maintenance, ReadingInv
<1>6. CASE UNCHANGED vars
  BY <1>1, <1>2, <1>6 DEF vars, ReadingInv
<1> QED BY <1>3, <1>4, <1>5, <1>6 DEF Next

\* The blast radius of a qualified context (context_for_change) is whole,
\* whatever the ACLs and ages of the evidence and whatever the projector did
\* between the three list calls, and the risk graph and the plain Company
\* Brain agree with it.
THEOREM QualifiedContextsAreWhole == Spec => []QualifiedIsWhole
<1>1. Init => ReadingInv
  <2> SUFFICES ASSUME Init PROVE ReadingInv
    OBVIOUS
  <2>1. /\ live = [d \in Sources |-> 0] /\ revision = [d \in Sources |-> 0] /\ script = <<>>
        /\ edges = <<>> /\ reader.step = "idle"
    BY DEF Init, InitReview, Idle
  <2>2. DOMAIN edges = {} /\ script \in Seq(ProjectorCalls)
    BY <2>1
  <2> QED BY <2>1, <2>2 DEF ReadingInv, StoreInv, QualifiedIsWhole
<1>2. ReadingInv /\ [Next]_vars => ReadingInv'
  BY ReadingInvNext
<1>3. ReadingInv => QualifiedIsWhole
  BY DEF ReadingInv
<1> QED BY <1>1, <1>2, <1>3, PTL DEF Spec

=============================================================================
