------------------------- MODULE ControlLoopProofs -------------------------
(***************************************************************************)
(* Proofs about the control loop, for any number of concurrent calls, any  *)
(* requests, clusters and promotions.                                      *)
(***************************************************************************)
EXTENDS ControlLoop, FiniteSetTheorems, TLAPS

-----------------------------------------------------------------------------
(* The two evaluators *)

\* A rule that denies decides if no rule before it does; without one the
\* request is authorized.
LEMMA FirstDenial ==
    ASSUME NEW n \in Nat, NEW rules, Len(rules) = n
    PROVE  /\ \A i \in 1..n :
                rules[i].denies /\ (\A j \in 1..n : j < i => ~rules[j].denies)
                => FirstReason(rules) = rules[i].reason
           /\ (\A i \in 1..n : ~rules[i].denies) => FirstReason(rules) = Authorized
<1> DEFINE I == {j \in 1..n : rules[j].denies}
<1>1. SelectInSeq(rules, LAMBDA rule : rule.denies) = IF I # {} THEN Min(I) ELSE 0
  BY DEF SelectInSeq
<1>2. ASSUME NEW i \in 1..n, rules[i].denies,
             \A j \in 1..n : j < i => ~rules[j].denies
      PROVE  FirstReason(rules) = rules[i].reason
  <2>1. i \in I /\ \A j \in I : i <= j
    BY <1>2
  <2>2. \A j \in I : (\A k \in I : j <= k) => j = i
    BY <2>1
  <2>3. Min(I) = i
    <3> HIDE DEF I
    <3> QED  BY <2>1, <2>2 DEF Min
  <2>4. SelectInSeq(rules, LAMBDA rule : rule.denies) = i
    BY <1>1, <2>1, <2>3
  <2> QED  BY <2>4 DEF FirstReason
<1>3. ASSUME \A i \in 1..n : ~rules[i].denies PROVE FirstReason(rules) = Authorized
  BY <1>1, <1>3 DEF FirstReason
<1> QED  BY <1>2, <1>3

\* The level whose approval rule applies, and whether the bundle asks for a
\* certification.
Effective(r, level) == IF level = 3 /\ r.policy.level >= 4 THEN 3 ELSE r.policy.level

Declared(r, level) == level = 4 \/ (level \notin {3, 4} /\ r.policy.level >= 4)

\* The end of the bundle, from the certification on.
CertificationReason(r, level, moment) ==
    IF Declared(r, level) /\ ~r.certification.present THEN "certification absent"
    ELSE IF Declared(r, level) /\ ~ReadableByRego(r.certification.expires_on)
         THEN "expiry unreadable"
    ELSE IF Declared(r, level) /\ r.certification.expires_on.at <= moment
         THEN "certification expired"
    ELSE IF Declared(r, level) /\ ScopeHashFor(r) = <<>> THEN "scope missing"
    ELSE IF Declared(r, level) /\ r.certification.scope_hash # ScopeHashFor(r)
         THEN "scope mismatch"
    ELSE IF Declared(r, level) /\ r.certification.inputs_hash = <<>>
         THEN "inputs hash missing"
    ELSE IF ~r.audit_available THEN "audit unavailable"
    ELSE IF ~r.verification_defined THEN "verification unavailable"
    ELSE Authorized

\* certification_denial as the chain of questions it asks.
LEMMA CertificationRules ==
    ASSUME NEW r, NEW level, NEW moment, IsL4(r, level)
    PROVE  CertificationDenial(r, level, moment) =
             IF ~r.certification.present THEN "certification absent"
             ELSE IF ~Readable(r.certification.expires_on) THEN "expiry unreadable"
             ELSE IF r.certification.expires_on.at <= moment
                  THEN "certification expired"
             ELSE IF ScopeHashFor(r) = <<>> THEN "scope missing"
             ELSE IF r.certification.scope_hash # ScopeHashFor(r)
                  THEN "scope mismatch"
             ELSE IF r.certification.inputs_hash = <<>> THEN "inputs hash missing"
             ELSE Authorized
<1> DEFINE list == <<
            Rule(~r.certification.present, "certification absent"),
            Rule(~Readable(r.certification.expires_on), "expiry unreadable"),
            Rule(r.certification.expires_on.at <= moment,
                 "certification expired"),
            Rule(ScopeHashFor(r) = <<>>, "scope missing"),
            Rule(r.certification.scope_hash # ScopeHashFor(r), "scope mismatch"),
            Rule(r.certification.inputs_hash = <<>>, "inputs hash missing")>>
<1> HIDE DEF list
<1>1. PICK rules : rules = list
  OBVIOUS
<1>2. CertificationDenial(r, level, moment) = FirstReason(rules)
  BY <1>1, Zenon DEF CertificationDenial, list
<1>3. Len(rules) = 6 /\ 6 \in Nat
  BY <1>1 DEF list
<1>4. /\ (rules[1].denies <=> ~r.certification.present)
      /\ rules[1].reason = "certification absent"
      /\ (rules[2].denies <=> ~Readable(r.certification.expires_on))
      /\ rules[2].reason = "expiry unreadable"
      /\ (rules[3].denies <=> r.certification.expires_on.at <= moment)
      /\ rules[3].reason = "certification expired"
      /\ (rules[4].denies <=> ScopeHashFor(r) = <<>>)
      /\ rules[4].reason = "scope missing"
      /\ (rules[5].denies <=> r.certification.scope_hash # ScopeHashFor(r))
      /\ rules[5].reason = "scope mismatch"
      /\ (rules[6].denies <=> r.certification.inputs_hash = <<>>)
      /\ rules[6].reason = "inputs hash missing"
  BY <1>1 DEF Rule, list
<1>5. /\ \A i \in 1..6 :
            rules[i].denies /\ (\A j \in 1..6 : j < i => ~rules[j].denies)
            => FirstReason(rules) = rules[i].reason
      /\ (\A i \in 1..6 : ~rules[i].denies) => FirstReason(rules) = Authorized
  BY <1>3, FirstDenial
<1>6. FirstReason(rules) =
        IF rules[1].denies THEN rules[1].reason
        ELSE IF rules[2].denies THEN rules[2].reason
        ELSE IF rules[3].denies THEN rules[3].reason
        ELSE IF rules[4].denies THEN rules[4].reason
        ELSE IF rules[5].denies THEN rules[5].reason
        ELSE IF rules[6].denies THEN rules[6].reason
        ELSE Authorized
  BY <1>5
<1> QED  BY <1>2, <1>4, <1>6

\* The offline evaluator as a chain of questions.
LEMMA LocalRules ==
    ASSUME NEW r, NEW level, NEW moment
    PROVE  LocalReason(r, level, moment) =
             IF r.policy.kill_switch THEN "kill switch"
             ELSE IF (r.service # r.policy.service
                      \/ r.environment # r.policy.environment)
                  THEN "outside scope"
             ELSE IF r.environment \notin r.runbook.environments THEN "environment"
             ELSE IF (r.blast_radius > r.runbook.max_blast_radius
                      \/ r.blast_radius > r.policy.max_blast_radius)
                  THEN "blast radius"
             ELSE IF r.policy.level < r.runbook.required_level THEN "autonomy level"
             ELSE IF r.runbook.id \notin r.policy.certified_runbooks
                  THEN "runbook certification"
             ELSE IF (Effective(r, level) = 3 /\ ~r.approval_verified)
                  THEN "human approval"
             ELSE IF (r.policy.level >= 4 /\ ~r.error_budget) THEN "error budget"
             ELSE IF CertificationDenial(r, level, moment) # Authorized
                  THEN CertificationDenial(r, level, moment)
             ELSE IF ~r.audit_available THEN "audit unavailable"
             ELSE IF ~r.verification_defined THEN "verification unavailable"
             ELSE Authorized
<1> DEFINE list == <<
            Rule(r.policy.kill_switch, "kill switch"),
            Rule((r.service # r.policy.service
                    \/ r.environment # r.policy.environment),
                 "outside scope"),
            Rule(r.environment \notin r.runbook.environments, "environment"),
            Rule((r.blast_radius > r.runbook.max_blast_radius
                    \/ r.blast_radius > r.policy.max_blast_radius),
                 "blast radius"),
            Rule(r.policy.level < r.runbook.required_level, "autonomy level"),
            Rule(r.runbook.id \notin r.policy.certified_runbooks,
                 "runbook certification"),
            Rule((Effective(r, level) = 3 /\ ~r.approval_verified),
                 "human approval"),
            Rule((r.policy.level >= 4 /\ ~r.error_budget), "error budget"),
            Rule(CertificationDenial(r, level, moment) # Authorized,
                 CertificationDenial(r, level, moment)),
            Rule(~r.audit_available, "audit unavailable"),
            Rule(~r.verification_defined, "verification unavailable")>>
<1> HIDE DEF list
<1>1. PICK rules : rules = list
  OBVIOUS
<1>2. LocalReason(r, level, moment) = FirstReason(rules)
  BY <1>1, Zenon DEF LocalReason, Effective, list
<1>3. Len(rules) = 11 /\ 11 \in Nat
  BY <1>1 DEF list
<1>4. /\ (rules[1].denies <=> r.policy.kill_switch)
      /\ rules[1].reason = "kill switch"
      /\ (rules[2].denies <=> (r.service # r.policy.service
                           \/ r.environment # r.policy.environment))
      /\ rules[2].reason = "outside scope"
      /\ (rules[3].denies <=> r.environment \notin r.runbook.environments)
      /\ rules[3].reason = "environment"
      /\ (rules[4].denies <=> (r.blast_radius > r.runbook.max_blast_radius
                           \/ r.blast_radius > r.policy.max_blast_radius))
      /\ rules[4].reason = "blast radius"
      /\ (rules[5].denies <=> r.policy.level < r.runbook.required_level)
      /\ rules[5].reason = "autonomy level"
      /\ (rules[6].denies <=> r.runbook.id \notin r.policy.certified_runbooks)
      /\ rules[6].reason = "runbook certification"
      /\ (rules[7].denies <=> (Effective(r, level) = 3 /\ ~r.approval_verified))
      /\ rules[7].reason = "human approval"
      /\ (rules[8].denies <=> (r.policy.level >= 4 /\ ~r.error_budget))
      /\ rules[8].reason = "error budget"
      /\ (rules[9].denies <=> CertificationDenial(r, level, moment) # Authorized)
      /\ rules[9].reason = CertificationDenial(r, level, moment)
      /\ (rules[10].denies <=> ~r.audit_available)
      /\ rules[10].reason = "audit unavailable"
      /\ (rules[11].denies <=> ~r.verification_defined)
      /\ rules[11].reason = "verification unavailable"
  BY <1>1 DEF Rule, list
<1>5. /\ \A i \in 1..11 :
            rules[i].denies /\ (\A j \in 1..11 : j < i => ~rules[j].denies)
            => FirstReason(rules) = rules[i].reason
      /\ (\A i \in 1..11 : ~rules[i].denies) => FirstReason(rules) = Authorized
  BY <1>3, FirstDenial
<1>6. FirstReason(rules) =
        IF rules[1].denies THEN rules[1].reason
        ELSE IF rules[2].denies THEN rules[2].reason
        ELSE IF rules[3].denies THEN rules[3].reason
        ELSE IF rules[4].denies THEN rules[4].reason
        ELSE IF rules[5].denies THEN rules[5].reason
        ELSE IF rules[6].denies THEN rules[6].reason
        ELSE IF rules[7].denies THEN rules[7].reason
        ELSE IF rules[8].denies THEN rules[8].reason
        ELSE IF rules[9].denies THEN rules[9].reason
        ELSE IF rules[10].denies THEN rules[10].reason
        ELSE IF rules[11].denies THEN rules[11].reason
        ELSE Authorized
  BY <1>5
<1> QED  BY <1>2, <1>4, <1>6, ZenonT(40)

\* The bundle as a chain of questions.
LEMMA RegoRules ==
    ASSUME NEW r, NEW level, NEW moment
    PROVE  RegoReason(r, level, moment) =
             IF r.policy.kill_switch THEN "kill switch"
             ELSE IF r.service # r.policy.service THEN "outside scope"
             ELSE IF r.environment # r.policy.environment THEN "outside scope"
             ELSE IF r.environment \notin r.runbook.environments THEN "environment"
             ELSE IF r.blast_radius > r.runbook.max_blast_radius THEN "blast radius"
             ELSE IF r.blast_radius > r.policy.max_blast_radius THEN "blast radius"
             ELSE IF r.policy.level < r.runbook.required_level THEN "autonomy level"
             ELSE IF r.runbook.id \notin r.policy.certified_runbooks
                  THEN "runbook certification"
             ELSE IF (Effective(r, level) = 3 /\ ~r.approval_verified)
                  THEN "human approval"
             ELSE IF (r.policy.level >= 4 /\ ~r.error_budget) THEN "error budget"
             ELSE CertificationReason(r, level, moment)
<1> DEFINE list == <<
            Rule(r.policy.kill_switch, "kill switch"),
            Rule(r.service # r.policy.service, "outside scope"),
            Rule(r.environment # r.policy.environment, "outside scope"),
            Rule(r.environment \notin r.runbook.environments, "environment"),
            Rule(r.blast_radius > r.runbook.max_blast_radius, "blast radius"),
            Rule(r.blast_radius > r.policy.max_blast_radius, "blast radius"),
            Rule(r.policy.level < r.runbook.required_level, "autonomy level"),
            Rule(r.runbook.id \notin r.policy.certified_runbooks,
                 "runbook certification"),
            Rule((Effective(r, level) = 3 /\ ~r.approval_verified),
                 "human approval"),
            Rule((r.policy.level >= 4 /\ ~r.error_budget), "error budget"),
            Rule((Declared(r, level) /\ ~r.certification.present),
                 "certification absent"),
            Rule((Declared(r, level) /\ ~ReadableByRego(r.certification.expires_on)),
                 "expiry unreadable"),
            Rule((Declared(r, level) /\ r.certification.expires_on.at <= moment),
                 "certification expired"),
            Rule((Declared(r, level) /\ ScopeHashFor(r) = <<>>),
                 "scope missing"),
            Rule((Declared(r, level) /\ r.certification.scope_hash # ScopeHashFor(r)),
                 "scope mismatch"),
            Rule((Declared(r, level) /\ r.certification.inputs_hash = <<>>),
                 "inputs hash missing"),
            Rule(~r.audit_available, "audit unavailable"),
            Rule(~r.verification_defined, "verification unavailable")>>
<1> HIDE DEF list
<1>1. PICK rules : rules = list
  OBVIOUS
<1>2. RegoReason(r, level, moment) = FirstReason(rules)
  BY <1>1, Zenon DEF RegoReason, Effective, Declared, list
<1>3. Len(rules) = 18 /\ 18 \in Nat
  BY <1>1 DEF list
<1>4. /\ (rules[1].denies <=> r.policy.kill_switch)
      /\ rules[1].reason = "kill switch"
      /\ (rules[2].denies <=> r.service # r.policy.service)
      /\ rules[2].reason = "outside scope"
      /\ (rules[3].denies <=> r.environment # r.policy.environment)
      /\ rules[3].reason = "outside scope"
      /\ (rules[4].denies <=> r.environment \notin r.runbook.environments)
      /\ rules[4].reason = "environment"
      /\ (rules[5].denies <=> r.blast_radius > r.runbook.max_blast_radius)
      /\ rules[5].reason = "blast radius"
      /\ (rules[6].denies <=> r.blast_radius > r.policy.max_blast_radius)
      /\ rules[6].reason = "blast radius"
      /\ (rules[7].denies <=> r.policy.level < r.runbook.required_level)
      /\ rules[7].reason = "autonomy level"
      /\ (rules[8].denies <=> r.runbook.id \notin r.policy.certified_runbooks)
      /\ rules[8].reason = "runbook certification"
      /\ (rules[9].denies <=> (Effective(r, level) = 3 /\ ~r.approval_verified))
      /\ rules[9].reason = "human approval"
      /\ (rules[10].denies <=> (r.policy.level >= 4 /\ ~r.error_budget))
      /\ rules[10].reason = "error budget"
  BY <1>1 DEF Rule, list
<1>5. /\ \A i \in 1..18 :
            rules[i].denies /\ (\A j \in 1..18 : j < i => ~rules[j].denies)
            => FirstReason(rules) = rules[i].reason
      /\ (\A i \in 1..18 : ~rules[i].denies) => FirstReason(rules) = Authorized
  BY <1>3, FirstDenial
<1>6. PICK last : last =
        IF rules[11].denies THEN rules[11].reason
        ELSE IF rules[12].denies THEN rules[12].reason
        ELSE IF rules[13].denies THEN rules[13].reason
        ELSE IF rules[14].denies THEN rules[14].reason
        ELSE IF rules[15].denies THEN rules[15].reason
        ELSE IF rules[16].denies THEN rules[16].reason
        ELSE IF rules[17].denies THEN rules[17].reason
        ELSE IF rules[18].denies THEN rules[18].reason
        ELSE Authorized
  OBVIOUS
<1>7. FirstReason(rules) =
        IF rules[1].denies THEN rules[1].reason
        ELSE IF rules[2].denies THEN rules[2].reason
        ELSE IF rules[3].denies THEN rules[3].reason
        ELSE IF rules[4].denies THEN rules[4].reason
        ELSE IF rules[5].denies THEN rules[5].reason
        ELSE IF rules[6].denies THEN rules[6].reason
        ELSE IF rules[7].denies THEN rules[7].reason
        ELSE IF rules[8].denies THEN rules[8].reason
        ELSE IF rules[9].denies THEN rules[9].reason
        ELSE IF rules[10].denies THEN rules[10].reason
        ELSE last
  BY <1>5, <1>6
<1>8. /\ (rules[11].denies <=> (Declared(r, level) /\ ~r.certification.present))
      /\ rules[11].reason = "certification absent"
      /\ (rules[12].denies <=> (Declared(r, level) /\ ~ReadableByRego(r.certification.expires_on)))
      /\ rules[12].reason = "expiry unreadable"
      /\ (rules[13].denies <=> (Declared(r, level) /\ r.certification.expires_on.at <= moment))
      /\ rules[13].reason = "certification expired"
      /\ (rules[14].denies <=> (Declared(r, level) /\ ScopeHashFor(r) = <<>>))
      /\ rules[14].reason = "scope missing"
      /\ (rules[15].denies <=> (Declared(r, level) /\ r.certification.scope_hash # ScopeHashFor(r)))
      /\ rules[15].reason = "scope mismatch"
      /\ (rules[16].denies <=> (Declared(r, level) /\ r.certification.inputs_hash = <<>>))
      /\ rules[16].reason = "inputs hash missing"
      /\ (rules[17].denies <=> ~r.audit_available)
      /\ rules[17].reason = "audit unavailable"
      /\ (rules[18].denies <=> ~r.verification_defined)
      /\ rules[18].reason = "verification unavailable"
  BY <1>1 DEF Rule, list
<1>9. last = CertificationReason(r, level, moment)
  BY <1>6, <1>8 DEF CertificationReason
<1> QED  BY <1>2, <1>4, <1>7, <1>9, ZenonT(40)

\* Both evaluators judge a request alike, whatever level it runs at, except
\* for the expiry without an offset.
LEMMA ReasonsAgree ==
    ASSUME NEW r \in Request, NEW level, NEW moment
    PROVE  IF r.certification.expires_on.form = "naive"
           THEN RegoReason(r, level, moment) = Authorized
                    => LocalReason(r, level, moment) = Authorized
           ELSE RegoReason(r, level, moment) = LocalReason(r, level, moment)
<1>1. Declared(r, level) <=> IsL4(r, level)
  BY DEF Declared, IsL4
<1>2. r.certification.expires_on.form \in {"zoned", "naive", "garbled"}
  BY DEF Request, CertificationClaim, Instant
<1>3. CASE ~IsL4(r, level)
  <2>1. CertificationDenial(r, level, moment) = Authorized
    BY <1>3 DEF CertificationDenial
  <2> QED  BY <1>1, <1>3, <2>1, LocalRules, RegoRules DEF CertificationReason
<1>4. CASE IsL4(r, level) /\ r.certification.expires_on.form = "naive"
  BY <1>1, <1>4, RegoRules DEF CertificationReason, ReadableByRego, Authorized
<1>5. CASE IsL4(r, level) /\ r.certification.expires_on.form # "naive"
  <2>1. Readable(r.certification.expires_on) <=> ReadableByRego(r.certification.expires_on)
    BY <1>2, <1>5 DEF Readable, ReadableByRego
  <2>2. PICK denial : denial = CertificationDenial(r, level, moment)
    OBVIOUS
  <2>3. PICK claim : claim = r.certification
    OBVIOUS
  <2>4. denial =
          IF ~claim.present THEN "certification absent"
          ELSE IF ~Readable(claim.expires_on) THEN "expiry unreadable"
          ELSE IF claim.expires_on.at <= moment THEN "certification expired"
          ELSE IF ScopeHashFor(r) = <<>> THEN "scope missing"
          ELSE IF claim.scope_hash # ScopeHashFor(r) THEN "scope mismatch"
          ELSE IF claim.inputs_hash = <<>> THEN "inputs hash missing"
          ELSE Authorized
    BY <1>5, <2>2, <2>3, CertificationRules
  <2>5. CASE denial = Authorized
    <3>1. /\ claim.present /\ Readable(claim.expires_on)
          /\ ~(claim.expires_on.at <= moment) /\ ScopeHashFor(r) # <<>>
          /\ claim.scope_hash = ScopeHashFor(r) /\ claim.inputs_hash # <<>>
      BY <2>4, <2>5 DEF Authorized
    <3> QED  BY <1>1, <1>5, <2>1, <2>2, <2>3, <2>5, <3>1, LocalRules, RegoRules
                DEF CertificationReason
  <2>6. CASE denial # Authorized
    BY <1>1, <1>5, <2>1, <2>2, <2>3, <2>4, <2>6, LocalRules, RegoRules
       DEF CertificationReason
  <2> QED  BY <2>5, <2>6
<1> QED  BY <1>3, <1>4, <1>5

-----------------------------------------------------------------------------
(* The inductive invariant *)

\* The steps before the first change, and those after the evaluator agreed.
Before == {"rehearse", "provision", "enter", "evaluate", "preflight", "scan", "insert"}
After == {"preflight", "scan", "insert", "deploy", "verify", "rollback", "release"}
Busy == {"deploy", "verify", "rollback", "release"}

\* What stands behind a loop that may change a workload.
Cleared(loop) ==
    LET r == loop.request
    IN  /\ ~loop.switched /\ ~r.policy.kill_switch
        /\ r.service = r.policy.service
        /\ r.environment = r.policy.environment
        /\ r.blast_radius <= r.runbook.max_blast_radius
        /\ r.blast_radius <= r.policy.max_blast_radius
        /\ r.runbook.id \in r.policy.certified_runbooks
        /\ r.policy.level = 4 => r.error_budget
        /\ \/ Supervised(r)
           \/ /\ r.policy.level = 4
              /\ ~CertificationRefused(r, loop.answered, loop.moment)

\* A loop is cleared by the evaluator before it goes on, under the claim and
\* the kill switch it met when it entered.
Gated(loop) ==
    /\ loop.pc = "evaluate" =>
        /\ ClaimAccepted(loop.request)
        /\ loop.switched => SwitchLevel(loop.request) < ApproveAndExecute
    /\ loop.pc \in After => Cleared(loop)
    /\ loop.effects # <<>> => Cleared(loop)

\* How the effects of a loop follow its phase.
Traced(loop) ==
    LET n == Len(loop.effects)
    IN  /\ (loop.phase = "whole") <=> ~loop.request.canary
        /\ loop.phase = "fleet" => loop.request.target = "protocol"
        /\ loop.pc \in Before \union {"deploy", "verify", "rollback"} =>
            loop.status = "none"
        /\ loop.pc \in Before => loop.effects = <<>> /\ loop.phase # "fleet"
        /\ loop.pc = "deploy" /\ loop.phase # "fleet" => loop.effects = <<>>
        /\ loop.pc \in {"verify", "rollback"} =>
            /\ loop.phase = "whole" => loop.effects = <<"fleet">>
            /\ loop.phase = "canary" => loop.effects = <<"canary">>
            /\ loop.phase = "fleet" => n > 0 /\ loop.effects[n] = "fleet"
            /\ loop.request.target = "protocol" \/ loop.phase = "whole"

\* The result of a loop tells what its effects were.
Told(loop) ==
    LET n == Len(loop.effects)
    IN  /\ loop.status \in {"blocked", "denied", "deferred", "raised"} =>
            \/ loop.effects = <<>>
            \/ loop.status = "raised" /\ (loop.request.target = "twin" \/ loop.moment + TTL <= now)
        /\ loop.status = "succeeded" =>
            loop.verified /\ n > 0 /\ loop.effects[n] = "fleet"
        /\ loop.status = "rolled_back" =>
            IF loop.request.canary THEN \A i \in 1..n : loop.effects[i] # "fleet"
            ELSE n = 2 /\ loop.effects[n] = "rollback"

\* Only a managed loop meets the lock manager; a rehearsal is not managed and
\* has no canary.
Placed(loop) ==
    /\ loop.pc \in {"scan", "insert"} => loop.request.managed
    /\ loop.request.target = "twin" => ~loop.request.canary /\ ~loop.request.managed
    /\ loop.pc \in {"rehearse", "provision", "destroy"} => loop.request.target = "twin"

LoopInv ==
    \A l \in Loops : Started(l) =>
        /\ loops[l].moment <= now
        /\ Gated(loops[l]) /\ Traced(loops[l]) /\ Told(loops[l]) /\ Placed(loops[l])

\* A certification on file rests on a promotion that passed every check, and
\* one a caller read is on file.
IssuedInv ==
    /\ \A i \in issued :
        /\ i.promotion \in Promotable
        /\ \E t \in 0..now : i.claim = RecordOf(i.promotion, t)
    /\ \A l \in Loops :
        Started(l) /\ loops[l].request.loads /\ loops[l].request.certification.present =>
            \E i \in issued : i.claim = loops[l].request.certification

Overlap(l, m) ==
    TargetScope(loops[l].request) \intersect TargetScope(loops[m].request) # {}

\* A loop that acquired its scope, though its lease may still be owed.
Acquired(l) == loops[l].pc \in {"insert"} \union Busy /\ loops[l].request.managed

\* A lease is its loop's; a loop within its time has its lease; and two loops
\* acquired overlapping scopes only if one outlived its lease or they raced.
LeaseInv ==
    /\ \A x \in leases : Executing(x.loop) /\ x = LeaseOf(x.loop)
    /\ \A l \in Loops :
        Executing(l) /\ loops[l].request.managed => Overran(l) \/ LeaseOf(l) \in leases
    /\ \A l, m \in Loops :
        l # m /\ Acquired(l) /\ Acquired(m) /\ Overlap(l, m) =>
            Overran(l) \/ Overran(m) \/ {l, m} \subseteq raced

\* What a loop found when it looked at its deployment, or left there, is there
\* until somebody else changes it.
Undisturbed(l) ==
    LET r == loops[l].request
        d == cluster[r.service]
    IN  /\ loops[l].pc \in {"scan", "insert", "deploy"} =>
            PreconditionsHold(r.runbook, {}, d)
        /\ loops[l].pc = "release" /\ loops[l].status = "rolled_back" /\ ~r.canary =>
            Current(d).memory = "previous"

NoSandbox(l) == l \notin sandboxes /\ twins[l] = NoDeployment

LookedAt(l) ==
    Started(l) /\ loops[l].request.target = "kubernetes" /\ l \notin stirred =>
        Undisturbed(l)

\* The sandbox of a rehearsal exists from its provision to its end.
Sandboxed(l) ==
    /\ ~Started(l) => NoSandbox(l)
    /\ Started(l) /\ Rehearses(l) =>
        /\ loops[l].pc \in {"rehearse", "provision"} => NoSandbox(l)
        /\ loops[l].pc \in {"enter", "evaluate", "preflight", "scan", "insert", "deploy"}
            => l \in sandboxes /\ Exists(twins[l])
        /\ loops[l].pc = "done" /\ loops[l].status # "raised" => NoSandbox(l)

SceneInv == \A l \in Loops : LookedAt(l) /\ Sandboxed(l)

Inv == TypeOK /\ LoopInv /\ IssuedInv /\ LeaseInv /\ SceneInv

-----------------------------------------------------------------------------
(* Types *)

\* The commands of kubectl and the clone of a twin make deployments.
LEMMA RolledTypes ==
    ASSUME NEW d \in Deployment, NEW template \in Template
    PROVE  /\ Rolled(d, template) \in Deployment
           /\ Current(Rolled(d, template)) = template
<1>1. PICK h : h = d.history
  OBVIOUS
<1>2. h \in Seq(Template) /\ Append(h, template) \in Seq(Template)
  BY <1>1 DEF Deployment
<1>3. Rolled(d, template) \in Deployment /\ Rolled(d, template).history = Append(h, template)
  BY <1>1, <1>2 DEF Rolled, Deployment
<1>4. Len(Append(h, template)) = Len(h) + 1
      /\ Append(h, template)[Len(h) + 1] = template
  BY <1>2
<1> QED  BY <1>3, <1>4 DEF Current

\* The current revision of a deployment that exists is a template.
LEMMA CurrentType ==
    ASSUME NEW d \in Deployment, Exists(d)
    PROVE  Current(d) \in Template
<1>1. d.history \in Seq(Template) /\ d.history # <<>>
  BY DEF Deployment, Exists
<1>2. Len(d.history) \in 1..Len(d.history)
  BY <1>1
<1> QED  BY <1>1, <1>2 DEF Current

\* `rollout undo' swaps the last two revisions of a deployment.
LEMMA UndoneType ==
    ASSUME NEW d \in Deployment, Len(d.history) >= 2
    PROVE  Undone(d) \in Deployment
<1>1. PICK h : h = d.history
  OBVIOUS
<1>2. PICK n : n = Len(h)
  OBVIOUS
<1>3. h \in Seq(Template) /\ n \in Nat /\ n >= 2 /\ n = Len(h)
  BY <1>1, <1>2 DEF Deployment
<1>4. h[n] \in Template /\ h[n - 1] \in Template
  BY <1>3
<1>5. SubSeq(h, 1, n - 2) \in Seq(Template)
  BY <1>3
<1>6. SubSeq(h, 1, n - 2) \o <<h[n], h[n - 1]>> \in Seq(Template)
  BY <1>4, <1>5
<1>7. PICK k : k = SubSeq(h, 1, n - 2) \o <<h[n], h[n - 1]>>
  OBVIOUS
<1>8. Undone(d) = [d EXCEPT !.history = k]
  BY <1>1, <1>2, <1>7 DEF Undone
<1> QED  BY <1>6, <1>7, <1>8 DEF Deployment

\* Another memory profile makes another template.
LEMMA ProfileType ==
    ASSUME NEW d \in Deployment, Exists(d), NEW memory \in Memory
    PROVE  [Current(d) EXCEPT !.memory = memory] \in Template
BY CurrentType DEF Template

\* Whatever command a runbook id stands for leaves a deployment behind.
LEMMA ExecutedTypes ==
    ASSUME NEW id, NEW d \in Deployment
    PROVE  Executed(id, d) \subseteq Deployment
<1>1. CASE id \in {"aks.rollout.undo", "aks.rollback.readiness"}
  BY <1>1, UndoneType DEF Executed
<1>2. CASE id \in {"aks.restart.workload", "aks.restart.crashloop", "aks.restart.oom"}
  BY <1>2, RolledTypes, CurrentType DEF Executed
<1>3. CASE id = "aks.scale.memory"
  <2>1. "profile" \in Memory
    BY DEF Memory
  <2> QED  BY <1>3, <2>1, RolledTypes, ProfileType DEF Executed
<1>4. CASE id \notin {"aks.rollout.undo", "aks.rollback.readiness", "aks.restart.workload",
                      "aks.restart.crashloop", "aks.restart.oom", "aks.scale.memory"}
  BY <1>4 DEF Executed
<1> QED  BY <1>1, <1>2, <1>3, <1>4

\* A rollback that changes the workload brings the previous profile back.
LEMMA RestoredTypes ==
    ASSUME NEW id, NEW d \in Deployment, NEW e \in Restored(id, d)
    PROVE  e \in Deployment /\ Current(e).memory = "previous"
<1>1. Exists(d) /\ e = Rolled(d, [Current(d) EXCEPT !.memory = "previous"])
  BY DEF Restored
<1>2. PICK template : template = [Current(d) EXCEPT !.memory = "previous"]
  OBVIOUS
<1>3. "previous" \in Memory
  BY DEF Memory
<1>4. template \in Template
  BY <1>1, <1>2, <1>3, ProfileType
<1>5. template.memory = "previous"
  BY <1>1, <1>2, CurrentType DEF Template
<1> QED  BY <1>1, <1>2, <1>4, <1>5, RolledTypes

\* The clone of a deployment is a deployment that exists.
LEMMA CloneTypes ==
    ASSUME NEW d \in Deployment, Exists(d), NEW pods \in Pods
    PROVE  Clone(d, pods) \in Deployment /\ Exists(Clone(d, pods))
<1>1. PICK h : h = <<Current(d)>>
  OBVIOUS
<1>2. h \in Seq(Template) /\ h # <<>>
  BY <1>1, CurrentType
<1>3. NoDeployment \in Deployment
  BY DEF NoDeployment, Deployment, Pods
<1>4. Clone(d, pods) = [NoDeployment EXCEPT !.history = h, !.pods = pods]
  BY <1>1 DEF Clone
<1> QED  BY <1>2, <1>3, <1>4 DEF Deployment, Exists

\* No deployment at all has the type of one.
LEMMA NoDeploymentType == NoDeployment \in Deployment
BY DEF NoDeployment, Deployment, Pods

\* A promotion that passed the checks is filed as a certification.
LEMMA RecordOfType ==
    ASSUME NEW p \in Promotable, NEW t \in Nat
    PROVE  RecordOf(p, t) \in CertificationClaim
<1>1. /\ p \in Promotion /\ p.budget > 0
      /\ p.service \in Services /\ p.environment \in Environments /\ p.budget \in Nat
      /\ p.runbook \in Runbooks /\ p.revision \in Revisions \union {LocalRevision}
      /\ p.valid_days \in Nat
  BY ControlLoopConstants DEF Promotable, RequestIsValid, Promotion
<1>2. p.runbook.id \in RunbookIds
  BY <1>1, PolicyConstants DEF Runbook
<1>3. PICK scope : scope = <<p.service, p.environment, p.runbook.id, p.budget>>
  OBVIOUS
<1>4. scope \in Services \X Environments \X RunbookIds \X (Nat \ {0})
  BY <1>1, <1>2, <1>3
<1>5. scope \in ScopeHash
  BY <1>4 DEF ScopeHash
<1>6. <<scope, p.runbook, p.revision>> \in InputsHash
  BY <1>1, <1>5 DEF InputsHash
<1>7. t + p.valid_days \in Nat
  BY <1>1
<1>8. RecordOf(p, t) = [present |-> TRUE, scope_hash |-> scope,
                        inputs_hash |-> <<scope, p.runbook, p.revision>>,
                        expires_on |-> [form |-> "zoned", at |-> t + p.valid_days]]
  BY <1>3 DEF RecordOf
<1> QED  BY <1>5, <1>6, <1>7, <1>8 DEF CertificationClaim, Instant

\* A scope is a set of services, and a lease of it is a lease.
LEMMA LeaseType ==
    ASSUME TypeOK, NEW l \in Loops, Started(l)
    PROVE  LeaseOf(l) \in Lease
<1>1. loops[l] \in Loop
  BY DEF TypeOK, Started
<1>2. /\ loops[l].request \in Request /\ loops[l].moment \in Nat
      /\ loops[l].request.policy \in ServiceAutonomy
      /\ loops[l].request.policy.service \in Services
      /\ loops[l].request.impacted \subseteq Services
  BY <1>1 DEF Loop, Request, ServiceAutonomy
<1>3. TargetScope(loops[l].request) \subseteq Services
  BY <1>2 DEF TargetScope
<1>4. loops[l].moment + TTL \in Nat
  BY <1>2, ControlLoopConstants
<1> QED  BY <1>3, <1>4 DEF LeaseOf, Lease

-----------------------------------------------------------------------------
(* The gate *)

\* What an answer without a reason to deny says of the request.
LEMMA AuthorizedMeans ==
    ASSUME NEW r \in Request, NEW level, NEW moment,
           LocalReason(r, level, moment) = Authorized
    PROVE  /\ ~r.policy.kill_switch
           /\ r.service = r.policy.service /\ r.environment = r.policy.environment
           /\ ~(r.blast_radius > r.runbook.max_blast_radius)
           /\ ~(r.blast_radius > r.policy.max_blast_radius)
           /\ ~(r.policy.level < r.runbook.required_level)
           /\ r.runbook.id \in r.policy.certified_runbooks
           /\ Effective(r, level) = 3 => r.approval_verified
           /\ r.policy.level >= 4 => r.error_budget
BY LocalRules DEF Authorized

\* The claim, the kill switch, the evaluator and the certification together
\* clear a request: whatever the claim, an approval or a certification of
\* exactly this scope stands behind it.
LEMMA GateClears ==
    ASSUME NEW loop \in Loop, ClaimAccepted(loop.request),
           loop.switched => SwitchLevel(loop.request) < ApproveAndExecute,
           LocalReason(loop.request, EffectiveLevel(loop.request), loop.moment) = Authorized,
           EffectiveLevel(loop.request) >= BoundedAutonomous =>
               ~CertificationRefused(loop.request, loop.answered, loop.moment)
    PROVE  Cleared(loop)
<1>1. PICK r : r = loop.request
  OBVIOUS
<1>2. /\ r \in Request /\ r.policy \in ServiceAutonomy /\ r.policy.level \in 0..4
      /\ r.autonomy_level \in Claims /\ r.runbook \in Runbooks
      /\ r.blast_radius \in Nat /\ r.policy.max_blast_radius \in Nat
      /\ loop.switched \in BOOLEAN
  BY <1>1 DEF Loop, Request, ServiceAutonomy, Levels
<1>3. /\ r.runbook.required_level \in 0..4 /\ r.runbook.required_level >= 3
      /\ r.runbook.max_blast_radius \in Nat
  BY <1>2, PolicyConstants DEF Runbook, Levels, ApproveAndExecute
<1>4. /\ ~r.policy.kill_switch
      /\ r.service = r.policy.service /\ r.environment = r.policy.environment
      /\ ~(r.blast_radius > r.runbook.max_blast_radius)
      /\ ~(r.blast_radius > r.policy.max_blast_radius)
      /\ ~(r.policy.level < r.runbook.required_level)
      /\ r.runbook.id \in r.policy.certified_runbooks
      /\ Effective(r, EffectiveLevel(r)) = 3 => r.approval_verified
      /\ r.policy.level >= 4 => r.error_budget
  BY <1>1, <1>2, AuthorizedMeans
<1>5. /\ r.blast_radius <= r.runbook.max_blast_radius
      /\ r.blast_radius <= r.policy.max_blast_radius
      /\ r.policy.level \in {3, 4}
  BY <1>2, <1>3, <1>4
<1>6. SwitchLevel(r) >= 3 /\ SwitchLevel(r) \in Nat
  BY <1>2, <1>5 DEF SwitchLevel, ClaimedLevelValue
<1>7. ~loop.switched
  BY <1>1, <1>6 DEF ApproveAndExecute
<1>8. CASE r.policy.level = 3
  <2>1. r.autonomy_level \in {NoClaim, 3}
    BY <1>1, <1>8 DEF ClaimAccepted, ApproveAndExecute, BoundedAutonomous
  <2>2. EffectiveLevel(r) = 3
    BY <1>8, <2>1 DEF EffectiveLevel
  <2>3. Effective(r, EffectiveLevel(r)) = 3
    BY <1>8, <2>2 DEF Effective
  <2> QED  BY <1>1, <1>4, <1>5, <1>7, <1>8, <2>3 DEF Cleared, Supervised
<1>9. CASE r.policy.level = 4 /\ r.autonomy_level = 3
  <2>1. EffectiveLevel(r) = 3
    BY <1>9 DEF EffectiveLevel, NoClaim
  <2>2. Effective(r, EffectiveLevel(r)) = 3
    BY <1>9, <2>1 DEF Effective
  <2> QED  BY <1>1, <1>4, <1>5, <1>7, <1>9, <2>2 DEF Cleared, Supervised
<1>10. CASE r.policy.level = 4 /\ r.autonomy_level # 3
  <2>1. r.autonomy_level \in {NoClaim, 4}
    BY <1>1, <1>10 DEF ClaimAccepted, ApproveAndExecute
  <2>2. EffectiveLevel(r) = 4
    BY <1>10, <2>1 DEF EffectiveLevel
  <2>3. ~CertificationRefused(r, loop.answered, loop.moment)
    BY <1>1, <2>2 DEF BoundedAutonomous
  <2> QED  BY <1>1, <1>4, <1>5, <1>7, <1>10, <2>3 DEF Cleared
<1> QED  BY <1>5, <1>8, <1>9, <1>10

\* An evaluator that authorizes agrees with the local one.
LEMMA AnswerAuthorizes ==
    ASSUME NEW r \in Request, NEW level, NEW moment,
           Authorized \in Answers(r, level, moment)
    PROVE  LocalReason(r, level, moment) = Authorized
<1>1. CASE r.evaluator = "opa"
  <2>1. RegoReason(r, level, moment) = Authorized
    BY <1>1 DEF Answers, Authorized
  <2> QED  BY <2>1, ReasonsAgree
<1>2. CASE r.evaluator # "opa"
  BY <1>2 DEF Answers
<1> QED  BY <1>1, <1>2

\* There are seven kinds of exercises.
LEMMA SevenKinds == MinSuccessfulExercises = 7
<1> DEFINE S1 == {"successful_remediation"}
           S2 == S1 \union {"verification_failure"}
           S3 == S2 \union {"rollback"}
           S4 == S3 \union {"kill_switch"}
           S5 == S4 \union {"policy_outage"}
           S6 == S5 \union {"audit_outage"}
           S7 == S6 \union {"error_budget_exhausted"}
<1>1. IsFiniteSet(S1) /\ Cardinality(S1) = 1
  BY FS_Singleton
<1>2. IsFiniteSet(S2) /\ Cardinality(S2) = 2
  <2>1. "verification_failure" \notin S1
    OBVIOUS
  <2> HIDE DEF S1
  <2> QED  BY <1>1, <2>1, FS_AddElement
<1>3. IsFiniteSet(S3) /\ Cardinality(S3) = 3
  <2>1. "rollback" \notin S2
    OBVIOUS
  <2> HIDE DEF S2
  <2> QED  BY <1>2, <2>1, FS_AddElement
<1>4. IsFiniteSet(S4) /\ Cardinality(S4) = 4
  <2>1. "kill_switch" \notin S3
    OBVIOUS
  <2> HIDE DEF S3
  <2> QED  BY <1>3, <2>1, FS_AddElement
<1>5. IsFiniteSet(S5) /\ Cardinality(S5) = 5
  <2>1. "policy_outage" \notin S4
    OBVIOUS
  <2> HIDE DEF S4
  <2> QED  BY <1>4, <2>1, FS_AddElement
<1>6. IsFiniteSet(S6) /\ Cardinality(S6) = 6
  <2>1. "audit_outage" \notin S5
    OBVIOUS
  <2> HIDE DEF S5
  <2> QED  BY <1>5, <2>1, FS_AddElement
<1>7. IsFiniteSet(S7) /\ Cardinality(S7) = 7
  <2>1. "error_budget_exhausted" \notin S6
    OBVIOUS
  <2> HIDE DEF S6
  <2> QED  BY <1>6, <2>1, FS_AddElement
<1>8. S7 = ExerciseKind
  BY DEF ExerciseKind
<1> QED  BY <1>7, <1>8 DEF MinSuccessfulExercises

\* A certification read from a file that covers the request was earned in the
\* scope of the request: the hash of its inputs names the scope of the promotion.
LEMMA FiledIsEarned ==
    ASSUME TypeOK, IssuedInv, NEW l \in Loops, Started(l),
           loops[l].request.loads, Certified(l)
    PROVE  Earned(l)
<1>1. PICK r : r = loops[l].request
  OBVIOUS
<1>2. PICK i \in issued : i.claim = r.certification
  BY <1>1 DEF IssuedInv, Certified
<1>3. PICK t : i.claim = RecordOf(i.promotion, t)
  BY DEF IssuedInv
<1>4. PICK p : p = i.promotion
  OBVIOUS
<1>5. p \in Promotion /\ RequestIsValid(p) /\ Eligible(p)
  BY <1>4, ControlLoopConstants DEF IssuedInv, Promotable
<1>6. r.certification.inputs_hash =
        <<<<p.service, p.environment, p.runbook.id, p.budget>>, p.runbook, p.revision>>
  BY <1>2, <1>3, <1>4 DEF RecordOf
<1>7. r.certification.inputs_hash =
        <<<<r.service, r.environment, r.runbook.id, r.policy.max_blast_radius>>,
          r.runbook, loops[l].answered>>
  BY <1>1 DEF Certified
<1>8. /\ p.service = r.service /\ p.environment = r.environment
      /\ p.runbook.id = r.runbook.id /\ p.budget = r.policy.max_blast_radius
  BY <1>6, <1>7
<1> DEFINE scoped == {k \in DOMAIN p.exercises :
                        LET e == p.exercises[k]
                        IN  <<e.service, e.environment, e.runbook_id>> =
                            <<r.service, r.environment, r.runbook.id>>}
<1>9. scoped = Relevant(p)
  BY <1>8 DEF Relevant
<1>10. Passed(p) = scoped
  BY <1>5, <1>9 DEF Eligible
<1>11. \A k \in scoped : p.exercises[k] \in ExerciseResult
  BY <1>5 DEF Promotion
<1>12. Cardinality(scoped) >= 7
  BY <1>5, <1>10, SevenKinds DEF Eligible
<1>13. \A k \in scoped :
        /\ p.exercises[k].passed /\ p.exercises[k].grade = "production"
        /\ p.exercises[k].observed_blast_radius <= r.policy.max_blast_radius
  BY <1>5, <1>8, <1>10, <1>11 DEF Eligible, Passed, Graded, ExerciseResult
<1>14. ExerciseBackedKinds \subseteq {p.exercises[k].kind : k \in scoped}
  BY <1>5, <1>10 DEF Eligible
<1> DEFINE reviews == {e \in p.records :
                        /\ e.scope = <<r.service, r.environment, r.runbook.id>>
                        /\ e.decision = "l4-promotion" /\ e.basis = "observed"}
<1>15. AttestedControls \subseteq UNION {e.controls : e \in reviews}
  <2> SUFFICES ASSUME NEW control \in AttestedControls
               PROVE  \E record \in reviews : control \in record.controls
    OBVIOUS
  <2>1. PICK record \in p.records : Attests(record, p, control)
    BY <1>5 DEF Eligible
  <2>2. record \in EvidenceRecord
    BY <1>5 DEF Promotion
  <2>3. record \in reviews /\ control \in record.controls
    BY <1>8, <2>1, <2>2 DEF Attests, EvidenceRecord
  <2> QED  BY <2>3
<1>16. p.issued_by = "person"
  BY <1>5 DEF RequestIsValid
<1>17. Backs(p, r)
  BY <1>12, <1>13, <1>14, <1>15, <1>16 DEF Backs
<1> QED  BY <1>1, <1>2, <1>4, <1>17 DEF Earned

-----------------------------------------------------------------------------
(* Steps of one loop *)

\* The same call, with the same authority behind it.
Kin(new, old) ==
    /\ new.request = old.request /\ new.moment = old.moment
    /\ new.switched = old.switched /\ new.answered = old.answered

\* What cleared a call clears it for good: nothing it rests on changes.
LEMMA KinCleared ==
    ASSUME NEW new, NEW old, Kin(new, old), Cleared(old)
    PROVE  Cleared(new)
BY DEF Kin, Cleared

\* A loop that goes on after it was cleared, or is done, is still gated.
LEMMA KinGated ==
    ASSUME NEW new, NEW old, Kin(new, old), Gated(old), new.pc # "evaluate",
           new.pc \in After \/ new.effects # <<>> => old.pc \in After \/ old.effects # <<>>
    PROVE  Gated(new)
BY KinCleared DEF Gated

\* A loop that is somewhere has begun.
LEMMA StartedLoop ==
    ASSUME TypeOK, NEW l \in Loops, loops[l].pc # "idle"
    PROVE  Started(l) /\ loops[l] \in Loop
BY DEF TypeOK, Started, Idle

\* A step of one loop leaves the others where they are.
LEMMA OthersStay ==
    ASSUME TypeOK, NEW l \in Loops, NEW new \in Loop, loops' = [loops EXCEPT ![l] = new]
    PROVE  /\ loops'[l] = new /\ Started(l)'
           /\ \A m \in Loops \ {l} : loops'[m] = loops[m] /\ (Started(m)' <=> Started(m))
           /\ loops' \in [Loops -> Loop \union {Idle}]
<1>1. new # Idle
  BY DEF Loop, Idle
<1> QED  BY <1>1 DEF TypeOK, Started

\* A step of one loop keeps what each loop says of itself.
LEMMA LoopStep ==
    ASSUME TypeOK, LoopInv, NEW l \in Loops, NEW new \in Loop,
           loops' = [loops EXCEPT ![l] = new], UNCHANGED now, new.moment <= now,
           Gated(new), Traced(new), Told(new), Placed(new)
    PROVE  LoopInv'
<1>1. /\ loops'[l] = new
      /\ \A m \in Loops \ {l} : loops'[m] = loops[m] /\ (Started(m)' <=> Started(m))
  BY OthersStay
<1>2. ASSUME NEW m \in Loops, Started(m)'
      PROVE  /\ loops'[m].moment <= now'
             /\ Gated(loops'[m]) /\ Traced(loops'[m]) /\ Told(loops'[m]) /\ Placed(loops'[m])
  BY <1>1, <1>2 DEF LoopInv
<1>3. \A x : Told(x) <=> Told(x)'
  BY DEF Told
<1> QED  BY <1>2, <1>3 DEF LoopInv

\* A call keeps the certification it presented.
LEMMA IssuedStep ==
    ASSUME TypeOK, IssuedInv, NEW l \in Loops, NEW new \in Loop, Started(l),
           loops' = [loops EXCEPT ![l] = new], UNCHANGED <<now, issued>>,
           new.request = loops[l].request
    PROVE  IssuedInv'
<1>1. /\ loops'[l] = new
      /\ \A m \in Loops \ {l} : loops'[m] = loops[m] /\ (Started(m)' <=> Started(m))
  BY OthersStay
<1> QED  BY <1>1 DEF IssuedInv

\* A step that acquires and releases nothing.
LEMMA LeaseStep ==
    ASSUME TypeOK, LeaseInv, NEW l \in Loops, NEW new \in Loop,
           loops' = [loops EXCEPT ![l] = new], UNCHANGED <<leases, raced, now>>,
           Executing(l) => /\ new.pc \in Busy /\ new.request = loops[l].request
                           /\ new.moment = loops[l].moment,
           new.pc # "insert",
           new.pc \in Busy /\ new.request.managed => Executing(l)
    PROVE  LeaseInv'
<1>1. /\ loops'[l] = new
      /\ \A m \in Loops \ {l} : loops'[m] = loops[m]
  BY OthersStay
<1>2. \A x \in leases : x \in Lease /\ x.loop \in Loops
  BY DEF TypeOK, Lease
<1>3. ASSUME NEW m \in Loops, Executing(m)
      PROVE  /\ Executing(m)' /\ LeaseOf(m)' = LeaseOf(m) /\ (Overran(m)' <=> Overran(m))
             /\ loops'[m].request = loops[m].request
  <2>1. loops'[m].request = loops[m].request /\ loops'[m].moment = loops[m].moment
    BY <1>1, <1>3
  <2>2. loops'[m].pc \in Busy
    BY <1>1, <1>3 DEF Executing, Busy
  <2> QED  BY <2>1, <2>2 DEF Executing, Busy, LeaseOf, Overran
<1>4. ASSUME NEW m \in Loops, Executing(m)', loops'[m].request.managed
      PROVE  Executing(m)
  BY <1>1, <1>4 DEF Executing, Busy
<1>5. ASSUME NEW m \in Loops, Acquired(m)'
      PROVE  /\ Acquired(m) /\ loops'[m].request = loops[m].request
             /\ Overran(m)' <=> Overran(m)
  <2>1. CASE m = l
    <3>1. Executing(l)
      BY <1>1, <1>5, <2>1 DEF Acquired, Busy
    <3> QED  BY <1>1, <1>3, <1>5, <2>1, <3>1 DEF Acquired, Executing, Busy
  <2>2. CASE m # l
    BY <1>1, <1>5, <2>2 DEF Acquired, Overran
  <2> QED  BY <2>1, <2>2
<1>6. \A x \in leases' : Executing(x.loop)' /\ x = LeaseOf(x.loop)'
  <2> SUFFICES ASSUME NEW x \in leases PROVE Executing(x.loop)' /\ x = LeaseOf(x.loop)'
    OBVIOUS
  <2>1. PICK m \in Loops : m = x.loop
    BY <1>2
  <2>2. Executing(m) /\ x = LeaseOf(m)
    BY <2>1 DEF LeaseInv
  <2>3. Executing(m)' /\ x = LeaseOf(m)'
    BY <1>3, <2>2
  <2> QED  BY <2>1, <2>3 DEF Executing, LeaseOf
<1>7. \A m \in Loops :
        Executing(m)' /\ loops'[m].request.managed => Overran(m)' \/ LeaseOf(m)' \in leases'
  BY <1>3, <1>4 DEF LeaseInv
<1>8. \A k, m \in Loops :
        k # m /\ Acquired(k)' /\ Acquired(m)' /\ Overlap(k, m)' =>
            Overran(k)' \/ Overran(m)' \/ {k, m} \subseteq raced'
  BY <1>5 DEF LeaseInv, Overlap
<1> QED  BY <1>6, <1>7, <1>8 DEF LeaseInv

\* Whoever changes a deployment stirs the loops that looked at it.
Stirring(l) ==
    /\ stirred \subseteq stirred'
    /\ \A s \in Services : cluster'[s] # cluster[s] => Onlookers(s, {l}) \subseteq stirred'

\* A step of one loop leaves what the others looked at, or stirs them.
LEMMA SceneStep ==
    ASSUME TypeOK, SceneInv, NEW l \in Loops, NEW new \in Loop,
           loops' = [loops EXCEPT ![l] = new], Stirring(l),
           \A m \in Loops \ {l} :
                twins'[m] = twins[m] /\ (m \in sandboxes' <=> m \in sandboxes),
           LookedAt(l)', Sandboxed(l)'
    PROVE  SceneInv'
<1>1. /\ loops'[l] = new
      /\ \A m \in Loops \ {l} : loops'[m] = loops[m] /\ (Started(m)' <=> Started(m))
  BY OthersStay
<1>2. ASSUME NEW m \in Loops \ {l}, Started(m), loops[m].request.target = "kubernetes",
             m \notin stirred'
      PROVE  Undisturbed(m)'
  <2>1. PICK s : s = loops[m].request.service
    OBVIOUS
  <2>2. loops[m] \in Loop /\ loops[m].request \in Request /\ s \in Services
    BY <1>2, <2>1 DEF TypeOK, Started, Loop, Request
  <2>3. m \notin stirred /\ LookedAt(m) /\ Undisturbed(m)
    BY <1>2 DEF Stirring, SceneInv, LookedAt
  <2>4. CASE loops[m].pc \in {"scan", "insert", "deploy", "release"}
    <3>1. m \in Onlookers(s, {l})
      BY <1>2, <2>1, <2>4 DEF Onlookers
    <3>2. cluster'[s] = cluster[s]
      BY <1>2, <2>2, <3>1 DEF Stirring
    <3> QED  BY <1>1, <2>1, <2>3, <3>2 DEF Undisturbed
  <2>5. CASE loops[m].pc \notin {"scan", "insert", "deploy", "release"}
    BY <1>1, <2>5 DEF Undisturbed
  <2> QED  BY <2>4, <2>5
<1>3. ASSUME NEW m \in Loops \ {l} PROVE LookedAt(m)'
  BY <1>1, <1>2 DEF LookedAt
<1>4. ASSUME NEW m \in Loops \ {l} PROVE Sandboxed(m)'
  BY <1>1 DEF SceneInv, Sandboxed, NoSandbox, Rehearses
<1> QED  BY <1>3, <1>4 DEF SceneInv

\* A step that touches nothing but the loop itself.
LEMMA QuietStep ==
    ASSUME Inv, NEW l \in Loops, NEW new \in Loop, Started(l),
           loops' = [loops EXCEPT ![l] = new],
           UNCHANGED <<locks, now, kubernetes, issued>>,
           new.request = loops[l].request, new.moment <= now,
           Gated(new), Traced(new), Told(new), Placed(new),
           Executing(l) => new.pc \in Busy /\ new.moment = loops[l].moment,
           new.pc # "insert",
           new.pc \in Busy /\ new.request.managed => Executing(l),
           LookedAt(l)', Sandboxed(l)'
    PROVE  Inv'
<1>1. loops' \in [Loops -> Loop \union {Idle}]
  BY OthersStay DEF Inv
<1>2. TypeOK'
  BY <1>1 DEF Inv, TypeOK, locks, kubernetes
<1>3. LoopInv'
  BY LoopStep DEF Inv
<1>4. IssuedInv'
  BY IssuedStep DEF Inv
<1>5. LeaseInv'
  BY LeaseStep DEF Inv, locks
<1>6. Stirring(l)
  BY DEF Stirring, kubernetes
<1>7. SceneInv'
  BY <1>6, SceneStep DEF Inv, kubernetes
<1> QED  BY <1>2, <1>3, <1>4, <1>5, <1>7 DEF Inv

\* What the invariant says of one loop.
LEMMA AtLoop ==
    ASSUME Inv, NEW l \in Loops, loops[l].pc # "idle"
    PROVE  /\ Started(l) /\ loops[l] \in Loop /\ loops[l].request \in Request
           /\ loops[l].moment \in Nat /\ now \in Nat /\ loops[l].moment <= now
           /\ Gated(loops[l]) /\ Traced(loops[l]) /\ Told(loops[l]) /\ Placed(loops[l])
           /\ LookedAt(l) /\ Sandboxed(l)
<1>1. Started(l) /\ loops[l] \in Loop
  BY StartedLoop DEF Inv
<1>2. loops[l].request \in Request /\ loops[l].moment \in Nat /\ now \in Nat
  BY <1>1 DEF Loop, Inv, TypeOK
<1> QED  BY <1>1, <1>2 DEF Inv, LoopInv, SceneInv

\* A refusal returns to the rehearsal, which destroys its sandbox, or to the
\* caller.
Leaves(l, new) ==
    /\ new.status \in {"blocked", "denied", "deferred", "raised"}
    /\ \/ new.pc = Returned(l)
       \/ new.pc = "done" /\ (new.status = "raised" \/ NoSandbox(l))

\* A loop that returns without an effect.
LEMMA RefusedStep ==
    ASSUME Inv, NEW l \in Loops, NEW new \in Loop, loops[l].pc \in Before,
           loops' = [loops EXCEPT ![l] = new],
           UNCHANGED <<locks, now, kubernetes, issued>>,
           new.request = loops[l].request, new.moment <= now,
           new.effects = loops[l].effects, new.phase = loops[l].phase, Leaves(l, new)
    PROVE  Inv'
<1>1. /\ Started(l) /\ Traced(loops[l]) /\ Placed(loops[l])
      /\ loops[l].request \in Request
  BY AtLoop DEF Before
<1>2. /\ new.effects = <<>> /\ new.pc \in {"destroy", "done"}
      /\ new.pc = "destroy" => new.request.target = "twin"
  BY <1>1 DEF Traced, Leaves, Returned, Rehearses
<1>3. Gated(new)
  BY <1>2 DEF Gated, After
<1>4. Traced(new)
  BY <1>1, <1>2 DEF Traced, Before
<1>5. Told(new)
  BY <1>2 DEF Told, Leaves
<1>6. Placed(new)
  BY <1>1, <1>2 DEF Placed
<1>7. loops'[l] = new
  BY OthersStay DEF Inv
<1>8. LookedAt(l)'
  BY <1>2, <1>7 DEF LookedAt, Undisturbed
<1>9. Sandboxed(l)'
  <2>1. Started(l)'
    BY OthersStay DEF Inv
  <2>2. CASE new.pc = "destroy"
    BY <1>7, <2>1, <2>2 DEF Sandboxed
  <2>3. CASE new.pc = "done" /\ (new.status = "raised" \/ NoSandbox(l))
    BY <1>7, <2>1, <2>3 DEF Sandboxed, NoSandbox, kubernetes
  <2>4. CASE new.pc = "done" /\ new.pc = Returned(l)
    BY <1>7, <2>1, <2>4 DEF Sandboxed, Returned, Rehearses
  <2> QED  BY <1>2, <2>2, <2>3, <2>4 DEF Leaves
<1>10. ~Executing(l) /\ new.pc \notin Busy /\ new.pc # "insert"
  BY <1>2 DEF Executing, Busy, Before
<1> QED  BY <1>1, <1>3, <1>4, <1>5, <1>6, <1>8, <1>9, <1>10, QuietStep

\* The kill switch, the claim and the certification are looked at.
LEMMA EnterKeeps ==
    ASSUME Inv, NEW l \in Loops, Enter(l)
    PROVE  Inv'
<1>1. PICK kill_switch, refusal :
        /\ kill_switch \in BOOLEAN /\ refusal = Refusal(loops[l].request, kill_switch)
        /\ loops' = [loops EXCEPT
                ![l].pc = IF refusal = "none" THEN "evaluate" ELSE Returned(l),
                ![l].moment = now, ![l].switched = kill_switch,
                ![l].status = refusal]
  BY DEF Enter
<1>2. loops[l].pc = "enter" /\ UNCHANGED <<locks, now, kubernetes, issued>>
  BY DEF Enter
<1>3. /\ Started(l) /\ loops[l] \in Loop /\ now \in Nat /\ loops[l].request \in Request
      /\ Traced(loops[l]) /\ Placed(loops[l]) /\ Sandboxed(l)
  BY <1>2, AtLoop
<1>4. refusal \in {"none", "blocked", "denied"}
  BY <1>1 DEF Refusal
<1>5. PICK pc : pc = IF refusal = "none" THEN "evaluate" ELSE Returned(l)
  OBVIOUS
<1>6. pc \in {"evaluate", "destroy", "done"}
  BY <1>5 DEF Returned
<1>7. PICK new : new = [loops[l] EXCEPT !.pc = pc, !.moment = now,
                                        !.switched = kill_switch, !.status = refusal]
  OBVIOUS
<1>8. /\ new \in Loop /\ loops' = [loops EXCEPT ![l] = new]
      /\ new.pc = pc /\ new.moment = now /\ new.switched = kill_switch
      /\ new.status = refusal /\ new.request = loops[l].request
      /\ new.effects = loops[l].effects /\ new.phase = loops[l].phase
  BY <1>1, <1>3, <1>4, <1>5, <1>6, <1>7 DEF Loop, Status, Inv, TypeOK
<1>9. new.moment <= now
  BY <1>3, <1>8
<1>10. CASE refusal # "none"
  <2>1. Leaves(l, new) /\ loops[l].pc \in Before
    BY <1>2, <1>4, <1>5, <1>8, <1>10 DEF Leaves, Before
  <2> QED  BY <1>2, <1>8, <1>9, <2>1, RefusedStep
<1>11. CASE refusal = "none"
  <2>1. new.pc = "evaluate" /\ new.status = "none"
    BY <1>5, <1>8, <1>11
  <2>2. new.effects = <<>> /\ new.phase # "fleet"
    BY <1>2, <1>3, <1>8 DEF Traced, Before
  <2>3. /\ ClaimAccepted(new.request)
        /\ ~(SwitchLevel(new.request) >= ApproveAndExecute /\ kill_switch)
    BY <1>1, <1>8, <1>11 DEF Refusal
  <2>4. SwitchLevel(new.request) \in Nat
    BY <1>3, <1>8 DEF SwitchLevel, ClaimedLevelValue, Request, ServiceAutonomy, Levels
  <2>5. new.switched => SwitchLevel(new.request) < ApproveAndExecute
    BY <1>8, <2>3, <2>4 DEF ApproveAndExecute
  <2>6. Gated(new)
    BY <2>1, <2>2, <2>3, <2>5 DEF Gated, After
  <2>7. Traced(new) /\ Told(new) /\ Placed(new)
    BY <1>3, <1>8, <2>1, <2>2 DEF Traced, Told, Placed, Before
  <2>8. loops'[l] = new /\ Started(l)'
    BY <1>8, OthersStay DEF Inv
  <2>9. LookedAt(l)' /\ Sandboxed(l)'
    BY <1>2, <1>3, <1>8, <2>1, <2>8
       DEF LookedAt, Undisturbed, Sandboxed, Rehearses, kubernetes
  <2>10. ~Executing(l) /\ new.pc \notin Busy /\ new.pc # "insert"
    BY <1>2, <2>1 DEF Executing, Busy
  <2> QED  BY <1>2, <1>3, <1>8, <1>9, <2>6, <2>7, <2>9, <2>10, QuietStep
<1> QED  BY <1>10, <1>11

\* A loop that ends before its first change tells so.
LEMMA FinishStep ==
    ASSUME Inv, NEW l \in Loops, loops[l].pc \in Before,
           NEW status \in {"blocked", "denied", "deferred", "raised"}, Finish(l, status),
           UNCHANGED <<locks, now, kubernetes, issued>>
    PROVE  Inv'
<1>1. loops[l] \in Loop /\ loops[l].moment <= now
  BY AtLoop DEF Before
<1>2. PICK new : new = [loops[l] EXCEPT !.pc = Returned(l), !.status = status]
  OBVIOUS
<1>3. /\ new \in Loop /\ loops' = [loops EXCEPT ![l] = new]
      /\ new.pc = Returned(l) /\ new.status = status
      /\ new.request = loops[l].request /\ new.moment = loops[l].moment
      /\ new.effects = loops[l].effects /\ new.phase = loops[l].phase
  BY <1>1, <1>2 DEF Finish, Returned, Loop, Status, Inv, TypeOK
<1>4. Leaves(l, new) /\ new.moment <= now
  BY <1>1, <1>3 DEF Leaves
<1> QED  BY <1>3, <1>4, RefusedStep

\* The evaluator answers.
LEMMA EvaluateKeeps ==
    ASSUME Inv, NEW l \in Loops, NEW answered \in Revisions \union {LocalRevision},
           Evaluate(l, answered)
    PROVE  Inv'
<1>1. PICK r, level : r = loops[l].request /\ level = EffectiveLevel(r)
  OBVIOUS
<1> DEFINE refused == level >= BoundedAutonomous
                      /\ CertificationRefused(r, answered, loops[l].moment)
<1>2. PICK reason \in Answers(r, level, loops[l].moment) :
        \/ reason # Authorized /\ Finish(l, "denied")
        \/ reason = Authorized /\ refused /\ Finish(l, "blocked")
        \/ /\ reason = Authorized /\ ~refused
           /\ loops' = [loops EXCEPT ![l].pc = "preflight", ![l].answered = answered]
  BY <1>1 DEF Evaluate
<1>3. loops[l].pc = "evaluate" /\ UNCHANGED <<locks, now, kubernetes, issued>>
  BY DEF Evaluate
<1>4. /\ Started(l) /\ loops[l] \in Loop /\ r \in Request /\ loops[l].moment <= now
      /\ Gated(loops[l]) /\ Traced(loops[l]) /\ Placed(loops[l]) /\ Sandboxed(l)
  BY <1>1, <1>3, AtLoop
<1>5. CASE Finish(l, "denied") \/ Finish(l, "blocked")
  BY <1>3, <1>5, FinishStep DEF Before
<1>6. CASE /\ reason = Authorized /\ ~refused
           /\ loops' = [loops EXCEPT ![l].pc = "preflight", ![l].answered = answered]
  <2>1. PICK new : new = [loops[l] EXCEPT !.pc = "preflight", !.answered = answered]
    OBVIOUS
  <2>2. /\ new \in Loop /\ loops' = [loops EXCEPT ![l] = new]
        /\ new.pc = "preflight" /\ new.answered = answered
        /\ new.request = loops[l].request /\ new.moment = loops[l].moment
        /\ new.switched = loops[l].switched /\ new.status = loops[l].status
        /\ new.effects = loops[l].effects /\ new.phase = loops[l].phase
    BY <1>4, <1>6, <2>1 DEF Loop, Inv, TypeOK
  <2>3. LocalReason(r, level, loops[l].moment) = Authorized
    BY <1>2, <1>4, <1>6, AnswerAuthorizes
  <2>4. /\ ClaimAccepted(new.request)
        /\ new.switched => SwitchLevel(new.request) < ApproveAndExecute
    BY <1>3, <1>4, <2>2 DEF Gated
  <2>5. Cleared(new)
    BY <1>1, <1>6, <2>2, <2>3, <2>4, GateClears
  <2>6. new.effects = <<>> /\ new.phase # "fleet" /\ new.status = "none"
    BY <1>3, <1>4, <2>2 DEF Traced, Before
  <2>7. Gated(new)
    BY <2>2, <2>5, <2>6 DEF Gated
  <2>8. Traced(new) /\ Told(new) /\ Placed(new)
    BY <1>4, <2>2, <2>6 DEF Traced, Told, Placed, Before
  <2>9. loops'[l] = new /\ Started(l)'
    BY <2>2, OthersStay DEF Inv
  <2>10. LookedAt(l)' /\ Sandboxed(l)'
    BY <1>3, <1>4, <2>2, <2>9
       DEF LookedAt, Undisturbed, Sandboxed, Rehearses, kubernetes
  <2>11. ~Executing(l) /\ new.pc \notin Busy /\ new.pc # "insert"
    BY <1>3, <2>2 DEF Executing, Busy
  <2>12. new.moment <= now
    BY <1>4, <2>2
  <2> QED  BY <1>3, <1>4, <2>2, <2>7, <2>8, <2>10, <2>11, <2>12, QuietStep
<1> QED  BY <1>2, <1>5, <1>6

\* A step that only moves on within the same phase.
LEMMA GotoFields ==
    ASSUME Inv, NEW l \in Loops, loops[l].pc # "idle",
           NEW pc \in {"enter", "provision", "scan", "insert", "deploy", "rollback", "destroy", "done"},
           Goto(l, pc)
    PROVE  \E new \in Loop :
             /\ loops' = [loops EXCEPT ![l] = new] /\ loops'[l] = new /\ Started(l)'
             /\ new.pc = pc /\ new.status = loops[l].status
             /\ new.effects = loops[l].effects /\ new.phase = loops[l].phase
             /\ new.verified = loops[l].verified /\ Kin(new, loops[l])
             /\ new.moment <= now
<1>1. loops[l] \in Loop /\ loops[l].moment <= now
  BY AtLoop
<1>2. PICK new : new = [loops[l] EXCEPT !.pc = pc]
  OBVIOUS
<1>3. /\ new \in Loop /\ loops' = [loops EXCEPT ![l] = new]
      /\ new.pc = pc /\ new.status = loops[l].status
      /\ new.effects = loops[l].effects /\ new.phase = loops[l].phase
      /\ new.verified = loops[l].verified
      /\ new.request = loops[l].request /\ new.moment = loops[l].moment
      /\ new.switched = loops[l].switched /\ new.answered = loops[l].answered
  BY <1>1, <1>2 DEF Goto, Loop, Inv, TypeOK
<1>4. loops'[l] = new /\ Started(l)'
  BY <1>3, OthersStay DEF Inv
<1> QED  BY <1>1, <1>3, <1>4 DEF Kin

\* The preconditions are checked; what they found holds until somebody stirs.
LEMMA PreflightKeeps ==
    ASSUME Inv, NEW l \in Loops, Preflight(l)
    PROVE  Inv'
<1>1. loops[l].pc = "preflight" /\ UNCHANGED <<locks, now, kubernetes, issued>>
  BY DEF Preflight
<1>2. /\ Started(l) /\ loops[l] \in Loop /\ loops[l].request \in Request
      /\ Gated(loops[l]) /\ Traced(loops[l]) /\ Placed(loops[l]) /\ Sandboxed(l)
  BY <1>1, AtLoop
<1>3. CASE Finish(l, "denied")
  BY <1>1, <1>3, FinishStep DEF Before
<1>4. CASE /\ TRUE \in Checks(l)
           /\ Goto(l, IF loops[l].request.managed THEN "scan" ELSE "deploy")
  <2>1. PICK pc \in {"scan", "deploy"} :
          pc = IF loops[l].request.managed THEN "scan" ELSE "deploy"
    OBVIOUS
  <2>2. PICK new \in Loop :
          /\ loops' = [loops EXCEPT ![l] = new] /\ loops'[l] = new /\ Started(l)'
          /\ new.pc = pc /\ new.status = loops[l].status
          /\ new.effects = loops[l].effects /\ new.phase = loops[l].phase
          /\ Kin(new, loops[l]) /\ new.moment <= now
    BY <1>1, <1>4, <2>1, GotoFields
  <2>3. new.request = loops[l].request
    BY <2>2 DEF Kin
  <2>4. new.effects = <<>> /\ new.phase # "fleet" /\ new.status = "none"
    BY <1>1, <1>2, <2>2 DEF Traced, Before
  <2>5. Gated(new)
    BY <1>1, <1>2, <2>2, KinGated DEF After
  <2>6. Traced(new) /\ Told(new) /\ Placed(new)
    BY <1>2, <2>1, <2>2, <2>3, <2>4 DEF Traced, Told, Placed, Before
  <2>7. LookedAt(l)'
    <3> SUFFICES ASSUME new.request.target = "kubernetes" PROVE Undisturbed(l)'
      BY <2>2 DEF LookedAt
    <3>1. PreconditionsHold(new.request.runbook, {}, cluster[new.request.service])
      BY <1>4, <2>3 DEF Checks, Seen, Rehearses
    <3> QED  BY <1>1, <2>1, <2>2, <3>1 DEF Undisturbed, kubernetes
  <2>8. Sandboxed(l)'
    BY <1>1, <1>2, <2>2, <2>3 DEF Sandboxed, Rehearses, kubernetes
  <2>9. /\ ~Executing(l) /\ new.pc # "insert"
        /\ new.pc \in Busy => ~new.request.managed
    BY <1>1, <2>1, <2>2, <2>3 DEF Executing, Busy
  <2> QED  BY <1>1, <1>2, <2>2, <2>3, <2>5, <2>6, <2>7, <2>8, <2>9, QuietStep
<1> QED  BY <1>3, <1>4 DEF Preflight

\* A step that ends the execution with a status.
LEMMA EndsFields ==
    ASSUME Inv, NEW l \in Loops, loops[l].pc # "idle", NEW status \in Status,
           NEW effects \in Seq({"canary", "fleet", "rollback"}), NEW verified \in BOOLEAN,
           Ends(l, status, effects, verified)
    PROVE  \E new \in Loop :
             /\ loops' = [loops EXCEPT ![l] = new] /\ loops'[l] = new /\ Started(l)'
             /\ new.pc = "release" /\ new.status = status
             /\ new.effects = effects /\ new.phase = loops[l].phase
             /\ new.verified = verified /\ Kin(new, loops[l])
             /\ new.moment <= now
<1>1. loops[l] \in Loop /\ loops[l].moment <= now
  BY AtLoop
<1>2. PICK new : new = [loops[l] EXCEPT !.pc = "release", !.status = status,
                                        !.effects = effects, !.verified = verified]
  OBVIOUS
<1>3. /\ new \in Loop /\ loops' = [loops EXCEPT ![l] = new]
      /\ new.pc = "release" /\ new.status = status
      /\ new.effects = effects /\ new.phase = loops[l].phase
      /\ new.verified = verified
      /\ new.request = loops[l].request /\ new.moment = loops[l].moment
      /\ new.switched = loops[l].switched /\ new.answered = loops[l].answered
  BY <1>1, <1>2 DEF Ends, Loop, Inv, TypeOK
<1>4. loops'[l] = new /\ Started(l)'
  BY <1>3, OthersStay DEF Inv
<1> QED  BY <1>1, <1>3, <1>4 DEF Kin

\* A step of a loop that holds its lease, or needs none, and stays busy.
LEMMA BusyStep ==
    ASSUME Inv, NEW l \in Loops, Executing(l), NEW new \in Loop,
           loops' = [loops EXCEPT ![l] = new], UNCHANGED <<locks, now, kubernetes, issued>>,
           Kin(new, loops[l]), new.pc \in Busy, Traced(new), Told(new),
           LookedAt(l)', Sandboxed(l)'
    PROVE  Inv'
<1>1. loops[l].pc \in Busy /\ loops[l].pc # "idle"
  BY DEF Executing, Busy
<1>2. /\ Started(l) /\ Gated(loops[l]) /\ Placed(loops[l]) /\ loops[l].moment <= now
  BY <1>1, AtLoop
<1>3. Gated(new)
  BY <1>1, <1>2, KinGated DEF After, Busy
<1>4. Placed(new)
  BY <1>2 DEF Placed, Busy, Kin
<1>5. /\ new.request = loops[l].request /\ new.moment = loops[l].moment
      /\ new.moment <= now /\ new.pc # "insert"
  BY <1>2 DEF Kin, Busy
<1> QED  BY <1>2, <1>3, <1>4, <1>5, QuietStep

\* The canary is promoted, the change is verified, or a rollback follows.
LEMMA VerifyKeeps ==
    ASSUME Inv, NEW l \in Loops, Verify(l)
    PROVE  Inv'
<1>1. loops[l].pc = "verify" /\ UNCHANGED <<locks, now, kubernetes, issued>>
  BY DEF Verify
<1>2. /\ Started(l) /\ loops[l] \in Loop /\ Traced(loops[l]) /\ Told(loops[l])
      /\ loops[l].effects \in Seq({"canary", "fleet", "rollback"})
      /\ loops[l].phase \in Phase /\ Executing(l) /\ loops[l].status = "none"
  BY <1>1, AtLoop DEF Loop, Executing, Traced
<1>3. CASE /\ loops[l].phase = "canary"
           /\ loops' = [loops EXCEPT ![l].pc = "deploy", ![l].phase = "fleet"]
  <2>1. PICK new : new = [loops[l] EXCEPT !.pc = "deploy", !.phase = "fleet"]
    OBVIOUS
  <2>2. /\ new \in Loop /\ loops' = [loops EXCEPT ![l] = new]
        /\ new.pc = "deploy" /\ new.phase = "fleet" /\ new.status = "none"
        /\ new.effects = loops[l].effects
        /\ new.request = loops[l].request /\ new.moment = loops[l].moment
        /\ new.switched = loops[l].switched /\ new.answered = loops[l].answered
    BY <1>2, <1>3, <2>1 DEF Loop, Phase, Inv, TypeOK
  <2>3. loops'[l] = new /\ Started(l)'
    BY <2>2, OthersStay DEF Inv
  <2>4. new.request.target = "protocol" /\ new.request.canary
    BY <1>1, <1>2, <1>3, <2>2 DEF Traced, Loop, Request
  <2>5. Traced(new) /\ Told(new)
    BY <2>2, <2>4 DEF Traced, Told, Before
  <2>6. LookedAt(l)' /\ Sandboxed(l)'
    BY <2>3, <2>4 DEF LookedAt, Sandboxed, Rehearses
  <2> QED  BY <1>1, <1>2, <2>2, <2>5, <2>6, BusyStep DEF Kin, Busy
<1>4. CASE loops[l].phase # "canary" /\ Ends(l, "succeeded", loops[l].effects, TRUE)
  <2>1. PICK new \in Loop :
          /\ loops' = [loops EXCEPT ![l] = new] /\ loops'[l] = new /\ Started(l)'
          /\ new.pc = "release" /\ new.status = "succeeded"
          /\ new.effects = loops[l].effects /\ new.phase = loops[l].phase
          /\ new.verified = TRUE /\ Kin(new, loops[l])
    <3>1. PICK status, effects, verified :
            status = "succeeded" /\ effects = loops[l].effects /\ verified = TRUE
      OBVIOUS
    <3>2. /\ status \in Status /\ verified \in BOOLEAN
          /\ effects \in Seq({"canary", "fleet", "rollback"})
      BY <1>2, <3>1 DEF Status
    <3>3. Ends(l, status, effects, verified)
      BY <1>4, <3>1
    <3>4. loops[l].pc # "idle"
      BY <1>1
    <3>5. PICK new \in Loop :
            /\ loops' = [loops EXCEPT ![l] = new] /\ loops'[l] = new /\ Started(l)'
            /\ new.pc = "release" /\ new.status = status
            /\ new.effects = effects /\ new.phase = loops[l].phase
            /\ new.verified = verified /\ Kin(new, loops[l])
      BY <3>2, <3>3, <3>4, EndsFields
    <3> QED  BY <3>1, <3>5
  <2>2. Len(new.effects) > 0 /\ new.effects[Len(new.effects)] = "fleet"
    <3>1. CASE loops[l].phase = "whole"
      <4>1. new.effects = <<"fleet">>
        BY <1>1, <1>2, <2>1, <3>1 DEF Traced
      <4> QED  BY <4>1
    <3>2. CASE loops[l].phase = "fleet"
      BY <1>1, <1>2, <2>1, <3>2 DEF Traced
    <3> QED  BY <1>2, <1>4, <3>1, <3>2 DEF Phase
  <2>3. Told(new)
    BY <2>1, <2>2 DEF Told
  <2>4. Traced(new)
    BY <1>2, <2>1 DEF Traced, Before, Kin
  <2>5. LookedAt(l)' /\ Sandboxed(l)'
    BY <2>1 DEF LookedAt, Undisturbed, Sandboxed
  <2> QED  BY <1>1, <1>2, <2>1, <2>3, <2>4, <2>5, BusyStep DEF Busy
<1>5. CASE Goto(l, "rollback")
  <2>1. PICK new \in Loop :
          /\ loops' = [loops EXCEPT ![l] = new] /\ loops'[l] = new /\ Started(l)'
          /\ new.pc = "rollback" /\ new.status = loops[l].status
          /\ new.effects = loops[l].effects /\ new.phase = loops[l].phase
          /\ Kin(new, loops[l])
    BY <1>1, <1>5, GotoFields
  <2>2. Traced(new) /\ Told(new)
    BY <1>1, <1>2, <2>1 DEF Traced, Told, Before, Kin
  <2>3. LookedAt(l)' /\ Sandboxed(l)'
    BY <2>1 DEF LookedAt, Undisturbed, Sandboxed
  <2> QED  BY <1>1, <1>2, <2>1, <2>2, <2>3, BusyStep DEF Busy
<1> QED  BY <1>3, <1>4, <1>5 DEF Verify

\* A rehearsal looks at the source namespace.
LEMMA RehearseKeeps ==
    ASSUME Inv, NEW l \in Loops, Rehearse(l)
    PROVE  Inv'
<1>1. loops[l].pc = "rehearse" /\ UNCHANGED <<locks, now, kubernetes, issued>>
  BY DEF Rehearse
<1>2. /\ Started(l) /\ loops[l] \in Loop /\ loops[l].request \in Request
      /\ loops[l].moment <= now /\ Rehearses(l) /\ NoSandbox(l)
      /\ Gated(loops[l]) /\ Traced(loops[l]) /\ Placed(loops[l])
  BY <1>1, AtLoop DEF Placed, Rehearses, Sandboxed
<1>3. ASSUME NEW status \in {"raised", "denied"},
             loops' = [loops EXCEPT ![l].pc = "done", ![l].status = status]
      PROVE  Inv'
  <2>1. PICK new : new = [loops[l] EXCEPT !.pc = "done", !.status = status]
    OBVIOUS
  <2>2. /\ new \in Loop /\ loops' = [loops EXCEPT ![l] = new]
        /\ new.pc = "done" /\ new.status = status
        /\ new.request = loops[l].request /\ new.moment = loops[l].moment
        /\ new.effects = loops[l].effects /\ new.phase = loops[l].phase
    BY <1>2, <1>3, <2>1 DEF Loop, Status, Inv, TypeOK
  <2>3. Leaves(l, new) /\ loops[l].pc \in Before /\ new.moment <= now
    BY <1>1, <1>2, <2>2 DEF Leaves, Before
  <2> QED  BY <1>1, <2>2, <2>3, RefusedStep
<1>4. CASE Goto(l, "provision")
  <2>1. PICK new \in Loop :
          /\ loops' = [loops EXCEPT ![l] = new] /\ loops'[l] = new /\ Started(l)'
          /\ new.pc = "provision" /\ new.status = loops[l].status
          /\ new.effects = loops[l].effects /\ new.phase = loops[l].phase
          /\ Kin(new, loops[l]) /\ new.moment <= now
    BY <1>1, <1>4, GotoFields
  <2>2. new.request = loops[l].request
    BY <2>1 DEF Kin
  <2>3. Gated(new) /\ Traced(new) /\ Told(new) /\ Placed(new)
    BY <1>1, <1>2, <2>1, <2>2
       DEF Gated, Traced, Told, Placed, Before, After, Rehearses
  <2>4. LookedAt(l)' /\ Sandboxed(l)'
    <3>1. NoSandbox(l)'
      BY <1>1, <1>2 DEF NoSandbox, kubernetes
    <3>2. LookedAt(l)'
      BY <2>1 DEF LookedAt, Undisturbed
    <3>3. Sandboxed(l)'
      BY <2>1, <3>1 DEF Sandboxed
    <3> QED  BY <3>2, <3>3
  <2>5. ~Executing(l) /\ new.pc \notin Busy /\ new.pc # "insert"
    BY <1>1, <2>1 DEF Executing, Busy
  <2> QED  BY <1>1, <1>2, <2>1, <2>2, <2>3, <2>4, <2>5, QuietStep
<1> QED  BY <1>3, <1>4 DEF Rehearse

-----------------------------------------------------------------------------
(* Steps that change the cluster or a clone *)

\* A loop changes its own deployment and stirs those that looked at it.
Acts(l) ==
    /\ cluster' \in [Services -> Deployment] /\ twins' \in [Loops -> Deployment]
    /\ stirred' \subseteq Loops /\ UNCHANGED <<sandboxes, pod_changes>>
    /\ Stirring(l)
    /\ \A m \in Loops \ {l} : twins'[m] = twins[m]

\* Put changes the deployment of its loop and nobody else's unseen.
LEMMA PutActs ==
    ASSUME TypeOK, NEW l \in Loops, loops[l] \in Loop, NEW d \in Deployment, Put(l, d)
    PROVE  /\ Acts(l)
           /\ ~Rehearses(l) => cluster'[loops[l].request.service] = d
<1>1. PICK s : s = loops[l].request.service
  OBVIOUS
<1>2. s \in Services
  BY <1>1 DEF Loop, Request
<1>3. UNCHANGED <<sandboxes, pod_changes>>
  BY DEF Put
<1>4. CASE Rehearses(l)
  <2>1. twins' = [twins EXCEPT ![l] = d] /\ cluster' = cluster /\ stirred' = stirred
    BY <1>4 DEF Put
  <2>2. Stirring(l)
    BY <2>1 DEF Stirring
  <2> QED  BY <1>3, <1>4, <2>1, <2>2 DEF Acts, TypeOK
<1>5. CASE ~Rehearses(l)
  <2>1. /\ cluster' = [cluster EXCEPT ![s] = d] /\ twins' = twins
        /\ stirred' = IF d = cluster[s] THEN stirred
                      ELSE stirred \union Onlookers(s, {l})
    BY <1>1, <1>5 DEF Put
  <2>2. Onlookers(s, {l}) \subseteq Loops
    BY DEF Onlookers
  <2>3. stirred' \subseteq Loops /\ stirred \subseteq stirred'
    BY <2>1, <2>2 DEF TypeOK
  <2>4. \A t \in Services : cluster'[t] # cluster[t] => t = s /\ d # cluster[s]
    BY <1>2, <2>1 DEF TypeOK
  <2>5. Stirring(l)
    BY <2>1, <2>3, <2>4 DEF Stirring
  <2>6. cluster' \in [Services -> Deployment] /\ cluster'[s] = d
    BY <1>2, <2>1 DEF TypeOK
  <2> QED  BY <1>1, <1>3, <1>5, <2>1, <2>3, <2>5, <2>6 DEF Acts, TypeOK
<1> QED  BY <1>4, <1>5

\* A step of a loop that acts on its deployment and stays busy.
LEMMA ActStep ==
    ASSUME Inv, NEW l \in Loops, Executing(l), NEW new \in Loop,
           loops' = [loops EXCEPT ![l] = new], UNCHANGED <<locks, now, issued>>, Acts(l),
           Kin(new, loops[l]), new.pc \in Busy, Traced(new), Told(new),
           LookedAt(l)', Sandboxed(l)'
    PROVE  Inv'
<1>1. loops[l].pc \in Busy /\ loops[l].pc # "idle"
  BY DEF Executing, Busy
<1>2. /\ Started(l) /\ Gated(loops[l]) /\ Placed(loops[l]) /\ loops[l].moment <= now
  BY <1>1, AtLoop
<1>3. Gated(new)
  BY <1>1, <1>2, KinGated DEF After, Busy
<1>4. Placed(new)
  BY <1>2 DEF Placed, Busy, Kin
<1>5. /\ new.request = loops[l].request /\ new.moment = loops[l].moment
      /\ new.moment <= now /\ new.pc # "insert"
  BY <1>2 DEF Kin, Busy
<1>6. loops' \in [Loops -> Loop \union {Idle}]
  BY OthersStay DEF Inv
<1>7. TypeOK'
  BY <1>6 DEF Inv, TypeOK, locks, Acts
<1>8. LoopInv'
  BY <1>3, <1>4, <1>5, LoopStep DEF Inv
<1>9. IssuedInv'
  BY <1>2, <1>5, IssuedStep DEF Inv
<1>10. LeaseInv'
  BY <1>5, LeaseStep DEF Inv, locks
<1>11. SceneInv'
  BY SceneStep DEF Inv, Acts
<1> QED  BY <1>7, <1>8, <1>9, <1>10, <1>11 DEF Inv

\* What an adapter sees is a deployment.
LEMMA SeenType ==
    ASSUME TypeOK, NEW l \in Loops, loops[l] \in Loop
    PROVE  Seen(l) \in Deployment
<1>1. loops[l].request.service \in Services
  BY DEF Loop, Request
<1> QED  BY <1>1 DEF Seen, TypeOK

\* What an execution leaves is a deployment.
LEMMA OutcomesType ==
    ASSUME TypeOK, NEW l \in Loops, loops[l] \in Loop
    PROVE  Outcomes(l) \subseteq Deployment
BY SeenType, ExecutedTypes DEF Outcomes

\* What a rollback leaves is a deployment.
LEMMA RestorationsType ==
    ASSUME TypeOK, NEW l \in Loops, loops[l] \in Loop
    PROVE  Restorations(l) \subseteq Deployment
BY SeenType, RestoredTypes DEF Restorations

\* The effects of a deployment.
LEMMA Changed ==
    ASSUME NEW loop \in Loop, Traced(loop), loop.pc = "deploy",
           NEW changed,
           changed = Append(loop.effects,
                            IF loop.phase = "canary" THEN "canary" ELSE "fleet")
    PROVE  /\ changed \in Seq({"canary", "fleet", "rollback"})
           /\ loop.phase = "whole" => changed = <<"fleet">>
           /\ loop.phase = "canary" => changed = <<"canary">>
           /\ loop.phase = "fleet" => Len(changed) > 0 /\ changed[Len(changed)] = "fleet"
<1>1. loop.effects \in Seq({"canary", "fleet", "rollback"}) /\ loop.phase \in Phase
  BY DEF Loop
<1>2. changed \in Seq({"canary", "fleet", "rollback"})
  BY <1>1
<1>3. loop.phase # "fleet" => loop.effects = <<>>
  BY DEF Traced
<1>4. CASE loop.phase = "whole"
  <2>1. loop.effects = <<>> /\ changed = Append(loop.effects, "fleet")
    BY <1>3, <1>4
  <2> QED  BY <1>2, <1>4, <2>1
<1>5. CASE loop.phase = "canary"
  <2>1. loop.effects = <<>> /\ changed = Append(loop.effects, "canary")
    BY <1>3, <1>5
  <2> QED  BY <1>2, <1>5, <2>1
<1>6. CASE loop.phase = "fleet"
  <2>1. changed = Append(loop.effects, "fleet")
    BY <1>6
  <2>2. Len(changed) = Len(loop.effects) + 1 /\ changed[Len(loop.effects) + 1] = "fleet"
    BY <1>1, <2>1
  <2> QED  BY <1>1, <1>2, <1>6, <2>2
<1> QED  BY <1>1, <1>4, <1>5, <1>6 DEF Phase

\* A deployment that raised: a canary that never touched the fleet counts as
\* rolled back, anything else needs a human.
LEMMA FailedDeploy ==
    ASSUME Inv, NEW l \in Loops, loops[l].pc = "deploy",
           NEW effects \in Seq({"canary", "fleet", "rollback"}),
           loops[l].phase = "canary" => effects \in {<<>>, <<"canary">>},
           Ends(l, DeployFailed(loops[l].phase), effects, FALSE),
           UNCHANGED <<locks, now, issued>>, Acts(l)
    PROVE  Inv'
<1>1. /\ Started(l) /\ loops[l] \in Loop /\ Traced(loops[l]) /\ Executing(l)
      /\ loops[l].phase \in Phase
  BY AtLoop DEF Executing, Loop
<1>2. PICK status, verified :
        status = DeployFailed(loops[l].phase) /\ verified = FALSE
  OBVIOUS
<1>3. /\ status \in Status /\ verified \in BOOLEAN
      /\ status = "rolled_back" => loops[l].phase = "canary"
      /\ status \in {"rolled_back", "escalate"}
  BY <1>2 DEF Status, DeployFailed
<1>4. Ends(l, status, effects, verified)
  BY <1>2
<1>5. PICK new \in Loop :
        /\ loops' = [loops EXCEPT ![l] = new] /\ loops'[l] = new /\ Started(l)'
        /\ new.pc = "release" /\ new.status = status
        /\ new.effects = effects /\ new.phase = loops[l].phase
        /\ Kin(new, loops[l])
  BY <1>3, <1>4, EndsFields
<1>6. new.request = loops[l].request
  BY <1>5 DEF Kin
<1>7. Traced(new)
  BY <1>1, <1>5, <1>6 DEF Traced, Before
<1>8. new.status = "rolled_back" =>
        /\ new.request.canary
        /\ \A i \in 1..Len(new.effects) : new.effects[i] # "fleet"
  <2>1. CASE loops[l].phase = "canary"
    <3>1. new.request.canary
      BY <1>1, <1>6, <2>1 DEF Traced
    <3>2. \A i \in 1..Len(effects) : effects[i] # "fleet"
      BY <2>1
    <3> QED  BY <1>5, <3>1, <3>2
  <2> QED  BY <1>3, <1>5, <2>1
<1>9. Told(new)
  BY <1>3, <1>5, <1>8 DEF Told
<1>10. LookedAt(l)' /\ Sandboxed(l)'
  BY <1>5, <1>8 DEF LookedAt, Undisturbed, Sandboxed
<1>11. new.pc \in Busy
  BY <1>5 DEF Busy
<1> QED  BY <1>1, <1>5, <1>7, <1>9, <1>10, <1>11, ActStep

\* A workload that changed is verified next.
LEMMA DeployedStep ==
    ASSUME Inv, NEW l \in Loops, loops[l].pc = "deploy", Outcomes(l) # {},
           NEW changed,
           changed = Append(loops[l].effects,
                            IF loops[l].phase = "canary" THEN "canary" ELSE "fleet"),
           loops' = [loops EXCEPT ![l].pc = "verify", ![l].effects = changed],
           UNCHANGED <<locks, now, issued>>, Acts(l)
    PROVE  Inv'
<1>1. /\ Started(l) /\ loops[l] \in Loop /\ Traced(loops[l]) /\ Executing(l)
      /\ loops[l].phase \in Phase /\ loops[l].status = "none"
  BY AtLoop DEF Executing, Loop, Traced
<1>2. /\ changed \in Seq({"canary", "fleet", "rollback"})
      /\ loops[l].phase = "whole" => changed = <<"fleet">>
      /\ loops[l].phase = "canary" => changed = <<"canary">>
      /\ loops[l].phase = "fleet" => Len(changed) > 0 /\ changed[Len(changed)] = "fleet"
  BY <1>1, Changed
<1>3. PICK new : new = [loops[l] EXCEPT !.pc = "verify", !.effects = changed]
  OBVIOUS
<1>4. /\ new \in Loop /\ loops' = [loops EXCEPT ![l] = new]
      /\ new.pc = "verify" /\ new.phase = loops[l].phase /\ new.status = "none"
      /\ new.effects = changed
      /\ new.request = loops[l].request /\ new.moment = loops[l].moment
      /\ new.switched = loops[l].switched /\ new.answered = loops[l].answered
  BY <1>1, <1>2, <1>3 DEF Loop, Inv, TypeOK
<1>5. loops'[l] = new /\ Started(l)'
  BY <1>4, OthersStay DEF Inv
<1>6. new.request.target = "protocol" \/ new.phase = "whole"
  BY <1>1, <1>4 DEF Outcomes, Traced, Phase
<1>7. Traced(new)
  BY <1>1, <1>2, <1>4, <1>6 DEF Traced, Before
<1>8. Told(new)
  BY <1>4 DEF Told
<1>9. LookedAt(l)' /\ Sandboxed(l)'
  BY <1>4, <1>5 DEF LookedAt, Undisturbed, Sandboxed
<1>10. Kin(new, loops[l]) /\ new.pc \in Busy
  BY <1>4 DEF Kin, Busy
<1> QED  BY <1>1, <1>4, <1>7, <1>8, <1>9, <1>10, ActStep

\* To change nothing stirs nobody.
LEMMA IdleScene ==
    ASSUME Inv, NEW l \in Loops, UNCHANGED kubernetes
    PROVE  Acts(l)
BY DEF Inv, TypeOK, Acts, Stirring, kubernetes

\* The adapter executes: the workload changes or the call raises.
LEMMA DeployKeeps ==
    ASSUME Inv, NEW l \in Loops, Deploy(l)
    PROVE  Inv'
<1>1. PICK changed :
        changed = Append(loops[l].effects,
                         IF loops[l].phase = "canary" THEN "canary" ELSE "fleet")
  OBVIOUS
<1>2. loops[l].pc = "deploy" /\ UNCHANGED <<locks, now, issued>>
  BY DEF Deploy
<1>3. /\ loops[l] \in Loop /\ Traced(loops[l])
      /\ loops[l].effects \in Seq({"canary", "fleet", "rollback"})
  BY <1>2, AtLoop DEF Loop
<1>4. /\ changed \in Seq({"canary", "fleet", "rollback"})
      /\ loops[l].phase = "canary" => changed = <<"canary">>
      /\ loops[l].phase = "canary" => loops[l].effects = <<>>
  BY <1>1, <1>2, <1>3, Changed, ZenonT(40) DEF Traced
<1>5. CASE \E d \in Outcomes(l) :
             /\ Put(l, d)
             /\ \/ loops' = [loops EXCEPT ![l].pc = "verify", ![l].effects = changed]
                \/ Ends(l, DeployFailed(loops[l].phase), changed, FALSE)
  <2>1. PICK d \in Outcomes(l) :
          /\ Put(l, d)
          /\ \/ loops' = [loops EXCEPT ![l].pc = "verify", ![l].effects = changed]
             \/ Ends(l, DeployFailed(loops[l].phase), changed, FALSE)
    BY <1>5
  <2>2. d \in Deployment
    BY <1>3, OutcomesType DEF Inv
  <2>3. Acts(l)
    BY <1>3, <2>1, <2>2, PutActs DEF Inv
  <2>4. CASE loops' = [loops EXCEPT ![l].pc = "verify", ![l].effects = changed]
    BY <1>1, <1>2, <2>3, <2>4, DeployedStep
  <2>5. CASE Ends(l, DeployFailed(loops[l].phase), changed, FALSE)
    BY <1>2, <1>4, <2>3, <2>5, FailedDeploy
  <2> QED  BY <2>1, <2>4, <2>5
<1>6. CASE /\ Ends(l, DeployFailed(loops[l].phase), loops[l].effects, FALSE)
           /\ UNCHANGED kubernetes
  <2>1. Acts(l)
    BY <1>6, IdleScene
  <2>2. PICK effects : effects = loops[l].effects
    OBVIOUS
  <2>3. /\ Ends(l, DeployFailed(loops[l].phase), effects, FALSE)
        /\ effects \in Seq({"canary", "fleet", "rollback"})
        /\ loops[l].phase = "canary" => effects \in {<<>>, <<"canary">>}
    BY <1>3, <1>4, <1>6, <2>2
  <2> QED  BY <1>2, <2>1, <2>3, FailedDeploy
<1> QED  BY <1>1, <1>5, <1>6 DEF Deploy

\* A rollback was tried: what it reached, and what the result says of it.
LEMMA RolledBackStep ==
    ASSUME Inv, NEW l \in Loops, loops[l].pc = "rollback",
           NEW effects \in Seq({"canary", "fleet", "rollback"}), NEW done \in BOOLEAN,
           loops[l].phase = "whole" /\ done => effects = <<"fleet", "rollback">>,
           loops[l].phase = "canary" => effects \in {<<"canary">>, <<"canary", "rollback">>},
           Ends(l, RolledBack(loops[l].phase, done), effects, FALSE),
           UNCHANGED <<locks, now, issued>>, Acts(l),
           loops[l].request.target = "kubernetes" /\ done =>
                Current(cluster'[loops[l].request.service]).memory = "previous"
    PROVE  Inv'
<1>1. /\ Started(l) /\ loops[l] \in Loop /\ Traced(loops[l]) /\ Executing(l)
      /\ loops[l].phase \in Phase
  BY AtLoop DEF Executing, Loop
<1>2. PICK status, verified :
        status = RolledBack(loops[l].phase, done) /\ verified = FALSE
  OBVIOUS
<1>3. /\ status \in Status /\ verified \in BOOLEAN
      /\ status \in {"rolled_back", "escalate"}
      /\ status = "rolled_back" =>
            loops[l].phase = "canary" \/ (loops[l].phase = "whole" /\ done)
  BY <1>1, <1>2 DEF Status, RolledBack, Phase
<1>4. Ends(l, status, effects, verified) /\ loops[l].pc # "idle"
  BY <1>2
<1>5. PICK new \in Loop :
        /\ loops' = [loops EXCEPT ![l] = new] /\ loops'[l] = new /\ Started(l)'
        /\ new.pc = "release" /\ new.status = status
        /\ new.effects = effects /\ new.phase = loops[l].phase
        /\ Kin(new, loops[l])
  BY <1>3, <1>4, EndsFields
<1>6. new.request = loops[l].request
  BY <1>5 DEF Kin
<1>7. Traced(new)
  BY <1>1, <1>5, <1>6 DEF Traced, Before
<1>8. (loops[l].phase = "whole") <=> ~new.request.canary
  BY <1>1, <1>6 DEF Traced
<1>9. CASE new.status # "rolled_back"
  <2>1. Told(new)
    BY <1>3, <1>5, <1>9 DEF Told
  <2>2. LookedAt(l)' /\ Sandboxed(l)'
    BY <1>5, <1>9 DEF LookedAt, Undisturbed, Sandboxed
  <2>3. new.pc \in Busy
    BY <1>5 DEF Busy
  <2> QED  BY <1>1, <1>5, <1>7, <2>1, <2>2, <2>3, ActStep
<1>10. CASE new.status = "rolled_back" /\ loops[l].phase = "canary"
  <2>1. \A i \in 1..Len(effects) : effects[i] # "fleet"
    BY <1>10
  <2>2. new.request.canary
    BY <1>8, <1>10
  <2>3. Told(new)
    BY <1>5, <1>10, <2>1, <2>2 DEF Told
  <2>4. LookedAt(l)' /\ Sandboxed(l)'
    BY <1>5, <2>2 DEF LookedAt, Undisturbed, Sandboxed
  <2>5. new.pc \in Busy
    BY <1>5 DEF Busy
  <2> QED  BY <1>1, <1>5, <1>7, <2>3, <2>4, <2>5, ActStep
<1>11. CASE new.status = "rolled_back" /\ loops[l].phase = "whole" /\ done
  <2>1. effects = <<"fleet", "rollback">> /\ ~new.request.canary
    BY <1>8, <1>11
  <2>2. Len(new.effects) = 2 /\ new.effects[Len(new.effects)] = "rollback"
    BY <1>5, <2>1
  <2>3. Told(new)
    BY <1>5, <1>11, <2>1, <2>2 DEF Told
  <2>4. new.request.target = "kubernetes" =>
            Current(cluster'[new.request.service]).memory = "previous"
    BY <1>6, <1>11
  <2>5. LookedAt(l)'
    BY <1>5, <2>4 DEF LookedAt, Undisturbed
  <2>6. Sandboxed(l)'
    BY <1>5 DEF Sandboxed
  <2>7. new.pc \in Busy
    BY <1>5 DEF Busy
  <2> QED  BY <1>1, <1>5, <1>7, <2>3, <2>5, <2>6, <2>7, ActStep
<1> QED  BY <1>3, <1>5, <1>9, <1>10, <1>11

\* A second effect after the first.
LEMMA AppendTwo ==
    ASSUME NEW a, NEW b, NEW e \in Seq({a, b}), e = <<a>>
    PROVE  Append(e, b) = <<a, b>>
<1>1. Len(e) = 1 /\ e[1] = a
  OBVIOUS
<1>2. /\ Append(e, b) \in Seq({a, b}) /\ Len(Append(e, b)) = 2
      /\ Append(e, b)[1] = a /\ Append(e, b)[2] = b
  BY <1>1
<1>3. PICK f : f = Append(e, b)
  OBVIOUS
<1>4. f \in Seq({a, b}) /\ Len(f) = 2 /\ f[1] = a /\ f[2] = b
  BY <1>2, <1>3
<1>5. f = <<a, b>>
  BY <1>4
<1> QED  BY <1>3, <1>5

\* The adapter rolls back, raises, or has nothing to roll back to.
LEMMA RollbackKeeps ==
    ASSUME Inv, NEW l \in Loops, Rollback(l)
    PROVE  Inv'
<1>1. loops[l].pc = "rollback" /\ UNCHANGED <<locks, now, issued>>
  BY DEF Rollback
<1>2. /\ loops[l] \in Loop /\ Traced(loops[l]) /\ loops[l].request \in Request
      /\ loops[l].effects \in Seq({"canary", "fleet", "rollback"})
  BY <1>1, AtLoop DEF Loop
<1>3. /\ loops[l].phase = "whole" => loops[l].effects = <<"fleet">>
      /\ loops[l].phase = "canary" => loops[l].effects = <<"canary">>
  BY <1>1, <1>2 DEF Traced
<1>4. CASE \E d \in Restorations(l), done \in BOOLEAN :
             /\ Put(l, d)
             /\ Ends(l, RolledBack(loops[l].phase, done),
                     Append(loops[l].effects, "rollback"), FALSE)
  <2>1. PICK d \in Restorations(l), done \in BOOLEAN :
          /\ Put(l, d)
          /\ Ends(l, RolledBack(loops[l].phase, done),
                  Append(loops[l].effects, "rollback"), FALSE)
    BY <1>4
  <2>2. PICK effects : effects = Append(loops[l].effects, "rollback")
    OBVIOUS
  <2>3. /\ effects \in Seq({"canary", "fleet", "rollback"})
        /\ loops[l].phase = "whole" => effects = <<"fleet", "rollback">>
        /\ loops[l].phase = "canary" => effects = <<"canary", "rollback">>
    <3>1. effects \in Seq({"canary", "fleet", "rollback"})
      BY <1>2, <2>2
    <3>2. ASSUME NEW first \in {"fleet", "canary"}, loops[l].effects = <<first>>
          PROVE  effects = <<first, "rollback">>
      <4>1. PICK last : last = "rollback"
        OBVIOUS
      <4>2. PICK e : e = loops[l].effects
        OBVIOUS
      <4>3. e \in Seq({first, last}) /\ e = <<first>> /\ effects = Append(e, last)
        BY <2>2, <3>2, <4>1, <4>2
      <4>4. effects = <<first, last>>
        BY <4>3, AppendTwo
      <4> QED  BY <4>1, <4>4
    <3>3. loops[l].phase = "whole" => effects = <<"fleet", "rollback">>
      BY <1>3, <3>2
    <3>4. loops[l].phase = "canary" => effects = <<"canary", "rollback">>
      BY <1>3, <3>2
    <3> QED  BY <3>1, <3>3, <3>4
  <2>4. d \in Deployment
    BY <1>2, RestorationsType DEF Inv
  <2>5. Acts(l) /\ (~Rehearses(l) => cluster'[loops[l].request.service] = d)
    BY <1>2, <2>1, <2>4, PutActs DEF Inv
  <2>6. loops[l].request.target = "kubernetes" =>
            Current(cluster'[loops[l].request.service]).memory = "previous"
    <3> SUFFICES ASSUME loops[l].request.target = "kubernetes"
                 PROVE  Current(cluster'[loops[l].request.service]).memory = "previous"
      OBVIOUS
    <3>1. d \in Restored(loops[l].request.runbook.rollback, Seen(l))
      BY DEF Restorations
    <3>2. Current(d).memory = "previous"
      BY <1>2, <3>1, SeenType, RestoredTypes DEF Inv
    <3> QED  BY <2>5, <3>2 DEF Rehearses
  <2>7. Ends(l, RolledBack(loops[l].phase, done), effects, FALSE)
    BY <2>1, <2>2
  <2> QED  BY <1>1, <2>3, <2>5, <2>6, <2>7, RolledBackStep
<1>5. CASE /\ Ends(l, RolledBack(loops[l].phase, FALSE), loops[l].effects, FALSE)
           /\ UNCHANGED kubernetes
  <2>1. Acts(l)
    BY <1>5, IdleScene
  <2>2. PICK effects, done : effects = loops[l].effects /\ done = FALSE
    OBVIOUS
  <2>3. /\ Ends(l, RolledBack(loops[l].phase, done), effects, FALSE)
        /\ effects \in Seq({"canary", "fleet", "rollback"})
        /\ done \in BOOLEAN /\ ~done
        /\ loops[l].phase = "canary" => effects \in {<<"canary">>, <<"canary", "rollback">>}
    BY <1>2, <1>3, <1>5, <2>2
  <2> QED  BY <1>1, <2>1, <2>3, RolledBackStep
<1> QED  BY <1>4, <1>5 DEF Rollback

-----------------------------------------------------------------------------
(* The sandbox of a rehearsal *)

\* Only the rehearsal's own sandbox is touched.
OwnSandbox(l) ==
    /\ twins' \in [Loops -> Deployment] /\ sandboxes' \subseteq Loops
    /\ \A m \in Loops \ {l} :
        twins'[m] = twins[m] /\ (m \in sandboxes' <=> m \in sandboxes)

\* A step that makes or destroys the sandbox of a rehearsal.
LEMMA SandboxStep ==
    ASSUME Inv, NEW l \in Loops, loops[l].pc \in {"provision", "destroy"},
           NEW new \in Loop, loops' = [loops EXCEPT ![l] = new],
           UNCHANGED <<locks, now, cluster, pod_changes, stirred, issued>>, OwnSandbox(l),
           Kin(new, loops[l]), new.effects = loops[l].effects,
           new.pc \in {"enter", "done"}, Traced(new), Told(new), Placed(new), Sandboxed(l)'
    PROVE  Inv'
<1>1. /\ Started(l) /\ Gated(loops[l]) /\ loops[l].moment <= now
  BY AtLoop
<1>2. Gated(new)
  BY <1>1, KinGated DEF After
<1>3. /\ new.request = loops[l].request /\ new.moment = loops[l].moment
      /\ new.moment <= now /\ new.pc # "insert" /\ new.pc \notin Busy /\ ~Executing(l)
  BY <1>1 DEF Kin, Busy, Executing
<1>4. loops' \in [Loops -> Loop \union {Idle}] /\ loops'[l] = new
  BY OthersStay DEF Inv
<1>5. TypeOK'
  BY <1>4 DEF Inv, TypeOK, locks, OwnSandbox
<1>6. LoopInv'
  BY <1>2, <1>3, LoopStep DEF Inv
<1>7. IssuedInv'
  BY <1>1, <1>3, IssuedStep DEF Inv
<1>8. LeaseInv'
  BY <1>3, LeaseStep DEF Inv, locks
<1>9. LookedAt(l)'
  BY <1>4 DEF LookedAt, Undisturbed
<1>10. Stirring(l)
  BY DEF Stirring
<1>11. SceneInv'
  BY <1>9, <1>10, SceneStep DEF Inv, OwnSandbox
<1> QED  BY <1>5, <1>6, <1>7, <1>8, <1>11 DEF Inv

\* A rehearsal whose sandbox cannot be made or destroyed raises.
LEMMA RaisedStep ==
    ASSUME Inv, NEW l \in Loops, loops[l].pc \in {"provision", "destroy"},
           loops' = [loops EXCEPT ![l].pc = "done", ![l].status = "raised"],
           UNCHANGED <<locks, now, cluster, pod_changes, stirred, issued>>, OwnSandbox(l)
    PROVE  Inv'
<1>1. /\ Started(l) /\ loops[l] \in Loop /\ Traced(loops[l]) /\ Placed(loops[l])
  BY AtLoop
<1>2. PICK new : new = [loops[l] EXCEPT !.pc = "done", !.status = "raised"]
  OBVIOUS
<1>3. /\ new \in Loop /\ loops' = [loops EXCEPT ![l] = new]
      /\ new.pc = "done" /\ new.status = "raised"
      /\ new.effects = loops[l].effects /\ new.phase = loops[l].phase
      /\ new.request = loops[l].request /\ new.moment = loops[l].moment
      /\ new.switched = loops[l].switched /\ new.answered = loops[l].answered
  BY <1>1, <1>2 DEF Loop, Status, Inv, TypeOK
<1>4. loops'[l] = new /\ Started(l)'
  BY <1>3, OthersStay DEF Inv
<1>5. Kin(new, loops[l])
  BY <1>3 DEF Kin
<1>6. new.request.target = "twin"
  BY <1>1, <1>3 DEF Placed
<1>7. Traced(new)
  BY <1>1, <1>3 DEF Traced, Before
<1>8. Told(new) /\ Placed(new)
  BY <1>1, <1>3, <1>6 DEF Told, Placed
<1>9. Sandboxed(l)'
  BY <1>3, <1>4 DEF Sandboxed
<1> QED  BY <1>3, <1>5, <1>7, <1>8, <1>9, SandboxStep

\* The sandbox is made, or not, or is left behind.
LEMMA ProvisionKeeps ==
    ASSUME Inv, NEW l \in Loops, Provision(l)
    PROVE  Inv'
<1>1. /\ loops[l].pc = "provision"
      /\ UNCHANGED <<locks, now, cluster, pod_changes, stirred, issued>>
  BY DEF Provision
<1>2. /\ Started(l) /\ loops[l] \in Loop /\ Traced(loops[l]) /\ Placed(loops[l])
      /\ loops[l].request.service \in Services
  BY <1>1, AtLoop DEF Loop, Request
<1>3. PICK source : source = cluster[loops[l].request.service]
  OBVIOUS
<1>4. source \in Deployment
  BY <1>2, <1>3 DEF Inv, TypeOK
<1>5. CASE /\ Exists(source)
           /\ \E pods \in PodStates : twins' = [twins EXCEPT ![l] = Clone(source, pods)]
           /\ sandboxes' = sandboxes \union {l}
           /\ Goto(l, "enter")
  <2>1. PICK pods \in PodStates : twins' = [twins EXCEPT ![l] = Clone(source, pods)]
    BY <1>5
  <2>2. Clone(source, pods) \in Deployment /\ Exists(Clone(source, pods))
    BY <1>4, <1>5, CloneTypes, ControlLoopConstants
  <2>3. OwnSandbox(l) /\ l \in sandboxes' /\ Exists(twins'[l])
    BY <1>5, <2>1, <2>2 DEF OwnSandbox, Inv, TypeOK
  <2>4. PICK new \in Loop :
          /\ loops' = [loops EXCEPT ![l] = new] /\ loops'[l] = new /\ Started(l)'
          /\ new.pc = "enter" /\ new.status = loops[l].status
          /\ new.effects = loops[l].effects /\ new.phase = loops[l].phase
          /\ Kin(new, loops[l])
    BY <1>1, <1>5, GotoFields
  <2>5. new.request = loops[l].request
    BY <2>4 DEF Kin
  <2>6. new.effects = <<>> /\ new.phase # "fleet" /\ new.status = "none"
    BY <1>1, <1>2, <2>4 DEF Traced, Before
  <2>7. Traced(new) /\ Told(new) /\ Placed(new)
    BY <1>2, <2>4, <2>5, <2>6 DEF Traced, Told, Placed, Before
  <2>8. Sandboxed(l)'
    BY <2>3, <2>4 DEF Sandboxed
  <2> QED  BY <1>1, <2>3, <2>4, <2>7, <2>8, SandboxStep
<1>6. CASE /\ \E left \in SUBSET {l} : sandboxes' = sandboxes \union left
           /\ loops' = [loops EXCEPT ![l].pc = "done", ![l].status = "raised"]
           /\ UNCHANGED twins
  <2>1. OwnSandbox(l)
    BY <1>6 DEF OwnSandbox, Inv, TypeOK
  <2> QED  BY <1>1, <1>6, <2>1, RaisedStep
<1> QED  BY <1>3, <1>5, <1>6 DEF Provision

\* The finally clause of a rehearsal.
LEMMA DestroyKeeps ==
    ASSUME Inv, NEW l \in Loops, Destroy(l)
    PROVE  Inv'
<1>1. /\ loops[l].pc = "destroy"
      /\ UNCHANGED <<locks, now, cluster, pod_changes, stirred, issued>>
  BY DEF Destroy
<1>2. /\ Started(l) /\ loops[l] \in Loop /\ Traced(loops[l]) /\ Told(loops[l])
      /\ Placed(loops[l])
  BY <1>1, AtLoop
<1>3. CASE /\ Goto(l, "done")
           /\ sandboxes' = sandboxes \ {l}
           /\ twins' = [twins EXCEPT ![l] = NoDeployment]
  <2>1. OwnSandbox(l) /\ NoSandbox(l)'
    BY <1>3, NoDeploymentType DEF OwnSandbox, NoSandbox, Inv, TypeOK
  <2>2. PICK new \in Loop :
          /\ loops' = [loops EXCEPT ![l] = new] /\ loops'[l] = new /\ Started(l)'
          /\ new.pc = "done" /\ new.status = loops[l].status
          /\ new.effects = loops[l].effects /\ new.phase = loops[l].phase
          /\ new.verified = loops[l].verified /\ Kin(new, loops[l])
    BY <1>1, <1>3, GotoFields
  <2>3. new.request = loops[l].request /\ new.moment = loops[l].moment
    BY <2>2 DEF Kin
  <2>4. Traced(new)
    BY <1>2, <2>2, <2>3 DEF Traced, Before
  <2>5. Told(new)
    BY <1>2, <2>2, <2>3 DEF Told
  <2>6. Placed(new)
    BY <1>2, <2>2, <2>3 DEF Placed
  <2>7. Sandboxed(l)'
    BY <2>1, <2>2 DEF Sandboxed
  <2> QED  BY <1>1, <2>1, <2>2, <2>4, <2>5, <2>6, <2>7, SandboxStep
<1>4. CASE /\ loops' = [loops EXCEPT ![l].pc = "done", ![l].status = "raised"]
           /\ UNCHANGED <<sandboxes, twins>>
  <2>1. OwnSandbox(l)
    BY <1>4 DEF OwnSandbox, Inv, TypeOK
  <2> QED  BY <1>1, <1>4, <2>1, RaisedStep
<1> QED  BY <1>3, <1>4 DEF Destroy

-----------------------------------------------------------------------------
(* The lock manager *)

\* What acquire may leave of the leases: those unexpired by the loop's own
\* moment, or all of them when it trips.
Pruned(l) == {x \in leases : x.expires_at > loops[l].moment}

Contenders(l) == {m \in Loops \ {l} : loops[m].pc = "insert"}

\* A loop whose time by its own lease is not over keeps it, whoever prunes.
LEMMA PruneKeeps ==
    ASSUME Inv, NEW l \in Loops, loops[l].pc = "scan", NEW m \in Loops,
           Executing(m), loops[m].request.managed
    PROVE  Overran(m) \/ LeaseOf(m) \in Pruned(l)
<1>1. loops[l].moment \in Nat /\ now \in Nat /\ loops[l].moment <= now
  BY AtLoop
<1>2. loops[m].pc # "idle"
  BY DEF Executing
<1>3. loops[m].moment \in Nat
  BY <1>2, AtLoop
<1>4. TTL \in Nat
  BY ControlLoopConstants
<1>5. Overran(m) \/ LeaseOf(m) \in leases
  BY DEF Inv, LeaseInv
<1>6. LeaseOf(m).expires_at = loops[m].moment + TTL
  BY DEF LeaseOf
<1>7. CASE loops[m].moment + TTL > loops[l].moment
  BY <1>5, <1>6, <1>7 DEF Pruned
<1>8. CASE ~(loops[m].moment + TTL > loops[l].moment)
  <2>1. loops[m].moment + TTL <= now
    BY <1>1, <1>3, <1>4, <1>8
  <2> QED  BY <2>1 DEF Overran
<1> QED  BY <1>7, <1>8

\* The first half of acquire: pruning by an old moment drops only leases that
\* ran out, and a loop that found no conflict overlaps nobody within its time
\* but those that were acquiring too.
LEMMA ScanLeases ==
    ASSUME Inv, NEW l \in Loops, loops[l].pc = "scan", NEW new \in Loop,
           loops' = [loops EXCEPT ![l] = new], UNCHANGED now,
           new.request = loops[l].request, new.moment = loops[l].moment,
           new.pc \in {"insert", "destroy", "done"},
           leases' = Pruned(l) \/ leases' = leases,
           new.pc = "insert" => \A x \in Pruned(l) : ~Conflicts(l, x),
           raced \subseteq raced',
           \A m \in Contenders(l) : {l, m} \subseteq raced'
    PROVE  LeaseInv'
<1>1. /\ loops'[l] = new
      /\ \A m \in Loops \ {l} : loops'[m] = loops[m]
  BY OthersStay DEF Inv
<1>2. ~Executing(l) /\ ~Executing(l)'
  BY <1>1 DEF Executing
<1>3. \A x \in leases : x \in Lease /\ x.loop \in Loops
  BY DEF Inv, TypeOK, Lease
<1>4. ASSUME NEW m \in Loops
      PROVE  /\ Executing(m)' <=> Executing(m)
             /\ LeaseOf(m)' = LeaseOf(m) /\ (Overran(m)' <=> Overran(m))
             /\ loops'[m].request = loops[m].request
  BY <1>1, <1>2 DEF Executing, LeaseOf, Overran
<1>5. leases' \subseteq leases
  BY DEF Pruned
<1>6. \A x \in leases' : Executing(x.loop)' /\ x = LeaseOf(x.loop)'
  <2> SUFFICES ASSUME NEW x \in leases' PROVE Executing(x.loop)' /\ x = LeaseOf(x.loop)'
    OBVIOUS
  <2>1. PICK m \in Loops : m = x.loop
    BY <1>3, <1>5
  <2>2. Executing(m) /\ x = LeaseOf(m)
    BY <1>5, <2>1 DEF Inv, LeaseInv
  <2>3. Executing(m)' /\ x = LeaseOf(m)'
    BY <1>4, <2>2
  <2> QED  BY <2>1, <2>3 DEF Executing, LeaseOf
<1>7. \A m \in Loops :
        Executing(m)' /\ loops'[m].request.managed => Overran(m)' \/ LeaseOf(m)' \in leases'
  <2> SUFFICES ASSUME NEW m \in Loops, Executing(m)', loops'[m].request.managed
               PROVE  Overran(m)' \/ LeaseOf(m)' \in leases'
    OBVIOUS
  <2>1. Executing(m) /\ loops[m].request.managed
    BY <1>4
  <2>2. Overran(m) \/ LeaseOf(m) \in Pruned(l)
    BY <2>1, PruneKeeps
  <2>3. Overran(m) \/ LeaseOf(m) \in leases'
    BY <2>2 DEF Pruned
  <2> QED  BY <1>4, <2>3
<1>8. ASSUME NEW m \in Loops \ {l}, Acquired(m), Overlap(l, m), new.pc = "insert"
      PROVE  Overran(m) \/ {l, m} \subseteq raced'
  <2>1. CASE loops[m].pc = "insert"
    BY <2>1 DEF Contenders
  <2>2. CASE loops[m].pc # "insert"
    <3>1. Executing(m) /\ loops[m].request.managed
      BY <1>8, <2>2 DEF Acquired, Executing, Busy
    <3>2. Overran(m) \/ LeaseOf(m) \in Pruned(l)
      BY <3>1, PruneKeeps
    <3>3. LeaseOf(m) \notin Pruned(l)
      BY <1>8 DEF Conflicts, Overlap, LeaseOf
    <3> QED  BY <3>2, <3>3
  <2> QED  BY <2>1, <2>2
<1>9. \A k, m \in Loops : Overlap(k, m)' <=> Overlap(k, m)
  BY <1>4 DEF Overlap
<1>10. \A m \in Loops \ {l} : Acquired(m)' <=> Acquired(m)
  BY <1>1 DEF Acquired
<1>11. Acquired(l)' => new.pc = "insert"
  BY <1>1 DEF Acquired, Busy
<1>12. \A m \in Loops : Overlap(m, l) => Overlap(l, m)
  BY DEF Overlap
<1>13. ASSUME NEW k \in Loops, NEW m \in Loops,
              k # m, Acquired(k)', Acquired(m)', Overlap(k, m)'
       PROVE  Overran(k)' \/ Overran(m)' \/ {k, m} \subseteq raced'
  <2>1. Overlap(k, m)
    BY <1>9, <1>13
  <2>2. CASE k = l
    <3>1. Overran(m) \/ {l, m} \subseteq raced'
      BY <1>8, <1>10, <1>11, <1>13, <2>1, <2>2
    <3> QED  BY <1>4, <2>2, <3>1
  <2>3. CASE m = l
    <3>1. Overran(k) \/ {l, k} \subseteq raced'
      BY <1>8, <1>10, <1>11, <1>12, <1>13, <2>1, <2>3
    <3> QED  BY <1>4, <2>3, <3>1
  <2>4. CASE k # l /\ m # l
    <3>1. Acquired(k) /\ Acquired(m)
      BY <1>10, <1>13, <2>4
    <3>2. Overran(k) \/ Overran(m) \/ {k, m} \subseteq raced
      BY <1>13, <2>1, <3>1 DEF Inv, LeaseInv
    <3> QED  BY <1>4, <3>2
  <2> QED  BY <2>2, <2>3, <2>4
<1> QED  BY <1>6, <1>7, <1>13 DEF LeaseInv

\* A step of the lock manager, whose leases are accounted for.
LEMMA LockStep ==
    ASSUME Inv, NEW l \in Loops, loops[l].pc \in {"scan", "insert", "release"},
           NEW new \in Loop,
           loops' = [loops EXCEPT ![l] = new], UNCHANGED <<now, kubernetes, issued>>,
           leases' \subseteq Lease, raced' \subseteq Loops, LeaseInv',
           Kin(new, loops[l]), new.effects = loops[l].effects, new.pc # "evaluate",
           Traced(new), Told(new), Placed(new), LookedAt(l)', Sandboxed(l)'
    PROVE  Inv'
<1>1. /\ Started(l) /\ Gated(loops[l]) /\ loops[l].moment <= now
  BY AtLoop
<1>2. Gated(new)
  BY <1>1, KinGated DEF After
<1>3. new.request = loops[l].request /\ new.moment <= now
  BY <1>1 DEF Kin
<1>4. loops' \in [Loops -> Loop \union {Idle}]
  BY OthersStay DEF Inv
<1>5. TypeOK'
  BY <1>4 DEF Inv, TypeOK, kubernetes
<1>6. LoopInv'
  BY <1>2, <1>3, LoopStep DEF Inv
<1>7. IssuedInv'
  BY <1>1, <1>3, IssuedStep DEF Inv
<1>8. Stirring(l)
  BY DEF Stirring, kubernetes
<1>9. SceneInv'
  BY <1>8, SceneStep DEF Inv, kubernetes
<1> QED  BY <1>5, <1>6, <1>7, <1>9 DEF Inv

\* Acquire prunes, and goes on, defers or raises.
LEMMA ScanKeeps ==
    ASSUME Inv, NEW l \in Loops, Scan(l)
    PROVE  Inv'
<1>1. /\ loops[l].pc = "scan" /\ UNCHANGED <<now, kubernetes, issued>>
      /\ raced' = IF Contenders(l) = {} THEN raced
                  ELSE raced \union Contenders(l) \union {l}
  BY DEF Scan, Contenders
<1>2. /\ Started(l) /\ loops[l] \in Loop /\ Traced(loops[l]) /\ Placed(loops[l])
      /\ LookedAt(l) /\ Sandboxed(l) /\ loops[l].request \in Request
  BY <1>1, AtLoop
<1>3. /\ raced \subseteq raced' /\ raced' \subseteq Loops
      /\ \A m \in Contenders(l) : {l, m} \subseteq raced'
  BY <1>1 DEF Contenders, Inv, TypeOK
<1>4. loops[l].effects = <<>> /\ loops[l].phase # "fleet" /\ loops[l].status = "none"
  BY <1>1, <1>2 DEF Traced, Before
<1>5. ASSUME NEW status \in {"deferred", "raised"}, Finish(l, status),
             leases' = Pruned(l) \/ leases' = leases
      PROVE  Inv'
  <2>1. PICK new : new = [loops[l] EXCEPT !.pc = Returned(l), !.status = status]
    OBVIOUS
  <2>2. /\ new \in Loop /\ loops' = [loops EXCEPT ![l] = new]
        /\ new.pc = Returned(l) /\ new.status = status
        /\ new.effects = loops[l].effects /\ new.phase = loops[l].phase
        /\ new.request = loops[l].request /\ new.moment = loops[l].moment
        /\ new.switched = loops[l].switched /\ new.answered = loops[l].answered
    BY <1>2, <1>5, <2>1 DEF Finish, Returned, Loop, Status, Inv, TypeOK
  <2>3. /\ new.pc \in {"destroy", "done"}
        /\ new.pc = "done" <=> ~(new.request.target = "twin")
    BY <2>2 DEF Returned, Rehearses
  <2>4. loops'[l] = new /\ Started(l)'
    BY <2>2, OthersStay DEF Inv
  <2>5. LeaseInv'
    BY <1>1, <1>3, <1>5, <2>2, <2>3, ScanLeases
  <2>6. leases' \subseteq Lease
    BY <1>5 DEF Pruned, Inv, TypeOK
  <2>7. Traced(new)
    BY <1>2, <2>2, <2>3 DEF Traced, Before
  <2>8. Told(new)
    BY <1>4, <2>2 DEF Told
  <2>9. Placed(new)
    BY <1>2, <2>2, <2>3 DEF Placed
  <2>10. LookedAt(l)'
    BY <2>3, <2>4 DEF LookedAt, Undisturbed
  <2>11. Sandboxed(l)'
    BY <2>3, <2>4 DEF Sandboxed, Rehearses
  <2>12. Kin(new, loops[l]) /\ new.pc # "evaluate"
    BY <2>2, <2>3 DEF Kin
  <2> QED  BY <1>1, <1>3, <2>2, <2>5, <2>6, <2>7, <2>8, <2>9, <2>10, <2>11, <2>12,
              LockStep
<1>6. CASE /\ leases' = Pruned(l) /\ ~\E x \in Pruned(l) : Conflicts(l, x)
           /\ Goto(l, "insert")
  <2>1. PICK new \in Loop :
          /\ loops' = [loops EXCEPT ![l] = new] /\ loops'[l] = new /\ Started(l)'
          /\ new.pc = "insert" /\ new.status = loops[l].status
          /\ new.effects = loops[l].effects /\ new.phase = loops[l].phase
          /\ Kin(new, loops[l])
    BY <1>1, <1>6, GotoFields
  <2>2. new.request = loops[l].request /\ new.moment = loops[l].moment
    BY <2>1 DEF Kin
  <2>3. LeaseInv'
    BY <1>1, <1>3, <1>6, <2>1, <2>2, ScanLeases
  <2>4. leases' \subseteq Lease
    BY <1>6 DEF Pruned, Inv, TypeOK
  <2>5. Traced(new)
    BY <1>2, <1>4, <2>1, <2>2 DEF Traced, Before
  <2>6. Told(new)
    BY <1>4, <2>1 DEF Told
  <2>7. Placed(new)
    BY <1>1, <1>2, <2>1, <2>2 DEF Placed
  <2>8. LookedAt(l)'
    BY <1>1, <1>2, <2>1, <2>2 DEF LookedAt, Undisturbed, kubernetes
  <2>9. Sandboxed(l)'
    BY <1>1, <1>2, <2>1, <2>2 DEF Sandboxed, Rehearses, kubernetes
  <2>10. new.pc # "evaluate"
    BY <2>1
  <2> QED  BY <1>1, <1>3, <2>1, <2>3, <2>4, <2>5, <2>6, <2>7, <2>8, <2>9, <2>10,
              LockStep
<1>7. CASE Finish(l, "raised") /\ UNCHANGED leases
  BY <1>5, <1>7
<1>8. CASE leases' = Pruned(l) /\ Finish(l, "deferred")
  BY <1>5, <1>8
<1> QED  BY <1>6, <1>7, <1>8 DEF Scan, Pruned

\* Acquire inserts the lease it found free.
LEMMA InsertKeeps ==
    ASSUME Inv, NEW l \in Loops, Insert(l)
    PROVE  Inv'
<1>1. /\ loops[l].pc = "insert" /\ UNCHANGED <<now, raced, kubernetes, issued>>
      /\ leases' = leases \union {LeaseOf(l)} /\ Goto(l, "deploy")
  BY DEF Insert
<1>2. /\ Started(l) /\ loops[l] \in Loop /\ Traced(loops[l]) /\ Placed(loops[l])
      /\ LookedAt(l) /\ Sandboxed(l) /\ loops[l].request \in Request
  BY <1>1, AtLoop
<1>3. PICK new \in Loop :
        /\ loops' = [loops EXCEPT ![l] = new] /\ loops'[l] = new /\ Started(l)'
        /\ new.pc = "deploy" /\ new.status = loops[l].status
        /\ new.effects = loops[l].effects /\ new.phase = loops[l].phase
        /\ Kin(new, loops[l])
  BY <1>1, GotoFields
<1>4. new.request = loops[l].request /\ new.moment = loops[l].moment
  BY <1>3 DEF Kin
<1>5. new.effects = <<>> /\ new.status = "none" /\ new.phase # "fleet"
  BY <1>1, <1>2, <1>3 DEF Traced, Before
<1>6. LeaseOf(l) \in Lease
  BY <1>2, LeaseType DEF Inv
<1>7. leases' \subseteq Lease /\ raced' \subseteq Loops
  BY <1>1, <1>6 DEF Inv, TypeOK
<1>8. \A m \in Loops \ {l} : loops'[m] = loops[m]
  BY <1>3, OthersStay DEF Inv
<1>9. LeaseInv'
  <2>1. ASSUME NEW m \in Loops
        PROVE  /\ LeaseOf(m)' = LeaseOf(m) /\ (Overran(m)' <=> Overran(m))
               /\ loops'[m].request = loops[m].request
               /\ Executing(m) => Executing(m)'
               /\ m # l /\ Executing(m)' => Executing(m)
    <3>1. loops'[m].request = loops[m].request /\ loops'[m].moment = loops[m].moment
      BY <1>3, <1>4, <1>8
    <3>2. LeaseOf(m)' = LeaseOf(m) /\ (Overran(m)' <=> Overran(m))
      BY <1>1, <3>1 DEF LeaseOf, Overran
    <3>3. Executing(m) => Executing(m)'
      BY <1>3, <1>8 DEF Executing
    <3>4. m # l /\ Executing(m)' => Executing(m)
      BY <1>8 DEF Executing
    <3> QED  BY <3>1, <3>2, <3>3, <3>4
  <2>2. Executing(l)'
    BY <1>3 DEF Executing
  <2>3. \A x \in leases' : Executing(x.loop)' /\ x = LeaseOf(x.loop)'
    <3> SUFFICES ASSUME NEW x \in leases' PROVE Executing(x.loop)' /\ x = LeaseOf(x.loop)'
      OBVIOUS
    <3>1. PICK m : m = x.loop
      OBVIOUS
    <3>2. m \in Loops /\ x = LeaseOf(m) /\ Executing(m)'
      <4>1. CASE x \in leases
        <5>1. m \in Loops
          BY <3>1, <4>1 DEF Inv, TypeOK, Lease
        <5>2. Executing(m) /\ x = LeaseOf(m)
          BY <3>1, <4>1 DEF Inv, LeaseInv
        <5> QED  BY <2>1, <5>1, <5>2
      <4>2. CASE x = LeaseOf(l)
        <5>1. m = l
          BY <3>1, <4>2 DEF LeaseOf
        <5> QED  BY <2>2, <4>2, <5>1
      <4> QED  BY <1>1, <4>1, <4>2
    <3>3. x = LeaseOf(m)'
      BY <2>1, <3>2
    <3> QED  BY <3>1, <3>2, <3>3 DEF Executing, LeaseOf
  <2>4. \A m \in Loops :
          Executing(m)' /\ loops'[m].request.managed => Overran(m)' \/ LeaseOf(m)' \in leases'
    <3> SUFFICES ASSUME NEW m \in Loops, Executing(m)', loops'[m].request.managed
                 PROVE  Overran(m)' \/ LeaseOf(m)' \in leases'
      OBVIOUS
    <3>1. CASE m = l
      BY <1>1, <2>1, <3>1
    <3>2. CASE m # l
      <4>1. Overran(m) \/ LeaseOf(m) \in leases
        BY <2>1, <3>2 DEF Inv, LeaseInv
      <4> QED  BY <1>1, <2>1, <4>1
    <3> QED  BY <3>1, <3>2
  <2>5. \A m \in Loops : Acquired(m)' => Acquired(m)
    BY <1>1, <1>3, <1>4, <1>8 DEF Acquired
  <2>6. \A k, m \in Loops : Overlap(k, m)' <=> Overlap(k, m)
    BY <2>1 DEF Overlap
  <2>7. \A k, m \in Loops :
          k # m /\ Acquired(k)' /\ Acquired(m)' /\ Overlap(k, m)' =>
              Overran(k)' \/ Overran(m)' \/ {k, m} \subseteq raced'
    BY <1>1, <2>1, <2>5, <2>6 DEF Inv, LeaseInv
  <2> QED  BY <2>3, <2>4, <2>7 DEF LeaseInv
<1>10. Traced(new)
  BY <1>2, <1>3, <1>4, <1>5 DEF Traced, Before
<1>11. Told(new)
  BY <1>5 DEF Told
<1>12. Placed(new)
  BY <1>2, <1>3, <1>4 DEF Placed
<1>13. LookedAt(l)'
  BY <1>1, <1>2, <1>3, <1>4 DEF LookedAt, Undisturbed, kubernetes
<1>14. Sandboxed(l)'
  BY <1>1, <1>2, <1>3, <1>4 DEF Sandboxed, Rehearses, kubernetes
<1>15. new.pc # "evaluate"
  BY <1>3
<1> QED  BY <1>1, <1>3, <1>7, <1>9, <1>10, <1>11, <1>12, <1>13, <1>14, <1>15, LockStep

\* The finally clause returns the lease of its own loop.
LEMMA ReleaseKeeps ==
    ASSUME Inv, NEW l \in Loops, Release(l)
    PROVE  Inv'
<1>1. /\ loops[l].pc = "release" /\ UNCHANGED <<now, raced, kubernetes, issued>>
      /\ leases' = {x \in leases : x.loop # l}
  BY DEF Release
<1>2. /\ Started(l) /\ loops[l] \in Loop /\ Traced(loops[l]) /\ Told(loops[l])
      /\ Placed(loops[l])
  BY <1>1, AtLoop
<1>3. PICK pc \in {"destroy", "done"} :
        pc = Returned(l) /\ (pc = "done" <=> ~(loops[l].request.target = "twin"))
  BY DEF Returned, Rehearses
<1>4. PICK new \in Loop :
        /\ loops' = [loops EXCEPT ![l] = new] /\ loops'[l] = new /\ Started(l)'
        /\ new.pc = pc
        /\ new.status = loops[l].status \/ (new.status = "raised" /\ Overran(l))
        /\ new.effects = loops[l].effects /\ new.phase = loops[l].phase
        /\ new.verified = loops[l].verified /\ Kin(new, loops[l])
  <2>1. CASE Goto(l, Returned(l))
    BY <1>1, <1>3, <2>1, GotoFields
  <2>2. CASE ~Goto(l, Returned(l))
    <3>1. PICK m \in Loops \ {l} :
            loops[m].pc = "scan" /\ LeaseOf(l).expires_at <= loops[m].moment
      BY <2>2 DEF Release
    <3>2. loops[m] \in Loop /\ loops[m].moment <= now
      BY <3>1, AtLoop
    <3>3. LeaseOf(l).expires_at = loops[l].moment + TTL
      BY DEF LeaseOf
    <3>4. /\ loops[l].moment \in Nat /\ loops[m].moment \in Nat /\ now \in Nat /\ TTL \in Nat
      BY <1>2, <3>2, ControlLoopConstants DEF Loop, Inv, TypeOK
    <3>5. Overran(l)
      BY <3>1, <3>2, <3>3, <3>4 DEF Overran
    <3>6. PICK x : x = [loops[l] EXCEPT !.pc = pc, !.status = "raised"]
      OBVIOUS
    <3>7. loops' = [loops EXCEPT ![l] = x]
      BY <1>3, <2>2, <3>6 DEF Release, Finish, Inv, TypeOK
    <3>8. /\ x \in Loop /\ x.pc = pc /\ x.status = "raised"
          /\ x.effects = loops[l].effects /\ x.phase = loops[l].phase
          /\ x.verified = loops[l].verified
          /\ x.request = loops[l].request /\ x.moment = loops[l].moment
          /\ x.switched = loops[l].switched /\ x.answered = loops[l].answered
      BY <1>2, <3>6 DEF Loop, Status
    <3>9. loops'[l] = x /\ Started(l)'
      BY <3>7, <3>8, OthersStay DEF Inv
    <3> QED  BY <3>5, <3>7, <3>8, <3>9 DEF Kin
  <2> QED  BY <2>1, <2>2
<1>5. new.request = loops[l].request /\ new.moment = loops[l].moment
  BY <1>4 DEF Kin
<1>6. leases' \subseteq Lease /\ raced' \subseteq Loops
  BY <1>1 DEF Inv, TypeOK
<1>7. \A m \in Loops \ {l} : loops'[m] = loops[m]
  BY <1>4, OthersStay DEF Inv
<1>8. LeaseInv'
  <2>1. ASSUME NEW m \in Loops \ {l}
        PROVE  /\ LeaseOf(m)' = LeaseOf(m) /\ (Overran(m)' <=> Overran(m))
               /\ Executing(m)' <=> Executing(m)
               /\ Acquired(m)' <=> Acquired(m)
    BY <1>1, <1>7 DEF LeaseOf, Overran, Executing, Acquired
  <2>2. ~Executing(l)' /\ ~Acquired(l)'
    BY <1>3, <1>4 DEF Executing, Acquired, Busy
  <2>3. \A x \in leases' : Executing(x.loop)' /\ x = LeaseOf(x.loop)'
    <3> SUFFICES ASSUME NEW x \in leases' PROVE Executing(x.loop)' /\ x = LeaseOf(x.loop)'
      OBVIOUS
    <3>1. PICK m \in Loops \ {l} : m = x.loop
      BY <1>1 DEF Inv, TypeOK, Lease
    <3>2. Executing(m) /\ x = LeaseOf(m)
      BY <1>1, <3>1 DEF Inv, LeaseInv
    <3>3. Executing(m)' /\ x = LeaseOf(m)'
      BY <2>1, <3>2
    <3> QED  BY <3>1, <3>3 DEF Executing, LeaseOf
  <2>4. \A m \in Loops :
          Executing(m)' /\ loops'[m].request.managed => Overran(m)' \/ LeaseOf(m)' \in leases'
    <3> SUFFICES ASSUME NEW m \in Loops \ {l}, Executing(m)', loops'[m].request.managed
                 PROVE  Overran(m)' \/ LeaseOf(m)' \in leases'
      BY <2>2
    <3>1. Overran(m) \/ LeaseOf(m) \in leases
      BY <1>7, <2>1 DEF Inv, LeaseInv
    <3>2. LeaseOf(m).loop # l
      BY DEF LeaseOf
    <3> QED  BY <1>1, <2>1, <3>1, <3>2
  <2>5. \A k, m \in Loops :
          k # m /\ Acquired(k)' /\ Acquired(m)' /\ Overlap(k, m)' =>
              Overran(k)' \/ Overran(m)' \/ {k, m} \subseteq raced'
    <3> SUFFICES ASSUME NEW k \in Loops \ {l}, NEW m \in Loops \ {l}, k # m,
                        Acquired(k)', Acquired(m)', Overlap(k, m)'
                 PROVE  Overran(k)' \/ Overran(m)' \/ {k, m} \subseteq raced'
      BY <2>2
    <3>1. Overlap(k, m)
      BY <1>7 DEF Overlap
    <3> QED  BY <1>1, <2>1, <3>1 DEF Inv, LeaseInv
  <2> QED  BY <2>3, <2>4, <2>5 DEF LeaseInv
<1>9. Traced(new)
  BY <1>2, <1>3, <1>4, <1>5 DEF Traced, Before
<1>10. Told(new)
  <2>1. CASE new.status = loops[l].status
    BY <1>2, <1>4, <1>5, <2>1 DEF Told
  <2>2. CASE new.status = "raised" /\ Overran(l)
    BY <1>5, <2>2 DEF Told, Overran
  <2> QED  BY <1>4, <2>1, <2>2
<1>11. Placed(new)
  BY <1>2, <1>3, <1>4, <1>5 DEF Placed
<1>12. LookedAt(l)'
  BY <1>3, <1>4 DEF LookedAt, Undisturbed
<1>13. Sandboxed(l)'
  BY <1>3, <1>4, <1>5 DEF Sandboxed, Rehearses
<1>14. new.pc # "evaluate"
  BY <1>3, <1>4
<1> QED  BY <1>1, <1>4, <1>6, <1>8, <1>9, <1>10, <1>11, <1>12, <1>13, <1>14, LockStep

-----------------------------------------------------------------------------
(* A call begins, and the steps of the environment *)

\* A call begins; a certification it reads is one on file.
LEMMA StartKeeps ==
    ASSUME Inv, NEW l \in Loops, Start(l)
    PROVE  Inv'
<1>1. loops[l] = Idle /\ UNCHANGED <<locks, now, kubernetes, issued>>
  BY DEF Start
<1>2. PICK r \in RequestsOf[l] : \E claim \in Presented(r) :
        loops' = [loops EXCEPT ![l] =
            [pc |-> IF r.target = "twin" THEN "rehearse" ELSE "enter",
             request |-> [r EXCEPT !.certification = claim],
             moment |-> now, switched |-> FALSE, answered |-> LocalRevision,
             phase |-> IF r.canary THEN "canary" ELSE "whole",
             effects |-> <<>>, verified |-> FALSE, status |-> "none"]]
  BY DEF Start
<1>3. r \in Request /\ now \in Nat
  BY ControlLoopConstants DEF Inv, TypeOK
<1>4. PICK claim \in Presented(r) :
        loops' = [loops EXCEPT ![l] =
            [pc |-> IF r.target = "twin" THEN "rehearse" ELSE "enter",
             request |-> [r EXCEPT !.certification = claim],
             moment |-> now, switched |-> FALSE, answered |-> LocalRevision,
             phase |-> IF r.canary THEN "canary" ELSE "whole",
             effects |-> <<>>, verified |-> FALSE, status |-> "none"]]
  BY <1>2
<1>5. claim \in CertificationClaim
  <2>1. r.certification \in CertificationClaim
    BY <1>3 DEF Request
  <2>2. \A i \in issued : i.claim \in CertificationClaim
    BY DEF Inv, TypeOK
  <2> QED  BY <2>1, <2>2 DEF Presented
<1>6. PICK q : q = [r EXCEPT !.certification = claim]
  OBVIOUS
<1>7. /\ q \in Request /\ q.certification = claim
      /\ q.target = r.target /\ q.canary = r.canary /\ q.managed = r.managed
      /\ q.loads = r.loads
  BY <1>3, <1>5, <1>6 DEF Request
<1>8. PICK pc, phase :
        /\ pc = IF r.target = "twin" THEN "rehearse" ELSE "enter"
        /\ phase = IF r.canary THEN "canary" ELSE "whole"
  OBVIOUS
<1>9. PICK new : new =
        [pc |-> pc, request |-> q, moment |-> now, switched |-> FALSE,
         answered |-> LocalRevision, phase |-> phase,
         effects |-> <<>>, verified |-> FALSE, status |-> "none"]
  OBVIOUS
<1>10. loops' = [loops EXCEPT ![l] = new]
  BY <1>4, <1>6, <1>8, <1>9
<1>11. /\ pc \in {"rehearse", "enter"} /\ (pc = "rehearse" <=> r.target = "twin")
       /\ phase \in {"canary", "whole"} /\ (phase = "whole" <=> ~r.canary)
  BY <1>8
<1>12. new \in Loop
  BY <1>3, <1>7, <1>9, <1>11 DEF Loop, Phase, Status
<1>13. /\ new.pc = pc /\ new.request = q /\ new.moment = now /\ new.phase = phase
       /\ new.effects = <<>> /\ new.status = "none"
  BY <1>9
<1>14. new.moment <= now
  BY <1>3, <1>13
<1>15. Gated(new)
  BY <1>11, <1>13 DEF Gated, After
<1>16. Traced(new)
  BY <1>7, <1>11, <1>13 DEF Traced, Before
<1>17. Told(new)
  BY <1>13 DEF Told
<1>18. Placed(new)
  <2>1. r.target = "twin" => ~r.canary /\ ~r.managed
    BY ControlLoopConstants
  <2> QED  BY <1>7, <1>11, <1>13, <2>1 DEF Placed
<1>19. /\ loops'[l] = new /\ Started(l)'
       /\ \A m \in Loops \ {l} : loops'[m] = loops[m] /\ (Started(m)' <=> Started(m))
       /\ loops' \in [Loops -> Loop \union {Idle}]
  BY <1>10, <1>12, OthersStay DEF Inv
<1>20. TypeOK'
  BY <1>1, <1>19 DEF Inv, TypeOK, locks, kubernetes
<1>21. LoopInv'
  BY <1>1, <1>10, <1>12, <1>14, <1>15, <1>16, <1>17, <1>18, LoopStep DEF Inv
<1>22. IssuedInv'
  <2>1. q.loads /\ q.certification.present => \E i \in issued : i.claim = q.certification
    <3> SUFFICES ASSUME q.loads, q.certification.present
                 PROVE  \E i \in issued : i.claim = q.certification
      OBVIOUS
    <3>1. ~r.certification.present
      BY <1>7, ControlLoopConstants
    <3>2. claim \in {i.claim : i \in issued}
      BY <1>7, <3>1 DEF Presented
    <3> QED  BY <1>7, <3>2
  <2> QED  BY <1>1, <1>13, <1>19, <2>1 DEF Inv, IssuedInv
<1>23. LeaseInv'
  <2>1. ~Executing(l)
    BY <1>1 DEF Executing, Idle
  <2>2. new.pc \notin Busy /\ new.pc # "insert"
    BY <1>11, <1>13 DEF Busy
  <2> QED  BY <1>1, <1>10, <1>12, <2>1, <2>2, LeaseStep DEF Inv, locks
<1>24. SceneInv'
  <2>1. LookedAt(l)'
    BY <1>11, <1>13, <1>19 DEF LookedAt, Undisturbed
  <2>2. NoSandbox(l)
    BY <1>1 DEF Inv, SceneInv, Sandboxed, Started
  <2>3. NoSandbox(l)'
    BY <1>1, <2>2 DEF NoSandbox, kubernetes
  <2>4. Sandboxed(l)'
    BY <1>7, <1>11, <1>13, <1>19, <2>3 DEF Sandboxed, Rehearses
  <2>5. Stirring(l)
    BY <1>1 DEF Stirring, kubernetes
  <2> QED  BY <1>1, <1>10, <1>12, <2>1, <2>4, <2>5, SceneStep DEF Inv, kubernetes
<1> QED  BY <1>20, <1>21, <1>22, <1>23, <1>24 DEF Inv

\* A certification is filed for a promotion that passed every check.
LEMMA CertifyKeeps ==
    ASSUME Inv, NEW p \in Promotable, CertifyScope(p)
    PROVE  Inv'
<1>1. /\ issued' = issued \union {[claim |-> RecordOf(p, now), promotion |-> p]}
      /\ UNCHANGED <<loops, locks, now, kubernetes>>
  BY DEF CertifyScope
<1>2. now \in Nat /\ p \in Promotions
  BY DEF Inv, TypeOK, Promotable
<1>3. RecordOf(p, now) \in CertificationClaim
  BY <1>2, RecordOfType
<1>4. TypeOK'
  BY <1>1, <1>2, <1>3 DEF Inv, TypeOK, locks, kubernetes
<1>5. LoopInv'
  BY <1>1 DEF Inv, LoopInv, Told, Started
<1>6. IssuedInv'
  <2>1. ASSUME NEW i \in issued'
        PROVE  /\ i.promotion \in Promotable
               /\ \E t \in 0..now : i.claim = RecordOf(i.promotion, t)
    <3>1. CASE i \in issued
      BY <3>1 DEF Inv, IssuedInv
    <3>2. CASE i = [claim |-> RecordOf(p, now), promotion |-> p]
      BY <1>2, <3>2
    <3> QED  BY <1>1, <3>1, <3>2
  <2>2. issued \subseteq issued'
    BY <1>1
  <2> QED  BY <1>1, <2>1, <2>2 DEF Inv, IssuedInv, Started
<1>7. LeaseInv'
  BY <1>1 DEF Inv, LeaseInv, Executing, LeaseOf, Overran, Acquired, Overlap, locks
<1>8. SceneInv'
  BY <1>1 DEF Inv, SceneInv, LookedAt, Sandboxed, Undisturbed, NoSandbox, Started,
              Rehearses, kubernetes
<1> QED  BY <1>4, <1>5, <1>6, <1>7, <1>8 DEF Inv

\* Time passes: leases run out and never come back.
LEMMA TickKeeps ==
    ASSUME Inv, Tick
    PROVE  Inv'
<1>1. now' = now + 1 /\ UNCHANGED <<loops, locks, kubernetes, issued>>
  BY DEF Tick
<1>2. now \in Nat /\ now' \in Nat /\ TTL \in Nat
  BY <1>1, ControlLoopConstants DEF Inv, TypeOK
<1>3. ASSUME NEW l \in Loops, Started(l)
      PROVE  loops[l].moment \in Nat /\ (Overran(l) => Overran(l)')
  <2>1. loops[l].moment \in Nat
    BY <1>3 DEF Inv, TypeOK, Started, Loop
  <2> QED  BY <1>1, <1>2, <2>1 DEF Overran
<1>4. TypeOK'
  BY <1>1, <1>2 DEF Inv, TypeOK, locks, kubernetes
<1>5. LoopInv'
  <2> SUFFICES ASSUME NEW l \in Loops, Started(l)
               PROVE  /\ loops[l].moment <= now'
                      /\ Gated(loops[l]) /\ Traced(loops[l]) /\ Told(loops[l])'
                      /\ Placed(loops[l])
    BY <1>1 DEF LoopInv, Started
  <2>1. loops[l].moment <= now /\ Told(loops[l])
    BY DEF Inv, LoopInv
  <2>2. loops[l].moment <= now'
    BY <1>1, <1>2, <1>3, <2>1
  <2>3. loops[l].moment + TTL <= now => loops[l].moment + TTL <= now'
    BY <1>1, <1>2, <1>3
  <2>4. Told(loops[l])'
    BY <1>1, <2>1, <2>3 DEF Told
  <2> QED  BY <2>2, <2>4 DEF Inv, LoopInv
<1>6. IssuedInv'
  <2>1. \A t \in 0..now : t \in 0..now'
    BY <1>1, <1>2
  <2> QED  BY <1>1, <2>1 DEF Inv, IssuedInv, Started
<1>7. LeaseInv'
  <2>1. \A l \in Loops : Executing(l) \/ Acquired(l) => Started(l)
    BY DEF Executing, Acquired, Busy, Started, Idle
  <2>2. \A x \in leases' : Executing(x.loop)' /\ x = LeaseOf(x.loop)'
    BY <1>1 DEF Inv, LeaseInv, Executing, LeaseOf, locks
  <2>3. \A l \in Loops :
          /\ (Executing(l)' <=> Executing(l)) /\ (Acquired(l)' <=> Acquired(l))
          /\ LeaseOf(l)' = LeaseOf(l)
    BY <1>1 DEF Executing, Acquired, LeaseOf
  <2>4. \A l \in Loops :
          Executing(l)' /\ loops'[l].request.managed => Overran(l)' \/ LeaseOf(l)' \in leases'
    BY <1>1, <1>3, <2>1, <2>3 DEF Inv, LeaseInv, locks
  <2>5. ASSUME NEW l \in Loops, NEW m \in Loops,
               l # m, Acquired(l)', Acquired(m)', Overlap(l, m)'
        PROVE  Overran(l)' \/ Overran(m)' \/ {l, m} \subseteq raced'
    <3>1. Acquired(l) /\ Acquired(m) /\ Overlap(l, m)
      BY <1>1, <2>3, <2>5 DEF Overlap
    <3>2. Overran(l) \/ Overran(m) \/ {l, m} \subseteq raced
      BY <2>5, <3>1 DEF Inv, LeaseInv
    <3> QED  BY <1>1, <1>3, <2>1, <3>1, <3>2 DEF locks
  <2> QED  BY <2>2, <2>4, <2>5 DEF LeaseInv
<1>8. SceneInv'
  BY <1>1 DEF Inv, SceneInv, LookedAt, Sandboxed, Undisturbed, NoSandbox, Started,
              Rehearses, kubernetes
<1> QED  BY <1>4, <1>5, <1>6, <1>7, <1>8 DEF Inv

\* Pods that report something else stir every loop that looked at them.
LEMMA PodsKeep ==
    ASSUME Inv, PodsChange
    PROVE  Inv'
<1>1. /\ pod_changes < MaxPodChanges /\ pod_changes' = pod_changes + 1
      /\ UNCHANGED <<loops, locks, now, sandboxes, issued>>
  BY DEF PodsChange
<1>2. pod_changes' \in 0..MaxPodChanges
  BY <1>1, ControlLoopConstants DEF Inv, TypeOK
<1>3. LoopInv'
  BY <1>1 DEF Inv, LoopInv, Told, Started
<1>4. IssuedInv'
  BY <1>1 DEF Inv, IssuedInv, Started
<1>5. LeaseInv'
  BY <1>1 DEF Inv, LeaseInv, Executing, LeaseOf, Overran, Acquired, Overlap, locks
<1>6. CASE \E s \in Services, pods \in PodStates :
            /\ Exists(cluster[s]) /\ pods # cluster[s].pods
            /\ cluster' = [cluster EXCEPT ![s].pods = pods]
            /\ stirred' = stirred \union Onlookers(s, {})
            /\ UNCHANGED twins
  <2>1. PICK s \in Services, pods \in PodStates :
            /\ cluster' = [cluster EXCEPT ![s].pods = pods]
            /\ stirred' = stirred \union Onlookers(s, {})
            /\ UNCHANGED twins
    BY <1>6
  <2>2. PICK d : d = [cluster[s] EXCEPT !.pods = pods]
    OBVIOUS
  <2>3. cluster[s] \in Deployment /\ pods \in Pods
    BY ControlLoopConstants DEF Inv, TypeOK
  <2>4. d \in Deployment
    BY <2>2, <2>3 DEF Deployment
  <2>5. cluster' = [cluster EXCEPT ![s] = d]
    BY <2>1, <2>2 DEF Inv, TypeOK
  <2>6. stirred' \subseteq Loops
    BY <2>1 DEF Onlookers, Inv, TypeOK
  <2>7. TypeOK'
    BY <1>1, <1>2, <2>1, <2>4, <2>5, <2>6 DEF Inv, TypeOK, locks
  <2>8. ASSUME NEW m \in Loops PROVE LookedAt(m)'
    <3> SUFFICES ASSUME Started(m), loops[m].request.target = "kubernetes",
                        m \notin stirred'
                 PROVE  Undisturbed(m)'
      BY <1>1 DEF LookedAt, Started
    <3>1. Undisturbed(m)
      BY <2>1 DEF Inv, SceneInv, LookedAt
    <3>2. PICK t : t = loops[m].request.service
      OBVIOUS
    <3>3. CASE loops[m].pc \in {"scan", "insert", "deploy", "release"}
      <4>1. m \notin Onlookers(s, {})
        BY <2>1
      <4>2. t # s
        BY <3>2, <3>3, <4>1 DEF Onlookers
      <4>3. cluster'[t] = cluster[t]
        <5>1. t \in Services
          BY <3>2 DEF Inv, TypeOK, Started, Loop, Request
        <5> QED  BY <2>5, <4>2, <5>1 DEF Inv, TypeOK
      <4> QED  BY <1>1, <3>1, <3>2, <4>3 DEF Undisturbed
    <3>4. CASE loops[m].pc \notin {"scan", "insert", "deploy", "release"}
      BY <1>1, <3>4 DEF Undisturbed
    <3> QED  BY <3>3, <3>4
  <2>9. ASSUME NEW m \in Loops PROVE Sandboxed(m)'
    BY <1>1, <2>1 DEF Inv, SceneInv, Sandboxed, NoSandbox, Rehearses, Started
  <2> QED  BY <1>3, <1>4, <1>5, <2>7, <2>8, <2>9 DEF Inv, SceneInv
<1>7. CASE \E l \in sandboxes, pods \in PodStates :
            /\ Exists(twins[l]) /\ pods # twins[l].pods
            /\ twins' = [twins EXCEPT ![l].pods = pods]
            /\ UNCHANGED <<cluster, stirred>>
  <2>1. PICK l \in sandboxes, pods \in PodStates :
            /\ Exists(twins[l])
            /\ twins' = [twins EXCEPT ![l].pods = pods]
            /\ UNCHANGED <<cluster, stirred>>
    BY <1>7
  <2>2. PICK d : d = [twins[l] EXCEPT !.pods = pods]
    OBVIOUS
  <2>3. l \in Loops /\ twins[l] \in Deployment /\ pods \in Pods
    BY ControlLoopConstants DEF Inv, TypeOK
  <2>4. d \in Deployment /\ Exists(d)
    BY <2>1, <2>2, <2>3 DEF Deployment, Exists
  <2>5. twins' = [twins EXCEPT ![l] = d]
    BY <2>1, <2>2, <2>3 DEF Inv, TypeOK
  <2>6. TypeOK'
    BY <1>1, <1>2, <2>1, <2>3, <2>4, <2>5 DEF Inv, TypeOK, locks
  <2>7. ASSUME NEW m \in Loops PROVE LookedAt(m)'
    BY <1>1, <2>1 DEF Inv, SceneInv, LookedAt, Undisturbed, Started
  <2>8. ASSUME NEW m \in Loops PROVE Sandboxed(m)'
    <3>1. NoSandbox(m) => NoSandbox(m)'
      BY <1>1, <2>1, <2>3, <2>5 DEF NoSandbox, Inv, TypeOK
    <3>2. Exists(twins[m]) => Exists(twins'[m])
      BY <2>3, <2>4, <2>5 DEF Inv, TypeOK
    <3> QED  BY <1>1, <3>1, <3>2 DEF Inv, SceneInv, Sandboxed, Rehearses, Started
  <2> QED  BY <1>3, <1>4, <1>5, <2>6, <2>7, <2>8 DEF Inv, SceneInv
<1> QED  BY <1>6, <1>7 DEF PodsChange

-----------------------------------------------------------------------------
(* Theorems *)

\* The invariant holds before the first call.
LEMMA InitInv == Init => Inv
<1> SUFFICES ASSUME Init PROVE Inv
  OBVIOUS
<1>1. \A l \in Loops : ~Started(l) /\ loops[l] = Idle /\ twins[l] = NoDeployment
  BY DEF Init, Started
<1>2. TypeOK
  BY NoDeploymentType, ControlLoopConstants DEF Init, TypeOK
<1>3. LoopInv
  BY <1>1 DEF LoopInv
<1>4. IssuedInv
  BY <1>1 DEF Init, IssuedInv
<1>5. \A l \in Loops : ~Executing(l) /\ ~Acquired(l)
  BY <1>1 DEF Executing, Acquired, Busy, Idle
<1>6. LeaseInv
  BY <1>5 DEF Init, LeaseInv
<1>7. SceneInv
  BY <1>1 DEF Init, SceneInv, LookedAt, Sandboxed, NoSandbox
<1> QED  BY <1>2, <1>3, <1>4, <1>6, <1>7 DEF Inv

\* A stuttering step keeps the invariant.
LEMMA StutterKeeps == Inv /\ UNCHANGED vars => Inv'
<1> SUFFICES ASSUME Inv, UNCHANGED vars PROVE Inv'
  OBVIOUS
<1>1. TypeOK'
  BY DEF Inv, TypeOK, vars
<1>2. LoopInv'
  BY DEF Inv, LoopInv, Told, Started, vars
<1>3. IssuedInv'
  BY DEF Inv, IssuedInv, Started, vars
<1>4. LeaseInv'
  BY DEF Inv, LeaseInv, Executing, LeaseOf, Overran, Acquired, Overlap, vars
<1>5. SceneInv'
  BY DEF Inv, SceneInv, LookedAt, Sandboxed, Undisturbed, NoSandbox, Started,
         Rehearses, vars
<1> QED  BY <1>1, <1>2, <1>3, <1>4, <1>5 DEF Inv

\* Every step keeps the invariant.
LEMMA NextKeeps == Inv /\ [Next]_vars => Inv'
<1> SUFFICES ASSUME Inv, [Next]_vars PROVE Inv'
  OBVIOUS
<1>1. ASSUME NEW l \in Loops, Start(l) PROVE Inv'
  BY <1>1, StartKeeps
<1>2. ASSUME NEW l \in Loops, Enter(l) PROVE Inv'
  BY <1>2, EnterKeeps
<1>3. ASSUME NEW l \in Loops, NEW answered \in Revisions \union {LocalRevision},
             Evaluate(l, answered)
      PROVE  Inv'
  BY <1>3, EvaluateKeeps
<1>4. ASSUME NEW l \in Loops, Preflight(l) PROVE Inv'
  BY <1>4, PreflightKeeps
<1>5. ASSUME NEW l \in Loops, Scan(l) \/ Insert(l) \/ Release(l) PROVE Inv'
  BY <1>5, ScanKeeps, InsertKeeps, ReleaseKeeps
<1>6. ASSUME NEW l \in Loops, Deploy(l) \/ Verify(l) \/ Rollback(l) PROVE Inv'
  BY <1>6, DeployKeeps, VerifyKeeps, RollbackKeeps
<1>7. ASSUME NEW l \in Loops, Rehearse(l) \/ Provision(l) \/ Destroy(l) PROVE Inv'
  BY <1>7, RehearseKeeps, ProvisionKeeps, DestroyKeeps
<1>8. ASSUME NEW p \in Promotable, CertifyScope(p) PROVE Inv'
  BY <1>8, CertifyKeeps
<1>9. CASE PodsChange
  BY <1>9, PodsKeep
<1>10. CASE Tick
  BY <1>10, TickKeeps
<1>11. CASE UNCHANGED vars
  BY <1>11, StutterKeeps
<1> QED  BY <1>1, <1>2, <1>3, <1>4, <1>5, <1>6, <1>7, <1>8, <1>9, <1>10, <1>11 DEF Next

\* The invariant holds in every state of the control loop.
THEOREM LoopInvariant == Spec => []Inv
BY InitInv, NextKeeps, PTL DEF Spec

\* Every variable has its type: the loops, the lock manager's leases, the
\* cluster and its clones, the certifications on file.
THEOREM TypeCorrect == Spec => []TypeOK
<1>1. Inv => TypeOK
  BY DEF Inv
<1> QED  BY <1>1, LoopInvariant, PTL

\* What was not refused of a certification: it is of exactly this scope, these
\* inputs and this revision, and has not expired.
LEMMA ClearedIsCertified ==
    ASSUME NEW l \in Loops, loops[l] \in Loop, Cleared(loops[l]),
           ~Supervised(loops[l].request)
    PROVE  Certified(l)
<1>1. PICK loop, r : loop = loops[l] /\ r = loop.request
  OBVIOUS
<1>2. r.policy.level = 4 /\ ~CertificationRefused(r, loop.answered, loop.moment)
  BY <1>1 DEF Cleared
<1>3. /\ r \in Request /\ r.policy.max_blast_radius \in Nat /\ loop.moment \in Nat
      /\ r.certification.expires_on.at \in Nat
      /\ r.runbook \in Runbooks
  BY <1>1 DEF Loop, Request, ServiceAutonomy, CertificationClaim, Instant
<1>4. /\ ScopeHashFor(r) # <<>> /\ r.certification.present
      /\ r.certification.expires_on.form # "garbled"
      /\ ~(r.certification.expires_on.at <= loop.moment)
      /\ r.certification.scope_hash = ScopeHashFor(r)
      /\ r.certification.inputs_hash = <<ScopeHashFor(r), r.runbook, loop.answered>>
  BY <1>2 DEF CertificationRefused, MaterialInputsHashFor, Readable
<1>5. PICK scope :
        scope = <<r.service, r.environment, r.runbook.id, r.policy.max_blast_radius>>
  OBVIOUS
<1>6. r.policy.max_blast_radius # 0 /\ ScopeHashFor(r) = scope
  BY <1>4, <1>5 DEF ScopeHashFor
<1>7. PICK hash : hash = <<scope, r.runbook, loop.answered>>
  OBVIOUS
<1>8. hash[1] = scope
  BY <1>7
<1>9. r.certification.inputs_hash = hash /\ r.certification.scope_hash = hash[1]
  BY <1>4, <1>6, <1>7, <1>8
<1>10. /\ r.policy.max_blast_radius > 0
       /\ r.certification.expires_on.at > loop.moment
  BY <1>3, <1>4, <1>6
<1> QED  BY <1>1, <1>2, <1>4, <1>5, <1>7, <1>9, <1>10 DEF Certified

\* Nothing reaches a cluster or a clone ungated: for every number of calls,
\* every request, claim, evaluator, race and promotion, each effect of
\* execute_control_loop has a verified approval or a matching, earned and
\* unexpired certification behind it, and nobody deploys on a deployment whose
\* preconditions only held before somebody else changed it.
THEOREM Gate == Spec => []MutationGated
<1>1. Inv => MutationGated
  <2> SUFFICES ASSUME Inv, NEW l \in Loops
               PROVE  /\ Started(l) /\ loops[l].effects # <<>> =>
                          LET r == loops[l].request
                          IN  /\ ~loops[l].switched /\ ~r.policy.kill_switch
                              /\ r.service = r.policy.service
                              /\ r.environment = r.policy.environment
                              /\ r.blast_radius <= r.runbook.max_blast_radius
                              /\ r.blast_radius <= r.policy.max_blast_radius
                              /\ r.runbook.id \in r.policy.certified_runbooks
                              /\ Supervised(r) \/ Certified(l)
                              /\ r.policy.level = 4 => r.error_budget
                              /\ r.loads /\ ~Supervised(r) => Earned(l)
                      /\ loops[l].pc = "deploy" /\ l \notin stirred =>
                          LET r == loops[l].request
                          IN  /\ r.target = "kubernetes" =>
                                    PreconditionsHold(r.runbook, {}, cluster[r.service])
                              /\ Rehearses(l) => l \in sandboxes /\ Exists(twins[l])
    BY DEF MutationGated
  <2>1. ASSUME Started(l), loops[l].effects # <<>>
        PROVE  /\ Cleared(loops[l]) /\ (Supervised(loops[l].request) \/ Certified(l))
               /\ loops[l].request.loads /\ ~Supervised(loops[l].request) => Earned(l)
    <3>1. loops[l] \in Loop /\ Cleared(loops[l])
      BY <2>1 DEF Inv, TypeOK, LoopInv, Gated, Started
    <3>2. Supervised(loops[l].request) \/ Certified(l)
      BY <3>1, ClearedIsCertified
    <3> QED  BY <2>1, <3>1, <3>2, FiledIsEarned DEF Inv
  <2>2. ASSUME loops[l].pc = "deploy", l \notin stirred
        PROVE  LET r == loops[l].request
               IN  /\ r.target = "kubernetes" =>
                         PreconditionsHold(r.runbook, {}, cluster[r.service])
                   /\ Rehearses(l) => l \in sandboxes /\ Exists(twins[l])
    <3>1. Started(l) /\ LookedAt(l) /\ Sandboxed(l)
      BY <2>2, AtLoop
    <3> QED  BY <2>2, <3>1 DEF LookedAt, Undisturbed, Sandboxed
  <2> QED  BY <2>1, <2>2 DEF Cleared
<1> QED  BY <1>1, LoopInvariant, PTL

\* The offline evaluator and the bundle never disagree on a request that
\* reaches them or was blocked before, except on an expiry without an offset.
THEOREM EvaluatorsAlwaysAgree == Spec => []EvaluatorsAgree
<1>1. Inv => EvaluatorsAgree
  <2> SUFFICES ASSUME Inv, NEW l \in Loops,
                      loops[l].pc = "evaluate" \/ (Started(l) /\ loops[l].status = "blocked")
               PROVE  LET r == loops[l].request
                          level == EffectiveLevel(r)
                          local == LocalReason(r, level, loops[l].moment)
                          rego == RegoReason(r, level, loops[l].moment)
                      IN  IF r.certification.expires_on.form = "naive"
                          THEN rego = Authorized => local = Authorized
                          ELSE rego = local
    BY DEF EvaluatorsAgree
  <2>1. loops[l].request \in Request
    BY DEF Inv, TypeOK, Started, Idle, Loop
  <2> QED  BY <2>1, ReasonsAgree
<1> QED  BY <1>1, LoopInvariant, PTL

\* The lock manager keeps overlapping blast radii apart, for any number of
\* loops, but for an outlived lease or two acquires at once; and no lease
\* outlives its loop.
THEOREM BlastRadius == Spec => []BlastRadiusExclusive
<1>1. Inv => BlastRadiusExclusive
  <2> SUFFICES ASSUME Inv PROVE BlastRadiusExclusive
    OBVIOUS
  <2>1. \A l \in Loops : Executing(l) /\ loops[l].request.managed => Acquired(l)
    BY DEF Executing, Acquired, Busy
  <2> QED  BY <2>1 DEF Inv, LeaseInv, BlastRadiusExclusive, Overlap
<1> QED  BY <1>1, LoopInvariant, PTL

\* The result of a call tells what happened to the workload.
THEOREM ResultsTold == Spec => []ResultIsTrue
<1>1. Inv => ResultIsTrue
  <2> SUFFICES ASSUME Inv, NEW l \in Loops, Started(l)
               PROVE  LET loop == loops[l]
                          n == Len(loop.effects)
                      IN  /\ loop.status \in {"blocked", "denied", "deferred", "raised"} =>
                                 \/ loop.effects = <<>>
                                 \/ loop.status = "raised" /\ (Rehearses(l) \/ Overran(l))
                          /\ loop.status = "succeeded" =>
                                 loop.verified /\ n > 0 /\ loop.effects[n] = "fleet"
                          /\ loop.status = "rolled_back" =>
                                 IF loop.request.canary
                                 THEN \A i \in 1..n : loop.effects[i] # "fleet"
                                 ELSE n = 2 /\ loop.effects[n] = "rollback"
                          /\ /\ loop.status = "rolled_back" /\ ~loop.request.canary
                             /\ loop.request.target = "kubernetes"
                             /\ loop.pc = "release" /\ l \notin stirred
                             => Current(Seen(l)).memory = "previous"
                          /\ Rehearses(l) /\ loop.pc = "done" /\ loop.status # "raised" =>
                                 l \notin sandboxes /\ twins[l] = NoDeployment
    BY DEF ResultIsTrue
  <2>1. Told(loops[l]) /\ LookedAt(l) /\ Sandboxed(l)
    BY DEF Inv, LoopInv, SceneInv
  <2>2. /\ loops[l].status = "rolled_back" /\ ~loops[l].request.canary
        /\ loops[l].request.target = "kubernetes"
        /\ loops[l].pc = "release" /\ l \notin stirred
        => Current(Seen(l)).memory = "previous"
    BY <2>1 DEF LookedAt, Undisturbed, Seen, Rehearses
  <2>3. Rehearses(l) /\ loops[l].pc = "done" /\ loops[l].status # "raised" =>
            l \notin sandboxes /\ twins[l] = NoDeployment
    BY <2>1 DEF Sandboxed, NoSandbox
  <2>4. loops[l].status \in {"blocked", "denied", "deferred", "raised"} =>
            \/ loops[l].effects = <<>>
            \/ loops[l].status = "raised" /\ (Rehearses(l) \/ Overran(l))
    BY <2>1 DEF Told, Rehearses, Overran
  <2> QED  BY <2>1, <2>2, <2>3, <2>4 DEF Told
<1> QED  BY <1>1, LoopInvariant, PTL

=============================================================================
