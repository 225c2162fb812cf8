---------------------------- MODULE Intelligence ----------------------------
(***************************************************************************)
(* The effect intelligence engine (intelligence/): the signals a manifest  *)
(* and the caller's facts raise under a policy, and the recommendation and *)
(* requirements that follow.  A pure function; its answer is advisory.     *)
(***************************************************************************)
EXTENDS Trust, FiniteSetsExt, Functions

Risks == <<"low", "medium", "high", "critical">>

Signal(name, weight) == [name |-> name, weight |-> weight, blocks |-> FALSE]
ForceBlock(name) == [name |-> name, weight |-> 0, blocks |-> TRUE]

\* The singleton of a signal when its condition holds.
When(condition, signal) == IF condition THEN {signal} ELSE {}

DefaultPolicy ==
    [riskPoints    |-> [low |-> 5, medium |-> 20, high |-> 45, critical |-> 70],
     blastPoints   |-> [single_resource |-> 0, bounded_set |-> 5, broad |-> 15, unbounded |-> 25],
     reversibility |-> [reversible |-> 0, compensatable |-> 5, irreversible |-> 15],
     thresholds    |-> {},
     malformed     |-> FALSE,
     default       |-> <<1000000, 10000000, 100000000>>,
     maxTtl        |-> 3600,
     maxDepth      |-> 8,
     maxFailure    |-> 20,
     block         |-> 85,
     review        |-> 40,
     levels        |-> <<25, 50, 75>>,
     maxApprovals  |-> 5,
     cooling       |-> [low |-> 0, medium |-> 0, high |-> 60, critical |-> 300]]

ValidIntelligencePolicy(p) ==
    /\ 0 <= p.review /\ p.review <= p.block /\ p.block <= 100
    /\ 0 < p.levels[1] /\ p.levels[1] < p.levels[2] /\ p.levels[2] < p.levels[3] /\ p.levels[3] <= 100
    /\ 0 <= p.maxFailure /\ p.maxFailure <= 100
    /\ p.maxTtl > 0
    /\ \A t \in p.thresholds : t.low < t.mid /\ t.mid < t.high

HighRisk(m) == m.risk \in {"high", "critical"}

-----------------------------------------------------------------------------
(* The signal groups.                                                      *)

ScoreDeclaredClassification(m, p) ==
    {Signal("declared_risk_classification", p.riskPoints[m.risk]),
     Signal("declared_blast_radius", p.blastPoints[m.blast]),
     Signal("declared_reversibility", p.reversibility[m.reversibility])}

Tier(units, t) ==
    IF units < t[1] THEN 0 ELSE IF units < t[2] THEN 10 ELSE IF units < t[3] THEN 20 ELSE 35

\* An unclassified currency uses the default thresholds and costs five more.
ScoreMonetaryExposure(m, p) ==
    IF m.cost = Nothing THEN When(HighRisk(m), Signal("high_risk_without_cost_estimate", 8))
    ELSE UNION {LET known == {t \in p.thresholds : t.currency = c.currency}
                    tiers == IF known = {} THEN p.default
                             ELSE LET t == CHOOSE t \in known : TRUE IN <<t.low, t.mid, t.high>>
                IN  {Signal("monetary_exposure_tier", Tier(c.units, tiers))}
                    \cup When(known = {}, Signal("unclassified_currency_uses_default_thresholds", 5))
                : c \in m.cost}

ScoreStateAndPreconditions(m) ==
    When(~ m.fingerprint /\ m.reversibility # "reversible",
         Signal("no_state_fingerprint_for_non_reversible_effect", 10))
    \cup When(~ m.preconditions /\ HighRisk(m),
              Signal("no_preconditions_declared_for_high_risk_effect", 10))

ScoreManifestLifetime(m, p) ==
    When(m.ttl > p.maxTtl, Signal("manifest_lifetime_exceeds_recommended_window", 8))

\* matches is the number of sensitive patterns that match the target; a
\* pattern that is no regular expression blocks.
ScoreTargetSensitivity(m, p) ==
    When(m.matches > 0, Signal("sensitive_target_pattern_matched", 15 * m.matches))
    \cup When(p.malformed, ForceBlock("sensitive_target_pattern_malformed"))

ScoreRestrictedEffectType(m) ==
    When(m.restricted, ForceBlock("effect_type_restricted_by_policy"))

\* A mutant of ScoreDelegationDepth that forgets what is beyond the ceiling.
ScoreDepthAtCeiling(f, p) == When(f.depth = p.maxDepth, Signal("delegation_depth_at_ceiling", 20))

ScoreDelegationDepth(f, p) ==
    When(f.depth > p.maxDepth, ForceBlock("delegation_depth_exceeds_policy_ceiling"))
    \cup When(f.depth = p.maxDepth, Signal("delegation_depth_at_ceiling", 20))

\* A failure rate is compared in hundredths.
ScoreHistoricalRecurrence(f, p) ==
    When(f.recurrence = 0, Signal("novel_effect_pattern_no_history", 6))
    \cup When(f.recurrence > 0 /\ 100 * f.failures > p.maxFailure * f.recurrence,
              Signal("elevated_historical_failure_rate", 25))

ScoreProviderCapabilities(m, f) ==
    When(f.idempotent = Nothing, Signal("provider_idempotency_unknown", 8))
    \cup When(f.idempotent = Just(FALSE) /\ HighRisk(m), Signal("non_idempotent_provider_high_risk", 12))
    \cup When(f.feasible = Nothing /\ m.reversibility # "reversible",
              Signal("compensation_feasibility_unknown", 8))
    \cup When(f.feasible = Just(FALSE) /\ m.reversibility = "compensatable",
              ForceBlock("compensation_feasibility_contradicts_manifest_reversibility"))
    \cup When(f.feasible = Just(FALSE) /\ m.reversibility = "irreversible" /\ m.risk # "low",
              Signal("irreversible_and_not_compensatable", 15))

ScoreCallerFlags(f) ==
    When(f.crossTenant, Signal("cross_tenant_effect", 20))
    \cup When(f.unusual, Signal("unusual_parameter_change_detected", 12))
    \cup When(f.violations, ForceBlock("external_policy_violation"))

Signals(m, f, p) ==
    ScoreDeclaredClassification(m, p) \cup ScoreMonetaryExposure(m, p)
    \cup ScoreStateAndPreconditions(m) \cup ScoreManifestLifetime(m, p)
    \cup ScoreTargetSensitivity(m, p) \cup ScoreRestrictedEffectType(m)
    \cup ScoreDelegationDepth(f, p) \cup ScoreHistoricalRecurrence(f, p)
    \cup ScoreProviderCapabilities(m, f) \cup ScoreCallerFlags(f)

-----------------------------------------------------------------------------
(* Aggregation.                                                            *)

Score(signals) == Min({100, SumFunctionOnSet([s \in signals |-> s.weight], signals)})

Raised(signals, name) == \E s \in signals : s.name = name

\* Positions in Risks.
RiskLevel(score, p) == 1 + Cardinality({i \in 1..3 : score >= p.levels[i]})

Recommendations == <<"allow", "review", "block">>

Recommendation(signals, p) ==
    IF (\E s \in signals : s.blocks) \/ Score(signals) >= p.block THEN "block"
    ELSE IF Score(signals) >= p.review THEN "review" ELSE "allow"

RequiredHumanApprovals(level, signals, p) ==
    Min({p.maxApprovals,
         (level - 1) + Cardinality({n \in {"cross_tenant_effect", "irreversible_and_not_compensatable"} :
                                        Raised(signals, n)})})

RequiredServiceApprovals(signals) ==
    IF Raised(signals, "non_idempotent_provider_high_risk") THEN 1 ELSE 0

WitnessQuorum == <<1, 1, 2, 3>>

\* standard 1, strong 2, independent 3.
VerificationStrength(m, f, level) ==
    IF f.idempotent = Just(FALSE) /\ m.reversibility = "irreversible" THEN 3
    ELSE <<1, 1, 2, 3>>[level]

Assess(m, f, p) ==
    LET signals == Signals(m, f, p)
        level   == RiskLevel(Score(signals), p)
    IN  [recommendation |-> Recommendation(signals, p),
         level          |-> level,
         approvals      |-> RequiredHumanApprovals(level, signals, p),
         services       |-> RequiredServiceApprovals(signals),
         cooling        |-> p.cooling[Risks[level]],
         witnesses      |-> WitnessQuorum[level],
         strength       |-> VerificationStrength(m, f, level)]
=============================================================================
