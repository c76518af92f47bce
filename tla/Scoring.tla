-------------------------------- MODULE Scoring --------------------------------
(* The scoring formulas (domain/scoring) in whole numbers. Weights are in      *)
(* hundredths, validation scores in tenths, scores in points of 0..100 rounded *)
(* down, and a mass is kept in units of 1/Unit so that halving it is exact.    *)
EXTENDS Integers, Sequences, FiniteSets

CONSTANT Unit           \* units of mass in a weight of one hundredth: a power of 2

ASSUME UnitAssumption == Unit \in Nat \ {0}

Pass == 4               \* a validation score of 0.40 or more passes
Clip(x, lo, hi) == IF x < lo THEN lo ELSE IF x > hi THEN hi ELSE x
\* f[1] + ... + f[n].
TotalOf(f, n) == LET t[k \in 0..n] == IF k = 0 THEN 0 ELSE t[k - 1] + f[k] IN t[n]

-------------------------------------------------------------------------------
(* Grade and weight of a feedback row.                                         *)

GradeOf(r) == CASE r.self -> "self"
                [] r.value = "" -> "missing_fields"
                [] r.cat = "junk" -> "junk"
                [] OTHER -> "valid"
Gated(r) == GradeOf(r) # "valid"
\* Quality signals (reasoning, attachment, breakdown, payment, confidence) in
\* hundredths, and the base weight 0.7 + 0.3 Q in tenths.
Quality(signals) == Clip(20 * signals.reasoning + 25 * signals.attachment + 20 * signals.breakdown
                         + 15 * signals.payment + 20 * signals.confidence, 0, 100)
BaseWeight(signals) == 7 + (3 * Quality(signals)) \div 100
\* WalletTrustMult in tenths: 0.40 for a wallet without trust.
TrustMult(trust) == 4 + (6 * trust) \div 100
Weight(r, trust) == IF Gated(r) THEN 0 ELSE BaseWeight(r.signals) * TrustMult(trust)

-------------------------------------------------------------------------------
(* Mass and reputation.                                                        *)

\* Halved k times, rounded down.
Halved(x, k) == LET h[n \in 0..k] == IF n = 0 THEN x ELSE h[n - 1] \div 2 IN h[k]
\* The clock never runs backwards: an earlier time leaves the mass alone.
DecayMass(mass, from, to) == IF to <= from THEN mass
                             ELSE [a |-> Halved(mass.a, to - from), b |-> Halved(mass.b, to - from)]
AddMass(mass, w, v) == [a |-> mass.a + w * v * Unit, b |-> mass.b + w * Unit]
ApplyFeedbackToMass(mass, from, w, v, at) == AddMass(DecayMass(mass, from, at), w, v)

\* 1 / (1 + 0.1 N^1.5) in hundredths, for streaks of at most 6 failures.
Reliability(n) == <<100, 90, 77, 65, 55, 47, 40>>[1 + Clip(n, 0, 6)]
\* A pass takes a third of the streak away, rounded to the nearest, at least one.
DecayConsecutiveFails(n) == IF n <= 0 THEN 0
                            ELSE n - (IF (2 * n + 3) \div 6 < 1 THEN 1 ELSE (2 * n + 3) \div 6)
Streak(n, v) == IF v < Pass THEN n + 1 ELSE DecayConsecutiveFails(n)
\* 100 * A/(C + B) * reliability with a confidence prior of C = 3.
Reputation(mass, fails) == IF mass.b <= 0 THEN 0
                           ELSE (mass.a * Reliability(fails)) \div (10 * (300 * Unit + mass.b))
\* 100 * ln(1 + u) / ln 6, saturated at five clients.
Adoption(u) == <<0, 38, 61, 77, 89, 100>>[1 + Clip(u, 0, 5)]

-------------------------------------------------------------------------------
(* Components and their blend.                                                 *)

JSONRequired == {"oasf", "a2a", "mcp"}
Important == JSONRequired \cup {"web", "email"}
Healthy(name, status) == IF name \in JSONRequired THEN status = 5 ELSE status \in {1, 5}
Share(checks, points) ==
    IF checks = {} THEN 0
    ELSE (points * Cardinality({c \in checks : Healthy(c.name, c.status)})) \div Cardinality(checks)
ServicesScore(checks) == Share({c \in checks : c.name \in Important}, 80)
                         + Share({c \in checks : c.name \notin Important}, 20)

Tier1 == {"type", "name", "description", "services", "registrations"}
Tier2 == {"image", "supportedTrust", "x402Support", "agentWallet", "cardUpdatedAt"}
ComplianceScore(card) == IF "agentURI" \notin card THEN 0
                         ELSE 16 * Cardinality(card \cap Tier1) + 4 * Cardinality(card \cap Tier2)

\* Weighted average over the present components only: the weight of a missing one
\* is shared by the others.
CompositeRenorm(components) ==
    LET n == Len(components)
        weight == [i \in 1..n |-> IF components[i].present THEN components[i].weight ELSE 0]
        total == TotalOf(weight, n)
        weighted == TotalOf([i \in 1..n |-> weight[i] * Clip(components[i].score, 0, 100)], n)
    IN  IF total = 0 THEN 0 ELSE Clip(weighted \div total, 0, 100)
Component(score, weight, present) == [score |-> score, weight |-> weight, present |-> present]
\* What every composite has, with or without the publisher: reputation, adoption,
\* services and compliance.
Basics(rep, adoption, services, compliance, rated) ==
    <<Component(rep, 40, rated), Component(adoption, 15, TRUE),
      Component(services, 15, TRUE), Component(compliance, 10, TRUE)>>
CompositeParts(rep, adoption, services, publisher, compliance, rated, published) ==
    Append(Basics(rep, adoption, services, compliance, rated), Component(publisher, 20, published))
AgentDirectReputation(rep, adoption, services, compliance, rated) ==
    CompositeRenorm(Basics(rep, adoption, services, compliance, rated))

\* Trust of a wallet: reviewer record, external score, quality of owned agents.
ReviewerReliability(valid, junk) == (100 * (valid + 1)) \div (valid + junk + 2)
WalletTrust(reviewer, external, owned, hasExternal, hasOwned) ==
    CompositeRenorm(<<Component(reviewer, 35, TRUE), Component(external, 25, hasExternal),
                      Component(owned, 40, hasOwned)>>)
================================================================================
