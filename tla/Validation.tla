----------------------------- MODULE Validation -----------------------------
(***************************************************************************)
(* The audits of validate.py over a set S of meetings that is not empty:   *)
(* do the rules hold up against the data?  Left out are the durations,     *)
(* which can warn and never fail.                                          *)
(***************************************************************************)
EXTENDS Insights

\* Whether part is at least limit percent of whole; of nothing it is 0 percent.
AtLeast(part, whole, limit) ==
    100 * part >= limit * (IF whole = 0 THEN 1 ELSE whole)

Flag(part, whole, warnAbove, failAbove) ==
    IF AtLeast(part, whole, failAbove) THEN "FAIL"
    ELSE IF AtLeast(part, whole, warnAbove) THEN "WARN"
    ELSE "PASS"

CatchAll(S) == {m \in S : Purpose(m) = "Account Management"}

CheckRuleCoverage(S) ==
    Flag(Cardinality(CatchAll(S)), Cardinality(S), 20, 35)

Nameless(S) == {m \in OfType("external", S) : CustomerOf(m) = {}}

CheckCustomerExtraction(S) ==
    Flag(Cardinality(Nameless(S)), Cardinality(OfType("external", S)), 5, 15)

\* The products of the topics against those of the rules.  Without a meeting
\* whose topics name one, the agreement is 0 percent and fails.
CheckProductCrossReference(S) ==
    LET tagged == {m \in S : Content[m].topics # {}}
        agree  == {m \in tagged : Content[m].topics \cap ProductAreas(m) # {}}
        passes(limit) == AtLeast(Cardinality(agree), Cardinality(tagged), limit)
    IN  IF passes(70) THEN "PASS" ELSE IF passes(50) THEN "WARN" ELSE "FAIL"

\* Transcripts, speakers, scores.
CheckDataQuality(S) ==
    <<IF Spoken(S) = S THEN "PASS" ELSE "FAIL",
      IF \A m \in S : Speakers(m) # {} THEN "PASS" ELSE "WARN",
      IF Scored(S) = S THEN "PASS" ELSE "FAIL">>

\* One cluster of a single purpose is let pass; more only warn.
CheckClusterHomogeneity(S) ==
    LET cluster(k) == {m \in S : Content[m].cluster = k}
        share(k)   == Max({Cardinality({m \in cluster(k) : Purpose(m) = Purpose(n)}) :
                             n \in cluster(k)})
        redundant  == {k \in {Content[m].cluster : m \in S} :
                         100 * share(k) > 85 * Cardinality(cluster(k))}
    IN  IF Cardinality(redundant) <= 1 THEN "PASS" ELSE "WARN"

\* A score that is null is not below neutral.
CheckSentimentAlignment(S) ==
    LET below(m) == m \in Scored(S) /\ Head(Content[m].sentiment) < 3
        mostlyNegative(m) ==
            10 * Cardinality({i \in DOMAIN Content[m].labels : Content[m].labels[i] = -1})
                > 4 * Len(Content[m].labels)
        disagree == {m \in Spoken(S) : below(m) # mostlyNegative(m)}
    IN  Flag(Cardinality(disagree), Cardinality(Spoken(S)), 25, 40)

CheckChurnRiskDistribution(S) ==
    LET health == CustomerHealth(S)
        high   == Cardinality({row \in health : RiskTier(row, S) = "high"})
        share(limit) == AtLeast(high, Cardinality(health), limit)
    IN  IF health = {} \/ ~ share(5) \/ 100 * high > 50 * Cardinality(health)
        THEN "WARN" ELSE "PASS"

\* main(): the report, and the number of FAILs, which is the exit code.
Checks(S) ==
    <<CheckRuleCoverage(S), CheckCustomerExtraction(S),
      CheckProductCrossReference(S)>>
    \o CheckDataQuality(S)
    \o <<CheckClusterHomogeneity(S), CheckSentimentAlignment(S),
         CheckChurnRiskDistribution(S)>>

Fails(S) == Cardinality({i \in DOMAIN Checks(S) : Checks(S)[i] = "FAIL"})
=============================================================================
