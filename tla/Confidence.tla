----------------------------- MODULE Confidence -----------------------------
(***************************************************************************)
(* How far a capability record may be trusted (domain/confidence.py) and   *)
(* how metrics become a score (domain/capability_mapping.py).  Scores and  *)
(* factors are whole percents, ages are counted in half-lives of quality.  *)
(***************************************************************************)
EXTENDS Agreement

\* The shipped policy; a policy of the settings may change any of it.
ConfidencePolicy ==
    [target |-> 30, halfLife |-> [quality |-> 3, performance |-> 1], floor |-> 30, staleBelow |-> 50,
     nameOnly |-> 60, performanceDrift |-> 70, qualityDrift |-> 50]

Clamp(n, low, high) == Max({low, Min({high, n})})

SampleFactor(samples, target) == Root(samples, target)

\* At most half is lost to dispersion; a dispersion that was not measured costs nothing.
ConsistencyFactor(dispersion) ==
    IF dispersion = Unmeasured THEN 100 ELSE 100 - Min({50, dispersion})

\* 100 halved n times, in whole percents.
Halved(n) == IF n > 6 THEN 0 ELSE <<100, 50, 25, 12, 6, 3, 1>>[n + 1]

FreshnessFactor(measuredAt, now, halfLife, floor) ==
    LET age == Max({0, now - measuredAt})
    IN  Max({floor, Halved(age \div halfLife)})

\* An environment is [major, minor, driver, cuda]; None stands for no completed run.
None == [major |-> 0, minor |-> 0, driver |-> "none", cuda |-> "none"]
DetectDrift(measured, current, kind) ==
    IF current = None THEN {}
    ELSE {d \in {"provider_major", "provider_minor", "gpu_driver_version", "cuda_version"} :
             \/ d = "provider_major" /\ measured.major # current.major
             \/ d = "provider_minor" /\ measured.major = current.major
                                     /\ measured.minor # current.minor
             \/ kind # "quality" /\ d = "gpu_driver_version" /\ measured.driver # current.driver
             \/ kind # "quality" /\ d = "cuda_version" /\ measured.cuda # current.cuda}

EnvironmentFactor(drift, kind, policy) ==
    IF drift = {} THEN 100
    ELSE IF kind = "quality"
         THEN IF "provider_major" \in drift THEN policy.qualityDrift ELSE 100
    ELSE IF "provider_major" \in drift
         THEN Min({policy.performanceDrift, policy.qualityDrift})
    ELSE policy.performanceDrift

IdentityFactor(nameOnly, policy) == IF nameOnly THEN policy.nameOnly ELSE 100

IsStale(freshness, drift, policy) == freshness < policy.staleBelow \/ drift # {}

\* The product of the factors in percent.
Scaled(p, f) == (p * f) \div 100
Product(f) ==
    Scaled(Scaled(Scaled(Scaled(Scaled(f.sample, f.consistency), f.freshness), f.environment), f.identity), f.judge)

ComputeConfidence(facts, now, current, policy) ==
    LET fresh == FreshnessFactor(facts.at, now, policy.halfLife[facts.kind], policy.floor)
        drift == DetectDrift(facts.env, current, facts.kind)
        factors == [sample |-> SampleFactor(facts.samples, policy.target),
                    consistency |-> ConsistencyFactor(facts.dispersion), freshness |-> fresh,
                    environment |-> EnvironmentFactor(drift, facts.kind, policy),
                    identity |-> IdentityFactor(facts.nameOnly, policy),
                    judge |-> facts.validity]
    IN  [factors |-> factors, drift |-> drift, stale |-> IsStale(fresh, drift, policy),
         confidence |-> Clamp(Product(factors), 5, 100)]

-----------------------------------------------------------------------------
\* The mapping of metrics to capabilities

\* A source has full or zero, the value that counts as 1 or as 0, or neither; a metric that
\* is not a ratio needs one of them.
NormalizeValue(value, ratio, higherIsBetter, source) ==
    IF source.full # 0 THEN Clamp(Percent(value, source.full), 0, 100)
    ELSE IF source.zero # 0 THEN Clamp(100 - Percent(value, source.zero), 0, 100)
    ELSE IF ~ratio THEN Unmeasured
    ELSE IF higherIsBetter THEN Clamp(value, 0, 100) ELSE 100 - Clamp(value, 0, 100)

\* Over the metrics that were measured, never over all that the mapping names.
WeightedScore(contributions) ==
    IF contributions = {} THEN Unmeasured
    ELSE SumOver(contributions, LAMBDA c : c.weight * c.value)
             \div SumOver(contributions, LAMBDA c : c.weight)

\* What the parser accepts of the file; one metric of a suite stands for its metrics.
ValidSource(s) == s.weight > 0 /\ s.full >= 0 /\ s.zero >= 0 /\ ~(s.full > 0 /\ s.zero > 0)
ParseMapping(sources) ==
    \A c \in DOMAIN sources :
        /\ sources[c] # {} /\ \A s \in sources[c] : ValidSource(s)
        /\ \A s, t \in sources[c] : s.suite = t.suite => s = t
=============================================================================
