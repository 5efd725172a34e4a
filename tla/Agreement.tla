----------------------------- MODULE Agreement -----------------------------
(***************************************************************************)
(* Agreement between an author's grades and a jury's (domain/agreement.py) *)
(* and what is made of it (domain/calibration.py).  A coefficient is a     *)
(* number of percent, rounded down; Unmeasured stands for None.            *)
(***************************************************************************)
EXTENDS Integers, Sequences, FiniteSets, FiniteSetsExt

Unmeasured == -1000
Percent(n, d) == (100 * n) \div d
SumOver(S, f(_)) == SumFunction([x \in S |-> f(x)])
Abs(n) == IF n < 0 THEN -n ELSE n
Square(n) == n * n

\* A pair of series is a sequence of [author, jury] grades on one scale.
HasVariance(grades) == Len(grades) >= 2 /\ \E i, k \in DOMAIN grades : grades[i] # grades[k]

\* Share of the grades in the top two points, or in the bottom two, at least 4 in 5.
ConcentratedGrades(grades, points) ==
    LET top == {i \in DOMAIN grades : grades[i] >= points - 1}
        bottom == {i \in DOMAIN grades : grades[i] <= 2}
    IN  Len(grades) > 0 /\ 5 * Max({Cardinality(top), Cardinality(bottom)}) >= 4 * Len(grades)

\* Quadratic weights over the cells of the table of counts.
CohensKappaWeighted(pairs, points) ==
    LET cells == (1 .. points) \X (1 .. points)
        observed(c) == Cardinality({i \in DOMAIN pairs : <<pairs[i].author, pairs[i].jury>> = c})
        rows(r) == Cardinality({i \in DOMAIN pairs : pairs[i].author = r})
        columns(r) == Cardinality({i \in DOMAIN pairs : pairs[i].jury = r})
        seen == SumOver(cells, LAMBDA c : Square(c[1] - c[2]) * observed(c)) * Len(pairs)
        chance == SumOver(cells, LAMBDA c : Square(c[1] - c[2]) * rows(c[1]) * columns(c[2]))
    IN  IF Len(pairs) < 2 \/ chance = 0 THEN Unmeasured ELSE Percent(chance - seen, chance)

\* Twice the average rank of each value: ties share the mean of their positions.
AverageRanks(values) ==
    [i \in DOMAIN values |->
        2 * Cardinality({k \in DOMAIN values : values[k] < values[i]})
        + Cardinality({k \in DOMAIN values : values[k] = values[i]}) + 1]

\* The covariance and the product of the spreads of two series, each n * n times
\* what the code computes; rho is the first over the root of the second.
Pearson(left, right) ==
    LET n == Len(left)
        sum(s) == SumOver(DOMAIN s, LAMBDA i : s[i])
        cross(s, t) == n * SumOver(DOMAIN s, LAMBDA i : s[i] * t[i]) - sum(s) * sum(t)
    IN  [covariance |-> cross(left, right), spread |-> cross(left, left) * cross(right, right)]

\* Whether Spearman's rho is measured and at least 3/5.
RanksAlike(author, jury) ==
    /\ HasVariance(author) /\ HasVariance(jury)
    /\ LET rho == Pearson(AverageRanks(author), AverageRanks(jury))
       IN  rho.covariance > 0 /\ 25 * Square(rho.covariance) >= 9 * rho.spread

MeanAbsoluteError(pairs) ==
    IF pairs = <<>> THEN 0
    ELSE Percent(SumOver(DOMAIN pairs, LAMBDA i : Abs(pairs[i].author - pairs[i].jury)), Len(pairs))

SignedBias(pairs) ==
    IF pairs = <<>> THEN 0
    ELSE Percent(SumOver(DOMAIN pairs, LAMBDA i : pairs[i].jury - pairs[i].author), Len(pairs))

AgreementOf(pairs, points) ==
    [kappa |-> CohensKappaWeighted(pairs, points), mae |-> MeanAbsoluteError(pairs),
     bias |-> SignedBias(pairs), n |-> Len(pairs)]

\* Interval alpha over units of jurors' grades; 0 is a juror that gave none. A unit
\* of m grades weighs its ordered pairs by 1 / (m - 1), all scaled to whole numbers.
KrippendorffAlpha(units, jurors) ==
    LET given(i) == {j \in jurors : units[i][j] # 0}
        used == {i \in DOMAIN units : Cardinality(given(i)) >= 2}
        ratings == UNION {{<<i, j>> : j \in given(i)} : i \in used}
        scale == ProductSet(1 .. Cardinality(jurors) - 1)
        grade(r) == units[r[1]][r[2]]
        apart(R) == SumOver(R \X R, LAMBDA p : Square(grade(p[1]) - grade(p[2])))
        within == SumOver(used, LAMBDA i : (scale \div (Cardinality(given(i)) - 1))
                                               * apart({<<i, j>> : j \in given(i)}))
        overall == apart(ratings)
    IN  IF used = {} \/ overall = 0 THEN Unmeasured
        ELSE 100 - ((100 * within * (Cardinality(ratings) - 1)) \div (overall * scale))

\* The mean of the measured values under their weights.
WeightedMean(values, weights) ==
    LET usable == {k \in DOMAIN values : values[k] # Unmeasured /\ weights[k] > 0}
    IN  IF usable = {} THEN Unmeasured
        ELSE SumOver(usable, LAMBDA k : weights[k] * values[k])
                 \div SumOver(usable, LAMBDA k : weights[k])

BandFor(kappa) ==
    IF kappa >= 75 THEN "strong" ELSE IF kappa >= 60 THEN "good"
    ELSE IF kappa >= 40 THEN "fair" ELSE "not_measurable"

-----------------------------------------------------------------------------
\* The stratified partition and the gate

\* Half to even, as Python rounds.
Round(n, d) ==
    LET low == n \div d
        twice == 2 * (n - low * d)
    IN  IF twice > d \/ (twice = d /\ low % 2 = 1) THEN low + 1 ELSE low

\* How many of a stratum are held out: none of one if the fraction says so, and
\* never all or none of several.
Wanted(size, fraction) ==
    LET round == Round(size * fraction, 100)
    IN  IF size = 1 THEN round ELSE Max({1, Min({round, size - 1})})

\* The seeded shuffle of a stratum is some fixed order of its members.
ShuffledPrefix(members, n) == CHOOSE T \in kSubset(n, members) : TRUE

\* graded maps samples to their representative grade.
PartitionSamples(graded, fraction) ==
    LET stratum(g) == {s \in DOMAIN graded : graded[s] = g}
    IN  UNION {ShuffledPrefix(stratum(g), Wanted(Cardinality(stratum(g)), fraction)) :
                   g \in {graded[s] : s \in DOMAIN graded}}

\* sqrt(n / target) in percent, rounded down, at most 100.
Root(n, target) ==
    IF n >= target THEN 100
    ELSE CHOOSE p \in 0 .. 99 : p * p * target <= 10000 * n /\ (p + 1) * (p + 1) * target > 10000 * n

CriterionValidity(kappa, held, target) ==
    IF kappa = Unmeasured THEN 0 ELSE (Max({0, kappa}) * Root(held, target)) \div 100

\* Judged criteria by their agreement, the others certain; never below 5 percent.
JudgeValidityFactor(weights, kappa, held, target) ==
    LET validity(k) == IF k \in DOMAIN kappa THEN CriterionValidity(kappa[k], held[k], target)
                       ELSE 100
        mean == SumOver(DOMAIN weights, LAMBDA k : weights[k] * validity(k))
                    \div SumOver(DOMAIN weights, LAMBDA k : weights[k])
    IN  Min({100, Max({5, mean})})

VerdictFor(weights, kappa, held, graded, minSamples, minAgreement, target) ==
    LET weighted == WeightedMean(kappa, weights)
        factor == JudgeValidityFactor(weights, kappa, held, target)
    IN  IF DOMAIN kappa = {} THEN [state |-> "not_required", kappa |-> Unmeasured, factor |-> 100]
        ELSE IF graded < minSamples
             THEN [state |-> "insufficient", kappa |-> Unmeasured, factor |-> factor]
        ELSE [state |-> IF weighted >= minAgreement THEN "calibrated" ELSE "uncalibrated",
              kappa |-> weighted, factor |-> factor]

Passed(verdict) == verdict.state \in {"not_required", "calibrated"}
=============================================================================
