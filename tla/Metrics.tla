------------------------------ MODULE Metrics -------------------------------
(***************************************************************************)
(* The formulas of a sample and of a series of them: domain/metrics.py,    *)
(* domain/statistics.py and benchmarks/reliability/reliability.py.  A      *)
(* measurement is a natural number or Unsupported; what is computed of     *)
(* them is a fraction, and Unavailable is a metric with a reason instead.  *)
(* A root is left under its sign: a spread is the variance.                *)
(***************************************************************************)
EXTENDS Integers, Sequences, FiniteSets, SequencesExt

LOCAL INSTANCE Combinatorics

Unsupported == -1
Supported(measurement) == measurement # Unsupported

\* A fraction in lowest terms.
Gcd[a \in Nat, b \in Nat] == IF b = 0 THEN a ELSE Gcd[b, a % b]
Frac(n, d) ==
    LET g == Gcd[IF n < 0 THEN -n ELSE n, d]
    IN  IF g = 0 THEN [n |-> 0, d |-> 0] ELSE [n |-> n \div g, d |-> d \div g]
Unavailable == Frac(0, 0)
IsNumber(result) == result # Unavailable
Whole(n) == Frac(n, 1)
AtMost(a, b) == a.n * b.d <= b.n * a.d
Plus(a, b) == Frac(a.n * b.d + b.n * a.d, a.d * b.d)
Minus(a, b) == Plus(a, Frac(-b.n, b.d))
Times(a, b) == Frac(a.n * b.n, a.d * b.d)
Over(a, b) == Frac(a.n * b.d, a.d * b.n)
Magnitude(a) == IF a.n < 0 THEN Frac(-a.n, a.d) ELSE a

Total(values) == FoldLeft(Plus, Whole(0), values)
Average(values) == Over(Total(values), Whole(Len(values)))
Least(values) == FoldLeft(LAMBDA a, b : IF AtMost(a, b) THEN a ELSE b, Head(values), values)
Greatest(values) == FoldLeft(LAMBDA a, b : IF AtMost(b, a) THEN a ELSE b, Head(values), values)

-----------------------------------------------------------------------------
\* What one sample says of itself.
Reported(value) == IF Supported(value) THEN Whole(value) ELSE Unavailable

RatePerSecond(count, ms) ==
    IF Unsupported \in {count, ms} \/ ms = 0 THEN Unavailable ELSE Frac(count * 1000, ms)

\* Linear interpolation between the two ordered values around the fraction,
\* which is in hundredths.
Ordered(values) == SortSeq(values, LAMBDA a, b : AtMost(a, b) /\ a # b)
Percentile(values, hundredths) ==
    LET ordered == Ordered(values)
        position == hundredths * (Len(values) - 1)
        lower == position \div 100
        upper == IF lower + 1 > Len(values) - 1 THEN Len(values) - 1 ELSE lower + 1
        weight == Frac(position % 100, 100)
    IN  IF Len(values) = 1 THEN ordered[1]
        ELSE Plus(Times(ordered[lower + 1], Minus(Whole(1), weight)),
                  Times(ordered[upper + 1], weight))

ChunkStatistic(facts, Reducer(_)) ==
    IF facts.gaps = <<>> THEN Unavailable ELSE Reducer([i \in DOMAIN facts.gaps |-> Whole(facts.gaps[i])])
InterTokenMean(facts) == IF facts.tokenLevel THEN ChunkStatistic(facts, Average) ELSE Unavailable

SampleMetric(key, facts) ==
    CASE key = "prompt_tokens" -> Reported(facts.input)
      [] key = "prompt_tokens_per_second" -> RatePerSecond(facts.input, facts.evalMs)
      [] key = "inter_token_ms_mean" -> InterTokenMean(facts)
      [] key = "inter_chunk_ms_p95" -> ChunkStatistic(facts, LAMBDA gaps : Percentile(gaps, 95))
SampleMetrics == {"prompt_tokens", "prompt_tokens_per_second", "inter_token_ms_mean", "inter_chunk_ms_p95"}

PerSuccess(tokens, successes) ==
    IF ~Supported(tokens) \/ successes = 0 THEN Unavailable ELSE Frac(tokens, successes)
QualityPerThousand(score, tokens) ==
    IF ~IsNumber(score) \/ ~Supported(tokens) \/ tokens = 0 THEN Unavailable
    ELSE Over(score, Frac(tokens, 1000))
SuccessesPerMillion(successes, tokens) ==
    IF ~Supported(tokens) \/ tokens = 0 THEN Unavailable ELSE Frac(successes * 1000000, tokens)

\* The largest tested length that keeps the share of the shortest's accuracy.
EffectiveContextTokens(accuracy, share) ==
    LET lengths == DOMAIN accuracy
        shortest == CHOOSE l \in lengths : \A k \in lengths : l <= k
        passing == {l \in lengths : AtMost(Times(accuracy[shortest], share), accuracy[l])}
    IN  IF lengths = {} THEN Unavailable
        ELSE IF accuracy[shortest].n = 0 THEN Unavailable
        ELSE Whole(CHOOSE l \in passing : \A k \in passing : k <= l)

-----------------------------------------------------------------------------
\* A series keeps the supported measurements and counts the others.
SeriesOf(measurements) ==
    LET kept == SelectSeq(measurements, Supported)
    IN  [values |-> [i \in DOMAIN kept |-> Whole(kept[i])],
         excluded |-> Len(measurements) - Len(kept)]

WithoutBug(series, positions) ==
    LET kept == SelectSeq([i \in DOMAIN series.values |-> i], LAMBDA i : i \notin positions)
    IN  [values |-> [i \in DOMAIN kept |-> series.values[kept[i]]], excluded |-> series.excluded]

Without(series, positions) ==
    LET kept == SelectSeq([i \in DOMAIN series.values |-> i], LAMBDA i : i \notin positions)
    IN  [values |-> [i \in DOMAIN kept |-> series.values[kept[i]]],
         excluded |-> series.excluded + Cardinality(positions)]

OfSeries(series, Formula(_)) == IF series.values = <<>> THEN Unavailable ELSE Formula(series.values)

Variance(values) ==
    IF Len(values) < 2 THEN Unavailable
    ELSE Over(Total([i \in DOMAIN values |-> Times(Minus(values[i], Average(values)),
                                                   Minus(values[i], Average(values)))]),
              Whole(Len(values) - 1))
\* The square of the coefficient of variation.
Variation(values) ==
    IF ~IsNumber(Variance(values)) \/ Average(values).n = 0 THEN Unavailable
    ELSE Over(Variance(values), Times(Average(values), Average(values)))

\* 0.6745 |v - median| / MAD over 3.5, and 1.5 times the quartiles' distance
\* beyond a quartile.
ModifiedZOutliers(values) ==
    LET centre == Percentile(values, 50)
        deviations == [i \in DOMAIN values |-> Magnitude(Minus(values[i], centre))]
        mad == Percentile(deviations, 50)
    IN  IF Len(values) < 3 \/ mad.n = 0 THEN {}
        ELSE {i \in DOMAIN values : ~AtMost(Times(Frac(6745, 10000), deviations[i]),
                                            Times(Frac(35, 10), mad))}
IqrOutliers(values) ==
    LET q1 == Percentile(values, 25)
        q3 == Percentile(values, 75)
        reach == Times(Frac(3, 2), Minus(q3, q1))
    IN  IF Len(values) < 4 \/ reach.n = 0 THEN {}
        ELSE {i \in DOMAIN values : \/ ~AtMost(Minus(q1, reach), values[i])
                                    \/ ~AtMost(values[i], Plus(q3, reach))}

FlagOutliers(series, policy) ==
    IF series.values = <<>> THEN {}
    ELSE CASE policy = "modified_z_score" -> ModifiedZOutliers(series.values)
           [] policy = "iqr" -> IqrOutliers(series.values)
           [] policy = "report_only" -> {}

SummaryOf(series, outliers) ==
    [samples |-> Len(series.values), excluded |-> series.excluded, outliers |-> outliers,
     mean |-> OfSeries(series, Average), minimum |-> OfSeries(series, Least),
     maximum |-> OfSeries(series, Greatest), variation |-> Variation(series.values),
     p50 |-> OfSeries(series, LAMBDA v : Percentile(v, 50)),
     p95 |-> OfSeries(series, LAMBDA v : Percentile(v, 95)),
     p99 |-> OfSeries(series, LAMBDA v : Percentile(v, 99))]

Summarize(measurements, policy) ==
    LET all == SeriesOf(measurements)
        flagged == FlagOutliers(all, policy)
    IN  SummaryOf(Without(all, flagged), {all.values[i] : i \in flagged})

\* The chance that one of k attempts drawn without replacement is a success.
PassAtK(successes, attempts, k) ==
    IF k > attempts THEN Unavailable
    ELSE IF attempts - successes < k THEN Whole(1)
    ELSE Minus(Whole(1), Frac(choose(attempts - successes, k), choose(attempts, k)))

AgreementRate(labels) ==
    LET present == {i \in DOMAIN labels : labels[i] # Unsupported}
        pairs == {p \in present \X present : p[1] < p[2]}
    IN  IF pairs = {} THEN Unavailable
        ELSE Frac(Cardinality({p \in pairs : labels[p[1]] = labels[p[2]]}), Cardinality(pairs))

\* One case of the reliability suite: its repetitions, and their answers.
ReliabilityForCase(scores, labels, k, policy) ==
    LET scored == SelectSeq(scores, Supported)
        successes == Len(SelectSeq(scored, LAMBDA s : s > 0))
    IN  [summary |-> Summarize(scores, policy), successes |-> successes, attempts |-> Len(scores),
         pass1 |-> PassAtK(successes, Len(scored), 1), passK |-> PassAtK(successes, Len(scored), k),
         agreement |-> AgreementRate(labels)]
=============================================================================
