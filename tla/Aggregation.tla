---------------------------- MODULE Aggregation -----------------------------
(***************************************************************************)
(* From a run's samples to its metric rows: domain/aggregation.py.  A      *)
(* group is a test with the metrics it declares and its samples so far.    *)
(***************************************************************************)
EXTENDS Metrics

AggregateKeys == {"output_tokens_per_success", "total_tokens_per_success",
                  "quality_per_1k_output_tokens", "successes_per_million_output_tokens",
                  "effective_context_tokens"}

Completed(samples) == SelectSeq(samples, LAMBDA facts : facts.status = "completed")
IsSuccess(facts) == facts.status = "completed" /\ Supported(facts.score) /\ facts.score > 0

\* What each sample contributes to a metric: its own formula, else the number
\* its scorer recorded if any sample of the group has one, else its score.
FromDetail(metric, samples) ==
    \/ metric.source = "detail"
    \/ /\ metric.source = "auto" /\ metric.key \notin SampleMetrics
       /\ \E i \in DOMAIN samples : samples[i].status = "completed" /\ Supported(samples[i].detail)
Contribution(metric, samples, facts) ==
    IF metric.source = "auto" /\ metric.key \in SampleMetrics THEN SampleMetric(metric.key, facts)
    ELSE IF FromDetail(metric, samples) THEN Reported(facts.detail)
    ELSE Reported(facts.score)

ValuesForBug(metric, samples) ==
    SelectSeq([i \in DOMAIN samples |-> Contribution(metric, samples, samples[i])], IsNumber)

\* A sample that failed contributes nothing, whatever it recorded.
ValuesFor(metric, samples) ==
    LET completed == Completed(samples)
    IN  SelectSeq([i \in DOMAIN completed |-> Contribution(metric, samples, completed[i])], IsNumber)

Combine(values, aggregation) ==
    CASE aggregation = "mean" -> Average(values)
      [] aggregation = "p95" -> Percentile(values, 95)
      [] aggregation = "max" -> Greatest(values)
      [] aggregation = "sum" -> Total(values)
      [] aggregation = "count" -> Whole(Len(values))
      [] aggregation = "raw" -> Unavailable

Dispersion(values) == [variance |-> Variance(values), variation |-> Variation(values)]
Row(result, used, excluded, values) ==
    [result |-> result, samples |-> used, excluded |-> excluded, spread |-> Dispersion(values)]

\* Quantities that only a group has: sums over the samples that reported them.
TotalOf(samples, field) ==
    LET reported == SelectSeq(samples, LAMBDA facts : Supported(facts[field]))
    IN  IF reported = <<>> THEN Unsupported
        ELSE FoldLeft(LAMBDA sum, facts : sum + facts[field], 0, reported)

MeanScore(samples) ==
    LET scores == SelectSeq([i \in DOMAIN samples |-> Reported(samples[i].score)], IsNumber)
    IN  IF scores = <<>> THEN Unavailable ELSE Average(scores)

\* Accuracy by length, over the samples that state one; the last threshold
\* a sample declares is the group's.
EffectiveContext(completed) ==
    LET used == SelectSeq(completed, LAMBDA facts : facts.length # Unsupported /\ Supported(facts.score))
        declared == SelectSeq(used, LAMBDA facts : Supported(facts.share))
        lengths == {used[i].length : i \in DOMAIN used}
    IN  [result |-> EffectiveContextTokens(
                        [l \in lengths |-> MeanScore(SelectSeq(used, LAMBDA facts : facts.length = l))],
                        Frac(IF declared = <<>> THEN 80 ELSE Last(declared).share, 100)),
         used |-> Len(used)]

AggregateOnly(metric, samples) ==
    LET completed == Completed(samples)
        output == TotalOf(completed, "output")
        input == TotalOf(completed, "input")
        successes == Len(SelectSeq(completed, IsSuccess))
        row(result, used) == Row(result, used, Len(samples) - used, <<>>)
    IN  CASE metric.key = "effective_context_tokens" ->
                 row(EffectiveContext(completed).result, EffectiveContext(completed).used)
          [] metric.key = "output_tokens_per_success" ->
                 row(PerSuccess(output, successes), Len(completed))
          [] metric.key = "total_tokens_per_success" ->
                 row(PerSuccess(IF Unsupported \in {input, output} THEN Unsupported ELSE input + output,
                                successes), Len(completed))
          [] metric.key = "quality_per_1k_output_tokens" ->
                 row(QualityPerThousand(MeanScore(completed), output), Len(completed))
          [] metric.key = "successes_per_million_output_tokens" ->
                 row(SuccessesPerMillion(successes, output), Len(completed))

\* The row of one metric of one group.
Aggregate(metric, samples) ==
    LET values == ValuesFor(metric, samples)
    IN  IF metric.key \in AggregateKeys THEN AggregateOnly(metric, samples)
        ELSE Row(IF values = <<>> THEN Unavailable ELSE Combine(values, metric.aggregation),
                 Len(values), Len(samples) - Len(values), values)

AggregateTest(group) == {[key |-> m.key, test |-> group.test, row |-> Aggregate(m, group.samples)]
                            : m \in group.metrics}

\* A run's figure is of all its tests' samples, unless some are cold and some
\* warm: those are never one number.
RunLevel == 0
Contributors(groups, key) == SelectSeq(groups, LAMBDA g : key \in {m.key : m \in g.metrics})
Pooled(groups) == FoldLeft(LAMBDA all, g : all \o g.samples, <<>>, groups)

RunLevelRow(groups, key) ==
    LET contributors == Contributors(groups, key)
        samples == Pooled(contributors)
        metric == CHOOSE m \in Head(contributors).metrics : m.key = key
        classes == {contributors[i].class : i \in DOMAIN contributors}
    IN  IF Cardinality(classes) > 1
        THEN Row(Unavailable, Len(Completed(samples)), Len(samples) - Len(Completed(samples)), <<>>)
        ELSE Aggregate(metric, samples)

DeclaredKeys(groups) == {m.key : m \in UNION {groups[i].metrics : i \in DOMAIN groups}}
AggregateRun(groups) ==
    UNION {AggregateTest(groups[i]) : i \in DOMAIN groups}
        \cup {[key |-> k, test |-> RunLevel, row |-> RunLevelRow(groups, k)] : k \in DeclaredKeys(groups)}
=============================================================================
