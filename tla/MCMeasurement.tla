--------------------------- MODULE MCMeasurement --------------------------
(***************************************************************************)
(* What is measured, for TLC, by what a behaviour is about: how a test's   *)
(* samples are taken (ContextFit), how the machine is watched meanwhile    *)
(* (Telemetry), what becomes of a run's samples when they are aggregated,  *)
(* and what becomes of one series of measurements when it is summarised    *)
(* (Aggregation).  The last two add one sample at a time.                  *)
(***************************************************************************)
EXTENDS ContextFit, Telemetry

CONSTANTS MaxSamples, MaxSeries  \* samples of a run, measurements of a series
VARIABLES part, groups, series

A == INSTANCE Aggregation

\* Two doubling rungs and a configured ceiling that tops them off the steps of two:
\* the wider gap is seven steps and a half, which three follow-ups narrow.
CappedLadder == <<8, 16, 31>>

\* The wait is switched off where the recording is on: neither reads the other.
MCConfigs ==
    {c \in [collector : BOOLEAN, check : BOOLEAN, refuse : BOOLEAN, persist : BOOLEAN, multiGpu : BOOLEAN] :
        /\ c.check => ~c.persist /\ ~c.multiGpu
        /\ ~c.check => ~c.refuse}

\* Quiet; a busy device beside a quiet one; a busy processor; nothing readable; a
\* device that is busier still.
MCWaited ==
    {[cpu |-> 0, gpus |-> [d \in {0} |-> 0]], [cpu |-> 0, gpus |-> [d \in {0, 1} |-> d]],
     [cpu |-> 1, gpus |-> [d \in {0} |-> Unsupported]], [cpu |-> Unsupported, gpus |-> [d \in {} |-> 0]],
     [cpu |-> 0, gpus |-> [d \in {1} |-> 2]]}

\* Both devices; one of them gone, or unreadable; none.
MCRecorded ==
    {[cpu |-> 0, gpus |-> [d \in {0, 1} |-> d + 1]], [cpu |-> 0, gpus |-> [d \in {0} |-> 2]],
     [cpu |-> 0, gpus |-> [d \in {0, 1} |-> d - 1]],
     [cpu |-> 0, gpus |-> [d \in {} |-> 0]]}

None == A!Unsupported
Blank == [status |-> "failed", input |-> None, output |-> None, evalMs |-> None, gaps |-> <<>>,
          tokenLevel |-> FALSE, detail |-> None, length |-> None, share |-> None, score |-> None]
\* A streamed success, a longer case that was wrong and reported no tokens, one
\* measured and not scored, a longer success, and a failure that had recorded.
Facts ==
    {[Blank EXCEPT !.status = "completed", !.input = 2, !.output = 3, !.evalMs = 4, !.gaps = <<8, 1, 3>>,
                   !.tokenLevel = TRUE, !.detail = 5, !.length = 8, !.share = 50, !.score = 1],
     [Blank EXCEPT !.status = "completed", !.input = 4, !.evalMs = 0, !.gaps = <<2>>, !.length = 16, !.score = 0],
     [Blank EXCEPT !.status = "completed", !.output = 0, !.detail = 2],
     [Blank EXCEPT !.status = "completed", !.output = 6, !.length = 32, !.share = 50, !.score = 1],
     [Blank EXCEPT !.input = 9, !.output = 9, !.evalMs = 1, !.gaps = <<9>>, !.detail = 9, !.score = 9]}
Metric(key, aggregation, source) == [key |-> key, aggregation |-> aggregation, source |-> source]
Declared ==
    <<{Metric("prompt_tokens", "sum", "auto"), Metric("prompt_tokens_per_second", "p95", "auto"),
       Metric("inter_token_ms_mean", "max", "auto"), Metric("accuracy", "mean", "score"),
       Metric("case_rate", "mean", "auto")}
          \cup {Metric(k, "mean", "auto") : k \in A!AggregateKeys},
      {Metric("inter_chunk_ms_p95", "mean", "auto"), Metric("accuracy", "mean", "score"),
       Metric("case_rate", "mean", "auto"), Metric("cases", "count", "detail"),
       Metric("events", "raw", "detail"), Metric("output_tokens_per_success", "mean", "auto")}>>
Group(i, class) == [test |-> i, class |-> class, metrics |-> Declared[i], samples |-> <<>>]

MCInit ==
    /\ Init /\ TelemetryInit
    /\ part \in {"fit", "telemetry", "aggregate", "series"}
    /\ groups \in IF part = "aggregate" THEN {<<Group(1, "cold")>>} \cup {<<Group(1, "cold"), Group(2, c)>> : c \in {"cold", "warm"}}
                  ELSE {<<>>}
    /\ series = <<>>
    /\ part # "fit" => trained = (CHOOSE t \in Trained : TRUE)
    /\ part # "telemetry" => config = (CHOOSE c \in Configs : TRUE)

TakeSample ==
    /\ part = "aggregate" /\ Len(A!Pooled(groups)) < MaxSamples
    /\ \E i \in DOMAIN groups, facts \in Facts : groups' = [groups EXCEPT ![i].samples = Append(@, facts)]
    /\ UNCHANGED <<vars, telemetryVars, part, series>>
Measure ==
    /\ part = "series" /\ Len(series) < MaxSeries
    /\ \E measurement \in {None, 0, 1, 2, 9} : series' = Append(series, measurement)
    /\ UNCHANGED <<vars, telemetryVars, part, groups>>

MCNext ==
    \/ part = "fit" /\ Next /\ UNCHANGED <<telemetryVars, part, groups, series>>
    \/ part = "telemetry" /\ TelemetryNext /\ UNCHANGED <<vars, part, groups, series>>
    \/ TakeSample \/ Measure
MCSpec == MCInit /\ [][MCNext]_<<vars, telemetryVars, part, groups, series>>
-----------------------------------------------------------------------------
With(Change(_)) == [i \in DOMAIN groups |-> [groups[i] EXCEPT !.samples = Change(@)]]
Forgotten(samplesOf) == [i \in DOMAIN samplesOf |-> IF samplesOf[i].status = "failed" THEN Blank ELSE samplesOf[i]]
OfKey(rows, key) == {r \in rows : r.key = key}

RowsAreSound(rows) ==
    /\ rows = A!AggregateRun(With(Forgotten))
    /\ rows = A!AggregateRun(With(A!Reverse))
    /\ \A r \in rows :
          LET pooled == A!Pooled(IF r.test = A!RunLevel THEN A!Contributors(groups, r.key) ELSE <<groups[r.test]>>)
              tests == OfKey(rows, r.key) \ {r}
              numbers == {t.row.result : t \in {u \in tests : A!IsNumber(u.row.result)}}
          IN  /\ r.row.samples + r.row.excluded = Len(pooled)
              /\ A!IsNumber(r.row.result) => r.row.samples > 0
              /\ r.test = A!RunLevel =>
                    /\ Cardinality(tests) = 1 => \A t \in tests : t.row = r.row
                    /\ Cardinality({groups[t.test].class : t \in tests}) > 1 => ~A!IsNumber(r.row.result)
                    /\ r.key \in {"accuracy", "case_rate"} /\ A!IsNumber(r.row.result) =>
                          /\ \E a \in numbers : A!AtMost(a, r.row.result)
                          /\ \E a \in numbers : A!AtMost(r.row.result, a)

\* Whatever the samples of a run are: what a failed one had recorded is in no
\* figure; no sample is in both a row's counts and none in neither; the order they
\* were taken in is in no figure; the figure of a run of one test is the test's;
\* a mean of a run lies between its tests'; and cold and warm tests have no common
\* figure (aggregate_run, aggregate_test, _values_for).
AggregatesAreSound == part = "aggregate" => RowsAreSound(A!AggregateRun(groups))

\* The share of the draws of k of the attempts that hold a success.
DrawsWithSuccess(successes, tries, k) ==
    LET draws == {d \in SUBSET (1..tries) : Cardinality(d) = k}
    IN  A!Frac(Cardinality({d \in draws : \E i \in d : i <= successes}), Cardinality(draws))

CaseIsSound(case, summary) ==
    LET measured == Cardinality({i \in DOMAIN series : series[i] # None})
    IN  /\ summary.samples + summary.excluded = Len(series)
        /\ measured > 0 => summary.samples > 0
        /\ \A o \in summary.outliers : 2 * Cardinality({i \in DOMAIN series : series[i] = o.n}) < measured
        /\ summary.samples > 0 =>
              /\ A!AtMost(summary.minimum, summary.p50) /\ A!AtMost(summary.p50, summary.p95)
              /\ A!AtMost(summary.p95, summary.p99) /\ A!AtMost(summary.p99, summary.maximum)
              /\ A!AtMost(summary.minimum, summary.mean) /\ A!AtMost(summary.mean, summary.maximum)
        /\ measured >= 2 => case.passK = DrawsWithSuccess(case.successes, measured, 2)
        /\ measured >= 1 => case.pass1 = A!Frac(case.successes, measured)
        /\ measured < 2 <=> ~A!IsNumber(case.agreement)

\* Whatever was measured: a summary counts every measurement once, as a sample or
\* as excluded, an outlier with the excluded; it never excludes everything that was
\* measured, nor a value that agrees with the most; its quantiles ascend between
\* its extremes; and pass@k is the chance of a draw without replacement
\* (summarize, flag_outliers, pass_at_k, reliability_for_case).
SummariesAreSound ==
    part = "series" =>
        \A policy \in {"report_only", "modified_z_score", "iqr"} :
            \A case \in {A!ReliabilityForCase(series, series, 2, policy)} : CaseIsSound(case, case.summary)
===========================================================================
