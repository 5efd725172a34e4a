------------------------------- MODULE Schema -------------------------------
\* The tables of infrastructure/db and what a deletion does along their foreign
\* keys. One definition per table: the references a row of it holds, and what the
\* database does to the row when the row it refers to goes.
EXTENDS FiniteSets, Naturals

\* A needed reference is NOT NULL; one that is not needed may be absent.
Restricts(t) == [parent |-> t, onDelete |-> "restrict", needed |-> TRUE]
Cascades(t) == [parent |-> t, onDelete |-> "cascade", needed |-> TRUE]
MayRestrict(t) == [parent |-> t, onDelete |-> "restrict", needed |-> FALSE]
MayCascade(t) == [parent |-> t, onDelete |-> "cascade", needed |-> FALSE]
SetNull(t) == [parent |-> t, onDelete |-> "null", needed |-> FALSE]

Machine == {}
Model == {}
Adapter == {}
ModelDescriptor == {Restricts("models")}
RuntimeProfile == {}
Setting == {}
ApiToken == {}

BenchmarkSuite == {}
BenchmarkTestRow == {Cascades("benchmark_suites")}
Run == {Restricts(t) : t \in {"machines", "models", "model_descriptors",
                             "runtime_profiles", "benchmark_suites"}}
       \cup {MayRestrict("adapters")}
RunTest == {Cascades("runs"), Restricts("benchmark_tests")}
Sample == {Cascades("run_tests"), MayRestrict("models")}
ToolCall == {Cascades("samples")}
MetricValue == {Cascades("runs"), MayCascade("run_tests"), MayCascade("samples")}
RunEvent == {Cascades("runs")}
Artifact == {Cascades("runs"), MayCascade("run_tests"), MayCascade("samples")}
TelemetrySample == {Cascades("runs")}
TelemetryGpuSample == {Cascades("telemetry_samples"), Cascades("runs")}

Goal == {}
GoalCriterion == {Cascades("goals")}
GoalTaskRow == {Cascades("goals")}
CriterionScore == {Cascades("samples"), Cascades("goal_criteria")}
CalibrationSample ==
    {Cascades("goals"), SetNull("goal_tasks"), SetNull("models"), SetNull("samples")}
CalibrationGrade == {Cascades("calibration_samples"), Cascades("goal_criteria")}
CalibrationReport == {Cascades("goals"), MayCascade("goal_criteria")}
JudgeVerdict == {Cascades("criterion_scores"), SetNull("models")}
WizardDraft == {}
CapabilityEvidence ==
    {Restricts(t) : t \in {"models", "runtime_profiles", "machines"}}
    \cup {MayRestrict("adapters"), SetNull("model_descriptors"), SetNull("goals")}

References ==
    [machines |-> Machine, models |-> Model, adapters |-> Adapter,
     model_descriptors |-> ModelDescriptor, runtime_profiles |-> RuntimeProfile,
     settings |-> Setting, api_tokens |-> ApiToken,
     benchmark_suites |-> BenchmarkSuite, benchmark_tests |-> BenchmarkTestRow,
     runs |-> Run, run_tests |-> RunTest, samples |-> Sample,
     tool_calls |-> ToolCall, metric_values |-> MetricValue,
     run_events |-> RunEvent, artifacts |-> Artifact,
     telemetry_samples |-> TelemetrySample,
     telemetry_gpu_samples |-> TelemetryGpuSample,
     goals |-> Goal, goal_criteria |-> GoalCriterion, goal_tasks |-> GoalTaskRow,
     criterion_scores |-> CriterionScore,
     calibration_samples |-> CalibrationSample,
     calibration_grades |-> CalibrationGrade,
     calibration_reports |-> CalibrationReport,
     judge_verdicts |-> JudgeVerdict, wizard_drafts |-> WizardDraft,
     capability_evidence |-> CapabilityEvidence]

Tables == DOMAIN References

\* The tables whose rows go with the row of t that they refer to. A reference that
\* may be absent is: nothing stores a metric or an artifact of a sample, and those
\* of a run's test name their run too.
CascadesFrom(t) ==
    {c \in Tables : \E ref \in References[c] : ref.parent = t /\ ref.onDelete = "cascade" /\ ref.needed}

\* Every table a deletion from t reaches, along any number of references.
Reaches ==
    LET within[n \in 0 .. Cardinality(Tables)] ==
            IF n = 0 THEN [t \in Tables |-> CascadesFrom(t)]
            ELSE [t \in Tables |->
                      within[n - 1][t] \cup UNION {within[n - 1][c] : c \in CascadesFrom(t)}]
    IN  within[Cardinality(Tables)]

\* What goes with a row of a run's tables, written out.
ASSUME ReachesAssumption ==
    /\ Reaches["runs"] =
          {"run_tests", "samples", "tool_calls", "criterion_scores", "judge_verdicts", "metric_values",
           "run_events", "artifacts", "telemetry_samples", "telemetry_gpu_samples"}
    /\ Reaches["run_tests"] = {"samples", "tool_calls", "criterion_scores", "judge_verdicts"}
    /\ Reaches["samples"] = {"tool_calls", "criterion_scores", "judge_verdicts"}
    /\ Reaches["criterion_scores"] = {"judge_verdicts"}
    /\ Reaches["telemetry_samples"] = {"telemetry_gpu_samples"}
    /\ \A t \in {"judge_verdicts", "tool_calls", "metric_values", "telemetry_gpu_samples",
                 "artifacts", "run_events"} : Reaches[t] = {}
=============================================================================
