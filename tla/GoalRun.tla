------------------------------- MODULE GoalRun -------------------------------
(***************************************************************************)
(* One run of a judged goal, from its generation to the last human grade.  *)
(* Generation scores the rules and leaves the judged criteria to a second  *)
(* phase (services/runs.py, benchmarks/goal); a person grades the human    *)
(* criteria of the completed run (services/calibration.py); the run's      *)
(* metrics and the evidence follow.  The pack on disk may change under it. *)
(* Scores are whole percents, the weights of the criteria are equal.       *)
(***************************************************************************)
EXTENDS Agreement

CONSTANTS
    Samples,      \* the cases that some version of the pack has
    CasesOf,      \* the cases of each version of the pack
    Rubrics,      \* rung of each criterion, for each version of the pack
    Gates,        \* criteria of a rule that zero a sample
    Graders,      \* requests that may record human grades
    MaxAttempts   \* bound: how often the run may be attempted

VARIABLES
    pack,      \* the version of the pack on disk
    stored,    \* the version of the goal's rows, 0 before the goal is stored
    run,       \* [status, attempts, phase, tested, rubric, jury, known, gone]: whether its test
               \* has ended, and of this attempt the version bound, whether there is a jury, the
               \* criteria whose row ids it read and those of them deleted since
    sample,    \* [status, outcomes, score] of each sample
    rows,      \* the criterion_scores rows of each sample
    metrics,   \* what the aggregation wrote: the composites, and the observed residency
    evidence,  \* the metrics that the evidence was computed from
    grading    \* each grader's request: [at, scores]

vars == <<pack, stored, run, sample, rows, metrics, evidence, grading>>

Measured == 1   \* the version of the pack that the run was submitted for
Skipped == [status |-> "skipped", score |-> Unmeasured, gated |-> FALSE]
Broken == [status |-> "error", score |-> Unmeasured, gated |-> FALSE]
Scored(k, n) == [status |-> "scored", score |-> n, gated |-> k \in Gates /\ n < 100]
Absent == [status |-> "absent", outcomes |-> <<>>, score |-> Unmeasured]
NoMetrics == [scores |-> {}, residency |-> FALSE]
NoOne == [at |-> "idle", scores |-> {}]

Rung(version, k) == Rubrics[version][k]
Criteria(version) == DOMAIN Rubrics[version]
OfRung(version, rung) == {k \in Criteria(version) : Rung(version, k) = rung}

Init ==
    /\ pack = Measured /\ stored \in {0, Measured}
    /\ run = [status |-> "queued", attempts |-> 0, phase |-> "none", tested |-> FALSE,
              rubric |-> Measured, jury |-> FALSE, known |-> {}, gone |-> {}]
    /\ sample = [s \in Samples |-> Absent]
    /\ rows = [s \in Samples |-> <<>>]
    /\ metrics = NoMetrics /\ evidence = NoMetrics
    /\ grading = [g \in Graders |-> NoOne]

-----------------------------------------------------------------------------
\* Scoring

Contributing(outcomes) == {k \in DOMAIN outcomes : outcomes[k].status = "scored"}

\* The mean of what was scored; a gate that fired makes it nothing.
CompositeScore(outcomes) ==
    LET counted == Contributing(outcomes)
    IN  IF \E k \in DOMAIN outcomes : outcomes[k].gated THEN 0
        ELSE IF counted = {} THEN Unmeasured
        ELSE SumOver(counted, LAMBDA k : outcomes[k].score) \div Cardinality(counted)

Combined(outcomes) ==
    LET score == CompositeScore(outcomes)
    IN  [status |-> IF score = Unmeasured THEN "failed" ELSE "completed",
         outcomes |-> outcomes, score |-> score]

\* A rule scores, or it breaks, times out or is not supported; a person's grade is pending.
RuleOutcomes(k) == {Scored(k, 0), Scored(k, 100), Broken}
Generated(version) ==
    {o \in [Criteria(version) -> {Skipped} \cup UNION {RuleOutcomes(k) : k \in Criteria(version)}] :
        \A k \in Criteria(version) :
            IF Rung(version, k) = "rule" THEN o[k] \in RuleOutcomes(k) ELSE o[k] = Skipped}

\* Rows are of the criteria whose ids the attempt read; the insert of one whose id is gone
\* violates the foreign key, also when a criterion of that name has been stored again.
CriterionRows(outcomes) == [k \in DOMAIN outcomes \cap run.known |-> outcomes[k]]
RowsFit(outcomes) == DOMAIN outcomes \cap run.gone = {}

-----------------------------------------------------------------------------
\* The executor

\* The context is read, the suite taken from the registry of the packs on disk, and the jury
\* bound; it is not when the rubric has nothing to judge or the provider lists no models.
Attempt ==
    /\ run.status \in {"queued", "interrupted"} /\ run.attempts < MaxAttempts
    /\ \E reachable \in BOOLEAN :
          run' = [status |-> "running", attempts |-> run.attempts + 1, phase |-> "generate",
                  tested |-> run.tested, rubric |-> pack,
                  jury |-> reachable /\ OfRung(pack, "judge") # {},
                  known |-> IF stored = 0 THEN {} ELSE Criteria(stored), gone |-> {}]
    /\ UNCHANGED <<pack, stored, sample, rows, metrics, evidence, grading>>

\* A test that ended in an earlier attempt is skipped.
Generating == run.status = "running" /\ run.phase = "generate" /\ ~run.tested
ToGenerate(s) == Generating /\ s \in CasesOf[run.rubric] /\ sample[s] = Absent

\* Rows are stored before the jury has spoken.
RunOneCaseBug(s) ==
    /\ ToGenerate(s)
    /\ \E o \in Generated(run.rubric) :
          /\ sample' = [sample EXCEPT ![s] = IF run.jury THEN [Combined(o) EXCEPT !.status = "awaiting"]
                                             ELSE Combined(o)]
          /\ rows' = [rows EXCEPT ![s] = CriterionRows(o)]
    /\ UNCHANGED <<pack, stored, run, metrics, evidence, grading>>

\* A stored sample is not generated again.  One with judged criteria waits for the jury,
\* unscored and without rows, unless there is no jury to wait for; one whose generation or
\* scorer failed is stored with neither.
RunOneCase(s) ==
    /\ ToGenerate(s)
    /\ \/ \E o \in Generated(run.rubric) :
              IF run.jury
              THEN /\ sample' = [sample EXCEPT ![s] = [status |-> "awaiting", outcomes |-> o,
                                                        score |-> Unmeasured]]
                   /\ UNCHANGED rows
              ELSE /\ RowsFit(o)
                   /\ sample' = [sample EXCEPT ![s] = Combined(o)]
                   /\ rows' = [rows EXCEPT ![s] = CriterionRows(o)]
       \/ /\ sample' = [sample EXCEPT ![s].status = "failed"]
          /\ UNCHANGED rows
    /\ UNCHANGED <<pack, stored, run, metrics, evidence, grading>>

AfterTest == [run EXCEPT !.tested = TRUE, !.phase = IF run.jury THEN "judge" ELSE "aggregate"]

\* Storing a case fails: the test has failed with the cases it has, and the run goes on.
TestFails(s) ==
    /\ ToGenerate(s) /\ ~run.jury
    /\ \E o \in Generated(run.rubric) : ~RowsFit(o)
    /\ run' = AfterTest
    /\ UNCHANGED <<pack, stored, sample, rows, metrics, evidence, grading>>

GenerationEnds ==
    /\ run.status = "running" /\ run.phase = "generate"
    /\ run.tested \/ \A s \in CasesOf[run.rubric] : sample[s] # Absent
    /\ run' = AfterTest
    /\ UNCHANGED <<pack, stored, sample, rows, metrics, evidence, grading>>

\* finish_deferred: the stored outcomes of the rules, the jury's of the judged criteria.
FinishDeferred(s, judged) ==
    [k \in Criteria(run.rubric) |->
        IF Rung(run.rubric, k) = "judge" THEN judged[k]
        ELSE IF k \in DOMAIN sample[s].outcomes THEN sample[s].outcomes[k] ELSE Skipped]

\* A sample of a case that the suite bound no longer has is passed over.
ToJudge == {s \in CasesOf[run.rubric] : sample[s].status = "awaiting"}
Verdicts == [OfRung(run.rubric, "judge") -> {0, 100, Unmeasured}]
JudgedOutcomes(s, judged) ==
    FinishDeferred(s, [k \in DOMAIN judged |->
        IF judged[k] = Unmeasured THEN Skipped ELSE Scored(k, judged[k])])

\* The jury grades or refuses each criterion; if it breaks, the sample fails with no verdict.
JudgePending(s) ==
    /\ run.status = "running" /\ run.phase = "judge" /\ s \in ToJudge
    /\ \/ \E judged \in Verdicts :
              LET o == JudgedOutcomes(s, judged)
              IN  /\ RowsFit(o)
                  /\ sample' = [sample EXCEPT ![s] = Combined(o)]
                  /\ rows' = [rows EXCEPT ![s] = CriterionRows(o)]
       \/ /\ sample' = [sample EXCEPT ![s].status = "failed"]
          /\ UNCHANGED rows
    /\ UNCHANGED <<pack, stored, run, metrics, evidence, grading>>

\* Storing a verdict is not guarded as the jury is: its failure is the run's.
JudgingFails(s) ==
    /\ run.status = "running" /\ run.phase = "judge" /\ s \in ToJudge
    /\ \E judged \in Verdicts : ~RowsFit(JudgedOutcomes(s, judged))
    /\ run' = [run EXCEPT !.status = "failed", !.phase = "none"]
    /\ UNCHANGED <<pack, stored, sample, rows, metrics, evidence, grading>>

JudgingEnds ==
    /\ run.status = "running" /\ run.phase = "judge" /\ ToJudge = {}
    /\ run' = [run EXCEPT !.phase = "aggregate"]
    /\ UNCHANGED <<pack, stored, sample, rows, metrics, evidence, grading>>

\* The composites that the run's mean is taken over.
StoredScores == {<<s, sample[s].score>> : s \in {q \in Samples : sample[q].score # Unmeasured}}

\* The residency of the model is what this attempt saw, if it saw anything.
AggregateRun ==
    /\ run.status = "running" /\ run.phase = "aggregate"
    /\ \E seen \in BOOLEAN : metrics' = [scores |-> StoredScores, residency |-> seen]
    /\ run' = [run EXCEPT !.phase = "finish"]
    /\ UNCHANGED <<pack, stored, sample, rows, evidence, grading>>

Finish ==
    /\ run.status = "running" /\ run.phase = "finish"
    /\ run' = [run EXCEPT !.status = "completed", !.phase = "evidence"]
    /\ UNCHANGED <<pack, stored, sample, rows, metrics, evidence, grading>>

\* A failure of the refresh is logged and the run stays completed.
RefreshEvidence ==
    /\ run.status = "completed" /\ run.phase = "evidence"
    /\ run' = [run EXCEPT !.phase = "none"]
    /\ evidence' \in {evidence, metrics}
    /\ UNCHANGED <<pack, stored, sample, rows, metrics, grading>>

\* The process dies; recovery marks the run, and somebody resumes it by hand.
Interrupt ==
    /\ run.status = "running"
    /\ run' = [run EXCEPT !.status = "interrupted", !.phase = "none", !.jury = FALSE]
    /\ UNCHANGED <<pack, stored, sample, rows, metrics, evidence, grading>>

-----------------------------------------------------------------------------
\* The pack

EditPack ==
    /\ pack' \in DOMAIN Rubrics \ {pack}
    /\ UNCHANGED <<stored, run, sample, rows, metrics, evidence, grading>>

\* Rows of criteria that the pack no longer has go, and the scores recorded for them; those
\* it still has keep their ids.
SyncGoal ==
    /\ stored # pack /\ stored' = pack
    /\ run' = [run EXCEPT !.gone = @ \cup (run.known \ Criteria(pack))]
    /\ rows' = [s \in Samples |-> [k \in DOMAIN rows[s] \cap Criteria(pack) |-> rows[s][k]]]
    /\ UNCHANGED <<pack, sample, metrics, evidence, grading>>

-----------------------------------------------------------------------------
\* Human grades

\* Only what the rules and the jury left to a person.
HumanCriteriaBug == Criteria(stored)
HumanCriteria == OfRung(stored, "human")

\* The goal's rows must be of the version that the run measured.
Gradeable == run.status = "completed" /\ stored = Measured
GradeableSamples == {s \in Samples : sample[s].status = "completed"}

\* One transaction: the criterion's row and the composite over the sample's rows.
RecordRunGrades(g, s, k) ==
    \E grade \in {0, 100} :
        LET outcomes == [rows[s] EXCEPT ![k] = [status |-> "scored", score |-> grade,
                                                gated |-> rows[s][k].gated]]
        IN  /\ grading[g] = NoOne /\ Gradeable /\ k \in HumanCriteria
            /\ s \in GradeableSamples /\ k \in DOMAIN rows[s]
            /\ rows[s][k].score # grade
            /\ rows' = [rows EXCEPT ![s] = outcomes]
            /\ sample' = [sample EXCEPT ![s].score = CompositeScore(outcomes)]
            /\ grading' = [grading EXCEPT ![g].at = "read"]
            /\ UNCHANGED <<pack, stored, run, metrics, evidence>>

\* The run's metrics are read from its samples, and replaced whole in a transaction of
\* their own; this request has observed no residency.
ReadScores(g) ==
    /\ grading[g].at = "read"
    /\ grading' = [grading EXCEPT ![g] = [at |-> "write", scores |-> StoredScores]]
    /\ UNCHANGED <<pack, stored, run, sample, rows, metrics, evidence>>

ReaggregateRun(g) ==
    /\ grading[g].at = "write"
    /\ metrics' = [scores |-> grading[g].scores, residency |-> FALSE]
    /\ grading' = [grading EXCEPT ![g].at = "evidence"]
    /\ UNCHANGED <<pack, stored, run, sample, rows, evidence>>

RecomputeForRun(g) ==
    /\ grading[g].at = "evidence"
    /\ evidence' = metrics
    /\ grading' = [grading EXCEPT ![g] = NoOne]
    /\ UNCHANGED <<pack, stored, run, sample, rows, metrics>>

Grade(g) ==
    \/ \E s \in Samples : \E k \in DOMAIN rows[s] \cap Criteria(Measured) : RecordRunGrades(g, s, k)
    \/ ReadScores(g) \/ ReaggregateRun(g) \/ RecomputeForRun(g)

\* The view of the grading page: how much is expected and how much is there.
RunGradingView ==
    LET human == OfRung(Measured, "human")
        done == {p \in GradeableSamples \X human :
                    p[2] \in DOMAIN rows[p[1]] /\ rows[p[1]][p[2]].status = "scored"}
    IN  [expected |-> Cardinality(GradeableSamples \X human), recorded |-> Cardinality(done)]

Execute ==
    \/ Attempt \/ GenerationEnds \/ JudgingEnds \/ AggregateRun \/ Finish \/ RefreshEvidence
    \/ \E s \in Samples : RunOneCase(s) \/ TestFails(s) \/ JudgePending(s) \/ JudgingFails(s)

Next == Execute \/ Interrupt \/ EditPack \/ SyncGoal \/ \E g \in Graders : Grade(g)

Spec == Init /\ [][Next]_vars

-----------------------------------------------------------------------------
\* The run, its samples and what is derived from them have their shapes.
TypeOK ==
    /\ run.status \in {"queued", "running", "interrupted", "completed", "failed"}
    /\ run.attempts \in 0 .. MaxAttempts
    /\ \A s \in Samples :
          /\ sample[s].status \in {"absent", "awaiting", "completed", "failed"}
          /\ sample[s].score \in {Unmeasured} \cup 0 .. 100
    /\ RunGradingView.recorded <= RunGradingView.expected
    /\ \A g \in Graders : grading[g].at \in {"idle", "read", "write", "evidence"}

\* A sample that waits for the jury has no score and no rows, however often the run was cut
\* off, and a completed run leaves one waiting only when its last attempt had no jury or the
\* pack it was bound to no longer had that case.
WaitingIsUnscored ==
    /\ \A s \in Samples : sample[s].status \in {"absent", "awaiting"} =>
           sample[s].score = Unmeasured /\ rows[s] = <<>>
    /\ run.status = "completed" /\ run.jury => ToJudge = {}

\* The score of a completed sample is the composite of its rows, after every grade and every
\* attempt, as long as it has all the rows of its outcomes.
ScoreFollowsRows ==
    \A s \in Samples :
        sample[s].status = "completed" /\ DOMAIN rows[s] = DOMAIN sample[s].outcomes =>
            sample[s].score = CompositeScore(rows[s])

\* A person's grade changes human criteria only: what the rules and the jury measured stays.
GradesTouchHumanRowsOnly ==
    [][run.status = "completed" /\ stored' = stored =>
           \A s \in Samples : \A k \in DOMAIN rows[s] :
               rows'[s][k] # rows[s][k] => Rung(Measured, k) = "human"]_vars

\* _judge_pending: "a run that completed with samples still awaiting judgement would be a
\* run whose own status lied".
CompletedIsJudged ==
    run.status = "completed" => \A s \in Samples : sample[s].status # "awaiting"

\* _RunContext: "a goal's criteria do not change during a run".
CriteriaStay == run.status = "running" => run.gone = {}

\* record_run_grades: "the run's aggregate metrics are rewritten from its samples, and the
\* subject's capability evidence is recomputed".  When no request is under way, they are.
MetricsFollowGrades ==
    run.status = "completed" /\ (\A g \in Graders : grading[g] = NoOne)
        => metrics.scores = StoredScores
=============================================================================
