---------------------------- MODULE Calibration ----------------------------
(***************************************************************************)
(* A goal's calibration (services/calibration.py): the author grades       *)
(* samples, a calibration splits the graded ones, records the split, lets  *)
(* the jury grade the held-out half sample by sample and stores one        *)
(* report.  Two calibrations may run at once, and either may be cut off    *)
(* between any two of its transactions.                                    *)
(***************************************************************************)
EXTENDS Agreement, SequencesExt

CONSTANTS
    Samples,        \* calibration samples that may be added
    Judged,         \* criteria of rung 4, graded by the author and by the jury
    Weights,        \* the weight of every criterion of the goal
    Grades,         \* the grades in use, within 1 .. Points
    Points,
    MinSamples, MinAgreement, Fraction, Target,  \* the goal's calibration policy
    Workers,        \* requests and terminals that may calibrate
    MaxEdits        \* bound: edits of the rubric

ASSUME CalibrationAssumption ==
    /\ Judged \subseteq DOMAIN Weights /\ \A k \in DOMAIN Weights : Weights[k] \in Nat \ {0}
    /\ Grades \subseteq 1 .. Points /\ Points >= 3
    /\ Fraction \in 1 .. 99 /\ MinAgreement \in 0 .. 100 /\ Target \in Nat \ {0}

VARIABLES
    label,    \* the stored partition of each sample, "absent" before it is added
    grade,    \* the author's grade per sample and judged criterion, 0 for none
    rubric,   \* stands for the goal's hash
    report,   \* the stored goal-level report
    work      \* each worker's calibration

vars == <<label, grade, rubric, report, work>>

NoReport == [rubric |-> 0, passed |-> FALSE, factor |-> 100, kappa |-> Unmeasured,
             criteria |-> <<>>, holdout |-> {}, shown |-> {}]
Ungraded == [k \in Judged |-> 0]
Idle == [at |-> "idle", rubric |-> 0, author |-> <<>>, holdout |-> {}, left |-> {},
         shown |-> {}, jury |-> <<>>]

Init ==
    /\ label = [s \in Samples |-> "absent"]
    /\ grade = [s \in Samples |-> Ungraded]
    /\ rubric = 1 /\ report = NoReport
    /\ work = [w \in Workers |-> Idle]

\* Pasted, or promoted from a completed sample of a run of the goal.  A text already in the
\* set is not added twice; a new one starts held out.
AddSample(s) ==
    /\ label[s] = "absent"
    /\ label' = [label EXCEPT ![s] = "holdout"]
    /\ UNCHANGED <<grade, rubric, report, work>>

\* Upserted per sample and criterion, at any time.
RecordGrade(s, k) ==
    \E g \in Grades \ {grade[s][k]} :
        /\ label[s] # "absent"
        /\ grade' = [grade EXCEPT ![s][k] = g]
        /\ UNCHANGED <<label, rubric, report, work>>

\* An edit of the pack that keeps its criteria: rows are reconciled, the hash is new.
EditRubric ==
    /\ rubric <= MaxEdits
    /\ rubric' = rubric + 1
    /\ UNCHANGED <<label, grade, report, work>>

-----------------------------------------------------------------------------
\* run_calibration

GradedOf(grades) == {s \in Samples : grades[s] # Ungraded}
GradesFor(grades, k) ==
    LET given == SetToSeq({s \in GradedOf(grades) : grades[s][k] # 0})
    IN  [i \in DOMAIN given |-> grades[given[i]][k]]

\* The median of a sample's grades, rounded half to even.
RepresentativeGrade(given) ==
    LET keys == {k \in Judged : given[k] # 0}
        below(g) == Cardinality({k \in keys : given[k] < g})
        upTo(g) == Cardinality({k \in keys : given[k] <= g})
        middle == {given[k] : k \in {q \in keys : 2 * below(given[q]) <= Cardinality(keys)
                                                  /\ 2 * upTo(given[q]) >= Cardinality(keys)}}
    IN  Round(Min(middle) + Max(middle), 2)

Holdout(grades) ==
    PartitionSamples([s \in GradedOf(grades) |-> RepresentativeGrade(grades[s])], Fraction)

\* The exemplars a calibration's jury is built with, read back from the labels.
ExemplarsBug(w) == {s \in Samples : label[s] = "anchor"}

\* The anchors of the split this calibration computed, whatever is stored by now.
Exemplars(w) == GradedOf(work[w].author) \ work[w].holdout

\* Too few graded samples, or grades of one criterion that do not vary, are refused.
BeginCalibration(w) ==
    /\ work[w].at = "idle"
    /\ Cardinality(GradedOf(grade)) >= MinSamples
    /\ \A k \in Judged : GradesFor(grade, k) = <<>> \/ HasVariance(GradesFor(grade, k))
    /\ work' = [work EXCEPT ![w] = [Idle EXCEPT !.at = "split", !.rubric = rubric,
                                        !.author = grade, !.holdout = Holdout(grade)]]
    /\ UNCHANGED <<label, grade, rubric, report>>

RecordPartition(w) ==
    /\ work[w].at = "split"
    /\ label' = [s \in Samples |->
           IF s \notin GradedOf(work[w].author) THEN label[s]
           ELSE IF s \in work[w].holdout THEN "holdout" ELSE "anchor"]
    /\ work' = [work EXCEPT ![w].at = "judge", ![w].left = work[w].holdout,
                            ![w].jury = [s \in work[w].holdout |-> Ungraded]]
    /\ UNCHANGED <<grade, rubric, report>>

\* The jury grades every judged criterion of one sample, or refuses; 0 is a refusal.
JudgeSample(w) ==
    /\ work[w].at = "judge" /\ work[w].left # {}
    /\ \E given \in [Judged -> Grades \cup {0}] :
           LET s == Min(work[w].left)
           IN  work' = [work EXCEPT ![w].jury[s] = given, ![w].left = @ \ {s},
                                    ![w].shown = @ \cup Exemplars(w)]
    /\ UNCHANGED <<label, grade, rubric, report>>

\* The held-out samples that both graded on one criterion, and the others by the reason
\* they are left out; a criterion that nobody could be compared on is not in the report.
Counted(author, jury, k) == {s \in DOMAIN jury : jury[s][k] # 0 /\ author[s][k] # 0}
ExcludedSamples(author, jury, k) ==
    [s \in DOMAIN jury \ Counted(author, jury, k) |->
        IF jury[s][k] = 0 THEN "refused" ELSE "not_graded_by_author"]

MeasureAgreement(author, jury) ==
    [k \in {q \in Judged : Counted(author, jury, q) # {}} |->
        LET both == SetToSeq(Counted(author, jury, k))
        IN  [agreed |-> AgreementOf([i \in DOMAIN both |-> [author |-> author[both[i]][k],
                                                           jury |-> jury[both[i]][k]]], Points),
             excluded |-> ExcludedSamples(author, jury, k)]]

Outcome(w) ==
    LET measured == MeasureAgreement(work[w].author, work[w].jury)
        kappa(k) == IF k \in DOMAIN measured THEN measured[k].agreed.kappa ELSE Unmeasured
        held(k) == IF k \in DOMAIN measured THEN measured[k].agreed.n ELSE 0
        verdict == VerdictFor(Weights, [k \in Judged |-> kappa(k)], [k \in Judged |-> held(k)],
                              Cardinality(GradedOf(work[w].author)), MinSamples, MinAgreement,
                              Target)
    IN  [rubric |-> work[w].rubric, passed |-> Passed(verdict), factor |-> verdict.factor,
         kappa |-> verdict.kappa, criteria |-> measured,
         holdout |-> work[w].holdout, shown |-> work[w].shown]

\* The goal's reports are replaced whole.
Persist(w) ==
    /\ work[w].at = "judge" /\ work[w].left = {}
    /\ report' = Outcome(w)
    /\ work' = [work EXCEPT ![w] = Idle]
    /\ UNCHANGED <<label, grade, rubric>>

\* The provider fails, the client goes or the process dies.
CalibrationFails(w) ==
    /\ work[w].at # "idle"
    /\ work' = [work EXCEPT ![w] = Idle]
    /\ UNCHANGED <<label, grade, rubric, report>>

\* `goals grade` and `goals calibrate`, and the pages' forms of them.
Author == \E s \in Samples : AddSample(s) \/ \E k \in Judged : RecordGrade(s, k)
Calibrate(w) ==
    \/ BeginCalibration(w) \/ RecordPartition(w) \/ JudgeSample(w)
    \/ Persist(w) \/ CalibrationFails(w)

Next == Author \/ EditRubric \/ \E w \in Workers : Calibrate(w)

Spec == Init /\ [][Next]_vars

-----------------------------------------------------------------------------
\* What a run reads when it binds its jury
AnchorsForSlug == {s \in Samples : label[s] = "anchor"}
ValidityFactorForSlug == report.factor

\* What the pages show: how far the grading is, and the stored report read back.
GradingProgress ==
    LET present == {s \in Samples : label[s] # "absent"}
        given == {p \in present \X Judged : grade[p[1]][p[2]] # 0}
    IN  [expected |-> Cardinality(present) * Cardinality(Judged), recorded |-> Cardinality(given),
         remaining |-> (present \X Judged) \ given]
LatestOutcome ==
    IF report = NoReport THEN {}
    ELSE {[state |-> IF Judged = {} THEN "not_required"
                     ELSE IF report.passed THEN "calibrated" ELSE "uncalibrated",
           kappa |-> report.kappa, factor |-> report.factor,
           criteria |-> report.criteria, judged |-> Cardinality(report.holdout)]}

\* Labels, grades, reports and the calibrations in progress have their shapes, what is
\* graded and what remains add up, and a factor is never below 5 percent.
TypeOK ==
    /\ label \in [Samples -> {"absent", "anchor", "holdout"}]
    /\ grade \in [Samples -> [Judged -> Grades \cup {0}]]
    /\ \A s \in Samples : label[s] = "absent" => grade[s] = Ungraded
    /\ GradingProgress.recorded + Cardinality(GradingProgress.remaining)
           = GradingProgress.expected
    /\ ValidityFactorForSlug \in 5 .. 100 /\ report.holdout \subseteq Samples
    /\ \A w \in Workers : work[w].at \in {"idle", "split", "judge"}

\* The jury of a stored report was shown none of the samples it was measured on, however
\* many calibrations ran at once (_exemplars_from: the two halves of one computation).
JuryNeverSawItsHoldout == report.shown \cap report.holdout = {}

\* A pass, and so all the evidence of a judged goal, rests on at least two held-out
\* samples that both the author and the jury graded, and on agreement at the gate; and
\* every sample held out is counted or named as left out, so none is dropped silently.
PassIsEarned ==
    \A o \in LatestOutcome :
        /\ o.state = "calibrated" => /\ o.kappa >= MinAgreement
                                     /\ \E k \in DOMAIN o.criteria : o.criteria[k].agreed.n >= 2
        /\ \A k \in DOMAIN o.criteria :
               o.criteria[k].agreed.n + Cardinality(DOMAIN o.criteria[k].excluded) = o.judged

\* anchors_for: "There is no code path from a holdout sample to a judge prompt, which is
\* what makes 'the holdout is never shown to the jury' a property of the program".  The
\* anchors a run reads are none of the samples its stored agreement was measured on.
HoldoutNeverShown == AnchorsForSlug \cap report.holdout = {}
=============================================================================
