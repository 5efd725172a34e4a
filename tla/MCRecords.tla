------------------------------ MODULE MCRecords ------------------------------
(***************************************************************************)
(* Calibration, jury, judged run and evidence side by side for TLC.  They  *)
(* are checked one per behaviour: the initial state chooses which moves.   *)
(***************************************************************************)
EXTENDS Calibration

CONSTANTS Cases, CasesOf, Rubrics, Gates, Graders, MaxAttempts,
          Models, Candidate, Requests, Sizes, Repetitions, References,
          Offers, NameOnly, Tuned, Sources, Goals, GoalWeight, Calibrations, Policies,
          MaxChanges, Recomputers

VARIABLES moving,
          pack, stored, run, sample, rows, metrics, derived, grading,
          listed, settings, mode, bias, jury, verdicts, outcome,
          runs, reports, goals, policy, now, evidence, pending, changes

goalRun == <<pack, stored, run, sample, rows, metrics, derived, grading>>
juryVars == <<listed, settings, mode, bias, jury, verdicts, outcome>>
evidenceVars == <<runs, reports, goals, policy, now, evidence, pending, changes>>

G == INSTANCE GoalRun WITH Samples <- Cases, evidence <- derived
J == INSTANCE Jury
E == INSTANCE Evidence

\* A provider lists finitely many models and a goal names finitely many; whoever is
\* asked is asked at least once.
ASSUME JuryAssumption ==
    /\ IsFiniteSet(Models) /\ \A q \in Requests : IsFiniteSet(DOMAIN q)
    /\ Repetitions \in Nat \ {0}

\* Metrics are numbers and no dispersion is negative; the mapping is one that the parser
\* accepts; neither it nor a goal names a goal as a capability; settings and reports are
\* within their bounds.
ASSUME EvidenceAssumption ==
    /\ \A o \in Offers : /\ o.metric.value \in Int /\ o.metric.samples \in Nat
                         /\ o.metric.dispersion \in Nat \cup {Unmeasured}
    /\ E!ParseMapping(Sources)
    /\ \A c \in DOMAIN Sources :
          /\ c \notin DOMAIN Goals /\ IsFiniteSet(Sources[c])
          /\ \A s \in Sources[c] : s.weight \in Int /\ s.full \in Int /\ s.zero \in Int
    /\ \A g \in DOMAIN Goals : 0 \notin DOMAIN Goals[g]
    /\ \A g \in DOMAIN Goals : \A v \in DOMAIN Goals[g] : Goals[g][v].contributesTo \notin DOMAIN Goals
    /\ GoalWeight \in Nat \ {0}
    /\ \A c \in Calibrations : c.goal \in DOMAIN Goals /\ c.factor \in 0 .. 100
    /\ \A p \in Policies : p.target \in Nat \ {0}

GoalWeights == [k \in {"judged", "rule"} |-> 1]
PackVersions == <<[rule |-> "rule", jury |-> "judge", human |-> "human"],
                  [rule |-> "rule", jury |-> "judge"]>>
\* The second version is without the criterion of a person and without one of the cases.
PackCases == <<{"long", "short"}, {"short"}>>
JurorRequests == {<<>>, <<2, 1>>, <<3>>}

\* One base and its adapter; a suite of quality in two versions, one of speed after the
\* driver changed, and a judged goal that also feeds a capability.
Old == [major |-> 1, minor |-> 0, driver |-> "d1", cuda |-> "c"]
New == [major |-> 2, minor |-> 0, driver |-> "d2", cuda |-> "c"]
Metric(value, samples, dispersion) == [value |-> value, samples |-> samples, dispersion |-> dispersion]
Offer(subject, suite, version, env, metric) ==
    [subject |-> subject, suite |-> suite, version |-> version, env |-> env, metric |-> metric]
CompletedRuns ==
    {Offer("base", "tools", 1, Old, Metric(80, 30, 60)), Offer("base", "tools", 2, Old, Metric(20, 0, Unmeasured)),
     Offer("tuned", "speed", 1, New, Metric(50, 30, 20)),
     Offer("base", "goal", 1, Old, Metric(90, 8, 0))}
Source(suite, weight, full, quality) ==
    [suite |-> suite, weight |-> weight, full |-> full, zero |-> 0, ratio |-> quality,
     higherIsBetter |-> TRUE, quality |-> quality]
CapabilitySources == [using_tools |-> {Source("tools", 2, 0, TRUE), Source("speed", 1, 100, FALSE)},
                      writing |-> {Source("goal", 1, 0, TRUE)}]
\* The second version has its judged criterion under another key, the third has none.
RubricOf(judged) == [keys |-> {"length"} \cup judged, judged |-> judged, contributesTo |-> "using_tools"]
JudgedGoal == [goal |-> <<RubricOf({"tone"}), RubricOf({"style"}), RubricOf({})>>]
Report(version, passed, factor, measured) ==
    [goal |-> "goal", version |-> version, passed |-> passed, factor |-> factor, measured |-> measured]
GoalReports == {Report(1, TRUE, 60, {"tone"}), Report(1, FALSE, 5, {"tone"}), Report(2, TRUE, 100, {"style"})}
TwoPolicies == {[version |-> "shipped", target |-> 30], [version |-> "edited", target |-> 4]}

\* What does not move is at one fixed initial state.
MCInit ==
    /\ moving \in {"calibration", "goal run", "jury", "evidence"}
    /\ Init /\ G!Init /\ J!Init /\ E!Init
    /\ moving # "jury" => listed = {} /\ settings = [requested |-> <<>>, size |-> Min(Sizes),
                                                     refuseSelf |-> TRUE]
                          /\ mode = "absolute"
    /\ moving # "goal run" => stored = 0
    /\ policy.version = "shipped" /\ goals["goal"].rubric = 1

MCNext ==
    /\ UNCHANGED moving
    /\ \/ moving = "calibration" /\ Next /\ UNCHANGED <<goalRun, juryVars, evidenceVars>>
       \/ moving = "goal run" /\ G!Next /\ UNCHANGED <<vars, juryVars, evidenceVars>>
       \/ moving = "jury" /\ J!Next /\ UNCHANGED <<vars, goalRun, evidenceVars>>
       \/ moving = "evidence" /\ E!Next /\ UNCHANGED <<vars, goalRun, juryVars>>

\* Whoever calibrates or grades is as good as another.
Symmetry == Permutations(Workers) \cup Permutations(Graders)

MCSpec == MCInit /\ [][MCNext]_<<moving, vars, goalRun, juryVars, evidenceVars>>

-----------------------------------------------------------------------------
\* The components' states have their shapes.
MCTypeOK == TypeOK /\ G!TypeOK /\ J!TypeOK /\ E!TypeOK

\* A calibration that passed earned it: its jury was shown none of the samples it was
\* measured on, and it was measured on enough of them (run_calibration, measure_agreement).
ReportsAreEarned == JuryNeverSawItsHoldout /\ PassIsEarned
\* A judged sample counts for nothing until the jury has answered, and its score is that
\* of the rows stored with it from then on, whoever dies, edits or grades (GoalRun).
GradesAreKept == G!WaitingIsUnscored /\ G!ScoreFollowsRows
\* A person's grade changes human criteria only (GoalRun).
GradesTouchHumanRowsOnly == G!GradesTouchHumanRowsOnly
\* No juror is one that the settings refuse, a short jury says that it is short, and
\* what a juror refused to answer moves no outcome (Jury).
JuriesAreHonest == J!JurorsAreEligible /\ J!RefusalsNeverCount
\* A subject has one record per capability, of one measurement; a goal whose rows had a
\* judged criterion when they were read rests on a report that passed for the rubric of
\* its runs; and no figure leaves its bounds (Evidence).
EvidenceIsSound == E!RecordsAreWhole /\ E!JudgedIsCalibrated /\ E!FiguresAreBounded
-----------------------------------------------------------------------------
(* What the code says of itself and does not do.                           *)

\* A completed run has no sample that waits for the jury (GoalRun).
CompletedIsJudged == G!CompletedIsJudged
\* The metrics are those of the samples once no request is under way (GoalRun).
MetricsFollowGrades == G!MetricsFollowGrades
\* A jury of biased jurors leaves the candidate at even odds (Jury).
PositionBiasCancels == J!PositionBiasCancels
\* A capability never rests on a goal alone (Evidence).
GoalIsNeverAlone == E!GoalIsNeverAlone
=============================================================================
