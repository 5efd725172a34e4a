------------------------------ MODULE Evidence ------------------------------
(***************************************************************************)
(* Capability evidence (services/evidence.py): completed runs are read     *)
(* back in one transaction and turned into records, and another replaces   *)
(* the stored records, for one subject after a run or a grade, or for all. *)
(* Between the two, runs complete, a goal is edited, calibrated again or   *)
(* deleted, the policy changes and time passes.                            *)
(***************************************************************************)
EXTENDS Confidence, Sequences

CONSTANTS
    Offers,        \* the runs that may complete: [subject, suite, version, env, metric]
    NameOnly,      \* subjects known by name only
    Tuned,         \* subjects that are a base with an adapter
    Sources,       \* the mapping: sources of each capability
    Goals,         \* versions of each goal's rubric: [keys, judged, contributesTo]
    GoalWeight,    \* settings.goal_contribution_weight
    Calibrations,  \* reports that a calibration may store: [goal, version, passed, factor, measured]
    Policies,      \* [version, target]
    MaxChanges,    \* bound on what happens beside the recomputations
    Recomputers

VARIABLES
    runs,      \* the completed runs, by completion
    reports,   \* every report that a calibration stored
    goals,     \* of each goal, the rubric in its rows (0: deleted), its report and the criteria on
               \* which the report still has figures
    policy,    \* of the settings
    now,
    evidence,  \* the stored records
    pending,   \* what each recomputation has computed and not yet written
    changes    \* how much has happened beside the recomputations

vars == <<runs, reports, goals, policy, now, evidence, pending, changes>>

NoWork == [scope |-> "none", policy |-> "none", records |-> {}]
Subjects == {o.subject : o \in Offers}

NoReport == [goal |-> "none", version |-> 0, passed |-> FALSE, factor |-> 0]

Init ==
    /\ runs = <<>> /\ reports = <<>> /\ policy \in Policies /\ now = 0
    /\ \E first \in [DOMAIN Goals -> UNION {DOMAIN Goals[g] : g \in DOMAIN Goals}] :
          /\ \A g \in DOMAIN Goals : first[g] \in DOMAIN Goals[g]
          /\ goals = [g \in DOMAIN Goals |-> [rubric |-> first[g], report |-> NoReport, figures |-> {}]]
    /\ changes = 0 /\ evidence = {} /\ pending = [r \in Recomputers |-> NoWork]

-----------------------------------------------------------------------------
\* Reading the runs back

Environment(i) == runs[i].env
CurrentEnvironment == IF runs = <<>> THEN None ELSE Environment(Len(runs))

\* Runs of another version, dataset or prompt set are another measurement.
PartitionKey(i) == runs[i].version

\* The metric over several runs: weighted by samples over those that measured it.
MergeMetrics(chosen) ==
    LET supported == {i \in chosen : runs[i].metric.value # Unmeasured}
        weight(i) == Max({1, runs[i].metric.samples})
        spread == {i \in supported : runs[i].metric.dispersion # Unmeasured}
        mean(S, f(_)) == IF S = {} THEN Unmeasured
                         ELSE SumOver(S, LAMBDA i : weight(i) * f(i)) \div SumOver(S, weight)
    IN  [value |-> mean(supported, LAMBDA i : runs[i].metric.value),
         samples |-> SumOver(supported, weight),
         dispersion |-> mean(spread, LAMBDA i : runs[i].metric.dispersion)]

\* Per suite, the runs that agree with the newest one.
ReadSubject(subject) ==
    LET own == {i \in DOMAIN runs : runs[i].subject = subject}
        newest(suite) == Max({i \in own : runs[i].suite = suite})
        chosen(suite) == {i \in own : runs[i].suite = suite
                                      /\ PartitionKey(i) = PartitionKey(newest(suite))}
    IN  {[suite |-> s, runs |-> chosen(s), version |-> runs[newest(s)].version,
          at |-> runs[newest(s)].at, newest |-> newest(s), metric |-> MergeMetrics(chosen(s))] :
             s \in {runs[i].suite : i \in own}}

-----------------------------------------------------------------------------
\* Goals

\* The goal and its criteria as their rows are now, whatever rubric the runs measured.
Rubric(g) == Goals[g][goals[g].rubric]
IsJudged(g) == Rubric(g).judged # {}

\* Why a goal whose rows have a judged criterion emits nothing; a report without figures of a
\* criterion that is still there cannot be exported.
GateBug(m) == IF IsJudged(m.suite) /\ goals[m.suite].report = NoReport THEN "CALIBRATION_REQUIRED" ELSE "open"
Gate(m) ==
    LET report == goals[m.suite].report
    IN  IF ~IsJudged(m.suite) THEN "open"
        ELSE IF report = NoReport THEN "CALIBRATION_REQUIRED"
        ELSE IF report.version # m.version THEN "CALIBRATION_STALE"
        ELSE IF ~report.passed THEN "GOAL_UNCALIBRATED"
        ELSE IF report.factor < 100 /\ goals[m.suite].figures = {} THEN "CALIBRATION_REQUIRED"
        ELSE "open"

Factor(g) == IF IsJudged(g) THEN goals[g].report.factor ELSE 100
Emits(m) ==
    /\ m.suite \in DOMAIN Goals /\ goals[m.suite].rubric # 0
    /\ m.metric.value # Unmeasured /\ Gate(m) = "open"

Record(subject, capability, parts, goal, validity, kind) ==
    LET newest == CHOOSE m \in {p.of : p \in parts} : \A p \in parts : p.of.newest <= m.newest
        spread == {p \in parts : p.of.metric.dispersion # Unmeasured}
        facts == [samples |-> SumOver(parts, LAMBDA p : p.of.metric.samples),
                  dispersion |-> IF spread = {} THEN Unmeasured
                                 ELSE SumOver(spread, LAMBDA p : p.weight * p.of.metric.dispersion)
                                          \div SumOver(spread, LAMBDA p : p.weight),
                  at |-> newest.at, kind |-> kind, env |-> Environment(newest.newest),
                  nameOnly |-> subject \in NameOnly, validity |-> validity]
    IN  [subject |-> subject, capability |-> capability, policy |-> policy.version,
         goal |-> goal, computedAt |-> now, at |-> newest.at, kind |-> kind,
         parts |-> parts, score |-> WeightedScore(parts),
         trust |-> ComputeConfidence(facts, now, CurrentEnvironment,
                                     [ConfidencePolicy EXCEPT !.target = policy.target])]

\* What a measurement contributes, as a goal (under the rubric that its rows had) or as a
\* source of the mapping (rubric 0).
Part(m, weight, value, validity, rubric) ==
    [of |-> m, suite |-> m.suite, weight |-> weight, value |-> value, validity |-> validity,
     rubric |-> rubric]
GoalPart(m, weight) ==
    Part(m, weight, Clamp(m.metric.value, 0, 100), Factor(m.suite), goals[m.suite].rubric)

GoalRecords(subject, measured) ==
    {Record(subject, m.suite, {GoalPart(m, 1)}, m.suite, Factor(m.suite), "quality") :
        m \in {q \in measured : Emits(q)}}

-----------------------------------------------------------------------------
\* Capabilities

FromGoals(capability, measured) ==
    {GoalPart(m, GoalWeight) :
        m \in {q \in measured : Emits(q) /\ Rubric(q.suite).contributesTo = capability}}
FromSources(capability, measured) ==
    LET sources == IF capability \in DOMAIN Sources THEN Sources[capability] ELSE {}
        norm(m, s) == NormalizeValue(m.metric.value, s.ratio, s.higherIsBetter, s)
    IN  {Part(p[1], p[2].weight, norm(p[1], p[2]), 100, 0) :
            p \in {q \in measured \X sources :
                      /\ q[1].suite = q[2].suite /\ q[1].metric.value # Unmeasured
                      /\ norm(q[1], q[2]) # Unmeasured}}

KindOf(capability, parts) ==
    LET slow == IF capability \in DOMAIN Sources
                THEN {s.suite : s \in {t \in Sources[capability] : ~t.quality}} ELSE {}
    IN  IF \E p \in parts : p.suite \in slow THEN "performance" ELSE "quality"

\* The record of a capability exists as soon as anything contributes to it.
CapabilityRecords(subject, measured) ==
    LET named == DOMAIN Sources \cup {Rubric(m.suite).contributesTo : m \in {q \in measured : Emits(q)}}
        parts(c) == FromGoals(c, measured) \cup FromSources(c, measured)
        validity(c) == SumOver(parts(c), LAMBDA p : p.weight * p.validity)
                           \div SumOver(parts(c), LAMBDA p : p.weight)
    IN  {Record(subject, c, parts(c), "none", Clamp(validity(c), 5, 100), KindOf(c, parts(c))) :
            c \in {k \in named \ {"none"} : parts(k) # {}}}

RecordsFor(subject) ==
    LET measured == ReadSubject(subject)
    IN  GoalRecords(subject, measured) \cup CapabilityRecords(subject, measured)

-----------------------------------------------------------------------------
\* Recomputing

\* After a run or a grade, for its subject; from the command line, for everybody.
RecomputeEvidence(r, scope) ==
    /\ pending[r] = NoWork
    /\ pending' = [pending EXCEPT ![r] =
           [scope |-> scope, policy |-> policy.version,
            records |-> UNION {RecordsFor(s) : s \in IF scope = "all" THEN Subjects ELSE {scope}}]]
    /\ UNCHANGED <<runs, reports, goals, policy, now, evidence, changes>>

\* The records of the scope under this policy go, whatever they are; an adapter that is
\* absent is matched as absent.
Replaced(e, work) ==
    e.policy = work.policy /\ (work.scope = "all" \/ e.subject = work.scope)

Write(r) ==
    /\ pending[r] # NoWork
    /\ evidence' = {e \in evidence : ~Replaced(e, pending[r])} \cup pending[r].records
    /\ pending' = [pending EXCEPT ![r] = NoWork]
    /\ UNCHANGED <<runs, reports, goals, policy, now, changes>>

\* The refresh after a run is best effort.
RefreshFails(r) ==
    /\ pending[r] # NoWork
    /\ pending' = [pending EXCEPT ![r] = NoWork]
    /\ UNCHANGED <<runs, reports, goals, policy, now, evidence, changes>>

RecomputeForRun(r) == \E i \in DOMAIN runs : RecomputeEvidence(r, runs[i].subject)

-----------------------------------------------------------------------------
\* The rest of the system

Changing == changes < MaxChanges /\ changes' = changes + 1

CompleteRun ==
    /\ Changing
    /\ \E o \in Offers :
          runs' = Append(runs, [subject |-> o.subject, suite |-> o.suite, version |-> o.version,
                                env |-> o.env, metric |-> o.metric, at |-> now])
    /\ UNCHANGED <<reports, goals, policy, now, evidence, pending>>

\* A calibration may have begun under another rubric than the one in the rows; a criterion
\* that is gone cannot be reported on.
StoreReport ==
    /\ Changing
    /\ \E c \in Calibrations :
          /\ goals[c.goal].rubric # 0 /\ c.measured \subseteq Rubric(c.goal).keys
          /\ reports' = Append(reports, c)
          /\ goals' = [goals EXCEPT ![c.goal] =
                          [rubric |-> @.rubric, report |-> c, figures |-> c.measured]]
    /\ UNCHANGED <<runs, policy, now, evidence, pending>>

\* The rows of the criteria that the pack no longer has go, and with them what a report says
\* of these criteria; its verdict on the goal stays.
SyncGoal(g) ==
    /\ goals[g].rubric # 0 /\ Changing
    /\ \E v \in DOMAIN Goals[g] \ {goals[g].rubric} :
          goals' = [goals EXCEPT ![g] =
                       [rubric |-> v, report |-> @.report, figures |-> @.figures \cap Goals[g][v].keys]]
    /\ UNCHANGED <<runs, reports, policy, now, evidence, pending>>

\* A goal of that name that is made again is another goal to the runs of this one.
DeleteGoal(g) ==
    /\ goals[g].rubric # 0 /\ Changing
    /\ goals' = [goals EXCEPT ![g] = [rubric |-> 0, report |-> NoReport, figures |-> {}]]
    /\ UNCHANGED <<runs, reports, policy, now, evidence, pending>>

ChangeSettings ==
    /\ Changing /\ policy' \in Policies \ {policy}
    /\ UNCHANGED <<runs, reports, goals, now, evidence, pending>>

Tick ==
    /\ Changing /\ now' = now + 1
    /\ UNCHANGED <<runs, reports, goals, policy, evidence, pending>>

Recompute(r) ==
    \/ RecomputeEvidence(r, "all") \/ RecomputeForRun(r) \/ Write(r) \/ RefreshFails(r)

Next ==
    \/ CompleteRun \/ StoreReport \/ ChangeSettings \/ Tick
    \/ \E g \in DOMAIN Goals : SyncGoal(g) \/ DeleteGoal(g)
    \/ \E r \in Recomputers : Recompute(r)

Spec == Init /\ [][Next]_vars

-----------------------------------------------------------------------------
\* What is read from the records

\* Freshness is taken now, drift as it was when the record was computed.
StalenessOf(e) ==
    LET fresh == FreshnessFactor(e.at, now, ConfidencePolicy.halfLife[e.kind], ConfidencePolicy.floor)
    IN  [freshness |-> fresh, stale |-> IsStale(fresh, e.trust.drift, ConfidencePolicy)]

NewestEvidenceAges ==
    [c \in {e.capability : e \in evidence} |-> now - Max({e.at : e \in {f \in evidence : f.capability = c}})]

\* Bases first, then adapters; what does not fit is counted, never dropped silently.
GroupByBase(limit) ==
    LET found == {e.subject : e \in evidence}
        shown == CHOOSE S \in SUBSET found :
                    /\ Cardinality(S) = Min({limit, Cardinality(found)})
                    /\ \A s \in S, t \in found \ S : t \notin Tuned => s \notin Tuned
    IN  [shown |-> shown, hidden |-> Cardinality(found) - Cardinality(shown)]

\* A bundle with one record of an adapter is written whole in the version that can name it.
EvidenceBundle(capability) ==
    LET chosen == {e \in evidence : capability \in {"all", e.capability}}
    IN  [version |-> IF \E e \in chosen : e.subject \in Tuned THEN "1.1" ELSE "1.0",
         complete |-> capability = "all", records |-> chosen]

-----------------------------------------------------------------------------
\* The mapping is one that the program accepts, and records, their factors and what is shown
\* of them have their shapes.
TypeOK ==
    /\ ParseMapping(Sources) /\ policy \in Policies
    /\ \A e \in evidence : e.subject \in Subjects /\ e.score \in 0 .. 100
                           /\ e.computedAt \in 0 .. now /\ StalenessOf(e).freshness \in 1 .. 100
    /\ \A c \in DOMAIN NewestEvidenceAges : NewestEvidenceAges[c] \in 0 .. now
    /\ \A limit \in 1 .. 2 : GroupByBase(limit).hidden = 0 \/ Cardinality(GroupByBase(limit).shown) = limit
    /\ EvidenceBundle("all").version = "1.0" => \A e \in evidence : e.subject \notin Tuned

\* However recomputations overlap, a subject has one record per capability and policy, and it
\* rests on runs of that subject that measured the same thing.
RecordsAreWhole ==
    /\ \A e, f \in evidence :
          e.subject = f.subject /\ e.capability = f.capability /\ e.policy = f.policy => e = f
    /\ \A e \in evidence : \A p \in e.parts : \A i, k \in p.of.runs :
          runs[i].subject = e.subject /\ runs[i].version = runs[k].version

\* A goal that had a judged criterion when it was read reaches the evidence only through a
\* report that passed for the rubric of those very runs, and carries that report's factor.
JudgedIsCalibrated ==
    \A e \in evidence : \A p \in e.parts :
        p.rubric # 0 /\ Goals[p.suite][p.rubric].judged # {} =>
            \E k \in DOMAIN reports :
                /\ reports[k].goal = p.suite /\ reports[k].version = p.of.version
                /\ reports[k].passed /\ reports[k].factor = p.validity

\* ADR-0032 says that of every goal whose runs were judged.  The gate asks the rows of the
\* criteria instead, and when an edited pack has no judged one left it is open.
JudgedRunsAreCalibrated ==
    \A e \in evidence : \A p \in e.parts :
        p.rubric # 0 /\ Goals[p.suite][p.of.version].judged # {} =>
            \E k \in DOMAIN reports :
                reports[k].goal = p.suite /\ reports[k].version = p.of.version /\ reports[k].passed

\* A score lies between the values it was made of, and a confidence is between the floor and
\* its weakest factor: no strength of one factor makes up for another.
FiguresAreBounded ==
    \A e \in evidence :
        LET values == {p.value : p \in e.parts}
            weakest == Min({e.trust.factors[f] : f \in DOMAIN e.trust.factors})
        IN  /\ Min(values) <= e.score /\ e.score <= Max(values)
            /\ 5 <= e.trust.confidence /\ e.trust.confidence <= Max({5, weakest})

\* Development plan, milestone of the evidence: "the optional secondary emission into a
\* declared contributes_to capability as one weighted source among others - never as that
\* capability alone".
GoalIsNeverAlone ==
    \A e \in evidence : e.capability \in DOMAIN Sources =>
        \E p \in e.parts : p.rubric = 0
=============================================================================
