----------------------------- MODULE Comparison -----------------------------
(***************************************************************************)
(* What may be compared with what: domain/comparison.py and the pure part  *)
(* of services/comparison.py.  A subject is a record                       *)
(*   [id, identity, name, nameOnly, profile, machine, suite, version,      *)
(*    datasets, family, quantization, context, metrics]                    *)
(* where metrics maps a metric key to its stored value, which may be       *)
(* Unavailable.  Reasons and field diffs are wording and left out.         *)
(***************************************************************************)
EXTENDS Naturals, SequencesExt

CONSTANTS MetricKinds,    \* metric key |-> kind, for the keys the table lists
          HigherIsBetter, \* metric keys whose larger value is the better one
          SweepMetric,    \* the model's residency, which a context sweep fits
          MinimumSweep,   \* distinct contexts a fit needs
          AcrossNameOnly  \* what the matrix says of weights known by a name alone and others of that name

Unavailable == 0
NoRun == 0
Unreported == "unreported"
Quality == "quality"
Kinds == {Quality, "performance", "memory", "energy"}
MetricKindFor(key) == IF key \in DOMAIN MetricKinds THEN MetricKinds[key] ELSE Quality

-----------------------------------------------------------------------------
\* Weights known by a name alone may be any that have it, so that what may be merged is not
\* transitive across them.
MayBeSame(left, right) ==
    \/ left.identity = right.identity
    \/ left.name = right.name /\ (left.nameOnly \/ right.nameOnly)

\* The matrix of BaseAiCore, as the code relies on it: the first difference decides.
IsComparableWith(left, right, kind) ==
    IF ~MayBeSame(left, right) \/ (left.identity # right.identity /\ AcrossNameOnly # "warn") THEN "indeterminate"
    ELSE IF \/ left.profile # right.profile \/ left.version # right.version
            \/ left.datasets # right.datasets
            \/ left.machine # right.machine /\ kind # Quality
         THEN "separate"
    ELSE IF left.machine # right.machine \/ left.nameOnly \/ right.nameOnly THEN "warn" ELSE "comparable"

StudyForDifferentIdentity(left, right) ==
    IF /\ left.family # Unreported /\ left.family = right.family
       /\ left.quantization # right.quantization
    THEN "quantization_study" ELSE "unrelated"

StudyForSeparate(left, right) ==
    IF left.profile # right.profile THEN "runtime_study"
    ELSE IF left.machine # right.machine THEN "machine_study" ELSE "incomparable"

StudyFor(left, right, outcome) ==
    IF outcome = "indeterminate" THEN StudyForDifferentIdentity(left, right)
    ELSE IF outcome = "separate" THEN StudyForSeparate(left, right)
    ELSE IF left.machine # right.machine THEN "machine_study" ELSE "direct"

VerdictForPair(left, right, kind) ==
    LET outcome == IF left.suite # right.suite THEN "separate" ELSE IsComparableWith(left, right, kind)
        study == IF left.suite # right.suite THEN "incomparable" ELSE StudyFor(left, right, outcome)
    IN [left |-> left.id, right |-> right.id, comparability |-> outcome, study |-> study]

MayMerge(verdict) == verdict.comparability \in {"comparable", "warn"}

-----------------------------------------------------------------------------
\* Groups whose members may be merged: each subject joins the first group that
\* every member of clears it, or opens one, named by its verdict against the
\* first subject of all.
FitsBug(subject, group, kind) == MayMerge(VerdictForPair(group.members[1], subject, kind))
Fits(subject, group, kind) ==
    \A other \in ToSet(group.members) : MayMerge(VerdictForPair(other, subject, kind))

Join(groups, subject, kind) ==
    LET open == {i \in DOMAIN groups : Fits(subject, groups[i], kind)}
        study == IF groups = <<>> THEN "direct"
                 ELSE VerdictForPair(groups[1].members[1], subject, kind).study
    IN IF open # {}
       THEN [groups EXCEPT ![Min(open)].members = Append(@, subject)]
       ELSE Append(groups, [members |-> <<subject>>, study |-> study])

GroupSubjects(subjects, kind) ==
    LET groups[n \in 0..Len(subjects)] ==
            IF n = 0 THEN <<>> ELSE Join(groups[n - 1], subjects[n], kind)
    IN  groups[Len(subjects)]

\* One row of the comparison: every column's cell, in the groups of its kind.
RowFor(subjects, key) ==
    [key |-> key, groups |-> GroupSubjects(subjects, MetricKindFor(key)),
     cells |-> [i \in DOMAIN subjects |->
                   IF key \in DOMAIN subjects[i].metrics THEN subjects[i].metrics[key] ELSE Unavailable]]

\* The first of the best cells, and only where every cell may be merged.
BestRunId(subjects, row) ==
    LET scored == {i \in DOMAIN subjects : row.cells[i] # Unavailable}
        Beats(a, b) == IF row.key \in HigherIsBetter THEN a > b ELSE a < b
        best == {i \in scored : \A j \in scored : ~Beats(row.cells[j], row.cells[i])}
    IN IF Len(row.groups) > 1 \/ scored = {} THEN NoRun ELSE subjects[Min(best)].id

\* Every pair that is not outright comparable, at the most permissive kind.
Pairs(subjects) == {p \in (DOMAIN subjects) \X (DOMAIN subjects) : p[1] < p[2]}
Separations(subjects) ==
    {v \in {VerdictForPair(subjects[p[1]], subjects[p[2]], Quality) : p \in Pairs(subjects)} :
        v.comparability # "comparable"}

OverallStudy(separations) ==
    LET order == <<"incomparable", "quantization_study", "runtime_study", "machine_study", "unrelated">>
        found == {i \in DOMAIN order : \E v \in separations : v.study = order[i]}
    IN IF found = {} THEN "direct" ELSE order[Min(found)]

\* The points of a context sweep: one model, one machine, one suite, the first
\* reading at each context, and at least MinimumSweep of them; none otherwise.
ContextSweep(subjects) ==
    LET Reads(i) == SweepMetric \in DOMAIN subjects[i].metrics /\ subjects[i].metrics[SweepMetric] # Unavailable
        reading == {i \in DOMAIN subjects : Reads(i)}
        first == {i \in reading : \A j \in reading : j < i => subjects[j].context # subjects[i].context}
    IN IF /\ \A s \in ToSet(subjects) : \A field \in {"identity", "machine", "suite"} : s[field] = subjects[1][field]
          /\ Cardinality(first) >= MinimumSweep
       THEN {[context |-> subjects[i].context, bytes |-> subjects[i].metrics[SweepMetric]] : i \in first}
       ELSE {}

CompareRuns(subjects) ==
    [rows |-> {RowFor(subjects, key) : key \in UNION {DOMAIN s.metrics : s \in ToSet(subjects)}},
     separations |-> Separations(subjects),
     study |-> OverallStudy(Separations(subjects)),
     sweep |-> ContextSweep(subjects)]

\* A suite named in the request refuses the columns of another one.
EnforceSuite(subjects, suite) == \A s \in ToSet(subjects) : suite = Unreported \/ s.suite = suite
=============================================================================
