------------------------------ MODULE GoalPack ------------------------------
(***************************************************************************)
(* What a goal pack is: the documents that parse (domain/goals/pack.py),   *)
(* the findings of the lint (lint.py), the part of a pack that its hash    *)
(* covers (hashing.py) and its declared mix.  Weights are whole parts of   *)
(* Whole; texts are left out but for whether they hint at a rule.          *)
(***************************************************************************)
EXTENDS Integers, Sequences, FiniteSets

CONSTANTS
    Whole,          \* the weight of a whole rubric
    RuleRungs,      \* the rung of each rule type this build runs
    ReferenceRules, \* the rule types that need ground truth
    GateableRules,  \* the rule types that score all or nothing
    Capabilities    \* the capability roots that ship and are not reserved

Rungs == {"rule", "reference", "human", "judge"}
Deterministic == {"rule", "reference"}
None == "none"   \* of a rule, a mode, a judge's prompt or a contribution that is not declared
\* How a rule fares on the lint's probe paragraph: it refuses its parameters, or breaks on them.
Probes == {"passes", "refused", "breaks"}
NoRule == [type |-> None, probe |-> "passes"]
NoScale == [points |-> 0, described |-> 0]
NoJudge == [size |-> 0, repetitions |-> 0]

\* A pack never reuses a task's or a criterion's key.
AllDistinct(items) == \A i, j \in DOMAIN items : items[i].key = items[j].key => i = j

-----------------------------------------------------------------------------
\* Parsing: a document that fails any of these is no pack

ParsesScale(scale) == scale = NoScale \/ scale.points \in {3, 5, 7}
Anchored(scale) == scale.described >= 3

ParsesCriterion(c) ==
    /\ c.rung \in Rungs
    /\ c.weight \in 1..Whole
    /\ c.rule.type # ""
    /\ ParsesScale(c.scale)
    /\ c.mode \in {None, "absolute", "pairwise"}

ParsesJudge(judge) == judge = NoJudge \/ (judge.size >= 1 /\ judge.repetitions >= 1)

ParsesCalibration(calibration) ==
    /\ calibration.min \in 1..calibration.target
    /\ calibration.holdout \in 1..99
    /\ calibration.agreement \in -100..100

ParsesTasks(tasks) == AllDistinct(tasks) /\ \A i \in DOMAIN tasks : tasks[i].renders

\* The slug may not name a capability that ships.
ParsesPack(slug, body) ==
    /\ slug \notin Capabilities
    /\ body.criteria # <<>> /\ AllDistinct(body.criteria)
    /\ \A i \in DOMAIN body.criteria : ParsesCriterion(body.criteria[i])
    /\ ParsesTasks(body.tasks)
    /\ ParsesJudge(body.judge)
    /\ ParsesCalibration(body.calibration)

-----------------------------------------------------------------------------
\* The lint: findings [code, severity, key]

Finding(code, severity, key) == [code |-> code, severity |-> severity, key |-> key]
Error(code, key) == Finding(code, "error", key)
Warning(code, key) == Finding(code, "warning", key)
When(condition, finding) == IF condition THEN {finding} ELSE {}

CriteriaOf(body) == {body.criteria[i] : i \in DOMAIN body.criteria}
WeightOf(body, rungs) ==
    LET weight[i \in 0..Len(body.criteria)] ==
            IF i = 0 THEN 0
            ELSE weight[i - 1] + (IF body.criteria[i].rung \in rungs THEN body.criteria[i].weight ELSE 0)
    IN  weight[Len(body.criteria)]
TotalWeight(body) == WeightOf(body, Rungs)
DeclaredMix(body) == [rung \in Rungs |-> WeightOf(body, {rung})]

\* Up to a millionth, which no weight of whole parts can be off by.
CheckWeights(body) == When(TotalWeight(body) # Whole, Error("WEIGHTS_DO_NOT_SUM", None))

\* The rule runs on a probe paragraph with its parameters.
ProbeParameters(c) ==
    When(c.rule.probe = "refused", Error("RULE_PARAMETERS_INVALID", c.key))
    \cup When(c.rule.probe = "breaks", Error("RULE_PROBE_FAILED", c.key))

CheckRuleCriterion(c) ==
    IF c.rule = NoRule THEN {Error("DETERMINISTIC_WITHOUT_RULE", c.key)}
    ELSE IF c.rule.type \notin DOMAIN RuleRungs THEN {Error("RULE_TYPE_UNKNOWN", c.key)}
    ELSE When(c.rung # RuleRungs[c.rule.type], Error("RUNG_MISMATCH", c.key))
         \cup When(c.gate /\ c.rule.type \notin GateableRules, Warning("GATE_ON_GRADUAL_RULE", c.key))
         \cup ProbeParameters(c)

\* The rules that the words of a criterion hint at.
SuggestRules(c) == c.hints

CheckGradedCriterion(c) ==
    When(c.rule # NoRule, Error("GRADED_WITH_RULE", c.key))
    \cup When(c.scale = NoScale, Error("GRADED_WITHOUT_SCALE", c.key))
    \cup When(c.scale # NoScale /\ c.rung = "judge" /\ ~Anchored(c.scale),
              Error("JUDGED_WITHOUT_DESCRIPTORS", c.key))
    \cup When(c.gate, Error("GATE_ON_GRADED_CRITERION", c.key))
    \cup When(c.rung = "judge" /\ SuggestRules(c) # {}, Warning("MECHANIZABLE_JUDGED_CRITERION", c.key))

CheckPackLevel(body) ==
    When(body.tasks = <<>>, Error("NO_TASKS", None))
    \cup When(body.judge = NoJudge /\ \E c \in CriteriaOf(body) : c.rung = "judge",
              Error("JUDGED_WITHOUT_JUDGE_CONFIG", None))
    \cup When(/\ \E c \in CriteriaOf(body) : c.rule.type \in ReferenceRules
              /\ \A i \in DOMAIN body.tasks : ~body.tasks[i].source,
              Warning("REFERENCE_WITHOUT_GROUND_TRUTH", None))
    \cup When(body.contributesTo \notin Capabilities \cup {None}, Error("CONTRIBUTES_TO_UNKNOWN", None))
    \cup {Finding("DETERMINISTIC_WEIGHT_SHARE", "info", None)}
    \cup When(body.unforked, Warning("UNFORKED_STARTER", None))

LintPack(body) ==
    CheckWeights(body) \cup CheckPackLevel(body)
    \cup UNION {IF c.rung \in Deterministic THEN CheckRuleCriterion(c) ELSE CheckGradedCriterion(c) :
                    c \in CriteriaOf(body)}

HasErrors(findings) == \E f \in findings : f.severity = "error"
SuggestRulesForPack(body) == {c.key : c \in {d \in CriteriaOf(body) : SuggestRules(d) # {}}}

-----------------------------------------------------------------------------
\* The hash is of what measures: not of names, of the intent, of the calibration's settings
\* or of where the pack came from

CriterionDocument(c) ==
    [key |-> c.key, rung |-> c.rung, weight |-> c.weight, gate |-> c.gate, rule |-> c.rule,
     scale |-> c.scale, mode |-> c.mode]

\* prompt is the judge's own prompt record in the pack, if it has one.
HashableDocument(body, prompt) ==
    [criteria |-> [i \in DOMAIN body.criteria |-> CriterionDocument(body.criteria[i])],
     tasks |-> [i \in DOMAIN body.tasks |-> [key |-> body.tasks[i].key, prompt |-> body.tasks[i].prompt]],
     judge |-> IF body.judge = NoJudge THEN <<>> ELSE <<body.judge, prompt>>]

GoalHash(body, prompt) == HashableDocument(body, prompt)

\* An edit of the criteria or the tasks: what makes a starter one's own.
EditsStarterContent(before, after) ==
    \E part \in {"criteria", "tasks"} :
        HashableDocument(before, None)[part] # HashableDocument(after, None)[part]
=============================================================================
