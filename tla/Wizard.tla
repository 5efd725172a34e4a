------------------------------- MODULE Wizard -------------------------------
(***************************************************************************)
(* The authoring wizard (services/wizard.py, web/routes/wizard.py): drafts *)
(* in the database, each edited by requests that read it whole and write   *)
(* it back whole, possibly from two tabs, and saved in the end as a goal   *)
(* pack (GoalPacks).                                                       *)
(***************************************************************************)
EXTENDS GoalPacks

CONSTANTS
    Drafts,        \* ids
    Tabs,          \* the requests on drafts; they are workers of GoalPacks when they save
    Names,         \* keys of criteria
    Hints,         \* the rule types that the words of each name hint at
    AcceptedRules, \* the rule types whose default parameters the lint's probe accepts
    RuleBlocks,    \* the rules that authors write: [type, probe]
    Starter,       \* the criteria of the starter that may be customised
    MaxCriteria,   \* bounds: of a draft's criteria,
    MaxEdits       \* and of its edits

ASSUME TabsAreWorkers == Tabs \subseteq Workers
\* A rule is scored on one of the rungs of rules (RULE_RUNGS).
ASSUME RulesHaveRungs ==
    None \notin DOMAIN RuleRungs /\ \A type \in DOMAIN RuleRungs : RuleRungs[type] \in Deterministic

\* The parameters that an author edits may have a type of their own: of another rung than the
\* accepted type's, unknown or empty.
RuleBlock(type, probe) == [type |-> type, probe |-> probe]
ASSUME BlocksAreRules ==
    \A b \in RuleBlocks : b = RuleBlock(b.type, b.probe) /\ b.type # None /\ b.probe \in Probes

VARIABLES
    drafts,   \* the stored rows: draft -> document
    tab       \* each tab's request: [at, draft, doc]

wizardVars == <<drafts, tab>>

NoTab == [at |-> "idle"]
Criterion(key, weight) ==
    [key |-> key, rung |-> "judge", weight |-> weight, described |-> 0, rule |-> NoRule]
Document(slug, criteria, tasks) ==
    [slug |-> slug, criteria |-> criteria, tasks |-> tasks, saved |-> None, edits |-> 0]

WizardInit == drafts = NoPacks /\ tab = [t \in Tabs |-> NoTab]

-----------------------------------------------------------------------------
\* Editing a document

\* round(n / d, 4) in ten-thousandths, halves to even.
Rounded(n, d) ==
    LET q == n \div d
        r == 2 * (n % d)
    IN  IF r > d \/ (r = d /\ q % 2 = 1) THEN q + 1 ELSE q

SumTo(f, n) ==
    LET sum[i \in 0..n] == IF i = 0 THEN 0 ELSE sum[i - 1] + f[i]
    IN  sum[n]

WeightsOf(criteria) == [i \in DOMAIN criteria |-> criteria[i].weight]

\* A criterion's share of the whole; equal shares of weights that come to nothing.
Share(criteria, i) ==
    LET total == SumTo(WeightsOf(criteria), Len(criteria))
    IN  IF total <= 0 THEN Rounded(Whole, Len(criteria)) ELSE Rounded(Whole * criteria[i].weight, total)

WeightsAreWhole(criteria) == criteria # <<>> => SumTo(WeightsOf(criteria), Len(criteria)) = Whole

\* A rule of its rung with the parameters it ships with, which the probe may refuse.
Proposed(rung, rule) ==
    rule.type \in DOMAIN RuleRungs /\ rung = RuleRungs[rule.type] /\ rule.probe # "breaks"

\* A criterion of a draft is judged, or scored by a rule.
IsCriterion(c) ==
    /\ c = [key |-> c.key, rung |-> c.rung, weight |-> c.weight, described |-> c.described, rule |-> c.rule]
    /\ c.weight \in Int /\ c.described \in Nat
    /\ \/ c.rung = "judge" /\ c.rule = NoRule
       \/ c.rung \in Deterministic /\ (Proposed(c.rung, c.rule) \/ c.rule \in RuleBlocks)

\* The starters that ship have such criteria.
ASSUME StarterIsAPack ==
    /\ Whole \in Nat \ {0} /\ Starter \in Seq({Starter[i] : i \in DOMAIN Starter})
    /\ WeightsAreWhole(Starter) /\ \A i \in DOMAIN Starter : IsCriterion(Starter[i])

\* The rounding is not put right.
RebalanceBug(criteria) ==
    [i \in DOMAIN criteria |-> [criteria[i] EXCEPT !.weight = Share(criteria, i)]]

\* The first takes what rounding left.
Rebalance(criteria) ==
    LET share == [i \in DOMAIN criteria |-> Share(criteria, i)]
        left == Whole - SumTo(share, Len(criteria))
    IN  [i \in DOMAIN criteria |->
            [criteria[i] EXCEPT !.weight = IF i = 1 THEN share[1] + left ELSE share[i]]]

Keys(doc) == {doc.criteria[i].key : i \in DOMAIN doc.criteria}
Times(criteria, n) == [i \in DOMAIN criteria |-> [criteria[i] EXCEPT !.weight = n * @]]

\* A criterion enters with the mean weight.
AddCriterion(doc, name) ==
    LET n == Len(doc.criteria)
        mean == IF n = 0 THEN Whole ELSE SumTo(WeightsOf(doc.criteria), n)
    IN  [doc EXCEPT !.criteria =
            Rebalance(Append(Times(doc.criteria, IF n = 0 THEN 1 ELSE n), Criterion(name, mean)))]

\* Every criterion of that key, should there be two.
Changed(doc, key, change(_)) ==
    [doc EXCEPT !.criteria = [i \in DOMAIN doc.criteria |->
        IF doc.criteria[i].key = key THEN change(doc.criteria[i]) ELSE doc.criteria[i]]]

SetScale(doc, key) == Changed(doc, key, LAMBDA c : [c EXCEPT !.described = 3])

\* The rung is the accepted type's, whatever the type in the block.
AcceptRule(doc, key, type, block) ==
    Changed(doc, key, LAMBDA c : [c EXCEPT !.rung = RuleRungs[type], !.described = 0, !.rule = block])

\* Two judged halves in place of each criterion of that key; they may repeat a key.
SplitCriterion(doc, key, first, second) ==
    LET original == doc.criteria[CHOOSE i \in DOMAIN doc.criteria :
                        doc.criteria[i].key = key
                        /\ \A j \in DOMAIN doc.criteria : doc.criteria[j].key = key => i <= j]
        half(name) == [Criterion(name, original.weight) EXCEPT !.described = original.described]
        parts[i \in 0..Len(doc.criteria)] ==
            IF i = 0 THEN <<>>
            ELSE parts[i - 1] \o (IF doc.criteria[i].key = key THEN <<half(first), half(second)>>
                                  ELSE <<[doc.criteria[i] EXCEPT !.weight = 2 * @]>>)
    IN  [doc EXCEPT !.criteria = Rebalance(parts[Len(doc.criteria)])]

\* The task's source, should a starter have one, is not a field of a draft.
AddTask(doc) == [doc EXCEPT !.tasks = @ + 1]

ProposeRules(doc) ==
    {<<c.key, type>> : c \in {doc.criteria[i] : i \in DOMAIN doc.criteria}, type \in DOMAIN RuleRungs}
        \cap {p \in Names \X DOMAIN RuleRungs : p[2] \in Hints[p[1]]}

\* What one request of the criteria, rules or tasks page may make of a document.
Edited(doc) ==
    {AddCriterion(doc, name) : name \in {k \in Names \ Keys(doc) : Len(doc.criteria) < MaxCriteria}}
    \cup {SetScale(doc, k) : k \in Keys(doc)}
    \cup {AcceptRule(doc, p[1], p[2], RuleBlock(p[2], IF p[2] \in AcceptedRules THEN "passes" ELSE "refused")) :
             p \in ProposeRules(doc)}
    \cup {AcceptRule(doc, k, type, block) : k \in Keys(doc), type \in DOMAIN RuleRungs, block \in RuleBlocks}
    \cup {SplitCriterion(doc, k, first, second) :
             k \in {x \in Keys(doc) : Len(doc.criteria) < MaxCriteria}, first \in Names, second \in Names}
    \cup (IF doc.tasks = 0 THEN {AddTask(doc)} ELSE {})

-----------------------------------------------------------------------------
\* Saving

PackBody(doc) ==
    [criteria |-> [i \in DOMAIN doc.criteria |->
        LET c == doc.criteria[i]
        IN  [key |-> c.key, rung |-> c.rung, weight |-> c.weight, gate |-> FALSE, rule |-> c.rule,
             scale |-> IF c.rung = "judge" THEN [points |-> 5, described |-> c.described] ELSE NoScale,
             mode |-> None, hints |-> Hints[c.key]]],
     tasks |-> [i \in 1..doc.tasks |-> [key |-> i, prompt |-> i, renders |-> TRUE, source |-> FALSE]],
     judge |-> IF \E i \in DOMAIN doc.criteria : doc.criteria[i].rung = "judge"
               THEN [size |-> 3, repetitions |-> 3] ELSE NoJudge,
     calibration |-> [target |-> 12, min |-> 8, holdout |-> 40, agreement |-> 40],
     contributesTo |-> None, unforked |-> FALSE]

NeedsDescriptors(c) == c.rung = "judge" /\ c.described < 3

\* A request loads the draft that it will write back.
LoadDraft(t, d) ==
    /\ up /\ tab[t] = NoTab /\ req[t] = Idle /\ d \in DOMAIN drafts
    /\ tab' = [tab EXCEPT ![t] = [at |-> "loaded", draft |-> d, doc |-> drafts[d]]]
    /\ UNCHANGED <<drafts, packVars>>

\* The row is written whole, and inserted again if it is gone.
SaveDraft(d, doc) == drafts' = With(drafts, d, doc)

StartDraft(d, slug) ==
    /\ up /\ d \notin DOMAIN drafts
    /\ \/ SaveDraft(d, Document(slug, <<>>, 0))
       \/ SaveDraft(d, Document(slug, Starter, 1))
    /\ UNCHANGED <<tab, packVars>>

EditDraft(t) ==
    /\ up /\ tab[t].at = "loaded" /\ tab[t].doc.edits < MaxEdits
    /\ \E doc \in Edited(tab[t].doc) : SaveDraft(tab[t].draft, [doc EXCEPT !.edits = @ + 1])
    /\ tab' = [tab EXCEPT ![t] = NoTab]
    /\ UNCHANGED packVars

\* Abandoned, or purged after thirty days without an edit.
DeleteDraft(d) ==
    /\ up /\ d \in DOMAIN drafts /\ drafts' = Without(drafts, d)
    /\ UNCHANGED <<tab, packVars>>

\* A draft that was saved shows its pack; another is refused without criteria, without a task
\* or with a judged criterion nobody described, and written otherwise.
SavePack(t) ==
    /\ tab[t].at = "loaded" /\ tab[t].doc.saved = None
    /\ tab[t].doc.criteria # <<>> /\ tab[t].doc.tasks > 0
    /\ \A i \in DOMAIN tab[t].doc.criteria : ~NeedsDescriptors(tab[t].doc.criteria[i])
    /\ WritePack(t, tab[t].doc.slug, PackBody(tab[t].doc), TRUE)
    /\ tab' = [tab EXCEPT ![t].at = "saving"]
    /\ UNCHANGED drafts

\* The pack is in place: the draft that was loaded is written back with its slug.
RecordSaved(t) ==
    /\ tab[t].at = "saving" /\ req[t].at = "placed"
    /\ IF Parses(tab[t].doc.slug)
       THEN SaveDraft(tab[t].draft, [tab[t].doc EXCEPT !.saved = tab[t].doc.slug])
       ELSE UNCHANGED drafts
    /\ tab' = [tab EXCEPT ![t] = NoTab]
    /\ UNCHANGED packVars

\* Nothing is done: a page was shown, an edit refused, the write lost its race, the server died.
Leave(t) ==
    /\ \/ tab[t].at = "loaded"
       \/ tab[t].at = "saving" /\ req[t] = Idle
    /\ tab' = [tab EXCEPT ![t] = NoTab]
    /\ UNCHANGED <<drafts, packVars>>

WizardNext ==
    \/ \E d \in Drafts, s \in Slugs : StartDraft(d, s)
    \/ \E d \in Drafts : DeleteDraft(d) \/ \E t \in Tabs : LoadDraft(t, d)
    \/ \E t \in Tabs : EditDraft(t) \/ SavePack(t) \/ RecordSaved(t) \/ Leave(t)
    \/ UNCHANGED wizardVars /\ \E t \in Tabs : (tab[t].at # "saving" \/ req[t].at = "staged") /\ Progress(t)

-----------------------------------------------------------------------------
\* Every draft's weights add up to the whole, whatever rounding left, and what the lint refuses
\* of a pack that the wizard saved is only ever parameters that the wizard itself proposed, or a
\* rule block that the author wrote: never the weights, the tasks, the judge, a rung, or what a
\* criterion lacks (_rebalance: "the wizard cannot hand the user a pack it knows is invalid").
RuleErrors == {"RULE_TYPE_UNKNOWN", "RUNG_MISMATCH", "RULE_PARAMETERS_INVALID", "RULE_PROBE_FAILED"}
OfARule(body, f) ==
    \/ f.code = "RULE_PARAMETERS_INVALID"
    \/ f.code \in RuleErrors /\ \E c \in CriteriaOf(body) : c.key = f.key /\ c.rule \in RuleBlocks
WizardPacksAreWhole ==
    /\ \A d \in DOMAIN drafts : WeightsAreWhole(drafts[d].criteria)
    /\ \A s \in DOMAIN disk : \A f \in LintPack(disk[s].body) :
          f.severity = "error" => OfARule(disk[s].body, f)

\* The application starts again with what its wizard saved.  Not so: save_pack does not ask the
\* lint, which refuses the parameters that are proposed for some rules.
SavedPacksLaunch ==
    \A d \in DOMAIN drafts :
        drafts[d].saved \in DOMAIN disk => ~HasErrors(LintPack(disk[drafts[d].saved].body))
=============================================================================
