---------------------------- MODULE MCWorkbench ----------------------------
(***************************************************************************)
(* What an author does before a run, side by side for TLC: goal packs and  *)
(* the wizard.  One moves per behaviour: the initial state chooses which.  *)
(***************************************************************************)
EXTENDS Wizard

VARIABLE moving

\* Criteria and documents of the instance.
MCCriterion(key, rung, weight, rule, scale) ==
    [key |-> key, rung |-> rung, weight |-> weight, gate |-> FALSE, rule |-> rule, scale |-> scale,
     mode |-> None, hints |-> {}]
MCBody(criteria, judge, unforked) ==
    [criteria |-> criteria, tasks |-> <<[key |-> 1, prompt |-> 1, renders |-> TRUE, source |-> FALSE]>>,
     judge |-> judge, calibration |-> [target |-> 12, min |-> 8, holdout |-> 40, agreement |-> 40],
     contributesTo |-> None, unforked |-> unforked]
Scale == [points |-> 5, described |-> 3]
RulesOnly == MCBody(<<MCCriterion("voice", "reference", Whole, RuleBlock("claims", "passes"), NoScale)>>, NoJudge, FALSE)
WithJudge == MCBody(<<MCCriterion("voice", "reference", 4000, RuleBlock("claims", "passes"), NoScale),
                      MCCriterion("tone", "judge", 6000, NoRule, Scale)>>,
                    [size |-> 3, repetitions |-> 3], TRUE)
BadRule == MCBody(<<MCCriterion("voice", "rule", Whole, RuleBlock("phrases", "refused"), NoScale)>>, NoJudge, FALSE)
NoPack == MCBody(<<>>, NoJudge, FALSE)
PackBodies == {WithJudge, BadRule}
AuthorEdits == {NoPack}

RungOfRule == [phrases |-> "rule", claims |-> "reference"]
\* A rule that breaks, and has the wrong rung where another was accepted; one that does not exist.
AuthorBlocks == {RuleBlock("phrases", "breaks"), RuleBlock("unknown", "passes")}
NameHints == [voice |-> {"phrases"}, tone |-> {}]
StarterCriteria ==
    <<[key |-> "voice", rung |-> "reference", weight |-> 7000, described |-> 0, rule |-> RuleBlock("claims", "passes")],
      [key |-> "tone", rung |-> "judge", weight |-> 3000, described |-> 3, rule |-> NoRule]>>

MCInit == PackInit /\ WizardInit /\ moving \in {"packs", "wizard"}

MCNext ==
    /\ UNCHANGED moving
    /\ \/ moving = "packs" /\ PackNext /\ UNCHANGED wizardVars
       \/ moving = "wizard" /\ WizardNext
       \/ moving = "wizard" /\ Die /\ UNCHANGED wizardVars

MCSpec == MCInit /\ [][MCNext]_<<moving, packVars, wizardVars>>

-----------------------------------------------------------------------------
\* The wizard's packs, when it is the wizard that moves.
WizardIsWhole == moving = "wizard" => WizardPacksAreWhole
=============================================================================
