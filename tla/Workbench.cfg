SPECIFICATION MCSpec
CONSTANTS
  Whole = 10000
  RuleRungs <- RungOfRule
  ReferenceRules = {"claims"}
  GateableRules = {"phrases"}
  Capabilities = {"writing"}
  Slugs = {"voice"}
  Bodies <- PackBodies
  HandEdits <- AuthorEdits
  Prompts = {"judge"}
  Workers = {w1, w2}
  Drafts = {d1}
  Tabs = {w1}
  Names = {"voice", "tone"}
  Hints <- NameHints
  AcceptedRules = {"claims"}
  RuleBlocks <- AuthorBlocks
  Starter <- StarterCriteria
  MaxCriteria = 3
  MaxEdits = 4
INVARIANTS GoalsSurvive WizardIsWhole
PROPERTY GradesSurvive
CHECK_DEADLOCK FALSE
