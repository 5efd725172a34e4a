SPECIFICATION MCSpec
CONSTANTS
  Samples = {1, 2, 3}
  Judged = {"judged"}
  Weights <- GoalWeights
  Grades = {1, 3}
  Points = 3
  MinSamples = 3
  MinAgreement = 40
  Fraction = 40
  Target = 4
  Workers = {w1, w2}
  MaxEdits = 1
  Cases = {"long", "short"}
  CasesOf <- PackCases
  Rubrics <- PackVersions
  Gates = {"rule"}
  Graders = {g1, g2}
  MaxAttempts = 2
  Models = {1, 2, 3}
  Candidate = 1
  Requests <- JurorRequests
  Sizes = {2}
  Repetitions = 2
  References = 1
  Offers <- CompletedRuns
  NameOnly = {"tuned"}
  Tuned = {"tuned"}
  Sources <- CapabilitySources
  Goals <- JudgedGoal
  GoalWeight = 1
  Calibrations <- GoalReports
  Policies <- TwoPolicies
  MaxChanges = 3
  Recomputers = {r1}
SYMMETRY Symmetry
INVARIANT MetricsFollowGrades
CHECK_DEADLOCK FALSE
