SPECIFICATION MCSpec
CONSTANTS
  Samples = {1, 2, 3}
  Judged = {"judged"}
  Weights <- GoalWeights
  Grades = {1, 3}
  Points = 3
  MinSamples = 3
  MinAgreement = 40
  Fraction = 40
  Target = 4
  Workers = {w1, w2}
  MaxEdits = 1
  Cases = {"long", "short"}
  CasesOf <- PackCases
  Rubrics <- PackVersions
  Gates = {"rule"}
  Graders = {g1}
  MaxAttempts = 2
  Models = {1, 2, 3}
  Candidate = 1
  Requests <- JurorRequests
  Sizes = {2}
  Repetitions = 2
  References = 1
  Offers <- CompletedRuns
  NameOnly = {"tuned"}
  Tuned = {"tuned"}
  Sources <- CapabilitySources
  Goals <- JudgedGoal
  GoalWeight = 1
  Calibrations <- GoalReports
  Policies <- TwoPolicies
  MaxChanges = 3
  Recomputers = {r1, r2}
SYMMETRY Symmetry
INVARIANTS ReportsAreEarned GradesAreKept JuriesAreHonest EvidenceIsSound
PROPERTY GradesTouchHumanRowsOnly
CHECK_DEADLOCK FALSE
