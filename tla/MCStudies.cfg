SPECIFICATION StudySpec
CONSTANTS
  StudyPlans <- MCStudyPlans
  Values <- MCValues
INVARIANTS ResultsMatch ProgressTrue BestIsBest
