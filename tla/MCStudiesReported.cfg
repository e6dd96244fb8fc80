SPECIFICATION StudySpec
CONSTANTS
  StudyPlans <- MCReported
  Values <- MCValues
INVARIANT ProgressTrue
