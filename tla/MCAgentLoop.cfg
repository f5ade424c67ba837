SPECIFICATION FairSpec
CONSTANTS
  PromptMsg = {p1}
  SteerMsg = {s1}
  FollowUpMsg = {}
  ContinuationMsg = {c1}
  SteeringMode = "one-at-a-time"
  FollowUpMode = "one-at-a-time"
  ToolExecution = "parallel"
  MaxConsecutiveReflexes = 1
  MaxCalls = 2
  MaxTurns = 2
  MaxFailures = 1
INVARIANTS TypeOK TranscriptAgrees ResultsFollowCalls NoDanglingCall
PROPERTY AbortSettles
CHECK_DEADLOCK FALSE
