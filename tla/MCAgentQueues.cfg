SPECIFICATION Spec
CONSTANTS
  PromptMsg = {p1}
  SteerMsg = {s1, s2}
  FollowUpMsg = {f1}
  ContinuationMsg = {}
  SteeringMode = "all"
  FollowUpMode = "one-at-a-time"
  ToolExecution = "parallel"
  MaxConsecutiveReflexes = 1
  MaxCalls = 1
  MaxTurns = 0
  MaxFailures = 1
PROPERTIES QueuesDelivered LossNeedsInterrupt
CHECK_DEADLOCK FALSE
