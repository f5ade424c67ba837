SPECIFICATION FairEditSpec
CONSTANTS
  o1 = o1
  o2 = o2
  o3 = o3
  s1 = s1
  s2 = s2
  Op <- MCOp
  Path = {"file", "alias"}
  Canon <- MCCanon
  None = None
  Signal = {s1, s2}
  SignalOf <- MCSignalOf
  Abortable = {s1}
  Torn = Torn
INVARIANTS EditTypeOK KeyFifo OverlapOnlyByAbort SuccessIsKept
PROPERTY EveryEditAnswered
CHECK_DEADLOCK FALSE
