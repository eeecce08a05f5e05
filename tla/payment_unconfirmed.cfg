SPECIFICATION Spec
CONSTANTS
  Payment = {y1}
  Manual = {}
  WebWorkers = 1
  Limit = 2
  MaxTries = 2
  MayLose = TRUE
  MayTimeOut = FALSE
  None = None
INVARIANTS AcknowledgedMeansConfirmed
