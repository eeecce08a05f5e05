SPECIFICATION Spec
CONSTANTS
  Payment = {y1}
  Manual = {m1}
  WebWorkers = 2
  Limit = 2
  MaxTries = 1
  MayLose = FALSE
  MayTimeOut = FALSE
  None = None
PROPERTIES SettledForGood
