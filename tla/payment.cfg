SPECIFICATION FairSpec
CONSTANTS
  Payment = {y1}
  Manual = {m1}
  WebWorkers = 2
  Limit = 1
  MaxTries = 2
  MayLose = TRUE
  MayTimeOut = TRUE
  None = None
INVARIANTS RowFromOneWebhook ConfirmationsAreBounded TriggerJobsAreHonest
PROPERTIES EveryPaymentSettles
