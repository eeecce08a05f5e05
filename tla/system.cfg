SPECIFICATION SystemSpec
CONSTANTS
  Event = {e1}
  Organizer = {o1}
  BookReq = {b1}
  EditReq = {p1}
  DropReq = {}
  Quantity = {2}
  NewEvent <- MCNewEvent
  Patch <- MCRepricing
  WebWorkers = 1
  MaxTime = 0
  IntMax = 4
  AmountMax = 4
  MayCrash = FALSE
  Manual = {m1}
  Limit = 1
  MaxTries = 1
  MayLose = TRUE
  MayTimeOut = TRUE
  None = None
INVARIANTS PaidIsBooked NotifiedHavePaid
PROPERTIES EveryBookingEnds ConfirmedAreTold ChargedTheCurrentPrice ImplementsLedger
