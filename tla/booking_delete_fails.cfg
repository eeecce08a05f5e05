SPECIFICATION Spec
CONSTANTS
  Event = {e1}
  Organizer = {o1}
  BookReq = {b1}
  EditReq = {p1}
  DropReq = {d1}
  Quantity <- MCQuantity
  NewEvent <- MCNewEvent
  Patch <- MCPatch
  WebWorkers = 1
  MaxTime = 0
  IntMax = 4
  AmountMax = 4
  MayCrash = FALSE
  MayLose = FALSE
  None = None
INVARIANTS DeleteAnswers
