SPECIFICATION Spec
CONSTANTS
  Event = {e1}
  Organizer = {o1, o2}
  BookReq = {b1, b2}
  EditReq = {p1}
  DropReq = {d1}
  Quantity <- MCQuantity
  NewEvent <- MCNewEvent
  Patch <- MCPatch
  WebWorkers = 3
  MaxTime = 1
  IntMax = 4
  AmountMax = 4
  MayCrash = TRUE
  MayLose = TRUE
  None = None
SYMMETRY MCSymmetry
INVARIANTS TypeOK TicketsMatchBookings ReservationHolds BookingsAreWhole RepliesTellTheTruth ServerErrorsExplained
PROPERTIES NoOversellAtSale ImplementsTicketOffice
