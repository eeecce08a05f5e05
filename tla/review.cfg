SPECIFICATION Spec
CONSTANTS
  b1 = b1
  b2 = b2
  b3 = b3
  e1 = e1
  e2 = e2
  Booking = {b1, b2, b3}
  Event = {e1, e2}
  EventOf <- MCEventOf
  ReviewReq = {r1, r2}
  ListReq = {l1}
  WebWorkers = {1, 2}
  MaxTime = 1
  None = None
SYMMETRY MCSymmetry
INVARIANTS OneReviewPerBooking ReviewRepliesTellTheTruth ListsAreComplete
PROPERTIES ReviewsAreEarned
