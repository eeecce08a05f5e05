SPECIFICATION Spec
CONSTANTS
  Event = {e1, e2}
  Organizer = {o1, o2}
  City = {c1, c2}
  Industry = {tech, music}
  Day = {1, 2}
  Time <- MCTime
  Booking = {b1, b2}
  Customer = {k1, k2}
  ListReq = {l1}
  Query <- MCQuery
  MaxChanges = 3
  None = None
SYMMETRY MCSymmetry
INVARIANTS DateIsMeant NothingIsMissed NothingIsMadeUp TotalIsTrue
