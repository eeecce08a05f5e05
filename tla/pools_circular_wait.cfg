SPECIFICATION Spec
CONSTANTS
  Booking = {b1}
  Trigger = {t1}
  WebWorkers = 1
  MockWorkers = 1
  CeleryWorkers = 1
  None = None
INVARIANTS NeverInVain
