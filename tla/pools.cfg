SPECIFICATION Spec
CONSTANTS
  Booking = {b1, b2}
  Trigger = {t1, t2}
  WebWorkers = 1
  MockWorkers = 1
  CeleryWorkers = 2
  None = None
INVARIANTS InVainIfBothAreExhausted LateIsNotFailed
PROPERTIES EveryCallEnds
