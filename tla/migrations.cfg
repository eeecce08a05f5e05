SPECIFICATION Spec
CONSTANTS
  Upgrade = {u1, u2}
  Downgrade = {d1}
  Request = {q1}
  FromRevision = {0, 1, 2, 3, 4, 5}
  None = None
INVARIANTS HeadIsModels RevisionTellsSchema
PROPERTIES ErrorsExplained EveryTransactionEnds
