SPECIFICATION FairSpec
CONSTANTS
  RegisterReq = {r1, r2, r3}
  Visit = {v1}
  Email = {m1, m2}
  WebWorkers = 3
  MayCrash = TRUE
  None = None
INVARIANTS OrganizersHaveProfiles RegistrationsTellTheTruth
PROPERTIES ImplementsDirectory EveryRegistrationEnds
