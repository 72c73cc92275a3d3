\* Two app registrations, one with two secrets; two posts may overlap.
CONSTANTS
  q1 = q1
  q2 = q2
  a1 = a1
  a2 = a2
  s1 = s1
  s2 = s2
  s3 = s3
  None = None
  Requests = {q1, q2}
  Apps = {a1, a2}
  Secrets = {s1, s2, s3}
  Owner <- MCOwner
  MaxPosts = 3
  MaxCalls = 2
  MaxFaults = 1
SPECIFICATION FairSpec
INVARIANTS TypeOK SettingsImplySecret QuietCycleIsAccepted
PROPERTIES PostStoresItsPair RotationArrives
