\* One change beyond the setup, one failure, four days.
SPECIFICATION FairSpec
CONSTANTS
  r1 = r1
  r2 = r2
  r3 = r3
  r4 = r4
  a = a
  b = b
  None = None
  Reports <- MCReports
  Domains <- MCDomains
  DomainOf <- MCDomainOf
  End <- MCEnd
  Windows <- MCWindows
  BatchSize = 2
  MaxDay = 4
  MaxChanges = 4
  MaxFaults = 1
INVARIANTS TypeOK RunFinishesTheJob CountIsHonest
PROPERTIES WindowSurvivesTheRun ExpiredIsPurged
