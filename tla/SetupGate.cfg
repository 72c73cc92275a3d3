\* Three requests at a time, one aborted check or restart.
CONSTANTS
  d1 = d1
  m1 = m1
  r1 = r1
  r2 = r2
  r3 = r3
  Requests = {r1, r2, r3}
  Domains = {d1}
  Mailboxes = {m1}
  MaxFaults = 1
SPECIFICATION FairSpec
INVARIANTS GateOpensForCause
PROPERTIES RedirectedForCause GateSettles
