\* Three records of three senders, one of them spelt in two ways.
CONSTANTS
  lower = lower
  upper = upper
  host = host
  garbage = garbage
  v6 = v6
  v4 = v4
  other = other
  o1 = o1
  o2 = o2
  e1 = e1
  e2 = e2
  NoRow = NoRow
  Sources = {lower, upper, host, garbage}
  Parses = {lower, upper, host}
  Keys = {v6, v4, other}
  Key <- MCKey
  Orgs = {o1, o2}
  Entries = {e1, e2}
  Network <- MCNetwork
  Pattern <- MCPattern
  Records <- MCRecords
  MaxRecords = 3
  MaxFaults = 1
SPECIFICATION Spec
INVARIANTS TypeOK VerdictIsDocumented RowsClashForCause
PROPERTIES GoodNewsNeverLowers
