\* Two tables and one without a body, up to four clicks on each.
CONSTANTS
  senders = senders
  records = records
  bodiless = bodiless
  r1 = r1
  r2 = r2
  r3 = r3
  r4 = r4
  r5 = r5
  r6 = r6
  empty = empty
  dash = dash
  ten = ten
  tenth = tenth
  two = two
  mail = mail
  capital = capital
  Tables = {senders, records, bodiless}
  HasBody = {senders, records}
  Header <- MCHeader
  Rows <- MCRows
  Cells <- MCCells
  Texts = {empty, dash, ten, tenth, two, mail, capital}
  Empty = empty
  Number <- MCNumber
  Rank <- MCRank
  Rendered <- MCRendered
  MaxClicks = 4
  Absent = Absent
  NaN = NaN
SPECIFICATION Spec
INVARIANTS TypeOK ArrowTellsTheOrder SortedAsAsked
