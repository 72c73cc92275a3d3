\* Forms as ASP.NET renders them, four changes of their fields, one lost answer.
CONSTANTS
  password = password
  again = again
  other = other
  mail = mail
  tick = tick
  account = account
  order = order
  pw = pw
  blank = blank
  one = one
  n1 = n1
  n2 = n2
  n5 = n5
  n10 = n10
  word = word
  odd = odd
  letters = letters
  lengths = lengths
  numbers = numbers
  passwords = passwords
  remotes = remotes
  late = late
  twice = twice
  lower = lower
  served = served
  NaN = NaN
  None = None
  NoParam = NoParam
  Fields = {password, again, other, mail, tick}
  Texts = {blank, one, n1, n2, n5, n10, word, odd}
  Name <- MCName
  Kind <- MCKind
  Length <- MCLength
  Number <- MCNumber
  Rank <- MCRank
  Place <- MCPlace
  NonWord <- MCNonWord
  Whole <- MCWhole
  Format <- MCFormat
  Pages = {lengths, numbers, passwords, remotes}
  Content <- MCContent
  MaxEdits = 4
  MaxFailures = 1
SPECIFICATION FairSpec
\* The page is gone once the form is sent.
CHECK_DEADLOCK FALSE
INVARIANTS TypeOK OnlyValidFormsAreSent MessagesAreTrue RefusalIsExplained
PROPERTIES SubmitIsAnswered
