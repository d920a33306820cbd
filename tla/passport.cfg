SPECIFICATION Spec
CONSTANTS
  ivanov = ivanov
  ivan = ivan
  ivanovich = ivanovich
  c1 = c1
  None = None
  Unclear = Unclear
  Names = {ivanov, ivan, ivanovich}
  CommonFirstNames = {ivan}
  Codes = {c1}
  Primaries = {"v2", "page", "v1"}
  Answers = {"no_answer", "unread", "5xx", "401", "403", "429", "4xx", "garbled"}
  Pages <- MCPages
  Shuffled <- MCShuffled
  Entities <- MCEntities
INVARIANTS
  TypeOK
  StandardPageRead
  UnlabelledNamesRead
  PairStaysTogether
  DatesInOrder
  TwoDatesFound
CHECK_DEADLOCK FALSE
