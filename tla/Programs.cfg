SPECIFICATION Spec
CONSTANTS
  Dests = {d1, d2}
  NoName = noname
  MaxVlen = 2
  MaxQueue = 1
  Word = 16
  MaxRules = 2
  MaxAddr = 2
  MaxCount = 4
  MaxPackets = 1
  Openers = {f1, f2}
  TextLen = 3
  MaxPid = 4
  Ints = {"1", "2"}
  MaxTokens = 3
  Byte = 4
  MaxKey = 2
  Limit = 3
  MaxStr = 4
  Vals <- MCVals
  NoTok = NoTok
  BadTok = BadTok
  P2MaxTokens = 3
  Wrap = 16
  HashSize = 8
  Pages = 3
  Letters = 2
  QuestionLen = 2
  AnswerLen = 2
  P3Pages = 2
  Addrs = {a1, a2}
  BusPages = 2
INVARIANTS
  SentAreApproved CountIsSent TakenAreCounted ErrorIsKept
  LimitFits  StampsApart NothingLeft ReadsText TreeReadable
  InsmodAccounts EncryptsWhole ShowsInput
  ReadsAgree AnswerWhole SameRegion BusHolds
PROPERTIES OneIsEnough FaultEnds
CHECK_DEADLOCK FALSE
