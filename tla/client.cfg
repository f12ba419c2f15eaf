CONSTANTS
  MaxConns = 2
  Topics = {"/police"}
  SubIds = {"1", "2"}
  Logins = {"ann"}
  Passcodes = {"secret", "other secret"}
  MaxLists = 1
  SockBuf = 8
  None = None
  NotANumber = NotANumber
  NoBody = NoBody
  KeyOf <- MCKeyOf
  Script <- MCScript
  Budget <- MCBudget
  TypedLines <- MCTypedLines
  MaxTyped = 2
  OtherTopic = "/police"
  OtherId = "1"
  BodySent <- MCBodySent
SPECIFICATION ClientServerSpec
INVARIANTS ClientTypeOK FramesStayApart EndsForAReason
PROPERTIES CloseIsNoticed EndOfInputEnds FirstLogoutEnds
CHECK_DEADLOCK FALSE
