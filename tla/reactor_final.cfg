CONSTANTS
  Conns = {c1, c2}
  c1 = c1
  c2 = c2
  Frames <- TwoAndFinal
  Answered <- BothAnswered
  Final <- FinalOfFirst
  Leavers <- None
  FrameLen = 2
  AnswerLen = 2
  Segment = 2
  ReadLen = 3
  SockBuf = 3
  Nobody = Nobody
SPECIFICATION FairSpec
PROPERTY NewClientsHandled
