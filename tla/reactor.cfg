CONSTANTS
  Conns = {c1, c2}
  c1 = c1
  c2 = c2
  Frames <- TwoAndFinal
  Answered <- BothAnswered
  Final <- FinalOfSecond
  Leavers <- Everybody
  FrameLen = 2
  AnswerLen = 2
  Segment = 2
  ReadLen = 3
  SockBuf = 3
  Nobody = Nobody
SPECIFICATION FairSpec
INVARIANTS ReactorInv AnswersWhole WriteAskedFor RequestWakes ServesOn
PROPERTIES AnswersDelivered TerminatedIsClosed
