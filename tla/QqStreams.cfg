CONSTANTS
  r1 = r1  r2 = r2  r3 = r3  m1 = m1  m2 = m2
  Replies <- MCReplies
  Msgs <- MCMsgs
  MsgOf <- MCMsgOf
  Streams = {s1, s2, s3}
  NoStream = NoStream
  MaxChunks <- MCMaxChunks
SPECIFICATION Spec
SYMMETRY Symmetry
INVARIANTS IndexUnique StreamPerMessage BubblePerReply CarriesOwnId
PROPERTIES NeverResumesIdle
CHECK_DEADLOCK FALSE
