SPECIFICATION FairSpec
CONSTANTS
  A = A
  B = B
  C = C
  Nodes = {A, B, C}
  Sets = {s1, s2}
  Replies = {r1}
  Requests <- AllRequests
  ReplyPaths <- AllReplyPaths
  MaxPathLength = 3
  PayloadSize = 4
  TextSize = 1
  Repeated = {}
  None = None
INVARIANTS
  TypeOK
  PeelsAsWrapped
  OnlyForItsNode
PROPERTIES
  NothingRecognisable
  ImplementsChannel
CHECK_DEADLOCK FALSE
