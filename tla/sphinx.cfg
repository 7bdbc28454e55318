SPECIFICATION FairSpec
CONSTANTS
  A = A
  B = B
  C = C
  Nodes = {A, B, C}
  Messages = {m1, m2}
  Replies = {r1}
  Requests <- AllRequests
  SurbRequests <- AllSurbRequests
  Plaintexts <- ReplyPlaintexts
  MaxRoute = 3
  PayloadSize = 5
  LeadingZeros = 2
  CipherBlock = 4
  Reused = Reused
  Damages = {}
  Spots = {1, 2, 3, 14}
  Cuts = {2, 3, 4}
  None = None
INVARIANTS
  TypeOK
  PeelsAsBuilt
  OnlyForItsNode
  RecallAgrees
  RefusedForAReason
PROPERTIES
  NothingRecognisable
  ImplementsChannel
CHECK_DEADLOCK FALSE
