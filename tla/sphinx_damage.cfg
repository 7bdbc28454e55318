SPECIFICATION FairSpec
CONSTANTS
  A = A
  B = B
  C = C
  Nodes = {A, B, C}
  Messages = {m1, m2}
  Replies = {}
  Requests <- SharedRequests
  SurbRequests <- AllSurbRequests
  Plaintexts <- ReplyPlaintexts
  MaxRoute = 3
  PayloadSize = 5
  LeadingZeros = 2
  CipherBlock = 4
  Reused = Reused
  Damages = {"header", "payload", "cut"}
  Spots = {1, 2, 3, 14}
  Cuts = {2, 3, 4}
  None = None
INVARIANTS
  RefusedForAReason
PROPERTIES
  ImplementsChannel
CHECK_DEADLOCK FALSE
