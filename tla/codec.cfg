\* Every kind of value, message, header and framing, cut, joined and laid out anew; a reader ends.
SPECIFICATION Spec
CONSTANTS
  Precision = 2
  NumberSize = 6
  Depth = 4
  BuffStart = 3
  Messages <- SomeMessages
  Requests <- Calls
  Slow <- SlowMessages
  Piece = 1
  BodyText <- Body
  HeadText <- Header
  OtherBodies <- Rewritings
  OtherHeads <- Relined
  EndlessHeads <- Unlengthed
  ChunkedHeads <- ChunkedHeader
  Chunkings <- ChunkedAny
  ChunkSizes = {12, 200}
INVARIANTS
  TypeOK
  BufferSound
  Reassembled
  NeverWaitsInVain
  MessagesSurvive
  OnlyWhole
CHECK_DEADLOCK FALSE
