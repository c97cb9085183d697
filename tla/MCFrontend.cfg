SPECIFICATION FairSpec
CONSTANTS
  Fuel = 60
  Patience = 60
  DataEnd = 100
  StackSize = 400
  MemBytes = 4000
  Word = 65536
  Sources <- MCSources
INVARIANTS
  ParsesBack
  NothingLost
  
  TypeSound
  CodeValidates
  SameMeaning
  FrameRestored
PROPERTIES
  InsertsByTheRule
  EveryTextIsRead
