SPECIFICATION Spec
CONSTANTS
  Fuel = 60
  Patience = 60
  DataEnd = 100
  StackSize = 400
  MemBytes = 4000
  Word = 65536
  Sources <- MCPanickingSources
INVARIANTS
  ErrorsNeverPanic
