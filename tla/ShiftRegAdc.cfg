SPECIFICATION Spec
CONSTANTS
  Threads = {smgr}
  NoThread = NoThread
  ByteBits = 2
  AdcReads = TRUE
  Requests <- ProgramRequests
PROPERTY ImplementsPort
