SPECIFICATION Spec
CONSTANTS
  Threads = {t1, t2}
  NoThread = NoThread
  ByteBits = 1
  AdcReads = FALSE
  Requests <- SmallRequests
INVARIANTS TypeOK OutputKnown
PROPERTY ImplementsPort
