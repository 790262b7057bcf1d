SPECIFICATION FairSpec
CONSTANTS
  top = top  rotCw = rotCw  rotCcw = rotCcw
  Button <- Panel
  Trigger <- Handlers
INVARIANTS TypeOK ChangeIsKept
PROPERTIES NoEcho HeldIsTold
