SPECIFICATION FairSpec
CONSTANTS
  Keys = {"k1", "k2"}
  Works = {1, 2}
  Lanes = 2
  Rounds = 2
  States = {0, 1, 2, 3, 4}
  Units = {0, 1, 2, 3, 4}
  Items = {0, 1, 2, 3, 4}
  Indices = {0, 1}
  Base = 3
  HashBytes = 2
  Gen <- MCGen
  Offered <- MCOffered
  Targets <- MCTargets
  LaneInit <- MCLaneInit
  ScratchInit <- MCScratchInit
  ItemOf <- MCItemOf
  ReadIndex0 <- MCReadIndex0
  ReadIndex1 <- MCReadIndex1
  ItemIndex <- MCItemIndex
  NextState <- MCNextState
  WriteIndex <- MCWriteIndex
  WriteUnit <- MCWriteUnit
  PowHash <- MCPowHash
INVARIANTS TypeOK OverrideScoped LanesIndependent
PROPERTIES ImplementsPow CallsEnd
