\* Two threads on both memos at once, and rebuilds that fail: what a verification
\* reads, and its items, are unaffected by either.
CONSTANTS
  miner = miner   verifier = verifier
  cx18 = cx18     cx64 = cx64
  s1 = s1         s2 = s2
  Threads <- MCThreads
  Miners <- MCThreads
  Profiles <- MCProfiles
  Seeds = {s1}
  Keys <- MCKeys
  BlockCount <- MCBlockCount
  ItemCount <- MCItemCount
  Values <- MCContents
  Zero <- MCZero
  Gen <- MCGen
  Supplied <- MCForeign
  DefaultKey <- MCDefaultKey
  MaxScopes <- MCVerifierScope
  MaxOffset = 1
  MaxLength = 1
  CanFail = TRUE
  GetItemTaps = 2
  TapBlock <- MCTapBlock
  MaxIndex = 0
SPECIFICATION ItemsSpec
INVARIANTS SuppliedItems OverridePure
PROPERTIES OverrideLeavesMemo
