\* One miner and one verifier, no allocation failure: the memo is invisible.
CONSTANTS
  miner = miner   verifier = verifier
  cx18 = cx18     cx64 = cx64
  s1 = s1         s2 = s2
  Threads <- MCThreads
  Miners = {miner}
  Profiles <- MCProfiles
  Seeds = {s1, s2}
  Keys <- MCKeys
  BlockCount <- MCBlockCount
  Values <- MCValues
  Zero <- MCZero
  Gen <- MCGen
  Supplied <- MCSupplied
  DefaultKey <- MCDefaultKey
  MaxScopes <- MCMaxScopes
  MaxOffset = 1
  MaxLength = 1
  CanFail = FALSE
SPECIFICATION FairSpec
INVARIANTS TypeOK OverrideOwned MemoFaithful ReadsFresh
PROPERTIES ReadTerminates ImplementsOracle
