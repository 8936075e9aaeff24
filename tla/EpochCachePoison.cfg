\* One thread on the memo, allocations that fail: the memo keeps the key of a
\* cache it never built.
CONSTANTS
  miner = miner   verifier = verifier
  cx18 = cx18     cx64 = cx64
  s1 = s1         s2 = s2
  Threads <- MCThreads
  Miners = {miner}
  Profiles <- MCProfiles
  Seeds = {s1, s2}
  Keys <- MCKeys
  BlockCount <- MCBlockCount
  Values <- MCValues
  Zero <- MCZero
  Gen <- MCGen
  Supplied <- MCSupplied
  DefaultKey <- MCDefaultKey
  MaxScopes <- MCMaxScopes
  MaxOffset = 1
  MaxLength = 1
  CanFail = TRUE
SPECIFICATION Spec
INVARIANTS ReadsFresh
