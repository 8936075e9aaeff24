\* A miner on the item memo and a verifier under an override, either with
\* item allocations that fail.
CONSTANTS
  miner = miner   verifier = verifier
  cx18 = cx18     cx64 = cx64
  s1 = s1         s2 = s2
  Threads <- MCThreads
  Miners = {miner}
  Profiles <- MCProfiles
  Seeds = {s1, s2}
  Keys <- MCKeys
  BlockCount <- MCBlockCount
  ItemCount <- MCItemCount
  Values <- MCValues
  Zero <- MCZero
  Gen <- MCGen
  Supplied <- MCSupplied
  DefaultKey <- MCDefaultKey
  MaxScopes <- MCMaxScopes
  MaxOffset = 3
  MaxLength = 1
  GetItemTaps = 2
  TapBlock <- MCTapBlock
  MaxIndex = 2
SPECIFICATION Spec
INVARIANTS TypeOK ItemMemoFaithful ItemFaithful
PROPERTIES ItemMemoGrows OverrideLeavesItems
