\* Is a word index past the end always refused?
CONSTANTS
  Profiles <- MCProfiles
  CacheBytes <- MCCacheBytes
  GetItemTaps = 24
  Modulus <- MCModulus
  Uints <- MCUints
SPECIFICATION LayoutSpec
INVARIANTS WordRefusedPastEnd
