\* The real cache sizes and tap count at the boundaries of the checks.
CONSTANTS
  Profiles <- MCProfiles
  CacheBytes <- MCCacheBytes
  GetItemTaps = 24
  Modulus <- MCModulus
  Uints <- MCUints
SPECIFICATION LayoutSpec
INVARIANTS LayoutTypeOK SliceExact TapInside
PROPERTIES TapsDispersed
