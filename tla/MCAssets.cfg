SPECIFICATION AssetsSpec
CONSTANTS
  Uploads <- MCUploads
  Output <- MCOutput
  Times <- MCTimes
  Requests = {c1, c2}
  Limit = 1
SYMMETRY Perms
INVARIANT ClaimCarriesEveryInput
INVARIANT ListingIsComplete
CHECK_DEADLOCK FALSE
