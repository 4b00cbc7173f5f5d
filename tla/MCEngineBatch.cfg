CONSTANTS
  Calls <- MCCalls
  Images <- MCImages
  ImageId <- MCImageId
  Corrupt = {"broken"}
  NoImage = "none"
  Marker = "M"
  Vision = TRUE
  MaxSeqs = 2
  MaxLength = 7
  ImageTokens = 1
  ImageLimit = 2
  CacheLimit = 5
  Align = 2
  MinPrefix = 2
  BatchOption = 7
  Partial = {0, 1}
SPECIFICATION Spec
INVARIANT PassWithinBatch
