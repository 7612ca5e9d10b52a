\* Four titles around a selection that reaches one to each side.
CONSTANTS
  Count = 4
  Unlisted <- MCUnlisted
  Radius = 1
  ResultsPerTick = 2
  JobCap = 1
  PrefetchCap = 1
  Followed <- MCFollowed
  ResultCap = 1
  Locale <- MCLocale
  MaxPanics = 1
  None = None
SPECIFICATION CacheSafety
INVARIANTS
  FetchedOnce
  DetailsInLocale
  ImagesNearSelection
