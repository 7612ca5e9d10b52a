\* Two titles within reach of each other, two languages, and a job that may panic.
CONSTANTS
  Count = 2
  Unlisted = {}
  Radius = 1
  ResultsPerTick = 1
  JobCap = 1
  PrefetchCap = 1
  ResultCap = 1
  Locale <- MCLocale
  MaxPanics = 1
  None = None
SPECIFICATION Spec
PROPERTIES
  NeighboursGetDetails
  SelectedArtIsShown
