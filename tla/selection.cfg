SPECIFICATION SelectionSpec
CONSTANTS
  Contractions <- MCContractions
  Stopwords <- MCStopwords
  Allowlist <- MCAllowlist
  Droppable <- MCDroppable
  Numerals <- MCNumerals
  Originals <- MCOriginals
  Intensities <- MCIntensities
  Baselines <- MCBaselines
  Threshold = 400
  Rewritings <- MCRewritings
INVARIANTS
  MeaningKept
  KeptTwice
  BestThatParses
