SPECIFICATION SSpec
CONSTANTS
  Jobs = {j1, j2}
  MaxVersion = 1
  Chunks = 1
  PromptDispatch = TRUE
  MaxPreparing = 2
SYMMETRY JobSymmetry
INVARIANTS OneUpdater OfferVerified RowNotStranded
