SPECIFICATION SessionSpec
CONSTANTS
  MaxLogins = 2
  Rankers = {r1, r2}
  PromptDestroy = TRUE
INVARIANT RankingThere
