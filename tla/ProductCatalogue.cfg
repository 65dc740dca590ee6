\* Categories, products of the three kinds and reviews, in six scenarios.
SPECIFICATION Spec
CONSTANTS
  card = card
  card2 = card2
  game = game
  sub = sub
  Requests = {r1, r2}
  Users = {u1, u2}
  Titles = {"Games", "GAMES", "Games 2"}
  Fold <- FoldOf
  Base <- BaseOf
  Explicit <- TwoWords
  Products = {card, card2, game, sub}
  KindOf <- KindOfAll
  SlugOf <- SlugOfAll
  MaxBulk = 2
  MaxRow = 3
  MaxSuffix = 4
  MaxList = 3
  MaxOption = 4
  MaxReview = 3
  Scenarios <- AllScenarios
  NoTitle = NoTitle
  NoProduct = NoProduct
  NoUser = NoUser
  NoOption = NoOption
SYMMETRY RequestSymmetry
INVARIANTS CatalogueInvariant
CHECK_DEADLOCK FALSE
