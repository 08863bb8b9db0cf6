SPECIFICATION Spec
CONSTANTS
  Clerks = {c1, c2}
  Forms = {f1, f2}
  Variants <- TwoArticles
  MaxQuantity = 1
  MaxLine = 4
  MaxOrder = 2
  MaxStock = 1
  PreOrder = {2}
  Baskets <- TwoArticleBaskets
  Targets <- SwapTargets
SYMMETRY Symmetry
INVARIANTS NeverOversold OneOrderPerForm PlacingNeverDeadlocks
PROPERTIES ClosedStaysClosed  
