SPECIFICATION Spec
CONSTANTS
  Clerks = {c1, c2}
  Forms = {f1, f2}
  Variants <- TwoArticles
  MaxQuantity = 1
  MaxLine = 4
  MaxOrder = 2
  MaxStock = 2
  PreOrder = {2}
  Baskets <- SwapBaskets
  Targets <- SwapTargets
SYMMETRY Symmetry
INVARIANTS NoCrosswiseWait
