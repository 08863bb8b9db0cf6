SPECIFICATION Spec
CONSTANTS
  Clerks = {c1, c2}
  Forms = {f1, f2}
  Variants <- OneArticle
  MaxQuantity = 2
  MaxLine = 3
  MaxOrder = 2
  MaxStock = 2
  PreOrder = {}
  Baskets <- OneArticleBaskets
  Targets <- OneArticleTargets
SYMMETRY Symmetry
INVARIANTS StockAndStateAgree
