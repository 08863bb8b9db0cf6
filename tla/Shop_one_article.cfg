SPECIFICATION FairSpec
CONSTANTS
  Clerks = {c1, c2}
  Forms = {f1}
  Variants <- OneArticle
  MaxQuantity = 2
  MaxLine = 2
  MaxOrder = 2
  MaxStock = 2
  PreOrder = {}
  Baskets <- OneArticleBaskets
  Targets <- OneArticleTargets
INVARIANTS TypeOK IssuedOnce Inv StockInv
PROPERTIES EveryRequestEnds
