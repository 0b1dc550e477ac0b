SPECIFICATION StockSpec
CONSTANTS
  p1 = p1
  v1 = v1
  v2 = v2
  Products = {p1}
  Variants = {v1, v2}
  Orders = {o1}
  Editors = {e1}
  ProductOf <- MCProductOf
  MaxStock = 2
  MaxQuantity = 1
PROPERTY ChangesAreExplained
CHECK_DEADLOCK FALSE
