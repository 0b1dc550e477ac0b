SPECIFICATION StockSpec
CONSTANTS
  p1 = p1
  v1 = v1
  v2 = v2
  Products = {p1}
  Variants = {v1, v2}
  Orders = {o1}
  Editors = {e1}
  ProductOf <- MCProductOf
  MaxStock = 1
  MaxQuantity = 1
SYMMETRY Symmetry
INVARIANTS StockTypeOK VariantLedgerExact ProductLedgerExact AggregateInSync AvailableIffStocked
CHECK_DEADLOCK FALSE
