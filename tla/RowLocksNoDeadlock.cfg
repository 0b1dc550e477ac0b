SPECIFICATION RowLocksSpec
CONSTANTS
  Products <- ProductIds
  Variants <- VariantIds
  Orders = {1}
  ProductOf <- ProductsOfVariants
  CategoryOf <- CategoriesOfProducts
  Transactions = {x1, x2}
INVARIANT NoDeadlock
CHECK_DEADLOCK FALSE
