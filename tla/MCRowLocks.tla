----------------------------- MODULE MCRowLocks -----------------------------
\* Instances of RowLocks for TLC: two products of one category, one of them
\* with two variants.
EXTENDS RowLocks, TLC

ProductIds == {1, 2}
VariantIds == {1, 2}
ProductsOfVariants == (1 :> 1) @@ (2 :> 1)
CategoriesOfProducts == (1 :> 1) @@ (2 :> 1)
=============================================================================
