------------------------------ MODULE RowLocks ------------------------------
(***************************************************************************)
(* The rows the write paths lock, and the order they lock them in.  A path *)
(* is a set of steps, each with its place: the query it belongs to, the id *)
(* that query is ordered by, and the part of the line of a joined table.   *)
(* Its transaction takes the steps in their order, waits for the row it is *)
(* at, and lets all go when it commits or aborts.  On PostgreSQL a SELECT  *)
(* ... FOR UPDATE with ORDER BY id locks the rows of each line of its      *)
(* result in turn, those of a joined table included; an UPDATE or DELETE   *)
(* of several rows locks them in the order its scan meets them, which is   *)
(* any.                                                                    *)
(***************************************************************************)
EXTENDS Naturals, FiniteSets

CONSTANTS
  Products,      \* product ids
  Variants,      \* variant ids
  Orders,        \* order ids
  ProductOf,     \* the product of each variant
  CategoryOf,    \* the category of each product (what a bulk change makes of
                 \* it is left out)
  Transactions   \* transactions at a time

ASSUME RowLocksAssumption ==
  /\ Products \subseteq Nat /\ Variants \subseteq Nat
  /\ ProductOf \in [Variants -> Products]
  /\ DOMAIN CategoryOf = Products
  /\ IsFiniteSet(Transactions)

VARIABLES
  todo,   \* the steps each transaction has still to take
  held,   \* the rows each transaction has locked
  strays  \* the transactions on a path that does not keep the order of the ids

rowLocksVars == <<todo, held, strays>>

ProductRow(p) == <<"product", p>>
VariantRow(v) == <<"variant", v>>
CategoryRow(p) == <<"category", CategoryOf[p]>>
OrderRow(o) == <<"order", o>>
Rows == {ProductRow(p) : p \in Products} \cup {VariantRow(v) : v \in Variants}
        \cup {CategoryRow(p) : p \in Products} \cup {OrderRow(o) : o \in Orders}

\* A step that locks `row`.
LockStep(stage, id, part, row) == [stage |-> stage, id |-> id, part |-> part, row |-> row]
Steps == [stage : 0..3, id : Nat, part : 0..1, row : Rows]

RowLocksTypeOK ==
  /\ \A t \in Transactions : todo[t] \subseteq Steps
  /\ held \in [Transactions -> SUBSET Rows]
  /\ strays \subseteq Transactions
  /\ \A t, u \in Transactions : t # u => held[t] \cap held[u] = {}

RowLocksInit ==
  /\ todo = [t \in Transactions |-> {}]
  /\ held = [t \in Transactions |-> {}]
  /\ strays = {}
-----------------------------------------------------------------------------
\* The queries follow one another, each is ordered by id, and of a joined line
\* the row of the table itself comes first.
Earlier(x, y) ==
  \/ x.stage < y.stage
  \/ x.stage = y.stage /\ x.id < y.id
  \/ x.stage = y.stage /\ x.id = y.id /\ x.part < y.part

\* The query `stage` locks the rows `Lock(id)` in the order of their ids.
ById(stage, ids, Lock(_)) == {LockStep(stage, i, 0, Lock(i)) : i \in ids}
VariantsOf(ps) == {v \in Variants : ProductOf[v] \in ps}

\* Mutated form: the products in the order of the cart.
CartProductsAsGiven(ps) ==
  LET Line(p) == Cardinality({q \in ps : q > p})
  IN {LockStep(1, Line(p), 0, ProductRow(p)) : p \in ps}
     \cup {LockStep(1, Line(p), 1, CategoryRow(p)) : p \in ps}

\* _lock_cart_products joins the category of each product.
LockCartProducts(ps) ==
  ById(1, ps, ProductRow) \cup {LockStep(1, p, 1, CategoryRow(p)) : p \in ps}

\* _lock_cart_variants joins the product of each variant, whether or not the
\* cart has it.
LockCartVariants(vs) ==
  ById(2, vs, VariantRow) \cup {LockStep(2, v, 1, ProductRow(ProductOf[v])) : v \in vs}

\* The client sends the products and the variants, and only after both queries
\* is it checked that a variant belongs to the product of its line.
CheckoutLocks(ps, vs) == LockCartProducts(ps) \cup LockCartVariants(vs)

\* PdvSaleView: the products, then their active variants.
PdvLocks(ps, active) == ById(1, ps, ProductRow) \cup ById(3, active, VariantRow)

\* apply_stock_movement: the product, the selected variant, the active ones.
MovementLocks(p, chosen, active) ==
  ById(1, {p}, ProductRow) \cup ById(2, chosen, VariantRow) \cup ById(3, active, VariantRow)

\* apply_order_cancellation: the order, its products, its variants, whose query
\* joins their products to filter by the store.
CancelLocks(o, ps, vs) ==
  {LockStep(0, 0, 0, OrderRow(o))} \cup ById(1, ps, ProductRow) \cup LockCartVariants(vs)

\* The variants of a product form: the product, then all its variants.
FormLocks(p) == ById(1, {p}, ProductRow) \cup ById(3, VariantsOf({p}), VariantRow)

\* The orders in which a scan may meet the rows of `ids`.
Scans(ids) == {scan \in [ids -> ids] : \A i, j \in ids : scan[i] = scan[j] => i = j}

\* bulk_update_category: one UPDATE of several products.
BulkLocks(scan) == {LockStep(1, scan[p], 0, ProductRow(p)) : p \in DOMAIN scan}

\* The deletion of a product: its variants are deleted before it is.
DeletionLocks(p, scan) ==
  {LockStep(2, scan[v], 0, VariantRow(v)) : v \in DOMAIN scan}
  \cup {LockStep(3, p, 0, ProductRow(p))}

\* The paths of the lines of products `ps`: they are placed or sold, or their
\* order is cancelled; and of one product `p`: a movement, and its form.
CartPlans(ps) ==
  LET Chosen == SUBSET VariantsOf(ps)
  IN {CheckoutLocks(ps, vs) : vs \in Chosen} \cup {PdvLocks(ps, vs) : vs \in Chosen}
     \cup {CancelLocks(o, ps, vs) : vs \in Chosen, o \in Orders}

ProductPlans(p) ==
  {MovementLocks(p, chosen, active) :
     chosen \in {s \in SUBSET VariantsOf({p}) : Cardinality(s) <= 1},
     active \in SUBSET VariantsOf({p})}
  \cup {FormLocks(p)}

\* transition_payment; an UPDATE of one product or category by itself.
SinglePlans ==
  {{LockStep(0, 0, 0, OrderRow(o))} : o \in Orders}
  \cup {{LockStep(0, 0, 0, CategoryRow(p))} : p \in Products}
  \cup {{LockStep(1, p, 0, ProductRow(p))} : p \in Products}

Plans ==
  (UNION {CartPlans(ps) : ps \in (SUBSET Products) \ {{}}})
  \cup (UNION {ProductPlans(p) : p \in Products}) \cup SinglePlans

\* The paths that do not keep to the order: a checkout that names a variant of
\* a product outside its cart, a change of the category of several, a deletion.
StrayPlans ==
  (UNION {{CheckoutLocks(ps, vs) : vs \in (SUBSET Variants) \ SUBSET VariantsOf(ps)} :
            ps \in (SUBSET Products) \ {{}}})
  \cup (UNION {{BulkLocks(scan) : scan \in Scans(ps)} :
            ps \in {s \in SUBSET Products : Cardinality(s) > 1}})
  \cup (UNION {{DeletionLocks(p, scan) : scan \in Scans(VariantsOf({p}))} : p \in Products})
-----------------------------------------------------------------------------
Begin(t) ==
  /\ todo[t] = {} /\ held[t] = {}
  /\ \/ /\ \E plan \in Plans : todo' = [todo EXCEPT ![t] = plan]
        /\ strays' = strays \ {t}
     \/ /\ \E plan \in StrayPlans : todo' = [todo EXCEPT ![t] = plan]
        /\ strays' = strays \cup {t}
  /\ UNCHANGED held

IsFirst(x, steps) == \A y \in steps \ {x} : Earlier(x, y)

WaitsFor(t, u) ==
  t # u /\ \E x \in todo[t] : x.row \in held[u] /\ IsFirst(x, todo[t])

Acquire(t) ==
  \E x \in todo[t] :
    /\ IsFirst(x, todo[t])
    /\ \A u \in Transactions : ~WaitsFor(t, u)
    /\ held' = [held EXCEPT ![t] = @ \cup {x.row}]
    /\ todo' = [todo EXCEPT ![t] = @ \ {x}]
    /\ UNCHANGED strays

\* All is locked and the transaction commits, or it is rolled back on the way.
Finish(t) ==
  /\ held[t] # {}
  /\ held' = [held EXCEPT ![t] = {}]
  /\ todo' = [todo EXCEPT ![t] = {}]
  /\ strays' = strays \ {t}

RowLocksNext == \E t \in Transactions : Begin(t) \/ Acquire(t) \/ Finish(t)

RowLocksSpec == RowLocksInit /\ [][RowLocksNext]_rowLocksVars
-----------------------------------------------------------------------------
\* A set of transactions each of which waits for another of the set.
Deadlocked(S) == S # {} /\ \A t \in S : \E u \in S : WaitsFor(t, u)

\* In every deadlock somebody waits for a category row, or is on one of the
\* paths that keep no order: orders, products and variants are locked in one
\* order by checkouts of the cart's own variants, sales, cancellations, movements
\* and forms.
DeadlockHasACause ==
  \A S \in SUBSET Transactions :
    Deadlocked(S) =>
      \E t \in S :
        \/ t \in strays
        \/ \E x \in todo[t] :
             IsFirst(x, todo[t]) /\ \E p \in Products : x.row = CategoryRow(p)

\* "Locks every affected product row (ordered by id, same deadlock-free pattern
\* as CheckoutWhatsAppView._lock_cart_products and PdvSaleView._lock_products)"
\* (apply_order_cancellation): among the paths that keep the order, no deadlock.
NoDeadlock == \A S \in SUBSET (Transactions \ strays) : ~Deadlocked(S)
=============================================================================
