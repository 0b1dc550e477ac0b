-------------------------------- MODULE Stock --------------------------------
(***************************************************************************)
(* The stock of a store: its products, their variants, the orders that     *)
(* took units, and the StockMovement ledger.                               *)
(*                                                                         *)
(* Sales, manual movements, cancellations and the variant part of the      *)
(* product form run in transactions that lock the product row first, so    *)
(* each is one step.  Creating a product is several transactions, and the  *)
(* product form saves the whole product row it read without a lock before  *)
(* its variant transaction: those are several steps.                       *)
(*                                                                         *)
(* What is bought or moved is an item: a product sold without a variant,   *)
(* or one of its variants.                                                 *)
(***************************************************************************)
EXTENDS Integers, FiniteSets, Functions

CONSTANTS
  Products, Variants, Orders,
  Editors,     \* requests that update a product through its form
  ProductOf,   \* the product of each variant
  MaxStock,    \* bound: stock entered by hand, and a product's ledger
  MaxQuantity  \* bound: quantity of one order line or movement

ASSUME ProductOfAssumption == ProductOf \in [Variants -> Products]
ASSUME VariantsAssumption == IsFiniteSet(Variants)
ASSUME ItemsAssumption == Products \cap Variants = {}
ASSUME StockBoundsAssumption == MaxStock \in Nat /\ MaxQuantity \in Nat

VARIABLES
  pRow,     \* the row of a product: "none", "live" or "deleted"
  pStock,   \* Product.stock_quantity
  pAvail,   \* Product.is_available
  vRow,     \* the row of a variant: "none", "active", "inactive", "deleted"
  vStock,   \* ProductVariant.stock_quantity
  pLedger,  \* net of the product's movements that name no variant
  vLedger,  \* net of the movements that name the variant
  items,    \* the order lines: units of each item, deleted rows forgotten
  sale,     \* an order: "none", "held" or "cancelled"
  making,   \* how far the creation of a product has come
  made,     \* the stock in the creating request's memory
  editor,   \* the product form requests in progress
  drifted   \* history: products whose stock a stale or partial write moved

rows   == <<pRow, pStock, pAvail, vRow, vStock>>
ledger == <<pLedger, vLedger>>
stockVars ==
  <<rows, ledger, items, sale, making, made, editor, drifted>>

Items == Products \cup Variants
VariantsOf(p) == {v \in Variants : ProductOf[v] = p}
ActiveOf(p) == {v \in VariantsOf(p) : vRow[v] = "active"}
Live(v) == vRow[v] \in {"active", "inactive"}
NoUnits == [x \in Items |-> 0]

\* The sum of f over the set S, and the units a cart takes of one product.
Total(f, S) == FoldFunctionOnSet(+, 0, f, S)
Units(cart, p) == cart[p] + Total(cart, VariantsOf(p))

\* The products in whose name no variant was ever made.
Plain(p) == \A v \in VariantsOf(p) : vRow[v] = "none"

FormIdle == [step |-> "idle"]
FormStates ==
  [step : {"loaded", "saved"}, product : Products, stock : Nat] \cup {FormIdle}

StockTypeOK ==
  /\ pRow \in [Products -> {"none", "live", "deleted"}]
  /\ pStock \in [Products -> Nat]
  /\ pAvail \in [Products -> BOOLEAN]
  /\ vRow \in [Variants -> {"none", "active", "inactive", "deleted"}]
  /\ vStock \in [Variants -> Nat]
  /\ pLedger \in [Products -> Int]
  /\ vLedger \in [Variants -> Int]
  /\ items \in [Orders -> [Items -> Nat]]
  /\ sale \in [Orders -> {"none", "held", "cancelled"}]
  /\ making \in [Products -> {"no", "saved", "synced", "done", "aborted"}]
  /\ made \in [Products -> Nat]
  /\ editor \in [Editors -> FormStates]
  /\ drifted \in SUBSET Products

StockInit ==
  /\ pRow = [p \in Products |-> "none"]
  /\ pStock = [p \in Products |-> 0]
  /\ pAvail = [p \in Products |-> FALSE]
  /\ vRow = [v \in Variants |-> "none"]
  /\ vStock = [v \in Variants |-> 0]
  /\ pLedger = [p \in Products |-> 0]
  /\ vLedger = [v \in Variants |-> 0]
  /\ items = [o \in Orders |-> NoUnits]
  /\ sale = [o \in Orders |-> "none"]
  /\ making = [p \in Products |-> "no"]
  /\ made = [p \in Products |-> 0]
  /\ editor = [e \in Editors |-> FormIdle]
  /\ drifted = {}
-----------------------------------------------------------------------------
\* Mutated form: the product is not taken off sale when its stock ends.
SetStockOnly(p, n) ==
  /\ pStock' = [pStock EXCEPT ![p] = n]
  /\ pAvail' = [pAvail EXCEPT ![p] = @ \/ n > 0]

\* Write a product's stock; is_available always follows it.
SetStock(p, n) ==
  /\ pStock' = [pStock EXCEPT ![p] = n]
  /\ pAvail' = [pAvail EXCEPT ![p] = n > 0]

\* Mutated form: the sum takes in the variants that are not on sale.
ResyncFromAll(p, active, stock) ==
  \/ active # {} /\ SetStock(p, Total(stock, VariantsOf(p)))
  \/ active = {} /\ UNCHANGED <<pStock, pAvail>>

\* sync_product_stock_from_variants: the product takes the stock of its
\* active variants, and keeps its own when none is active.
Resync(p, active, stock) ==
  \/ active # {} /\ SetStock(p, Total(stock, active))
  \/ active = {} /\ UNCHANGED <<pStock, pAvail>>

\* History: the product follows its active variants again, if it has any.
Follows(p, active) == IF active = {} THEN drifted ELSE drifted \ {p}

\* Mutated form: only stock that rises is recorded.
RecordEntries(old, new) == IF new > old THEN new - old ELSE 0

\* The movement the product form writes for a variant whose stock it changes.
Recorded(old, new) == new - old

\* A variants_payload the form may send: rows it leaves out are deleted, and
\* it can name no row that is gone.
Payloads(p) ==
  {f \in [VariantsOf(p) ->
            [row : {"none", "active", "inactive", "deleted"}, stock : 0..MaxStock]] :
     \A v \in VariantsOf(p) :
       /\ f[v].row \in CASE vRow[v] = "none"    -> {"none", "active", "inactive"}
                         [] vRow[v] = "deleted" -> {"deleted"}
                         [] OTHER -> {"active", "inactive", "deleted"}
       /\ f[v].row \in {"none", "deleted"} => f[v].stock = 0}

Active(payload) == {v \in DOMAIN payload : payload[v].row = "active"}

\* _sync_variants on the locked product.  Movements and order lines of a
\* deleted variant stay, and name only the product from then on.
SyncVariants(p, payload) ==
  LET own == VariantsOf(p)
      gone == {v \in own : Live(v) /\ payload[v].row = "deleted"}
      stock == [v \in own |-> payload[v].stock]
  IN /\ vRow' = [v \in Variants |-> IF v \in own THEN payload[v].row ELSE vRow[v]]
     /\ vStock' = [v \in Variants |-> IF v \in own THEN stock[v] ELSE vStock[v]]
     /\ vLedger' = [v \in Variants |->
          CASE v \in gone -> 0
            [] v \in own \ gone -> vLedger[v] + Recorded(vStock[v], stock[v])
            [] OTHER -> vLedger[v]]
     /\ pLedger' = [pLedger EXCEPT ![p] = @ + Total(vLedger, gone)]
     /\ items' = [o \in Orders |-> [x \in Items |->
          CASE x \in gone -> 0
            [] x = p -> items[o][p] + Total(items[o], gone)
            [] OTHER -> items[o][x]]]
     /\ Resync(p, Active(payload), stock)
-----------------------------------------------------------------------------
\* ProductViewSet.create, first step: the product row, with its stock.
CreateProduct(p, n) ==
  /\ pRow[p] = "none"
  /\ pRow' = [pRow EXCEPT ![p] = "live"]
  /\ SetStock(p, n)
  /\ making' = [making EXCEPT ![p] = "saved"]
  /\ made' = [made EXCEPT ![p] = n]
  /\ UNCHANGED <<vRow, vStock, ledger, items, sale, editor, drifted>>

\* Second step: the variants of the payload.  The request then believes the
\* product has the stock it finds here, whatever was sold since it made it.
CreateVariants(p, payload) ==
  /\ making[p] = "saved" /\ pRow[p] = "live"
  /\ SyncVariants(p, payload)
  /\ making' = [making EXCEPT ![p] = "synced"]
  /\ made' = [made EXCEPT ![p] = pStock'[p]]
  /\ drifted' = IF Active(payload) = {} /\ pStock[p] # made[p]
                  THEN drifted \cup {p} ELSE Follows(p, Active(payload))
  /\ UNCHANGED <<pRow, sale, editor>>

\* Mutated form: the committed stock is logged, not the one the request made.
LogCommittedStock(p) ==
  /\ making[p] \in {"saved", "synced"} /\ pRow[p] = "live"
  /\ pLedger' = [pLedger EXCEPT ![p] =
       IF ActiveOf(p) = {} THEN @ + pStock[p] ELSE @]
  /\ making' = [making EXCEPT ![p] = "done"]
  /\ made' = [made EXCEPT ![p] = 0]
  /\ UNCHANGED <<rows, vLedger, items, sale, editor, drifted>>

\* Last step of perform_create: the starting stock is logged, unless the
\* variants have logged theirs.
CreateLog(p) ==
  /\ making[p] \in {"saved", "synced"} /\ pRow[p] = "live"
  /\ pLedger' = [pLedger EXCEPT ![p] = IF ActiveOf(p) = {} THEN @ + made[p] ELSE @]
  /\ making' = [making EXCEPT ![p] = "done"]
  /\ made' = [made EXCEPT ![p] = 0]
  /\ UNCHANGED <<rows, vLedger, items, sale, editor, drifted>>

\* The variants fail validation, the product is gone, or the process dies:
\* the product row stays as it is.
CreateAborts(p) ==
  /\ making[p] \in {"saved", "synced"}
  /\ making' = [making EXCEPT ![p] = "aborted"]
  /\ made' = [made EXCEPT ![p] = 0]
  /\ UNCHANGED <<rows, ledger, items, sale, editor, drifted>>

\* Deleting a product takes its variants and movements; order lines stay
\* without them.
DeleteProduct(p) ==
  /\ pRow[p] = "live"
  /\ pRow' = [pRow EXCEPT ![p] = "deleted"]
  /\ SetStock(p, 0)
  /\ vRow' = [v \in Variants |->
       IF v \in VariantsOf(p) /\ Live(v) THEN "deleted" ELSE vRow[v]]
  /\ vStock' = [v \in Variants |-> IF v \in VariantsOf(p) THEN 0 ELSE vStock[v]]
  /\ pLedger' = [pLedger EXCEPT ![p] = 0]
  /\ vLedger' = [v \in Variants |-> IF v \in VariantsOf(p) THEN 0 ELSE vLedger[v]]
  /\ items' = [o \in Orders |-> [x \in Items |->
       IF x \in {p} \cup VariantsOf(p) THEN 0 ELSE items[o][x]]]
  /\ drifted' = drifted \ {p}
  /\ UNCHANGED <<sale, making, made, editor>>
-----------------------------------------------------------------------------
\* apply_stock_movement on a product without active variants: n > 0 is an
\* "entrada", n < 0 a "saida".
MoveProduct(p, n) ==
  /\ pRow[p] = "live" /\ ActiveOf(p) = {}
  /\ pStock[p] + n \in 0..MaxStock
  /\ pLedger[p] + n \in -MaxStock..MaxStock
  /\ SetStock(p, pStock[p] + n)
  /\ pLedger' = [pLedger EXCEPT ![p] = @ + n]
  /\ UNCHANGED <<pRow, vRow, vStock, vLedger, items, sale, making, made, editor,
                 drifted>>

\* apply_stock_movement on a variant, on sale or not.
MoveVariant(v, n) ==
  /\ Live(v)
  /\ vStock[v] + n \in 0..MaxStock
  /\ vStock' = [vStock EXCEPT ![v] = @ + n]
  /\ vLedger' = [vLedger EXCEPT ![v] = @ + n]
  /\ Resync(ProductOf[v], ActiveOf(ProductOf[v]), vStock')
  /\ drifted' = Follows(ProductOf[v], ActiveOf(ProductOf[v]))
  /\ UNCHANGED <<pRow, vRow, pLedger, items, sale, making, made, editor>>
-----------------------------------------------------------------------------
\* What both channels ask of a line without a variant, and of one with.
ProductSells(p, n) ==
  pRow[p] = "live" /\ ActiveOf(p) = {} /\ pAvail[p] /\ n <= pStock[p]
VariantSells(v, n) == vRow[v] = "active" /\ n <= vStock[v]

\* What a sale changes besides the stock of the products: the order and its
\* lines, the variants, one "saida" per line.
Sell(o, cart) ==
  /\ sale[o] = "none" /\ cart # NoUnits
  /\ sale' = [sale EXCEPT ![o] = "held"]
  /\ items' = [items EXCEPT ![o] = cart]
  /\ vStock' = [v \in Variants |-> vStock[v] - cart[v]]
  /\ pLedger' = [p \in Products |-> pLedger[p] - cart[p]]
  /\ vLedger' = [v \in Variants |-> vLedger[v] - cart[v]]
  /\ UNCHANGED <<pRow, vRow, making, made, editor>>

\* Mutated form: lines are checked one by one, never their sum.
ReserveLines(o, cart) ==
  /\ \A p \in Products : cart[p] > 0 => ProductSells(p, cart[p])
  /\ \A v \in Variants : cart[v] > 0 => VariantSells(v, cart[v])
  /\ Sell(o, cart)
  /\ pStock' = [p \in Products |-> pStock[p] - Units(cart, p)]
  /\ pAvail' = [p \in Products |->
       IF Units(cart, p) > 0 THEN pStock[p] > Units(cart, p) ELSE pAvail[p]]
  /\ UNCHANGED drifted

\* The storefront checkout (_reserve_cart_stock): each line passes its own
\* checks, and the CHECK on stock_quantity refuses what they add up to.
Reserve(o, cart) ==
  /\ \A p \in Products : cart[p] > 0 => ProductSells(p, cart[p])
  /\ \A v \in Variants : cart[v] > 0 =>
       /\ VariantSells(v, cart[v])
       /\ pAvail[ProductOf[v]] /\ cart[v] <= pStock[ProductOf[v]]
  /\ \A p \in Products : Units(cart, p) <= pStock[p]
  /\ Sell(o, cart)
  /\ pStock' = [p \in Products |-> pStock[p] - Units(cart, p)]
  /\ pAvail' = [p \in Products |->
       IF Units(cart, p) > 0 THEN pStock[p] > Units(cart, p) ELSE pAvail[p]]
  /\ UNCHANGED drifted

\* The PDV (_reserve_stock): a product sold by variant takes the stock of its
\* active variants after the sale, whatever it had before.
RingUp(o, cart) ==
  /\ \A p \in Products : cart[p] > 0 => ProductSells(p, cart[p])
  /\ \A v \in Variants : cart[v] > 0 => VariantSells(v, cart[v])
  /\ Sell(o, cart)
  /\ LET byVariant == {p \in Products : Total(cart, VariantsOf(p)) > 0}
         after == [p \in Products |->
           IF p \in byVariant THEN Total(vStock', ActiveOf(p))
                              ELSE pStock[p] - cart[p]]
     IN  /\ pStock' = after
         /\ pAvail' = [p \in Products |->
              IF Units(cart, p) > 0 THEN after[p] > 0 ELSE pAvail[p]]
         /\ drifted' = drifted \ byVariant

\* apply_order_cancellation: every line goes back to its variant, on sale or
\* not, and always to its product.  A product with active variants that gets
\* units none of them has drifts from their sum.
Restock(o) ==
  LET back(p) == Units(items[o], p)
      unsold(p) == {x \in {p} \cup VariantsOf(p) : items[o][x] > 0} \ ActiveOf(p)
  IN /\ sale[o] = "held"
     /\ sale' = [sale EXCEPT ![o] = "cancelled"]
     /\ pStock' = [p \in Products |-> pStock[p] + back(p)]
     /\ pAvail' = [p \in Products |-> pAvail[p] \/ back(p) > 0]
     /\ vStock' = [v \in Variants |-> vStock[v] + items[o][v]]
     /\ pLedger' = [p \in Products |-> pLedger[p] + items[o][p]]
     /\ vLedger' = [v \in Variants |-> vLedger[v] + items[o][v]]
     /\ drifted' = drifted \cup
          {p \in Products : ActiveOf(p) # {} /\ unsold(p) # {}}
     /\ UNCHANGED <<pRow, vRow, items, making, made, editor>>
-----------------------------------------------------------------------------
\* A product update reads the product without a lock (get_object).
FormLoads(e, p) ==
  /\ editor[e] = FormIdle
  /\ pRow[p] = "live"
  /\ editor' = [editor EXCEPT ![e] =
       [step |-> "loaded", product |-> p, stock |-> pStock[p]]]
  /\ UNCHANGED <<rows, ledger, items, sale, making, made, drifted>>

\* instance.save() writes every column of that copy, its stock included; a
\* row deleted since is inserted again.
FormSaves(e) ==
  LET p == editor[e].product IN
  /\ editor[e].step = "loaded"
  /\ pRow' = [pRow EXCEPT ![p] = "live"]
  /\ SetStock(p, editor[e].stock)
  /\ editor' = [editor EXCEPT ![e] =
       [step |-> "saved", product |-> p, stock |-> editor[e].stock]]
  /\ drifted' = IF pRow[p] = "live" /\ editor[e].stock = pStock[p]
                  THEN drifted ELSE drifted \cup {p}
  /\ UNCHANGED <<vRow, vStock, ledger, items, sale, making, made>>

\* The variants of the same form, in a transaction of their own.
FormSyncs(e, payload) ==
  LET p == editor[e].product IN
  /\ editor[e].step = "saved" /\ pRow[p] = "live"
  /\ SyncVariants(p, payload)
  /\ drifted' = Follows(p, Active(payload))
  /\ editor' = [editor EXCEPT ![e] = FormIdle]
  /\ UNCHANGED <<pRow, sale, making, made>>

\* A form that fails validation, sends no variants, or whose variants fail.
FormEnds(e) ==
  /\ editor[e] # FormIdle
  /\ editor' = [editor EXCEPT ![e] = FormIdle]
  /\ UNCHANGED <<rows, ledger, items, sale, making, made, drifted>>
-----------------------------------------------------------------------------
Catalogue(p) ==
  \/ \E n \in 0..MaxStock : CreateProduct(p, n)
  \/ \E f \in Payloads(p) : CreateVariants(p, f)
  \/ CreateLog(p) \/ CreateAborts(p) \/ DeleteProduct(p)

Movement(n) ==
  \/ \E p \in Products : MoveProduct(p, n)
  \/ \E v \in Variants : MoveVariant(v, n)

Form(e) ==
  \/ \E p \in Products : FormLoads(e, p)
  \/ FormSaves(e)
  \/ editor[e].step = "saved"
     /\ \E f \in Payloads(editor[e].product) : FormSyncs(e, f)
  \/ FormEnds(e)

StockNext ==
  \/ \E p \in Products : Catalogue(p)
  \/ \E n \in -MaxQuantity..MaxQuantity \ {0} : Movement(n)
  \/ \E o \in Orders, cart \in [Items -> 0..MaxQuantity] :
       Reserve(o, cart) \/ RingUp(o, cart)
  \/ \E o \in Orders : Restock(o)
  \/ \E e \in Editors : Form(e)

StockSpec == StockInit /\ [][StockNext]_stockVars
-----------------------------------------------------------------------------
\* The movements that name a variant add up to its stock, through sales,
\* cancellations, manual movements and the product form, which overwrites the
\* stock with the one it was sent (_record_variant_stock_movement).
VariantLedgerExact == \A v \in Variants : vStock[v] = vLedger[v]

\* The movements of a product that never had a variant add up to its stock
\* once its creation is over, also when units were sold before the first
\* movement was logged: perform_create logs what it made, not what it finds.
ProductLedgerExact ==
  \A p \in Products :
    pRow[p] = "live" /\ making[p] = "done" /\ Plain(p) /\ p \notin drifted
      => pStock[p] = pLedger[p]

\* A product sold by variant offers exactly the units of its active variants,
\* whichever of checkout, PDV, movement and form came last, as each computes
\* the sum its own way.
AggregateInSync ==
  \A p \in Products :
    ActiveOf(p) # {} /\ p \notin drifted => pStock[p] = Total(vStock, ActiveOf(p))

\* A product is on sale exactly while it has stock: no writer of the stock
\* forgets the flag the storefront reads.
AvailableIffStocked == \A p \in Products : pAvail[p] <=> pStock[p] > 0
-----------------------------------------------------------------------------
\* "Append-only audit trail for every `Product.stock_quantity` change ... this
\* table is the ledger that explains every change to it" (StockMovement): a
\* product that exists and was never sold by variant changes its stock and its
\* ledger by as much.
ChangesAreExplained ==
  [][\A p \in Products :
       /\ pRow[p] = "live" /\ making[p] = "done" /\ Plain(p)
       /\ pRow'[p] = "live" /\ Plain(p)'
       => pStock'[p] - pStock[p] = pLedger'[p] - pLedger[p]]_stockVars
=============================================================================
