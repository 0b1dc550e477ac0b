------------------------------- MODULE Carts -------------------------------
(***************************************************************************)
(* The carts of a visitor: one for each store, in localStorage, which all  *)
(* tabs share (useCart).  A tab keeps the cart of the store it is in in    *)
(* memory, writes it at every change, and exchanges it when the selected  *)
(* store changes (store-scope).  It shows the product list it last got     *)
(* (ProductsView), which may be that of the store it comes from.           *)
(*                                                                         *)
(* An item is known by the store it is of and by whether it was added from *)
(* such a left-over list; what a customer typed, by when.                  *)
(***************************************************************************)
EXTENDS Naturals

CONSTANTS
  Stores,    \* slugs; "default" is the key when none is selected
  CartTabs,
  CartDays,  \* bound: days that pass
  MaxVisits,  \* bound: pages opened and left, stores resolved, items added, details
              \* typed
  CartTtl    \* days a customer's details are kept

ASSUME CartsAssumption == "default" \in Stores /\ {CartDays, MaxVisits, CartTtl} \subseteq Nat
\* The names that stand for no store, and for the time before there were any.
ASSUME MarksAssumption == {"none", "legacy"} \cap Stores = {}

VARIABLES
  stored,     \* localStorage: the cart of each store
  lastStore,  \* localStorage: the slug selected last, "none" if removed
  legacy,     \* localStorage: the items of the time before stores
  shopper,    \* memory of each tab
  day,
  visits,     \* how many of the bounded events there were
  contested   \* history: carts two tabs have held at once, or that were erased
              \* under a tab

cartsVars == <<stored, lastStore, legacy, shopper, day, visits, contested>>

Items == [of : Stores, late : BOOLEAN] \cup {[of |-> "legacy", late |-> FALSE]}
\* A key that is not there, and one with nothing typed in; a customer's details
\* are known by the day they were typed.
Absent == 0
Blank == 1
TypedOn(d) == d + 2
Details == 0..(CartDays + 2)

NoCart == [there |-> FALSE, items |-> {}, customer |-> Absent, savedAt |-> 0]
Closed == [store |-> "none", selected |-> FALSE, bare |-> FALSE, items |-> {},
           customer |-> Blank, list |-> "none", asked |-> "none", resolving |-> {}]

CartsTypeOK ==
  /\ stored \in [Stores -> [there : BOOLEAN, items : SUBSET Items,
                            customer : Details, savedAt : 0..(CartDays + 1)]]
  /\ \A s \in Stores : ~stored[s].there => stored[s].items = {}
  /\ lastStore \in Stores \cup {"none"}
  /\ legacy \in BOOLEAN
  /\ shopper \in [CartTabs -> [store : Stores \cup {"none"}, selected : BOOLEAN,
                  bare : BOOLEAN, items : SUBSET Items, customer : Details \ {Absent}, list : Stores \cup {"none"},
                  asked : Stores \cup {"none"}, resolving : SUBSET Stores]]
  /\ day \in 0..CartDays
  /\ visits \in 0..MaxVisits
  /\ contested \subseteq Stores

CartsInit ==
  /\ stored = [s \in Stores |-> NoCart]
  /\ lastStore = "none"
  /\ legacy \in BOOLEAN
  /\ shopper = [t \in CartTabs |-> Closed]
  /\ day = 0 /\ visits = 0
  /\ contested = {}
-----------------------------------------------------------------------------
\* Mutated form: the day of saving is written at every switch.
PersistAndStamp(kept, tab) ==
  [kept EXCEPT ![tab.store] =
    [there |-> TRUE, items |-> tab.items, customer |-> tab.customer, savedAt |-> day + 1]]

\* persistState: the day of saving changes only with what was typed.
Persist(kept, tab) ==
  [kept EXCEPT ![tab.store] =
    [there |-> TRUE, items |-> tab.items, customer |-> tab.customer,
     savedAt |-> IF @.customer = tab.customer THEN @.savedAt ELSE day + 1]]

\* migrateLegacyCartOnce: the old cart becomes that of the store, unless it has
\* one; it is removed either way.  (Old details carry no day, and expire.)
Migrated(kept, s) ==
  IF legacy /\ ~kept[s].there
  THEN [kept EXCEPT ![s].there = TRUE,
                    ![s].items = {[of |-> "legacy", late |-> FALSE]}]
  ELSE kept

Expired(cart) == cart.savedAt = 0 \/ day - (cart.savedAt - 1) > CartTtl

\* loadPersistedState for store `s` of the tab, from the carts `kept`: details
\* that have expired are removed.
LoadInto(t, tab, kept, s) ==
  LET cart == Migrated(kept, s)[s]
      current == cart.customer # Absent /\ ~Expired(cart)
  IN /\ shopper' = [shopper EXCEPT ![t] =
          [tab EXCEPT !.store = s, !.items = cart.items,
                      !.customer = IF current THEN cart.customer ELSE Blank]]
     /\ stored' = [Migrated(kept, s) EXCEPT ![s] =
          IF cart.customer = Absent \/ current THEN cart
          ELSE [cart EXCEPT !.customer = Absent, !.savedAt = 0]]
     /\ legacy' = FALSE
     /\ contested' = contested \cup (IF \E u \in CartTabs \ {t} : shopper[u].store = s
                                     THEN {s} ELSE {})

\* Mutated form: the cart is written under the key of the store that comes.
SwitchWritingNew(t, tab, s) ==
  LoadInto(t, tab, Persist(stored, [shopper[t] EXCEPT !.store = s]), s)

\* The listener of useCart on the selected store.
Switch(t, tab, s) == LoadInto(t, tab, Persist(stored, shopper[t]), s)

\* The visitor opens the shop page of store `s`, which is selected at once; its
\* products and the store itself are asked for.
Open(t, s) ==
  /\ lastStore' = s
  /\ LoadInto(t, [Closed EXCEPT !.selected = TRUE, !.asked = s, !.resolving = {s}],
              stored, s)
  /\ UNCHANGED day

\* The shop page without a store: the cart is that of the store selected last,
\* but no request names it until it is resolved (getRequestStoreSlug).
OpenBare(t) ==
  /\ LoadInto(t, [Closed EXCEPT !.selected = lastStore # "none", !.bare = TRUE,
                                 !.asked = "default", !.resolving = {"default"}],
              stored, IF lastStore = "none" THEN "default" ELSE lastStore)
  /\ UNCHANGED <<lastStore, day>>

InShop(t) == shopper[t].store # "none"

\* fetchCurrentStore of a visitor: the store that was asked for comes, though
\* the route may have changed since, and is selected; or it does not come.
ResolveStore(t, s) ==
  LET tab == [shopper[t] EXCEPT !.resolving = @ \ {s}]
      silent == ~tab.bare /\ tab.selected /\ tab.store = s
  IN /\ s \in shopper[t].resolving
     /\ \/ /\ ~silent
           /\ lastStore' = s
           /\ Switch(t, [tab EXCEPT !.selected = TRUE, !.bare = FALSE], s)
        \/ /\ shopper' = [shopper EXCEPT ![t] = tab]
           /\ lastStore' \in IF silent THEN {lastStore, s} ELSE {lastStore}
           /\ UNCHANGED <<stored, legacy, contested>>
     /\ UNCHANGED day

\* The route changes to the page of another store; the list stays on the screen
\* until that of the new store comes.
ChangeRoute(t, s) ==
  /\ InShop(t) /\ s # shopper[t].store
  /\ lastStore' = s
  /\ Switch(t, [shopper[t] EXCEPT !.selected = TRUE, !.bare = FALSE, !.asked = s,
                               !.resolving = @ \cup {s}], s)
  /\ UNCHANGED day

\* The list asked for last comes, or does not.
ListArrives(t) ==
  /\ shopper[t].asked # "none"
  /\ \E list \in {shopper[t].asked, shopper[t].list} :
       shopper' = [shopper EXCEPT ![t].list = list, ![t].asked = "none"]
  /\ UNCHANGED <<stored, lastStore, legacy, day, visits, contested>>

\* The items watcher: the cart in memory becomes `items`, and is written.
SetItems(t, items) ==
  /\ InShop(t)
  /\ shopper' = [shopper EXCEPT ![t].items = items]
  /\ stored' = [stored EXCEPT ![shopper[t].store].items = items,
                              ![shopper[t].store].there = TRUE]
  /\ UNCHANGED <<lastStore, legacy, day, contested>>

AddItem(t) ==
  LET tab == shopper[t]
  IN /\ tab.list # "none"
     /\ SetItems(t, tab.items \cup {[of |-> tab.list, late |-> tab.list # tab.store]})

\* removeItem of every line at once is clearCart.
RemoveItems(t) ==
  /\ \E items \in SUBSET shopper[t].items : SetItems(t, items)
  /\ UNCHANGED visits

\* updateCustomer, resetCustomer, and their watcher.
UpdateCustomer(t) ==
  /\ InShop(t)
  /\ \E details \in {TypedOn(day), Blank} :
       /\ shopper' = [shopper EXCEPT ![t].customer = details]
       /\ stored' = [stored EXCEPT ![shopper[t].store].customer = details,
                                   ![shopper[t].store].savedAt = day + 1]
  /\ UNCHANGED <<lastStore, legacy, day, contested>>

\* handleAuthFailure on a shop page deselects the store.
SessionExpires(t) ==
  /\ shopper[t].selected
  /\ lastStore' = "none"
  /\ Switch(t, [shopper[t] EXCEPT !.selected = FALSE], "default")
  /\ UNCHANGED day

\* logout: the details are erased everywhere, and the tab leaves the shop; the
\* other tabs keep theirs in memory.
LogoutOfShop(t) ==
  /\ InShop(t)
  /\ lastStore' = "none"
  /\ stored' = [s \in Stores |->
       [Persist(stored, shopper[t])[s] EXCEPT !.customer = Absent, !.savedAt = 0]]
  /\ shopper' = [shopper EXCEPT ![t] = Closed]
  /\ contested' = contested \cup {shopper[u].store : u \in {v \in CartTabs \ {t} : InShop(v)}}
  /\ UNCHANGED <<legacy, day>>

NextDay == day < CartDays /\ day' = day + 1
           /\ UNCHANGED <<stored, lastStore, legacy, shopper, visits, contested>>

Visit(t) ==
  /\ visits < MaxVisits /\ visits' = visits + 1
  /\ \/ \E s \in Stores : Open(t, s) \/ ChangeRoute(t, s) \/ ResolveStore(t, s)
     \/ OpenBare(t) \/ AddItem(t) \/ UpdateCustomer(t)
     \/ SessionExpires(t) \/ LogoutOfShop(t)

CartsNext ==
  \/ \E t \in CartTabs : Visit(t) \/ ListArrives(t) \/ RemoveItems(t)
  \/ NextDay

CartsSpec == CartsInit /\ [][CartsNext]_cartsVars
-----------------------------------------------------------------------------
\* The cart of a store, in storage and in every tab, holds items of that store,
\* but for those added from a left-over list; a cart of the time before stores
\* is in one of them only.
CartsStayApart ==
  LET fits(s, items) ==
        \A item \in items : item.of = s \/ item.of = "legacy" \/ item.late
      holdsLegacy(s) == \E item \in stored[s].items : item.of = "legacy"
  IN /\ \A s \in Stores : fits(s, stored[s].items)
     /\ \A t \in CartTabs : fits(shopper[t].store, shopper[t].items)
     /\ \A r, s \in Stores : holdsLegacy(r) /\ holdsLegacy(s) => r = s

\* The stamp that the expiry of a customer's details is counted from is the day
\* they were typed, however often the stores are switched (persistState),
\* unless two tabs shared the cart.
SavedWhenTyped ==
  \A s \in Stores \ contested :
    stored[s].customer > Blank => TypedOn(stored[s].savedAt - 1) = stored[s].customer
-----------------------------------------------------------------------------
\* The key is per store "so a delivery region or item picked while browsing one
\* storefront never bleeds into another's" (useCart).
CartNeverBleeds ==
  \A s \in Stores : \A item \in stored[s].items : item.of \in {s, "legacy"}
=============================================================================
