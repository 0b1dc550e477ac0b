------------------------------ MODULE StorefrontProofs ------------------------------
(***************************************************************************)
(* Proofs about three modules of the storefront, which share no state:     *)
(* ProductSearch, Carts and BotConversations.                              *)
(***************************************************************************)
EXTENDS ProductSearch, Carts, BotConversations, FiniteSetTheorems, TLAPS
-----------------------------------------------------------------------------
(* ProductSearch.                                                           *)
(* That the product list settles on what the customer wants, for any       *)
(* shops, filters and pages, whatever order the answers come in.  Two      *)
(* facts carry it: a list without a request under way or an error is the   *)
(* answer to the request issued last, and without the timer of the search  *)
(* text that request asked for the filters and the page of now, and for    *)
(* the store of now unless another was selected elsewhere.                 *)

SearchInv ==
  /\ SearchTypeOK
  /\ ~loading /\ ~failed => shown = asked
  /\ ~typing => asked.filters = want.filters /\ asked.page = want.page
  /\ ~moved => asked.store = want.store

\* Asking again for what is kept, or is to be fetched.
LEMMA FetchKept ==
  ASSUME SearchInv, NEW w \in Wanted, NEW kept \in SUBSET Wanted, Fetch(w, kept)
  PROVE  SearchInv'
<1> USE SearchBoundsAssumption
<1>1. /\ want' = w /\ asked' = w /\ typing' = FALSE /\ failed' = FALSE /\ moved' = FALSE
      /\ late' = IF loading THEN late \cup {asked} ELSE late
  BY DEF Fetch
<1>2. late' \subseteq Wanted
  BY <1>1 DEF SearchInv, SearchTypeOK
<1>3. CASE w \in kept /\ Show(w) /\ loading' = FALSE /\ cached' = kept
  <2>1. w.page \in 1..MaxPages
    BY DEF Wanted
  <2>2. pages' \in 0..MaxPages /\ w.page <= pages' /\ shown' = w
    BY <1>3, <2>1 DEF Show
  <2>3. QED
    BY <1>1, <1>2, <1>3, <2>2 DEF SearchInv, SearchTypeOK
<1>4. CASE loading' = TRUE /\ cached' = kept \ {w} /\ UNCHANGED <<shown, pages>>
  BY <1>1, <1>2, <1>4 DEF SearchInv, SearchTypeOK
<1>5. QED
  BY <1>3, <1>4 DEF Fetch

\* One part of what is wanted changes.
LEMMA WantedParts ==
  ASSUME SearchInv
  PROVE  /\ \A f \in FilterSets : FirstPage(f) \in Wanted /\ FirstPage(f).store = want.store
         /\ \A s \in Shops : /\ [want EXCEPT !.store = s] \in Wanted
                             /\ [want EXCEPT !.store = s].filters = want.filters
                             /\ [want EXCEPT !.store = s].page = want.page
         /\ \A p \in 1..MaxPages : [want EXCEPT !.page = p] \in Wanted
<1>1. PICK w \in Wanted : w = want
  BY DEF SearchInv, SearchTypeOK
<1>2. \A f \in FilterSets : FirstPage(f) \in Wanted /\ FirstPage(f).store = want.store
  BY <1>1, SearchBoundsAssumption DEF FirstPage, Wanted
<1>3. \A s \in Shops : /\ [w EXCEPT !.store = s] \in Wanted
                       /\ [w EXCEPT !.store = s].filters = w.filters
                       /\ [w EXCEPT !.store = s].page = w.page
  BY DEF Wanted
<1>4. \A p \in 1..MaxPages : [w EXCEPT !.page = p] \in Wanted
  BY DEF Wanted
<1>5. QED
  BY <1>1, <1>2, <1>3, <1>4

\* The invariant of every reachable state.
LEMMA SearchInvariance == SearchSpec => []SearchInv
<1> USE SearchBoundsAssumption
<1>1. SearchInit => SearchInv
  <2>1. Nothing.page = 0
    BY DEF Nothing
  <2>2. SearchInit => loading = TRUE /\ typing = FALSE /\ failed = FALSE /\ moved = FALSE
    BY DEF SearchInit
  <2>3. SearchInit => {loading, typing, failed, moved} \subseteq BOOLEAN
    BY <2>2
  <2>4. SearchInit => /\ want \in Wanted /\ asked = want /\ shown = Nothing /\ pages = 0
                      /\ late = {} /\ cached = {}
    BY DEF SearchInit
  <2>5. QED
    BY <2>1, <2>2, <2>3, <2>4 DEF SearchInv, SearchTypeOK
<1>2. SearchInv /\ [SearchNext]_searchVars => SearchInv'
  <2> SUFFICES ASSUME SearchInv, [SearchNext]_searchVars
               PROVE  SearchInv'
    OBVIOUS
  <2>1. want \in Wanted /\ cached \in SUBSET Wanted /\ {} \in SUBSET Wanted
    BY DEF SearchInv, SearchTypeOK
  <2>2. ASSUME NEW f \in FilterSets, TypeSearch(f)
        PROVE  SearchInv'
    BY <2>2, WantedParts DEF TypeSearch, SearchInv, SearchTypeOK
  <2>3. ASSUME NEW f \in FilterSets, ChooseFilters(f)
        PROVE  SearchInv'
    BY <2>1, <2>3, WantedParts, FetchKept DEF ChooseFilters
  <2>4. CASE TimerFires \/ FetchAgain
    BY <2>1, <2>4, FetchKept DEF TimerFires, FetchAgain
  <2>5. ASSUME NEW s \in Shops, ChangeStore(s)
        PROVE  SearchInv'
    BY <2>1, <2>5, WantedParts, FetchKept DEF ChangeStore
  <2>6. ASSUME NEW p \in 1..MaxPages, GoToPage(p)
        PROVE  SearchInv'
    BY <2>1, <2>6, WantedParts, FetchKept DEF GoToPage
  <2>7. ASSUME NEW s \in Shops, SelectStore(s)
        PROVE  SearchInv'
    BY <2>7, WantedParts DEF SelectStore, SearchInv, SearchTypeOK
  <2>8. CASE Arrives
    <3>1. asked \in Wanted /\ asked.page \in 1..MaxPages
      BY DEF SearchInv, SearchTypeOK, Wanted
    <3>2. CASE Show(asked) /\ cached' = cached \cup {asked} /\ UNCHANGED failed
      <4>1. shown' = asked /\ pages' \in 0..MaxPages /\ asked.page <= pages'
        BY <3>1, <3>2 DEF Show
      <4>2. QED
        BY <2>8, <3>1, <3>2, <4>1 DEF Arrives, SearchInv, SearchTypeOK
    <3>3. CASE failed' = TRUE /\ UNCHANGED <<shown, pages, cached>>
      BY <2>8, <3>3 DEF Arrives, SearchInv, SearchTypeOK
    <3>4. QED
      BY <2>8, <3>2, <3>3 DEF Arrives
  <2>9. ASSUME NEW w \in late, ArrivesLate(w)
        PROVE  SearchInv'
    <3>1. /\ late' \subseteq Wanted /\ failed' \in {failed, TRUE}
          /\ UNCHANGED <<want, asked, loading, typing, shown, pages, cached, moved>>
      BY <2>9 DEF ArrivesLate, SearchInv, SearchTypeOK
    <3>2. {loading', typing', failed', moved'} \subseteq BOOLEAN
      BY <3>1 DEF SearchInv, SearchTypeOK
    <3>3. ~failed' => ~failed
      BY <3>1
    <3>4. QED
      BY <3>1, <3>2, <3>3 DEF SearchInv, SearchTypeOK
  <2>10. CASE UNCHANGED searchVars
    BY <2>10 DEF searchVars, SearchInv, SearchTypeOK
  <2>11. QED
    BY <2>2, <2>3, <2>4, <2>5, <2>6, <2>7, <2>8, <2>9, <2>10 DEF SearchNext
<1>3. QED
  BY <1>1, <1>2, PTL DEF SearchSpec

\* What is asked for, kept and shown is a list some address names, and the page
\* shown is one of those there are (useProductSearch).
THEOREM SearchTypes == SearchSpec => []SearchTypeOK
<1>1. SearchInv => SearchTypeOK
  BY DEF SearchInv
<1>2. QED
  BY <1>1, SearchInvariance, PTL

\* Once nothing is under way, no text is being typed and no error is shown, the
\* list is that of the filters and the page chosen last, and of the store
\* selected unless it was selected elsewhere since the list was asked for
\* (useProductSearch drops overtaken answers).
THEOREM ListSettles == SearchSpec => []ShownIsWanted
<1>1. SearchInv => ShownIsWanted
  BY DEF SearchInv, ShownIsWanted
<1>2. QED
  BY <1>1, SearchInvariance, PTL
-----------------------------------------------------------------------------
(* Carts: one tab at most is in the cart of a store that is not contested, *)
(* and it has the details in memory that storage has; the old items are in *)
(* one cart, and no tab holds them outside it.                             *)

Cart == [there : BOOLEAN, items : SUBSET Items, customer : Details, savedAt : 0..(CartDays + 1)]
Tab == [store : Stores \cup {"none"}, selected : BOOLEAN, bare : BOOLEAN, items : SUBSET Items,
        customer : Details \ {Absent}, list : Stores \cup {"none"},
        asked : Stores \cup {"none"}, resolving : SUBSET Stores]

Fits(s, items) == \A item \in items : item.of = s \/ item.of = "legacy" \/ item.late
HasLegacy(items) == \E item \in items : item.of = "legacy"

\* The details of a tab are those in storage, or there are none to speak of.
Agree(mine, kept) == mine = kept \/ (mine = Blank /\ kept = Absent)

\* Storage may hold the carts `kept`.
MayBeStored(kept) ==
  /\ kept \in [Stores -> Cart]
  /\ \A s \in Stores : ~kept[s].there => kept[s].items = {}
  /\ \A s \in Stores : Fits(s, kept[s].items)
  /\ \A s \in Stores : HasLegacy(kept[s].items) =>
       /\ ~legacy
       /\ \A r \in Stores : HasLegacy(kept[r].items) => r = s
       /\ \A t \in CartTabs : HasLegacy(shopper[t].items) => shopper[t].store = s
  /\ \A s \in Stores \ contested :
       kept[s].customer > Blank => kept[s].customer = kept[s].savedAt + 1
  /\ \A t \in CartTabs : InShop(t) /\ shopper[t].store \notin contested =>
       Agree(shopper[t].customer, kept[shopper[t].store].customer)

TabsInv ==
  /\ shopper \in [CartTabs -> Tab]
  /\ \A t \in CartTabs : shopper[t].selected => InShop(t)
  /\ \A t \in CartTabs : \A s \in shopper[t].resolving : InShop(t)
  /\ \A t \in CartTabs : Fits(shopper[t].store, shopper[t].items)
  /\ \A t \in CartTabs : HasLegacy(shopper[t].items) =>
       /\ ~legacy
       /\ \A u \in CartTabs : HasLegacy(shopper[u].items) => shopper[u].store = shopper[t].store
  /\ \A t, u \in CartTabs : t # u /\ InShop(t) /\ shopper[u].store = shopper[t].store
       => shopper[t].store \in contested

CartsInv ==
  /\ MayBeStored(stored) /\ TabsInv
  /\ lastStore \in Stores \cup {"none"} /\ legacy \in BOOLEAN
  /\ day \in 0..CartDays /\ visits \in 0..MaxVisits /\ contested \subseteq Stores

CartOf(there, items, customer, savedAt) ==
  [there |-> there, items |-> items, customer |-> customer, savedAt |-> savedAt]

LEMMA CartOfFields ==
  ASSUME NEW b, NEW i, NEW d, NEW y
  PROVE  /\ CartOf(b, i, d, y).there = b /\ CartOf(b, i, d, y).items = i
         /\ CartOf(b, i, d, y).customer = d /\ CartOf(b, i, d, y).savedAt = y
  BY DEF CartOf

LEMMA CartOfType ==
  ASSUME NEW b \in BOOLEAN, NEW i \in SUBSET Items, NEW d \in Details, NEW y \in 0..(CartDays + 1)
  PROVE  CartOf(b, i, d, y) \in Cart
  BY DEF CartOf, Cart

LEMMA CartFields ==
  ASSUME NEW c \in Cart
  PROVE  /\ c.there \in BOOLEAN /\ c.items \in SUBSET Items /\ c.customer \in Details
         /\ c.savedAt \in 0..(CartDays + 1)
  BY DEF Cart

\* What the actions change of a cart.
Detailed(c, d, y) == [c EXCEPT !.customer = d, !.savedAt = y]
Filled(c, i, b) == [c EXCEPT !.items = i, !.there = b]
Inherited(c, b, i) == [c EXCEPT !.there = b, !.items = i]

LEMMA CartChanges ==
  ASSUME NEW c \in Cart, NEW b \in BOOLEAN, NEW i \in SUBSET Items, NEW d \in Details,
         NEW y \in 0..(CartDays + 1)
  PROVE  /\ Detailed(c, d, y) = CartOf(c.there, c.items, d, y)
         /\ Inherited(c, b, i) = CartOf(b, i, c.customer, c.savedAt)
         /\ Filled(c, i, b) = CartOf(b, i, c.customer, c.savedAt)
<1>1. PICK e \in Cart : e = CartOf(c.there, c.items, d, c.savedAt)
  BY DEF Cart, CartOf
<1>2. PICK g \in Cart : g = CartOf(b, c.items, c.customer, c.savedAt)
  BY DEF Cart, CartOf
<1>3. PICK h \in Cart : h = CartOf(c.there, i, c.customer, c.savedAt)
  BY DEF Cart, CartOf
<1>4. [c EXCEPT !.customer = d] = e /\ [e EXCEPT !.savedAt = y] = CartOf(c.there, c.items, d, y)
  BY <1>1 DEF Cart, CartOf
<1>5. [c EXCEPT !.there = b] = g /\ [g EXCEPT !.items = i] = CartOf(b, i, c.customer, c.savedAt)
  BY <1>2 DEF Cart, CartOf
<1>6. [c EXCEPT !.items = i] = h /\ [h EXCEPT !.there = b] = CartOf(b, i, c.customer, c.savedAt)
  BY <1>3 DEF Cart, CartOf
<1>7. /\ [c EXCEPT !.customer = d, !.savedAt = y] = [[c EXCEPT !.customer = d] EXCEPT !.savedAt = y]
      /\ [c EXCEPT !.there = b, !.items = i] = [[c EXCEPT !.there = b] EXCEPT !.items = i]
      /\ [c EXCEPT !.items = i, !.there = b] = [[c EXCEPT !.items = i] EXCEPT !.there = b]
  BY Zenon
<1>8. QED
  BY <1>4, <1>5, <1>6, <1>7, Zenon DEF Detailed, Filled, Inherited

\* The changes of one cart in storage, and of a tab.
WithDetails(f, s, d, y) == [f EXCEPT ![s].customer = d, ![s].savedAt = y]
WithItems(f, s, i, b) == [f EXCEPT ![s].items = i, ![s].there = b]
WithOld(f, s, b, i) == [f EXCEPT ![s].there = b, ![s].items = i]
Entered(tab, s, i, d) == [tab EXCEPT !.store = s, !.items = i, !.customer = d]

LEMMA DetailsChange ==
  ASSUME NEW f \in [Stores -> Cart], NEW s \in Stores, NEW d \in Details,
         NEW y \in 0..(CartDays + 1)
  PROVE  WithDetails(f, s, d, y) = [f EXCEPT ![s] = CartOf(f[s].there, f[s].items, d, y)]
<1>1. PICK c \in Cart : c = f[s]
  OBVIOUS
<1>2. Detailed(c, d, y) = CartOf(c.there, c.items, d, y)
  <2>1. {} \in SUBSET Items /\ TRUE \in BOOLEAN
    OBVIOUS
  <2>2. QED
    BY <2>1, CartChanges
<1>3. [f EXCEPT ![s].customer = d, ![s].savedAt = y]
        = [f EXCEPT ![s] = [f[s] EXCEPT !.customer = d, !.savedAt = y]]
  OBVIOUS
<1>4. QED
  BY <1>1, <1>2, <1>3, Zenon DEF WithDetails, Detailed

LEMMA StoredChanges ==
  ASSUME NEW f \in [Stores -> Cart], NEW s \in Stores, NEW b \in BOOLEAN,
         NEW i \in SUBSET Items
  PROVE  /\ WithItems(f, s, i, b) = [f EXCEPT ![s] = CartOf(b, i, f[s].customer, f[s].savedAt)]
         /\ WithOld(f, s, b, i) = [f EXCEPT ![s] = CartOf(b, i, f[s].customer, f[s].savedAt)]
<1>1. PICK c \in Cart : c = f[s]
  OBVIOUS
<1>2. /\ Inherited(c, b, i) = CartOf(b, i, c.customer, c.savedAt)
      /\ Filled(c, i, b) = CartOf(b, i, c.customer, c.savedAt)
  <2>1. 0 \in 0..(CartDays + 1) /\ Absent \in Details
    BY CartsAssumption DEF Details, Absent
  <2>2. QED
    BY <2>1, CartChanges
<1>3. /\ [f EXCEPT ![s].items = i, ![s].there = b]
           = [f EXCEPT ![s] = [f[s] EXCEPT !.items = i, !.there = b]]
      /\ [f EXCEPT ![s].there = b, ![s].items = i]
           = [f EXCEPT ![s] = [f[s] EXCEPT !.there = b, !.items = i]]
  OBVIOUS
<1>4. QED
  BY <1>1, <1>2, <1>3, Zenon DEF WithItems, WithOld, Filled, Inherited

LEMMA TabEnters ==
  ASSUME NEW tab \in Tab, NEW s \in Stores, NEW i \in SUBSET Items, NEW d \in Details \ {Absent}
  PROVE  /\ Entered(tab, s, i, d) \in Tab /\ Entered(tab, s, i, d).store = s
         /\ Entered(tab, s, i, d).items = i /\ Entered(tab, s, i, d).customer = d
<1>1. PICK u \in Tab : u = [tab EXCEPT !.store = s]
  BY DEF Tab
<1>2. u.store = s
  BY <1>1 DEF Tab
<1>3. PICK v \in Tab : v = [u EXCEPT !.items = i]
  BY DEF Tab
<1>4. v.store = s /\ v.items = i
  BY <1>2, <1>3 DEF Tab
<1>5. PICK w \in Tab : w = [v EXCEPT !.customer = d]
  BY DEF Tab
<1>6. w.store = s /\ w.items = i /\ w.customer = d
  BY <1>4, <1>5 DEF Tab
<1>7. [tab EXCEPT !.store = s, !.items = i, !.customer = d]
        = [[[tab EXCEPT !.store = s] EXCEPT !.items = i] EXCEPT !.customer = d]
  BY Zenon
<1>8. Entered(tab, s, i, d) = w
  BY <1>1, <1>3, <1>5, <1>7, Zenon DEF Entered
<1>9. QED
  BY <1>6, <1>8

\* The cart a tab has in memory is written to storage.
LEMMA PersistKept ==
  ASSUME CartsInv, NEW t \in CartTabs, InShop(t)
  PROVE  MayBeStored(Persist(stored, shopper[t]))
<1> USE CartsAssumption, MarksAssumption
<1> DEFINE s == shopper[t].store
           y == IF stored[s].customer = shopper[t].customer THEN stored[s].savedAt ELSE day + 1
           k == Persist(stored, shopper[t])
           c == CartOf(TRUE, shopper[t].items, shopper[t].customer, y)
<1>1. /\ shopper[t] \in Tab /\ s \in Stores /\ shopper[t].items \in SUBSET Items
      /\ shopper[t].customer \in Details /\ shopper[t].customer # Absent
  BY DEF CartsInv, TabsInv, Tab, InShop
<1>2. stored \in [Stores -> Cart] /\ stored[s] \in Cart /\ day + 1 \in 0..(CartDays + 1)
  BY <1>1 DEF CartsInv, MayBeStored
<1>3. stored[s].savedAt \in 0..(CartDays + 1) /\ stored[s].customer \in Details
  BY <1>2, CartFields
<1>4. y \in 0..(CartDays + 1)
  BY <1>2, <1>3
<1> DEFINE i == shopper[t].items
           d == shopper[t].customer
<1>5. c \in Cart /\ c.there = TRUE /\ c.items = shopper[t].items
      /\ c.customer = shopper[t].customer /\ c.savedAt = y
  <2> HIDE DEF y, i, d
  <2>1. CartOf(TRUE, i, d, y) \in Cart
    <3>1. i \in SUBSET Items /\ d \in Details /\ TRUE \in BOOLEAN
      BY <1>1 DEF i, d
    <3>2. QED
      BY <1>4, <3>1, CartOfType
  <2>2. /\ CartOf(TRUE, i, d, y).there = TRUE /\ CartOf(TRUE, i, d, y).items = i
        /\ CartOf(TRUE, i, d, y).customer = d /\ CartOf(TRUE, i, d, y).savedAt = y
    BY DEF CartOf
  <2>3. QED
    BY <2>1, <2>2 DEF i, d
<1>6. k = [stored EXCEPT ![s] = c]
  BY DEF Persist, CartOf
<1> HIDE DEF c, k
<1>7. /\ k \in [Stores -> Cart] /\ k[s] = c
      /\ \A r \in Stores : r # s => k[r] = stored[r]
  BY <1>1, <1>2, <1>5, <1>6
<1>8. \A r \in Stores : ~k[r].there => k[r].items = {}
  BY <1>5, <1>7 DEF CartsInv, MayBeStored
<1>9. \A r \in Stores : Fits(r, k[r].items)
  <2>1. Fits(s, c.items) /\ \A r \in Stores : Fits(r, stored[r].items)
    BY <1>5 DEF CartsInv, MayBeStored, TabsInv
  <2>2. QED
    BY <1>7, <2>1
<1>10. ASSUME NEW r \in Stores, HasLegacy(k[r].items)
       PROVE  /\ ~legacy
              /\ \A q \in Stores : HasLegacy(k[q].items) => q = r
              /\ \A u \in CartTabs : HasLegacy(shopper[u].items) => shopper[u].store = r
  <2>1. CASE HasLegacy(shopper[t].items)
    <3>1. \A q \in Stores : HasLegacy(stored[q].items) => q = s
      BY <2>1 DEF CartsInv, MayBeStored
    <3>2. r = s
      BY <1>7, <1>10, <3>1
    <3>3. ~legacy /\ \A u \in CartTabs : HasLegacy(shopper[u].items) => shopper[u].store = s
      BY <2>1 DEF CartsInv, TabsInv
    <3>4. QED
      BY <1>7, <3>1, <3>2, <3>3
  <2>2. CASE ~HasLegacy(shopper[t].items)
    <3>1. ~HasLegacy(k[s].items)
      BY <1>5, <1>7, <2>2
    <3>2. r # s /\ HasLegacy(stored[r].items)
      BY <1>7, <1>10, <3>1
    <3>3. \A q \in Stores : HasLegacy(k[q].items) => HasLegacy(stored[q].items)
      BY <1>7, <3>1
    <3>4. QED
      BY <3>2, <3>3 DEF CartsInv, MayBeStored
  <2>3. QED
    BY <2>1, <2>2
<1>11. ASSUME NEW r \in Stores \ contested, k[r].customer > Blank
       PROVE  k[r].customer = k[r].savedAt + 1
  <2>1. CASE r = s
    <3>1. shopper[t].customer = stored[s].customer
      <4>1. Agree(shopper[t].customer, stored[s].customer)
        BY <1>11, <2>1 DEF CartsInv, MayBeStored
      <4>2. QED
        BY <1>5, <1>7, <1>11, <2>1, <4>1 DEF Agree, Blank
    <3>2. k[r].customer = stored[s].customer /\ k[r].savedAt = stored[s].savedAt
      BY <1>5, <1>7, <2>1, <3>1
    <3>3. QED
      BY <1>11, <2>1, <3>2 DEF CartsInv, MayBeStored
  <2>2. CASE r # s
    BY <1>7, <1>11, <2>2 DEF CartsInv, MayBeStored
  <2>3. QED
    BY <2>1, <2>2
<1>12. ASSUME NEW u \in CartTabs, InShop(u), shopper[u].store \notin contested
       PROVE  Agree(shopper[u].customer, k[shopper[u].store].customer)
  <2>1. CASE u = t
    <3>1. k[shopper[u].store].customer = shopper[u].customer
      BY <1>5, <1>7, <2>1
    <3>2. QED
      BY <3>1 DEF Agree
  <2>2. CASE u # t
    <3>1. shopper[u].store # s
      BY <1>12, <2>2 DEF CartsInv, TabsInv
    <3>2. shopper[u].store \in Stores
      BY <1>12 DEF CartsInv, TabsInv, Tab, InShop
    <3>3. QED
      BY <1>7, <1>12, <3>1, <3>2 DEF CartsInv, MayBeStored
  <2>3. QED
    BY <2>1, <2>2
<1>13. QED
  BY <1>7, <1>8, <1>9, <1>10, <1>11, <1>12 DEF MayBeStored, k

\* A tab takes the cart of a store from storage.
LEMMA LoadKept ==
  ASSUME CartsInv, NEW t \in CartTabs, NEW tab \in Tab, NEW kept, NEW s \in Stores,
         MayBeStored(kept), LoadInto(t, tab, kept, s),
         lastStore' \in Stores \cup {"none"}, day' = day, visits' \in 0..MaxVisits
  PROVE  CartsInv'
<1> USE CartsAssumption, MarksAssumption
<1> DEFINE old == [of |-> "legacy", late |-> FALSE]
           moves == legacy /\ ~kept[s].there
           m == Migrated(kept, s)
           cart == m[s]
           current == cart.customer # Absent /\ ~Expired(cart)
           mine == IF current THEN cart.customer ELSE Blank
           row == IF cart.customer = Absent \/ current THEN cart
                  ELSE CartOf(cart.there, cart.items, Absent, 0)
           n == Entered(tab, s, cart.items, mine)
<1>1. /\ kept \in [Stores -> Cart] /\ kept[s] \in Cart /\ kept[s].items \in SUBSET Items
      /\ kept[s].customer \in Details /\ kept[s].savedAt \in 0..(CartDays + 1)
  BY CartFields DEF MayBeStored
<1>2. {old} \in SUBSET Items /\ old.of = "legacy"
  BY DEF Items
<1>3. m = IF moves THEN [kept EXCEPT ![s] = CartOf(TRUE, {old}, kept[s].customer, kept[s].savedAt)]
          ELSE kept
  <2>1. m = IF moves THEN WithOld(kept, s, TRUE, {old}) ELSE kept
    BY DEF Migrated, WithOld
  <2>2. WithOld(kept, s, TRUE, {old})
          = [kept EXCEPT ![s] = CartOf(TRUE, {old}, kept[s].customer, kept[s].savedAt)]
    <3>1. PICK f \in [Stores -> Cart], i \in SUBSET Items, b \in BOOLEAN :
            f = kept /\ i = {old} /\ b = TRUE
      BY <1>1, <1>2
    <3>2. WithOld(f, s, b, i) = [f EXCEPT ![s] = CartOf(b, i, f[s].customer, f[s].savedAt)]
      BY StoredChanges
    <3>3. QED
      BY <3>1, <3>2, Zenon
  <2>3. QED
    BY <2>1, <2>2, Zenon
<1>4. CartOf(TRUE, {old}, kept[s].customer, kept[s].savedAt) \in Cart
  BY <1>1, <1>2, CartOfType
<1>5. /\ m \in [Stores -> Cart] /\ \A r \in Stores : r # s => m[r] = kept[r]
      /\ cart.customer = kept[s].customer /\ cart.savedAt = kept[s].savedAt
      /\ cart.items = IF moves THEN {old} ELSE kept[s].items
      /\ ~cart.there => cart.items = {}
  <2>1. /\ CartOf(TRUE, {old}, kept[s].customer, kept[s].savedAt).there = TRUE
        /\ CartOf(TRUE, {old}, kept[s].customer, kept[s].savedAt).items = {old}
        /\ CartOf(TRUE, {old}, kept[s].customer, kept[s].savedAt).customer = kept[s].customer
        /\ CartOf(TRUE, {old}, kept[s].customer, kept[s].savedAt).savedAt = kept[s].savedAt
    BY DEF CartOf
  <2> DEFINE g == CartOf(TRUE, {old}, kept[s].customer, kept[s].savedAt)
  <2> HIDE DEF m, g, moves
  <2>2. CASE moves
    <3>1. m = [kept EXCEPT ![s] = g]
      BY <1>3, <2>2 DEF g
    <3>2. g \in Cart /\ g.there = TRUE /\ g.items = {old} /\ g.customer = kept[s].customer
          /\ g.savedAt = kept[s].savedAt
      BY <1>4, <2>1 DEF g
    <3>3. m \in [Stores -> Cart] /\ m[s] = g /\ \A r \in Stores : r # s => m[r] = kept[r]
      BY <1>1, <3>1, <3>2
    <3>4. QED
      BY <2>2, <3>2, <3>3
  <2>3. CASE ~moves
    <3>1. m = kept /\ (~kept[s].there => kept[s].items = {})
      BY <1>3, <2>3 DEF MayBeStored
    <3>2. QED
      BY <1>1, <2>3, <3>1
  <2>4. QED
    BY <2>2, <2>3
<1> HIDE DEF m, moves
<1>6. /\ cart \in Cart /\ cart.items \in SUBSET Items /\ cart.customer \in Details
      /\ cart.there \in BOOLEAN /\ cart.savedAt \in 0..(CartDays + 1)
  BY <1>5, CartFields
<1>7. mine \in Details \ {Absent}
  BY <1>6 DEF Details, Absent, Blank
<1>8. /\ n \in Tab /\ n.store = s /\ n.items = cart.items /\ n.customer = mine
  BY <1>6, <1>7, TabEnters
<1>9. 0 \in 0..(CartDays + 1) /\ Absent \in Details
  BY DEF Details, Absent
<1>10. CartOf(cart.there, cart.items, Absent, 0) \in Cart
  BY <1>6, <1>9, CartOfType
<1>11. /\ row \in Cart /\ row.items = cart.items /\ (~row.there => row.items = {})
       /\ row.customer > Blank => current /\ row = cart
       /\ Agree(mine, row.customer)
  <2> DEFINE g == CartOf(cart.there, cart.items, Absent, 0)
  <2>1. g.there = cart.there /\ g.items = cart.items /\ g.customer = Absent /\ g \in Cart
    BY <1>10, CartOfFields
  <2> HIDE DEF g, cart
  <2>2. CASE cart.customer = Absent \/ current
    <3>1. row = cart
      BY <2>2 DEF row
    <3>2. Agree(mine, cart.customer)
      <4>1. CASE current
        BY <4>1, Zenon DEF Agree, mine
      <4>2. CASE ~current
        BY <2>2, <4>2, Zenon DEF Agree, mine
      <4>3. QED
        BY <4>1, <4>2
    <3>3. cart.customer > Blank => current
      BY <2>2 DEF Absent, Blank
    <3>4. QED
      BY <1>5, <1>6, <3>1, <3>2, <3>3
  <2>3. CASE cart.customer # Absent /\ ~current
    <3>1. row = g /\ mine = Blank
      BY <2>3 DEF row, g
    <3>2. Agree(mine, g.customer) /\ ~(g.customer > Blank)
      BY <2>1, <3>1 DEF Agree, Absent, Blank
    <3>3. QED
      BY <1>5, <2>1, <3>1, <3>2
  <2>4. QED
    BY <2>2, <2>3
<1>12. /\ shopper' = [shopper EXCEPT ![t] = n] /\ legacy' = FALSE
       /\ contested' = contested \cup (IF \E u \in CartTabs \ {t} : shopper[u].store = s
                                       THEN {s} ELSE {})
  BY DEF LoadInto, Entered, m
<1>13. stored' = [m EXCEPT ![s] = row]
  <2>1. stored' = [m EXCEPT ![s] = IF cart.customer = Absent \/ current THEN cart
                                   ELSE Detailed(cart, Absent, 0)]
    BY DEF LoadInto, Detailed, m
  <2>2. Detailed(cart, Absent, 0) = CartOf(cart.there, cart.items, Absent, 0)
    <3>1. PICK c \in Cart, d \in Details, y \in 0..(CartDays + 1) : c = cart /\ d = Absent /\ y = 0
      BY <1>6, <1>9
    <3>2. Detailed(c, d, y) = CartOf(c.there, c.items, d, y)
      <4>1. {} \in SUBSET Items /\ TRUE \in BOOLEAN
        OBVIOUS
      <4>2. QED
        BY <4>1, CartChanges
    <3>3. QED
      BY <3>1, <3>2, Zenon
  <2>3. QED
    BY <2>1, <2>2, Zenon
<1> HIDE DEF row, n, mine, current
<1>14. /\ stored' \in [Stores -> Cart] /\ stored'[s] = row
       /\ \A r \in Stores : r # s => stored'[r] = kept[r]
  BY <1>5, <1>11, <1>13
<1>15. /\ shopper \in [CartTabs -> Tab] /\ shopper' \in [CartTabs -> Tab] /\ shopper'[t] = n
       /\ \A u \in CartTabs : u # t => shopper'[u] = shopper[u]
  BY <1>8, <1>12 DEF CartsInv, TabsInv
<1>16. Fits(s, cart.items)
  BY <1>2, <1>5 DEF Fits, MayBeStored
<1>17. HasLegacy(cart.items) =>
         /\ \A r \in Stores : HasLegacy(kept[r].items) => r = s
         /\ \A u \in CartTabs : HasLegacy(shopper[u].items) => shopper[u].store = s
  <2>1. CASE moves
    BY <2>1 DEF moves, MayBeStored, CartsInv, TabsInv
  <2>2. CASE ~moves
    BY <1>5, <2>2 DEF MayBeStored
  <2>3. QED
    BY <2>1, <2>2
<1>18. TabsInv'
  <2>1. \A u \in CartTabs : (shopper'[u].selected => InShop(u)')
                           /\ \A r \in shopper'[u].resolving : InShop(u)'
    BY <1>8, <1>15 DEF CartsInv, TabsInv, InShop
  <2>2. \A u \in CartTabs : Fits(shopper'[u].store, shopper'[u].items)
    BY <1>8, <1>15, <1>16 DEF CartsInv, TabsInv
  <2>3. ASSUME NEW u \in CartTabs, HasLegacy(shopper'[u].items)
        PROVE  /\ ~legacy'
               /\ \A v \in CartTabs : HasLegacy(shopper'[v].items) => shopper'[v].store = shopper'[u].store
    <3>1. CASE u = t
      BY <1>8, <1>12, <1>15, <1>17, <2>3, <3>1
    <3>2. CASE u # t
      <4>1. HasLegacy(shopper[u].items) /\ ~legacy
        BY <1>15, <2>3, <3>2 DEF CartsInv, TabsInv
      <4>2. ASSUME NEW v \in CartTabs, HasLegacy(shopper'[v].items)
            PROVE  shopper'[v].store = shopper'[u].store
        <5>1. CASE v = t
          BY <1>8, <1>15, <1>17, <3>2, <4>1, <4>2, <5>1
        <5>2. CASE v # t
          BY <1>15, <3>2, <4>1, <4>2, <5>2 DEF CartsInv, TabsInv
        <5>3. QED
          BY <5>1, <5>2
      <4>3. QED
        BY <1>12, <4>2
    <3>3. QED
      BY <3>1, <3>2
  <2>4. ASSUME NEW u \in CartTabs, NEW v \in CartTabs, u # v, InShop(u)',
               shopper'[v].store = shopper'[u].store
        PROVE  shopper'[u].store \in contested'
    <3>1. CASE u = t
      BY <1>8, <1>12, <1>15, <2>4, <3>1
    <3>2. CASE v = t
      BY <1>8, <1>12, <1>15, <2>4, <3>2
    <3>3. CASE u # t /\ v # t
      BY <1>12, <1>15, <2>4, <3>3 DEF CartsInv, TabsInv, InShop
    <3>4. QED
      BY <3>1, <3>2, <3>3
  <2>5. QED
    BY <1>15, <2>1, <2>2, <2>3, <2>4 DEF TabsInv
<1>19. /\ \A r \in Stores : ~stored'[r].there => stored'[r].items = {}
       /\ \A r \in Stores : Fits(r, stored'[r].items)
  BY <1>11, <1>14, <1>16 DEF MayBeStored
<1>20. ASSUME NEW r \in Stores, HasLegacy(stored'[r].items)
       PROVE  /\ ~legacy'
              /\ \A q \in Stores : HasLegacy(stored'[q].items) => q = r
              /\ \A u \in CartTabs : HasLegacy(shopper'[u].items) => shopper'[u].store = r
  <2>1. CASE HasLegacy(cart.items)
    <3>1. r = s
      BY <1>14, <1>17, <1>20, <2>1
    <3>2. \A q \in Stores : HasLegacy(stored'[q].items) => q = s
      BY <1>14, <1>17, <2>1
    <3>3. \A u \in CartTabs : HasLegacy(shopper'[u].items) => shopper'[u].store = s
      BY <1>8, <1>15, <1>17, <2>1
    <3>4. QED
      BY <1>12, <3>1, <3>2, <3>3
  <2>2. CASE ~HasLegacy(cart.items)
    <3>1. ~HasLegacy(stored'[s].items) /\ ~HasLegacy(shopper'[t].items)
      BY <1>8, <1>11, <1>14, <1>15, <2>2
    <3>2. r # s /\ HasLegacy(kept[r].items)
      BY <1>14, <1>20, <3>1
    <3>3. \A q \in Stores : HasLegacy(stored'[q].items) => HasLegacy(kept[q].items)
      BY <1>14, <3>1
    <3>4. \A u \in CartTabs : HasLegacy(shopper'[u].items) =>
            HasLegacy(shopper[u].items) /\ shopper'[u].store = shopper[u].store
      BY <1>15, <3>1
    <3>5. QED
      BY <1>12, <3>2, <3>3, <3>4 DEF MayBeStored
  <2>3. QED
    BY <2>1, <2>2
<1>21. ASSUME NEW r \in Stores \ contested', stored'[r].customer > Blank
       PROVE  stored'[r].customer = stored'[r].savedAt + 1
  <2>1. r \in Stores \ contested
    BY <1>12, <1>21
  <2>2. stored'[r].customer = kept[r].customer /\ stored'[r].savedAt = kept[r].savedAt
    BY <1>5, <1>11, <1>14, <1>21
  <2>3. QED
    BY <1>21, <2>1, <2>2 DEF MayBeStored
<1>22. ASSUME NEW u \in CartTabs, InShop(u)', shopper'[u].store \notin contested'
       PROVE  Agree(shopper'[u].customer, stored'[shopper'[u].store].customer)
  <2>1. CASE u = t
    BY <1>8, <1>11, <1>14, <1>15, <2>1
  <2>2. CASE u # t
    <3>1. shopper'[u] = shopper[u] /\ InShop(u) /\ shopper[u].store \in Stores
      BY <1>15, <1>22, <2>2 DEF InShop, Tab
    <3>2. shopper[u].store # s /\ shopper[u].store \notin contested
      BY <1>12, <1>22, <2>2, <3>1
    <3>3. QED
      BY <1>14, <3>1, <3>2 DEF MayBeStored
  <2>3. QED
    BY <2>1, <2>2
<1>23. MayBeStored(stored)'
  BY <1>14, <1>19, <1>20, <1>21, <1>22 DEF MayBeStored
<1>24. contested' \subseteq Stores
  BY <1>12 DEF CartsInv
<1>25. QED
  BY <1>12, <1>18, <1>23, <1>24 DEF CartsInv

LEMMA TabParts ==
  ASSUME NEW tab \in Tab, NEW b \in BOOLEAN, NEW x \in Stores \cup {"none"},
         NEW R \in SUBSET Stores
  PROVE  /\ [tab EXCEPT !.selected = b] \in Tab /\ [tab EXCEPT !.bare = b] \in Tab
         /\ [tab EXCEPT !.list = x] \in Tab /\ [tab EXCEPT !.asked = x] \in Tab
         /\ [tab EXCEPT !.resolving = R] \in Tab
  BY DEF Tab

\* A tab on the page of a store, or on the shop page without one.
OpenedAt(s) == [Closed EXCEPT !.selected = TRUE, !.asked = s, !.resolving = {s}]
OpenedBare(b) == [Closed EXCEPT !.selected = b, !.bare = TRUE, !.asked = "default",
                                !.resolving = {"default"}]
RoutedTo(tab, s) == [tab EXCEPT !.selected = TRUE, !.bare = FALSE, !.asked = s,
                                !.resolving = @ \cup {s}]
Resolved(tab) == [tab EXCEPT !.selected = TRUE, !.bare = FALSE]

LEMMA ClosedIsTab == Closed \in Tab
<1>1. Blank \in Details \ {Absent}
  BY CartsAssumption DEF Details, Blank, Absent
<1>2. QED
  BY <1>1 DEF Closed, Tab

LEMMA TabsOpen ==
  ASSUME NEW tab \in Tab, NEW s \in Stores, NEW b \in BOOLEAN
  PROVE  /\ OpenedAt(s) \in Tab /\ OpenedBare(b) \in Tab
         /\ RoutedTo(tab, s) \in Tab /\ Resolved(tab) \in Tab
<1>1. OpenedAt(s) \in Tab
  <2>1. PICK u \in Tab : u = [Closed EXCEPT !.selected = TRUE]
    BY ClosedIsTab, TabParts
  <2>2. PICK v \in Tab : v = [u EXCEPT !.asked = s]
    BY TabParts
  <2>3. PICK w \in Tab : w = [v EXCEPT !.resolving = {s}]
    BY TabParts
  <2>4. OpenedAt(s) = [[[Closed EXCEPT !.selected = TRUE] EXCEPT !.asked = s] EXCEPT !.resolving = {s}]
    BY Zenon DEF OpenedAt
  <2>5. QED
    BY <2>1, <2>2, <2>3, <2>4, Zenon
<1>2. OpenedBare(b) \in Tab
  <2>1. PICK u \in Tab : u = [Closed EXCEPT !.selected = b]
    BY ClosedIsTab, TabParts
  <2>2. PICK v \in Tab : v = [u EXCEPT !.bare = TRUE]
    BY TabParts
  <2>3. PICK w \in Tab : w = [v EXCEPT !.asked = "default"]
    BY CartsAssumption, TabParts
  <2>4. PICK x \in Tab : x = [w EXCEPT !.resolving = {"default"}]
    BY CartsAssumption, TabParts
  <2>5. OpenedBare(b) = [[[[Closed EXCEPT !.selected = b] EXCEPT !.bare = TRUE]
                          EXCEPT !.asked = "default"] EXCEPT !.resolving = {"default"}]
    BY Zenon DEF OpenedBare
  <2>6. QED
    BY <2>1, <2>2, <2>3, <2>4, <2>5, Zenon
<1>3. Resolved(tab) \in Tab
  <2>1. PICK u \in Tab : u = [tab EXCEPT !.selected = TRUE]
    BY TabParts
  <2>2. PICK v \in Tab : v = [u EXCEPT !.bare = FALSE]
    BY TabParts
  <2>3. Resolved(tab) = [[tab EXCEPT !.selected = TRUE] EXCEPT !.bare = FALSE]
    BY Zenon DEF Resolved
  <2>4. QED
    BY <2>1, <2>2, <2>3, Zenon
<1>4. RoutedTo(tab, s) \in Tab
  <2>1. PICK u \in Tab : u = [tab EXCEPT !.selected = TRUE]
    BY TabParts
  <2>2. PICK v \in Tab : v = [u EXCEPT !.bare = FALSE]
    BY TabParts
  <2>3. PICK w \in Tab : w = [v EXCEPT !.asked = s]
    BY TabParts
  <2>4. PICK R \in SUBSET Stores : R = tab.resolving \cup {s}
    BY DEF Tab
  <2>5. PICK x \in Tab : x = [w EXCEPT !.resolving = R]
    BY TabParts
  <2>6. RoutedTo(tab, s) = [[[[tab EXCEPT !.selected = TRUE] EXCEPT !.bare = FALSE]
                             EXCEPT !.asked = s] EXCEPT !.resolving = tab.resolving \cup {s}]
    BY Zenon DEF RoutedTo
  <2>7. QED
    BY <2>1, <2>2, <2>3, <2>4, <2>5, <2>6, Zenon
<1>5. QED
  BY <1>1, <1>2, <1>3, <1>4

\* A tab changes something other than its cart.
LEMMA SameCartKept ==
  ASSUME CartsInv, NEW t \in CartTabs, NEW tab \in Tab,
         tab.store = shopper[t].store, tab.items = shopper[t].items,
         tab.customer = shopper[t].customer,
         tab.selected = shopper[t].selected, tab.resolving \subseteq shopper[t].resolving,
         shopper' = [shopper EXCEPT ![t] = tab], UNCHANGED <<stored, legacy, contested, day>>,
         lastStore' \in Stores \cup {"none"}, visits' \in 0..MaxVisits
  PROVE  CartsInv'
<1>1. /\ shopper' \in [CartTabs -> Tab]
      /\ \A u \in CartTabs : /\ shopper'[u].store = shopper[u].store
                             /\ shopper'[u].items = shopper[u].items
                             /\ shopper'[u].customer = shopper[u].customer
                             /\ shopper'[u].selected = shopper[u].selected
                             /\ shopper'[u].resolving \subseteq shopper[u].resolving
  BY DEF CartsInv, TabsInv
<1>2. TabsInv'
  BY <1>1 DEF CartsInv, TabsInv, InShop
<1>3. MayBeStored(stored)'
  BY <1>1 DEF CartsInv, MayBeStored, InShop
<1>4. QED
  BY <1>2, <1>3 DEF CartsInv

\* Items tab `t` may have: those it has, and products of the lists of stores.
MayFill(t, items) ==
  \A item \in items :
    \/ item \in shopper[t].items
    \/ item.of # "legacy" /\ (item.of = shopper[t].store \/ item.late)

\* The items of the cart a tab is in change, and storage follows.
LEMMA SetItemsKept ==
  ASSUME CartsInv, NEW t \in CartTabs, NEW items \in SUBSET Items, SetItems(t, items),
         MayFill(t, items), visits' \in 0..MaxVisits
  PROVE  CartsInv'
<1> DEFINE s == shopper[t].store
           c == CartOf(TRUE, items, stored[s].customer, stored[s].savedAt)
           tab == [shopper[t] EXCEPT !.items = items]
<1>1. /\ shopper[t] \in Tab /\ s \in Stores /\ shopper \in [CartTabs -> Tab]
      /\ stored \in [Stores -> Cart] /\ InShop(t)
      /\ legacy' = legacy /\ contested' = contested /\ day' = day /\ lastStore' = lastStore
  BY DEF CartsInv, TabsInv, MayBeStored, SetItems, InShop, Tab
<1>2. /\ tab \in Tab /\ tab.items = items /\ tab.store = s
      /\ tab.customer = shopper[t].customer /\ tab.selected = shopper[t].selected
      /\ tab.resolving = shopper[t].resolving
  BY <1>1 DEF Tab
<1>3. stored' = [stored EXCEPT ![s] = c] /\ c \in Cart
  <2>1. stored' = WithItems(stored, s, items, TRUE)
    BY DEF SetItems, WithItems
  <2>2. PICK f \in [Stores -> Cart], b \in BOOLEAN, r \in Stores : f = stored /\ b = TRUE /\ r = s
    BY <1>1
  <2>3. WithItems(f, r, items, b) = [f EXCEPT ![r] = CartOf(b, items, f[r].customer, f[r].savedAt)]
    BY StoredChanges
  <2>4. stored[s].customer \in Details /\ stored[s].savedAt \in 0..(CartDays + 1)
    BY <1>1, CartFields
  <2>5. c \in Cart
    BY <2>4 DEF Cart, CartOf
  <2>6. QED
    BY <2>1, <2>2, <2>3, <2>5, Zenon
<1>4. shopper' = [shopper EXCEPT ![t] = tab]
  BY <1>1 DEF SetItems
<1>5. /\ c.there = TRUE /\ c.items = items /\ c.customer = stored[s].customer
      /\ c.savedAt = stored[s].savedAt
  BY DEF CartOf
<1> HIDE DEF c, tab
<1>6. /\ stored' \in [Stores -> Cart] /\ stored'[s] = c
      /\ \A r \in Stores : r # s => stored'[r] = stored[r]
      /\ shopper' \in [CartTabs -> Tab] /\ shopper'[t] = tab
      /\ \A u \in CartTabs : u # t => shopper'[u] = shopper[u]
  BY <1>1, <1>2, <1>3, <1>4
<1>7. Fits(s, items) /\ (HasLegacy(items) => HasLegacy(shopper[t].items))
  BY DEF CartsInv, TabsInv, Fits, HasLegacy, MayFill
<1>8. \A u \in CartTabs :
        /\ shopper'[u].store = shopper[u].store
        /\ shopper'[u].customer = shopper[u].customer
        /\ shopper'[u].selected = shopper[u].selected
        /\ shopper'[u].resolving = shopper[u].resolving
        /\ HasLegacy(shopper'[u].items) => HasLegacy(shopper[u].items)
        /\ Fits(shopper'[u].store, shopper'[u].items)
  BY <1>2, <1>6, <1>7 DEF CartsInv, TabsInv
<1>9. TabsInv'
  BY <1>1, <1>6, <1>8 DEF CartsInv, TabsInv, InShop
<1>10. \A r \in Stores :
        /\ stored'[r].customer = stored[r].customer
        /\ stored'[r].savedAt = stored[r].savedAt
        /\ Fits(r, stored'[r].items)
        /\ ~stored'[r].there => stored'[r].items = {}
  BY <1>5, <1>6, <1>7 DEF CartsInv, MayBeStored
<1>11. ASSUME NEW r \in Stores, HasLegacy(stored'[r].items)
       PROVE  /\ ~legacy'
              /\ \A q \in Stores : HasLegacy(stored'[q].items) => q = r
              /\ \A u \in CartTabs : HasLegacy(shopper'[u].items) => shopper'[u].store = r
  <2>1. CASE HasLegacy(items)
    <3>1. HasLegacy(shopper[t].items)
      BY <1>7, <2>1
    <3>2. \A q \in Stores : HasLegacy(stored'[q].items) => q = s
      BY <1>6, <3>1 DEF CartsInv, MayBeStored
    <3>3. ~legacy /\ \A u \in CartTabs : HasLegacy(shopper[u].items) => shopper[u].store = s
      BY <3>1 DEF CartsInv, TabsInv
    <3>4. QED
      BY <1>1, <1>8, <1>11, <3>2, <3>3
  <2>2. CASE ~HasLegacy(items)
    <3>1. ~HasLegacy(stored'[s].items)
      BY <1>5, <1>6, <2>2
    <3>2. \A q \in Stores : HasLegacy(stored'[q].items) => HasLegacy(stored[q].items)
      BY <1>6, <3>1
    <3>3. QED
      BY <1>1, <1>8, <1>11, <3>2 DEF CartsInv, MayBeStored
  <2>3. QED
    BY <2>1, <2>2
<1>12. \A r \in Stores \ contested' :
         stored'[r].customer > Blank => stored'[r].customer = stored'[r].savedAt + 1
  <2>1. \A r \in Stores \ contested :
          stored[r].customer > Blank => stored[r].customer = stored[r].savedAt + 1
    BY DEF CartsInv, MayBeStored
  <2>2. contested' = contested
    BY <1>1
  <2>3. \A r \in Stores : stored'[r].customer = stored[r].customer
    BY <1>10
  <2>4. \A r \in Stores : stored'[r].savedAt = stored[r].savedAt
    BY <1>10
  <2>5. QED
    BY <2>1, <2>2, <2>3, <2>4
<1>13. ASSUME NEW u \in CartTabs, InShop(u)', shopper'[u].store \notin contested'
       PROVE  Agree(shopper'[u].customer, stored'[shopper'[u].store].customer)
  <2>1. InShop(u) /\ shopper[u].store \in Stores /\ shopper[u].store \notin contested
    BY <1>1, <1>8, <1>13 DEF InShop, Tab
  <2>2. QED
    BY <1>8, <1>10, <2>1 DEF CartsInv, MayBeStored
<1>14. MayBeStored(stored)'
  BY <1>6, <1>10, <1>11, <1>12, <1>13 DEF MayBeStored
<1>15. QED
  BY <1>1, <1>9, <1>14 DEF CartsInv

\* A product of the list on the screen is added, or items are removed.
LEMMA ItemsKept ==
  ASSUME CartsInv, NEW t \in CartTabs, visits' \in 0..MaxVisits, AddItem(t) \/ RemoveItems(t)
  PROVE  CartsInv'
<1>1. shopper[t] \in Tab /\ shopper[t].items \in SUBSET Items
  BY DEF CartsInv, TabsInv, Tab
<1>2. CASE AddItem(t)
  <2> DEFINE isLate == shopper[t].list # shopper[t].store
             item == [of |-> shopper[t].list, late |-> isLate]
  <2>1. shopper[t].list \in Stores /\ SetItems(t, shopper[t].items \cup {item})
    BY <1>1, <1>2 DEF AddItem, Tab
  <2>2. PICK b \in BOOLEAN : b <=> isLate
    OBVIOUS
  <2>3. isLate = b
    BY <2>2
  <2>4. PICK x \in Items : x = [of |-> shopper[t].list, late |-> b]
    BY <2>1 DEF Items
  <2>5. x.of = shopper[t].list /\ x.late = b
    BY <2>4
  <2>6. x = item
    BY <2>3, <2>4, Zenon
  <2> HIDE DEF item
  <2>7. SetItems(t, shopper[t].items \cup {x})
    BY <2>1, <2>6
  <2>8. x.of # "legacy" /\ (x.of = shopper[t].store \/ x.late)
    BY <2>1, <2>2, <2>5, MarksAssumption
  <2>9. MayFill(t, shopper[t].items \cup {x})
    BY <2>8 DEF MayFill
  <2>10. shopper[t].items \cup {x} \in SUBSET Items
    BY <1>1
  <2>11. QED
    BY <2>7, <2>9, <2>10, SetItemsKept
<1>3. CASE RemoveItems(t)
  <2>1. PICK items \in SUBSET shopper[t].items : SetItems(t, items)
    BY <1>3 DEF RemoveItems
  <2>2. items \in SUBSET Items /\ MayFill(t, items)
    BY <1>1 DEF MayFill
  <2>3. QED
    BY <2>1, <2>2, SetItemsKept
<1>4. QED
  BY <1>2, <1>3

\* Details are typed, or cleared.
LEMMA UpdateCustomerKept ==
  ASSUME CartsInv, NEW t \in CartTabs, UpdateCustomer(t), visits' \in 0..MaxVisits
  PROVE  CartsInv'
<1> USE CartsAssumption
<1>1. PICK d \in {TypedOn(day), Blank} :
        /\ shopper' = [shopper EXCEPT ![t].customer = d]
        /\ stored' = [stored EXCEPT ![shopper[t].store].customer = d,
                                    ![shopper[t].store].savedAt = day + 1]
  BY DEF UpdateCustomer
<1> DEFINE s == shopper[t].store
           y == day + 1
           c == CartOf(stored[s].there, stored[s].items, d, y)
           tab == [shopper[t] EXCEPT !.customer = d]
<1>2. /\ d \in Details /\ d # Absent /\ y \in 0..(CartDays + 1)
      /\ d > Blank => d = y + 1
  BY DEF CartsInv, TypedOn, Blank, Absent, Details
<1>3. /\ shopper[t] \in Tab /\ s \in Stores /\ shopper \in [CartTabs -> Tab]
      /\ stored \in [Stores -> Cart] /\ InShop(t)
      /\ legacy' = legacy /\ contested' = contested /\ day' = day /\ lastStore' = lastStore
  BY DEF CartsInv, TabsInv, MayBeStored, UpdateCustomer, InShop, Tab
<1>4. /\ tab \in Tab /\ tab.items = shopper[t].items /\ tab.store = s
      /\ tab.customer = d /\ tab.selected = shopper[t].selected
      /\ tab.resolving = shopper[t].resolving
  BY <1>2, <1>3 DEF Tab
<1>5. stored' = [stored EXCEPT ![s] = c] /\ c \in Cart
  <2>1. stored' = WithDetails(stored, s, d, y)
    BY <1>1 DEF WithDetails
  <2>2. PICK f \in [Stores -> Cart], r \in Stores, e \in Details, z \in 0..(CartDays + 1) :
          f = stored /\ r = s /\ e = d /\ z = y
    BY <1>2, <1>3
  <2>3. WithDetails(f, r, e, z) = [f EXCEPT ![r] = CartOf(f[r].there, f[r].items, e, z)]
    BY DetailsChange
  <2>4. stored[s].there \in BOOLEAN /\ stored[s].items \in SUBSET Items
    BY <1>3, CartFields
  <2>5. c \in Cart
    BY <1>2, <2>4 DEF Cart, CartOf
  <2>6. QED
    BY <2>1, <2>2, <2>3, <2>5, Zenon
<1>6. shopper' = [shopper EXCEPT ![t] = tab]
  BY <1>1, <1>3
<1>7. /\ c.there = stored[s].there /\ c.items = stored[s].items /\ c.customer = d
      /\ c.savedAt = y
  BY DEF CartOf
<1> HIDE DEF c, tab, y
<1>8. /\ stored' \in [Stores -> Cart] /\ stored'[s] = c
      /\ \A r \in Stores : r # s => stored'[r] = stored[r]
      /\ shopper' \in [CartTabs -> Tab] /\ shopper'[t] = tab
      /\ \A u \in CartTabs : u # t => shopper'[u] = shopper[u]
  BY <1>3, <1>4, <1>5, <1>6
<1>9. \A u \in CartTabs :
        /\ shopper'[u].store = shopper[u].store
        /\ shopper'[u].items = shopper[u].items
        /\ shopper'[u].selected = shopper[u].selected
        /\ shopper'[u].resolving = shopper[u].resolving
  BY <1>4, <1>8
<1>10. TabsInv'
  BY <1>3, <1>8, <1>9 DEF CartsInv, TabsInv, InShop
<1>11. \A r \in Stores :
         /\ stored'[r].items = stored[r].items
         /\ stored'[r].there = stored[r].there
  BY <1>7, <1>8
<1>12. /\ \A r \in Stores : ~stored'[r].there => stored'[r].items = {}
       /\ \A r \in Stores : Fits(r, stored'[r].items)
       /\ \A r \in Stores : HasLegacy(stored'[r].items) =>
            /\ ~legacy'
            /\ \A q \in Stores : HasLegacy(stored'[q].items) => q = r
            /\ \A u \in CartTabs : HasLegacy(shopper'[u].items) => shopper'[u].store = r
  BY <1>3, <1>9, <1>11 DEF CartsInv, MayBeStored
<1>13. \A r \in Stores \ contested' :
         stored'[r].customer > Blank => stored'[r].customer = stored'[r].savedAt + 1
  BY <1>2, <1>3, <1>7, <1>8 DEF CartsInv, MayBeStored
<1>14. ASSUME NEW u \in CartTabs, InShop(u)', shopper'[u].store \notin contested'
       PROVE  Agree(shopper'[u].customer, stored'[shopper'[u].store].customer)
  <2>1. CASE u = t
    BY <1>4, <1>7, <1>8, <2>1 DEF Agree
  <2>2. CASE u # t
    <3>1. shopper'[u] = shopper[u] /\ InShop(u) /\ shopper[u].store \in Stores
      BY <1>8, <1>14, <2>2 DEF InShop, Tab
    <3>2. shopper[u].store # s
      BY <1>3, <1>14, <2>2, <3>1 DEF CartsInv, TabsInv
    <3>3. QED
      BY <1>3, <1>8, <1>14, <3>1, <3>2 DEF CartsInv, MayBeStored
  <2>3. QED
    BY <2>1, <2>2
<1>15. MayBeStored(stored)'
  BY <1>8, <1>12, <1>13, <1>14 DEF MayBeStored
<1>16. QED
  BY <1>3, <1>10, <1>15 DEF CartsInv

\* The details are erased from all the carts, and the tab leaves the shop.
LEMMA LogoutKept ==
  ASSUME CartsInv, NEW t \in CartTabs, LogoutOfShop(t), visits' \in 0..MaxVisits
  PROVE  CartsInv'
<1> USE CartsAssumption, MarksAssumption
<1> DEFINE p == Persist(stored, shopper[t])
           Erased(s) == CartOf(p[s].there, p[s].items, Absent, 0)
<1>1. /\ InShop(t) /\ lastStore' = "none" /\ shopper' = [shopper EXCEPT ![t] = Closed]
      /\ contested' = contested \cup {shopper[u].store : u \in {v \in CartTabs \ {t} : InShop(v)}}
      /\ legacy' = legacy /\ day' = day
  BY DEF LogoutOfShop
<1>2. MayBeStored(p) /\ p \in [Stores -> Cart] /\ shopper \in [CartTabs -> Tab]
  BY <1>1, PersistKept DEF MayBeStored, CartsInv, TabsInv
<1>3. 0 \in 0..(CartDays + 1) /\ Absent \in Details
  BY DEF Details, Absent
<1> HIDE DEF p
<1>4. stored' = [s \in Stores |-> Erased(s)]
  <2>1. stored' = [s \in Stores |-> Detailed(p[s], Absent, 0)]
    BY DEF LogoutOfShop, Detailed, p
  <2>2. ASSUME NEW s \in Stores
        PROVE  Detailed(p[s], Absent, 0) = Erased(s)
    <3>1. PICK c \in Cart, d \in Details, y \in 0..(CartDays + 1) : c = p[s] /\ d = Absent /\ y = 0
      BY <1>2, <1>3
    <3>2. Detailed(c, d, y) = CartOf(c.there, c.items, d, y)
      <4>1. {} \in SUBSET Items /\ TRUE \in BOOLEAN
        OBVIOUS
      <4>2. QED
        BY <4>1, CartChanges
    <3>3. QED
      BY <3>1, <3>2, Zenon
  <2>3. QED
    BY <2>1, <2>2
<1>5. ASSUME NEW s \in Stores
      PROVE  /\ Erased(s) \in Cart /\ Erased(s).there = p[s].there
             /\ Erased(s).items = p[s].items /\ Erased(s).customer = Absent
  <2>1. p[s].there \in BOOLEAN /\ p[s].items \in SUBSET Items
    BY <1>2, CartFields
  <2>2. QED
    BY <1>3, <2>1 DEF CartOf, Cart
<1> HIDE DEF Erased
<1>6. /\ stored' \in [Stores -> Cart]
      /\ \A s \in Stores : stored'[s].there = p[s].there
      /\ \A s \in Stores : stored'[s].items = p[s].items
      /\ \A s \in Stores : stored'[s].customer = Absent
  BY <1>4, <1>5
<1>7. /\ Closed.store = "none" /\ Closed.items = {} /\ Closed.selected = FALSE
      /\ Closed.resolving = {}
  BY DEF Closed
<1>8. /\ shopper' \in [CartTabs -> Tab] /\ shopper'[t] = Closed
      /\ \A u \in CartTabs : u # t => shopper'[u] = shopper[u]
  BY <1>1, <1>2, ClosedIsTab
<1>9. ~HasLegacy(shopper'[t].items) /\ Fits(shopper'[t].store, shopper'[t].items)
      /\ ~InShop(t)'
  BY <1>7, <1>8 DEF HasLegacy, Fits, InShop
<1>10. \A u \in CartTabs : InShop(u)' => /\ u # t /\ InShop(u) /\ shopper'[u] = shopper[u]
                                         /\ shopper'[u].store \in contested'
  BY <1>1, <1>8, <1>9 DEF InShop
<1>11. TabsInv'
  <2>1. \A u \in CartTabs : HasLegacy(shopper'[u].items) =>
          HasLegacy(shopper[u].items) /\ shopper'[u] = shopper[u]
    BY <1>8, <1>9
  <2>2. \A u \in CartTabs : HasLegacy(shopper'[u].items) =>
          /\ ~legacy'
          /\ \A v \in CartTabs : HasLegacy(shopper'[v].items) => shopper'[v].store = shopper'[u].store
    BY <1>1, <2>1 DEF CartsInv, TabsInv
  <2>3. \A u \in CartTabs : Fits(shopper'[u].store, shopper'[u].items)
    BY <1>8, <1>9 DEF CartsInv, TabsInv
  <2>4. ASSUME NEW u \in CartTabs
        PROVE  (shopper'[u].selected => InShop(u)') /\ \A s \in shopper'[u].resolving : InShop(u)'
    <3>1. CASE u = t
      BY <1>7, <1>8, <3>1
    <3>2. CASE u # t
      BY <1>8, <3>2 DEF CartsInv, TabsInv, InShop
    <3>3. QED
      BY <3>1, <3>2
  <2>5. QED
    BY <1>8, <1>10, <2>2, <2>3, <2>4 DEF TabsInv
<1>12. MayBeStored(stored)'
  <2>1. \A u \in CartTabs : HasLegacy(shopper'[u].items) =>
          HasLegacy(shopper[u].items) /\ shopper'[u] = shopper[u]
    BY <1>8, <1>9
  <2>2. \A r \in Stores : HasLegacy(stored'[r].items) =>
            /\ ~legacy'
            /\ \A q \in Stores : HasLegacy(stored'[q].items) => q = r
            /\ \A u \in CartTabs : HasLegacy(shopper'[u].items) => shopper'[u].store = r
    BY <1>1, <1>2, <1>6, <2>1 DEF MayBeStored
  <2>3. /\ \A r \in Stores : ~stored'[r].there => stored'[r].items = {}
        /\ \A r \in Stores : Fits(r, stored'[r].items)
    BY <1>2, <1>6 DEF MayBeStored
  <2>4. \A r \in Stores : ~(stored'[r].customer > Blank)
    BY <1>6 DEF Absent, Blank
  <2>5. QED
    BY <1>6, <1>10, <2>2, <2>3, <2>4 DEF MayBeStored
<1>13. contested' \subseteq Stores
  BY <1>1, <1>2 DEF CartsInv, Tab, InShop
<1>14. QED
  BY <1>1, <1>11, <1>12, <1>13 DEF CartsInv

\* The pages and stores a tab opens, and the stores that come.
LEMMA ShopKept ==
  ASSUME CartsInv, NEW t \in CartTabs, visits' \in 0..MaxVisits,
         \/ OpenBare(t) \/ SessionExpires(t)
         \/ \E s \in Stores : Open(t, s) \/ ChangeRoute(t, s) \/ ResolveStore(t, s)
  PROVE  CartsInv'
<1> USE CartsAssumption
<1>1. MayBeStored(stored) /\ shopper[t] \in Tab /\ lastStore \in Stores \cup {"none"}
  BY DEF CartsInv, TabsInv
<1>2. CASE OpenBare(t)
  <2> DEFINE b == lastStore # "none"
             s == IF b THEN lastStore ELSE "default"
  <2>1. PICK c \in BOOLEAN : c <=> b
    OBVIOUS
  <2>2. c = b
    BY <2>1
  <2>3. LoadInto(t, OpenedBare(b), stored, s) /\ lastStore' = lastStore /\ day' = day
    BY <1>2, Zenon DEF OpenBare, OpenedBare
  <2>4. LoadInto(t, OpenedBare(c), stored, s)
    BY <2>2, <2>3, Zenon
  <2>5. s \in Stores
    BY <1>1
  <2> HIDE DEF s
  <2>6. OpenedBare(c) \in Tab
    BY <1>1, <2>5, TabsOpen
  <2>7. QED
    BY <1>1, <2>3, <2>4, <2>5, <2>6, LoadKept
<1>3. CASE SessionExpires(t)
  <2> DEFINE tab == [shopper[t] EXCEPT !.selected = FALSE]
  <2>1. LoadInto(t, tab, Persist(stored, shopper[t]), "default") /\ lastStore' = "none"
        /\ day' = day /\ InShop(t)
    BY <1>3 DEF SessionExpires, Switch, CartsInv, TabsInv
  <2>2. tab \in Tab
    BY <1>1 DEF Tab
  <2> HIDE DEF tab
  <2>3. MayBeStored(Persist(stored, shopper[t]))
    BY <2>1, PersistKept
  <2>4. QED
    BY <2>1, <2>2, <2>3, LoadKept
<1>4. ASSUME NEW s \in Stores, Open(t, s)
      PROVE  CartsInv'
  <2>1. LoadInto(t, OpenedAt(s), stored, s) /\ lastStore' = s /\ day' = day
    BY <1>4 DEF Open, OpenedAt
  <2>2. OpenedAt(s) \in Tab
    <3>1. TRUE \in BOOLEAN
      OBVIOUS
    <3>2. QED
      BY <1>1, <3>1, TabsOpen
  <2>3. QED
    BY <1>1, <2>1, <2>2, LoadKept
<1>5. ASSUME NEW s \in Stores, ChangeRoute(t, s)
      PROVE  CartsInv'
  <2>1. LoadInto(t, RoutedTo(shopper[t], s), Persist(stored, shopper[t]), s) /\ lastStore' = s
        /\ day' = day /\ InShop(t)
    BY <1>5 DEF ChangeRoute, Switch, RoutedTo
  <2>2. RoutedTo(shopper[t], s) \in Tab
    <3>1. TRUE \in BOOLEAN
      OBVIOUS
    <3>2. QED
      BY <1>1, <3>1, TabsOpen
  <2>3. MayBeStored(Persist(stored, shopper[t]))
    BY <2>1, PersistKept
  <2>4. QED
    BY <2>1, <2>2, <2>3, LoadKept
<1>6. ASSUME NEW s \in Stores, ResolveStore(t, s)
      PROVE  CartsInv'
  <2> DEFINE tab == [shopper[t] EXCEPT !.resolving = @ \ {s}]
             silent == ~tab.bare /\ tab.selected /\ tab.store = s
  <2>1. s \in shopper[t].resolving /\ day' = day /\ InShop(t)
    BY <1>6 DEF ResolveStore, CartsInv, TabsInv
  <2>2. /\ tab \in Tab /\ tab.store = shopper[t].store /\ tab.items = shopper[t].items
        /\ tab.customer = shopper[t].customer /\ tab.selected = shopper[t].selected
        /\ tab.resolving \subseteq shopper[t].resolving
    BY <1>1 DEF Tab
  <2>3. \/ lastStore' = s /\ LoadInto(t, Resolved(tab), Persist(stored, shopper[t]), s)
        \/ /\ shopper' = [shopper EXCEPT ![t] = tab]
           /\ lastStore' \in {lastStore, s}
           /\ UNCHANGED <<stored, legacy, contested>>
    BY <1>6 DEF ResolveStore, Switch, Resolved
  <2> HIDE DEF tab
  <2>4. CASE lastStore' = s /\ LoadInto(t, Resolved(tab), Persist(stored, shopper[t]), s)
    <3>1. MayBeStored(Persist(stored, shopper[t]))
      BY <2>1, PersistKept
    <3>2. Resolved(tab) \in Tab
      <4>1. TRUE \in BOOLEAN
        OBVIOUS
      <4>2. QED
        BY <2>2, <4>1, TabsOpen
    <3>3. QED
      BY <2>1, <2>4, <3>1, <3>2, LoadKept
  <2>5. CASE /\ shopper' = [shopper EXCEPT ![t] = tab]
             /\ lastStore' \in {lastStore, s}
             /\ UNCHANGED <<stored, legacy, contested>>
    BY <1>1, <2>1, <2>2, <2>5, SameCartKept
  <2>6. QED
    BY <2>3, <2>4, <2>5
<1>7. QED
  BY <1>2, <1>3, <1>4, <1>5, <1>6

\* The list on the screen is replaced.
LEMMA ListKept ==
  ASSUME CartsInv, NEW t \in CartTabs, ListArrives(t)
  PROVE  CartsInv'
<1>1. PICK list \in {shopper[t].asked, shopper[t].list} :
        shopper' = [shopper EXCEPT ![t].list = list, ![t].asked = "none"]
  BY DEF ListArrives
<1>2. /\ shopper \in [CartTabs -> Tab] /\ shopper[t] \in Tab
      /\ list \in Stores \cup {"none"} /\ visits \in 0..MaxVisits
      /\ lastStore \in Stores \cup {"none"}
      /\ UNCHANGED <<stored, legacy, contested, day>> /\ UNCHANGED <<lastStore, visits>>
  BY DEF CartsInv, TabsInv, Tab, ListArrives
<1>3. PICK old \in Tab : old = shopper[t]
  BY <1>2
<1>4. PICK u \in Tab : u = [old EXCEPT !.list = list]
  BY <1>2 DEF Tab
<1>5. PICK v \in Tab : v = [u EXCEPT !.asked = "none"]
  BY DEF Tab
<1>6. /\ v.store = old.store /\ v.items = old.items /\ v.customer = old.customer
      /\ v.selected = old.selected /\ v.resolving = old.resolving
  BY <1>4, <1>5 DEF Tab
<1>7. [old EXCEPT !.list = list, !.asked = "none"] = [[old EXCEPT !.list = list] EXCEPT !.asked = "none"]
  BY Zenon
<1>8. [shopper EXCEPT ![t].list = list, ![t].asked = "none"]
        = [shopper EXCEPT ![t] = [shopper[t] EXCEPT !.list = list, !.asked = "none"]]
  BY <1>2
<1>9. shopper' = [shopper EXCEPT ![t] = v]
  BY <1>1, <1>3, <1>4, <1>5, <1>7, <1>8, Zenon
<1>10. QED
  BY <1>2, <1>3, <1>6, <1>9, SameCartKept

\* The invariant of every reachable state.
LEMMA CartsInvariance == CartsSpec => []CartsInv
<1> USE CartsAssumption, MarksAssumption
<1>1. CartsInit => CartsInv
  <2> SUFFICES ASSUME CartsInit PROVE CartsInv
    OBVIOUS
  <2>1. /\ NoCart \in Cart /\ NoCart.items = {} /\ NoCart.customer = Absent
        /\ NoCart.there = FALSE
    BY DEF NoCart, Cart, Details, Absent
  <2>2. /\ Closed.store = "none" /\ Closed.items = {} /\ Closed.selected = FALSE
        /\ Closed.resolving = {}
    BY DEF Closed
  <2>3. /\ \A s : Fits(s, NoCart.items) /\ Fits(s, Closed.items)
        /\ ~HasLegacy(NoCart.items) /\ ~HasLegacy(Closed.items)
    BY <2>1, <2>2 DEF Fits, HasLegacy
  <2> HIDE DEF NoCart, Closed
  <2>4. stored \in [Stores -> Cart] /\ shopper \in [CartTabs -> Tab]
    BY <2>1, ClosedIsTab DEF CartsInit
  <2>5. /\ \A s \in Stores : stored[s] = NoCart
        /\ \A t \in CartTabs : shopper[t] = Closed /\ ~InShop(t)
    BY <2>2 DEF CartsInit, InShop
  <2>6. MayBeStored(stored)
    <3>1. /\ \A s \in Stores : Fits(s, stored[s].items)
          /\ \A s \in Stores : ~HasLegacy(stored[s].items)
      BY <2>1, <2>3, <2>5
    <3>2. \A s \in Stores : stored[s].items = {}
      BY <2>1, <2>5
    <3>3. \A s \in Stores : ~(stored[s].customer > Blank)
      <4>1. \A s \in Stores : stored[s].customer = Absent
        BY <2>1, <2>5
      <4>2. ~(Absent > Blank)
        BY DEF Absent, Blank
      <4>3. QED
        BY <4>1, <4>2
    <3>4. QED
      BY <2>4, <2>5, <3>1, <3>2, <3>3 DEF MayBeStored
  <2>7. TabsInv
    BY <2>2, <2>3, <2>4, <2>5 DEF TabsInv
  <2>8. QED
    BY <2>6, <2>7 DEF CartsInit, CartsInv
<1>2. CartsInv /\ [CartsNext]_cartsVars => CartsInv'
  <2> SUFFICES ASSUME CartsInv, [CartsNext]_cartsVars PROVE CartsInv'
    OBVIOUS
  <2>1. ASSUME NEW t \in CartTabs, Visit(t) PROVE CartsInv'
    <3>1. visits' \in 0..MaxVisits
      BY <2>1 DEF Visit, CartsInv
    <3>2. QED
      BY <2>1, <3>1, ShopKept, ItemsKept, UpdateCustomerKept, LogoutKept DEF Visit
  <2>2. ASSUME NEW t \in CartTabs, ListArrives(t) PROVE CartsInv'
    BY <2>2, ListKept
  <2>3. ASSUME NEW t \in CartTabs, RemoveItems(t) PROVE CartsInv'
    <3>1. visits' \in 0..MaxVisits
      BY <2>3 DEF RemoveItems, CartsInv
    <3>2. QED
      BY <2>3, <3>1, ItemsKept
  <2>4. CASE NextDay
    <3>1. /\ day' \in 0..CartDays /\ stored' = stored /\ lastStore' = lastStore
          /\ legacy' = legacy /\ shopper' = shopper /\ visits' = visits /\ contested' = contested
      BY <2>4 DEF NextDay, CartsInv
    <3>2. QED
      BY <3>1 DEF CartsInv, MayBeStored, TabsInv, InShop
  <2>5. CASE UNCHANGED cartsVars
    BY <2>5 DEF cartsVars, CartsInv, MayBeStored, TabsInv, InShop
  <2>6. QED
    BY <2>1, <2>2, <2>3, <2>4, <2>5 DEF CartsNext
<1>3. QED
  BY <1>1, <1>2, PTL DEF CartsSpec

\* Storage and tabs have their types (useCart).
THEOREM CartTypes == CartsSpec => []CartsTypeOK
<1>1. CartsInv => CartsTypeOK
  BY DEF CartsInv, MayBeStored, TabsInv, CartsTypeOK, Cart, Tab
<1>2. QED
  BY <1>1, CartsInvariance, PTL

\* No cart holds what belongs in that of another store, whatever tabs do at
\* once, but for what was added from a list left over (loadPersistedState).
THEOREM CartsOfStores == CartsSpec => []CartsStayApart
<1>1. CartsInv => CartsStayApart
  BY DEF CartsInv, MayBeStored, TabsInv, CartsStayApart, Fits, HasLegacy
<1>2. QED
  BY <1>1, CartsInvariance, PTL

\* Details expire from the day they were typed (persistState).
THEOREM DetailsAreStamped == CartsSpec => []SavedWhenTyped
<1>1. CartsInv => SavedWhenTyped
  <2> SUFFICES ASSUME CartsInv, NEW s \in Stores \ contested, stored[s].customer > Blank
               PROVE  TypedOn(stored[s].savedAt - 1) = stored[s].customer
    BY DEF SavedWhenTyped
  <2>1. stored[s].customer = stored[s].savedAt + 1 /\ stored[s] \in Cart
    BY DEF CartsInv, MayBeStored
  <2>2. stored[s].savedAt \in 0..(CartDays + 1)
    BY <2>1, CartFields
  <2>3. QED
    BY <2>1, <2>2, CartsAssumption DEF TypedOn
<1>2. QED
  BY <1>1, CartsInvariance, PTL
-----------------------------------------------------------------------------
(* The bot: a tab that has had every answer has one message under way at   *)
(* most, and all the others in the conversation of its session; and the    *)
(* place of a message under way in an unshared conversation is after those *)
(* of all the messages stored in it.                                       *)

BotMessage == [step : {"unsent", "sent", "resolved", "inserted", "stored", "dead"},
               tab : BotTabs \cup {"none"}, intent : Intents,
               conv : 0..MaxMessages, place : 0..MaxMessages]
Conversation == [status : {"none", "open", "waiting_customer", "waiting_human"},
                 by : 0..MaxMessages, order : BotOrders \cup {"none"}, shared : BOOLEAN]

\* The messages that have still to be inserted.
ToInsert == {m \in Messages : message[m].step \in {"sent", "resolved"}}

BotTypes ==
  /\ session \in [BotTabs -> 0..MaxMessages]
  /\ awaits \in [BotTabs -> 0..sentBot]
  /\ message \in [Messages -> BotMessage]
  /\ conv \in [Messages -> Conversation]
  /\ inserted \in Nat /\ sentBot \in 0..MaxMessages
  /\ missed \subseteq BotTabs

\* A message is unsent until its turn, and in a conversation that has begun
\* once it is served; the conversation it may make has not begun before.
Served ==
  /\ \A m \in Messages : m > sentBot => message[m].step = "unsent"
  /\ \A m \in Messages :
       /\ message[m].step = "unsent" => message[m].conv = 0
       /\ message[m].step \in {"unsent", "sent"} /\ message[m].conv = 0
            => conv[m].status = "none"
       /\ message[m].conv # 0 => conv[message[m].conv].status # "none"
       /\ message[m].step \in {"resolved", "inserted", "stored"} => message[m].conv # 0
  /\ \A t \in BotTabs : session[t] # 0 => conv[session[t]].status # "none"

\* What a tab that has had every answer has said.
Answered ==
  /\ \A t \in BotTabs : awaits[t] # 0 => message[awaits[t]].tab = t
  /\ \A t \in BotTabs \ missed : \A m \in Messages :
       message[m].tab = t /\ message[m].step # "unsent" =>
         IF m = awaits[t] THEN session[t] # 0 => message[m].conv = session[t]
         ELSE message[m].step = "stored" /\ message[m].conv = session[t]

\* In a conversation that is not shared one message is under way at a time.
OneAtATime ==
  /\ \A m \in Messages : message[m].place <= inserted
  /\ \A m, n \in Messages :
       /\ message[m].step = "inserted" /\ message[n].step \in {"inserted", "stored"}
       /\ m # n /\ message[m].conv = message[n].conv /\ ~conv[message[m].conv].shared
       => message[n].step = "stored" /\ message[n].place < message[m].place

\* The status of a conversation is of the message stored last.
LastDecides ==
  \A m \in Messages : message[m].step = "stored" =>
    \/ conv[message[m].conv].shared
    \/ \E n \in Messages : /\ message[n].step = "stored" /\ message[n].conv = message[m].conv
                           /\ message[n].place > message[m].place
    \/ conv[message[m].conv].status = "waiting_human" <=> message[m].intent = "human_support"

AllCounted == inserted + Cardinality(ToInsert) <= sentBot

BotInv ==
  BotTypes /\ Served /\ Answered /\ OneAtATime /\ AllCounted /\ LastDecides

LEMMA MessagesAreFinite ==
  ASSUME NEW S \in SUBSET Messages
  PROVE  IsFiniteSet(S) /\ Cardinality(S) \in Nat
<1>1. IsFiniteSet(1..MaxMessages)
  BY BotBoundsAssumption, FS_Interval
<1>2. QED
  BY <1>1, FS_Subset, FS_CardinalityType DEF Messages

\* A message goes on to step `s`, with conversation `x` and place `p`.
Moved(r, s, x, p) == [step |-> s, tab |-> r.tab, intent |-> r.intent, conv |-> x, place |-> p]

\* The same as the actions say it.
WithStep(f, m, s) == [f EXCEPT ![m].step = s]
WithConv(f, m, s, x) == [f EXCEPT ![m].step = s, ![m].conv = x]
WithPlace(f, m, s, x) == [f EXCEPT ![m].step = s, ![m].place = x]

LEMMA StepMoves ==
  ASSUME NEW f \in [Messages -> BotMessage], NEW m \in Messages,
         NEW s \in {"unsent", "sent", "resolved", "inserted", "stored", "dead"}
  PROVE  WithStep(f, m, s) = [f EXCEPT ![m] = Moved(f[m], s, f[m].conv, f[m].place)]
<1>1. PICK r \in BotMessage : r = f[m]
  OBVIOUS
<1>2. [r EXCEPT !.step = s] = Moved(r, s, r.conv, r.place)
  BY DEF BotMessage, Moved
<1>3. [f EXCEPT ![m].step = s] = [f EXCEPT ![m] = [f[m] EXCEPT !.step = s]]
  OBVIOUS
<1>4. QED
  BY <1>1, <1>2, <1>3, Zenon DEF WithStep

LEMMA MessageMoves ==
  ASSUME NEW f \in [Messages -> BotMessage], NEW m \in Messages,
         NEW s \in {"unsent", "sent", "resolved", "inserted", "stored", "dead"},
         NEW x \in 0..MaxMessages
  PROVE  /\ WithConv(f, m, s, x) = [f EXCEPT ![m] = Moved(f[m], s, x, f[m].place)]
         /\ WithPlace(f, m, s, x) = [f EXCEPT ![m] = Moved(f[m], s, f[m].conv, x)]
<1>1. PICK r \in BotMessage : r = f[m]
  OBVIOUS
<1>2. PICK n \in BotMessage : n = Moved(r, s, r.conv, r.place)
  BY DEF BotMessage, Moved
<1>3. [r EXCEPT !.step = s] = n
  BY <1>2 DEF BotMessage, Moved
<1>4. [n EXCEPT !.conv = x] = Moved(r, s, x, r.place)
      /\ [n EXCEPT !.place = x] = Moved(r, s, r.conv, x)
  BY <1>2 DEF BotMessage, Moved
<1>5. /\ [r EXCEPT !.step = s, !.conv = x] = [[r EXCEPT !.step = s] EXCEPT !.conv = x]
      /\ [r EXCEPT !.step = s, !.place = x] = [[r EXCEPT !.step = s] EXCEPT !.place = x]
  BY Zenon DEF BotMessage
<1>6. /\ [r EXCEPT !.step = s, !.conv = x] = Moved(r, s, x, r.place)
      /\ [r EXCEPT !.step = s, !.place = x] = Moved(r, s, r.conv, x)
  BY <1>3, <1>4, <1>5, Zenon
<1>7. /\ [f EXCEPT ![m].step = s, ![m].conv = x]
           = [f EXCEPT ![m] = [f[m] EXCEPT !.step = s, !.conv = x]]
      /\ [f EXCEPT ![m].step = s, ![m].place = x]
           = [f EXCEPT ![m] = [f[m] EXCEPT !.step = s, !.place = x]]
  OBVIOUS
<1>8. QED
  BY <1>1, <1>6, <1>7, Zenon DEF WithConv, WithPlace

LEMMA MovedFields ==
  ASSUME NEW r, NEW s, NEW x, NEW p
  PROVE  /\ Moved(r, s, x, p).step = s /\ Moved(r, s, x, p).tab = r.tab
         /\ Moved(r, s, x, p).intent = r.intent /\ Moved(r, s, x, p).conv = x
         /\ Moved(r, s, x, p).place = p
  BY DEF Moved

LEMMA BotInvInit ==
  ASSUME BotInit
  PROVE  BotInv
<1> USE BotBoundsAssumption
<1>1. BotTypes
  BY DEF BotInit, BotTypes, BotMessage, Conversation, Unsent, NoConv, Intents, Messages
<1>2. Served /\ Answered /\ OneAtATime /\ LastDecides
  BY DEF BotInit, Served, Answered, OneAtATime, LastDecides, Unsent, NoConv, Messages
<1>3. AllCounted
  <2>1. ToInsert = {}
    BY DEF BotInit, ToInsert, Unsent
  <2>2. Cardinality(ToInsert) = 0
    BY <2>1, FS_EmptySet
  <2>3. QED
    BY <2>2 DEF AllCounted, BotInit
<1>4. QED
  BY <1>1, <1>2, <1>3 DEF BotInv

\* A tab sends.
LEMMA SendKept ==
  ASSUME BotInv, NEW t \in BotTabs, NEW intent \in Intents, SendMessage(t, intent)
  PROVE  BotInv'
<1> USE BotBoundsAssumption
<1> DEFINE new == sentBot + 1
           r == [step |-> "sent", tab |-> t, intent |-> intent, conv |-> session[t], place |-> 0]
<1>1. /\ new \in Messages /\ new \in 1..MaxMessages /\ sentBot' = new /\ awaits[t] = 0
      /\ message[new].step = "unsent" /\ sentBot \in Nat
  BY DEF BotInv, BotTypes, Served, SendMessage, Messages
<1>2. /\ r \in BotMessage /\ r.step = "sent" /\ r.tab = t /\ r.conv = session[t] /\ r.place = 0
      /\ message' = [message EXCEPT ![new] = r] /\ awaits' = [awaits EXCEPT ![t] = new]
      /\ UNCHANGED <<session, conv, inserted, missed>>
  BY DEF BotInv, BotTypes, SendMessage, BotMessage
<1> HIDE DEF r, new
<1>3. /\ message'[new] = r /\ awaits'[t] = new
      /\ \A m \in Messages : m # new => message'[m] = message[m]
      /\ \A u \in BotTabs : u # t => awaits'[u] = awaits[u]
  BY <1>1, <1>2 DEF BotInv, BotTypes
<1>4. BotTypes'
  BY <1>1, <1>2 DEF BotInv, BotTypes, new
<1>5. Served'
  BY <1>1, <1>2, <1>3 DEF BotInv, Served, BotTypes, new, Messages
<1>6. Answered'
  <2>1. \A u \in BotTabs : awaits[u] # new
    BY DEF BotInv, BotTypes, new
  <2>2. ASSUME NEW u \in BotTabs, awaits'[u] # 0
        PROVE  message'[awaits'[u]].tab = u
    <3>1. CASE u = t
      BY <1>2, <1>3, <3>1
    <3>2. CASE u # t
      <4>1. awaits'[u] = awaits[u] /\ awaits[u] # new /\ message[awaits[u]].tab = u
        BY <1>3, <2>1, <2>2, <3>2 DEF BotInv, Answered
      <4>2. awaits[u] \in Messages
        BY <2>2, <4>1 DEF BotInv, BotTypes, Messages
      <4>3. QED
        BY <1>3, <4>1, <4>2
    <3>3. QED
      BY <3>1, <3>2
  <2>3. ASSUME NEW u \in BotTabs \ missed', NEW m \in Messages,
               message'[m].tab = u, message'[m].step # "unsent"
        PROVE  IF m = awaits'[u] THEN session'[u] # 0 => message'[m].conv = session'[u]
               ELSE message'[m].step = "stored" /\ message'[m].conv = session'[u]
    <3>1. CASE m = new
      BY <1>1, <1>2, <1>3, <2>1, <2>3, <3>1
    <3>2. CASE m # new
      BY <1>1, <1>2, <1>3, <2>1, <2>3, <3>2 DEF BotInv, Answered, Messages
    <3>3. QED
      BY <3>1, <3>2
  <2>4. QED
    BY <2>2, <2>3 DEF Answered
<1>7. OneAtATime'
  BY <1>1, <1>2, <1>3 DEF BotInv, OneAtATime, BotTypes
<1>8. AllCounted'
  <2>1. ToInsert' = ToInsert \cup {new} /\ ToInsert \in SUBSET Messages
    BY <1>1, <1>2, <1>3 DEF ToInsert
  <2>2. Cardinality(ToInsert') <= Cardinality(ToInsert) + 1
    BY <2>1, MessagesAreFinite, FS_AddElement
  <2>3. Cardinality(ToInsert') \in Nat /\ Cardinality(ToInsert) \in Nat
    BY <1>1, <2>1, MessagesAreFinite, FS_AddElement
  <2>4. QED
    BY <1>1, <1>2, <2>2, <2>3 DEF BotInv, AllCounted, BotTypes, new
<1>9. LastDecides'
  <2> SUFFICES ASSUME NEW m \in Messages, message'[m].step = "stored",
                      ~conv'[message'[m].conv].shared
               PROVE  \/ \E n \in Messages :
                           /\ message'[n].step = "stored" /\ message'[n].conv = message'[m].conv
                           /\ message'[n].place > message'[m].place
                      \/ conv'[message'[m].conv].status = "waiting_human"
                           <=> message'[m].intent = "human_support"
    BY DEF LastDecides
  <2>1. m # new /\ message'[m] = message[m] /\ conv' = conv
    BY <1>2, <1>3
  <2>2. CASE \E n \in Messages :
                /\ message[n].step = "stored" /\ message[n].conv = message[m].conv
                /\ message[n].place > message[m].place
    BY <1>1, <1>3, <2>1, <2>2
  <2>3. QED
    BY <2>1, <2>2 DEF BotInv, LastDecides
<1>10. QED
  BY <1>4, <1>5, <1>6, <1>7, <1>8, <1>9 DEF BotInv

\* A step of serving message `m` that changes nothing but it and rows that have
\* begun.
LEMMA Counted ==
  ASSUME BotInv, NEW m \in Messages, sentBot' = sentBot, inserted' \in Nat,
         \A n \in Messages : n # m => message'[n] = message[n],
         \/ inserted' = inserted /\ (m \in ToInsert' => m \in ToInsert)
         \/ inserted' = inserted + 1 /\ m \in ToInsert /\ m \notin ToInsert'
  PROVE  AllCounted'
<1>1. /\ ToInsert \in SUBSET Messages /\ ToInsert' \in SUBSET Messages
      /\ inserted \in Nat /\ sentBot \in Nat
  BY BotBoundsAssumption DEF ToInsert, BotInv, BotTypes
<1>2. /\ IsFiniteSet(ToInsert) /\ Cardinality(ToInsert) \in Nat
      /\ IsFiniteSet(ToInsert') /\ Cardinality(ToInsert') \in Nat
  BY <1>1, MessagesAreFinite
<1>3. CASE inserted' = inserted /\ (m \in ToInsert' => m \in ToInsert)
  <2>1. ToInsert' \subseteq ToInsert
    BY <1>3 DEF ToInsert
  <2>2. Cardinality(ToInsert') <= Cardinality(ToInsert)
    BY <1>2, <2>1, FS_Subset
  <2>3. QED
    BY <1>1, <1>2, <1>3, <2>2 DEF BotInv, AllCounted
<1>4. CASE inserted' = inserted + 1 /\ m \in ToInsert /\ m \notin ToInsert'
  <2>1. ToInsert' \subseteq ToInsert \ {m}
    BY <1>4 DEF ToInsert
  <2>2. /\ IsFiniteSet(ToInsert \ {m})
        /\ Cardinality(ToInsert \ {m}) = Cardinality(ToInsert) - 1
    BY <1>2, <1>4, FS_RemoveElement
  <2>3. Cardinality(ToInsert') <= Cardinality(ToInsert) - 1
    BY <2>1, <2>2, FS_Subset
  <2>4. QED
    BY <1>1, <1>2, <1>4, <2>3 DEF BotInv, AllCounted
<1>5. QED
  BY <1>3, <1>4

LEMMA ResolveKept ==
  ASSUME BotInv, NEW m \in Messages, ResolveConversation(m)
  PROVE  BotInv'
<1> USE BotBoundsAssumption
<1> DEFINE c == message[m].conv
           d == IF c = 0 THEN m ELSE c
           r == Moved(message[m], "resolved", d, message[m].place)
<1>1. /\ message[m] \in BotMessage /\ message[m].step = "sent" /\ c \in 0..MaxMessages
      /\ UNCHANGED <<session, awaits, sentBot, inserted, missed>>
  BY DEF BotInv, BotTypes, ResolveConversation, BotMessage
<1>2. message' = [message EXCEPT ![m] = r] /\ r \in BotMessage
  <2>1. message \in [Messages -> BotMessage] /\ d \in 0..MaxMessages
    BY <1>1 DEF BotInv, BotTypes, Messages
  <2>2. message' = WithConv(message, m, "resolved", d)
    BY DEF ResolveConversation, WithConv
  <2>3. PICK f \in [Messages -> BotMessage], x \in 0..MaxMessages,
             s \in {"unsent", "sent", "resolved", "inserted", "stored", "dead"} :
             f = message /\ s = "resolved" /\ x = d
    BY <2>1
  <2>4. WithConv(f, m, s, x) = [f EXCEPT ![m] = Moved(f[m], s, x, f[m].place)]
    BY MessageMoves
  <2>5. message' = [message EXCEPT ![m] = r]
    BY <2>2, <2>3, <2>4, Zenon
  <2>6. QED
    BY <1>1, <2>1, <2>5 DEF Moved, BotMessage
<1>3. /\ r.step = "resolved" /\ r.tab = message[m].tab /\ r.conv = d /\ d # 0
      /\ d \in Messages /\ r.place = message[m].place /\ r.intent = message[m].intent
  BY <1>1, MovedFields DEF Messages
<1> HIDE DEF r
<1>4. message'[m] = r /\ \A n \in Messages : n # m => message'[n] = message[n]
  BY <1>2 DEF BotInv, BotTypes
<1> DEFINE open == [NoConv EXCEPT !.status = "open"]
<1>5. open \in Conversation /\ open.status = "open"
  <2> NoConv \in Conversation
    BY DEF Conversation, NoConv
  <2>1. PICK none \in Conversation : none = NoConv
    OBVIOUS
  <2>2. [none EXCEPT !.status = "open"] \in Conversation
        /\ [none EXCEPT !.status = "open"].status = "open"
    BY DEF Conversation
  <2>3. QED
    BY <2>1, <2>2
<1>6. /\ \A e \in Messages : conv'[e] = IF c = 0 /\ e = m THEN open ELSE conv[e]
      /\ conv' \in [Messages -> Conversation]
  BY <1>5 DEF ResolveConversation, BotInv, BotTypes
<1> HIDE DEF open
<1>7. BotTypes'
  BY <1>1, <1>2, <1>6 DEF BotInv, BotTypes
<1>8. Served'
  <2>1. \A n \in Messages : n > sentBot' => message'[n].step = "unsent"
    BY <1>1, <1>3, <1>4, <1>5, <1>6 DEF BotInv, Served
  <2>2. ASSUME NEW n \in Messages
        PROVE  /\ message'[n].step = "unsent" => message'[n].conv = 0
               /\ message'[n].step \in {"unsent", "sent"} /\ message'[n].conv = 0
                    => conv'[n].status = "none"
               /\ message'[n].conv # 0 => conv'[message'[n].conv].status # "none"
               /\ message'[n].step \in {"resolved", "inserted", "stored"} => message'[n].conv # 0
    <3>1. message[n].conv \in 0..MaxMessages
      BY DEF BotInv, BotTypes, BotMessage
    <3>2. CASE n = m
      BY <1>1, <1>3, <1>4, <1>5, <1>6, <3>1, <3>2 DEF BotInv, Served, Messages
    <3>3. CASE n # m
      BY <1>1, <1>3, <1>4, <1>5, <1>6, <3>1, <3>3 DEF BotInv, Served, Messages
    <3>4. QED
      BY <3>2, <3>3
  <2>3. ASSUME NEW t \in BotTabs, session'[t] # 0
        PROVE  conv'[session'[t]].status # "none"
    <3>1. session[t] \in Messages /\ conv[session[t]].status # "none" /\ session' = session
      BY <1>1, <2>3 DEF BotInv, BotTypes, Served, Messages
    <3>2. QED
      BY <1>5, <1>6, <3>1
  <2>4. QED
    BY <2>1, <2>2, <2>3 DEF Served
<1>9. c = 0 => \A n \in Messages : message[n].conv # m
  BY <1>1 DEF BotInv, Served, Messages
<1>10. Answered'
  <2>1. \A t \in BotTabs : awaits'[t] # 0 => message'[awaits'[t]].tab = t
    BY <1>1, <1>3, <1>4, <1>5, <1>6 DEF BotInv, BotTypes, Answered, Messages
  <2>2. ASSUME NEW t \in BotTabs \ missed', NEW n \in Messages,
               message'[n].tab = t, message'[n].step # "unsent"
        PROVE  IF n = awaits'[t] THEN session'[t] # 0 => message'[n].conv = session'[t]
               ELSE message'[n].step = "stored" /\ message'[n].conv = session'[t]
    <3>1. t \in BotTabs \ missed
      BY <1>1, <2>2
    <3>2. CASE n = m
      BY <1>1, <1>3, <1>4, <1>5, <1>6, <2>2, <3>1, <3>2 DEF BotInv, Answered
    <3>3. CASE n # m
      BY <1>1, <1>3, <1>4, <1>5, <1>6, <2>2, <3>1, <3>3 DEF BotInv, Answered
    <3>4. QED
      BY <3>2, <3>3
  <2>3. QED
    BY <2>1, <2>2 DEF Answered
<1>11. \A n \in Messages : message[n].conv # 0 /\ ~conv'[message[n].conv].shared
         => ~conv[message[n].conv].shared
  BY <1>6, <1>9 DEF BotInv, BotTypes, BotMessage, Messages
<1>12. OneAtATime'
  BY <1>1, <1>3, <1>4, <1>11 DEF BotInv, Served, OneAtATime
<1>13. AllCounted'
  BY <1>1, <1>3, <1>4, Counted DEF ToInsert, BotInv, BotTypes
<1>14. LastDecides'
  <2> SUFFICES ASSUME NEW n \in Messages, message'[n].step = "stored",
                      ~conv'[message'[n].conv].shared
               PROVE  \/ \E k \in Messages :
                           /\ message'[k].step = "stored" /\ message'[k].conv = message'[n].conv
                           /\ message'[k].place > message'[n].place
                      \/ conv'[message'[n].conv].status = "waiting_human"
                           <=> message'[n].intent = "human_support"
    BY DEF LastDecides
  <2>1. n # m /\ message'[n] = message[n] /\ message[n].step = "stored"
    BY <1>3, <1>4
  <2>2. message[n].conv \in Messages
    BY <2>1 DEF BotInv, BotTypes, BotMessage, Messages, Served
  <2>3. conv'[message[n].conv] = conv[message[n].conv]
    BY <1>6, <1>9, <2>2
  <2>4. \A k \in Messages : message[k].step = "stored" => message'[k] = message[k]
    BY <1>1, <1>4
  <2>5. QED
    BY <2>1, <2>3, <2>4 DEF BotInv, LastDecides
<1>15. QED
  BY <1>7, <1>8, <1>10, <1>12, <1>13, <1>14 DEF BotInv

LEMMA InsertKept ==
  ASSUME BotInv, NEW m \in Messages, Insert(m)
  PROVE  BotInv'
<1> USE BotBoundsAssumption
<1> DEFINE c == message[m].conv
           new == inserted + 1
           r == Moved(message[m], "inserted", c, new)
<1>1. /\ message[m] \in BotMessage /\ message[m].step = "resolved" /\ c \in Messages
      /\ UNCHANGED <<session, awaits, sentBot, missed>> /\ inserted' = inserted + 1
      /\ inserted \in Nat
  BY DEF BotInv, BotTypes, Served, Insert, BotMessage, Messages
<1>2. AllCounted' /\ inserted' <= sentBot
  <2>1. m \in ToInsert
    BY <1>1 DEF ToInsert
  <2>2. /\ m \notin ToInsert' /\ \A n \in Messages : n # m => message'[n] = message[n]
    BY DEF Insert, ToInsert, BotInv, BotTypes, BotMessage
  <2>3. AllCounted'
    BY <1>1, <2>1, <2>2, Counted
  <2>4. ToInsert' \in SUBSET Messages
    BY DEF ToInsert
  <2>5. Cardinality(ToInsert') \in Nat
    BY <2>4, MessagesAreFinite
  <2>6. QED
    BY <1>1, <2>3, <2>5 DEF AllCounted, BotInv, BotTypes
<1>3. message' = [message EXCEPT ![m] = r] /\ r \in BotMessage
  <2>1. message \in [Messages -> BotMessage] /\ new \in 0..MaxMessages
    BY <1>1, <1>2 DEF BotInv, BotTypes
  <2>2. message' = WithPlace(message, m, "inserted", new)
    BY DEF Insert, WithPlace
  <2>3. PICK f \in [Messages -> BotMessage], x \in 0..MaxMessages,
             s \in {"unsent", "sent", "resolved", "inserted", "stored", "dead"} :
             f = message /\ s = "inserted" /\ x = new
    BY <2>1
  <2>4. WithPlace(f, m, s, x) = [f EXCEPT ![m] = Moved(f[m], s, f[m].conv, x)]
    BY MessageMoves
  <2>5. message' = [message EXCEPT ![m] = r]
    BY <2>2, <2>3, <2>4, Zenon
  <2>6. QED
    BY <1>1, <2>1, <2>5 DEF Moved, BotMessage, Messages
<1>4. /\ r.step = "inserted" /\ r.tab = message[m].tab /\ r.conv = c
      /\ r.place = inserted + 1 /\ r.intent = message[m].intent
  BY MovedFields
<1> HIDE DEF r
<1>5. message'[m] = r /\ \A n \in Messages : n # m => message'[n] = message[n]
  BY <1>3 DEF BotInv, BotTypes
<1>6. /\ \A e \in Messages : /\ conv'[e].status = conv[e].status
                             /\ ~conv'[e].shared => ~conv[e].shared
      /\ conv' \in [Messages -> Conversation]
      /\ ~conv'[c].shared => Serving(c) = {m}
  <2>1. PICK b \in BOOLEAN : b <=> conv[c].shared \/ Serving(c) # {m}
    OBVIOUS
  <2>2. conv[c].shared \in BOOLEAN /\ conv \in [Messages -> Conversation]
    BY <1>1 DEF BotInv, BotTypes, Conversation
  <2>3. (conv[c].shared \/ Serving(c) # {m}) = b
    BY <2>1, <2>2
  <2>4. conv' = [conv EXCEPT ![c].shared = conv[c].shared \/ Serving(c) # {m}]
    BY DEF Insert
  <2>5. conv' = [conv EXCEPT ![c].shared = b]
    BY <2>3, <2>4, Zenon
  <2>6. PICK e \in Conversation : e = conv[c]
    BY <1>1, <2>2
  <2>7. /\ [e EXCEPT !.shared = b] \in Conversation
        /\ [e EXCEPT !.shared = b].shared = b /\ [e EXCEPT !.shared = b].status = e.status
    BY <2>6 DEF Conversation
  <2>8. conv' = [conv EXCEPT ![c] = [e EXCEPT !.shared = b]]
    BY <1>1, <2>2, <2>5, <2>6
  <2>9. QED
    BY <1>1, <2>1, <2>2, <2>6, <2>7, <2>8
<1>7. BotTypes'
  <2>1. conv' \in [Messages -> Conversation] /\ inserted' \in Nat
    BY <1>1, <1>6
  <2>2. message' \in [Messages -> BotMessage]
    BY <1>3 DEF BotInv, BotTypes
  <2>3. QED
    BY <1>1, <2>1, <2>2 DEF BotInv, BotTypes
<1>8. Served'
  <2>1. \A n \in Messages : n > sentBot' => message'[n].step = "unsent"
    BY <1>1, <1>4, <1>5, <1>6 DEF BotInv, Served
  <2>2. ASSUME NEW n \in Messages
        PROVE  /\ message'[n].step = "unsent" => message'[n].conv = 0
               /\ message'[n].step \in {"unsent", "sent"} /\ message'[n].conv = 0
                    => conv'[n].status = "none"
               /\ message'[n].conv # 0 => conv'[message'[n].conv].status # "none"
               /\ message'[n].step \in {"resolved", "inserted", "stored"} => message'[n].conv # 0
    <3>1. message[n].conv \in 0..MaxMessages
      BY DEF BotInv, BotTypes, BotMessage
    <3>2. CASE n = m
      BY <1>1, <1>4, <1>5, <1>6, <3>1, <3>2 DEF BotInv, Served, Messages
    <3>3. CASE n # m
      BY <1>1, <1>4, <1>5, <1>6, <3>1, <3>3 DEF BotInv, Served, Messages
    <3>4. QED
      BY <3>2, <3>3
  <2>3. ASSUME NEW t \in BotTabs, session'[t] # 0
        PROVE  conv'[session'[t]].status # "none"
    BY <1>1, <1>4, <1>5, <1>6, <2>3 DEF BotInv, BotTypes, Served, Messages
  <2>4. QED
    BY <2>1, <2>2, <2>3 DEF Served
<1>10. Answered'
  <2>1. \A t \in BotTabs : awaits'[t] # 0 => message'[awaits'[t]].tab = t
    BY <1>1, <1>4, <1>5 DEF BotInv, BotTypes, Answered, Messages
  <2>2. ASSUME NEW t \in BotTabs \ missed', NEW n \in Messages,
               message'[n].tab = t, message'[n].step # "unsent"
        PROVE  IF n = awaits'[t] THEN session'[t] # 0 => message'[n].conv = session'[t]
               ELSE message'[n].step = "stored" /\ message'[n].conv = session'[t]
    <3>1. t \in BotTabs \ missed
      BY <1>1, <2>2
    <3>2. CASE n = m
      BY <1>1, <1>4, <1>5, <2>2, <3>1, <3>2 DEF BotInv, Answered
    <3>3. CASE n # m
      BY <1>1, <1>4, <1>5, <2>2, <3>1, <3>3 DEF BotInv, Answered
    <3>4. QED
      BY <3>2, <3>3
  <2>3. QED
    BY <2>1, <2>2 DEF Answered
<1>12. OneAtATime'
  <2>1. \A n \in Messages : message'[n].place <= inserted'
    BY <1>1, <1>4, <1>5 DEF BotInv, OneAtATime, BotTypes, BotMessage
  <2>2. ASSUME NEW k \in Messages, NEW n \in Messages,
               message'[k].step = "inserted", message'[n].step \in {"inserted", "stored"},
               k # n, message'[k].conv = message'[n].conv, ~conv'[message'[k].conv].shared
        PROVE  message'[n].step = "stored" /\ message'[n].place < message'[k].place
    <3>1. CASE k = m
      <4>1. message[n].conv = c /\ n \notin Serving(c) /\ message'[n] = message[n]
        BY <1>4, <1>5, <1>6, <2>2, <3>1
      <4>2. message[n].step = "stored" /\ message[n].place <= inserted
        BY <2>2, <4>1 DEF Serving, BotInv, OneAtATime
      <4>3. message[n].place \in Nat
        BY DEF BotInv, BotTypes, BotMessage
      <4>4. QED
        BY <1>1, <1>4, <1>5, <3>1, <4>1, <4>2, <4>3
    <3>2. CASE n = m
      <4>1. message[k].conv = c /\ k \in Serving(c) /\ ~conv'[c].shared
        BY <1>4, <1>5, <2>2, <3>2 DEF Serving
      <4>2. QED
        BY <1>6, <2>2, <3>2, <4>1
    <3>3. CASE k # m /\ n # m
      <4>1. message[k] \in BotMessage /\ message[k].conv # 0
        BY <1>5, <2>2, <3>3 DEF BotInv, BotTypes, Served
      <4>3. message[k].conv \in Messages
        BY <4>1 DEF BotMessage, Messages
      <4>2. QED
        BY <1>5, <1>6, <2>2, <3>3, <4>3 DEF BotInv, OneAtATime
    <3>4. QED
      BY <3>1, <3>2, <3>3
  <2>3. QED
    BY <2>1, <2>2 DEF OneAtATime
<1>14. LastDecides'
  <2>1. \A n \in Messages : message[n].step = "stored" => message[n].conv \in Messages
    BY DEF BotInv, BotTypes, BotMessage, Served, Messages
  <2>2. QED
    BY <1>1, <1>4, <1>5, <1>6, <2>1 DEF BotInv, LastDecides
<1>15. QED
  BY <1>2, <1>7, <1>8, <1>10, <1>12, <1>14 DEF BotInv

\* SaveStatus.
LEMMA SaveStatusKept ==
  ASSUME BotInv, NEW m \in Messages, SaveStatus(m)
  PROVE  BotInv'
<1> USE BotBoundsAssumption
<1> DEFINE c == message[m].conv
           st == IF message[m].intent = "human_support" THEN "waiting_human"
                 ELSE "waiting_customer"
           r == Moved(message[m], "stored", c, message[m].place)
<1>1. /\ message[m] \in BotMessage /\ message[m].step = "inserted" /\ c \in Messages
      /\ UNCHANGED <<session, awaits, sentBot, inserted, missed>>
      /\ message \in [Messages -> BotMessage]
  BY DEF BotInv, BotTypes, Served, SaveStatus, BotMessage, Messages
<1>2. message' = [message EXCEPT ![m] = r] /\ r \in BotMessage
  <2>1. message' = WithStep(message, m, "stored")
    BY DEF SaveStatus, WithStep
  <2>2. PICK f \in [Messages -> BotMessage],
             s \in {"unsent", "sent", "resolved", "inserted", "stored", "dead"} :
             f = message /\ s = "stored"
    BY <1>1
  <2>3. WithStep(f, m, s) = [f EXCEPT ![m] = Moved(f[m], s, f[m].conv, f[m].place)]
    BY StepMoves
  <2>4. message' = [message EXCEPT ![m] = r]
    BY <2>1, <2>2, <2>3, Zenon
  <2>5. QED
    BY <1>1, <2>4 DEF Moved, BotMessage
<1>3. /\ r.step = "stored" /\ r.tab = message[m].tab /\ r.conv = c
      /\ r.place = message[m].place /\ r.intent = message[m].intent
  BY MovedFields
<1> HIDE DEF r
<1>4. message'[m] = r /\ \A n \in Messages : n # m => message'[n] = message[n]
  BY <1>2 DEF BotInv, BotTypes
<1>5. /\ conv' \in [Messages -> Conversation]
      /\ \A e \in Messages : e # c => conv'[e] = conv[e]
      /\ \A e \in Messages : conv'[e].shared = conv[e].shared
      /\ conv'[c].status = st
  <2>1. conv \in [Messages -> Conversation] /\ m \in 0..MaxMessages
    BY DEF BotInv, BotTypes, Messages
  <2>2. PICK e \in Conversation : e = conv[c]
    BY <1>1, <2>1
  <2>3. PICK f \in Conversation : f = [status |-> e.status, by |-> m, order |-> e.order,
                                      shared |-> e.shared]
    BY <2>1 DEF Conversation
  <2>4. PICK w \in {"waiting_human", "waiting_customer"} : w = st
    OBVIOUS
  <2>5. [e EXCEPT !.by = m] = f
    BY <2>3 DEF Conversation
  <2>6. /\ [f EXCEPT !.status = w] \in Conversation
        /\ [f EXCEPT !.status = w].shared = e.shared /\ [f EXCEPT !.status = w].status = w
    BY <2>3 DEF Conversation
  <2>7. [e EXCEPT !.by = m, !.status = w] = [[e EXCEPT !.by = m] EXCEPT !.status = w]
    BY Zenon DEF Conversation
  <2>8. [conv EXCEPT ![c].by = m, ![c].status = w]
          = [conv EXCEPT ![c] = [conv[c] EXCEPT !.by = m, !.status = w]]
    BY <1>1, <2>1
  <2>9. conv' = [conv EXCEPT ![c].by = m, ![c].status = st]
    BY DEF SaveStatus
  <2>10. conv' = [conv EXCEPT ![c] = [f EXCEPT !.status = w]]
    BY <2>2, <2>4, <2>5, <2>7, <2>8, <2>9, Zenon
  <2>11. QED
    BY <1>1, <2>1, <2>2, <2>4, <2>6, <2>10
<1>6. st # "none" /\ (st = "waiting_human" <=> message[m].intent = "human_support")
  OBVIOUS
<1> HIDE DEF st
<1>7. BotTypes'
  BY <1>1, <1>2, <1>5 DEF BotInv, BotTypes
<1>8. Served'
  <2>1. \A n \in Messages : n > sentBot' => message'[n].step = "unsent"
    BY <1>1, <1>3, <1>4, <1>5, <1>6 DEF BotInv, Served
  <2>2. ASSUME NEW n \in Messages
        PROVE  /\ message'[n].step = "unsent" => message'[n].conv = 0
               /\ message'[n].step \in {"unsent", "sent"} /\ message'[n].conv = 0
                    => conv'[n].status = "none"
               /\ message'[n].conv # 0 => conv'[message'[n].conv].status # "none"
               /\ message'[n].step \in {"resolved", "inserted", "stored"} => message'[n].conv # 0
    <3>1. message[n].conv \in 0..MaxMessages
      BY DEF BotInv, BotTypes, BotMessage
    <3>2. CASE n = m
      BY <1>1, <1>3, <1>4, <1>5, <1>6, <3>1, <3>2 DEF BotInv, Served, Messages
    <3>3. CASE n # m
      BY <1>1, <1>3, <1>4, <1>5, <1>6, <3>1, <3>3 DEF BotInv, Served, Messages
    <3>4. QED
      BY <3>2, <3>3
  <2>3. ASSUME NEW t \in BotTabs, session'[t] # 0
        PROVE  conv'[session'[t]].status # "none"
    <3>1. session[t] \in Messages /\ conv[session[t]].status # "none" /\ session' = session
      BY <1>1, <2>3 DEF BotInv, BotTypes, Served, Messages
    <3>2. QED
      BY <1>1, <1>3, <1>4, <1>5, <1>6, <3>1
  <2>4. QED
    BY <2>1, <2>2, <2>3 DEF Served
<1>10. Answered'
  <2>1. \A t \in BotTabs : awaits'[t] # 0 => message'[awaits'[t]].tab = t
    BY <1>1, <1>3, <1>4 DEF BotInv, BotTypes, Answered, Messages
  <2>2. ASSUME NEW t \in BotTabs \ missed', NEW n \in Messages,
               message'[n].tab = t, message'[n].step # "unsent"
        PROVE  IF n = awaits'[t] THEN session'[t] # 0 => message'[n].conv = session'[t]
               ELSE message'[n].step = "stored" /\ message'[n].conv = session'[t]
    <3>1. t \in BotTabs \ missed
      BY <1>1, <2>2
    <3>2. CASE n = m
      BY <1>1, <1>3, <1>4, <2>2, <3>1, <3>2 DEF BotInv, Answered
    <3>3. CASE n # m
      BY <1>1, <1>3, <1>4, <2>2, <3>1, <3>3 DEF BotInv, Answered
    <3>4. QED
      BY <3>2, <3>3
  <2>3. QED
    BY <2>1, <2>2 DEF Answered
<1>12. OneAtATime'
  <2>1. \A n \in Messages : message'[n].place <= inserted'
    BY <1>1, <1>3, <1>4 DEF BotInv, OneAtATime
  <2>2. ASSUME NEW k \in Messages, NEW n \in Messages,
               message'[k].step = "inserted", message'[n].step \in {"inserted", "stored"},
               k # n, message'[k].conv = message'[n].conv, ~conv'[message'[k].conv].shared
        PROVE  message'[n].step = "stored" /\ message'[n].place < message'[k].place
    <3>1. k # m /\ message'[k] = message[k]
      BY <1>3, <1>4, <2>2
    <3>2. message[k].conv \in Messages
      <4>1. message[k] \in BotMessage /\ message[k].conv # 0
        BY <2>2, <3>1 DEF BotInv, BotTypes, Served
      <4>2. QED
        BY <4>1 DEF BotMessage, Messages
    <3>3. CASE n = m
      BY <1>1, <1>3, <1>4, <1>5, <2>2, <3>1, <3>2, <3>3 DEF BotInv, OneAtATime
    <3>4. CASE n # m
      BY <1>1, <1>3, <1>4, <1>5, <2>2, <3>1, <3>2, <3>4 DEF BotInv, OneAtATime
    <3>5. QED
      BY <3>3, <3>4
  <2>3. QED
    BY <2>1, <2>2 DEF OneAtATime
<1>13. AllCounted'
  BY <1>1, <1>3, <1>4, Counted DEF ToInsert, BotInv, BotTypes
<1>14. LastDecides'
  <2> SUFFICES ASSUME NEW n \in Messages, message'[n].step = "stored",
                      ~conv'[message'[n].conv].shared
               PROVE  \/ \E k \in Messages :
                           /\ message'[k].step = "stored" /\ message'[k].conv = message'[n].conv
                           /\ message'[k].place > message'[n].place
                      \/ conv'[message'[n].conv].status = "waiting_human"
                           <=> message'[n].intent = "human_support"
    BY DEF LastDecides
  <2>1. CASE n = m
    BY <1>1, <1>3, <1>4, <1>5, <1>6, <2>1
  <2>2. CASE n # m
    <3>1. message'[n] = message[n] /\ message[n].step = "stored" /\ message[n] \in BotMessage
      BY <1>4, <2>2 DEF BotInv, BotTypes
    <3>2. message[n].conv \in Messages
      <4>1. message[n].conv # 0 /\ message[n].conv \in 0..MaxMessages
        BY <3>1 DEF Served, BotInv, BotMessage
      <4>2. QED
        BY <4>1 DEF Messages
    <3>3. ~conv[message[n].conv].shared
      BY <1>5, <3>1, <3>2
    <3>4. CASE message[n].conv = c
      <4>1. message[n].place < message[m].place
        BY <1>1, <2>2, <3>1, <3>3, <3>4 DEF BotInv, OneAtATime
      <4>2. QED
        BY <1>1, <1>3, <1>4, <3>1, <3>4, <4>1 DEF BotMessage
    <3>5. CASE message[n].conv # c
      <4>1. conv'[message[n].conv] = conv[message[n].conv]
        BY <1>5, <3>2, <3>5
      <4>2. \A k \in Messages : message[k].step = "stored" => message'[k] = message[k]
        BY <1>1, <1>4
      <4>3. QED
        BY <3>1, <3>3, <4>1, <4>2 DEF BotInv, LastDecides
    <3>6. QED
      BY <3>4, <3>5
  <2>3. QED
    BY <2>1, <2>2
<1>15. QED
  BY <1>7, <1>8, <1>10, <1>12, <1>13, <1>14 DEF BotInv

\* The worker dies.
LEMMA DiesKept ==
  ASSUME BotInv, NEW m \in Messages, BotDies(m)
  PROVE  BotInv'
<1> USE BotBoundsAssumption
<1> DEFINE r == Moved(message[m], "dead", message[m].conv, 0)
<1>1. /\ message[m] \in BotMessage /\ message[m].step \in {"sent", "resolved", "inserted"}
      /\ UNCHANGED <<session, awaits, sentBot, conv, inserted, missed>>
      /\ message \in [Messages -> BotMessage]
  BY DEF BotInv, BotTypes, BotDies
<1>2. message' = [message EXCEPT ![m] = r] /\ r \in BotMessage
  <2>1. message' = WithPlace(message, m, "dead", 0)
    BY DEF BotDies, WithPlace
  <2>2. PICK f \in [Messages -> BotMessage], x \in 0..MaxMessages,
             s \in {"unsent", "sent", "resolved", "inserted", "stored", "dead"} :
             f = message /\ s = "dead" /\ x = 0
    BY <1>1
  <2>3. WithPlace(f, m, s, x) = [f EXCEPT ![m] = Moved(f[m], s, f[m].conv, x)]
    BY MessageMoves
  <2>4. message' = [message EXCEPT ![m] = r]
    BY <2>1, <2>2, <2>3, Zenon
  <2>5. QED
    BY <1>1, <2>4 DEF Moved, BotMessage
<1>3. /\ r.step = "dead" /\ r.tab = message[m].tab /\ r.conv = message[m].conv
      /\ r.place = 0
  BY MovedFields
<1> HIDE DEF r
<1>4. message'[m] = r /\ \A n \in Messages : n # m => message'[n] = message[n]
  BY <1>2 DEF BotInv, BotTypes
<1>5. BotTypes'
  BY <1>1, <1>2 DEF BotInv, BotTypes
<1>6. Served'
  <2>1. \A n \in Messages : n > sentBot' => message'[n].step = "unsent"
    BY <1>1, <1>3, <1>4 DEF BotInv, Served
  <2>2. ASSUME NEW n \in Messages
        PROVE  /\ message'[n].step = "unsent" => message'[n].conv = 0
               /\ message'[n].step \in {"unsent", "sent"} /\ message'[n].conv = 0
                    => conv'[n].status = "none"
               /\ message'[n].conv # 0 => conv'[message'[n].conv].status # "none"
               /\ message'[n].step \in {"resolved", "inserted", "stored"} => message'[n].conv # 0
    <3>1. message[n].conv \in 0..MaxMessages
      BY DEF BotInv, BotTypes, BotMessage
    <3>2. CASE n = m
      BY <1>1, <1>3, <1>4, <3>1, <3>2 DEF BotInv, Served, Messages
    <3>3. CASE n # m
      BY <1>1, <1>3, <1>4, <3>1, <3>3 DEF BotInv, Served, Messages
    <3>4. QED
      BY <3>2, <3>3
  <2>3. ASSUME NEW t \in BotTabs, session'[t] # 0
        PROVE  conv'[session'[t]].status # "none"
    <3>1. session[t] \in Messages /\ conv[session[t]].status # "none" /\ session' = session
      BY <1>1, <2>3 DEF BotInv, BotTypes, Served, Messages
    <3>2. QED
      BY <1>1, <1>3, <1>4, <3>1
  <2>4. QED
    BY <2>1, <2>2, <2>3 DEF Served
<1>7. Answered'
  <2>1. \A t \in BotTabs : awaits'[t] # 0 => message'[awaits'[t]].tab = t
    BY <1>1, <1>3, <1>4 DEF BotInv, BotTypes, Answered, Messages
  <2>2. ASSUME NEW t \in BotTabs \ missed', NEW n \in Messages,
               message'[n].tab = t, message'[n].step # "unsent"
        PROVE  IF n = awaits'[t] THEN session'[t] # 0 => message'[n].conv = session'[t]
               ELSE message'[n].step = "stored" /\ message'[n].conv = session'[t]
    <3>1. t \in BotTabs \ missed
      BY <1>1, <2>2
    <3>2. CASE n = m
      BY <1>1, <1>3, <1>4, <2>2, <3>1, <3>2 DEF BotInv, Answered
    <3>3. CASE n # m
      BY <1>1, <1>3, <1>4, <2>2, <3>1, <3>3 DEF BotInv, Answered
    <3>4. QED
      BY <3>2, <3>3
  <2>3. QED
    BY <2>1, <2>2 DEF Answered
<1>8. OneAtATime'
  BY <1>1, <1>3, <1>4 DEF BotInv, BotTypes, OneAtATime
<1>9. AllCounted'
  BY <1>1, <1>3, <1>4, Counted DEF ToInsert, BotInv, BotTypes
<1>10. LastDecides'
  <2> SUFFICES ASSUME NEW n \in Messages, message'[n].step = "stored",
                      ~conv'[message'[n].conv].shared
               PROVE  \/ \E k \in Messages :
                           /\ message'[k].step = "stored" /\ message'[k].conv = message'[n].conv
                           /\ message'[k].place > message'[n].place
                      \/ conv'[message'[n].conv].status = "waiting_human"
                           <=> message'[n].intent = "human_support"
    BY DEF LastDecides
  <2>1. message'[n] = message[n] /\ conv' = conv
    BY <1>1, <1>3, <1>4
  <2>2. \A k \in Messages : message[k].step = "stored" => message'[k] = message[k]
    BY <1>1, <1>4
  <2>3. QED
    BY <2>1, <2>2 DEF BotInv, LastDecides
<1>11. QED
  BY <1>5, <1>6, <1>7, <1>8, <1>9, <1>10 DEF BotInv

\* The steps of a tab that leave the messages as they are.
LEMMA TabKept ==
  ASSUME BotInv, NEW t \in BotTabs,
         \/ AnswerArrives(t) \/ AnswerMissing(t)
         \/ \E o \in BotOrders : LinkOrder(t, o)
  PROVE  BotInv'
<1> USE BotBoundsAssumption
<1>1. CASE AnswerArrives(t)
  <2> DEFINE a == awaits[t]
             c == message[a].conv
  <2>1. /\ a \in Messages /\ message[a].step = "stored" /\ session' = [session EXCEPT ![t] = c]
        /\ awaits' = [awaits EXCEPT ![t] = 0] /\ UNCHANGED <<message, sentBot, conv, inserted, missed>>
    BY <1>1 DEF AnswerArrives, BotInv, BotTypes, Messages
  <2>2. c \in Messages /\ c \in 0..MaxMessages /\ conv[c].status # "none" /\ message[a].tab = t
    BY <2>1 DEF BotInv, BotTypes, BotMessage, Messages, Served, Answered
  <2> HIDE DEF a, c
  <2>3. /\ \A u \in BotTabs : session'[u] = IF u = t THEN c ELSE session[u]
        /\ \A u \in BotTabs : awaits'[u] = IF u = t THEN 0 ELSE awaits[u]
    BY <2>1 DEF BotInv, BotTypes
  <2>4. BotTypes'
    BY <2>1, <2>2 DEF BotInv, BotTypes
  <2>5. Served'
    BY <2>1, <2>2, <2>3 DEF BotInv, Served
  <2>6. Answered'
    <3>1. \A u \in BotTabs : awaits'[u] # 0 => message'[awaits'[u]].tab = u
      BY <2>1, <2>3 DEF BotInv, Answered
    <3>2. ASSUME NEW u \in BotTabs \ missed', NEW n \in Messages,
                 message'[n].tab = u, message'[n].step # "unsent"
          PROVE  IF n = awaits'[u] THEN session'[u] # 0 => message'[n].conv = session'[u]
                 ELSE message'[n].step = "stored" /\ message'[n].conv = session'[u]
      <4>1. CASE u # t
        BY <2>1, <2>3, <3>2, <4>1 DEF BotInv, Answered
      <4>2. CASE u = t /\ n = a
        BY <2>1, <2>3, <3>2, <4>2 DEF c, Messages
      <4>3. CASE u = t /\ n # a
        <5>1. message[n].step = "stored" /\ message[n].conv = session[t]
          BY <2>1, <3>2, <4>3 DEF BotInv, Answered, a
        <5>2. session[t] # 0
          BY <5>1 DEF BotInv, Served
        <5>3. c = session[t]
          BY <2>1, <2>2, <3>2, <4>3, <5>2 DEF BotInv, Answered, a, c
        <5>4. QED
          BY <2>1, <2>3, <3>2, <4>3, <5>1, <5>3 DEF Messages
      <4>4. QED
        BY <4>1, <4>2, <4>3
    <3>3. QED
      BY <3>1, <3>2 DEF Answered
  <2>7. OneAtATime' /\ AllCounted' /\ LastDecides'
    BY <2>1 DEF BotInv, OneAtATime, AllCounted, LastDecides, ToInsert
  <2>8. QED
    BY <2>4, <2>5, <2>6, <2>7 DEF BotInv
<1>2. CASE AnswerMissing(t)
  <2>1. /\ awaits' = [awaits EXCEPT ![t] = 0] /\ missed' = missed \cup {t}
        /\ UNCHANGED <<session, message, sentBot, conv, inserted>>
    BY <1>2 DEF AnswerMissing
  <2>2. BotTypes'
    BY <2>1 DEF BotInv, BotTypes
  <2>3. Answered'
    BY <2>1 DEF BotInv, BotTypes, Answered
  <2>4. Served' /\ OneAtATime' /\ AllCounted' /\ LastDecides'
    BY <2>1 DEF BotInv, Served, OneAtATime, AllCounted, LastDecides, ToInsert
  <2>5. QED
    BY <2>2, <2>3, <2>4 DEF BotInv
<1>3. CASE \E o \in BotOrders : LinkOrder(t, o)
  <2>1. PICK o \in BotOrders : LinkOrder(t, o)
    BY <1>3
  <2> DEFINE c == session[t]
  <2>2. /\ c \in Messages /\ conv' = [conv EXCEPT ![c].order = o]
        /\ UNCHANGED <<session, awaits, message, sentBot, inserted, missed>>
    BY <2>1 DEF LinkOrder, BotInv, BotTypes, Messages
  <2>3. PICK e \in Conversation : e = conv[c]
    BY <2>2 DEF BotInv, BotTypes
  <2>4. /\ [e EXCEPT !.order = o] \in Conversation
        /\ [e EXCEPT !.order = o].status = e.status /\ [e EXCEPT !.order = o].shared = e.shared
    BY DEF Conversation
  <2>5. /\ conv' \in [Messages -> Conversation]
        /\ \A d \in Messages : conv'[d].status = conv[d].status /\ conv'[d].shared = conv[d].shared
    BY <2>2, <2>3, <2>4 DEF BotInv, BotTypes
  <2>6. BotTypes'
    BY <2>2, <2>5 DEF BotInv, BotTypes
  <2>7. \A n \in Messages : message[n].conv # 0 => message[n].conv \in Messages
    BY DEF BotInv, BotTypes, BotMessage, Messages
  <2>8. \A u \in BotTabs : session[u] # 0 => session[u] \in Messages
    BY DEF BotInv, BotTypes, Messages
  <2>9. Served'
    BY <2>2, <2>5, <2>7, <2>8 DEF BotInv, Served
  <2>10. Answered' /\ AllCounted'
    BY <2>2 DEF BotInv, Answered, AllCounted, ToInsert
  <2>11. \A n \in Messages : message[n].step \in {"inserted", "stored"} => message[n].conv \in Messages
    BY <2>7 DEF BotInv, Served
  <2>12. OneAtATime'
    BY <2>2, <2>5, <2>11 DEF BotInv, OneAtATime
  <2>13. LastDecides'
    BY <2>2, <2>5, <2>11 DEF BotInv, LastDecides
  <2>14. QED
    BY <2>6, <2>9, <2>10, <2>12, <2>13 DEF BotInv
<1>4. QED
  BY <1>1, <1>2, <1>3

\* The invariant of every reachable state.
LEMMA BotInvariance == BotSpec => []BotInv
<1>1. BotInit => BotInv
  BY BotInvInit
<1>2. BotInv /\ [BotNext]_botVars => BotInv'
  <2> SUFFICES ASSUME BotInv, [BotNext]_botVars PROVE BotInv'
    OBVIOUS
  <2>1. CASE BotNext
    BY <2>1, SendKept, ResolveKept, InsertKept, SaveStatusKept, DiesKept, TabKept DEF BotNext
  <2>2. CASE UNCHANGED botVars
    BY <2>2 DEF botVars, BotInv, BotTypes, Served, Answered, OneAtATime, AllCounted, ToInsert,
       LastDecides
  <2>3. QED
    BY <2>1, <2>2
<1>3. QED
  BY <1>1, <1>2, PTL DEF BotSpec

\* Sessions, messages and conversations have their types (BotMessageView).
THEOREM BotTypesHold == BotSpec => []BotTypeOK
<1>1. BotInv => BotTypeOK
  <2> SUFFICES ASSUME BotInv PROVE BotTypeOK
    OBVIOUS
  <2>1. inserted \in 0..sentBot
    <3>1. ToInsert \in SUBSET Messages
      BY DEF ToInsert
    <3>2. Cardinality(ToInsert) \in Nat
      BY <3>1, MessagesAreFinite
    <3>3. QED
      BY <3>2, BotBoundsAssumption DEF BotInv, AllCounted, BotTypes
  <2>2. session \in [BotTabs -> {0} \cup {c \in Messages : conv[c] # NoConv}]
    <3>1. NoConv.status = "none"
      BY DEF NoConv
    <3>2. \A t \in BotTabs : session[t] # 0 => session[t] \in Messages /\ conv[session[t]] # NoConv
      BY <3>1 DEF BotInv, BotTypes, Served, Messages
    <3>3. QED
      BY <3>2 DEF BotInv, BotTypes
  <2>3. QED
    BY <2>1, <2>2 DEF BotInv, BotTypes, BotTypeOK, BotMessage, Conversation
<1>2. QED
  BY <1>1, BotInvariance, PTL

\* A tab that has had every answer has said everything in one conversation
\* (_resolve_conversation finds what the session of the tab names).
THEOREM ConversationOfTab == BotSpec => []OneConversationPerTab
<1>1. BotInv => OneConversationPerTab
  <2> SUFFICES ASSUME BotInv, NEW t \in BotTabs \ missed
               PROVE  Cardinality({message[m].conv :
                        m \in {n \in Messages : message[n].tab = t}} \ {0}) <= 1
    BY DEF OneConversationPerTab
  <2> DEFINE S == {message[m].conv : m \in {n \in Messages : message[n].tab = t}} \ {0}
  <2>1. ASSUME NEW m \in Messages, NEW n \in Messages, message[m].tab = t, message[n].tab = t,
               message[m].conv # 0, message[n].conv # 0
        PROVE  message[m].conv = message[n].conv
    <3>1. message[m].step # "unsent" /\ message[n].step # "unsent"
      BY <2>1 DEF BotInv, Served
    <3>2. QED
      BY <2>1, <3>1 DEF BotInv, Answered
  <2>2. CASE S = {}
    BY <2>2, FS_EmptySet
  <2>3. CASE S # {}
    <3>1. PICK x \in S : TRUE
      BY <2>3
    <3>2. S = {x}
      BY <2>1, <3>1
    <3>3. Cardinality(S) = 1
      BY ONLY <3>2, FS_Singleton
    <3>4. QED
      BY <3>3
  <2>4. QED
    BY <2>2, <2>3
<1>2. QED
  BY <1>1, BotInvariance, PTL

\* A customer who asks for a person last is waiting for one, in a conversation
\* whose messages were served one at a time (BotMessageView.post).
THEOREM LastMessageDecides == BotSpec => []StatusIsOfLastMessage
<1>1. BotInv => StatusIsOfLastMessage
  BY DEF BotInv, LastDecides, StatusIsOfLastMessage
<1>2. QED
  BY <1>1, BotInvariance, PTL
=============================================================================
