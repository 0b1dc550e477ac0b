------------------------------ MODULE Checkout ------------------------------
(***************************************************************************)
(* The storefront checkout and its retries: the tabs of one customer's     *)
(* browser post a cart with an idempotency key kept in localStorage        *)
(* (order.service.ts), and CheckoutWhatsAppView places at most one order   *)
(* per key.                                                                *)
(*                                                                         *)
(* A request looks its key up, reads the commerce settings, and places the *)
(* order in one transaction; a transaction that fails looks the key up     *)
(* again.  Other requests of the key run in between, the merchant changes  *)
(* the settings, the customer signs in, a tab stops waiting while its      *)
(* request goes on, an answer is lost.  The access token of a signed-in    *)
(* customer may have expired: the view is then not reached, and the HTTP   *)
(* client (api.ts) refreshes the token and posts the same request again.   *)
(* What stays abstract is the cart (its fingerprint) and the stock: an     *)
(* order takes one unit.                                                   *)
(***************************************************************************)
EXTENDS Naturals, FiniteSets

CONSTANTS
  Tabs,         \* tabs of the browser on the same storefront
  Carts,        \* what a tab may have in its cart, customer data included
  MaxRequests,  \* bound: requests sent
  Stock         \* orders the stock allows

ASSUME CheckoutBoundsAssumption == MaxRequests \in Nat /\ Stock \in Nat
ASSUME CartsAssumption == Carts # {}

VARIABLES
  slot,      \* localStorage: the key of the last cart posted, if kept
  account,   \* whether each tab holds the token of a customer with a profile
  tab,       \* what each tab does
  call,      \* where the post of each tab is: sent, awaiting a token, sent again
  tries,     \* history: the keys a tab has sent its present cart with
  request,   \* the requests, in the order sent
  sent,      \* how many were sent
  keys,      \* how many keys were made
  orders,    \* the SaleOrder rows: key and payload
  left,      \* units left in stock
  settings   \* StoreCommerceSettings: "open", "closed" or "minimum" not met

browser == <<slot, account, tab, call, tries>>
server == <<request, orders, left>>
checkoutVars == <<browser, server, sent, keys, settings>>

Requests == 1..MaxRequests
NoKey == [cart |-> "none", key |-> 0]
Settings == {"open", "closed", "minimum"}
Confirmed == {"placed", "replayed"}
Answers == Confirmed \cup {"conflict", "rejected", "refused", "unauthorized"}
\* What _build_idempotency_payload_hash tells apart: the cart, and whether a
\* profile or a guest sends it.
Payload == [cart : Carts, account : BOOLEAN]
Steps == {"unsent", "arrived", "missed", "allowed", "failed", "dead"} \cup Answers

CheckoutTypeOK ==
  /\ slot \in [cart : Carts, key : 1..MaxRequests] \cup {NoKey}
  /\ account \in [Tabs -> BOOLEAN]
  /\ tab \in [Tabs -> [cart : Carts, on : {0} \cup Requests]]
  /\ call \in [Tabs -> {"post", "refresh", "replay"}]
  /\ tries \in [Tabs -> SUBSET (1..MaxRequests)]
  /\ request \in [Requests -> [step : Steps, key : 0..MaxRequests,
                               payload : Payload, rules : Settings]]
  /\ sent \in 0..MaxRequests
  /\ keys \in 0..sent
  /\ orders \subseteq [key : 1..MaxRequests, payload : Payload]
  /\ left \in 0..Stock
  /\ settings \in Settings

CheckoutInit ==
  /\ slot = NoKey
  /\ account = [t \in Tabs |-> FALSE]
  /\ tab \in [Tabs -> [cart : Carts, on : {0}]]
  /\ call = [t \in Tabs |-> "post"]
  /\ tries = [t \in Tabs |-> {}]
  /\ request = [i \in Requests |->
       [step |-> "unsent", key |-> 0, rules |-> "open",
        payload |-> [cart |-> CHOOSE c \in Carts : TRUE, account |-> FALSE]]]
  /\ sent = 0
  /\ keys = 0
  /\ orders = {}
  /\ left = Stock
  /\ settings = "open"
-----------------------------------------------------------------------------
Waiting(t) == tab[t].on # 0

\* Mutated form: every post makes a new key.
FreshKey(c) == keys + 1

\* getCheckoutIdempotencyKey: the kept key if it was made for this cart.
KeyFor(c) == IF slot.cart = c /\ slot # NoKey THEN slot.key ELSE keys + 1

\* checkoutViaWhatsApp: the key is stored, then the cart is posted with it.
Submit(t) ==
  LET c == tab[t].cart
      k == KeyFor(c)
  IN /\ ~Waiting(t) /\ sent < MaxRequests
     /\ slot' = [cart |-> c, key |-> k]
     /\ keys' = IF k > keys THEN k ELSE keys
     /\ sent' = sent + 1
     /\ request' = [request EXCEPT ![sent + 1] =
          [step |-> "arrived", key |-> k, rules |-> "open",
           payload |-> [cart |-> c, account |-> account[t]]]]
     /\ tab' = [tab EXCEPT ![t].on = sent + 1]
     /\ call' = [call EXCEPT ![t] = "post"]
     /\ tries' = [tries EXCEPT ![t] = @ \cup {k}]
     /\ UNCHANGED <<account, orders, left, settings>>

\* A confirmed order: the key is forgotten if it is still that of this cart,
\* and the tab starts on a new cart.
Confirm(t, c) ==
  /\ Waiting(t) /\ call[t] # "refresh"
  /\ request[tab[t].on].step \in Confirmed
  /\ slot' = IF slot.cart = tab[t].cart THEN NoKey ELSE slot
  /\ tab' = [tab EXCEPT ![t] = [cart |-> c, on |-> 0]]
  /\ tries' = [tries EXCEPT ![t] = {}]
  /\ UNCHANGED <<account, call, server, sent, keys, settings>>

\* An error answer, a second 401 or one met while another request signs the
\* tab out included: the cart and the key stay for a retry.
Fail(t) ==
  /\ Waiting(t) /\ call[t] # "refresh"
  /\ request[tab[t].on].step \in Answers \ Confirmed
  /\ tab' = [tab EXCEPT ![t].on = 0]
  /\ UNCHANGED <<slot, account, call, tries, server, sent, keys, settings>>

\* The 15 s limit of the HTTP client, or a lost connection: the tab fails as
\* it does on an error, and the server does not notice.
TimesOut(t) ==
  /\ Waiting(t) /\ call[t] # "refresh"
  /\ tab' = [tab EXCEPT ![t].on = 0]
  /\ UNCHANGED <<slot, account, call, tries, server, sent, keys, settings>>

\* Mutated form: the post is not marked as tried again.
RefreshUnmarked(t) ==
  /\ Waiting(t) /\ call[t] # "refresh"
  /\ request[tab[t].on].step = "unauthorized"
  /\ call' = [call EXCEPT ![t] = "refresh"]
  /\ UNCHANGED <<slot, account, tab, tries, server, sent, keys, settings>>

\* The first 401 of a post: it is marked as tried again (_retry), and a new
\* access token is asked for, without a time limit.
RefreshToken(t) ==
  /\ Waiting(t) /\ call[t] = "post"
  /\ request[tab[t].on].step = "unauthorized"
  /\ call' = [call EXCEPT ![t] = "refresh"]
  /\ UNCHANGED <<slot, account, tab, tries, server, sent, keys, settings>>

\* The token is there: the same post, its key and its payload, goes out again.
Replay(t) ==
  /\ call[t] = "refresh"
  /\ call' = [call EXCEPT ![t] = "replay"]
  /\ request' = [request EXCEPT ![tab[t].on].step = "arrived"]
  /\ UNCHANGED <<slot, account, tab, tries, orders, left, sent, keys, settings>>

\* There is none: handleAuthFailure signs the tab out, and the post fails.
RefreshFails(t) ==
  /\ call[t] = "refresh"
  /\ call' = [call EXCEPT ![t] = "post"]
  /\ account' = [account EXCEPT ![t] = FALSE]
  /\ tab' = [tab EXCEPT ![t].on = 0]
  /\ UNCHANGED <<slot, tries, server, sent, keys, settings>>

\* The customer changes the cart between two attempts: a new purchase.
ChangeCart(t, c) ==
  /\ ~Waiting(t) /\ c # tab[t].cart
  /\ tab' = [tab EXCEPT ![t].cart = c]
  /\ tries' = [tries EXCEPT ![t] = {}]
  /\ UNCHANGED <<slot, account, call, server, sent, keys, settings>>

\* The customer signs in with a profile of this store.
SignIn(t) ==
  /\ ~account[t]
  /\ account' = [account EXCEPT ![t] = TRUE]
  /\ UNCHANGED <<slot, tab, call, tries, server, sent, keys, settings>>

\* The merchant changes the commerce settings.
ChangeSettings(s) ==
  /\ settings' = s /\ s # settings
  /\ UNCHANGED <<browser, server, sent, keys>>
-----------------------------------------------------------------------------
Found(i) == {o \in orders : o.key = request[i].key}

\* The request `i` goes on to, or is answered with, `s`.
Goes(i, s) == request' = [request EXCEPT ![i].step = s]

\* _idempotent_response_or_conflict, when the key has an order.
AnswerFromOrder(i) ==
  \E o \in Found(i) :
    Goes(i, IF o.payload = request[i].payload THEN "replayed" ELSE "conflict")

Unplaced == UNCHANGED <<browser, sent, keys, orders, left, settings>>

\* The access token has expired: JWTAuthentication answers before the view.
Unauthenticated(i) ==
  /\ request[i].step = "arrived" /\ request[i].payload.account
  /\ Goes(i, "unauthorized")
  /\ Unplaced

\* The lookup before anything else in the view.
Lookup(i) ==
  /\ request[i].step = "arrived"
  /\ AnswerFromOrder(i) \/ (Found(i) = {} /\ Goes(i, "missed"))
  /\ Unplaced

\* get_for_store and _check_commerce_rules: the settings read here are those
\* the request goes by to its end.
CheckRules(i) ==
  /\ request[i].step = "missed"
  /\ request' = [request EXCEPT ![i] =
       [step |-> IF settings = "closed" THEN "rejected" ELSE "allowed",
        key |-> @.key, payload |-> @.payload, rules |-> settings]]
  /\ Unplaced

\* Mutated form: neither the stock nor the unique key is checked here.
PlaceUnchecked(i) ==
  /\ request[i].step = "allowed"
  /\ request[i].rules = "open"
  /\ orders' = orders \cup {[key |-> request[i].key, payload |-> request[i].payload]}
  /\ left' = left - 1
  /\ Goes(i, "placed")
  /\ UNCHANGED <<browser, sent, keys, settings>>

\* The transaction: stock is reserved, the minimum value is met, and the
\* unique constraint on the key lets the order in.
Place(i) ==
  /\ request[i].step = "allowed"
  /\ left > 0 /\ request[i].rules = "open" /\ Found(i) = {}
  /\ orders' = orders \cup {[key |-> request[i].key, payload |-> request[i].payload]}
  /\ left' = left - 1
  /\ Goes(i, "placed")
  /\ UNCHANGED <<browser, sent, keys, settings>>

\* Mutated form: the stock stays reserved when the order is not let in.
KeepReservation(i) ==
  /\ request[i].step = "allowed"
  /\ IF left = 0 THEN Goes(i, "failed")
     ELSE IF request[i].rules = "minimum" THEN Goes(i, "rejected")
     ELSE Found(i) # {} /\ Goes(i, "failed")
  /\ left' = IF left > 0 THEN left - 1 ELSE left
  /\ UNCHANGED <<browser, sent, keys, orders, settings>>

\* The transaction rolls back: no stock, too low a value, or a key that
\* another request has placed meanwhile, in this order.
RollBack(i) ==
  /\ request[i].step = "allowed"
  /\ IF left = 0 THEN Goes(i, "failed")
     ELSE IF request[i].rules = "minimum" THEN Goes(i, "rejected")
     ELSE Found(i) # {} /\ Goes(i, "failed")
  /\ Unplaced

\* Mutated form: a failed transaction is reported as it is.
RaiseAtOnce(i) ==
  /\ request[i].step = "failed"
  /\ Goes(i, "refused")
  /\ Unplaced

\* A validation or integrity error: the key is looked up once more.
LookupAgain(i) ==
  /\ request[i].step = "failed"
  /\ AnswerFromOrder(i) \/ (Found(i) = {} /\ Goes(i, "refused"))
  /\ Unplaced

\* The worker dies before it answers.
Dies(i) ==
  /\ request[i].step \notin Answers \cup {"unsent", "dead"}
  /\ Goes(i, "dead")
  /\ Unplaced

Serve(i) ==
  \/ Unauthenticated(i) \/ Lookup(i) \/ CheckRules(i)
  \/ Place(i) \/ RollBack(i) \/ LookupAgain(i)
-----------------------------------------------------------------------------
Customer(t) ==
  \/ Submit(t) \/ Fail(t) \/ TimesOut(t) \/ SignIn(t)
  \/ RefreshToken(t) \/ Replay(t) \/ RefreshFails(t)
  \/ \E c \in Carts : Confirm(t, c) \/ ChangeCart(t, c)

CheckoutNext ==
  \/ \E t \in Tabs : Customer(t)
  \/ \E s \in Settings : ChangeSettings(s)
  \/ \E i \in Requests : Serve(i) \/ Dies(i)

\* A post does not wait longer than its time limit, whatever the server does,
\* and the call for a new token is answered or its connection breaks.
CheckoutFairness ==
  \A t \in Tabs : /\ WF_checkoutVars(TimesOut(t))
                 /\ WF_checkoutVars(Replay(t) \/ RefreshFails(t))

CheckoutSpec == CheckoutInit /\ [][CheckoutNext]_checkoutVars /\ CheckoutFairness
-----------------------------------------------------------------------------
\* A customer who tries a cart again, because the answer was lost, the tab
\* gave up, the store closed or they signed in, never buys it twice
\* (order.service.ts keeps the key until an order is confirmed).
OneOrderPerPurchase ==
  \A t \in Tabs : Cardinality({o \in orders : o.key \in tries[t]}) <= 1

\* Concurrent requests of one key: one is told it placed the order, and all
\* that are told of an order are told of theirs.
ConfirmedIsReal ==
  \A i \in Requests :
    /\ request[i].step \in Confirmed =>
         [key |-> request[i].key, payload |-> request[i].payload] \in orders
    /\ \A j \in Requests \ {i} :
         request[i].step = "placed" /\ request[j].step = "placed"
           => request[i].key # request[j].key

\* Rejected, refused, repeated and interrupted attempts leave no unit
\* reserved (the rollback of _reserve_cart_stock).
NothingStaysReserved == left + Cardinality(orders) = Stock

\* A request is refused for want of stock, or for its key, only while its
\* purchase has no order: when two requests compete for the last unit, the
\* one that comes second reports the order of the first.
RefusedHasNoOrder ==
  [][\A i \in Requests :
       request'[i].step = "refused" /\ request[i].step # "refused"
         => Found(i) = {}]_checkoutVars

\* No attempt leaves the submit button disabled for good (handleSubmitOrder's
\* finally), however often its 401s, refreshes and posts follow each other:
\* the interceptor of api.ts refreshes once for each attempt.
AttemptsEnd == \A t \in Tabs : Waiting(t) ~> ~Waiting(t)
=============================================================================
