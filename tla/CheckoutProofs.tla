--------------------------- MODULE CheckoutProofs ---------------------------
(***************************************************************************)
(* What the checkout keeps for any carts, any number of requests and tabs, *)
(* and any stock: confirmed orders are there, one request at most placed   *)
(* each key, and no unit is lost.  A purchase made in one tab is placed    *)
(* once; tabs that share the key slot are left out by an assumption, since *)
(* two of them can take the slot from one another.                         *)
(*                                                                         *)
(* The argument: the unique key makes the orders of one key one order, and *)
(* as long as a tab goes on trying its cart, the slot holds the only key   *)
(* it has tried it with.                                                   *)
(***************************************************************************)
EXTENDS Checkout, FiniteSetTheorems, TLAPS

Request == [step : Steps, key : 0..MaxRequests, payload : Payload, rules : Settings]
Order == [key : 1..MaxRequests, payload : Payload]

ServerInv ==
  /\ request \in [Requests -> Request]
  /\ \A i \in Requests : request[i].step # "unsent" => request[i].key # 0
  /\ orders \subseteq Order /\ IsFiniteSet(orders)
  /\ \A o, p \in orders : o.key = p.key => o = p
  /\ left \in 0..Stock /\ NothingStaysReserved
  /\ ConfirmedIsReal

BrowserInv ==
  /\ slot \in [cart : Carts, key : 1..MaxRequests] \cup {NoKey}
  /\ account \in [Tabs -> BOOLEAN]
  /\ tab \in [Tabs -> [cart : Carts, on : {0} \cup Requests]]
  /\ call \in [Tabs -> {"post", "refresh", "replay"}]
  /\ tries \in [Tabs -> SUBSET (1..MaxRequests)]
  /\ sent \in 0..MaxRequests /\ keys \in 0..sent /\ slot.key <= keys
  /\ settings \in Settings

\* A tab waits for a request it has sent, and for a token only while it waits.
WaitingInv ==
  /\ \A t \in Tabs : Waiting(t) => request[tab[t].on].step # "unsent"
  /\ \A t \in Tabs : call[t] = "refresh" => Waiting(t)

CheckoutInv == ServerInv /\ BrowserInv /\ WaitingInv

\* A request that was sent stays sent.
SentStays ==
  \A i \in Requests : request[i].step # "unsent" => request'[i].step # "unsent"

\* The key of a purchase that is being tried is the one that is kept.
KeyIsKept ==
  \A t \in Tabs :
    tries[t] # {} => /\ slot # NoKey /\ slot.cart = tab[t].cart
                     /\ tries[t] = {slot.key}

LEMMA InitEstablishes == CheckoutInit => CheckoutInv /\ KeyIsKept
<1> SUFFICES ASSUME CheckoutInit PROVE CheckoutInv /\ KeyIsKept
  OBVIOUS
<1> USE CheckoutBoundsAssumption
<1>1. request \in [Requests -> Request]
  <2>1. (CHOOSE c \in Carts : TRUE) \in Carts
    BY CartsAssumption
  <2>2. QED
    BY <2>1 DEF CheckoutInit, Request, Payload, Steps, Settings
<1>2. \A i \in Requests : request[i].step = "unsent"
  BY DEF CheckoutInit
<1>3. IsFiniteSet(orders) /\ Cardinality(orders) = 0 /\ orders = {}
  BY FS_EmptySet DEF CheckoutInit
<1>4. left = Stock /\ left \in 0..Stock
  BY DEF CheckoutInit
<1>5. ConfirmedIsReal
  BY <1>2 DEF ConfirmedIsReal, Confirmed
<1>6. ServerInv
  BY <1>1, <1>2, <1>3, <1>4, <1>5 DEF ServerInv, NothingStaysReserved
<1>7. BrowserInv
  <2>1. slot = NoKey /\ slot.key = 0 /\ keys = 0 /\ sent = 0
    BY DEF CheckoutInit, NoKey
  <2>2. tab \in [Tabs -> [cart : Carts, on : {0} \cup Requests]]
    BY DEF CheckoutInit
  <2>3. tries \in [Tabs -> SUBSET (1..MaxRequests)]
    BY DEF CheckoutInit
  <2>4. /\ account \in [Tabs -> BOOLEAN] /\ settings \in Settings
        /\ call \in [Tabs -> {"post", "refresh", "replay"}]
    BY DEF CheckoutInit, Settings
  <2>5. QED
    BY <2>1, <2>2, <2>3, <2>4 DEF BrowserInv
<1>8. KeyIsKept
  BY DEF CheckoutInit, KeyIsKept
<1>9. WaitingInv
  BY DEF CheckoutInit, WaitingInv, Waiting
<1>10. QED
  BY <1>6, <1>7, <1>8, <1>9 DEF CheckoutInv
-----------------------------------------------------------------------------
\* A request that goes on keeps its key and its payload.
LEMMA GoesWrites ==
  ASSUME request \in [Requests -> Request], NEW i \in Requests,
         NEW s \in Steps, Goes(i, s)
  PROVE  /\ request' \in [Requests -> Request]
         /\ \A j \in Requests : j # i => request'[j] = request[j]
         /\ request'[i].step = s /\ request'[i].key = request[i].key
         /\ request'[i].payload = request[i].payload
<1> DEFINE n == [step |-> s, key |-> request[i].key, payload |-> request[i].payload,
                 rules |-> request[i].rules]
<1>1. request' = [request EXCEPT ![i] = [request[i] EXCEPT !.step = s]]
  BY DEF Goes
<1>2. [request[i] EXCEPT !.step = s] = n
  <2>1. PICK q \in Request : q = request[i]
    OBVIOUS
  <2>2. QED
    BY <2>1 DEF Request
<1>3. n \in Request
  BY DEF Request
<1>4. n.step = s /\ n.key = request[i].key /\ n.payload = request[i].payload
  OBVIOUS
<1> HIDE DEF n
<1>5. QED
  BY <1>1, <1>2, <1>3, <1>4

\* The steps of the server that place nothing: one request goes on, and is
\* told of an order only if that is there.
LEMMA ServerKept ==
  ASSUME ServerInv, NEW i \in Requests, UNCHANGED <<orders, left>>,
         request' \in [Requests -> Request],
         \A j \in Requests : j # i => request'[j] = request[j],
         request[i].step # "unsent", request'[i].step # "placed",
         request'[i].key = request[i].key, request'[i].payload = request[i].payload,
         request'[i].step = "replayed" =>
           \E o \in Found(i) : o.payload = request[i].payload
  PROVE  ServerInv'
<1>1. \A j \in Requests : request'[j].step # "unsent" => request'[j].key # 0
  BY DEF ServerInv
<1>2. ConfirmedIsReal'
  <2>1. ASSUME NEW j \in Requests, request'[j].step \in Confirmed
        PROVE  [key |-> request'[j].key, payload |-> request'[j].payload] \in orders
    <3>1. CASE j = i
      <4>1. PICK o \in orders : o.key = request[i].key /\ o.payload = request[i].payload
        BY <2>1, <3>1 DEF Found, Confirmed
      <4>2. o = [key |-> request[i].key, payload |-> request[i].payload]
        BY <4>1 DEF ServerInv, Order
      <4>3. QED
        BY <3>1, <4>1, <4>2
    <3>2. CASE j # i
      BY <2>1, <3>2 DEF ServerInv, ConfirmedIsReal
    <3>3. QED
      BY <3>1, <3>2
  <2>2. ASSUME NEW j \in Requests, NEW k \in Requests \ {j},
               request'[j].step = "placed", request'[k].step = "placed"
        PROVE  request'[j].key # request'[k].key
    <3>1. j # i /\ k # i
      BY <2>2
    <3>2. QED
      BY <2>2, <3>1 DEF ServerInv, ConfirmedIsReal
  <2>3. QED
    BY <2>1, <2>2 DEF ConfirmedIsReal
<1>3. QED
  BY <1>1, <1>2 DEF ServerInv, NothingStaysReserved

\* Placing an order takes a unit and a key that no other request has placed.
LEMMA PlaceKept ==
  ASSUME ServerInv, NEW i \in Requests, Place(i)
  PROVE  ServerInv'
<1> DEFINE o == [key |-> request[i].key, payload |-> request[i].payload]
<1> USE CheckoutBoundsAssumption
<1>1. /\ request[i].step = "allowed" /\ left > 0 /\ Found(i) = {}
      /\ orders' = orders \cup {o} /\ left' = left - 1 /\ Goes(i, "placed")
  BY DEF Place
<1>2. /\ request' \in [Requests -> Request]
      /\ \A j \in Requests : j # i => request'[j] = request[j]
      /\ request'[i].step = "placed" /\ request'[i].key = request[i].key
      /\ request'[i].payload = request[i].payload
  <2>1. "placed" \in Steps /\ request \in [Requests -> Request]
    BY DEF Steps, Answers, Confirmed, ServerInv
  <2>2. QED
    BY <1>1, <2>1, GoesWrites
<1>3. o \in Order /\ o.key = request[i].key
  <2>1. request[i] \in Request /\ request[i].key # 0
    BY <1>1 DEF ServerInv
  <2>2. QED
    BY <2>1 DEF Request, Order
<1>4. \A p \in orders : p.key # o.key
  BY <1>1, <1>3 DEF Found
<1> HIDE DEF o
<1>5. orders' \subseteq Order /\ \A p, q \in orders' : p.key = q.key => p = q
  BY <1>1, <1>3, <1>4 DEF ServerInv
<1>6. IsFiniteSet(orders') /\ Cardinality(orders') = Cardinality(orders) + 1
  <2>1. o \notin orders
    BY <1>4
  <2>2. IsFiniteSet(orders)
    BY DEF ServerInv
  <2>3. QED
    BY <1>1, <2>1, <2>2, FS_AddElement
<1>7. left' \in 0..Stock /\ NothingStaysReserved'
  <2>1. left \in 0..Stock /\ left + Cardinality(orders) = Stock
    BY DEF ServerInv, NothingStaysReserved
  <2>2. Cardinality(orders) \in Nat
    BY FS_CardinalityType DEF ServerInv
  <2>3. left' + Cardinality(orders') = Stock /\ left' \in 0..Stock
    BY <1>1, <1>6, <2>1, <2>2
  <2>4. QED
    BY <2>3 DEF NothingStaysReserved
<1>8. ConfirmedIsReal'
  <2>1. ASSUME NEW j \in Requests, request'[j].step \in Confirmed
        PROVE  [key |-> request'[j].key, payload |-> request'[j].payload] \in orders'
    BY <1>1, <1>2, <2>1 DEF o, ServerInv, ConfirmedIsReal
  <2>2. ASSUME NEW j \in Requests, j # i, request'[j].step = "placed"
        PROVE  request'[j].key # request[i].key
    <3>1. [key |-> request[j].key, payload |-> request[j].payload] \in orders
      BY <1>2, <2>2 DEF ServerInv, ConfirmedIsReal, Confirmed
    <3>2. QED
      BY <1>2, <1>3, <1>4, <2>2, <3>1
  <2>3. ASSUME NEW j \in Requests, NEW k \in Requests \ {j},
               request'[j].step = "placed", request'[k].step = "placed"
        PROVE  request'[j].key # request'[k].key
    <3>1. CASE j = i
      BY <1>2, <2>2, <2>3, <3>1
    <3>2. CASE k = i
      BY <1>2, <2>2, <2>3, <3>2
    <3>3. CASE j # i /\ k # i
      BY <1>2, <2>3, <3>3 DEF ServerInv, ConfirmedIsReal
    <3>4. QED
      BY <3>1, <3>2, <3>3
  <2>4. QED
    BY <2>1, <2>3 DEF ConfirmedIsReal
<1>9. \A j \in Requests : request'[j].step # "unsent" => request'[j].key # 0
  BY <1>1, <1>2 DEF ServerInv
<1>10. QED
  BY <1>2, <1>5, <1>6, <1>7, <1>8, <1>9 DEF ServerInv

\* The requests of the server, whatever they come to.
LEMMA ServeKept ==
  ASSUME ServerInv, settings \in Settings, NEW i \in Requests, Serve(i) \/ Dies(i)
  PROVE  ServerInv' /\ SentStays
<1>0. request \in [Requests -> Request]
  BY DEF ServerInv
<1>1. ASSUME NEW s \in Steps, Goes(i, s), s # "placed", Unplaced,
             request[i].step # "unsent",
             s # "unsent",
             s = "replayed" => \E o \in Found(i) : o.payload = request[i].payload
      PROVE  ServerInv' /\ SentStays
  <2>1. /\ request' \in [Requests -> Request]
        /\ \A j \in Requests : j # i => request'[j] = request[j]
        /\ request'[i].step = s /\ request'[i].key = request[i].key
        /\ request'[i].payload = request[i].payload
    BY <1>0, <1>1, GoesWrites
  <2>2. UNCHANGED <<orders, left>>
    BY <1>1 DEF Unplaced
  <2>3. SentStays
    BY <1>1, <2>1 DEF SentStays
  <2>4. QED
    BY <1>1, <2>1, <2>2, <2>3, ServerKept
<1>2. {"unauthorized", "missed", "failed", "dead", "replayed", "conflict", "rejected", "refused"} \subseteq Steps
  BY DEF Steps, Answers, Confirmed
<1>3. ASSUME AnswerFromOrder(i), Unplaced, request[i].step # "unsent"
      PROVE  ServerInv' /\ SentStays
  <2>1. PICK o \in Found(i) :
          Goes(i, IF o.payload = request[i].payload THEN "replayed" ELSE "conflict")
    BY <1>3 DEF AnswerFromOrder
  <2>2. CASE o.payload = request[i].payload
    <3>1. Goes(i, "replayed")
      BY <2>1, <2>2
    <3>2. QED
      BY <1>1, <1>2, <1>3, <2>2, <3>1
  <2>3. CASE o.payload # request[i].payload
    <3>1. Goes(i, "conflict")
      BY <2>1, <2>3
    <3>2. QED
      BY <1>1, <1>2, <1>3, <3>1
  <2>4. QED
    BY <2>2, <2>3
<1>4. CASE Lookup(i)
  <2>1. Unplaced /\ request[i].step # "unsent"
    BY <1>4 DEF Lookup
  <2>2. CASE AnswerFromOrder(i)
    BY <1>3, <2>1, <2>2
  <2>3. CASE Goes(i, "missed")
    BY <1>1, <1>2, <2>1, <2>3
  <2>4. QED
    BY <1>4, <2>2, <2>3 DEF Lookup
<1>5. CASE CheckRules(i)
  <2> DEFINE s == IF settings = "closed" THEN "rejected" ELSE "allowed"
             n == [step |-> s, key |-> request[i].key, payload |-> request[i].payload,
                   rules |-> settings]
  <2>1. request' = [request EXCEPT ![i] = n]
    BY <1>0, <1>5 DEF CheckRules
  <2>2. s \in Steps /\ s \notin {"placed", "replayed", "unsent"}
    BY DEF Steps, Answers, Confirmed
  <2>3. n \in Request
    BY <1>0, <2>2 DEF Request
  <2>4. n.step = s /\ n.key = request[i].key /\ n.payload = request[i].payload
    OBVIOUS
  <2> HIDE DEF n, s
  <2>5. UNCHANGED <<orders, left>> /\ request[i].step # "unsent"
    BY <1>5 DEF CheckRules, Unplaced
  <2>6. /\ request' \in [Requests -> Request]
        /\ \A j \in Requests : j # i => request'[j] = request[j]
        /\ request'[i] = n
    BY <1>0, <2>1, <2>3
  <2>7. SentStays
    BY <2>2, <2>4, <2>6 DEF SentStays
  <2>8. QED
    BY <2>2, <2>4, <2>5, <2>6, <2>7, ServerKept
<1>6. CASE Place(i)
  <2>1. Goes(i, "placed") /\ "placed" \in Steps
    BY <1>6 DEF Place, Steps, Answers, Confirmed
  <2>2. SentStays
    BY <1>0, <2>1, GoesWrites DEF SentStays
  <2>3. QED
    BY <1>6, <2>2, PlaceKept
<1>7. CASE RollBack(i)
  <2>1. Unplaced /\ request[i].step # "unsent"
    BY <1>7 DEF RollBack
  <2>2. CASE Goes(i, "failed")
    BY <1>1, <1>2, <2>1, <2>2
  <2>3. CASE Goes(i, "rejected")
    BY <1>1, <1>2, <2>1, <2>3
  <2>4. QED
    BY <1>7, <2>2, <2>3 DEF RollBack
<1>8. CASE LookupAgain(i)
  <2>1. Unplaced /\ request[i].step # "unsent"
    BY <1>8 DEF LookupAgain
  <2>2. CASE AnswerFromOrder(i)
    BY <1>3, <2>1, <2>2
  <2>3. CASE Goes(i, "refused")
    BY <1>1, <1>2, <2>1, <2>3
  <2>4. QED
    BY <1>8, <2>2, <2>3 DEF LookupAgain
<1>9. CASE Dies(i)
  <2>1. Unplaced /\ request[i].step # "unsent" /\ Goes(i, "dead")
    BY <1>9 DEF Dies
  <2>2. QED
    BY <1>1, <1>2, <2>1
<1>10. CASE Unauthenticated(i)
  <2>1. Unplaced /\ request[i].step # "unsent" /\ Goes(i, "unauthorized")
    BY <1>10 DEF Unauthenticated
  <2>2. QED
    BY <1>1, <1>2, <2>1
<1>11. QED
  BY <1>4, <1>5, <1>6, <1>7, <1>8, <1>9, <1>10 DEF Serve
-----------------------------------------------------------------------------
\* A post, and the request it becomes.
LEMMA SubmitKept ==
  ASSUME CheckoutInv, NEW t \in Tabs, Submit(t)
  PROVE  /\ CheckoutInv'
         /\ (\A u \in Tabs : u = t) /\ KeyIsKept => KeyIsKept'
<1> DEFINE c == tab[t].cart
           k == KeyFor(c)
           n == [step |-> "arrived", key |-> k, rules |-> "open",
                 payload |-> [cart |-> c, account |-> account[t]]]
<1> USE CheckoutBoundsAssumption
<1>1. /\ sent < MaxRequests /\ sent' = sent + 1
      /\ slot' = [cart |-> c, key |-> k]
      /\ keys' = IF k > keys THEN k ELSE keys
      /\ request' = [request EXCEPT ![sent + 1] = n]
      /\ tab' = [tab EXCEPT ![t].on = sent + 1]
      /\ call' = [call EXCEPT ![t] = "post"]
      /\ tries' = [tries EXCEPT ![t] = @ \cup {k}]
      /\ UNCHANGED <<account, orders, left, settings>>
  BY DEF Submit
<1>2. c \in Carts /\ sent \in Nat /\ keys \in Nat /\ keys <= sent
  BY DEF CheckoutInv, BrowserInv
<1>3. k \in 1..MaxRequests /\ k <= keys + 1
  <2>1. CASE slot.cart = c /\ slot # NoKey
    <3>1. k = slot.key
      BY <2>1 DEF KeyFor
    <3>2. slot.key \in 1..MaxRequests /\ slot.key <= keys
      BY <2>1 DEF CheckoutInv, BrowserInv
    <3>3. QED
      BY <1>2, <3>1, <3>2
  <2>2. CASE ~(slot.cart = c /\ slot # NoKey)
    <3>1. k = keys + 1
      BY <2>2 DEF KeyFor
    <3>2. QED
      BY <1>1, <1>2, <3>1
  <2>3. QED
    BY <2>1, <2>2
<1>4. n \in Request /\ n.step = "arrived" /\ n.key = k
  <2>1. [cart |-> c, account |-> account[t]] \in Payload
    BY <1>2 DEF Payload, CheckoutInv, BrowserInv
  <2>2. QED
    BY <1>3, <2>1 DEF Request, Steps, Settings
<1>5. slot' \in [cart : Carts, key : 1..MaxRequests] /\ slot'.cart = c /\ slot'.key = k
  BY <1>1, <1>2, <1>3
<1>6. slot' # NoKey
  BY <1>3, <1>5 DEF NoKey
<1>7. tab' = [tab EXCEPT ![t] = [cart |-> c, on |-> sent + 1]]
  <2>1. [tab[t] EXCEPT !.on = sent + 1] = [cart |-> c, on |-> sent + 1]
    <3>1. PICK q \in [cart : Carts, on : {0} \cup Requests] : q = tab[t]
      BY DEF CheckoutInv, BrowserInv
    <3>2. QED
      BY <3>1
  <2>2. tab' = [tab EXCEPT ![t] = [tab[t] EXCEPT !.on = sent + 1]]
    BY <1>1
  <2>3. QED
    BY <2>1, <2>2
<1>8. sent + 1 \in Requests /\ keys' \in 0..sent' /\ k <= keys'
  BY <1>1, <1>2, <1>3 DEF Requests
<1>9. /\ tab' \in [Tabs -> [cart : Carts, on : {0} \cup Requests]]
      /\ tab'[t].cart = c
  <2>1. [cart |-> c, on |-> sent + 1] \in [cart : Carts, on : {0} \cup Requests]
    BY <1>2, <1>8
  <2>2. QED
    BY <1>7, <2>1 DEF CheckoutInv, BrowserInv
<1> HIDE DEF c, k, n
<1>10. tries' \in [Tabs -> SUBSET (1..MaxRequests)]
  BY <1>1, <1>3 DEF CheckoutInv, BrowserInv
<1>11. BrowserInv'
  <2>1. call' \in [Tabs -> {"post", "refresh", "replay"}]
    BY <1>1 DEF CheckoutInv, BrowserInv
  <2>2. QED
    BY <2>1, <1>1, <1>2, <1>5, <1>8, <1>9, <1>10 DEF CheckoutInv, BrowserInv
<1>12. /\ request' \in [Requests -> Request]
       /\ \A j \in Requests : j # sent + 1 => request'[j] = request[j]
       /\ request'[sent + 1].step = "arrived" /\ request'[sent + 1].key # 0
  BY <1>1, <1>3, <1>4, <1>8 DEF CheckoutInv, ServerInv
<1>13. ConfirmedIsReal'
  <2>1. \A j \in Requests : request'[j].step \in Confirmed => request'[j] = request[j]
    BY <1>12 DEF Confirmed
  <2>2. "placed" \in Confirmed
    BY DEF Confirmed
  <2>3. QED
    BY <1>1, <2>1, <2>2 DEF CheckoutInv, ServerInv, ConfirmedIsReal
<1>14. ServerInv'
  BY <1>1, <1>8, <1>12, <1>13 DEF CheckoutInv, ServerInv, NothingStaysReserved
<1>17. WaitingInv'
  <2>1. /\ tab'[t].on = sent + 1 /\ call'[t] = "post" /\ sent + 1 # 0
        /\ \A u \in Tabs \ {t} : tab'[u] = tab[u] /\ call'[u] = call[u]
    BY <1>1, <1>2, <1>7 DEF CheckoutInv, BrowserInv
  <2>2. \A j \in Requests : request[j].step # "unsent" => request'[j].step # "unsent"
    BY <1>12
  <2>3. \A u \in Tabs : tab[u].on # 0 => tab[u].on \in Requests
    BY DEF CheckoutInv, BrowserInv
  <2>4. QED
    BY <1>12, <2>1, <2>2, <2>3 DEF CheckoutInv, WaitingInv, Waiting
<1>15. ASSUME \A u \in Tabs : u = t, KeyIsKept
       PROVE  KeyIsKept'
  <2>1. tries[t] = {} \/ tries[t] = {k}
    <3>1. CASE tries[t] # {}
      <4>1. slot # NoKey /\ slot.cart = c /\ tries[t] = {slot.key}
        BY <1>15, <3>1 DEF KeyIsKept, c
      <4>2. k = slot.key
        BY <4>1 DEF k, KeyFor
      <4>3. QED
        BY <4>1, <4>2
    <3>2. QED
      BY <3>1
  <2>2. tries'[t] = {k}
    BY <1>1, <2>1 DEF CheckoutInv, BrowserInv
  <2>3. QED
    BY <1>5, <1>6, <1>9, <1>15, <2>2 DEF KeyIsKept
<1>16. QED
  BY <1>11, <1>14, <1>17, <1>15 DEF CheckoutInv

\* What the customer does besides, and what changes by itself: the server is
\* left alone.
LEMMA CustomerKept ==
  ASSUME CheckoutInv, NEW t \in Tabs,
         \/ Fail(t) \/ TimesOut(t) \/ RefreshFails(t)
         \/ \E c \in Carts : Confirm(t, c) \/ ChangeCart(t, c)
  PROVE  /\ CheckoutInv'
         /\ (\A u \in Tabs : u = t) /\ KeyIsKept => KeyIsKept'
<1>0. /\ tab \in [Tabs -> [cart : Carts, on : {0} \cup Requests]]
      /\ tries \in [Tabs -> SUBSET (1..MaxRequests)]
      /\ slot \in [cart : Carts, key : 1..MaxRequests] \cup {NoKey}
  BY DEF CheckoutInv, BrowserInv
<1>1. UNCHANGED <<request, orders, left, sent, keys, settings>>
  BY DEF Fail, TimesOut, RefreshFails, Confirm, ChangeCart, server
<1>2. PICK row \in [cart : Carts, on : {0} \cup Requests] :
        /\ tab' = [tab EXCEPT ![t] = row]
        /\ row.on \in {0, tab[t].on}
        /\ \/ row.cart = tab[t].cart /\ UNCHANGED <<slot, tries>>
           \/ /\ slot' = slot \/ slot' = NoKey
              /\ tries' = [tries EXCEPT ![t] = {}]
  <2>1. CASE Fail(t) \/ TimesOut(t) \/ RefreshFails(t)
    <3> DEFINE row == [cart |-> tab[t].cart, on |-> 0]
    <3>1. [tab[t] EXCEPT !.on = 0] = row
      <4>1. PICK q \in [cart : Carts, on : {0} \cup Requests] : q = tab[t]
        BY <1>0
      <4>2. QED
        BY <4>1
    <3>2. tab' = [tab EXCEPT ![t] = [tab[t] EXCEPT !.on = 0]] /\ UNCHANGED <<slot, tries>>
      BY <2>1 DEF Fail, TimesOut, RefreshFails
    <3>3. row \in [cart : Carts, on : {0} \cup Requests] /\ row.cart = tab[t].cart
      BY <1>0
    <3>4. QED
      BY <3>1, <3>2, <3>3
  <2>2. ASSUME NEW c \in Carts, Confirm(t, c)
        PROVE  \E row \in [cart : Carts, on : {0} \cup Requests] :
                 /\ tab' = [tab EXCEPT ![t] = row]
                 /\ row.on \in {0, tab[t].on}
                 /\ \/ row.cart = tab[t].cart /\ UNCHANGED <<slot, tries>>
                    \/ /\ slot' = slot \/ slot' = NoKey
                       /\ tries' = [tries EXCEPT ![t] = {}]
    <3>1. [cart |-> c, on |-> 0] \in [cart : Carts, on : {0} \cup Requests]
      OBVIOUS
    <3>2. QED
      BY <2>2, <3>1 DEF Confirm
  <2>3. ASSUME NEW c \in Carts, ChangeCart(t, c)
        PROVE  \E row \in [cart : Carts, on : {0} \cup Requests] :
                 /\ tab' = [tab EXCEPT ![t] = row]
                 /\ row.on \in {0, tab[t].on}
                 /\ \/ row.cart = tab[t].cart /\ UNCHANGED <<slot, tries>>
                    \/ /\ slot' = slot \/ slot' = NoKey
                       /\ tries' = [tries EXCEPT ![t] = {}]
    <3> DEFINE row == [cart |-> c, on |-> tab[t].on]
    <3>1. [tab[t] EXCEPT !.cart = c] = row
      <4>1. PICK q \in [cart : Carts, on : {0} \cup Requests] : q = tab[t]
        BY <1>0
      <4>2. QED
        BY <4>1
    <3>2. /\ tab' = [tab EXCEPT ![t] = [tab[t] EXCEPT !.cart = c]]
          /\ slot' = slot /\ tries' = [tries EXCEPT ![t] = {}]
      BY <2>3 DEF ChangeCart
    <3>3. row \in [cart : Carts, on : {0} \cup Requests]
      BY <1>0
    <3>4. QED
      BY <3>1, <3>2, <3>3
  <2>4. QED
    BY <2>1, <2>2, <2>3
<1>3. /\ tab' \in [Tabs -> [cart : Carts, on : {0} \cup Requests]]
      /\ tab'[t] = row
  BY <1>0, <1>2
<1>4. tries' \in [Tabs -> SUBSET (1..MaxRequests)]
  BY <1>0, <1>2
<1>5. slot' = slot \/ slot' = NoKey
  BY <1>2
<1>6. slot' \in [cart : Carts, key : 1..MaxRequests] \cup {NoKey} /\ slot'.key <= keys
  <2>1. NoKey.key <= keys
    BY CheckoutBoundsAssumption DEF NoKey, CheckoutInv, BrowserInv
  <2>2. QED
    BY <1>0, <1>5, <2>1 DEF CheckoutInv, BrowserInv
<1>7. CheckoutInv'
  <2>1. /\ account' \in [Tabs -> BOOLEAN]
        /\ call' \in [Tabs -> {"post", "refresh", "replay"}]
    BY DEF Fail, TimesOut, RefreshFails, Confirm, ChangeCart, CheckoutInv, BrowserInv
  <2>2. BrowserInv'
    BY <1>1, <1>3, <1>4, <1>6, <2>1 DEF CheckoutInv, BrowserInv
  <2>3. ServerInv'
    BY <1>1 DEF CheckoutInv, ServerInv, NothingStaysReserved, ConfirmedIsReal
  <2>4. \A u \in Tabs \ {t} : tab'[u] = tab[u] /\ call'[u] = call[u]
    BY <1>0, <1>2 DEF Fail, TimesOut, RefreshFails, Confirm, ChangeCart, CheckoutInv, BrowserInv
  <2>5. call'[t] # "refresh"
    BY DEF Fail, TimesOut, RefreshFails, Confirm, ChangeCart, CheckoutInv, BrowserInv,
           WaitingInv, Confirmed
  <2>6. WaitingInv'
    BY <1>1, <1>2, <1>3, <2>4, <2>5 DEF CheckoutInv, WaitingInv, Waiting
  <2>7. QED
    BY <2>2, <2>3, <2>6 DEF CheckoutInv
<1>8. ASSUME \A u \in Tabs : u = t, KeyIsKept
      PROVE  KeyIsKept'
  <2>1. CASE row.cart = tab[t].cart /\ UNCHANGED <<slot, tries>>
    BY <1>3, <1>8, <2>1 DEF KeyIsKept
  <2>2. CASE tries' = [tries EXCEPT ![t] = {}]
    <3>1. tries'[t] = {}
      BY <1>0, <2>2
    <3>2. QED
      BY <1>8, <3>1 DEF KeyIsKept
  <2>3. QED
    BY <1>2, <2>1, <2>2
<1>9. QED
  BY <1>7, <1>8

\* A refused token and a new one: the purchase stays what it was.
LEMMA RefreshKept ==
  ASSUME CheckoutInv, NEW t \in Tabs, RefreshToken(t) \/ Replay(t) \/ SignIn(t)
  PROVE  CheckoutInv' /\ (KeyIsKept => KeyIsKept')
<1>1. UNCHANGED <<slot, tab, tries, orders, left, sent, keys, settings>>
  BY DEF RefreshToken, Replay, SignIn, server
<1>2. /\ account' \in [Tabs -> BOOLEAN]
      /\ call' \in [Tabs -> {"post", "refresh", "replay"}]
  BY DEF RefreshToken, Replay, SignIn, CheckoutInv, BrowserInv
<1>3. BrowserInv'
  BY <1>1, <1>2 DEF CheckoutInv, BrowserInv
<1>4. \A u \in Tabs : call'[u] = "refresh" => Waiting(u)
  BY DEF RefreshToken, Replay, SignIn, CheckoutInv, BrowserInv, WaitingInv
<1>5. ServerInv' /\ SentStays
  <2>1. CASE UNCHANGED request
    BY <1>1, <2>1 DEF CheckoutInv, ServerInv, NothingStaysReserved, ConfirmedIsReal, SentStays
  <2>2. CASE Replay(t)
    <3> DEFINE i == tab[t].on
    <3>1. Goes(i, "arrived") /\ Waiting(t)
      BY <2>2 DEF Replay, Goes, CheckoutInv, WaitingInv
    <3>2. i \in Requests /\ request[i].step # "unsent"
      <4>1. tab[t].on \in {0} \cup Requests
        BY DEF CheckoutInv, BrowserInv
      <4>2. tab[t].on # 0
        BY <3>1 DEF Waiting
      <4>3. \A u \in Tabs : Waiting(u) => request[tab[u].on].step # "unsent"
        BY DEF CheckoutInv, WaitingInv
      <4>4. request[tab[t].on].step # "unsent"
        BY <3>1, <4>3
      <4>5. QED
        BY <4>1, <4>2, <4>4
    <3>3. "arrived" \in Steps /\ request \in [Requests -> Request]
      BY DEF Steps, CheckoutInv, ServerInv
    <3> HIDE DEF i
    <3>4. /\ request' \in [Requests -> Request]
          /\ \A j \in Requests : j # i => request'[j] = request[j]
          /\ request'[i].step = "arrived" /\ request'[i].key = request[i].key
          /\ request'[i].payload = request[i].payload
      BY <3>1, <3>2, <3>3, GoesWrites
    <3>5. UNCHANGED <<orders, left>>
      BY <1>1
    <3>6. ServerInv'
      BY <3>2, <3>4, <3>5, ServerKept DEF CheckoutInv
    <3>7. QED
      BY <3>2, <3>4, <3>6 DEF SentStays
  <2>3. QED
    BY <2>1, <2>2 DEF RefreshToken, SignIn, server
<1>6. WaitingInv'
  BY <1>1, <1>4, <1>5 DEF CheckoutInv, BrowserInv, WaitingInv, Waiting, SentStays
<1>7. QED
  BY <1>1, <1>3, <1>5, <1>6 DEF CheckoutInv, KeyIsKept

\* Every step keeps the invariant, and in one tab the key.
LEMMA StepKept ==
  ASSUME CheckoutInv, [CheckoutNext]_checkoutVars
  PROVE  /\ CheckoutInv'
         /\ (\A t, u \in Tabs : t = u) /\ KeyIsKept => KeyIsKept'
<1>1. ASSUME NEW t \in Tabs, Customer(t)
      PROVE  /\ CheckoutInv'
             /\ (\A u, v \in Tabs : u = v) /\ KeyIsKept => KeyIsKept'
  BY <1>1, SubmitKept, CustomerKept, RefreshKept DEF Customer
<1>2. CASE \E s \in Settings : ChangeSettings(s)
  <2>1. UNCHANGED <<browser, server, sent, keys>> /\ settings' \in Settings
    BY <1>2 DEF ChangeSettings
  <2>2. QED
    BY <2>1 DEF browser, server, CheckoutInv, BrowserInv, WaitingInv, Waiting, ServerInv,
                NothingStaysReserved, ConfirmedIsReal, KeyIsKept
<1>3. ASSUME NEW i \in Requests, Serve(i) \/ Dies(i)
      PROVE  /\ CheckoutInv'
             /\ KeyIsKept => KeyIsKept'
  <2>1. UNCHANGED <<browser, sent, keys, settings>>
    BY <1>3 DEF Serve, Unauthenticated, Lookup, CheckRules, Place, RollBack, LookupAgain,
                Dies, Unplaced
  <2>2. ServerInv' /\ SentStays
    BY <1>3, ServeKept DEF CheckoutInv, BrowserInv
  <2>3. WaitingInv'
    BY <2>1, <2>2 DEF browser, CheckoutInv, BrowserInv, WaitingInv, Waiting, SentStays
  <2>4. QED
    BY <2>1, <2>2, <2>3 DEF browser, CheckoutInv, BrowserInv, KeyIsKept
<1>4. CASE UNCHANGED checkoutVars
  BY <1>4 DEF checkoutVars, browser, server, CheckoutInv, BrowserInv, WaitingInv, Waiting,
              ServerInv, NothingStaysReserved, ConfirmedIsReal, KeyIsKept
<1>5. QED
  BY <1>1, <1>2, <1>3, <1>4 DEF CheckoutNext
-----------------------------------------------------------------------------
\* The invariant of every reachable state.
LEMMA CheckoutInvariance == CheckoutSpec => []CheckoutInv
<1>1. CheckoutInv /\ [CheckoutNext]_checkoutVars => CheckoutInv'
  BY StepKept
<1>2. QED
  BY <1>1, InitEstablishes, PTL DEF CheckoutSpec

\* Every variable of the checkout, the requests of CheckoutWhatsAppView and
\* the tabs alike, has its type in every reachable state.
THEOREM CheckoutTypes == CheckoutSpec => []CheckoutTypeOK
<1>1. CheckoutInv => CheckoutTypeOK
  BY DEF CheckoutInv, ServerInv, BrowserInv, CheckoutTypeOK, Request, Order
<1>2. QED
  BY <1>1, CheckoutInvariance, PTL

\* A customer told of an order has one, with the payload sent, and of the
\* requests of one key one alone has placed it (the unique idempotency_key).
THEOREM AnswersAreReal == CheckoutSpec => []ConfirmedIsReal
<1>1. CheckoutInv => ConfirmedIsReal
  BY DEF CheckoutInv, ServerInv
<1>2. QED
  BY <1>1, CheckoutInvariance, PTL

\* Units are in stock or in an order: whatever fails, is refused or repeated
\* leaves none reserved (the transaction around _reserve_cart_stock).
THEOREM StockIsConserved == CheckoutSpec => []NothingStaysReserved
<1>1. CheckoutInv => NothingStaysReserved
  BY DEF CheckoutInv, ServerInv
<1>2. QED
  BY <1>1, CheckoutInvariance, PTL

\* A request is refused only by its second look at its key, which finds no
\* order (LookupAgain of CheckoutWhatsAppView).
THEOREM RefusalsAreTrue == CheckoutSpec => RefusedHasNoOrder
<1> DEFINE A == \A i \in Requests :
       request'[i].step = "refused" /\ request[i].step # "refused" => Found(i) = {}
<1>1. CheckoutInv /\ [CheckoutNext]_checkoutVars => A
  <2> SUFFICES ASSUME CheckoutInv, [CheckoutNext]_checkoutVars, NEW i \in Requests,
                      request'[i].step = "refused", request[i].step # "refused"
               PROVE  Found(i) = {}
    OBVIOUS
  <2>0. request \in [Requests -> Request]
    BY DEF CheckoutInv, ServerInv
  <2>1. CASE UNCHANGED request
    BY <2>1
  <2>2. ASSUME NEW t \in Tabs, Submit(t)
        PROVE  FALSE
    <3> DEFINE n == [step |-> "arrived", key |-> KeyFor(tab[t].cart), rules |-> "open",
                     payload |-> [cart |-> tab[t].cart, account |-> account[t]]]
    <3>1. request' = [request EXCEPT ![sent + 1] = n]
      BY <2>2 DEF Submit
    <3>2. n.step = "arrived"
      OBVIOUS
    <3> HIDE DEF n
    <3>3. QED
      BY <2>0, <3>1, <3>2
  <2>5. ASSUME NEW t \in Tabs, Replay(t)
         PROVE  FALSE
    <3>1. Goes(tab[t].on, "arrived") /\ tab[t].on \in Requests /\ "arrived" \in Steps
      BY <2>5 DEF Replay, Goes, CheckoutInv, BrowserInv, WaitingInv, Waiting, Steps
    <3>2. QED
      BY <2>0, <3>1, GoesWrites
  <2>3. ASSUME NEW j \in Requests, Serve(j) \/ Dies(j)
        PROVE  Found(i) = {}
    <3>1. ASSUME NEW s \in Steps, Goes(j, s), s # "refused"
          PROVE  FALSE
      BY <2>0, <3>1, GoesWrites
    <3>2. {"unauthorized", "missed", "failed", "dead", "replayed", "conflict", "rejected",
           "refused", "placed"} \subseteq Steps
      BY DEF Steps, Answers, Confirmed
    <3>3. CASE AnswerFromOrder(j)
      <4>1. Goes(j, "replayed") \/ Goes(j, "conflict")
        BY <3>3 DEF AnswerFromOrder
      <4>2. QED
        BY <3>1, <3>2, <4>1
    <3>4. CASE CheckRules(j)
      <4> DEFINE n == [step |-> IF settings = "closed" THEN "rejected" ELSE "allowed",
                       key |-> request[j].key, payload |-> request[j].payload,
                       rules |-> settings]
      <4>1. request' = [request EXCEPT ![j] = n]
        BY <2>0, <3>4 DEF CheckRules
      <4>2. n.step # "refused"
        OBVIOUS
      <4> HIDE DEF n
      <4>3. QED
        BY <2>0, <4>1, <4>2
    <3>5. CASE Goes(j, "refused") /\ Found(j) = {}
      <4>1. CASE j = i
        BY <3>5, <4>1
      <4>2. CASE j # i
        BY <2>0, <3>2, <3>5, <4>2, GoesWrites
      <4>3. QED
        BY <4>1, <4>2
    <3>6. QED
      BY <2>3, <3>1, <3>2, <3>3, <3>4, <3>5
      DEF Serve, Unauthenticated, Lookup, Place, RollBack, LookupAgain, Dies
  <2>4. QED
    BY <2>1, <2>2, <2>5, <2>3
    DEF CheckoutNext, Customer, Fail, TimesOut, RefreshToken, RefreshFails, Confirm, ChangeCart,
        SignIn, ChangeSettings, checkoutVars, server
<1>2. QED
  BY <1>1, CheckoutInvariance, PTL DEF CheckoutSpec, RefusedHasNoOrder

\* However often a purchase is tried again from one tab, over lost answers,
\* time-outs, closed stores and sign-ins, it is placed at most once
\* (getCheckoutIdempotencyKey and the unique idempotency_key together).
THEOREM PurchasesArePlacedOnce ==
  ASSUME \A t, u \in Tabs : t = u
  PROVE  CheckoutSpec => []OneOrderPerPurchase
<1>1. CheckoutInv /\ KeyIsKept => OneOrderPerPurchase
  <2> SUFFICES ASSUME CheckoutInv, KeyIsKept, NEW t \in Tabs
               PROVE  Cardinality({o \in orders : o.key \in tries[t]}) <= 1
    BY DEF OneOrderPerPurchase
  <2> DEFINE S == {o \in orders : o.key \in tries[t]}
  <2>1. CASE S = {}
    BY <2>1, FS_EmptySet
  <2>2. ASSUME NEW p \in S
        PROVE  Cardinality(S) <= 1
    <3>1. \A o \in S : o = p
      BY DEF KeyIsKept, CheckoutInv, ServerInv
    <3>2. S = {p}
      BY <3>1
    <3>3. QED
      BY <3>2, FS_Singleton
  <2>3. QED
    BY <2>1, <2>2
<1>2. CheckoutInv /\ KeyIsKept /\ [CheckoutNext]_checkoutVars => CheckoutInv' /\ KeyIsKept'
  BY StepKept
<1>3. QED
  BY <1>1, <1>2, InitEstablishes, PTL DEF CheckoutSpec
=============================================================================
