------------------------------- MODULE Commerce -------------------------------
(***************************************************************************)
(* A buyer's cart, checkout, payment and licensed downloads: the handlers  *)
(* of commerce.Service over the tables of migrations 012 to 014, which run *)
(* concurrently in request slots, and the payment provider's webhook. The  *)
(* tables of different buyers share no row, so there is one buyer.         *)
(*                                                                         *)
(* A statement is one step and sees what was committed before it (READ     *)
(* COMMITTED). The writes of a transaction stay in its request's locals    *)
(* until its last statement commits; the cart row it has locked stays      *)
(* locked until then. Prices are positive and fixed per license, so an     *)
(* amount is represented by the licensed items it is the sum of.           *)
(***************************************************************************)
CONSTANTS
    Assets,     \* media assets that were approved for the catalog
    Licenses,   \* license codes
    Carts,      \* ids of buyer_carts rows
    Orders,     \* ids of commerce_orders rows, each with its payment reference
    Keys,       \* idempotency keys of checkouts
    Events,     \* ids of charge.success events
    Requests,   \* request slots of the API processes
    None        \* no license, cart, order, key

ASSUME NoneIsNothing == None \notin Licenses \cup Carts \cup Orders \cup Keys \cup Assets

VARIABLES
    deleted,       \* assets with deleted_at
    cartStatus,    \* "absent", or buyer_carts.status
    cartItems,     \* buyer_cart_items: the license of each asset in a cart
    orderStatus,   \* "absent", or commerce_orders.status
    orderKey,      \* commerce_orders.idempotency_key
    total,         \* the items commerce_orders.total_amount_minor sums
    orderItems,    \* commerce_order_items
    checkoutUrl,   \* orders with a checkout_url
    entitled,      \* download_entitlements: the assets granted by an order
    audited,       \* order and asset of each licensed_download_audit row
    recorded,      \* payment_webhook_events.event_key
    chargeOf,      \* the provider: the order whose reference an event names
    exact,         \* the provider: events with the amount and currency of the order
    at, asset, license, key, cart, order, sum, items,   \* locals of the requests
    orderCart      \* history: the cart an order was made from

cartVars == <<cartStatus, cartItems>>
orderVars == <<orderStatus, orderKey, total, orderItems, orderCart>>
paymentVars == <<entitled, recorded>>
providerVars == <<chargeOf, exact>>
requestVars == <<at, asset, license, key, cart, order, sum, items>>

vars == <<deleted, cartVars, orderVars, checkoutUrl, audited, paymentVars,
          providerVars, requestVars>>

Contents == [Assets -> Licenses \cup {None}]
Empty == [a \in Assets |-> None]

\* The steps of a transaction that holds the lock of its cart row.
LockingSteps == {"insertItem", "insertOrder", "insertOrderItems", "convertCart"}

Steps == LockingSteps \cup {"idle", "upsertCart", "deleteItem", "buyerCart", "findOrder",
                            "lockCart", "initialize", "setCheckoutURL"}

Locked == {cart[h] : h \in {g \in Requests : at[g] \in LockingSteps}}
ActiveCarts == {c \in Carts : cartStatus[c] = "active"}
AbsentCarts == {c \in Carts : cartStatus[c] = "absent"}
OrdersOf(k) == {o \in Orders : orderStatus[o] # "absent" /\ orderKey[o] = k}
Licensed(contents) == {a \in Assets : contents[a] # None}

Init ==
    /\ deleted = {}
    /\ cartStatus = [c \in Carts |-> "absent"]
    /\ cartItems = [c \in Carts |-> Empty]
    /\ orderStatus = [o \in Orders |-> "absent"]
    /\ orderKey = [o \in Orders |-> None]
    /\ total = [o \in Orders |-> Empty]
    /\ orderItems = [o \in Orders |-> Empty]
    /\ checkoutUrl = {}
    /\ entitled = [o \in Orders |-> {}]
    /\ audited = {}
    /\ recorded = {}
    /\ chargeOf = [e \in Events |-> None]
    /\ exact = {}
    /\ at = [h \in Requests |-> "idle"]
    /\ asset = [h \in Requests |-> None]
    /\ license = [h \in Requests |-> None]
    /\ key = [h \in Requests |-> None]
    /\ cart = [h \in Requests |-> None]
    /\ order = [h \in Requests |-> None]
    /\ sum = [h \in Requests |-> Empty]
    /\ items = [h \in Requests |-> Empty]
    /\ orderCart = [o \in Orders |-> None]

Goto(h, step) == at' = [at EXCEPT ![h] = step]

\* The handler answers, with a result or an error. A transaction that has not
\* committed is rolled back.
End(h) ==
    /\ Goto(h, "idle")
    /\ asset' = [asset EXCEPT ![h] = None]
    /\ license' = [license EXCEPT ![h] = None]
    /\ key' = [key EXCEPT ![h] = None]
    /\ cart' = [cart EXCEPT ![h] = None]
    /\ order' = [order EXCEPT ![h] = None]
    /\ sum' = [sum EXCEPT ![h] = Empty]
    /\ items' = [items EXCEPT ![h] = Empty]

\* A query or the payment provider fails, the client goes away or the process
\* stops.
Abort(h) ==
    /\ at[h] # "idle"
    /\ End(h)
    /\ UNCHANGED <<deleted, cartVars, orderVars, checkoutUrl, audited, paymentVars,
                   providerVars>>

-----------------------------------------------------------------------------
(* The cart *)

BeginAdd(h, a, l) ==
    /\ at[h] = "idle"
    /\ Goto(h, "upsertCart")
    /\ asset' = [asset EXCEPT ![h] = a]
    /\ license' = [license EXCEPT ![h] = l]
    /\ UNCHANGED <<key, cart, order, sum, items, deleted, cartVars, orderVars, checkoutUrl,
                   audited, paymentVars, providerVars>>

\* Faulty variant of UpsertCart: the cart is read without locking its row.
UpsertCartUnlocked(h) ==
    /\ at[h] = "upsertCart"
    /\ \E c \in IF ActiveCarts # {} THEN ActiveCarts ELSE AbsentCarts :
        cart' = [cart EXCEPT ![h] = c]
    /\ Goto(h, "insertItem")
    /\ UNCHANGED <<asset, license, key, order, sum, items, deleted, cartVars, orderVars,
                   checkoutUrl, audited, paymentVars, providerVars>>

\* The upsert of the active cart waits for whoever has locked or is creating
\* it. If that transaction converts the cart, a new one is inserted.
UpsertCart(h) ==
    /\ at[h] = "upsertCart"
    /\ Locked = {}
    /\ \E c \in IF ActiveCarts # {} THEN ActiveCarts ELSE AbsentCarts :
        cart' = [cart EXCEPT ![h] = c]
    /\ Goto(h, "insertItem")
    /\ UNCHANGED <<asset, license, key, order, sum, items, deleted, cartVars, orderVars,
                   checkoutUrl, audited, paymentVars, providerVars>>

\* An asset that is still in the catalog goes into the cart, or changes its
\* license there; any other rolls the transaction back.
InsertItem(h) ==
    /\ at[h] = "insertItem"
    /\ IF asset[h] \notin deleted
         THEN /\ cartStatus' = [cartStatus EXCEPT ![cart[h]] = "active"]
              /\ cartItems' = [cartItems EXCEPT ![cart[h]][asset[h]] = license[h]]
              /\ Goto(h, "buyerCart")
              /\ cart' = [cart EXCEPT ![h] = None]
              /\ UNCHANGED <<asset, license, key, order, sum, items>>
         ELSE /\ UNCHANGED cartVars
              /\ End(h)
    /\ UNCHANGED <<deleted, orderVars, checkoutUrl, audited, paymentVars, providerVars>>

BeginRemove(h, a) ==
    /\ at[h] = "idle"
    /\ Goto(h, "deleteItem")
    /\ asset' = [asset EXCEPT ![h] = a]
    /\ UNCHANGED <<license, key, cart, order, sum, items, deleted, cartVars, orderVars,
                   checkoutUrl, audited, paymentVars, providerVars>>

\* The DELETE joins the cart row, but does not lock it.
DeleteItem(h) ==
    /\ at[h] = "deleteItem"
    /\ cartItems' = [c \in Carts |-> IF c \in ActiveCarts
                                       THEN [cartItems[c] EXCEPT ![asset[h]] = None]
                                       ELSE cartItems[c]]
    /\ Goto(h, "buyerCart")
    /\ UNCHANGED <<asset, license, key, cart, order, sum, items, deleted, cartStatus,
                   orderVars, checkoutUrl, audited, paymentVars, providerVars>>

BeginGet(h) ==
    /\ at[h] = "idle"
    /\ Goto(h, "buyerCart")
    /\ UNCHANGED <<asset, license, key, cart, order, sum, items, deleted, cartVars, orderVars,
                   checkoutUrl, audited, paymentVars, providerVars>>

\* BuyerCart creates the active cart if there is none, and reads it.
BuyerCart(h) ==
    /\ at[h] = "buyerCart"
    /\ Locked = {}
    /\ IF ActiveCarts # {}
         THEN UNCHANGED cartStatus
         ELSE \E c \in AbsentCarts : cartStatus' = [cartStatus EXCEPT ![c] = "active"]
    /\ End(h)
    /\ UNCHANGED <<deleted, cartItems, orderVars, checkoutUrl, audited, paymentVars,
                   providerVars>>

-----------------------------------------------------------------------------
(* Checkout *)

BeginCheckout(h, k) ==
    /\ at[h] = "idle"
    /\ Goto(h, "findOrder")
    /\ key' = [key EXCEPT ![h] = k]
    /\ UNCHANGED <<asset, license, cart, order, sum, items, deleted, cartVars, orderVars,
                   checkoutUrl, audited, paymentVars, providerVars>>

\* The order of an earlier checkout with the same key is used again.
FindOrder(h) ==
    /\ at[h] = "findOrder"
    /\ \/ /\ OrdersOf(key[h]) = {}
          /\ Goto(h, "lockCart")
          /\ UNCHANGED <<asset, license, key, cart, order, sum, items>>
       \/ \E o \in OrdersOf(key[h]) \ checkoutUrl :
            /\ Goto(h, "initialize")
            /\ order' = [order EXCEPT ![h] = o]
            /\ UNCHANGED <<asset, license, key, cart, sum, items>>
       \/ OrdersOf(key[h]) \cap checkoutUrl # {} /\ End(h)
    /\ UNCHANGED <<deleted, cartVars, orderVars, checkoutUrl, audited, paymentVars,
                   providerVars>>

\* Faulty variant of LockCart: no FOR UPDATE.
LockCartUnlocked(h) ==
    /\ at[h] = "lockCart"
    /\ \/ ActiveCarts = {} /\ End(h)
       \/ \E c \in ActiveCarts :
            /\ cart' = [cart EXCEPT ![h] = c]
            /\ Goto(h, "insertOrder")
            /\ UNCHANGED <<asset, license, key, order, sum, items>>
    /\ UNCHANGED <<deleted, cartVars, orderVars, checkoutUrl, audited, paymentVars,
                   providerVars>>

\* SELECT ... FOR UPDATE waits for the lock of the active cart; no cart is an
\* error. (A checkout that waited for a conversion gets that error too, even if
\* there is a new cart by then: an Abort.)
LockCart(h) ==
    /\ at[h] = "lockCart"
    /\ \/ ActiveCarts = {} /\ End(h)
       \/ \E c \in ActiveCarts \ Locked :
            /\ cart' = [cart EXCEPT ![h] = c]
            /\ Goto(h, "insertOrder")
            /\ UNCHANGED <<asset, license, key, order, sum, items>>
    /\ UNCHANGED <<deleted, cartVars, orderVars, checkoutUrl, audited, paymentVars,
                   providerVars>>

\* The order row with the sum of the cart's items as they are now. No item, or
\* a key that is taken, is an error.
InsertOrder(h) ==
    /\ at[h] = "insertOrder"
    /\ IF Licensed(cartItems[cart[h]]) # {} /\ OrdersOf(key[h]) = {}
         THEN /\ sum' = [sum EXCEPT ![h] = cartItems[cart[h]]]
              /\ Goto(h, "insertOrderItems")
              /\ UNCHANGED <<asset, license, key, cart, order, items>>
         ELSE End(h)
    /\ UNCHANGED <<deleted, cartVars, orderVars, checkoutUrl, audited, paymentVars,
                   providerVars>>

\* The order's items: another statement, which sees what was committed since.
InsertOrderItems(h) ==
    /\ at[h] = "insertOrderItems"
    /\ items' = [items EXCEPT ![h] = cartItems[cart[h]]]
    /\ Goto(h, "convertCart")
    /\ UNCHANGED <<asset, license, key, cart, order, sum, deleted, cartVars, orderVars,
                   checkoutUrl, audited, paymentVars, providerVars>>

\* The cart is converted and the transaction commits.
ConvertCart(h) ==
    /\ at[h] = "convertCart"
    /\ \E o \in Orders :
        /\ orderStatus[o] = "absent"
        /\ orderStatus' = [orderStatus EXCEPT ![o] = "pending_payment"]
        /\ orderKey' = [orderKey EXCEPT ![o] = key[h]]
        /\ total' = [total EXCEPT ![o] = sum[h]]
        /\ orderItems' = [orderItems EXCEPT ![o] = items[h]]
        /\ orderCart' = [orderCart EXCEPT ![o] = cart[h]]
        /\ order' = [order EXCEPT ![h] = o]
    /\ cartStatus' = [cartStatus EXCEPT ![cart[h]] = "converted"]
    /\ cart' = [cart EXCEPT ![h] = None]
    /\ sum' = [sum EXCEPT ![h] = Empty]
    /\ items' = [items EXCEPT ![h] = Empty]
    /\ Goto(h, "initialize")
    /\ UNCHANGED <<asset, license, key, deleted, cartItems, checkoutUrl, audited, paymentVars,
                   providerVars>>

\* The provider accepts the reference. (It may refuse: an Abort.)
Initialize(h) ==
    /\ at[h] = "initialize"
    /\ Goto(h, "setCheckoutURL")
    /\ UNCHANGED <<asset, license, key, cart, order, sum, items, deleted, cartVars, orderVars,
                   checkoutUrl, audited, paymentVars, providerVars>>

\* Only a pending order gets a URL; a paid one is an error.
SetCheckoutURL(h) ==
    /\ at[h] = "setCheckoutURL"
    /\ checkoutUrl' = IF orderStatus[order[h]] = "pending_payment"
                        THEN checkoutUrl \cup {order[h]} ELSE checkoutUrl
    /\ End(h)
    /\ UNCHANGED <<deleted, cartVars, orderVars, audited, paymentVars, providerVars>>

-----------------------------------------------------------------------------
(* Payment, entitlement and download *)

\* The buyer pays through a checkout URL; the provider will report the charge
\* under an event id. The amount may not be that of the order.
Charge(e, o) ==
    /\ o \in checkoutUrl
    /\ chargeOf[e] = None
    /\ chargeOf' = [chargeOf EXCEPT ![e] = o]
    /\ \E same \in BOOLEAN : exact' = IF same THEN exact \cup {e} ELSE exact
    /\ UNCHANGED <<deleted, cartVars, orderVars, checkoutUrl, audited, paymentVars, requestVars>>

\* The provider reports an event: the signed webhook of a successful charge,
\* with its reference and amount.
Reported(e) == chargeOf[e] # None

\* Faulty variants of MarkOrderPaid: any amount pays; entitlements are granted
\* before the order is known to match.
MarkOrderPaidAnyAmount(e) ==
    /\ Reported(e)
    /\ IF e \notin recorded /\ orderStatus[chargeOf[e]] = "pending_payment"
         THEN /\ recorded' = recorded \cup {e}
              /\ orderStatus' = [orderStatus EXCEPT ![chargeOf[e]] = "paid"]
              /\ entitled' = [entitled EXCEPT
                                ![chargeOf[e]] = Licensed(orderItems[chargeOf[e]])]
         ELSE UNCHANGED <<recorded, orderStatus, entitled>>
    /\ UNCHANGED <<deleted, cartVars, orderKey, total, orderItems, orderCart, checkoutUrl, audited,
                   providerVars, requestVars>>

MarkOrderPaidGrantsEarly(e) ==
    /\ Reported(e)
    /\ entitled' = [entitled EXCEPT ![chargeOf[e]] = Licensed(orderItems[chargeOf[e]])]
    /\ IF e \notin recorded /\ e \in exact /\ orderStatus[chargeOf[e]] = "pending_payment"
         THEN /\ recorded' = recorded \cup {e}
              /\ orderStatus' = [orderStatus EXCEPT ![chargeOf[e]] = "paid"]
         ELSE UNCHANGED <<recorded, orderStatus>>
    /\ UNCHANGED <<deleted, cartVars, orderKey, total, orderItems, orderCart, checkoutUrl, audited,
                   providerVars, requestVars>>

\* Event e is reported, for the first time or again. One transaction
\* records the event, marks the order it matches as paid and grants the
\* entitlements; a recorded event is acknowledged without effect, an event
\* that matches no pending order is rolled back and refused.
MarkOrderPaid(e) ==
    /\ Reported(e)
    /\ IF e \notin recorded /\ e \in exact /\ orderStatus[chargeOf[e]] = "pending_payment"
         THEN /\ recorded' = recorded \cup {e}
              /\ orderStatus' = [orderStatus EXCEPT ![chargeOf[e]] = "paid"]
              /\ entitled' = [entitled EXCEPT
                                ![chargeOf[e]] = Licensed(orderItems[chargeOf[e]])]
         ELSE UNCHANGED <<recorded, orderStatus, entitled>>
    /\ UNCHANGED <<deleted, cartVars, orderKey, total, orderItems, orderCart, checkoutUrl, audited,
                   providerVars, requestVars>>

\* The entitlement, its order and its asset as LicensedDownload joins them.
Downloadable(o, a) == a \in entitled[o] /\ orderStatus[o] = "paid" /\ a \notin deleted

LicensedDownload(o, a) ==
    /\ Downloadable(o, a)
    /\ audited' = audited \cup {<<o, a>>}
    /\ UNCHANGED <<deleted, cartVars, orderVars, checkoutUrl, paymentVars, providerVars,
                   requestVars>>

\* The contributor's deletion scrubs the asset row; it does not look at carts,
\* orders or entitlements.
DeleteAsset(a) ==
    /\ a \notin deleted
    /\ deleted' = deleted \cup {a}
    /\ UNCHANGED <<cartVars, orderVars, checkoutUrl, audited, paymentVars, providerVars,
                   requestVars>>

-----------------------------------------------------------------------------
CartStep(h) == UpsertCart(h) \/ InsertItem(h) \/ DeleteItem(h) \/ BuyerCart(h)

CheckoutStep(h) ==
    \/ FindOrder(h) \/ LockCart(h) \/ InsertOrder(h) \/ InsertOrderItems(h)
    \/ ConvertCart(h) \/ Initialize(h) \/ SetCheckoutURL(h)

Next ==
    \/ \E h \in Requests :
        \/ \E a \in Assets, l \in Licenses : BeginAdd(h, a, l)
        \/ \E a \in Assets : BeginRemove(h, a)
        \/ \E k \in Keys : BeginCheckout(h, k)
        \/ BeginGet(h) \/ CartStep(h) \/ CheckoutStep(h) \/ Abort(h)
    \/ \E e \in Events, o \in Orders : Charge(e, o)
    \/ \E e \in Events : MarkOrderPaid(e)
    \/ \E o \in Orders, a \in Assets : LicensedDownload(o, a)
    \/ \E a \in Assets : DeleteAsset(a)

Spec == Init /\ [][Next]_vars

-----------------------------------------------------------------------------
(* Properties *)

RowTypes ==
    /\ deleted \in SUBSET Assets
    /\ cartStatus \in [Carts -> {"absent", "active", "converted"}]
    /\ cartItems \in [Carts -> Contents]
    /\ orderStatus \in [Orders -> {"absent", "pending_payment", "paid"}]
    /\ orderKey \in [Orders -> Keys \cup {None}]
    /\ total \in [Orders -> Contents]
    /\ orderItems \in [Orders -> Contents]
    /\ orderCart \in [Orders -> Carts \cup {None}]
    /\ checkoutUrl \in SUBSET {o \in Orders : orderStatus[o] # "absent"}

PaymentTypes ==
    /\ entitled \in [Orders -> SUBSET Assets]
    /\ audited \in SUBSET (Orders \X Assets)
    /\ recorded \in SUBSET Events
    /\ chargeOf \in [Events -> Orders \cup {None}]
    /\ exact \in SUBSET Events

RequestTypes ==
    /\ at \in [Requests -> Steps]
    /\ asset \in [Requests -> Assets \cup {None}]
    /\ license \in [Requests -> Licenses \cup {None}]
    /\ key \in [Requests -> Keys \cup {None}]
    /\ cart \in [Requests -> Carts \cup {None}]
    /\ order \in [Requests -> Orders \cup {None}]
    /\ sum \in [Requests -> Contents]
    /\ items \in [Requests -> Contents]

\* What a request holds at its steps.
RequestLocals ==
    \A h \in Requests :
        /\ at[h] \in {"upsertCart", "insertItem", "deleteItem"} => asset[h] \in Assets
        /\ at[h] \in LockingSteps => cart[h] \in Carts
        /\ at[h] \in {"initialize", "setCheckoutURL"} =>
              order[h] \in Orders /\ orderStatus[order[h]] # "absent"

\* Every variable holds a value of its kind, and a handler about to take a step
\* holds what the step needs: a checkout that goes to the payment provider has
\* a committed order.
TypeOK == RowTypes /\ PaymentTypes /\ RequestTypes /\ RequestLocals

\* However checkouts are retried or run at once, an idempotency key has at most
\* one order, and so has a cart.
CheckoutIsIdempotent ==
    \A o, p \in Orders :
        /\ orderStatus[o] # "absent"
        /\ orderStatus[p] # "absent"
        /\ orderKey[o] = orderKey[p] \/ orderCart[o] = orderCart[p]
        => o = p

\* An item that is in a cart when it is converted is in the order made from it:
\* no addition slips in between the copy and the conversion.
ConvertedItemsAreOrdered ==
    \A o \in Orders : orderStatus[o] # "absent" =>
        \A a \in Licensed(cartItems[orderCart[o]]) :
            orderItems[o][a] = cartItems[orderCart[o]][a]

\* An order grants exactly its items when it is paid and nothing before,
\* however often and in whatever order charges are reported.
EntitledIffPaid ==
    \A o \in Orders :
        entitled[o] = IF orderStatus[o] = "paid" THEN Licensed(orderItems[o]) ELSE {}

\* A recorded event has paid its order with the right amount, and a paid order
\* has exactly one such event: none is swallowed, none pays twice.
PaymentsBalance ==
    /\ \A e \in recorded : e \in exact /\ orderStatus[chargeOf[e]] = "paid"
    /\ \A o \in Orders : orderStatus[o] = "paid" =>
        \E e \in recorded : \A f \in recorded : chargeOf[f] = o <=> f = e

\* What the buyer is charged for is what the order contains.
TotalIsForItems ==
    \A o \in Orders : orderStatus[o] # "absent" => total[o] = orderItems[o]

=============================================================================
