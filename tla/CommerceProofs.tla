---------------------------- MODULE CommerceProofs -----------------------------
(***************************************************************************)
(* Proofs about Commerce for every set of assets, carts, orders, keys,     *)
(* events and requests.                                                    *)
(***************************************************************************)
EXTENDS Commerce, TLAPS

\* Contents of a cart stay contents when an asset is licensed or taken out.
LEMMA ContentsFacts ==
  /\ Empty \in Contents
  /\ \A c \in Contents, a \in Assets, l \in Licenses \cup {None} : [c EXCEPT ![a] = l] \in Contents
  /\ \A c \in Contents : Licensed(c) \in SUBSET Assets
  BY DEF Empty, Contents, Licensed

-----------------------------------------------------------------------------
(* Types *)

\* The initial state has its types.
LEMMA TypeInit == Init => TypeOK
  BY ContentsFacts DEF Init, TypeOK, RowTypes, PaymentTypes, RequestTypes, RequestLocals, Steps,
                       LockingSteps

(***************************************************************************)
(* The ways a request changes its locals.                                  *)
(***************************************************************************)
RequestOK == RequestTypes /\ RequestLocals

\* A request slot that ends is free again.
LEMMA EndOK ==
  ASSUME RequestOK, NEW h \in Requests, End(h),
         \A o \in Orders : orderStatus[o] # "absent" => orderStatus'[o] # "absent"
  PROVE  RequestOK'
  BY ContentsFacts DEF End, Goto, RequestOK, RequestTypes, RequestLocals, Steps, LockingSteps

\* A request that goes on keeps its inputs.
LEMMA GotoOK ==
  ASSUME RequestOK, NEW h \in Requests, NEW step \in Steps, Goto(h, step),
         UNCHANGED <<asset, license, key, sum, items>>,
         cart' \in [Requests -> Carts \cup {None}],
         order' \in [Requests -> Orders \cup {None}],
         \A g \in Requests \ {h} : cart'[g] = cart[g] /\ order'[g] = order[g],
         \A o \in Orders : orderStatus[o] # "absent" => orderStatus'[o] # "absent",
         step \in {"upsertCart", "insertItem", "deleteItem"} => asset[h] \in Assets,
         step \in LockingSteps => cart'[h] \in Carts,
         step \in {"initialize", "setCheckoutURL"} =>
             order'[h] \in Orders /\ orderStatus'[order'[h]] # "absent"
  PROVE  RequestOK'
  BY DEF Goto, RequestOK, RequestTypes, RequestLocals, Steps, LockingSteps

\* Every step keeps the types.
LEMMA TypeStep == TypeOK /\ [Next]_vars => TypeOK'
  <1> SUFFICES ASSUME TypeOK, [Next]_vars PROVE TypeOK'
    OBVIOUS
  <1>parts. RowTypes /\ PaymentTypes /\ RequestOK
    BY DEF TypeOK, RequestOK
  <1> USE <1>parts
  <1>frame. /\ UNCHANGED <<deleted, cartVars, orderVars, checkoutUrl>> => RowTypes'
            /\ UNCHANGED <<paymentVars, audited, providerVars>> => PaymentTypes'
            /\ UNCHANGED <<requestVars, orderStatus>> => RequestOK'
            /\ RowTypes' /\ PaymentTypes' /\ RequestOK' => TypeOK'
    BY DEF RowTypes, PaymentTypes, RequestOK, RequestTypes, RequestLocals, cartVars, orderVars,
           paymentVars, providerVars, requestVars, TypeOK
  <1>1. ASSUME NEW h \in Requests, Abort(h) PROVE TypeOK'
    BY <1>1, <1>frame, EndOK DEF Abort, orderVars
  <1>2. ASSUME NEW h \in Requests, NEW a \in Assets, NEW l \in Licenses, BeginAdd(h, a, l)
        PROVE  TypeOK'
    <2>1. RequestOK'
      BY <1>2 DEF BeginAdd, Goto, orderVars, RequestOK, RequestTypes, RequestLocals, Steps,
                  LockingSteps
    <2>2. QED
      BY <1>2, <2>1, <1>frame DEF BeginAdd
  <1>3. ASSUME NEW h \in Requests, UpsertCart(h) PROVE TypeOK'
    <2>1. RequestOK'
      BY <1>3 DEF UpsertCart, ActiveCarts, AbsentCarts, Goto, orderVars, RequestOK, RequestTypes,
                  RequestLocals, Steps, LockingSteps
    <2>2. QED
      BY <1>3, <2>1, <1>frame DEF UpsertCart
  <1>4. ASSUME NEW h \in Requests, InsertItem(h) PROVE TypeOK'
    <2>1. asset[h] \in Assets /\ cart[h] \in Carts
      BY <1>4 DEF InsertItem, RequestOK, RequestLocals, LockingSteps
    <2>2. CASE asset[h] \notin deleted
      <3>1. /\ cartStatus' = [cartStatus EXCEPT ![cart[h]] = "active"]
            /\ cartItems' = [cartItems EXCEPT ![cart[h]][asset[h]] = license[h]]
            /\ UNCHANGED <<deleted, orderVars, checkoutUrl>>
        BY <1>4, <2>2 DEF InsertItem
      <3>2. license[h] \in Licenses \cup {None} /\ cartItems[cart[h]] \in Contents
        BY <2>1 DEF RequestOK, RequestTypes, RowTypes
      <3>3. [cartItems[cart[h]] EXCEPT ![asset[h]] = license[h]] \in Contents
        BY <2>1, <3>2, ContentsFacts
      <3>4. cartItems' \in [Carts -> Contents]
        BY <2>1, <3>1, <3>3 DEF RowTypes
      <3>5. RowTypes'
        BY <2>1, <3>1, <3>4 DEF RowTypes, orderVars
      <3>6. RequestOK'
        BY <1>4, <2>2 DEF InsertItem, Goto, orderVars, RequestOK, RequestTypes, RequestLocals,
                          Steps, LockingSteps
      <3>7. QED
        BY <1>4, <3>5, <3>6, <1>frame DEF InsertItem
    <2>3. CASE asset[h] \in deleted
      BY <1>4, <2>3, <1>frame, EndOK DEF InsertItem, orderVars
    <2>4. QED
      BY <2>2, <2>3
  <1>5. ASSUME NEW h \in Requests, NEW a \in Assets, BeginRemove(h, a) PROVE TypeOK'
    <2>1. RequestOK'
      BY <1>5 DEF BeginRemove, Goto, orderVars, RequestOK, RequestTypes, RequestLocals, Steps,
                  LockingSteps
    <2>2. QED
      BY <1>5, <2>1, <1>frame DEF BeginRemove
  <1>6. ASSUME NEW h \in Requests, DeleteItem(h) PROVE TypeOK'
    <2>1. asset[h] \in Assets
      BY <1>6 DEF DeleteItem, RequestOK, RequestLocals
    <2>2. cartItems' \in [Carts -> Contents]
      BY <1>6, <2>1, ContentsFacts DEF DeleteItem, RowTypes
    <2>3. RowTypes'
      BY <1>6, <2>2 DEF DeleteItem, RowTypes, orderVars
    <2>4. RequestOK'
      BY <1>6 DEF DeleteItem, Goto, orderVars, RequestOK, RequestTypes, RequestLocals, Steps,
                  LockingSteps
    <2>5. QED
      BY <1>6, <2>3, <2>4, <1>frame DEF DeleteItem
  <1>7. ASSUME NEW h \in Requests, BeginGet(h) PROVE TypeOK'
    <2>1. RequestOK'
      BY <1>7 DEF BeginGet, Goto, orderVars, RequestOK, RequestTypes, RequestLocals, Steps,
                  LockingSteps
    <2>2. QED
      BY <1>7, <2>1, <1>frame DEF BeginGet
  <1>8. ASSUME NEW h \in Requests, BuyerCart(h) PROVE TypeOK'
    <2>1. RowTypes'
      BY <1>8 DEF BuyerCart, RowTypes, orderVars
    <2>2. RequestOK'
      BY <1>8, EndOK DEF BuyerCart, orderVars
    <2>3. QED
      BY <1>8, <2>1, <2>2, <1>frame DEF BuyerCart
  <1>9. ASSUME NEW h \in Requests, NEW k \in Keys, BeginCheckout(h, k) PROVE TypeOK'
    <2>1. RequestOK'
      BY <1>9 DEF BeginCheckout, Goto, orderVars, RequestOK, RequestTypes, RequestLocals, Steps,
                  LockingSteps
    <2>2. QED
      BY <1>9, <2>1, <1>frame DEF BeginCheckout
  <1>10. ASSUME NEW h \in Requests, FindOrder(h) PROVE TypeOK'
    <2>1. RequestOK'
      <3>1. CASE Goto(h, "lockCart") /\ UNCHANGED <<asset, license, key, cart, order, sum, items>>
        BY <1>10, <3>1 DEF FindOrder, Goto, orderVars, RequestOK, RequestTypes, RequestLocals,
                           Steps, LockingSteps
      <3>2. ASSUME NEW o \in OrdersOf(key[h]), Goto(h, "initialize"),
                   order' = [order EXCEPT ![h] = o],
                   UNCHANGED <<asset, license, key, cart, sum, items>>
            PROVE  RequestOK'
        BY <1>10, <3>2 DEF FindOrder, OrdersOf, Goto, orderVars, RequestOK, RequestTypes,
                           RequestLocals, Steps, LockingSteps
      <3>3. CASE End(h)
        BY <1>10, <3>3, EndOK DEF FindOrder, orderVars
      <3>4. QED
        BY <1>10, <3>1, <3>2, <3>3 DEF FindOrder
    <2>2. QED
      BY <1>10, <2>1, <1>frame DEF FindOrder
  <1>11. ASSUME NEW h \in Requests, LockCart(h) PROVE TypeOK'
    <2>1. RequestOK'
      <3>1. ASSUME NEW c \in ActiveCarts, cart' = [cart EXCEPT ![h] = c], Goto(h, "insertOrder"),
                   UNCHANGED <<asset, license, key, order, sum, items>>
            PROVE  RequestOK'
        BY <1>11, <3>1 DEF LockCart, ActiveCarts, Goto, orderVars, RequestOK, RequestTypes,
                           RequestLocals, Steps, LockingSteps
      <3>2. CASE End(h)
        BY <1>11, <3>2, EndOK DEF LockCart, orderVars
      <3>3. QED
        BY <1>11, <3>1, <3>2 DEF LockCart
    <2>2. QED
      BY <1>11, <2>1, <1>frame DEF LockCart
  <1>12. ASSUME NEW h \in Requests, InsertOrder(h) PROVE TypeOK'
    <2>1. RequestOK'
      <3>1. CASE /\ sum' = [sum EXCEPT ![h] = cartItems[cart[h]]]
                 /\ Goto(h, "insertOrderItems")
                 /\ UNCHANGED <<asset, license, key, cart, order, items>>
        BY <1>12, <3>1 DEF InsertOrder, Goto, orderVars, RowTypes, RequestOK, RequestTypes,
                           RequestLocals, Steps, LockingSteps
      <3>2. CASE End(h)
        BY <1>12, <3>2, EndOK DEF InsertOrder, orderVars
      <3>3. QED
        BY <1>12, <3>1, <3>2 DEF InsertOrder
    <2>2. QED
      BY <1>12, <2>1, <1>frame DEF InsertOrder
  <1>13. ASSUME NEW h \in Requests, InsertOrderItems(h) PROVE TypeOK'
    <2>1. RequestOK'
      BY <1>13 DEF InsertOrderItems, Goto, orderVars, RowTypes, RequestOK, RequestTypes,
                   RequestLocals, Steps, LockingSteps
    <2>2. QED
      BY <1>13, <2>1, <1>frame DEF InsertOrderItems
  <1>14. ASSUME NEW h \in Requests, ConvertCart(h) PROVE TypeOK'
    <2>1. PICK o \in Orders :
              /\ orderStatus[o] = "absent"
              /\ orderStatus' = [orderStatus EXCEPT ![o] = "pending_payment"]
              /\ orderKey' = [orderKey EXCEPT ![o] = key[h]]
              /\ total' = [total EXCEPT ![o] = sum[h]]
              /\ orderItems' = [orderItems EXCEPT ![o] = items[h]]
              /\ orderCart' = [orderCart EXCEPT ![o] = cart[h]]
              /\ order' = [order EXCEPT ![h] = o]
      BY <1>14 DEF ConvertCart
    <2>2. RowTypes'
      BY <1>14, <2>1 DEF ConvertCart, RowTypes, RequestOK, RequestTypes
    <2>3. RequestOK'
      BY <1>14, <2>1, ContentsFacts
         DEF ConvertCart, Goto, RowTypes, RequestOK, RequestTypes, RequestLocals, Steps,
             LockingSteps
    <2>4. QED
      BY <1>14, <2>2, <2>3, <1>frame DEF ConvertCart
  <1>15. ASSUME NEW h \in Requests, Initialize(h) PROVE TypeOK'
    <2>1. RequestOK'
      BY <1>15 DEF Initialize, Goto, orderVars, RequestOK, RequestTypes, RequestLocals, Steps,
                   LockingSteps
    <2>2. QED
      BY <1>15, <2>1, <1>frame DEF Initialize
  <1>16. ASSUME NEW h \in Requests, SetCheckoutURL(h) PROVE TypeOK'
    <2>1. RowTypes'
      BY <1>16 DEF SetCheckoutURL, RowTypes, RequestOK, RequestLocals, cartVars, orderVars
    <2>2. RequestOK'
      BY <1>16, EndOK DEF SetCheckoutURL, orderVars
    <2>3. QED
      BY <1>16, <2>1, <2>2, <1>frame DEF SetCheckoutURL
  <1>17. ASSUME NEW e \in Events, NEW o \in Orders, Charge(e, o) PROVE TypeOK'
    <2>1. PaymentTypes'
      BY <1>17 DEF Charge, PaymentTypes, paymentVars
    <2>2. QED
      BY <1>17, <2>1, <1>frame DEF Charge, orderVars
  <1>18. ASSUME NEW e \in Events, MarkOrderPaid(e) PROVE TypeOK'
    <2>1. chargeOf[e] \in Orders
      BY <1>18 DEF MarkOrderPaid, Reported, PaymentTypes
    <2>2. RowTypes'
      BY <1>18, <2>1 DEF MarkOrderPaid, Reported, RowTypes, cartVars
    <2>3. PaymentTypes'
      BY <1>18, <2>1, ContentsFacts DEF MarkOrderPaid, Reported, RowTypes, PaymentTypes, providerVars
    <2>4. RequestOK'
      BY <1>18, <2>1 DEF MarkOrderPaid, Reported, requestVars, RowTypes, RequestOK, RequestTypes,
                         RequestLocals
    <2>5. QED
      BY <2>2, <2>3, <2>4, <1>frame
  <1>19. ASSUME NEW o \in Orders, NEW a \in Assets, LicensedDownload(o, a) PROVE TypeOK'
    <2>1. PaymentTypes'
      BY <1>19 DEF LicensedDownload, PaymentTypes, paymentVars, providerVars
    <2>2. QED
      BY <1>19, <2>1, <1>frame DEF LicensedDownload, orderVars
  <1>20. ASSUME NEW a \in Assets, DeleteAsset(a) PROVE TypeOK'
    <2>1. RowTypes'
      BY <1>20 DEF DeleteAsset, RowTypes, cartVars, orderVars
    <2>2. QED
      BY <1>20, <2>1, <1>frame DEF DeleteAsset, orderVars
  <1>21. CASE UNCHANGED vars
    BY <1>21, <1>frame DEF vars, orderVars
  <1>22. QED
    BY <1>1, <1>2, <1>3, <1>4, <1>5, <1>6, <1>7, <1>8, <1>9, <1>10, <1>11, <1>12, <1>13, <1>14,
       <1>15, <1>16, <1>17, <1>18, <1>19, <1>20, <1>21
       DEF Next, CartStep, CheckoutStep

\* Every variable holds a value of its kind, and no handler takes a step
\* without the cart, item or order the step needs.
THEOREM CommerceTypes == Spec => []TypeOK
  BY TypeInit, TypeStep, PTL DEF Spec


-----------------------------------------------------------------------------
(* The lock of the cart, and what an order says of its cart *)

\* One transaction at a time holds the buyer's cart.
OneLockHolder ==
    \A g, h \in Requests : at[g] \in LockingSteps /\ at[h] \in LockingSteps => g = h

OneActiveCart == \A c, d \in ActiveCarts : c = d

\* A locked cart is the active one, or is about to be inserted as such.
LockedIsActive ==
    \A h \in Requests : at[h] \in LockingSteps =>
        \/ cart[h] \in ActiveCarts
        \/ at[h] = "insertItem" /\ cart[h] \in AbsentCarts /\ ActiveCarts = {}

\* Once the order row is inserted nobody else commits an order with its key,
\* and once the items are copied the cart can only lose some.
CheckoutHolds ==
    \A h \in Requests :
        /\ at[h] \in {"insertOrderItems", "convertCart"} => OrdersOf(key[h]) = {}
        /\ at[h] = "convertCart" =>
            \A a \in Licensed(cartItems[cart[h]]) : items[h][a] = cartItems[cart[h]][a]

OrderedCartsAreConverted ==
    \A o \in Orders : orderStatus[o] # "absent" =>
        orderCart[o] \in Carts /\ cartStatus[orderCart[o]] = "converted"

CartInv ==
    /\ OneLockHolder
    /\ OneActiveCart
    /\ LockedIsActive
    /\ CheckoutHolds
    /\ OrderedCartsAreConverted
    /\ CheckoutIsIdempotent
    /\ ConvertedItemsAreOrdered

\* At first no cart is locked and none has an order.
LEMMA CartInit == Init => CartInv
  BY DEF Init, CartInv, OneLockHolder, OneActiveCart, LockedIsActive, CheckoutHolds,
         OrderedCartsAreConverted, CheckoutIsIdempotent, ConvertedItemsAreOrdered, LockingSteps,
         ActiveCarts

(***************************************************************************)
(* Steps that commit no change of a cart or order, and in which h ends up  *)
(* without a lock or keeps the one it has.                                 *)
(***************************************************************************)
TablesKept ==
    /\ UNCHANGED <<cartVars, orderKey, orderItems, orderCart>>
    /\ \A o \in Orders : orderStatus'[o] = "absent" <=> orderStatus[o] = "absent"

\* A step that keeps the tables keeps every part of them.
LEMMA TablesKeptFacts ==
  ASSUME TablesKept
  PROVE  /\ ActiveCarts' = ActiveCarts
         /\ AbsentCarts' = AbsentCarts
         /\ \A k : OrdersOf(k)' = OrdersOf(k)
         /\ OneActiveCart => OneActiveCart'
         /\ OrderedCartsAreConverted => OrderedCartsAreConverted'
         /\ CheckoutIsIdempotent => CheckoutIsIdempotent'
         /\ ConvertedItemsAreOrdered => ConvertedItemsAreOrdered'
  <1>1. ActiveCarts' = ActiveCarts /\ AbsentCarts' = AbsentCarts
    BY DEF TablesKept, cartVars, ActiveCarts, AbsentCarts
  <1>2. ASSUME NEW k PROVE OrdersOf(k)' = OrdersOf(k)
    BY DEF TablesKept, OrdersOf
  <1>3. OneActiveCart => OneActiveCart'
    BY <1>1 DEF OneActiveCart
  <1>4. OrderedCartsAreConverted => OrderedCartsAreConverted'
    BY DEF TablesKept, cartVars, OrderedCartsAreConverted
  <1>5. CheckoutIsIdempotent => CheckoutIsIdempotent'
    BY DEF TablesKept, CheckoutIsIdempotent
  <1>6. ConvertedItemsAreOrdered => ConvertedItemsAreOrdered'
    BY DEF TablesKept, cartVars, Licensed, ConvertedItemsAreOrdered
  <1>7. QED
    BY <1>1, <1>2, <1>3, <1>4, <1>5, <1>6

\* Requests other than h keep their step and what they hold.
OthersKept(h) ==
    \A g \in Requests \ {h} :
        /\ at'[g] = at[g]
        /\ cart'[g] = cart[g]
        /\ key'[g] = key[g]
        /\ items'[g] = items[g]

\* A request may let go of its lock at any step that commits nothing.
LEMMA Unlocking ==
  ASSUME CartInv, NEW h \in Requests, TablesKept, OthersKept(h), at'[h] \notin LockingSteps
  PROVE  CartInv'
  <1>1. OneLockHolder' /\ LockedIsActive'
    BY TablesKeptFacts DEF CartInv, OneLockHolder, LockedIsActive, OthersKept
  <1>2. CheckoutHolds'
    BY TablesKeptFacts DEF CartInv, CheckoutHolds, OthersKept, LockingSteps, TablesKept, cartVars,
                           Licensed
  <1>3. QED
    BY <1>1, <1>2, TablesKeptFacts DEF CartInv

\* A request that ends holds no lock.
LEMMA EndUnlocks ==
  ASSUME TypeOK, NEW h \in Requests, End(h)
  PROVE  OthersKept(h) /\ at'[h] \notin LockingSteps
  BY DEF End, Goto, OthersKept, LockingSteps, TypeOK, RequestTypes

\* A request that goes on outside its transaction holds no lock.
LEMMA GotoUnlocks ==
  ASSUME TypeOK, NEW h \in Requests, NEW step, step \notin LockingSteps, Goto(h, step),
         UNCHANGED <<cart, items>>, \A g \in Requests \ {h} : key'[g] = key[g]
  PROVE  OthersKept(h) /\ at'[h] \notin LockingSteps
  BY DEF Goto, OthersKept, TypeOK, RequestTypes

\* Every step keeps carts and orders in agreement.
LEMMA CartStepInv == TypeOK /\ CartInv /\ [Next]_vars => CartInv'
  <1> SUFFICES ASSUME TypeOK, CartInv, [Next]_vars PROVE CartInv'
    OBVIOUS
  <1>kept. UNCHANGED <<cartVars, orderVars>> => TablesKept
    BY DEF TablesKept, orderVars
  <1>1. ASSUME NEW h \in Requests, Abort(h) PROVE CartInv'
    BY <1>1, <1>kept, EndUnlocks, Unlocking DEF Abort
  <1>2. ASSUME NEW h \in Requests, NEW a \in Assets, NEW l \in Licenses, BeginAdd(h, a, l)
        PROVE  CartInv'
    BY <1>2, <1>kept, GotoUnlocks, Unlocking DEF BeginAdd, LockingSteps
  <1>3. ASSUME NEW h \in Requests, UpsertCart(h) PROVE CartInv'
    <2>1. \A g \in Requests : at[g] \notin LockingSteps
      BY <1>3 DEF UpsertCart, Locked
    <2>2. PICK c \in IF ActiveCarts # {} THEN ActiveCarts ELSE AbsentCarts :
            cart' = [cart EXCEPT ![h] = c]
      BY <1>3 DEF UpsertCart
    <2>3. TablesKept
      BY <1>3, <1>kept DEF UpsertCart
    <2>4. at' = [at EXCEPT ![h] = "insertItem"] /\ UNCHANGED <<key, items>>
      BY <1>3 DEF UpsertCart, Goto
    <2>5. \A g \in Requests : at'[g] \in LockingSteps => g = h
      BY <2>1, <2>4 DEF TypeOK, RequestTypes
    <2>6. at'[h] = "insertItem" /\ cart'[h] = c
      BY <2>2, <2>4 DEF TypeOK, RequestTypes
    <2>7. OneLockHolder' /\ LockedIsActive'
      BY <2>3, <2>5, <2>6, TablesKeptFacts DEF OneLockHolder, LockedIsActive
    <2>8. CheckoutHolds'
      BY <2>5, <2>6 DEF CheckoutHolds, LockingSteps
    <2>9. QED
      BY <2>3, <2>7, <2>8, TablesKeptFacts DEF CartInv
  <1>4. ASSUME NEW h \in Requests, InsertItem(h) PROVE CartInv'
    <2>1. CASE asset[h] \in deleted
      <3>1. End(h) /\ TablesKept
        BY <1>4, <2>1, <1>kept DEF InsertItem
      <3>2. QED
        BY <3>1, EndUnlocks, Unlocking
    <2>2. CASE asset[h] \notin deleted
      <3>1. /\ cartStatus' = [cartStatus EXCEPT ![cart[h]] = "active"]
            /\ cartItems' = [cartItems EXCEPT ![cart[h]][asset[h]] = license[h]]
            /\ at' = [at EXCEPT ![h] = "buyerCart"]
            /\ cart' = [cart EXCEPT ![h] = None]
            /\ UNCHANGED <<key, items, orderVars>>
        BY <1>4, <2>2 DEF InsertItem, Goto
      <3>2. at[h] = "insertItem" /\ cart[h] \in Carts
        BY <1>4 DEF InsertItem, TypeOK, RequestLocals, LockingSteps
      <3>3. \A g \in Requests : at'[g] \notin LockingSteps
        BY <3>1, <3>2 DEF CartInv, OneLockHolder, LockingSteps, TypeOK, RequestTypes
      <3>4. \/ cart[h] \in ActiveCarts
            \/ cart[h] \in AbsentCarts /\ ActiveCarts = {}
        BY <3>2 DEF CartInv, LockedIsActive, LockingSteps
      <3>5. ActiveCarts' = ActiveCarts \cup {cart[h]}
        BY <3>1, <3>2 DEF ActiveCarts, TypeOK, RowTypes
      <3>6. OneActiveCart'
        BY <3>4, <3>5 DEF CartInv, OneActiveCart
      <3>7. ASSUME NEW o \in Orders, orderStatus[o] # "absent"
            PROVE  /\ orderCart[o] \in Carts
                   /\ cartStatus'[orderCart[o]] = "converted"
                   /\ cartItems'[orderCart[o]] = cartItems[orderCart[o]]
        <4>1. orderCart[o] \in Carts /\ cartStatus[orderCart[o]] = "converted"
          BY <3>7 DEF CartInv, OrderedCartsAreConverted
        <4>2. orderCart[o] # cart[h]
          BY <3>4, <4>1 DEF ActiveCarts, AbsentCarts
        <4>3. QED
          BY <3>1, <3>2, <4>1, <4>2 DEF TypeOK, RowTypes
      <3>8. OrderedCartsAreConverted' /\ CheckoutIsIdempotent' /\ ConvertedItemsAreOrdered'
        BY <3>1, <3>7 DEF CartInv, OrderedCartsAreConverted, CheckoutIsIdempotent, Licensed,
                          ConvertedItemsAreOrdered, orderVars
      <3>9. OneLockHolder' /\ LockedIsActive' /\ CheckoutHolds'
        BY <3>3 DEF OneLockHolder, LockedIsActive, CheckoutHolds, LockingSteps
      <3>10. QED
        BY <3>6, <3>8, <3>9 DEF CartInv
    <2>3. QED
      BY <2>1, <2>2
  <1>5. ASSUME NEW h \in Requests, NEW a \in Assets, BeginRemove(h, a) PROVE CartInv'
    BY <1>5, <1>kept, GotoUnlocks, Unlocking DEF BeginRemove, LockingSteps
  <1>6. ASSUME NEW h \in Requests, DeleteItem(h) PROVE CartInv'
    <2>1. /\ cartItems' = [c \in Carts |-> IF c \in ActiveCarts
                                             THEN [cartItems[c] EXCEPT ![asset[h]] = None]
                                             ELSE cartItems[c]]
          /\ at' = [at EXCEPT ![h] = "buyerCart"]
          /\ UNCHANGED <<key, cart, items, cartStatus, orderVars>>
      BY <1>6 DEF DeleteItem, Goto
    <2>2. at[h] = "deleteItem" /\ asset[h] \in Assets
      BY <1>6 DEF DeleteItem, TypeOK, RequestLocals
    <2>3. /\ ActiveCarts' = ActiveCarts
          /\ AbsentCarts' = AbsentCarts
          /\ \A k : OrdersOf(k)' = OrdersOf(k)
      BY <2>1 DEF ActiveCarts, AbsentCarts, OrdersOf, orderVars
    <2>4. \A g \in Requests : at'[g] \in LockingSteps => g # h /\ at'[g] = at[g]
      BY <2>1 DEF LockingSteps, TypeOK, RequestTypes
    <2>5. \A c \in Carts : \A a \in Licensed(cartItems'[c]) :
            a \in Licensed(cartItems[c]) /\ cartItems'[c][a] = cartItems[c][a]
      BY <2>1, <2>2 DEF Licensed, Contents, TypeOK, RowTypes
    <2>6. OneLockHolder' /\ LockedIsActive' /\ OneActiveCart'
      BY <2>1, <2>3, <2>4 DEF CartInv, OneLockHolder, LockedIsActive, OneActiveCart
    <2>7. CheckoutHolds'
      <3>1. ASSUME NEW g \in Requests, at'[g] \in {"insertOrderItems", "convertCart"}
            PROVE  OrdersOf(key[g])' = {}
        <4>1. at[g] \in {"insertOrderItems", "convertCart"}
          BY <2>4, <3>1 DEF LockingSteps
        <4>2. OrdersOf(key[g]) = {}
          BY <4>1 DEF CartInv, CheckoutHolds
        <4>3. QED
          BY <2>1, <4>2 DEF OrdersOf, orderVars
      <3>2. ASSUME NEW g \in Requests, at'[g] = "convertCart",
                   NEW a \in Licensed(cartItems'[cart[g]])
            PROVE  items[g][a] = cartItems'[cart[g]][a]
        <4>1. at[g] = "convertCart"
          BY <2>4, <3>2 DEF LockingSteps
        <4>2. cart[g] \in Carts
          BY <4>1 DEF TypeOK, RequestLocals, LockingSteps
        <4>3. QED
          BY <2>5, <3>2, <4>1, <4>2 DEF CartInv, CheckoutHolds
      <3>3. QED
        BY <2>1, <3>1, <3>2 DEF CheckoutHolds, Licensed, OrdersOf
    <2>8. OrderedCartsAreConverted' /\ CheckoutIsIdempotent'
      BY <2>1 DEF CartInv, OrderedCartsAreConverted, CheckoutIsIdempotent, orderVars
    <2>9. ConvertedItemsAreOrdered'
      <3>1. ASSUME NEW o \in Orders, orderStatus[o] # "absent"
            PROVE  cartItems'[orderCart[o]] = cartItems[orderCart[o]]
        BY <2>1, <3>1 DEF CartInv, OrderedCartsAreConverted, ActiveCarts
      <3>2. UNCHANGED <<orderStatus, orderItems, orderCart>>
        BY <2>1 DEF orderVars
      <3>3. ConvertedItemsAreOrdered
        BY DEF CartInv
      <3>4. QED
        BY <3>1, <3>2, <3>3 DEF ConvertedItemsAreOrdered, Licensed
    <2>10. QED
      BY <2>6, <2>7, <2>8, <2>9 DEF CartInv
  <1>7. ASSUME NEW h \in Requests, BeginGet(h) PROVE CartInv'
    BY <1>7, <1>kept, GotoUnlocks, Unlocking DEF BeginGet, LockingSteps
  <1>8. ASSUME NEW h \in Requests, BuyerCart(h) PROVE CartInv'
    <2>1. CASE ActiveCarts # {}
      <3>1. End(h) /\ TablesKept
        BY <1>8, <2>1, <1>kept DEF BuyerCart, cartVars
      <3>2. QED
        BY <3>1, EndUnlocks, Unlocking
    <2>2. CASE ActiveCarts = {}
      <3>1. PICK c \in AbsentCarts : cartStatus' = [cartStatus EXCEPT ![c] = "active"]
        BY <1>8, <2>2 DEF BuyerCart
      <3>2. UNCHANGED <<cartItems, orderVars>> /\ End(h)
        BY <1>8 DEF BuyerCart
      <3>3. \A g \in Requests : at'[g] \notin LockingSteps
        BY <1>8, <3>2, EndUnlocks DEF BuyerCart, Locked, OthersKept
      <3>4. OneActiveCart'
        BY <2>2, <3>1 DEF OneActiveCart, ActiveCarts, AbsentCarts, TypeOK, RowTypes
      <3>5. OrderedCartsAreConverted' /\ CheckoutIsIdempotent' /\ ConvertedItemsAreOrdered'
        BY <3>1, <3>2 DEF CartInv, OrderedCartsAreConverted, CheckoutIsIdempotent, AbsentCarts,
                          ConvertedItemsAreOrdered, Licensed, orderVars, TypeOK, RowTypes
      <3>6. OneLockHolder' /\ LockedIsActive' /\ CheckoutHolds'
        BY <3>3 DEF OneLockHolder, LockedIsActive, CheckoutHolds, LockingSteps
      <3>7. QED
        BY <3>4, <3>5, <3>6 DEF CartInv
    <2>3. QED
      BY <2>1, <2>2
  <1>9. ASSUME NEW h \in Requests, NEW k \in Keys, BeginCheckout(h, k) PROVE CartInv'
    <2>1. \A g \in Requests \ {h} : key'[g] = key[g]
      BY <1>9 DEF BeginCheckout, TypeOK, RequestTypes
    <2>2. QED
      BY <1>9, <2>1, <1>kept, GotoUnlocks, Unlocking DEF BeginCheckout, LockingSteps
  <1>10. ASSUME NEW h \in Requests, FindOrder(h) PROVE CartInv'
    <2>1. TablesKept
      BY <1>10, <1>kept DEF FindOrder
    <2>2. CASE End(h)
      BY <2>1, <2>2, EndUnlocks, Unlocking
    <2>3. CASE Goto(h, "lockCart") /\ UNCHANGED <<key, cart, items>>
      BY <2>1, <2>3, GotoUnlocks, Unlocking DEF LockingSteps
    <2>4. CASE Goto(h, "initialize") /\ UNCHANGED <<key, cart, items>>
      BY <2>1, <2>4, GotoUnlocks, Unlocking DEF LockingSteps
    <2>5. QED
      BY <1>10, <2>2, <2>3, <2>4 DEF FindOrder
  <1>11. ASSUME NEW h \in Requests, LockCart(h) PROVE CartInv'
    <2>1. TablesKept
      BY <1>11, <1>kept DEF LockCart
    <2>2. CASE End(h)
      BY <2>1, <2>2, EndUnlocks, Unlocking
    <2>3. ASSUME NEW c \in ActiveCarts \ Locked, cart' = [cart EXCEPT ![h] = c],
                 Goto(h, "insertOrder")
          PROVE  CartInv'
      <3>1. \A g \in Requests : at[g] \notin LockingSteps
        <4> SUFFICES ASSUME NEW g \in Requests, at[g] \in LockingSteps PROVE FALSE
          OBVIOUS
        <4>1. cart[g] \in ActiveCarts
          BY <2>3 DEF CartInv, LockedIsActive
        <4>2. cart[g] = c
          BY <2>3, <4>1 DEF CartInv, OneActiveCart
        <4>3. QED
          BY <2>3, <4>2 DEF Locked
      <3>2. \A g \in Requests : at'[g] \in LockingSteps => g = h
        BY <2>3, <3>1 DEF Goto, TypeOK, RequestTypes
      <3>3. at'[h] = "insertOrder" /\ cart'[h] = c
        BY <2>3 DEF Goto, TypeOK, RequestTypes
      <3>4. OneLockHolder' /\ LockedIsActive'
        BY <2>1, <2>3, <3>2, <3>3, TablesKeptFacts DEF OneLockHolder, LockedIsActive
      <3>5. CheckoutHolds'
        BY <3>2, <3>3 DEF CheckoutHolds, LockingSteps
      <3>6. QED
        BY <2>1, <3>4, <3>5, TablesKeptFacts DEF CartInv
    <2>4. QED
      BY <1>11, <2>2, <2>3 DEF LockCart
  <1>12. ASSUME NEW h \in Requests, InsertOrder(h) PROVE CartInv'
    <2>1. TablesKept
      BY <1>12, <1>kept DEF InsertOrder
    <2>2. CASE End(h)
      BY <2>1, <2>2, EndUnlocks, Unlocking
    <2>3. CASE /\ OrdersOf(key[h]) = {}
               /\ Goto(h, "insertOrderItems")
               /\ UNCHANGED <<key, cart, items>>
      <3>1. at[h] = "insertOrder"
        BY <1>12 DEF InsertOrder
      <3>2. at' = [at EXCEPT ![h] = "insertOrderItems"] /\ at'[h] = "insertOrderItems"
        BY <2>3 DEF Goto, TypeOK, RequestTypes
      <3>3. \A g \in Requests : at'[g] \in LockingSteps => g = h
        BY <3>1, <3>2 DEF CartInv, OneLockHolder, LockingSteps, TypeOK, RequestTypes
      <3>4. cart[h] \in ActiveCarts
        BY <3>1 DEF CartInv, LockedIsActive, LockingSteps
      <3>5. OneLockHolder' /\ LockedIsActive'
        BY <2>1, <2>3, <3>3, <3>4, TablesKeptFacts DEF OneLockHolder, LockedIsActive
      <3>6. CheckoutHolds'
        BY <2>1, <2>3, <3>2, <3>3, TablesKeptFacts DEF CheckoutHolds, LockingSteps
      <3>7. QED
        BY <2>1, <3>5, <3>6, TablesKeptFacts DEF CartInv
    <2>4. QED
      BY <1>12, <2>2, <2>3 DEF InsertOrder
  <1>13. ASSUME NEW h \in Requests, InsertOrderItems(h) PROVE CartInv'
    <2>1. TablesKept
      BY <1>13, <1>kept DEF InsertOrderItems
    <2>2. /\ items' = [items EXCEPT ![h] = cartItems[cart[h]]]
          /\ at[h] = "insertOrderItems"
          /\ at' = [at EXCEPT ![h] = "convertCart"]
          /\ UNCHANGED <<key, cart>>
      BY <1>13 DEF InsertOrderItems, Goto
    <2>3. at'[h] = "convertCart" /\ items'[h] = cartItems[cart[h]]
      BY <2>2 DEF TypeOK, RequestTypes
    <2>4. \A g \in Requests : at'[g] \in LockingSteps => g = h
      BY <2>2 DEF CartInv, OneLockHolder, LockingSteps, TypeOK, RequestTypes
    <2>5. cart[h] \in ActiveCarts /\ OrdersOf(key[h]) = {}
      BY <2>2 DEF CartInv, LockedIsActive, CheckoutHolds, LockingSteps
    <2>6. OneLockHolder' /\ LockedIsActive'
      BY <2>1, <2>2, <2>4, <2>5, TablesKeptFacts DEF OneLockHolder, LockedIsActive
    <2>7. CheckoutHolds'
      BY <2>1, <2>2, <2>3, <2>4, <2>5, TablesKeptFacts
         DEF CheckoutHolds, LockingSteps, TablesKept, cartVars
    <2>8. QED
      BY <2>1, <2>6, <2>7, TablesKeptFacts DEF CartInv
  <1>14. ASSUME NEW h \in Requests, ConvertCart(h) PROVE CartInv'
    <2>1. PICK o \in Orders :
              /\ orderStatus[o] = "absent"
              /\ orderStatus' = [orderStatus EXCEPT ![o] = "pending_payment"]
              /\ orderKey' = [orderKey EXCEPT ![o] = key[h]]
              /\ orderItems' = [orderItems EXCEPT ![o] = items[h]]
              /\ orderCart' = [orderCart EXCEPT ![o] = cart[h]]
      BY <1>14 DEF ConvertCart
    <2>2. /\ at[h] = "convertCart"
          /\ cartStatus' = [cartStatus EXCEPT ![cart[h]] = "converted"]
          /\ at' = [at EXCEPT ![h] = "initialize"]
          /\ UNCHANGED cartItems
      BY <1>14 DEF ConvertCart, Goto
    <2>3. cart[h] \in Carts /\ cartStatus[cart[h]] = "active" /\ OrdersOf(key[h]) = {}
      BY <2>2 DEF CartInv, LockedIsActive, CheckoutHolds, LockingSteps, ActiveCarts
    <2>4. \A g \in Requests : at'[g] \notin LockingSteps
      BY <2>2 DEF CartInv, OneLockHolder, LockingSteps, TypeOK, RequestTypes
    <2>5. OneLockHolder' /\ LockedIsActive' /\ CheckoutHolds'
      BY <2>4 DEF OneLockHolder, LockedIsActive, CheckoutHolds, LockingSteps
    <2>6. OneActiveCart'
      BY <2>2, <2>3 DEF CartInv, OneActiveCart, ActiveCarts, TypeOK, RowTypes
    <2>7. /\ orderStatus'[o] = "pending_payment"
          /\ orderKey'[o] = key[h]
          /\ orderItems'[o] = items[h]
          /\ orderCart'[o] = cart[h]
          /\ cartStatus'[cart[h]] = "converted"
      BY <2>1, <2>2, <2>3 DEF TypeOK, RowTypes
    <2>8. ASSUME NEW p \in Orders, p # o
          PROVE  /\ orderStatus'[p] = orderStatus[p]
                 /\ orderKey'[p] = orderKey[p]
                 /\ orderItems'[p] = orderItems[p]
                 /\ orderCart'[p] = orderCart[p]
      BY <2>1, <2>8 DEF TypeOK, RowTypes
    <2>9. ASSUME NEW p \in Orders, orderStatus[p] # "absent"
          PROVE  /\ orderKey[p] # key[h]
                 /\ orderCart[p] \in Carts
                 /\ orderCart[p] # cart[h]
                 /\ cartStatus'[orderCart[p]] = "converted"
      BY <2>2, <2>3, <2>9 DEF CartInv, OrderedCartsAreConverted, OrdersOf, TypeOK, RowTypes
    <2>10. OrderedCartsAreConverted'
      BY <2>3, <2>7, <2>8, <2>9 DEF OrderedCartsAreConverted
    <2>11. CheckoutIsIdempotent'
      BY <2>7, <2>8, <2>9 DEF CartInv, CheckoutIsIdempotent
    <2>12. ConvertedItemsAreOrdered'
      <3>1. \A a \in Licensed(cartItems[cart[h]]) : items[h][a] = cartItems[cart[h]][a]
        BY <2>2 DEF CartInv, CheckoutHolds
      <3>2. QED
        BY <2>2, <2>7, <2>8, <3>1 DEF CartInv, ConvertedItemsAreOrdered, Licensed
    <2>13. QED
      BY <2>5, <2>6, <2>10, <2>11, <2>12 DEF CartInv
  <1>15. ASSUME NEW h \in Requests, Initialize(h) PROVE CartInv'
    BY <1>15, <1>kept, GotoUnlocks, Unlocking DEF Initialize, LockingSteps
  <1>16. ASSUME NEW h \in Requests, SetCheckoutURL(h) PROVE CartInv'
    BY <1>16, <1>kept, EndUnlocks, Unlocking DEF SetCheckoutURL
  <1>idle. UNCHANGED requestVars /\ TablesKept => CartInv'
    <2> SUFFICES ASSUME UNCHANGED requestVars, TablesKept PROVE CartInv'
      OBVIOUS
    <2>1. OneLockHolder' /\ LockedIsActive'
      BY TablesKeptFacts DEF CartInv, OneLockHolder, LockedIsActive, requestVars
    <2>2. CheckoutHolds'
      BY TablesKeptFacts DEF CartInv, CheckoutHolds, requestVars, TablesKept, cartVars, Licensed
    <2>3. QED
      BY <2>1, <2>2, TablesKeptFacts DEF CartInv
  <1>17. ASSUME NEW e \in Events, NEW o \in Orders, Charge(e, o) PROVE CartInv'
    BY <1>17, <1>idle, <1>kept DEF Charge
  <1>18. ASSUME NEW e \in Events, MarkOrderPaid(e) PROVE CartInv'
    <2>1. \A o \in Orders : orderStatus'[o] = "absent" <=> orderStatus[o] = "absent"
      BY <1>18 DEF MarkOrderPaid, Reported, TypeOK, RowTypes
    <2>2. QED
      BY <1>18, <1>idle, <2>1 DEF MarkOrderPaid, Reported, TablesKept
  <1>19. ASSUME NEW o \in Orders, NEW a \in Assets, LicensedDownload(o, a) PROVE CartInv'
    BY <1>19, <1>idle, <1>kept DEF LicensedDownload
  <1>20. ASSUME NEW a \in Assets, DeleteAsset(a) PROVE CartInv'
    BY <1>20, <1>idle, <1>kept DEF DeleteAsset
  <1>21. CASE UNCHANGED vars
    BY <1>21, <1>idle, <1>kept DEF vars
  <1>22. QED
    BY <1>1, <1>2, <1>3, <1>4, <1>5, <1>6, <1>7, <1>8, <1>9, <1>10, <1>11, <1>12, <1>13, <1>14,
       <1>15, <1>16, <1>17, <1>18, <1>19, <1>20, <1>21
       DEF Next, CartStep, CheckoutStep

\* An idempotency key, and a cart, has at most one order, whatever checkouts
\* and additions run at once and wherever they fail.
THEOREM CheckoutsAreIdempotent == Spec => []CheckoutIsIdempotent
  <1>1. CartInv => CheckoutIsIdempotent
    BY DEF CartInv
  <1>2. QED
    BY <1>1, TypeInit, TypeStep, CartInit, CartStepInv, PTL DEF Spec

\* What a converted cart holds is in its order.
THEOREM ConversionLosesNothing == Spec => []ConvertedItemsAreOrdered
  <1>1. CartInv => ConvertedItemsAreOrdered
    BY DEF CartInv
  <1>2. QED
    BY <1>1, TypeInit, TypeStep, CartInit, CartStepInv, PTL DEF Spec

-----------------------------------------------------------------------------
(* Payments *)

RecordedIsCharged == \A e \in recorded : chargeOf[e] \in Orders

PaymentInv == RecordedIsCharged /\ EntitledIffPaid /\ PaymentsBalance

\* At first nothing is paid or granted.
LEMMA PaymentInit == Init => PaymentInv
  BY DEF Init, PaymentInv, RecordedIsCharged, EntitledIffPaid, PaymentsBalance

\* Every step keeps payments, orders and entitlements in agreement.
LEMMA PaymentStep == TypeOK /\ PaymentInv /\ [Next]_vars => PaymentInv'
  <1> SUFFICES ASSUME TypeOK, PaymentInv, [Next]_vars PROVE PaymentInv'
    OBVIOUS
  <1>frame. UNCHANGED <<paymentVars, providerVars, orderStatus, orderItems>> => PaymentInv'
    BY DEF PaymentInv, RecordedIsCharged, EntitledIffPaid, PaymentsBalance, Licensed, paymentVars,
           providerVars
  <1>1. ASSUME NEW h \in Requests, ConvertCart(h) PROVE PaymentInv'
    <2>1. PICK o \in Orders :
              /\ orderStatus[o] = "absent"
              /\ orderStatus' = [orderStatus EXCEPT ![o] = "pending_payment"]
              /\ orderItems' = [orderItems EXCEPT ![o] = items[h]]
      BY <1>1 DEF ConvertCart
    <2>2. UNCHANGED <<paymentVars, providerVars>>
      BY <1>1 DEF ConvertCart
    <2>3. \A p \in Orders : p # o => /\ orderStatus'[p] = orderStatus[p]
                                     /\ orderItems'[p] = orderItems[p]
      BY <2>1 DEF TypeOK, RowTypes
    <2>4. orderStatus'[o] = "pending_payment"
      BY <2>1 DEF TypeOK, RowTypes
    <2>5. EntitledIffPaid'
      BY <2>1, <2>2, <2>3, <2>4 DEF PaymentInv, EntitledIffPaid, Licensed, paymentVars
    <2>6. RecordedIsCharged' /\ PaymentsBalance'
      BY <2>1, <2>2, <2>3, <2>4 DEF PaymentInv, RecordedIsCharged, PaymentsBalance, paymentVars,
                                    providerVars
    <2>7. QED
      BY <2>5, <2>6 DEF PaymentInv
  <1>2. ASSUME NEW e \in Events, NEW o \in Orders, Charge(e, o) PROVE PaymentInv'
    <2>1. /\ chargeOf' = [chargeOf EXCEPT ![e] = o]
          /\ exact \subseteq exact'
          /\ UNCHANGED <<paymentVars, orderVars>>
      BY <1>2 DEF Charge
    <2>2. e \notin recorded
      BY <1>2, NoneIsNothing DEF Charge, PaymentInv, RecordedIsCharged
    <2>3. \A f \in recorded : chargeOf'[f] = chargeOf[f]
      BY <2>1, <2>2 DEF TypeOK, PaymentTypes
    <2>4. QED
      BY <2>1, <2>3 DEF PaymentInv, RecordedIsCharged, EntitledIffPaid, PaymentsBalance, Licensed,
                        paymentVars, orderVars
  <1>3. ASSUME NEW e \in Events, MarkOrderPaid(e) PROVE PaymentInv'
    <2>0. UNCHANGED <<providerVars, orderItems>>
      BY <1>3 DEF MarkOrderPaid, Reported
    <2>1. CASE e \notin recorded /\ e \in exact /\ orderStatus[chargeOf[e]] = "pending_payment"
      <3>1. /\ recorded' = recorded \cup {e}
            /\ orderStatus' = [orderStatus EXCEPT ![chargeOf[e]] = "paid"]
            /\ entitled' = [entitled EXCEPT ![chargeOf[e]] = Licensed(orderItems[chargeOf[e]])]
        BY <1>3, <2>1 DEF MarkOrderPaid, Reported
      <3>2. chargeOf[e] \in Orders
        BY <1>3 DEF MarkOrderPaid, Reported, TypeOK, PaymentTypes
      <3>3. /\ orderStatus'[chargeOf[e]] = "paid"
            /\ entitled'[chargeOf[e]] = Licensed(orderItems[chargeOf[e]])
            /\ \A p \in Orders : p # chargeOf[e] => /\ orderStatus'[p] = orderStatus[p]
                                                   /\ entitled'[p] = entitled[p]
        BY <3>1, <3>2 DEF TypeOK, RowTypes, PaymentTypes
      <3>4. EntitledIffPaid'
        BY <2>0, <3>3 DEF PaymentInv, EntitledIffPaid, Licensed
      <3>5. \A f \in recorded : chargeOf[f] \in Orders /\ chargeOf[f] # chargeOf[e]
        BY <2>1 DEF PaymentInv, RecordedIsCharged, PaymentsBalance
      <3>6. RecordedIsCharged'
        BY <2>0, <3>1, <3>2, <3>5 DEF RecordedIsCharged, providerVars
      <3>7. PaymentsBalance'
        <4>1. \A f \in recorded' : f \in exact' /\ orderStatus'[chargeOf'[f]] = "paid"
          BY <2>0, <2>1, <3>1, <3>3, <3>5 DEF PaymentInv, PaymentsBalance, providerVars
        <4>2. ASSUME NEW o \in Orders, orderStatus'[o] = "paid"
              PROVE  \E d \in recorded' : \A f \in recorded' : chargeOf'[f] = o <=> f = d
          <5>1. CASE o = chargeOf[e]
            BY <2>0, <3>1, <3>5, <5>1 DEF providerVars
          <5>2. CASE o # chargeOf[e]
            <6>1. orderStatus[o] = "paid"
              BY <3>3, <4>2, <5>2
            <6>2. PICK d \in recorded : \A f \in recorded : chargeOf[f] = o <=> f = d
              BY <6>1 DEF PaymentInv, PaymentsBalance
            <6>3. QED
              BY <2>0, <2>1, <3>1, <5>2, <6>2 DEF providerVars
          <5>3. QED
            BY <5>1, <5>2
        <4>3. QED
          BY <4>1, <4>2 DEF PaymentsBalance
      <3>8. QED
        BY <3>4, <3>6, <3>7 DEF PaymentInv
    <2>2. CASE ~(e \notin recorded /\ e \in exact /\ orderStatus[chargeOf[e]] = "pending_payment")
      BY <1>3, <2>0, <2>2, <1>frame DEF MarkOrderPaid, Reported, paymentVars
    <2>3. QED
      BY <2>1, <2>2
  <1>4. CASE UNCHANGED <<paymentVars, providerVars, orderVars>>
    BY <1>4, <1>frame DEF orderVars
  <1>5. ASSUME NEW h \in Requests,
               \/ Abort(h) \/ CartStep(h) \/ BeginGet(h) \/ FindOrder(h) \/ LockCart(h)
               \/ InsertOrder(h) \/ InsertOrderItems(h) \/ Initialize(h) \/ SetCheckoutURL(h)
               \/ \E a \in Assets, l \in Licenses : BeginAdd(h, a, l)
               \/ \E a \in Assets : BeginRemove(h, a)
               \/ \E k \in Keys : BeginCheckout(h, k)
        PROVE  UNCHANGED <<paymentVars, providerVars, orderVars>>
    BY <1>5 DEF Abort, CartStep, BeginGet, FindOrder, LockCart, InsertOrder, InsertOrderItems,
                Initialize, SetCheckoutURL, BeginAdd, BeginRemove, BeginCheckout, UpsertCart,
                InsertItem, DeleteItem, BuyerCart
  <1>6. ASSUME NEW a \in Assets, DeleteAsset(a) \/ \E o \in Orders : LicensedDownload(o, a)
        PROVE  UNCHANGED <<paymentVars, providerVars, orderVars>>
    BY <1>6 DEF DeleteAsset, LicensedDownload
  <1>7. UNCHANGED vars => UNCHANGED <<paymentVars, providerVars, orderVars>>
    BY DEF vars
  <1>8. QED
    BY <1>1, <1>2, <1>3, <1>4, <1>5, <1>6, <1>7 DEF Next, CheckoutStep

\* An order's entitlements are exactly its items once it is paid, and none
\* before.
THEOREM PaidOrdersEntitle == Spec => []EntitledIffPaid
  <1>1. PaymentInv => EntitledIffPaid
    BY DEF PaymentInv
  <1>2. QED
    BY <1>1, TypeInit, TypeStep, PaymentInit, PaymentStep, PTL DEF Spec

\* Recorded events and paid orders correspond one to one, whatever the
\* provider reports, repeats or gets wrong.
THEOREM PaymentsAreAppliedOnce == Spec => []PaymentsBalance
  <1>1. PaymentInv => PaymentsBalance
    BY DEF PaymentInv
  <1>2. QED
    BY <1>1, TypeInit, TypeStep, PaymentInit, PaymentStep, PTL DEF Spec

=============================================================================
