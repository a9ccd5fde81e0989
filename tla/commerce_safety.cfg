SPECIFICATION Spec
CONSTANTS
    Assets = {a1}
    Licenses = {l1, l2}
    Carts = {c1, c2}
    Orders = {o1, o2}
    Keys = {k1, k2}
    Events = {e1, e2}
    Requests = {h1, h2}
    None = none
SYMMETRY Interchangeable
INVARIANTS CheckoutIsIdempotent ConvertedItemsAreOrdered EntitledIffPaid PaymentsBalance
