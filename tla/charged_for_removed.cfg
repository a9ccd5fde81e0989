SPECIFICATION Spec
CONSTANTS
    Assets = {a1, a2}
    Licenses = {l1}
    Carts = {c1, c2}
    Orders = {o1, o2}
    Keys = {k1, k2}
    Events = {}
    Requests = {h1, h2}
    None = none
SYMMETRY Interchangeable
INVARIANTS TotalIsForItems
