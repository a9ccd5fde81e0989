SPECIFICATION ComponentsSpec
CONSTANTS
    Files = {f1, f2, f3}
    Unsupported = {f3}
    Assets = {a1, a2}
    Loads = {l1, l2}
    MaxPolls = 1
    NoAsset = noasset
    Slots = {s1, s2}
    MaxChanges = 3
    h1 = h1
    h2 = h2
    address1 = address1
    address2 = address2
    account = account
    Attempts = {h1, h2}
    KeysOf <- MCKeysOf
    Limit = 1
    Ping = ping
    Posts = {p1, p2, p3}
    Notices = {n1, n2}
    NoNotice = nonotice
    Runners = {r1, r2}
    LastFile = 3
    Unset = unset
    WellFormedIds = {i1, i2}
    MalformedIds = {i3}
    ClientId = i1
    ServiceId = i4
    NoId = noid
INVARIANTS ProblemsNameTheRequest
CHECK_DEADLOCK FALSE
