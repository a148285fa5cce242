CONSTANTS
    c1 = c1
    c2 = c2
    c3 = c3
    a1 = a1
    a2 = a2
    a3 = a3
    joe = joe
    anonymous0 = anonymous0
    anonymous1 = anonymous1
    null = null
    Clients = {c1, c2}
    Addrs = {a1, a2}
    Names = {anonymous0, anonymous1}
    AnonymousNames = {anonymous0, anonymous1}
    Messages = {}
    Workers = 2
    ListingFiles <- NoFile
SPECIFICATION Spec
INVARIANTS
    NobodyGoneIsOnline
