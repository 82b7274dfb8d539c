SPECIFICATION RequestsFairSpec
CONSTANTS
    f = f
    g = g
    near = near
    first = first
    second = second
    root = root
    leaf = leaf
    Me = Me
    NoPeer = NoPeer
    NoRequest = NoRequest
    NoEntry = NoEntry
    Fetchers = {f, g}
    Peers = {near, first, second}
    Cells = {root, leaf}
    Inner <- MCInner
    Cases <- MCCases
    Polls = 2
    Ttl = 4
    MaxPages = 2
INVARIANTS
    SingleFlight
PROPERTIES
    Served
    Drained
