SPECIFICATION Spec
CONSTANTS
    a1 = a1
    a2 = a2
    p1 = p1
    p2 = p2
    Addrs = {a1, a2}
    Peers = {p1, p2}
    NoPeer = NoPeer
    NoAddr = NoAddr
    RetryAttempts = 1
    KnownAddrs = {a1}
    Callers = {p1, p2}
    InAddrs = {i1, i2}
    Self = Self
    Neighbourhoods <- MCOneNode
    MaxIncoming = 1
    MaxDials = 2
    MaxSenders = 2
INVARIANT IncomingLimited
