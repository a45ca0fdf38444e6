SPECIFICATION FairSpec
CONSTANTS
    a = a
    c = c
    p = p
    q = q
    Senders = {p, q}
    Subs = {a, c}
    Cap <- MCCap
    MaxSends = 2
INVARIANTS NoStrayCase SendIsComplete
PROPERTIES ImplementsBroadcast CallsEnd
