\* one key, two lookups: the delete of an expired entry takes a fresh one away
CONSTANTS
    k1 = k1
    padded = padded
    blank = blank
    None = None
    Callers = {c1, c2}
    RawKeys = {k1, padded, blank}
    Keys = {k1}
    Trimmed <- TwoSpellings
    Names = {b1, b2}
    TTLs <- LifeSpans
    DefaultTTL = 2
    MaxTime = 4
SPECIFICATION Spec
PROPERTY RememberedIsKept
