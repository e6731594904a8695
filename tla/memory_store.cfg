\* one key in two spellings, two lookups, entries that live one or two ticks
CONSTANTS
    k1 = k1
    padded = padded
    blank = blank
    None = None
    Callers = {c1, c2}
    RawKeys = {k1, padded, blank}
    Keys = {k1}
    Trimmed <- TwoSpellings
    Names = {b1, b2}
    TTLs <- LifeSpans
    DefaultTTL = 2
    MaxTime = 4
SPECIFICATION Spec
INVARIANTS TypeOK SteadyEntryHits
PROPERTY ImplementsAffinity
