\* two callers, one key, commands that are sent up to two times
CONSTANTS
    None = None
    Callers = {c1, c2}
    Keys = {k1}
    Names = {b1, b2}
    MaxTries = 2
SPECIFICATION Spec
INVARIANT TypeOK
PROPERTIES ImplementsAffinity CallsReturn
