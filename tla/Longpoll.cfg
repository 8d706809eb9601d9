SPECIFICATION Spec
CONSTANTS
    c1 = c1
    c2 = c2
    w1 = w1
    w2 = w2
    w3 = w3
    None = None
    Client = {c1, c2}
    Request = {w1, w2, w3}
    Beat <- McBeat
    Removal <- McRemoval
    MaxCrashes = 1
INVARIANT NewsAtOnce
PROPERTIES ReadsOwnWrite CatchesUp
