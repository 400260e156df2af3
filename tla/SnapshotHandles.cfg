CONSTANTS
    DBs = {d1, d2}
    Handles = {h1, h2, h3}
    NoDB = NoDB
    MaxSeq = 2
SPECIFICATION Spec
INVARIANTS RegistrationsMatchHandles HandlesAboveHorizon
CHECK_DEADLOCK FALSE
