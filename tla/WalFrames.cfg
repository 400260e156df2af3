\* 90 is the frame magic, 95 the commit magic; 50 and 51 are ordinary bytes.
SPECIFICATION Spec
CONSTANTS
    PayloadCells = {50, 51}
    FillCells = {0, 50}
    DamageCells = {0, 1, 2, 3, 7, 50, 90, 95}
    MaxPayload = 2
    MaxFrames = 3
INVARIANTS
    TailIsCutOff
    DamageIsRefused
