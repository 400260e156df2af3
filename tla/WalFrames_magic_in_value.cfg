\* 90 is the frame magic, 95 the commit magic; 50 and 51 are ordinary bytes.
SPECIFICATION Spec
CONSTANTS
    PayloadCells = {50, 95}
    FillCells = {0}
    DamageCells = {}
    MaxPayload = 2
    MaxFrames = 2
INVARIANT TailIsCutOff
