SPECIFICATION Spec
CONSTANTS
    Runs = {r1, r2}
    Keys = {k1}
    Seeded = {k1}
    Ops <- UpdateOps
    MaxOps = 2
    NoRow = NoRow
    NoRun = NoRun
    NoTouch = NoTouch
SYMMETRY Symmetry
PROPERTY NoLostUpdate
