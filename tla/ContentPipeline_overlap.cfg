\* Two runs, overlapping or one after the other, and the lifecycle calls that let the
\* second one in while the first is under way, paused, stopped, or over.
CONSTANTS
    r1 = r1
    r2 = r2
    None = None
    Runs = {r1, r2}
    MaxCalls = 4
SPECIFICATION Spec
INVARIANTS
    TypeOK
    NoStaleParts
SYMMETRY RunSymmetry
CHECK_DEADLOCK FALSE
