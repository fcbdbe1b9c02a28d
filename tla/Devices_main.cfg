SPECIFICATION Spec
CONSTANTS
 Relays = {r1, r2}
 MaxLateReplies = 2
 MaxLost = 1
 MaxSwitch = 3
 NFilters = 3
 StepSize = 3
 Offset = 2
 MaxHome = 11
 Movers = {t1, t2}
 Asks = {0, 1, 2, 5}
 MaxAsks = 3
 MaxLate = 1
 Clients = {c1, c2}
 MaxAt = 2
 Goals = {0, 2}
 MaxTries = 2
 MaxFaults = 1
 MaxAsked = 2
INVARIANTS BehindByTheLate FilterShown RotationTruthful
PROPERTIES RelaysCatchUp MovesEnd GoesWhereAsked SmartShown
CHECK_DEADLOCK FALSE
