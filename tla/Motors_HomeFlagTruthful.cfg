SPECIFICATION Spec
CONSTANTS
 Kinds = {"FSM"}
 Top = 3
 Tries = 1
 MaxSteps = 2
 MaxFaults = 1
 Commands = {}
CHECK_DEADLOCK FALSE
PROPERTIES HomeFlagTruthful
