SPECIFICATION FairSpec
CONSTANTS
 Kinds = {"OAP"}
 Top = 3
 Tries = 1
 MaxSteps = 2
 MaxFaults = 1
 Commands = {"reset","abort"}
PROPERTIES ThreadsGoOn DataCatchesUp
CHECK_DEADLOCK FALSE
