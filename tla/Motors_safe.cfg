SPECIFICATION Spec
CONSTANTS
 Kinds = {"FSM","OAP","Stage"}
 Top = 3
 Tries = 1
 MaxSteps = 2
 MaxFaults = 1
 Commands = {"abort","reset","enable","disable","position","zero","relative","absolute","speed","accel","hflag","get_hflag","sethome"}
PROPERTY HomingRight
CHECK_DEADLOCK FALSE
