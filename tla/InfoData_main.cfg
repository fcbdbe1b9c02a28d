SPECIFICATION Data_Spec
CONSTANTS
 Commanders = {p1, p2}
 Commanded = {"cam_test", "cam_image", "cam_stop", "loop_close", "loop_open", "cam_bg_set", "dm_cmd", "set_pid_on", "nothing"}
 MaxCommands = 2
 MaxFailures = 1
 Size = 2
 Writers = {w1}
 Readers = {r1}
 MaxValues = 5
INVARIANTS ListFollows ArrayRight QuietReply
PROPERTIES ListCatchesUp CommandsRight
CHECK_DEADLOCK FALSE
