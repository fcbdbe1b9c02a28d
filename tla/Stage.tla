------------------------------- MODULE Stage -------------------------------
(***************************************************************************)
(* The routines of topbox_server/Stage: the linear stage of the Indigo     *)
(* camera or of the F15 simulator, with a negative limit switch (kind      *)
(* "Stage").  The same threads drive it as an MVP motor, but its commands  *)
(* are not answered: only "PRINT ..." is, one flag at a time, and a        *)
(* command that does not arrive is not noticed unless its write fails.     *)
(***************************************************************************)
EXTENDS Mvp

\* A command as the controller of the stage carries it out.  Taking the
\* drive off is also what "abort" does.
Source_Stage(d, cmd, arg) ==
  CASE cmd = "DRVEN=1" -> Source_MVP(d, "EN", 0)
    [] cmd = "DRVEN=0" -> Source_MVP(d, "DI", 0)
    [] cmd = "VM"      -> Source_MVP(d, "SP", arg)
    [] cmd = "POS"     -> Source_MVP(d, "HO", 0)
    [] cmd = "HOME"    -> Source_MVP(d, "ANO", arg)
    [] cmd = "MOVR"    -> Source_Move(d, arg)

\* One stretch of a move: the limit switch stops it on the way down.
Source_StageRelativeMove(d) == Source_RelativeMVP([d EXCEPT !.trigger = FALSE])
-----------------------------------------------------------------------------
Stage_Read(w)               == Ask(w, w.dev, CloseAndZero(w))
Stage_Position(w)           == Stage_Read(w)
get_thing(w)                == Stage_Read(w)
Stage_Enable(w)             == Tell(w, Source_Stage(w.dev, "DRVEN=1", 0), w)
Stage_Disable(w)            == Tell(w, Source_Stage(w.dev, "DRVEN=0", 0), w)
Stage_SetHomeVar(w, home)   == Tell(w, Source_Stage(w.dev, "HOME", home), w)
Stage_SetSpeed(w, speed)    == Tell(w, Source_Stage(w.dev, "VM", speed), CloseAndZero(w))
Stage_SetZero(w)            == Tell(w, Source_Stage(w.dev, "POS", 0), CloseAndZero(w))
Stage_MoveRelative(w, distance) ==
  Tell(w, Source_Stage(w.dev, "MOVR", distance), CloseAndZero(w))
Stage_MoveAbsolute(w, place) ==
  Tell(w, Source_Stage(w.dev, "MOVR", w.dev.zero + place - w.dev.at), CloseAndZero(w))

Stage_Call(w, op, arg) ==
  CASE op = "SetHomeFlag"  -> Stage_SetHomeVar(w, arg)
    [] op = "MoveRelative" -> Stage_MoveRelative(w, arg)
    [] op = "MoveAbsolute" -> Stage_MoveAbsolute(w, arg)
    [] op = "SetSpeed"     -> Stage_SetSpeed(w, arg)
    [] op = "SetZero"      -> Stage_SetZero(w)
    [] op = "Position"     -> Stage_Position(w)
    [] op = "Status"       -> get_thing(w)
    [] op = "EN"           -> Stage_Enable(w)
    [] op = "DI"           -> Stage_Disable(w)
-----------------------------------------------------------------------------
\* One flag after the other; the first that fails ends the routine.
Stage_Status ==
  <<GetTry("Status", {"enabled"}, 3), GetTry("Status", {"moving"}, 2),
    GetTry("Status", {"negative"}, 1), GetTry("Status", {"home"}, 0)>>

Stage_ToLimit ==
  <<Try("SetHomeFlag", FALSE), Try("EN", 0), Do("SetSpeed", "default"),
    Skip("negative", TRUE, 1), Do("MoveRelative", -Top)>>
    \o Stage_Status \o <<Wait("negative", TRUE)>>

Stage_OutOfLimit ==
  <<Do("MoveRelative", 1)>> \o Stage_Status \o <<Wait("moving", FALSE), Back("negative", TRUE, 6)>>

Stage_Approach ==
  <<Do("SetSpeed", "slow"), Do("MoveRelative", -Top)>>
    \o Stage_Status \o <<Wait("negative", TRUE), Do("SetZero", 0)>>

Stage_Offset ==
  <<Do("SetSpeed", "default"), Do("MoveRelative", HomeAt("Stage") - Edge)>>
    \o Stage_Status \o <<Wait("moving", FALSE), Try("SetHomeFlag", TRUE), Try("DI", 0)>>

Stage_Home == Stage_ToLimit \o Stage_OutOfLimit \o Stage_Approach \o Stage_Offset

Stage_Process ==
  [enable   |-> <<Try("EN", 0)>>,
   disable  |-> <<Try("DI", 0)>>,
   abort    |-> <<Try("DI", 0)>>,
   position |-> <<Try("Position", 0)>>,
   zero     |-> <<Try("SetZero", 0)>>,
   sethome  |-> <<Try("SetHomeFlag", TRUE)>>,
   relative |-> <<Try("MoveRelative", -1)>>,
   absolute |-> <<Try("MoveAbsolute", 0)>>,
   speed    |-> <<Try("SetSpeed", "fast")>>]

Stage_Looper ==
  <<Turn("Position"), GetTurn("Status", {"enabled"}), GetTurn("Status", {"moving"}),
    GetTurn("Status", {"negative"}), GetTurn("Status", {"home"})>>
=============================================================================
