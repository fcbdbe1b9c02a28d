-------------------------------- MODULE Mvp --------------------------------
(***************************************************************************)
(* The routines of topbox_server/MVP: a motor behind an MVP controller,    *)
(* the tip or the tilt of the fold mirror (kind "FSM": a negative limit    *)
(* switch) or of the off-axis parabola (kind "OAP": an internal home flag, *)
(* event_2).  The controller itself is modelled after the simulator in     *)
(* topbox_server/Source.  Module Motors runs the routines.                 *)
(***************************************************************************)
EXTENDS TopSocket, TopScript

CONSTANT Top   \* the motor stands at 0 .. Top

ASSUME MvpAssumption == Top \in Nat /\ Top >= 3
-----------------------------------------------------------------------------
(* The motor.  The switch closes at Edge and below; the home flag is up at *)
(* Mark and above; HOMEVALUE takes either kind to HomeAt.                  *)
(***************************************************************************)
Edge   == 1
Mark   == 2
HomeAt(k) == IF k = "OAP" THEN 1 ELSE 3   \* HOMEVALUE is positive, or negative
Speeds == {"default", "fast", "slow"}

Device_Init(kind) ==
  [kind |-> kind, at |-> Top, goal |-> Top, moving |-> FALSE, enabled |-> TRUE,
   zero |-> 0, speed |-> "default", home |-> FALSE, trigger |-> FALSE]

\* What the controller answers: the flags of "ST", and home of "ANO".
Source_StatusMVP(d) ==
  [moving |-> d.moving, enabled |-> d.enabled, error |-> FALSE,
   negative |-> d.kind # "OAP" /\ d.at <= Edge,
   event_2  |-> d.kind = "OAP" /\ d.at >= Mark, home |-> d.home]

\* "M" is refused while a move is under way, when disabled, and into the
\* limit switch.
Source_Move(d, distance) ==
  LET aim  == d.at + distance
      goal == IF aim < 0 THEN 0 ELSE IF aim > Top THEN Top ELSE aim IN
  IF d.moving \/ ~d.enabled \/ goal = d.at \/ (distance < 0 /\ Source_StatusMVP(d).negative)
    THEN d ELSE [d EXCEPT !.moving = TRUE, !.goal = goal]

\* Any other command as the controller carries it out; "LR", "LA" and "AC"
\* keep values the model does not have.  (It does not know "RN" at all; a
\* real one starts anew.)
Source_MVP(d, cmd, arg) ==
  CASE cmd = "AB"  -> [d EXCEPT !.moving = FALSE, !.goal = d.at]
    [] cmd = "EN"  -> [d EXCEPT !.enabled = TRUE]
    [] cmd = "DI"  -> [d EXCEPT !.enabled = FALSE, !.moving = FALSE, !.goal = d.at]
    [] cmd = "HO"  -> [d EXCEPT !.zero = d.at]
    [] cmd = "ANO" -> [d EXCEPT !.home = arg]
    [] cmd = "HA"  -> [d EXCEPT !.trigger = arg]
    [] cmd = "SP"  -> [d EXCEPT !.speed = arg]
    [] cmd = "RN"  -> [Device_Init(d.kind) EXCEPT !.at = d.at, !.goal = d.at, !.zero = d.at,
                                          !.enabled = FALSE]
    [] OTHER       -> d    \* "ST", "POS", "LR", "LA", "AC", "HF"

\* At full speed a motor runs on past the switch that stops it, which is why
\* homing approaches the switch a second time.
Overrun(d) == IF d.speed = "slow" \/ (d.kind = "FSM" /\ d.speed = "default") THEN {} ELSE {0}

\* One stretch of a move.  The limit switch stops it on the way down; so does
\* the home flag, in either direction, when the home trigger is armed.
Source_RelativeMVP(d) ==
  LET next == IF d.goal > d.at THEN d.at + 1 ELSE d.at - 1
      stop(at) == [d EXCEPT !.at = at, !.goal = at, !.moving = FALSE] IN
  IF d.kind # "OAP" /\ next < d.at /\ next <= Edge THEN {stop(at) : at \in {next} \cup Overrun(d)}
  ELSE IF d.kind = "OAP" /\ d.trigger /\ next >= Mark THEN {stop(next)}
  ELSE IF next = d.goal THEN {stop(next)}
  ELSE {[d EXCEPT !.at = next]}
-----------------------------------------------------------------------------
(* The routines of MVP/: the exchange each makes under the lock, as the    *)
(* set of its results.  A routine whose write fails closes the socket, or  *)
(* leaves that to the looper.                                              *)
(***************************************************************************)
MVP_Position(w)           == Ask(w, w.dev, CloseAndZero(w))
MVP_SetHomeFlag(w, home)  == Ask(w, Source_MVP(w.dev, "ANO", home), CloseAndZero(w))
MVP_SetSpeed(w, speed)    == Ask(w, Source_MVP(w.dev, "SP", speed), CloseAndZero(w))
MVP_SetAccel(w)           == Ask(w, w.dev, CloseAndZero(w))
MVP_SetZero(w)            == Tell(w, Source_MVP(w.dev, "HO", 0), CloseAndZero(w))
MVP_Abort(w)              == Tell(w, Source_MVP(w.dev, "AB", 0), w)
MVP_SetHomeTrigger(w, on) == Tell(w, Source_MVP(w.dev, "HA", on), w)
MVP_HardStop(w)           == Tell(w, w.dev, w)

\* LR, LR again to verify it, and only then M: without the reply no move.
MVP_MoveRelative(w, distance) ==
  UNION {IF r.ok THEN Tell(r.w, Source_Move(r.w.dev, distance), CloseAndZero(r.w))
                 ELSE {r} : r \in Ask(w, w.dev, CloseAndZero(w))}

\* LA instead of LR, to a place counted from the zero.
MVP_MoveAbsolute(w, place) == MVP_MoveRelative(w, w.dev.zero + place - w.dev.at)

\* Where nothing comes, the timeout returns with the mutex locked: not where the write
\* fails or the connection ends.
MVP_ResetNode(w) ==
  LET all    == Ask(w, Source_MVP(w.dev, "RN", 0), w)
      silent == IF w.sock.sockfd = "none" THEN {} ELSE {r \in all : ~r.ok} IN
  {r \in all : r.ok \/ r.w = w}
    \cup {Result([r.w EXCEPT !.sock.locked = TRUE], FALSE) : r \in silent}

\* Enable and Disable: the exchange they begin with.
EN(w) == Tell(w, Source_MVP(w.dev, "EN", 0), w)
DI(w) == Tell(w, Source_MVP(w.dev, "DI", 0), w)

\* MVP_Status and MVP_HomeFlag only ask; the flags are stored after the unlock.
MVP_Asks(w) == Ask(w, w.dev, CloseAndZero(w))

MVP_Call(w, op, arg) ==
  CASE op = "SetHomeFlag"    -> MVP_SetHomeFlag(w, arg)
    [] op = "MoveRelative"   -> MVP_MoveRelative(w, arg)
    [] op = "MoveAbsolute"   -> MVP_MoveAbsolute(w, arg)
    [] op = "SetSpeed"       -> MVP_SetSpeed(w, arg)
    [] op = "SetAccel"       -> MVP_SetAccel(w)
    [] op = "SetZero"        -> MVP_SetZero(w)
    [] op = "SetHomeTrigger" -> MVP_SetHomeTrigger(w, arg)
    [] op = "HardStop"       -> MVP_HardStop(w)
    [] op = "Abort"          -> MVP_Abort(w)
    [] op = "ResetNode"      -> MVP_ResetNode(w)
    [] op = "Position"       -> MVP_Position(w)
    [] op = "Status"         -> MVP_Asks(w)
    [] op = "EN"             -> EN(w)
    [] op = "DI"             -> DI(w)
-----------------------------------------------------------------------------
(* The programs of the threads, as steps (see TopScript).                  *)
(***************************************************************************)
\* A mistake: a flag of the reply is not taken over.
StatusFlagsShort == {"moving", "enabled", "error", "negative"}
StatusFlags == {"moving", "enabled", "error", "negative", "event_2"}
MVP_Status   == GetTry("Status", StatusFlags, 0)
MVP_HomeFlag == GetTry("Status", {"home"}, 0)

\* EN, a second, the status; a status that fails closes the connection.
MVP_Enable  == <<Do("EN", 0), GetDo("Status", StatusFlags), Expect("enabled", TRUE)>>
MVP_Disable == <<Do("DI", 0), GetDo("Status", StatusFlags), Expect("enabled", FALSE)>>

Home_Prepare ==
  <<Do("SetHomeFlag", FALSE), Do("MoveRelative", 0)>> \o MVP_Enable

FSM_ToLimit ==
  <<Do("SetAccel", 0), Skip("negative", TRUE, 2),
    Do("SetSpeed", "fast"), Do("MoveRelative", -Top),
    MVP_Status, Wait("negative", TRUE)>>

FSM_OutOfLimit ==
  <<Do("SetSpeed", "fast"), Do("MoveRelative", 1), MVP_Status, Wait("moving", FALSE),
    Back("negative", TRUE, 3)>>

\* A mistake: the second approach at full speed.
FSM_ApproachFast ==
  <<Do("SetSpeed", "fast"), Do("SetAccel", 0), Do("MoveRelative", -Top),
    MVP_Status, Wait("negative", TRUE), Do("SetZero", 0)>>

FSM_Approach ==
  <<Do("SetSpeed", "slow"), Do("SetAccel", 0), Do("MoveRelative", -Top),
    MVP_Status, Wait("negative", TRUE), Do("SetZero", 0)>>

FSM_Offset ==
  <<Do("SetSpeed", "default"), Do("SetAccel", 0), Do("MoveRelative", HomeAt("FSM") - Edge),
    MVP_Status, Wait("moving", FALSE), Do("SetZero", 0), Do("SetHomeFlag", TRUE)>>

OAP_BelowMark ==
  <<Do("SetAccel", 0), Skip("event_2", FALSE, 2),
    Do("SetSpeed", "fast"), Undo("MoveRelative", -Top),
    MVP_Status, WaitUndo("event_2", FALSE), Undo("Abort", 0)>>

OAP_ToMark ==
  <<Undo("SetSpeed", "default"), Do("SetHomeTrigger", TRUE), Do("HardStop", 0),
    Do("MoveRelative", Top), MVP_Status, Wait("event_2", TRUE)>>

OAP_Offset ==
  <<Undo("SetHomeTrigger", FALSE), Undo("SetZero", 0), Undo("SetSpeed", "fast"),
    Do("MoveRelative", HomeAt("OAP") - Mark), MVP_Status, WaitUndo("moving", FALSE),
    Undo("SetZero", 0), Undo("SetHomeFlag", TRUE)>>

MVP_Home(k) ==
  Home_Prepare
    \o (IF k = "FSM" THEN FSM_ToLimit \o FSM_OutOfLimit \o FSM_Approach \o FSM_Offset
                     ELSE OAP_BelowMark \o OAP_ToMark \o OAP_Offset)
    \o <<Do("SetSpeed", "default")>>

\* The other requests of an operator; what a routine returns is ignored.
MVP_Actions ==
  [abort    |-> <<Try("Abort", 0)>>,
   reset    |-> <<Try("ResetNode", 0)>>,
   enable   |-> <<Expect("enabled", FALSE), Try("MoveRelative", 0)>> \o MVP_Enable,
   disable  |-> <<Expect("enabled", TRUE)>> \o MVP_Disable,
   position |-> <<Try("Position", 0)>>]

MVP_Settings ==
  [zero     |-> <<Try("SetZero", 0)>>,
   relative |-> <<Try("MoveRelative", -1)>>,
   absolute |-> <<Try("MoveAbsolute", 0)>>,
   speed    |-> <<Try("SetSpeed", "fast")>>,
   accel    |-> <<Try("SetAccel", 0)>>,
   hflag    |-> <<Try("SetHomeFlag", TRUE)>>,
   get_hflag |-> <<MVP_HomeFlag>>]

MVP_Process ==
  [c \in (DOMAIN MVP_Actions) \cup (DOMAIN MVP_Settings) |->
     IF c \in DOMAIN MVP_Actions THEN MVP_Actions[c] ELSE MVP_Settings[c]]

\* One turn of the status thread; the home flag every fifth time.
MVP_Looper ==
  <<Turn("Position"), GetTurn("Status", StatusFlags), Sometimes(1),
    GetTurn("Status", {"home"})>>
=============================================================================
