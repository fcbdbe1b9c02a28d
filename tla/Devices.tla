------------------------------ MODULE Devices ------------------------------
(***************************************************************************)
(* The devices of the topbox server besides the motors of Motors: the      *)
(* power box, the filter wheel and the smart motors.  They share nothing,  *)
(* so each behaviour is about one of them, chosen at the start.            *)
(***************************************************************************)
EXTENDS PowerBox, FilterWheel, SmartMotors

VARIABLE which    \* the device this behaviour is about

dvars == <<which, pvars, fvars, svars>>

Init ==
  /\ which \in {"power", "wheel", "smart"}
  /\ Power_Init /\ Fwheel_Init /\ Smart_Init
  /\ which # "power" => ~boxThere
  /\ which # "wheel" => at = 0
  /\ which # "smart" => axis["focus"].enc = 0

Power == which = "power" /\ Power_Next /\ UNCHANGED <<which, fvars, svars>>
Wheel == which = "wheel" /\ Fwheel_Next /\ UNCHANGED <<which, pvars, svars>>
Smart == which = "smart" /\ Smart_Next /\ UNCHANGED <<which, pvars, fvars>>
Next == Power \/ Wheel \/ Smart

\* Every thread of the chosen device runs, and what was lost comes back.
Fairness ==
  /\ WF_pvars(which = "power" /\ Power_Looper)
  /\ WF_pvars(which = "power" /\ Power_LinkBack)
  /\ \A t \in Movers : WF_fvars(which = "wheel" /\ Fwheel_Work(t))
  /\ WF_svars(which = "smart" /\ Smart_Looper)
  /\ \A c \in Clients : WF_svars(which = "smart" /\ Smart_Thread(c))
  /\ \A a \in Axes : WF_svars(which = "smart" /\ Axis_Move(a))
  /\ WF_svars(which = "smart" /\ Smart_LinkBack)

Spec == Init /\ [][Next]_dvars /\ Fairness
-----------------------------------------------------------------------------
\* The flags, positions and counters have the values the code gives them.
TypeOK == Power_TypeOK /\ Fwheel_TypeOK /\ Smart_TypeOK

\* What the looper shows of the smart motors becomes what they are, again
\* and again, and both are enabled for the user interface.
SmartShown == which = "smart" => SmartCatchesUp
=============================================================================
