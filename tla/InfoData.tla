------------------------------ MODULE InfoData ------------------------------
(***************************************************************************)
(* What the Info server shows, and who writes it without a lock: the list  *)
(* of parameters (Commands) and the array of seeing values (SeeingRing).   *)
(* They share nothing, so each behaviour is about one of them.             *)
(***************************************************************************)
EXTENDS Commands, SeeingRing

VARIABLE which    \* the part this behaviour is about

dataVars == <<which, commandVars, vars>>

Data_Init == which \in {"list", "array"} /\ Commands_Init /\ Init
          /\ (which = "list" \/ list = Idle)

List  == which = "list" /\ Commands_Next /\ UNCHANGED <<which, vars>>
Array == which = "array" /\ Next /\ UNCHANGED <<which, commandVars>>
Data_Next == List \/ Array

\* The threads go on, and every exchange comes to an end.
Fairness ==
  /\ WF_commandVars(which = "list" /\ (Status_Read \/ Status_UpdateParameters))
  /\ WF_commandVars(which = "list" /\ Error_Master)
  /\ \A c \in Commanders :
       WF_commandVars(which = "list" /\ (Decide(c) \/ Finish(c) \/ Ask(c) \/ Note(c)))

Data_Spec == Data_Init /\ [][Data_Next]_dataVars /\ Fairness
=============================================================================
