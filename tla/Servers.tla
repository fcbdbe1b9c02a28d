------------------------------ MODULE Servers ------------------------------
(***************************************************************************)
(* What surrounds the devices and the frames in the two servers: the       *)
(* status list and the requests of the topbox server, its main and its     *)
(* pools of threads, and the Info server of the data server.  They share   *)
(* nothing, so each behaviour is about one of them, chosen at the start.   *)
(***************************************************************************)
EXTENDS StatusList, HomeRequests, TopboxServer, InfoServer

VARIABLE which    \* the part this behaviour is about

svars == <<which, listVars, homeVars, topVars, infoVars>>

Init ==
  /\ which \in {"list", "requests", "topbox", "info"}
  /\ List_Init /\ Home_Init /\ Top_Init /\ Info_Init

List   == which = "list" /\ List_Next /\ UNCHANGED <<which, homeVars, topVars, infoVars>>
Home   == which = "requests" /\ Home_Next /\ UNCHANGED <<which, listVars, topVars, infoVars>>
Topbox == which = "topbox" /\ Top_Next /\ UNCHANGED <<which, listVars, homeVars, infoVars>>
Info   == which = "info" /\ Info_Next /\ UNCHANGED <<which, listVars, homeVars, topVars>>
Next == List \/ Home \/ Topbox \/ Info

\* The fairness of TopboxServer, for the behaviours that are about it.
Fairness ==
  /\ WF_topVars(which = "topbox" /\ (Start_Servers \/ Stop))
  /\ \A c \in Everyone :
       /\ WF_topVars(which = "topbox" /\ (Accept(c) \/ Accept_Full(c)))
       /\ WF_topVars(which = "topbox" /\ Thread_End(c))

Spec == Init /\ [][Next]_svars /\ Fairness
=============================================================================
