----------------------------- MODULE StatusList -----------------------------
(***************************************************************************)
(* The list of flags that the topbox server shows to its status clients    *)
(* (topbox_server/Status), and how main in Topbox_Server.c points each     *)
(* entry of the list at the structure its device's looper writes.  Two     *)
(* tables written by hand have to fit: the list in StatusList.h and the    *)
(* names main passes, by position, to the functions that set the pointers. *)
(***************************************************************************)
EXTENDS Sequences, Naturals

CONSTANT NULL    \* a pointer nobody has set, a name that is not given

Relays == <<"WFSC", "Peltier", "Stella", "Alignment_Laser", "F15_Laser",
            "Indigo", "Spare1", "Spare2">>
Elements(s) == {s[n] : n \in DOMAIN s}

\* Status_List: an entry is a device and what is told of it.
StageFlags == {"Connected", "Connection_Error", "Home", "Position", "Moving",
               "Enabled", "Negative", "Positive"}
FsmFlags    == StageFlags \cup {"In_Position", "Error"}
OapFlags    == FsmFlags \cup {"Event_2"}
FwheelFlags == {"Connected", "Connection_Error", "Home", "Position", "Name", "Moving"}
PowerFlags  == {"Connected", "Connection_Error"} \cup Elements(Relays)

Status_List ==
  ({"fsm_tip", "fsm_tilt"} \X FsmFlags) \cup ({"oap_tip", "oap_tilt"} \X OapFlags)
    \cup ({"indigo", "f15", "focus", "rotation"} \X StageFlags)
    \cup ({"fwheel"} \X FwheelFlags) \cup ({"power"} \X PowerFlags)

ASSUME ListAssumption == NULL \notin OapFlags \cup FwheelFlags \cup PowerFlags

\* List[i].type: "I", "F" or "S", which of the three pointers is followed.
Type(e) == IF e[2] = "Position" THEN "F" ELSE IF e[2] = "Name" THEN "S" ELSE "I"

\* A pointer: the structure it points into, and the field there.
Pointer(where, field) == <<where, field>>
Unset == [t \in {"I", "F", "S"} |-> NULL]

\* A device that is connected through the socket of another.
SocketOf(d) == IF d \in {"focus", "rotation"} THEN "smart" ELSE d

\* What the n-th name is for, in Status_SetFlagPointers, in
\* Status_SetFwheelPointers and in Status_SetPowerPointers.
FlagParameters ==
  <<"Connected", "Connection_Error", "Home", "Position", "Moving", "In_Position",
    "Error", "Enabled", "Negative", "Positive", "Event_2">>
FwheelParameters == <<"Connected", "Connection_Error", "Home", "Position", "Name", "Moving">>
PowerParameters  == <<"Connected", "Connection_Error">> \o Relays

\* The entry named by the n-th name now points to what the n-th name is for.
SetPointers(list, d, parameters, names) ==
  [e \in DOMAIN list |->
     LET mine == {n \in DOMAIN names : e = <<d, names[n]>>}
         n    == CHOOSE m \in mine : TRUE
         p    == parameters[n]
     IN  IF mine = {} THEN list[e]
         ELSE [list[e] EXCEPT ![Type(<<d, p>>)] =
                 Pointer(IF p \in {"Connected", "Connection_Error"} THEN SocketOf(d) ELSE d, p)]]

Status_SetFlagPointers(list, d, names)   == SetPointers(list, d, FlagParameters, names)
Status_SetFwheelPointers(list, d, names) == SetPointers(list, d, FwheelParameters, names)
Status_SetPowerPointers(list, d, names)  == SetPointers(list, d, PowerParameters, names)

\* A mistake: the order in which Status.h declares the parameters.
FwheelNamesAsDeclared ==
  <<"Connected", "Connection_Error", "Home", "Position", "Moving", "Name">>

\* The names main passes for each device, by position.
FsmNames ==
  <<"Connected", "Connection_Error", "Home", "Position", "Moving", "In_Position",
    "Error", "Enabled", "Negative", "Positive", NULL>>
OapNames ==
  <<"Connected", "Connection_Error", "Home", "Position", "Moving", "In_Position",
    "Error", "Enabled", "Negative", "Positive", "Event_2">>
StageNames ==
  <<"Connected", "Connection_Error", "Home", "Position", "Moving", NULL,
    NULL, "Enabled", "Negative", "Positive", NULL>>
SmartNames  == StageNames
FwheelNames == <<"Connected", "Connection_Error", "Home", "Position", "Name", "Moving">>
PowerNames  == <<"Connected", "Connection_Error">> \o Relays

FSM_Tip_Setup(list)  == Status_SetFlagPointers(list, "fsm_tip", FsmNames)
FSM_Tilt_Setup(list) == Status_SetFlagPointers(list, "fsm_tilt", FsmNames)
OAP_Tip_Setup(list)  == Status_SetFlagPointers(list, "oap_tip", OapNames)
OAP_Tilt_Setup(list) == Status_SetFlagPointers(list, "oap_tilt", OapNames)
Indigo_Setup(list)   == Status_SetFlagPointers(list, "indigo", StageNames)
F15_Setup(list)      == Status_SetFlagPointers(list, "f15", StageNames)
Fwheel_Setup(list)   == Status_SetFwheelPointers(list, "fwheel", FwheelNames)
Power_Setup(list)    == Status_SetPowerPointers(list, "power", PowerNames)
Smart_Setup(list)    ==
  Status_SetFlagPointers(Status_SetFlagPointers(list, "focus", SmartNames),
                         "rotation", SmartNames)

\* The devices in the order in which main sets them up.
Setups == <<"fsm_tip", "fsm_tilt", "oap_tip", "oap_tilt", "indigo", "f15",
            "fwheel", "power", "smart">>

Setup(list, d) ==
  CASE d = "fsm_tip" -> FSM_Tip_Setup(list) [] d = "fsm_tilt" -> FSM_Tilt_Setup(list)
    [] d = "oap_tip" -> OAP_Tip_Setup(list) [] d = "oap_tilt" -> OAP_Tilt_Setup(list)
    [] d = "indigo"  -> Indigo_Setup(list)  [] d = "f15"      -> F15_Setup(list)
    [] d = "fwheel"  -> Fwheel_Setup(list)  [] d = "power"    -> Power_Setup(list)
    [] d = "smart"   -> Smart_Setup(list)

\* The devices in the order of the list.
ListOrder == <<"fsm_tip", "fsm_tilt", "oap_tip", "oap_tilt", "indigo", "f15",
               "fwheel", "power", "focus", "rotation">>

\* The structures that Status_InitFlags clears.
Initialised(d) == IF d = "smart" THEN {"smart", "focus", "rotation"} ELSE {d}

-----------------------------------------------------------------------------
CONSTANT Readers   \* status clients

VARIABLES
  up,        \* main: sets up the devices, serves, or is over
  setups,    \* how many devices it has set up
  list,      \* the pointers of Status_List
  zeroed,    \* the structures that are initialised
  next,      \* the device whose entries each reader is sent next, 0 for none
  sent       \* the entries sent last, with the pointers that were followed
listVars == <<up, setups, list, zeroed, next, sent>>

List_Init ==
  /\ up = "setup" /\ setups = 0 /\ list = [e \in Status_List |-> Unset] /\ zeroed = {}
  /\ next = [w \in Readers |-> 0] /\ sent = {}

\* A device: its socket by name, its flags, its entries, its looper.
Setup_Device ==
  /\ up = "setup" /\ setups < Len(Setups) /\ setups' = setups + 1
  /\ list' = Setup(list, Setups[setups'])
  /\ zeroed' = zeroed \cup Initialised(Setups[setups'])
  /\ UNCHANGED <<up, next, sent>>

\* A looper that cannot be started ends main, and the loopers before it.
Setup_Fails ==
  /\ up = "setup" /\ up' = "over"
  /\ UNCHANGED <<setups, list, zeroed, next, sent>>

Start_Status ==
  /\ up = "setup" /\ setups = Len(Setups) /\ up' = "serve"
  /\ UNCHANGED <<setups, list, zeroed, next, sent>>

\* "all": the entries of the list one by one, here those of one device at
\* a time; "EOF" after the last.
Status_Process(w) ==
  /\ up = "serve" /\ next[w] = 0
  /\ next' = [next EXCEPT ![w] = 1]
  /\ UNCHANGED <<up, setups, list, zeroed, sent>>

Status_SendAll(w) ==
  /\ up = "serve" /\ next[w] > 0
  /\ sent' = {<<e, list[e][Type(e)]>> : e \in {x \in Status_List : x[1] = ListOrder[next[w]]}}
  /\ next' = [next EXCEPT ![w] = IF @ < Len(ListOrder) THEN @ + 1 ELSE 0]
  /\ UNCHANGED <<up, setups, list, zeroed>>

\* A write that fails: the rest of the list is not sent.
SendAll_Fails(w) ==
  /\ up = "serve" /\ next[w] > 0 /\ next' = [next EXCEPT ![w] = 0]
  /\ UNCHANGED <<up, setups, list, zeroed, sent>>

List_Next ==
  \/ Setup_Device \/ Setup_Fails \/ Start_Status
  \/ \E w \in Readers : Status_Process(w) \/ Status_SendAll(w) \/ SendAll_Fails(w)

List_Spec == List_Init /\ [][List_Next]_listVars
-----------------------------------------------------------------------------
\* Whoever watches the status is shown, under the name of each flag, that
\* flag of that device, and nothing that was not initialised or not pointed
\* to: the two tables of names and the order of main fit together.
ShownIsRight ==
  \A x \in sent :
    LET d == x[1][1]  f == x[1][2]
        s == IF f \in {"Connected", "Connection_Error"} THEN SocketOf(d) ELSE d
    IN  x[2] = Pointer(s, f) /\ s \in zeroed
=============================================================================
