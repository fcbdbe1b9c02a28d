---------------------------- MODULE HomeRequests ----------------------------
(***************************************************************************)
(* How a request of a client of the topbox server becomes a thread that    *)
(* homes a device.  MVP_Process, Stage_Process, Fwheel_Process and         *)
(* Smart_Process each fill a static Local_Info for every request they are  *)
(* called with, field by field, and hand its address to the thread, which  *)
(* reads it later: a request of another client may come in between.        *)
(***************************************************************************)
EXTENDS FiniteSets, Integers

CONSTANTS
  Operators,     \* clients, each with a thread in Master_Process
  Commanded,     \* the devices they name
  MaxRequests,   \* requests of all of them
  NoDevice

ASSUME RequestsAssumption == MaxRequests \in Nat

VARIABLES
  operator,    \* where the thread of each client is, and with what
  local,       \* Local_Info, one in each function
  flag,        \* *Local_Info.running, a new one for each request
  homing,      \* for each request, the thread that homes a device
  overwritten, \* history: the requests whose Local_Info another one changed
  requests
homeVars == <<operator, local, flag, homing, overwritten, requests>>

Requests == 1 .. MaxRequests

\* The function that serves a device.
Process(d) == CASE d \in {"fsm_tip", "fsm_tilt", "oap_tip", "oap_tilt"} -> "MVP_Process"
                [] d \in {"indigo", "f15"}      -> "Stage_Process"
                [] d = "fwheel"                 -> "Fwheel_Process"
                [] d \in {"focus", "rotation"}  -> "Smart_Process"

\* The two smart motors are one socket, and two structures of data.
Wire(d) == IF d \in {"focus", "rotation"} THEN "smart" ELSE d

Reading == [at |-> "read", device |-> NoDevice, request |-> 0]
NoInfo  == [socket |-> NoDevice, data |-> NoDevice, running |-> 0]
Unread  == [at |-> "none", device |-> NoDevice, socket |-> NoDevice, data |-> NoDevice, running |-> 0]

Home_Init ==
  /\ operator = [c \in Operators |-> Reading]
  /\ local = [p \in {Process(d) : d \in Commanded} |-> NoInfo]
  /\ flag = [r \in 0 .. MaxRequests |-> FALSE]
  /\ homing = [r \in Requests |-> Unread]
  /\ overwritten = {} /\ requests = 0
-----------------------------------------------------------------------------
\* Master_Process calls the function of the device that is named.
Master_Process(c) ==
  /\ operator[c].at = "read" /\ requests < MaxRequests
  /\ requests' = requests + 1
  /\ \E d \in Commanded :
       operator' = [operator EXCEPT ![c] = [at |-> "socket", device |-> d, request |-> requests']]
  /\ UNCHANGED <<local, flag, homing, overwritten>>

\* The requests that have not got from Local_Info yet what they put there.
Pending(p) ==
  {operator[c].request : c \in {x \in Operators : operator[x].at \in {"data", "running", "go"}
                                                    /\ Process(operator[x].device) = p}}
  \cup {r \in Requests : homing[r].at \in {"socket", "data", "running"}
                           /\ Process(homing[r].device) = p}

\* The function fills its Local_Info, whatever is asked for.
Fill(c, field, value, then) ==
  LET p == Process(operator[c].device) IN
  /\ operator[c].at = field
  /\ operator' = [operator EXCEPT ![c].at = then]
  /\ local' = [local EXCEPT ![p][field] = value]
  /\ overwritten' = overwritten \cup (Pending(p) \ {operator[c].request})
  /\ UNCHANGED <<flag, homing, requests>>

\* A mistake: the data are left to those of the request before.
Fill_WithoutData(c) ==
  \/ Fill(c, "socket", Wire(operator[c].device), "running")
  \/ Fill(c, "running", operator[c].request, "go")

Fill_LocalInfo(c) ==
  \/ Fill(c, "socket", Wire(operator[c].device), "data")
  \/ Fill(c, "data", operator[c].device, "running")
  \/ Fill(c, "running", operator[c].request, "go")

Served(c) == operator[c].at = "go" /\ operator' = [operator EXCEPT ![c] = Reading]

\* Not connected, something else than "home", or a thread that cannot be
\* created.
Request_Other(c) == Served(c) /\ UNCHANGED <<local, flag, homing, overwritten, requests>>

\* "home": whether it is running already is looked up under the flag of this
\* request, or of whoever has come since; not under the device.
Request_Home(c) ==
  LET d == operator[c].device IN
  /\ Served(c)
  /\ homing' = IF flag[local[Process(d)].running] THEN homing
               ELSE [homing EXCEPT ![operator[c].request] = [Unread EXCEPT !.at = "socket", !.device = d]]
  /\ UNCHANGED <<local, flag, overwritten, requests>>

\* MVP_Home and its like take what they are to home from Local_Info.
Take(r, field, then) ==
  /\ homing[r].at = field
  /\ homing' = [homing EXCEPT ![r].at = then, ![r][field] = local[Process(homing[r].device)][field]]
  /\ flag' = IF then = "home" THEN [flag EXCEPT ![homing'[r].running] = TRUE] ELSE flag
  /\ UNCHANGED <<operator, local, overwritten, requests>>

Home_Start(r) == Take(r, "socket", "data") \/ Take(r, "data", "running") \/ Take(r, "running", "home")

\* Where homing fails it does not always take back the flag.
Home_End(r) ==
  /\ homing[r].at = "home" /\ homing' = [homing EXCEPT ![r].at = "over"]
  /\ flag' \in {flag, [flag EXCEPT ![homing[r].running] = FALSE]}
  /\ UNCHANGED <<operator, local, overwritten, requests>>

Home_Next ==
  \/ \E c \in Operators :
       Master_Process(c) \/ Fill_LocalInfo(c) \/ Request_Other(c) \/ Request_Home(c)
  \/ \E r \in Requests : Home_Start(r) \/ Home_End(r)

Home_Spec == Home_Init /\ [][Home_Next]_homeVars
-----------------------------------------------------------------------------
\* What is homed is what was asked to be homed, with the socket and the flags
\* of that one device, provided that no request of another client has
\* reached the same function in between.
HomesWhatWasAsked ==
  \A r \in Requests :
    homing[r].at \in {"home", "over"} /\ r \notin overwritten
      => homing[r].socket = Wire(homing[r].device) /\ homing[r].data = homing[r].device

\* (Not so, see the README.)  No two threads home one device.
OneHoming ==
  \A q, r \in Requests :
    homing[q].at = "home" /\ homing[r].at = "home" /\ homing[q].data = homing[r].data => q = r
=============================================================================
