-------------------------- MODULE ServersProofs ---------------------------
(***************************************************************************)
(* Theorems about the servers around the devices: the process of the       *)
(* topbox server and its pools of threads (TopboxServer), the requests to  *)
(* home a device (HomeRequests), the list of parameters of the Info server *)
(* (InfoServer) and the list of flags that status clients are sent         *)
(* (StatusList), for pools of any size and any clients and devices.        *)
(***************************************************************************)
EXTENDS Servers, TLAPS

-----------------------------------------------------------------------------
(* TopboxServer: slots and threads                                         *)

TopInv == Top_TypeOK /\ SlotsHeld

LEMMA PoolOfMember == \A c \in Everyone : Pool(c) \in {"master", "status"}
BY DEF Pool

LEMMA InitTop == Top_Init => TopInv
BY TopboxAssumption DEF Top_Init, TopInv, Top_TypeOK, SlotsHeld, Everyone

\* A connection that waits has no slot yet.
LEMMA WaitingHasNoSlot ==
  ASSUME Top_TypeOK, NEW c \in Everyone, c \in waiting
  PROVE  \A s \in Slots : slots[s] # c
BY TopboxAssumption DEF Top_TypeOK, Everyone

\* A connection served by a thread has one slot, in the pool it belongs to.
LEMMA SlotOfOpen ==
  ASSUME SlotsHeld, NEW c \in open, NEW s \in Slots, slots[s] = c, c # Nobody
  PROVE  s[1] = Pool(c)
BY DEF SlotsHeld

LEMMA StepTop == TopInv /\ [Top_Next]_topVars => TopInv'
<1> SUFFICES ASSUME Top_TypeOK, SlotsHeld, [Top_Next]_topVars PROVE Top_TypeOK' /\ SlotsHeld'
  BY DEF TopInv
<1> DEFINE Goal == Top_TypeOK' /\ SlotsHeld'
<1> USE DEF lockVars
<1>a. \A c \in Everyone : c # Nobody
  BY TopboxAssumption DEF Everyone
<1>1. CASE Start_Servers
  <2>1. /\ main' \in {"serve", "over"} /\ statusUp' \in {statusUp, FALSE}
        /\ UNCHANGED <<running, waiting, open, lost, past, hungUp, slots, jammed, stuck>>
    BY <1>1 DEF Start_Servers
  <2>2. Top_TypeOK'
    BY <2>1 DEF Top_TypeOK
  <2>3. statusUp' => statusUp
    BY <2>1, Zenon
  <2>4. SlotsHeld'
    BY <2>1, <2>3 DEF SlotsHeld, Pool
  <2> QED  BY <2>2, <2>4
<1>2. CASE Stop
  BY <1>2 DEF Stop, Top_TypeOK, SlotsHeld
<1>3. CASE Status_Cancel
  <2> USE <1>3 DEF Status_Cancel
  <2>1. Top_TypeOK'
    BY DEF Top_TypeOK
  <2>2. (\A c \in open : \E s \in Slots : slots[s] = c /\ s[1] = Pool(c))'
    BY DEF SlotsHeld, Pool
  <2>3. (\A s, t \in Slots : slots[s] = slots[t] /\ slots[s] # Nobody => s = t)'
    BY DEF SlotsHeld
  <2>4. ASSUME NEW s \in Slots, slots[s] # Nobody, slots[s] \notin open'
        PROVE  IF s[1] = "master" THEN ~running ELSE ~statusUp
    <3>1. CASE slots[s] \in open
      <4>1. slots[s] \in Watchers
        BY <2>4, <3>1
      <4>2. s[1] = "status"
        BY <2>4, <3>1, <4>1, SlotOfOpen DEF Pool
      <4> QED  BY <4>2
    <3>2. CASE slots[s] \notin open
      BY <2>4, <3>2 DEF SlotsHeld
    <3> QED  BY <3>1, <3>2
  <2> QED  BY <2>1, <2>2, <2>3, <2>4 DEF SlotsHeld
<1>4. ASSUME NEW c \in Everyone, Arrive(c) PROVE Goal
  BY <1>4 DEF Arrive, Top_TypeOK, SlotsHeld, Pool
<1>5. ASSUME NEW c \in Everyone, HangUp(c) PROVE Goal
  BY <1>5 DEF HangUp, Top_TypeOK, SlotsHeld, Pool
<1>6. ASSUME NEW c \in Everyone, Accept(c) PROVE Goal
  <2>1. PICK s \in FreeSlots(c) : slots' = [slots EXCEPT ![s] = c]
    BY <1>6 DEF Accept
  <2>2. s \in Slots /\ s[1] = Pool(c) /\ slots[s] = Nobody
    BY <2>1 DEF FreeSlots
  <2>3. \A t \in Slots : slots[t] # c
    BY <1>6, WaitingHasNoSlot DEF Accept, Accepting
  <2> USE <1>a, <1>6, <2>1, <2>2, <2>3 DEF Accept, Accepting
  <2>4. Top_TypeOK'
    BY DEF Top_TypeOK
  <2>5. SlotsHeld'
    BY DEF Top_TypeOK, SlotsHeld, Pool
  <2> QED  BY <2>4, <2>5
<1>7. ASSUME NEW c \in Everyone, Accept_Full(c) PROVE Goal
  BY <1>7 DEF Accept_Full, Accepting, Top_TypeOK, SlotsHeld, Pool
<1>8. ASSUME NEW c \in Everyone, Accept_Fails(c) PROVE Goal
  <2>1. CASE Pool(c) = "status"
    BY <1>8, <2>1 DEF Accept_Fails, Accepting, Top_TypeOK, SlotsHeld, Pool
  <2>2. CASE Pool(c) = "master"
    <3> USE <1>8, <2>2 DEF Accept_Fails, Accepting
    <3>1. PICK s \in FreeSlots(c) : slots' = [slots EXCEPT ![s] = c]
      OBVIOUS
    <3>2. s \in Slots /\ s[1] = "master" /\ slots[s] = Nobody
      BY <3>1 DEF FreeSlots
    <3>3. \A t \in Slots : slots[t] # c
      BY WaitingHasNoSlot
    <3> USE <1>a, <3>1, <3>2, <3>3
    <3>4. Top_TypeOK'
      <4>1. /\ running' = FALSE /\ lost' = lost \cup {c} /\ waiting' = waiting \ {c}
            /\ UNCHANGED <<main, statusUp, open, past, hungUp>>
        OBVIOUS
      <4>2. slots' \in [Slots -> Everyone \cup {Nobody}]
        BY DEF Top_TypeOK
      <4>3. \A t \in Slots : slots'[t] # Nobody => slots'[t] \in open' \cup lost'
        BY <4>1 DEF Top_TypeOK
      <4>4. /\ main' \in {"setup", "serve", "over"} /\ running' \in BOOLEAN /\ statusUp' \in BOOLEAN
            /\ waiting' \subseteq Everyone /\ open' \subseteq Everyone /\ lost' \subseteq Everyone
            /\ past' \subseteq Everyone /\ hungUp' \subseteq Everyone
        BY <4>1 DEF Top_TypeOK
      <4>5. /\ waiting' \cap (open' \cup lost' \cup past') = {}
            /\ open' \cap (lost' \cup past') = {} /\ lost' \cap past' = {}
        BY <4>1 DEF Top_TypeOK
      <4> QED  BY <4>2, <4>3, <4>4, <4>5 DEF Top_TypeOK
    <3>5. \A d \in open : \E t \in Slots : slots'[t] = d /\ t[1] = Pool(d)
      <4> SUFFICES ASSUME NEW d \in open PROVE \E t \in Slots : slots'[t] = d /\ t[1] = Pool(d)
        OBVIOUS
      <4>1. PICK t \in Slots : slots[t] = d /\ t[1] = Pool(d)
        BY DEF SlotsHeld
      <4>2. t # s /\ slots'[t] = d
        BY <4>1 DEF Top_TypeOK
      <4> QED  BY <4>1, <4>2
    <3>6. \A t, u \in Slots : slots'[t] = slots'[u] /\ slots'[t] # Nobody => t = u
      BY DEF Top_TypeOK, SlotsHeld
    <3>7. \A t \in Slots : slots'[t] # Nobody => slots'[t] \in open' \/ IF t[1] = "master" THEN ~running' ELSE ~statusUp'
      BY DEF Top_TypeOK, SlotsHeld
    <3>8. SlotsHeld'
      BY <3>5, <3>6, <3>7 DEF SlotsHeld, Pool
    <3> QED  BY <3>4, <3>8
  <2> QED  BY <2>1, <2>2, PoolOfMember
<1>9. ASSUME NEW c \in Everyone, Restore_Fails(c) PROVE Goal
  <2> USE <1>9 DEF Restore_Fails, Accepting
  <2>1. Top_TypeOK'
    BY DEF Top_TypeOK
  <2>2. (running' => running) /\ (statusUp' => statusUp)
    OBVIOUS
  <2>3. SlotsHeld'
    BY <2>2 DEF SlotsHeld, Pool
  <2> QED  BY <2>1, <2>3
<1>10. ASSUME NEW c \in Everyone, Leave(c) PROVE Goal
  <2> USE <1>a, <1>10 DEF Leave, Working
  <2>1. Top_TypeOK'
    BY DEF Top_TypeOK
  <2>2. SlotsHeld'
    BY DEF Top_TypeOK, SlotsHeld, Pool
  <2> QED  BY <2>1, <2>2
<1>11. ASSUME NEW c \in Everyone, Thread_End(c) PROVE Goal
  BY <1>10, <1>11 DEF Thread_End
<1>12. ASSUME NEW c \in Everyone, Exit(c) PROVE Goal
  BY <1>12 DEF Exit, Working, Top_TypeOK, SlotsHeld, Pool
<1>13. ASSUME NEW c \in Everyone, Reset_Silent(c) \/ Wait_Forever(c) PROVE Goal
  <2>1. UNCHANGED <<main, running, statusUp, waiting, open, lost, past, hungUp, slots>>
    BY <1>13 DEF Reset_Silent, Wait_Forever
  <2>2. jammed' \in BOOLEAN /\ stuck' \subseteq Clients
    BY <1>13 DEF Reset_Silent, Wait_Forever, Top_TypeOK
  <2> QED  BY <2>1, <2>2 DEF Top_TypeOK, SlotsHeld, Pool
<1>14. CASE UNCHANGED topVars
  BY <1>14 DEF topVars, Top_TypeOK, SlotsHeld, Pool
<1> QED
  BY <1>1, <1>2, <1>3, <1>4, <1>5, <1>6, <1>7, <1>8, <1>9, <1>10, <1>11, <1>12, <1>13, <1>14 DEF Top_Next

\* The variables have their types; a connection waits, is served, is lost or
\* is past, and a slot is kept for one that is served or lost only.
THEOREM TopTyped == Top_Spec => []Top_TypeOK
<1>1. TopInv => Top_TypeOK
  BY DEF TopInv
<1> QED  BY <1>1, InitTop, StepTop, PTL DEF Top_Spec

\* Whenever clients come and go and threads are refused, a served client has a
\* slot of its pool to itself, and while a loop accepts no slot of it is lost.
THEOREM TopSlotsHeld == Top_Spec => []SlotsHeld
<1>1. TopInv => SlotsHeld
  BY DEF TopInv
<1> QED  BY <1>1, InitTop, StepTop, PTL DEF Top_Spec

-----------------------------------------------------------------------------
(* HomeRequests: who homes what                                            *)

Functions == {Process(d) : d \in Commanded}
Wires == {Wire(d) : d \in Commanded}
LocalInfo == [socket : Wires \cup {NoDevice}, data : Commanded \cup {NoDevice}, running : 0 .. MaxRequests]

HomeTyped ==
  /\ operator \in [Operators -> [at : {"read", "socket", "data", "running", "go"},
                                 device : Commanded \cup {NoDevice}, request : 0 .. MaxRequests]]
  /\ local \in [Functions -> LocalInfo]
  /\ homing \in [Requests -> [at : {"none", "socket", "data", "running", "home", "over"},
                              device : Commanded \cup {NoDevice}, socket : Wires \cup {NoDevice},
                              data : Commanded \cup {NoDevice}, running : 0 .. MaxRequests]]
  /\ requests \in 0 .. MaxRequests

\* A request is one of a client, or has a thread, or is past; it names a device.
RequestsApart ==
  /\ \A c \in Operators : operator[c].at # "read" =>
       /\ operator[c].device \in Commanded /\ operator[c].request \in 1 .. requests
       /\ homing[operator[c].request].at = "none"
       /\ \A e \in Operators : operator[e].at # "read" /\ operator[e].request = operator[c].request => e = c
  /\ \A r \in Requests : homing[r].at # "none" => homing[r].device \in Commanded /\ r <= requests

\* What a function has filled in for its client stays in Local_Info, until
\* another client's request makes the request an overwritten one.
FilledIn ==
  \A c \in Operators : operator[c].request \notin overwritten =>
    LET d == operator[c].device IN
    /\ operator[c].at \in {"data", "running", "go"} => local[Process(d)].socket = Wire(d)
    /\ operator[c].at \in {"running", "go"} => local[Process(d)].data = d

\* What the thread still has to take is in Local_Info, what it took is right.
TakenOver ==
  \A r \in Requests \ overwritten :
    LET d == homing[r].device IN
    /\ homing[r].at = "socket" => local[Process(d)].socket = Wire(d)
    /\ homing[r].at \in {"socket", "data"} => local[Process(d)].data = d
    /\ homing[r].at \in {"data", "running", "home", "over"} => homing[r].socket = Wire(d)
    /\ homing[r].at \in {"running", "home", "over"} => homing[r].data = d

HomeInv == HomeTyped /\ RequestsApart /\ FilledIn /\ TakenOver

LEMMA InitHome == Home_Init => HomeInv
BY RequestsAssumption
   DEF Home_Init, HomeInv, HomeTyped, RequestsApart, FilledIn, TakenOver, Reading, NoInfo, Unread,
       Requests, Functions, LocalInfo

\* A function writes one field of Local_Info: nobody else's request of that
\* function which still needs a field remains among those not overwritten.
LEMMA StepFill ==
  ASSUME HomeInv, NEW c \in Operators, NEW field \in {"socket", "data", "running"}, NEW value, NEW then,
         Fill(c, field, value, then),
         \/ field = "socket" /\ value = Wire(operator[c].device) /\ then = "data"
         \/ field = "data" /\ value = operator[c].device /\ then = "running"
         \/ field = "running" /\ value = operator[c].request /\ then = "go"
  PROVE  HomeInv'
<1> DEFINE p == Process(operator[c].device)
<1> USE DEF Fill, HomeInv
<1>1. operator[c].at = field /\ operator[c].device \in Commanded /\ p \in Functions
      /\ operator[c].request \in 0 .. MaxRequests
  BY DEF HomeTyped, RequestsApart, Functions
<1>2. HomeTyped'
  BY <1>1 DEF HomeTyped, LocalInfo, Wires
<1>3. RequestsApart'
  BY <1>1 DEF HomeTyped, RequestsApart
<1>4. \A q \in Functions \ {p} : local'[q] = local[q]
  BY <1>1 DEF HomeTyped
<1>5. local'[p] = [local[p] EXCEPT ![field] = value]
  BY <1>1 DEF HomeTyped
<1>6. \A e \in Operators \ {c} : operator'[e] = operator[e]
  BY DEF HomeTyped
<1>7. operator'[c] = [operator[c] EXCEPT !.at = then]
  BY DEF HomeTyped
<1>8. ASSUME NEW e \in Operators, e # c, operator[e].at \in {"data", "running", "go"},
             Process(operator[e].device) = p
      PROVE  operator[e].request \in overwritten'
  <2>1. operator[e].request \in Pending(p)
    BY <1>8 DEF Pending
  <2>2. operator[e].request # operator[c].request
    BY <1>8, <1>1 DEF RequestsApart
  <2> QED  BY <2>1, <2>2
<1>9. ASSUME NEW r \in Requests, homing[r].at \in {"socket", "data", "running"},
             Process(homing[r].device) = p
      PROVE  r \in overwritten'
  <2>1. r \in Pending(p)
    BY <1>9 DEF Pending
  <2>2. r # operator[c].request
    BY <1>9, <1>1 DEF RequestsApart
  <2> QED  BY <2>1, <2>2
<1>10. overwritten \subseteq overwritten'
  OBVIOUS
<1>11. FilledIn'
  <2> SUFFICES ASSUME NEW e \in Operators, operator'[e].request \notin overwritten'
               PROVE  LET d == operator'[e].device IN
                      /\ operator'[e].at \in {"data", "running", "go"} => local'[Process(d)].socket = Wire(d)
                      /\ operator'[e].at \in {"running", "go"} => local'[Process(d)].data = d
    BY DEF FilledIn
  <2>1. CASE e = c
    BY <2>1, <1>1, <1>5, <1>7, <1>10 DEF FilledIn, HomeTyped, LocalInfo
  <2>2. CASE e # c /\ operator[e].at \in {"data", "running", "go"}
    <3>1. Process(operator[e].device) \in Functions \ {p}
      BY <2>2, <1>6, <1>8 DEF RequestsApart, Functions
    <3> QED  BY <3>1, <2>2, <1>4, <1>6, <1>10 DEF FilledIn
  <2>3. CASE e # c /\ operator[e].at \notin {"data", "running", "go"}
    BY <2>3, <1>6
  <2> QED  BY <2>1, <2>2, <2>3
<1>12. TakenOver'
  <2> SUFFICES ASSUME NEW r \in Requests \ overwritten'
               PROVE  LET d == homing[r].device IN
                      /\ homing[r].at = "socket" => local'[Process(d)].socket = Wire(d)
                      /\ homing[r].at \in {"socket", "data"} => local'[Process(d)].data = d
                      /\ homing[r].at \in {"data", "running", "home", "over"} => homing[r].socket = Wire(d)
                      /\ homing[r].at \in {"running", "home", "over"} => homing[r].data = d
    BY DEF TakenOver
  <2>1. CASE homing[r].at \in {"socket", "data"}
    <3>1. Process(homing[r].device) \in Functions \ {p}
      BY <2>1, <1>9 DEF RequestsApart, Functions
    <3> QED  BY <3>1, <2>1, <1>4, <1>10 DEF TakenOver
  <2>2. CASE homing[r].at \notin {"socket", "data"}
    BY <2>2, <1>10 DEF TakenOver
  <2> QED  BY <2>1, <2>2
<1> QED  BY <1>2, <1>3, <1>11, <1>12

LEMMA StepTake ==
  ASSUME HomeInv, NEW r \in Requests, NEW field \in {"socket", "data", "running"}, NEW then,
         Take(r, field, then),
         \/ field = "socket" /\ then = "data"
         \/ field = "data" /\ then = "running"
         \/ field = "running" /\ then = "home"
  PROVE  HomeInv'
<1> USE DEF Take, HomeInv
<1> DEFINE p == Process(homing[r].device)
<1>1. homing[r].at = field /\ homing[r].device \in Commanded /\ p \in Functions
  BY DEF HomeTyped, RequestsApart, Functions
<1>2. \A q \in Requests \ {r} : homing'[q] = homing[q]
  BY DEF HomeTyped
<1>3. homing'[r] = [homing[r] EXCEPT !.at = then, ![field] = local[p][field]]
  BY DEF HomeTyped
<1>4. homing'[r] \in [at : {"none", "socket", "data", "running", "home", "over"},
                      device : Commanded \cup {NoDevice}, socket : Wires \cup {NoDevice},
                      data : Commanded \cup {NoDevice}, running : 0 .. MaxRequests]
  <2>1. PICK h, v, t : h = homing[r] /\ v = local[p][field] /\ t = homing'[r]
    OBVIOUS
  <2>2. h \in [at : {"none", "socket", "data", "running", "home", "over"},
               device : Commanded \cup {NoDevice}, socket : Wires \cup {NoDevice},
               data : Commanded \cup {NoDevice}, running : 0 .. MaxRequests]
    BY <2>1 DEF HomeTyped
  <2>3. local[p] \in LocalInfo
    BY <1>1 DEF HomeTyped
  <2>4. /\ field = "socket" => v \in Wires \cup {NoDevice}
        /\ field = "data" => v \in Commanded \cup {NoDevice}
        /\ field = "running" => v \in 0 .. MaxRequests
    BY <2>1, <2>3 DEF LocalInfo
  <2>5. t = [h EXCEPT !.at = then, ![field] = v]
    BY <1>3, <2>1
  <2> HIDE DEF Take, HomeInv
  <2>6. t \in [at : {"none", "socket", "data", "running", "home", "over"},
               device : Commanded \cup {NoDevice}, socket : Wires \cup {NoDevice},
               data : Commanded \cup {NoDevice}, running : 0 .. MaxRequests]
    BY <2>2, <2>4, <2>5
  <2> QED  BY <2>1, <2>6
<1>5. HomeTyped'
  BY <1>4 DEF HomeTyped
<1>6. homing'[r].device = homing[r].device /\ homing'[r].at = then
  BY <1>1, <1>3 DEF HomeTyped
<1>7. RequestsApart'
  BY <1>1, <1>2, <1>6 DEF RequestsApart, HomeTyped, Requests
<1>8. FilledIn'
  BY DEF FilledIn
<1>9. TakenOver'
  BY <1>1, <1>2, <1>3, <1>6 DEF TakenOver, HomeTyped, LocalInfo
<1> QED  BY <1>5, <1>7, <1>8, <1>9

\* The thread that a request to home begins with.
LEMMA NewThread ==
  ASSUME NEW d
  PROVE  [Unread EXCEPT !.at = "socket", !.device = d]
           = [at |-> "socket", device |-> d, socket |-> NoDevice, data |-> NoDevice, running |-> 0]
<1> DEFINE new == [Unread EXCEPT !.at = "socket", !.device = d]
<1>1. new = [f \in {"at", "device", "socket", "data", "running"} |-> new[f]]
  BY DEF Unread
<1>2. /\ new.at = "socket" /\ new.device = d /\ new.running = 0
      /\ new.socket = NoDevice /\ new.data = NoDevice
  BY DEF Unread
<1> HIDE DEF new
<1>3. new = [at |-> "socket", device |-> d, socket |-> NoDevice, data |-> NoDevice, running |-> 0]
  BY <1>1, <1>2
<1> QED  BY <1>3 DEF new

LEMMA StepHome == HomeInv /\ [Home_Next]_homeVars => HomeInv'
<1> SUFFICES ASSUME HomeInv, [Home_Next]_homeVars PROVE HomeInv'
  OBVIOUS
<1> USE RequestsAssumption
<1>1. ASSUME NEW c \in Operators, Master_Process(c) PROVE HomeInv'
  <2> USE <1>1 DEF Master_Process, HomeInv
  <2>1. requests' \in Nat /\ requests' = requests + 1 /\ requests' <= MaxRequests /\ requests' \in Requests
    BY DEF HomeTyped, Requests
  <2>2. PICK d \in Commanded :
          operator' = [operator EXCEPT ![c] = [at |-> "socket", device |-> d, request |-> requests']]
    OBVIOUS
  <2>3. HomeTyped'
    BY <2>1, <2>2 DEF HomeTyped
  <2>4. homing[requests'].at = "none"
    BY <2>1 DEF RequestsApart, HomeTyped, Requests
  <2>5. \A e \in Operators : operator[e].at # "read" => operator[e].request <= requests
    BY DEF RequestsApart, HomeTyped
  <2>6. RequestsApart'
    BY <2>1, <2>2, <2>4, <2>5 DEF RequestsApart, HomeTyped, Requests
  <2>7. FilledIn'
    BY <2>2 DEF FilledIn, HomeTyped
  <2>8. TakenOver'
    BY DEF TakenOver
  <2> QED  BY <2>3, <2>6, <2>7, <2>8
<1>2. ASSUME NEW c \in Operators, Fill_LocalInfo(c) PROVE HomeInv'
  BY <1>2, StepFill DEF Fill_LocalInfo
<1>3. ASSUME NEW c \in Operators, Request_Other(c) PROVE HomeInv'
  <2> USE <1>3 DEF Request_Other, Served, Reading, HomeInv
  <2>1. HomeTyped'
    BY DEF HomeTyped
  <2>2. RequestsApart'
    BY DEF HomeTyped, RequestsApart
  <2>3. FilledIn'
    BY DEF HomeTyped, FilledIn
  <2> QED  BY <2>1, <2>2, <2>3 DEF TakenOver
<1>4. ASSUME NEW c \in Operators, Request_Home(c) PROVE HomeInv'
  <2> DEFINE d == operator[c].device
             q == operator[c].request
  <2> USE <1>4 DEF Request_Home, Served, Reading, HomeInv
  <2>1. d \in Commanded /\ q \in Requests /\ q <= requests /\ homing[q].at = "none"
    BY DEF HomeTyped, RequestsApart, Requests
  <2>2. HomeTyped'
    <3> DEFINE new == [at |-> "socket", device |-> d, socket |-> NoDevice, data |-> NoDevice, running |-> 0]
    <3>1. homing' = homing \/ homing' = [homing EXCEPT ![q] = new]
      <4>1. [Unread EXCEPT !.at = "socket", !.device = d] = new
        BY NewThread
      <4>2. homing' = homing \/ homing' = [homing EXCEPT ![q] = [Unread EXCEPT !.at = "socket", !.device = d]]
        BY <1>4 DEF Request_Home
      <4> QED  BY <4>1, <4>2
    <3>2. new \in [at : {"none", "socket", "data", "running", "home", "over"},
                   device : Commanded \cup {NoDevice}, socket : Wires \cup {NoDevice},
                   data : Commanded \cup {NoDevice}, running : 0 .. MaxRequests]
      BY <2>1
    <3>3. operator' \in [Operators -> [at : {"read", "socket", "data", "running", "go"},
                          device : Commanded \cup {NoDevice}, request : 0 .. MaxRequests]]
      BY DEF HomeTyped
    <3> HIDE DEF new
    <3>4. homing' \in [Requests -> [at : {"none", "socket", "data", "running", "home", "over"},
                   device : Commanded \cup {NoDevice}, socket : Wires \cup {NoDevice},
                   data : Commanded \cup {NoDevice}, running : 0 .. MaxRequests]]
      BY <3>1, <3>2, <2>1 DEF HomeTyped
    <3> QED  BY <3>3, <3>4 DEF HomeTyped
  <2>3. \A e \in Operators : e # c /\ operator[e].at # "read" => operator[e].request # q
    BY DEF RequestsApart
  <2>4. \A r \in Requests : r # q => homing'[r] = homing[r]
    BY DEF HomeTyped
  <2>5. homing'[q] = homing[q] \/ (homing'[q].at = "socket" /\ homing'[q].device = d)
    BY <2>1 DEF HomeTyped, Unread
  <2>6. RequestsApart'
    <3>1. ASSUME NEW e \in Operators, operator'[e].at # "read"
          PROVE  e # c /\ operator'[e] = operator[e] /\ homing'[operator[e].request] = homing[operator[e].request]
      BY <3>1, <2>3, <2>4 DEF HomeTyped, RequestsApart, Requests
    <3>2. \A r \in Requests : homing'[r].at # "none" => homing'[r].device \in Commanded /\ r <= requests
      BY <2>1, <2>4, <2>5 DEF RequestsApart
    <3> QED  BY <3>1, <3>2 DEF RequestsApart
  <2>7. FilledIn'
    BY DEF HomeTyped, FilledIn
  <2>8. q \notin overwritten => local[Process(d)].socket = Wire(d) /\ local[Process(d)].data = d
    BY DEF FilledIn
  <2>9. TakenOver'
    BY <2>4, <2>5, <2>8, <2>1 DEF TakenOver
  <2> QED  BY <2>2, <2>6, <2>7, <2>9
<1>5. ASSUME NEW r \in Requests, Home_Start(r) PROVE HomeInv'
  BY <1>5, StepTake DEF Home_Start
<1>6. ASSUME NEW r \in Requests, Home_End(r) PROVE HomeInv'
  <2> USE <1>6 DEF Home_End, HomeInv
  <2>1. HomeTyped'
    BY DEF HomeTyped
  <2>2. RequestsApart'
    BY DEF HomeTyped, RequestsApart, Requests
  <2>3. TakenOver'
    BY DEF HomeTyped, TakenOver
  <2> QED  BY <2>1, <2>2, <2>3 DEF FilledIn
<1>7. CASE UNCHANGED homeVars
  BY <1>7 DEF homeVars, HomeInv, HomeTyped, RequestsApart, FilledIn, TakenOver
<1> QED
  BY <1>1, <1>2, <1>3, <1>4, <1>5, <1>6, <1>7 DEF Home_Next

\* A request that reaches its thread with no other request of that function in
\* between homes the device it named, over that device's socket.
THEOREM HomesOwn == Home_Spec => []HomesWhatWasAsked
<1>1. HomeInv => HomesWhatWasAsked
  BY DEF HomeInv, TakenOver, HomesWhatWasAsked
<1> QED  BY <1>1, InitHome, StepHome, PTL DEF Home_Spec

-----------------------------------------------------------------------------
(* InfoServer: the entries of the list                                     *)

InfoNames == {Info_List[k] : k \in DOMAIN Info_List}

\* The first entry that matches a name of the list has that name, although the name of
\* another entry may be the beginning of it.
LEMMA FindsOwn ==
  ASSUME NEW n \in InfoNames
  PROVE  Info_FindParameter(n) \in DOMAIN Info_List /\ Info_List[Info_FindParameter(n)] = n
<1>1. /\ DOMAIN Info_List = 1 .. 37 /\ Info_List[21] = "Seeing_Mode_File"
      /\ \A j, k \in 1 .. 37 : Info_List[j] = Info_List[k] => j = k
  BY DEF Info_List
<1>2. \A k \in 1 .. 37 : Info_List[k] = "Seeing_Mode" => k = 23
  BY DEF Info_List
<1>3. PICK k \in 1 .. 37 : Info_List[k] = n
  BY <1>1 DEF InfoNames
<1>4. k \in Positions(n) /\ \A j \in Positions(n) : k <= j
  <2>1. k \in Positions(n)
    BY <1>1, <1>3 DEF Positions, Matches
  <2>2. ASSUME NEW j \in Positions(n) PROVE k <= j
    <3>1. j \in 1 .. 37 /\ (Info_List[j] = n \/ (n = "Seeing_Mode_File" /\ Info_List[j] = "Seeing_Mode"))
      BY <1>1, <2>2 DEF Positions, Matches
    <3>2. CASE Info_List[j] = n
      BY <1>1, <1>3, <3>1, <3>2
    <3>3. CASE n = "Seeing_Mode_File" /\ Info_List[j] = "Seeing_Mode"
      <4>1. k = 21 /\ j = 23
        BY <1>1, <1>2, <1>3, <3>1, <3>3
      <4> QED  BY <4>1
    <3> QED  BY <3>1, <3>2, <3>3
  <2> QED  BY <2>1, <2>2
<1>5. PICK m : m = Info_FindParameter(n)
  OBVIOUS
<1>6. m \in Positions(n) /\ \A j \in Positions(n) : m <= j
  BY <1>4, <1>5 DEF Info_FindParameter
<1>7. m = k
  BY <1>1, <1>3, <1>4, <1>6 DEF Positions
<1> QED  BY <1>1, <1>3, <1>5, <1>7

LEMMA SeeingNames ==
  /\ DOMAIN Seeing_List = 1 .. 18 /\ Len(Seeing_List) = 18 /\ DOMAIN Info_List = 1 .. 37 /\ Len(Info_List) = 37
  /\ \A j \in 1 .. 18 : Seeing_List[j] \in InfoNames
<1>1. DOMAIN Seeing_List = 1 .. 18 /\ Len(Seeing_List) = 18
  BY DEF Seeing_List
<1>2. DOMAIN Info_List = 1 .. 37 /\ Len(Info_List) = 37
  BY DEF Info_List
<1>3. \A j \in 1 .. 18 : Info_List[IF j <= 11 THEN j + 17 ELSE j + 18] = Seeing_List[j]
  BY DEF Info_List, Seeing_List
<1>4. \A j \in 1 .. 18 : (IF j <= 11 THEN j + 17 ELSE j + 18) \in 1 .. 37
  OBVIOUS
<1> QED  BY <1>1, <1>2, <1>3, <1>4 DEF InfoNames

\* Every flag points somewhere once main has come past the step that sets it.
PointsSomewhere ==
  /\ stage \in {"frames", "links", "defaults", "listen", "serve", "closed"} =>
       \A n \in DOMAIN RunningPointers : pointer[n] # NoName
  /\ stage \in {"links", "defaults", "listen", "serve", "closed"} =>
       \A n \in DOMAIN FramePointers : pointer[n] # NoName
  /\ stage \in {"defaults", "listen", "serve", "closed"} =>
       \A n \in DOMAIN SocketPointers : pointer[n] # NoName

\* No client is served before that, and one that is sent nothing has no reply begun.
RepliesBegin ==
  /\ stage \in {"sockets", "pointers", "frames", "links", "defaults", "listen"} =>
       \A c \in InfoClients : doing[c] = "away" /\ line[c] = <<NoName, 0>>
  /\ \A c \in InfoClients : doing[c] \in {"away", "idle", "first", "second"} => at[c] = 0

InfoShapes ==
  /\ DOMAIN doing = InfoClients /\ DOMAIN line = InfoClients
  /\ at \in [InfoClients -> Nat] /\ settings \in Nat
  /\ asked \in [InfoClients -> (Named \cup {NoName}) \X Nat]
  /\ text \in [Named -> Nat \X Nat] /\ setters \in [Named -> SUBSET InfoClients] /\ last \in [Named -> Nat]

\* A client that sets a text is among those who have set it; as long as it is the only
\* one, the value it copies is the last, and what it has copied is there.
Copying ==
  \A c \in InfoClients : doing[c] \in {"first", "second"} =>
    /\ asked[c][1] \in Named /\ c \in setters[asked[c][1]]
    /\ setters[asked[c][1]] = {c} => asked[c][2] = last[asked[c][1]]
    /\ setters[asked[c][1]] = {c} /\ doing[c] = "second" => text[asked[c][1]][1] = last[asked[c][1]]

InfoInv == InfoShapes /\ PointsSomewhere /\ RepliesBegin /\ Copying /\ PointersSet /\ TextWhole

LEMMA InitInfo == Info_Init => InfoInv
<1> SUFFICES ASSUME Info_Init PROVE InfoInv
  OBVIOUS
<1> USE InfoAssumption DEF Info_Init
<1>1. InfoShapes
  <2>1. <<NoName, 0>> \in (Named \cup {NoName}) \X Nat /\ <<0, 0>> \in Nat \X Nat /\ {} \in SUBSET InfoClients /\ 0 \in Nat
    OBVIOUS
  <2> QED  BY <2>1 DEF InfoShapes
<1>2. PointsSomewhere /\ RepliesBegin /\ Copying
  BY DEF PointsSomewhere, RepliesBegin, Copying
<1>3. \A c \in InfoClients : line[c][1] = NoName /\ doing[c] = "away"
  OBVIOUS
<1>4. PointersSet
  BY <1>3 DEF PointersSet
<1>5. TextWhole
  BY DEF TextWhole
<1> QED  BY <1>1, <1>2, <1>4, <1>5 DEF InfoInv

\* main points the flags at the variables of its threads before anything is read or
\* written through them.
LEMMA InfoStarts ==
  ASSUME InfoInv, Socket_Setup \/ SetRunning \/ SetFrames \/ SetSockets \/ Info_ReadFile \/ Info_Open
  PROVE  InfoInv'
<1> USE DEF InfoInv
<1>a. UNCHANGED <<text, threads, doing, asked, at, line, settings, setters, last>>
  BY DEF Socket_Setup, SetRunning, SetFrames, SetSockets, Info_ReadFile, Info_Open, ListUnchanged
<1>b. stage \in {"sockets", "pointers", "frames", "links", "defaults", "listen"}
  BY DEF Socket_Setup, SetRunning, SetFrames, SetSockets, Info_ReadFile, Info_Open
<1>c. \A c \in InfoClients : doing[c] = "away" /\ line[c] = <<NoName, 0>> /\ line[c][1] = NoName /\ NoName \notin Flags
  BY <1>b, InfoAssumption DEF RepliesBegin
<1>1. InfoShapes' /\ Copying' /\ TextWhole'
  BY <1>a DEF InfoShapes, Copying, TextWhole
<1>2. RepliesBegin'
  BY <1>a, <1>c DEF RepliesBegin
<1>3. PointsSomewhere'
  <2>1. CASE SetRunning
    <3>1. stage' = "frames" /\ \A n \in DOMAIN RunningPointers : pointer'[n] # NoName
      BY <2>1, InfoAssumption DEF SetRunning, Points, Flags
    <3> QED  BY <3>1 DEF PointsSomewhere
  <2>2. CASE SetFrames
    <3>1. /\ stage' = "links" /\ stage = "frames"
          /\ \A n \in DOMAIN FramePointers : pointer'[n] # NoName
          /\ \A n \in DOMAIN RunningPointers : pointer'[n] # NoName
      BY <2>2, InfoAssumption DEF SetFrames, Points, Flags, PointsSomewhere
    <3> QED  BY <3>1 DEF PointsSomewhere
  <2>3. CASE SetSockets
    <3>1. /\ stage' = "defaults" /\ stage = "links"
          /\ \A n \in DOMAIN SocketPointers : pointer'[n] # NoName
          /\ \A n \in DOMAIN FramePointers : pointer'[n] # NoName
          /\ \A n \in DOMAIN RunningPointers : pointer'[n] # NoName
      BY <2>3, InfoAssumption DEF SetSockets, Points, Flags, PointsSomewhere
    <3> QED  BY <3>1 DEF PointsSomewhere
  <2>4. CASE Socket_Setup
    BY <2>4 DEF Socket_Setup, PointsSomewhere
  <2>5. CASE Info_ReadFile
    BY <2>5 DEF Info_ReadFile, PointsSomewhere
  <2>6. CASE Info_Open
    BY <2>6 DEF Info_Open, PointsSomewhere
  <2> QED  BY <2>1, <2>2, <2>3, <2>4, <2>5, <2>6
<1>4. PointersSet'
  <2>1. NoName \notin written'
    <3>1. CASE Info_ReadFile
      <4>1. \A n \in Flags : pointer[n] # NoName
        BY <3>1 DEF Info_ReadFile, PointsSomewhere, Flags
      <4> QED  BY <3>1, <4>1 DEF Info_ReadFile
    <3>2. CASE UNCHANGED written
      BY <3>2 DEF PointersSet
    <3> QED  BY <3>1, <3>2 DEF Socket_Setup, SetRunning, SetFrames, SetSockets, Info_Open
  <2>2. \A c \in InfoClients : line'[c][1] \notin Flags /\ doing'[c] # "seeing"
    BY <1>a, <1>c
  <2> QED  BY <2>1, <2>2 DEF PointersSet
<1> QED  BY <1>1, <1>2, <1>3, <1>4

\* What keeps the flags and the lines right once the clients are served.
LEMMA InfoServes ==
  ASSUME InfoInv, stage = "serve", UNCHANGED <<pointer, written>>, stage' \in {"serve", "closed", "over"},
         RepliesBegin' , NEW b \in InfoClients, \A c \in InfoClients \ {b} : line'[c] = line[c] /\ at'[c] = at[c],
         \A c \in InfoClients \ {b} : doing'[c] = doing[c] \/ doing'[c] # "seeing",
         line'[b][1] \in Flags => line'[b][2] = pointer[line'[b][1]],
         doing'[b] = "seeing" /\ at'[b] > 0 => line'[b][1] = Seeing_List[at'[b]]
  PROVE  PointersSet' /\ PointsSomewhere'
<1>1. \A n \in Flags : pointer[n] # NoName
  BY DEF InfoInv, PointsSomewhere, Flags
<1>2. PointsSomewhere'
  BY DEF InfoInv, PointsSomewhere
<1>3. NoName \notin written'
  BY DEF InfoInv, PointersSet
<1>4. ASSUME NEW c \in InfoClients
      PROVE  /\ line'[c][1] \in Flags => line'[c][2] = pointer'[line'[c][1]] /\ line'[c][2] # NoName
             /\ doing'[c] = "seeing" /\ at'[c] > 0 => line'[c][1] = Seeing_List[at'[c]]
  <2>1. CASE c = b
    BY <1>1, <2>1
  <2>2. CASE c # b
    BY <2>2 DEF InfoInv, PointersSet
  <2> QED  BY <2>1, <2>2
<1> QED  BY <1>2, <1>3, <1>4 DEF PointersSet

\* Clients come and go, ask, and are sent lines.
LEMMA InfoTalks ==
  ASSUME InfoInv, NEW b \in InfoClients,
         \/ Info_Accept(b) \/ Info_Request(b) \/ Info_SendAll(b) \/ Info_SendSeeing(b)
         \/ Info_SendEOF(b) \/ Info_End(b) \/ SetUnknown(b)
  PROVE  InfoInv'
<1> USE DEF InfoInv
<1>a. /\ stage = "serve" /\ UNCHANGED <<pointer, written, text, asked, settings, setters, last>>
      /\ stage' \in {"serve", "closed", "over"}
  BY DEF Info_Accept, Info_Request, Info_SendAll, Info_SendSeeing, Info_SendEOF, Info_End,
         SetUnknown, DataUnchanged, Serving, Sends
<1>b. InfoShapes
  OBVIOUS
<1>1. /\ \A c \in InfoClients \ {b} : line'[c] = line[c] /\ at'[c] = at[c]
      /\ \A c \in InfoClients \ {b} : doing'[c] = doing[c] \/ (doing[c] # "away" /\ doing'[c] = "refused")
      /\ DOMAIN doing' = InfoClients /\ DOMAIN line' = InfoClients /\ at' \in [InfoClients -> Nat]
      /\ doing'[b] \notin {"first", "second"} \/ doing'[b] = doing[b]
      /\ doing'[b] \in {"away", "idle", "first", "second"} => at'[b] = 0
      /\ doing[b] \in {"first", "second", "refused"} => doing'[b] \in {doing[b], "refused"}
  <2>1. CASE Info_Accept(b)
    BY <2>1, <1>b DEF Info_Accept, DataUnchanged, InfoShapes, RepliesBegin
  <2>3. CASE Info_Request(b)
    <3>1. PICK what \in {"all", "seeing", "idle"} : doing' = [doing EXCEPT ![b] = what]
      BY <2>3 DEF Info_Request, Goes
    <3>2. doing'[b] = what /\ doing[b] = "idle" /\ UNCHANGED <<line, at>> /\ at[b] = 0
      BY <2>3, <1>b, <3>1 DEF Info_Request, DataUnchanged, InfoShapes, RepliesBegin, Serving
    <3> QED  BY <1>b, <3>1, <3>2 DEF InfoShapes
  <2>4. CASE Info_SendAll(b) \/ Info_SendSeeing(b)
    <3>1. PICK k : line' = [line EXCEPT ![b] = Read(k)] /\ at' = [at EXCEPT ![b] = @ + 1] /\ doing' = doing
      BY <2>4 DEF Info_SendAll, Info_SendSeeing, Sends
    <3>2. doing[b] \in {"all", "seeing"}
      BY <2>4 DEF Info_SendAll, Info_SendSeeing, Serving
    <3>3. at[b] + 1 \in Nat
      BY <1>b DEF InfoShapes
    <3>4. at' \in [InfoClients -> Nat] /\ DOMAIN line' = InfoClients /\ \A c \in InfoClients \ {b} : line'[c] = line[c] /\ at'[c] = at[c]
      BY <1>b, <3>1, <3>3 DEF InfoShapes
    <3> QED  BY <1>b, <3>1, <3>2, <3>4 DEF InfoShapes
  <2>5. CASE Info_SendEOF(b)
    BY <2>5, <1>b DEF Info_SendEOF, NoReply, InfoShapes, RepliesBegin, Serving, Goes
  <2>6. CASE Info_End(b)
    BY <2>6, <1>b DEF Info_End, NoReply, InfoShapes, RepliesBegin, Serving, Goes
  <2>7. CASE SetUnknown(b)
    BY <2>7, <1>b DEF SetUnknown, DataUnchanged, InfoShapes, RepliesBegin, Serving
  <2> QED  BY <2>1, <2>3, <2>4, <2>5, <2>6, <2>7
<1>2. InfoShapes'
  BY <1>a, <1>b, <1>1 DEF InfoShapes
<1>3. RepliesBegin'
  <2>1. \A c \in InfoClients : doing'[c] \in {"away", "idle", "first", "second"} => at'[c] = 0
    BY <1>1 DEF RepliesBegin
  <2> QED  BY <1>a, <2>1 DEF RepliesBegin
<1>4. Copying'
  <2>1. \A c \in InfoClients : doing'[c] \in {"first", "second"} => doing'[c] = doing[c]
    BY <1>1
  <2> QED  BY <1>a, <2>1 DEF Copying
<1>5. TextWhole'
  <2>1. \A c \in InfoClients : doing[c] \in {"first", "second", "refused"} => doing'[c] \in {"first", "second", "refused"}
    BY <1>1
  <2> QED  BY <1>a, <2>1 DEF TextWhole
<1>6. PointersSet' /\ PointsSomewhere'
  <2>1. CASE Info_SendAll(b) \/ Info_SendSeeing(b)
    <3>1. PICK k : line' = [line EXCEPT ![b] = Read(k)] /\ at' = [at EXCEPT ![b] = @ + 1] /\ doing' = doing
                   /\ ((doing[b] = "seeing" /\ at[b] < Len(Seeing_List) /\ k = Info_SeeingPositions[at[b] + 1])
                       \/ doing[b] = "all")
      BY <2>1 DEF Info_SendAll, Info_SendSeeing, Sends, Serving
    <3>2. line'[b] = Read(k) /\ at'[b] = at[b] + 1 /\ at[b] \in Nat
      BY <1>b, <3>1 DEF InfoShapes
    <3>3. Read(k)[1] = Info_List[k] /\ (Info_List[k] \in Flags => Read(k)[2] = pointer[Info_List[k]])
      <4>1. Info_List[k] \in Flags => Info_List[k] \notin Named
        BY InfoAssumption DEF Texts
      <4>2. CASE Info_List[k] \in Flags
        BY <4>1, <4>2 DEF Read
      <4>3. CASE Info_List[k] \notin Flags /\ Info_List[k] \in Named
        BY <4>3 DEF Read
      <4>4. CASE Info_List[k] \notin Flags /\ Info_List[k] \notin Named
        BY <4>4 DEF Read
      <4> QED  BY <4>2, <4>3, <4>4
    <3>4. doing'[b] = "seeing" => line'[b][1] = Seeing_List[at'[b]]
      <4> SUFFICES ASSUME doing[b] = "seeing" PROVE Info_List[k] = Seeing_List[at[b] + 1]
        BY <3>1, <3>2, <3>3
      <4>1. at[b] + 1 \in 1 .. 18 /\ k = Info_FindParameter(Seeing_List[at[b] + 1])
        BY <3>1, <3>2, SeeingNames DEF Info_SeeingPositions
      <4>2. Seeing_List[at[b] + 1] \in InfoNames
        BY <4>1, SeeingNames
      <4> QED  BY <4>1, <4>2, FindsOwn
    <3>5. line'[b][1] \in Flags => line'[b][2] = pointer[line'[b][1]]
      BY <3>2, <3>3
    <3>6. \A c \in InfoClients \ {b} : doing'[c] = doing[c] \/ doing'[c] # "seeing"
      BY <1>1
    <3> QED  BY <1>a, <1>1, <1>3, <3>4, <3>5, <3>6, InfoServes
  <2>2. CASE ~(Info_SendAll(b) \/ Info_SendSeeing(b))
    <3>1. line'[b] = line[b] \/ line'[b] = <<NoName, 0>>
      BY <1>b, <2>2
      DEF Info_Accept, Info_Request, Info_SendEOF, Info_End, SetUnknown, DataUnchanged, NoReply, InfoShapes
    <3>2. line'[b][1] \in Flags => line'[b][2] = pointer[line'[b][1]]
      BY <3>1, InfoAssumption DEF PointersSet
    <3>3. doing'[b] = "seeing" => at'[b] = 0 \/ (doing[b] = "seeing" /\ UNCHANGED <<line, at>>)
      <4>1. CASE Info_Request(b)
        <5>1. at'[b] = 0
          BY <4>1 DEF Info_Request, Serving, RepliesBegin
        <5> QED  BY <5>1
      <4>2. CASE SetUnknown(b)
        BY <4>2 DEF SetUnknown, DataUnchanged
      <4>3. CASE Info_Accept(b) \/ Info_SendEOF(b) \/ Info_End(b)
        BY <1>b, <4>3 DEF Info_Accept, Info_SendEOF, Info_End, Goes, InfoShapes
      <4> QED  BY <2>2, <4>1, <4>2, <4>3
    <3>4. doing'[b] = "seeing" /\ at'[b] > 0 => line'[b][1] = Seeing_List[at'[b]]
      BY <3>3 DEF PointersSet
    <3>5. \A c \in InfoClients \ {b} : doing'[c] = doing[c] \/ doing'[c] # "seeing"
      BY <1>1
    <3> QED  BY <1>a, <1>1, <1>3, <3>2, <3>4, <3>5, InfoServes
  <2> QED  BY <2>1, <2>2
<1> QED  BY <1>2, <1>3, <1>4, <1>5, <1>6

\* The threads end with the loop that accepts clients.
LEMMA InfoCancels == ASSUME InfoInv, Info_Cancel PROVE InfoInv'
<1>1. /\ UNCHANGED <<pointer, written, text, asked, settings, setters, last, threads, line, at>>
      /\ DOMAIN doing' = InfoClients /\ stage = "serve" /\ stage' = "closed"
      /\ \A c \in InfoClients : doing'[c] \in {"away", "refused"} /\ (doing'[c] = "away" => doing[c] = "away")
  BY DEF Info_Cancel, DataUnchanged
<1>2. InfoShapes' /\ RepliesBegin' /\ PointsSomewhere'
  BY <1>1 DEF InfoInv, InfoShapes, RepliesBegin, PointsSomewhere
<1>3. Copying'
  <2>1. \A c \in InfoClients : doing'[c] \notin {"first", "second"}
    BY <1>1
  <2> QED  BY <2>1 DEF Copying
<1>4. TextWhole'
  <2>1. \A c \in InfoClients : doing[c] \in {"first", "second", "refused"} => doing'[c] = "refused"
    BY <1>1
  <2> QED  BY <1>1, <2>1 DEF InfoInv, TextWhole
<1>5. PointersSet'
  <2>1. \A c \in InfoClients : doing'[c] # "seeing"
    BY <1>1
  <2> QED  BY <1>1, <2>1 DEF InfoInv, PointersSet
<1> QED  BY <1>2, <1>3, <1>4, <1>5 DEF InfoInv

\* A client takes the value it sets, which is now the last of that name.
LEMMA InfoTakes ==
  ASSUME InfoInv, NEW b \in InfoClients, Info_SetParameter(b)
  PROVE  InfoInv'
<1> DEFINE v == settings + 1
<1>a. InfoShapes /\ v \in Nat
  BY DEF InfoInv, InfoShapes
<1>1. PICK n \in Named : /\ asked' = [asked EXCEPT ![b] = <<n, v>>]
                         /\ setters' = [setters EXCEPT ![n] = @ \cup {b}]
                         /\ last' = [last EXCEPT ![n] = v]
  BY DEF Info_SetParameter
<1>2. /\ doing[b] = "idle" /\ stage = "serve" /\ doing' = [doing EXCEPT ![b] = "first"] /\ settings' = v
      /\ UNCHANGED <<stage, pointer, written, text, threads, at, line>>
  BY DEF Info_SetParameter, Serving, Goes
<1> HIDE DEF v
<1>3. /\ asked'[b] = <<n, v>> /\ asked'[b][1] = n /\ asked'[b][2] = v /\ doing'[b] = "first"
      /\ \A c \in InfoClients \ {b} : asked'[c] = asked[c] /\ doing'[c] = doing[c]
      /\ last'[n] = v /\ setters'[n] = setters[n] \cup {b}
      /\ \A m \in Named \ {n} : last'[m] = last[m] /\ setters'[m] = setters[m]
  BY <1>a, <1>1, <1>2 DEF InfoShapes
<1>4. InfoShapes'
  <2>1. <<n, v>> \in (Named \cup {NoName}) \X Nat /\ setters[n] \cup {b} \in SUBSET InfoClients
    BY <1>a DEF InfoShapes
  <2> QED  BY <1>a, <1>1, <1>2, <2>1 DEF InfoShapes
<1>5. RepliesBegin'
  BY <1>2, <1>3 DEF InfoInv, RepliesBegin
<1>6. Copying'
  <2> SUFFICES ASSUME NEW c \in InfoClients, doing'[c] \in {"first", "second"}
               PROVE  /\ asked'[c][1] \in Named /\ c \in setters'[asked'[c][1]]
                      /\ setters'[asked'[c][1]] = {c} => asked'[c][2] = last'[asked'[c][1]]
                      /\ setters'[asked'[c][1]] = {c} /\ doing'[c] = "second" => text'[asked'[c][1]][1] = last'[asked'[c][1]]
    BY DEF Copying
  <2>1. CASE c = b
    BY <1>3, <2>1
  <2>2. CASE c # b
    <3>1. /\ asked'[c] = asked[c] /\ doing'[c] = doing[c] /\ asked[c][1] \in Named /\ c \in setters[asked[c][1]]
          /\ setters[asked[c][1]] = {c} => asked[c][2] = last[asked[c][1]]
          /\ setters[asked[c][1]] = {c} /\ doing[c] = "second" => text[asked[c][1]][1] = last[asked[c][1]]
      BY <1>3, <2>2 DEF InfoInv, Copying
    <3>2. CASE asked[c][1] = n
      <4>1. setters'[n] # {c}
        BY <1>3, <2>2
      <4> QED  BY <1>3, <3>1, <3>2, <4>1
    <3>3. CASE asked[c][1] # n
      BY <1>2, <1>3, <3>1, <3>3
    <3> QED  BY <3>2, <3>3
  <2> QED  BY <2>1, <2>2
<1>7. TextWhole'
  <2> SUFFICES ASSUME NEW m \in Named, NEW c \in InfoClients, setters'[m] = {c},
                      ~(asked'[c][1] = m /\ doing'[c] \in {"first", "second", "refused"})
               PROVE  text'[m] = <<last'[m], last'[m]>>
    BY DEF TextWhole
  <2>1. m # n
    BY <1>3
  <2>2. setters[m] = {c} /\ ~(asked[c][1] = m /\ doing[c] \in {"first", "second", "refused"})
    BY <1>2, <1>3, <2>1
  <2>3. text[m] = <<last[m], last[m]>>
    BY <2>2 DEF InfoInv, TextWhole
  <2> QED  BY <1>2, <1>3, <2>1, <2>3
<1>8. PointersSet' /\ PointsSomewhere'
  <2>1. \A c \in InfoClients : doing'[c] = "seeing" => doing[c] = "seeing"
    BY <1>3
  <2>2. PointersSet'
    BY <1>2, <2>1 DEF InfoInv, PointersSet
  <2> QED  BY <1>2, <2>2 DEF InfoInv, PointsSomewhere
<1> QED  BY <1>4, <1>5, <1>6, <1>7, <1>8 DEF InfoInv

\* A client copies a half of its value to the place of that name.
LEMMA InfoCopies ==
  ASSUME InfoInv, NEW b \in InfoClients, CopyFirst(b) \/ CopySecond(b)
  PROVE  InfoInv'
<1>a. InfoShapes
  BY DEF InfoInv
<1>1. PICK n : n = asked[b][1]
  OBVIOUS
<1>2. PICK half : half \in {1, 2} /\ (CopyFirst(b) => half = 1) /\ (CopySecond(b) => half = 2)
                  /\ (half = 1 => CopyFirst(b)) /\ (half = 2 => CopySecond(b))
  <2>1. ~(CopyFirst(b) /\ CopySecond(b))
    BY DEF CopyFirst, CopySecond, Serving
  <2>2. CASE CopyFirst(b)
    BY <2>1, <2>2
  <2>3. CASE CopySecond(b)
    BY <2>1, <2>3
  <2> QED  BY <2>2, <2>3
<1>3. /\ stage = "serve" /\ (half = 1 => doing[b] = "first") /\ (half = 2 => doing[b] = "second")
      /\ doing' = [doing EXCEPT ![b] = IF half = 1 THEN "second" ELSE "idle"]
      /\ UNCHANGED <<stage, pointer, written, threads, asked, at, line, settings, setters, last>>
  BY <1>2 DEF CopyFirst, CopySecond, Copies, Serving, Goes
<1>4. n \in Named /\ b \in setters[n] /\ asked[b][2] \in Nat
      /\ (setters[n] = {b} => asked[b][2] = last[n] /\ (half = 2 => text[n][1] = last[n]))
  <2>1. doing[b] \in {"first", "second"} /\ (half = 2 => doing[b] = "second")
    BY <1>2, <1>3
  <2>2. asked[b][2] \in Nat
    BY <1>a DEF InfoShapes
  <2> QED  BY <1>1, <2>1, <2>2 DEF InfoInv, Copying
<1>5. Info_List[Info_FindParameter(asked[b][1])] = n
  <2>1. n \in InfoNames
    BY <1>4, InfoAssumption DEF Texts, InfoNames
  <2> QED  BY <1>1, <2>1, FindsOwn
<1>6. text' = [text EXCEPT ![n][half] = asked[b][2]]
  BY <1>2, <1>5 DEF CopyFirst, CopySecond, Copies
<1>7. PICK x, y \in Nat : text[n] = <<x, y>>
  BY <1>4, <1>a DEF InfoShapes
<1>8. /\ text'[n] = IF half = 1 THEN <<asked[b][2], y>> ELSE <<x, asked[b][2]>>
      /\ \A m \in Named \ {n} : text'[m] = text[m]
      /\ text' \in [Named -> Nat \X Nat]
  <2>1. DOMAIN text = Named /\ text' = [text EXCEPT ![n] = [text[n] EXCEPT ![half] = asked[b][2]]]
    BY <1>a, <1>6 DEF InfoShapes
  <2>2. [text[n] EXCEPT ![half] = asked[b][2]] = IF half = 1 THEN <<asked[b][2], y>> ELSE <<x, asked[b][2]>>
    <3>1. CASE half = 1
      BY <1>7, <3>1
    <3>2. CASE half = 2
      BY <1>7, <3>2
    <3> QED  BY <1>2, <3>1, <3>2
  <2>3. (IF half = 1 THEN <<asked[b][2], y>> ELSE <<x, asked[b][2]>>) \in Nat \X Nat
    BY <1>4, <1>7
  <2> QED  BY <1>a, <1>4, <2>1, <2>2, <2>3 DEF InfoShapes
<1>9. /\ \A c \in InfoClients \ {b} : doing'[c] = doing[c]
      /\ doing'[b] = IF half = 1 THEN "second" ELSE "idle"
  BY <1>3, <1>a DEF InfoShapes
<1>10. InfoShapes'
  BY <1>a, <1>3, <1>8 DEF InfoShapes
<1>11. RepliesBegin'
  <2>1. at[b] = 0
    BY <1>2, <1>3 DEF InfoInv, RepliesBegin
  <2> QED  BY <1>3, <1>9, <2>1 DEF InfoInv, RepliesBegin
<1>12. Copying'
  <2> SUFFICES ASSUME NEW c \in InfoClients, doing'[c] \in {"first", "second"}
               PROVE  /\ asked[c][1] \in Named /\ c \in setters[asked[c][1]]
                      /\ setters[asked[c][1]] = {c} => asked[c][2] = last[asked[c][1]]
                      /\ setters[asked[c][1]] = {c} /\ doing'[c] = "second" => text'[asked[c][1]][1] = last[asked[c][1]]
    BY <1>3 DEF Copying
  <2>1. CASE c = b
    <3>1. half = 1
      BY <1>2, <1>9, <2>1
    <3>2. text'[n][1] = asked[b][2]
      BY <1>8, <3>1
    <3> QED  BY <1>1, <1>4, <2>1, <3>2
  <2>2. CASE c # b
    <3>1. /\ doing[c] \in {"first", "second"} /\ doing'[c] = doing[c] /\ asked[c][1] \in Named /\ c \in setters[asked[c][1]]
          /\ setters[asked[c][1]] = {c} => asked[c][2] = last[asked[c][1]]
          /\ setters[asked[c][1]] = {c} /\ doing[c] = "second" => text[asked[c][1]][1] = last[asked[c][1]]
      BY <1>9, <2>2 DEF InfoInv, Copying
    <3>2. setters[asked[c][1]] = {c} => asked[c][1] # n
      BY <1>4, <2>2
    <3> QED  BY <1>8, <3>1, <3>2
  <2> QED  BY <2>1, <2>2
<1>13. TextWhole'
  <2> SUFFICES ASSUME NEW m \in Named, NEW c \in InfoClients, setters[m] = {c},
                      ~(asked[c][1] = m /\ doing'[c] \in {"first", "second", "refused"})
               PROVE  text'[m] = <<last[m], last[m]>>
    BY <1>3 DEF TextWhole
  <2>1. CASE m = n
    <3>1. c = b
      BY <1>4, <2>1
    <3>2. half = 2
      BY <1>1, <1>2, <1>9, <2>1, <3>1
    <3>3. x = last[n] /\ asked[b][2] = last[n]
      BY <1>4, <1>7, <2>1, <3>1, <3>2
    <3> QED  BY <1>8, <2>1, <3>2, <3>3
  <2>2. CASE m # n
    <3>1. text'[m] = text[m]
      BY <1>8, <2>2
    <3>2. ~(asked[c][1] = m /\ doing[c] \in {"first", "second", "refused"})
      BY <1>1, <1>9, <2>2
    <3> QED  BY <3>1, <3>2 DEF InfoInv, TextWhole
  <2> QED  BY <2>1, <2>2
<1>14. PointersSet' /\ PointsSomewhere'
  <2>1. \A c \in InfoClients : doing'[c] = "seeing" => doing[c] = "seeing"
    BY <1>9
  <2>2. PointersSet'
    BY <1>3, <2>1 DEF InfoInv, PointersSet
  <2> QED  BY <1>3, <2>2 DEF InfoInv, PointsSomewhere
<1> QED  BY <1>10, <1>11, <1>12, <1>13, <1>14 DEF InfoInv

LEMMA InfoStep == InfoInv /\ [Info_Next]_infoVars => InfoInv'
<1> SUFFICES ASSUME InfoInv, [Info_Next]_infoVars PROVE InfoInv'
  OBVIOUS
<1>1. CASE UNCHANGED infoVars
  BY <1>1 DEF infoVars, InfoInv, InfoShapes, PointsSomewhere, RepliesBegin, Copying, PointersSet, TextWhole
<1>2. CASE Socket_Setup \/ SetRunning \/ SetFrames \/ SetSockets \/ Info_ReadFile \/ Info_Open
  BY <1>2, InfoStarts
<1>3. ASSUME NEW b \in InfoClients, Info_SetParameter(b)
      PROVE  InfoInv'
  BY <1>3, InfoTakes
<1>4. ASSUME NEW b \in InfoClients, CopyFirst(b) \/ CopySecond(b)
      PROVE  InfoInv'
  BY <1>4, InfoCopies
<1>5. ASSUME NEW b \in InfoClients,
             \/ Info_Accept(b) \/ Info_Request(b) \/ Info_SendAll(b) \/ Info_SendSeeing(b)
             \/ Info_SendEOF(b) \/ Info_End(b) \/ SetUnknown(b)
      PROVE  InfoInv'
  BY <1>5, InfoTalks
<1>6. CASE Info_Cancel
  BY <1>6, InfoCancels
<1> QED  BY <1>1, <1>2, <1>3, <1>4, <1>5, <1>6 DEF Info_Next

\* The defaults are written and the lines of a reply are read through the pointers of
\* their own flags, each line of the seeing list is the one of its name, and a text that
\* only one client sets is never mixed of two values nor put at another name.
THEOREM EntriesRight == Info_Spec => []EntriesOwn
<1>1. InfoInv => EntriesOwn
  BY DEF InfoInv, EntriesOwn
<1> QED  BY InitInfo, InfoStep, <1>1, PTL DEF Info_Spec
-----------------------------------------------------------------------------
(* StatusList: what the entries point to                                   *)

\* The structure in which the flag f of the device d is kept.
Keeper(d, f) == IF f \in {"Connected", "Connection_Error"} THEN SocketOf(d) ELSE d
Right(e, pointers) == pointers[Type(e)] = Pointer(Keeper(e[1], e[2]), e[2])
Pointed(l) == DOMAIN l = Status_List /\ \A e \in Status_List : DOMAIN l[e] = {"I", "F", "S"}

\* The names of a call fit the parameters, and name the flags in the set given.
Fits(parameters, names, flags) ==
  /\ DOMAIN names = DOMAIN parameters
  /\ \A n \in DOMAIN names : names[n] = parameters[n] \/ names[n] = NULL
  /\ \A m, n \in DOMAIN parameters : parameters[m] = parameters[n] => m = n
  /\ \A f \in flags : f # NULL /\ \E n \in DOMAIN names : names[n] = f

\* What a setup leaves: the entries of its devices point right, the others
\* are as they were.
SetUp(old, new, devices) ==
  /\ Pointed(new)
  /\ \A e \in Status_List : IF e[1] \in devices THEN Right(e, new[e]) ELSE new[e] = old[e]

\* The flags that the list has of a device.
FlagsOf(d) ==
  CASE d \in {"fsm_tip", "fsm_tilt"} -> FsmFlags
    [] d \in {"oap_tip", "oap_tilt"} -> OapFlags
    [] d \in {"indigo", "f15", "focus", "rotation"} -> StageFlags
    [] d = "fwheel" -> FwheelFlags
    [] d = "power" -> PowerFlags

MotorsListed == {"fsm_tip", "fsm_tilt", "oap_tip", "oap_tilt", "indigo", "f15", "focus", "rotation"}
Listed == MotorsListed \cup {"fwheel", "power"}

LEMMA Entries ==
  \A e \in Status_List :
    e = <<e[1], e[2]>> /\ e[1] \in Listed /\ e[2] \in FlagsOf(e[1]) /\ e[2] # NULL
<1> SUFFICES ASSUME NEW e \in Status_List
             PROVE  e = <<e[1], e[2]>> /\ e[1] \in Listed /\ e[2] \in FlagsOf(e[1]) /\ e[2] # NULL
  OBVIOUS
<1>1. CASE e \in {"fsm_tip", "fsm_tilt"} \X FsmFlags
  BY <1>1, ListAssumption DEF FlagsOf, Listed, MotorsListed, OapFlags
<1>2. CASE e \in {"oap_tip", "oap_tilt"} \X OapFlags
  BY <1>2, ListAssumption DEF FlagsOf, Listed, MotorsListed
<1>3. CASE e \in {"indigo", "f15", "focus", "rotation"} \X StageFlags
  BY <1>3, ListAssumption DEF FlagsOf, Listed, MotorsListed, OapFlags, FsmFlags
<1>4. CASE e \in {"fwheel"} \X FwheelFlags
  BY <1>4, ListAssumption DEF FlagsOf, Listed, MotorsListed
<1>5. CASE e \in {"power"} \X PowerFlags
  BY <1>5, ListAssumption DEF FlagsOf, Listed, MotorsListed
<1> QED
  BY <1>1, <1>2, <1>3, <1>4, <1>5 DEF Status_List

\* The parameter of an entry that is named is the flag of the entry.
LEMMA SetsItsOwn ==
  ASSUME NEW l, Pointed(l), NEW d, NEW parameters, NEW names,
         Fits(parameters, names, FlagsOf(d))
  PROVE  SetUp(l, SetPointers(l, d, parameters, names), {d})
<1> DEFINE new == SetPointers(l, d, parameters, names)
<1>1. ASSUME NEW e \in Status_List, e[1] # d PROVE new[e] = l[e]
  <2>1. \A n \in DOMAIN names : e # <<d, names[n]>>
    BY <1>1
  <2>2. {n \in DOMAIN names : e = <<d, names[n]>>} = {}
    BY <2>1
  <2> QED
    BY <2>2 DEF SetPointers, Pointed
<1>2. ASSUME NEW e \in Status_List, e[1] = d
      PROVE  Right(e, new[e]) /\ DOMAIN new[e] = {"I", "F", "S"}
  <2> DEFINE mine == {n \in DOMAIN names : e = <<d, names[n]>>}
             k    == CHOOSE m \in mine : TRUE
  <2>1. e = <<d, e[2]>> /\ e[2] \in FlagsOf(d) /\ e[2] # NULL
    BY <1>2, Entries
  <2>2. mine # {}
    <3>1. PICK n \in DOMAIN names : names[n] = e[2]
      BY <2>1 DEF Fits
    <3> QED
      BY <2>1, <3>1
  <2>3. k \in mine
    BY <2>2
  <2>4. k \in DOMAIN names /\ <<d, names[k]>> = e
    BY <2>3
  <2>5. names[k] = e[2]
    BY <2>4
  <2>6. parameters[k] = e[2]
    BY <2>1, <2>4, <2>5 DEF Fits
  <2>7. new[e] = [l[e] EXCEPT ![Type(<<d, parameters[k]>>)] =
                     Pointer(Keeper(d, parameters[k]), parameters[k])]
    BY <2>2 DEF SetPointers, Pointed, Keeper
  <2> HIDE DEF k, mine, new
  <2>8. new[e] = [l[e] EXCEPT ![Type(e)] = Pointer(Keeper(d, e[2]), e[2])]
    BY <2>1, <2>6, <2>7
  <2>9. Type(e) \in {"I", "F", "S"} /\ DOMAIN l[e] = {"I", "F", "S"}
    BY DEF Type, Pointed
  <2> QED
    BY <1>2, <2>8, <2>9 DEF Right
<1>3. DOMAIN new = Status_List
  BY DEF SetPointers, Pointed
<1> HIDE DEF new
<1>4. Pointed(new)
  BY <1>1, <1>2, <1>3 DEF Pointed
<1> QED
  BY <1>1, <1>2, <1>4 DEF SetUp, new

LEMMA FlagTables ==
  /\ Fits(FlagParameters, FsmNames, FsmFlags)
  /\ Fits(FlagParameters, OapNames, OapFlags)
  /\ Fits(FlagParameters, StageNames, StageFlags)
<1>1. /\ DOMAIN FlagParameters = 1 .. 11 /\ DOMAIN FsmNames = 1 .. 11
      /\ DOMAIN OapNames = 1 .. 11 /\ DOMAIN StageNames = 1 .. 11
  BY DEF FlagParameters, FsmNames, OapNames, StageNames
<1>2. \A m, n \in 1 .. 11 : FlagParameters[m] = FlagParameters[n] => m = n
  BY DEF FlagParameters
<1>3. \A n \in 1 .. 11 : /\ FsmNames[n] \in {FlagParameters[n], NULL}
                         /\ OapNames[n] = FlagParameters[n]
                         /\ StageNames[n] \in {FlagParameters[n], NULL}
  BY DEF FlagParameters, FsmNames, OapNames, StageNames
<1>4. /\ \A f \in OapFlags : f # NULL /\ \E n \in 1 .. 11 : OapNames[n] = f
      /\ \A f \in FsmFlags : f # NULL /\ \E n \in 1 .. 11 : FsmNames[n] = f
      /\ \A f \in StageFlags : f # NULL /\ \E n \in 1 .. 11 : StageNames[n] = f
  <2>1. \A f \in OapFlags : f # NULL
    BY ListAssumption
  <2>2. StageFlags \subseteq FsmFlags /\ FsmFlags \subseteq OapFlags
    BY DEF FsmFlags, OapFlags
  <2>3. \A f \in OapFlags : \E n \in 1 .. 11 : OapNames[n] = f
    BY DEF OapFlags, FsmFlags, StageFlags, OapNames
  <2>4. \A f \in FsmFlags : \E n \in 1 .. 11 : FsmNames[n] = f
    BY DEF FsmFlags, StageFlags, FsmNames
  <2>5. \A f \in StageFlags : \E n \in 1 .. 11 : StageNames[n] = f
    BY DEF StageFlags, StageNames
  <2> QED
    BY <2>1, <2>2, <2>3, <2>4, <2>5
<1> QED
  BY <1>1, <1>2, <1>3, <1>4 DEF Fits

LEMMA FwheelTables == Fits(FwheelParameters, FwheelNames, FwheelFlags)
<1>1. DOMAIN FwheelParameters = 1 .. 6 /\ FwheelNames = FwheelParameters
  BY DEF FwheelParameters, FwheelNames
<1>2. \A m, n \in 1 .. 6 : FwheelParameters[m] = FwheelParameters[n] => m = n
  BY DEF FwheelParameters
<1>3. \A f \in FwheelFlags : f # NULL /\ \E n \in 1 .. 6 : FwheelParameters[n] = f
  BY ListAssumption DEF FwheelFlags, FwheelParameters
<1> QED
  BY <1>1, <1>2, <1>3 DEF Fits

LEMMA PowerTables == Fits(PowerParameters, PowerNames, PowerFlags)
<1>1. PowerNames = PowerParameters
  BY DEF PowerParameters, PowerNames
<1>2. /\ DOMAIN Relays = 1 .. 8 /\ Len(Relays) = 8
      /\ \A m, n \in 1 .. 8 : Relays[m] = Relays[n] => m = n
      /\ \A n \in 1 .. 8 : Relays[n] \notin {"Connected", "Connection_Error"}
  BY DEF Relays
<1>3. /\ DOMAIN PowerParameters = 1 .. 10
      /\ PowerParameters[1] = "Connected" /\ PowerParameters[2] = "Connection_Error"
      /\ \A n \in 1 .. 8 : PowerParameters[n + 2] = Relays[n]
  BY DEF PowerParameters, Relays
<1>4. \A n \in 1 .. 10 : n \in {1, 2} \/ (n - 2 \in 1 .. 8 /\ PowerParameters[n] = Relays[n - 2])
  <2> SUFFICES ASSUME NEW n \in 3 .. 10 PROVE n - 2 \in 1 .. 8 /\ PowerParameters[n] = Relays[n - 2]
    OBVIOUS
  <2>1. PICK m \in 1 .. 8 : n = m + 2
    <3>1. n - 2 \in 1 .. 8 /\ n = (n - 2) + 2
      OBVIOUS
    <3> QED
      BY <3>1
  <2> QED
    BY <1>3, <2>1
<1>5. \A m, n \in 1 .. 10 : PowerParameters[m] = PowerParameters[n] => m = n
  <2> SUFFICES ASSUME NEW m \in 1 .. 10, NEW n \in 1 .. 10, PowerParameters[m] = PowerParameters[n]
               PROVE  m = n
    OBVIOUS
  <2>1. CASE m \in {1, 2}
    BY <1>2, <1>3, <1>4, <2>1
  <2>2. CASE n \in {1, 2}
    BY <1>2, <1>3, <1>4, <2>2
  <2>3. CASE m \notin {1, 2} /\ n \notin {1, 2}
    <3>1. m - 2 \in 1 .. 8 /\ n - 2 \in 1 .. 8 /\ Relays[m - 2] = Relays[n - 2]
      BY <1>4, <2>3
    <3>2. m - 2 = n - 2
      BY <1>2, <3>1
    <3> QED
      BY <3>2
  <2> QED
    BY <2>1, <2>2, <2>3
<1>6. \A f \in PowerFlags : f # NULL /\ \E n \in 1 .. 10 : PowerParameters[n] = f
  <2> SUFFICES ASSUME NEW f \in PowerFlags PROVE \E n \in 1 .. 10 : PowerParameters[n] = f
    BY ListAssumption
  <2>1. CASE f \in {"Connected", "Connection_Error"}
    BY <1>3, <2>1
  <2>2. CASE f \in Elements(Relays)
    <3>1. PICK n \in 1 .. 8 : f = Relays[n]
      BY <1>2, <2>2 DEF Elements
    <3>2. n + 2 \in 1 .. 10 /\ PowerParameters[n + 2] = f
      BY <1>3, <3>1
    <3> QED
      BY <3>2
  <2> QED
    BY <2>1, <2>2 DEF PowerFlags
<1> QED
  BY <1>1, <1>3, <1>5, <1>6 DEF Fits

\* Each setup of main points the entries of its devices right.
LEMMA SetupRight ==
  ASSUME NEW l, Pointed(l), NEW n \in 1 .. Len(Setups)
  PROVE  SetUp(l, Setup(l, Setups[n]), Initialised(Setups[n]))
<1> DEFINE d == Setups[n]
<1>0. d \in (MotorsListed \ {"focus", "rotation"}) \cup {"fwheel", "power", "smart"}
  BY DEF Setups, MotorsListed
<1> HIDE DEF d
<1>1. CASE d \in {"fsm_tip", "fsm_tilt"}
  <2>1. Setup(l, d) = SetPointers(l, d, FlagParameters, FsmNames)
    BY <1>1 DEF Setup, FSM_Tip_Setup, FSM_Tilt_Setup, Status_SetFlagPointers
  <2>2. FlagsOf(d) = FsmFlags /\ Initialised(d) = {d}
    BY <1>1 DEF FlagsOf, Initialised
  <2> QED
    BY <2>1, <2>2, FlagTables, SetsItsOwn DEF d
<1>2. CASE d \in {"oap_tip", "oap_tilt"}
  <2>1. Setup(l, d) = SetPointers(l, d, FlagParameters, OapNames)
    BY <1>2 DEF Setup, OAP_Tip_Setup, OAP_Tilt_Setup, Status_SetFlagPointers
  <2>2. FlagsOf(d) = OapFlags /\ Initialised(d) = {d}
    BY <1>2 DEF FlagsOf, Initialised
  <2> QED
    BY <2>1, <2>2, FlagTables, SetsItsOwn DEF d
<1>3. CASE d \in {"indigo", "f15"}
  <2>1. Setup(l, d) = SetPointers(l, d, FlagParameters, StageNames)
    BY <1>3 DEF Setup, Indigo_Setup, F15_Setup, Status_SetFlagPointers
  <2>2. FlagsOf(d) = StageFlags /\ Initialised(d) = {d}
    BY <1>3 DEF FlagsOf, Initialised
  <2> QED
    BY <2>1, <2>2, FlagTables, SetsItsOwn DEF d
<1>4. CASE d = "fwheel"
  <2>1. Setup(l, d) = SetPointers(l, d, FwheelParameters, FwheelNames)
    BY <1>4 DEF Setup, Fwheel_Setup, Status_SetFwheelPointers
  <2>2. FlagsOf(d) = FwheelFlags /\ Initialised(d) = {d}
    BY <1>4 DEF FlagsOf, Initialised
  <2> QED
    BY <2>1, <2>2, FwheelTables, SetsItsOwn DEF d
<1>5. CASE d = "power"
  <2>1. Setup(l, d) = SetPointers(l, d, PowerParameters, PowerNames)
    BY <1>5 DEF Setup, Power_Setup, Status_SetPowerPointers
  <2>2. FlagsOf(d) = PowerFlags /\ Initialised(d) = {d}
    BY <1>5 DEF FlagsOf, Initialised
  <2> QED
    BY <2>1, <2>2, PowerTables, SetsItsOwn DEF d
<1>6. CASE d = "smart"
  <2> DEFINE mid == SetPointers(l, "focus", FlagParameters, SmartNames)
             end == SetPointers(mid, "rotation", FlagParameters, SmartNames)
  <2>1. Setup(l, d) = end
    BY <1>6 DEF Setup, Smart_Setup, Status_SetFlagPointers
  <2>2. FlagsOf("focus") = StageFlags /\ FlagsOf("rotation") = StageFlags
    BY DEF FlagsOf
  <2>3. Fits(FlagParameters, SmartNames, StageFlags)
    BY FlagTables DEF SmartNames
  <2>4. SetUp(l, mid, {"focus"})
    BY <2>2, <2>3, SetsItsOwn
  <2>5. SetUp(mid, end, {"rotation"})
    BY <2>2, <2>3, <2>4, SetsItsOwn DEF SetUp
  <2> HIDE DEF mid, end
  <2>6. ASSUME NEW e \in Status_List
        PROVE  IF e[1] \in Initialised("smart") THEN Right(e, end[e]) ELSE end[e] = l[e]
    <3>1. e[1] \in Listed
      BY Entries
    <3>2. e[1] # "smart"
      BY <3>1 DEF Listed, MotorsListed
    <3>3. CASE e[1] = "focus"
      <4>1. end[e] = mid[e] /\ Right(e, mid[e])
        BY <2>4, <2>5, <3>3 DEF SetUp
      <4> QED
        BY <3>3, <4>1 DEF Initialised
    <3>4. CASE e[1] = "rotation"
      BY <2>5, <3>4 DEF SetUp, Initialised
    <3>5. CASE e[1] \notin {"focus", "rotation"}
      <4>1. end[e] = mid[e] /\ mid[e] = l[e]
        BY <2>4, <2>5, <3>5 DEF SetUp
      <4> QED
        BY <3>2, <3>5, <4>1 DEF Initialised
    <3> QED
      BY <3>3, <3>4, <3>5
  <2>7. Pointed(end)
    BY <2>5 DEF SetUp
  <2> QED
    BY <1>6, <2>1, <2>6, <2>7 DEF SetUp, d
<1> QED
  BY <1>0, <1>1, <1>2, <1>3, <1>4, <1>5, <1>6 DEF MotorsListed, d

\* The devices that are set up point right, and their structures are clear;
\* main serves only when every device is.
ListInv ==
  /\ up \in {"setup", "serve", "over"} /\ setups \in 0 .. Len(Setups)
  /\ Pointed(list)
  /\ \A n \in 1 .. setups :
       /\ Initialised(Setups[n]) \subseteq zeroed
       /\ \A e \in Status_List : e[1] \in Initialised(Setups[n]) => Right(e, list[e])
  /\ up = "serve" => setups = Len(Setups)
  /\ ShownIsRight

LEMMA SetupsFacts ==
  /\ Len(Setups) = 9
  /\ \A m, n \in 1 .. 9 : m # n => Initialised(Setups[m]) \cap Initialised(Setups[n]) = {}
  /\ \A d \in Listed : \E n \in 1 .. 9 : {d, SocketOf(d)} \subseteq Initialised(Setups[n])
<1>1. Len(Setups) = 9 /\ \A n \in 1 .. 9 : Setups[n] \notin {"focus", "rotation"}
  BY DEF Setups
<1>2. \A m, n \in 1 .. 9 : m # n => Setups[m] # Setups[n]
  BY DEF Setups
<1>3. \A m, n \in 1 .. 9 : m # n => Initialised(Setups[m]) \cap Initialised(Setups[n]) = {}
  BY <1>1, <1>2 DEF Initialised
<1>4. ASSUME NEW d \in Listed
      PROVE  \E n \in 1 .. 9 : {d, SocketOf(d)} \subseteq Initialised(Setups[n])
  <2>1. CASE d \in {"focus", "rotation"}
    <3>1. Setups[9] = "smart"
      BY DEF Setups
    <3>2. {d, SocketOf(d)} \subseteq Initialised("smart")
      BY <2>1 DEF SocketOf, Initialised
    <3> QED
      BY <3>1, <3>2
  <2>2. CASE d \notin {"focus", "rotation"}
    <3>1. PICK n \in 1 .. 9 : Setups[n] = d
      BY <2>2 DEF Setups, Listed, MotorsListed
    <3>2. {d, SocketOf(d)} \subseteq Initialised(d)
      BY <2>2 DEF SocketOf, Initialised, Listed, MotorsListed
    <3> QED
      BY <3>1, <3>2
  <2> QED
    BY <2>1, <2>2
<1> QED
  BY <1>1, <1>3, <1>4

LEMMA InitList == List_Init => ListInv
BY SetupsFacts DEF List_Init, ListInv, Pointed, Unset, ShownIsRight

\* The next device is set up: those before it stay as they are.
LEMMA SetupKeeps == ListInv /\ Setup_Device => ListInv'
<1> SUFFICES ASSUME ListInv, Setup_Device PROVE ListInv'
  OBVIOUS
<1> DEFINE n == setups + 1
<1>1. n \in 1 .. Len(Setups) /\ setups' = n /\ up = "setup" /\ up' = up /\ sent' = sent
  BY SetupsFacts DEF ListInv, Setup_Device
<1>2. SetUp(list, list', Initialised(Setups[n])) /\ zeroed' = zeroed \cup Initialised(Setups[n])
  BY <1>1, SetupRight DEF ListInv, Setup_Device
<1>3. ASSUME NEW m \in 1 .. setups'
      PROVE  /\ Initialised(Setups[m]) \subseteq zeroed'
             /\ \A e \in Status_List : e[1] \in Initialised(Setups[m]) => Right(e, list'[e])
  <2>1. CASE m = n
    BY <1>2, <2>1 DEF SetUp
  <2>2. CASE m # n
    <3>1. m \in 1 .. setups /\ m \in 1 .. 9 /\ n \in 1 .. 9
      BY <1>1, <2>2, SetupsFacts DEF ListInv
    <3>2. Initialised(Setups[m]) \cap Initialised(Setups[n]) = {}
      BY <2>2, <3>1, SetupsFacts
    <3>3. \A e \in Status_List : e[1] \in Initialised(Setups[m]) => list'[e] = list[e]
      BY <1>2, <3>2 DEF SetUp
    <3> QED
      BY <1>2, <3>1, <3>3 DEF ListInv
  <2> QED
    BY <2>1, <2>2
<1>4. ShownIsRight'
  BY <1>1, <1>2 DEF ListInv, ShownIsRight
<1>5. Pointed(list')
  BY <1>2 DEF SetUp
<1> QED
  BY <1>1, <1>3, <1>4, <1>5 DEF ListInv

\* Once main serves, every entry of the list points right.
LEMMA ServedRight ==
  ASSUME ListInv, up = "serve", NEW e \in Status_List
  PROVE  Right(e, list[e]) /\ Keeper(e[1], e[2]) \in zeroed
<1>1. e[1] \in Listed
  BY Entries
<1>2. PICK n \in 1 .. 9 : {e[1], SocketOf(e[1])} \subseteq Initialised(Setups[n])
  BY <1>1, SetupsFacts
<1>3. n \in 1 .. setups
  BY <1>2, SetupsFacts DEF ListInv
<1>4. Right(e, list[e]) /\ Initialised(Setups[n]) \subseteq zeroed
  BY <1>2, <1>3 DEF ListInv
<1> QED
  BY <1>2, <1>4 DEF Keeper

LEMMA SendsRight == ASSUME ListInv, NEW w, Status_SendAll(w) PROVE ListInv'
<1>1. ASSUME NEW x \in sent'
      PROVE  x[2] = Pointer(Keeper(x[1][1], x[1][2]), x[1][2]) /\ Keeper(x[1][1], x[1][2]) \in zeroed'
  <2>1. PICK e \in Status_List : x = <<e, list[e][Type(e)]>>
    BY <1>1 DEF Status_SendAll
  <2>2. x[1] = e /\ x[2] = list[e][Type(e)] /\ zeroed' = zeroed
    BY <2>1 DEF Status_SendAll
  <2>3. Right(e, list[e]) /\ Keeper(e[1], e[2]) \in zeroed
    BY ServedRight DEF Status_SendAll
  <2> QED
    BY <2>2, <2>3 DEF Right
<1>2. ShownIsRight'
  BY <1>1 DEF ShownIsRight, Keeper
<1> QED
  BY <1>2 DEF ListInv, Status_SendAll

LEMMA StepList == ListInv /\ [List_Next]_listVars => ListInv'
<1> SUFFICES ASSUME ListInv, [List_Next]_listVars PROVE ListInv'
  OBVIOUS
<1>1. CASE Setup_Device
  BY <1>1, SetupKeeps
<1>2. CASE Setup_Fails \/ Start_Status
  BY <1>2 DEF ListInv, ShownIsRight, Setup_Fails, Start_Status
<1>3. ASSUME NEW w \in Readers, Status_Process(w) \/ SendAll_Fails(w) PROVE ListInv'
  BY <1>3 DEF ListInv, ShownIsRight, Status_Process, SendAll_Fails
<1>4. ASSUME NEW w \in Readers, Status_SendAll(w) PROVE ListInv'
  BY <1>4, SendsRight
<1>5. CASE UNCHANGED listVars
  BY <1>5 DEF ListInv, ShownIsRight, listVars
<1> QED
  BY <1>1, <1>2, <1>3, <1>4, <1>5 DEF List_Next

\* Every status client is shown, under the name of each flag, that flag of
\* that device, kept where its looper writes it, in a structure that was
\* initialised: the table of StatusList.h and the names that main passes by
\* position to Status_Set*Pointers fit together.
THEOREM ListShownRight == List_Spec => []ShownIsRight
<1>1. ListInv => ShownIsRight
  BY DEF ListInv
<1> QED
  BY <1>1, InitList, StepList, PTL DEF List_Spec

-----------------------------------------------------------------------------
(* Servers: the parts beside each other                                    *)

AllInv == ListInv /\ HomeInv /\ TopInv /\ InfoInv

\* A part that does not move keeps its invariant.
LEMMA StillServers ==
  /\ ListInv /\ UNCHANGED listVars => ListInv'
  /\ HomeInv /\ UNCHANGED homeVars => HomeInv'
  /\ TopInv /\ UNCHANGED topVars => TopInv'
  /\ InfoInv /\ UNCHANGED infoVars => InfoInv'
BY StepList, StepHome, StepTop, InfoStep

\* The four parts of the two servers share nothing: whichever of them moves, what holds
\* of each of them alone holds of all together.
THEOREM ServersRight ==
  Spec => [](ShownIsRight /\ HomesWhatWasAsked /\ SlotsHeld /\ EntriesOwn)
<1>1. Init => AllInv
  BY InitList, InitHome, InitTop, InitInfo DEF Init, AllInv
<1>2. AllInv /\ [Next]_svars => AllInv'
  <2> SUFFICES ASSUME AllInv, [Next]_svars PROVE AllInv'
    OBVIOUS
  <2>1. CASE List
    BY <2>1, StepList, StillServers DEF AllInv, List
  <2>2. CASE Home
    BY <2>2, StepHome, StillServers DEF AllInv, Home
  <2>3. CASE Topbox
    BY <2>3, StepTop, StillServers DEF AllInv, Topbox
  <2>4. CASE Info
    BY <2>4, InfoStep, StillServers DEF AllInv, Info
  <2>5. CASE UNCHANGED svars
    BY <2>5, StillServers DEF AllInv, svars
  <2> QED
    BY <2>1, <2>2, <2>3, <2>4, <2>5 DEF Next
<1>3. AllInv => ShownIsRight /\ HomesWhatWasAsked /\ SlotsHeld /\ EntriesOwn
  BY DEF AllInv, ListInv, HomeInv, TakenOver, HomesWhatWasAsked, TopInv, InfoInv, EntriesOwn
<1> QED
  BY <1>1, <1>2, <1>3, PTL DEF Spec
=============================================================================
