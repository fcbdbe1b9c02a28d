---------------------------- MODULE SmartMotors ----------------------------
(***************************************************************************)
(* The two smart motors of the topbox server (topbox_server/Smart): the    *)
(* focus stage and the rotator, daisy-chained behind one socket.  A        *)
(* command is written and answered under one hold of the mutex, but a move *)
(* is two commands, and homing the rotator is three, over two connections. *)
(***************************************************************************)
EXTENDS TopSocket, Sequences, FiniteSets

CONSTANTS
  Clients,    \* threads of clients; homing runs in the thread of its client
  MaxAt,      \* the axes stand at 0 .. MaxAt, by their encoders
  Goals,      \* where the clients want them
  MaxTries,   \* MAX_INIT_TRIES (13)
  MaxFaults,  \* replies that come late, and connections that are lost
  MaxAsked    \* requests

ASSUME SmartAssumption ==
  /\ MaxAt \in Nat /\ Goals \subseteq 0 .. MaxAt
  /\ MaxTries \in Nat \ {0} /\ {MaxFaults, MaxAsked} \subseteq Nat

VARIABLES
  sock, reachable,
  ready,      \* the controllers know their addresses
  axis,       \* the controllers and their motors
  shown,      \* the Device_Data of each
  looper, thread,
  faults, asked,
  muddled     \* history: the rotator moved between the reading of its
              \* encoder and the setting of its position
svars == <<sock, reachable, ready, axis, shown, looper, thread, faults, asked, muddled>>

Axes == {"focus", "rotation"}
Flag == <<"count", "moving", "home">>   \* what is asked for, in this order

\* What each controller counts, what the encoder says, and the last "P=" or "D=".
Axis_Init(at) == [count |-> 0, enc |-> at, goal |-> 0, moving |-> FALSE, home |-> FALSE, next |-> 0]
Data_Init == [count |-> 0, moving |-> FALSE, home |-> FALSE, enabled |-> TRUE]
Zeroed    == [Data_Init EXCEPT !.enabled = FALSE]   \* Status_ZeroFlags
NoThread  == [axis |-> "focus", todo |-> <<>>, enc |-> 0, goal |-> 0, relative |-> FALSE,
              aim |-> 0, mixed |-> FALSE]

Smart_Init ==
  /\ sock = Socket_Setup /\ reachable = TRUE /\ ready = FALSE
  /\ \E at \in 0 .. MaxAt : axis = [a \in Axes |-> Axis_Init(at)]
  /\ shown = [a \in Axes |-> Data_Init]
  /\ looper = [at |-> "top", axis |-> "focus", flag |-> 1, tries |-> 0, got |-> 0]
  /\ thread = [c \in Clients |-> NoThread]
  /\ faults = 0 /\ asked = 0 /\ muddled = FALSE

Within(n) == IF n < 0 THEN 0 ELSE IF n > MaxAt THEN MaxAt ELSE n
-----------------------------------------------------------------------------
\* Smart_Cmd and Smart_Cmdw, when they fail: the socket is closed under the
\* mutex, and the flags of this axis cleared, not those of the other.
Smart_CmdFails(a) ==
  /\ sock' = Socket_Close(sock)
  /\ shown' = [shown EXCEPT ![a] = Zeroed]

\* Whether a command arrives; one that wants no answer may get lost unseen.
Reaches == sock.alive /\ ready
Late == faults < MaxFaults /\ faults' = faults + 1
-----------------------------------------------------------------------------
\* Smart_Reconnect: open, then initialise, each try under the mutex; before
\* and between the tries a client finds the socket connected.
Smart_Reconnect ==
  /\ looper.at = "top" /\ ~sock.connected
  /\ \E s \in Socket_OpenClient(sock, reachable) :
       /\ sock' = s
       /\ IF s.connected
            THEN looper' = [looper EXCEPT !.at = "init", !.tries = 0] /\ UNCHANGED shown
            ELSE looper' = looper /\ shown' = [a \in Axes |-> Zeroed]
  /\ UNCHANGED <<reachable, ready, axis, thread, faults, asked, muddled>>

\* A mistake: only the flag of the focus is set again.
ReconnectedHalf ==
  /\ looper' = [looper EXCEPT !.at = "top"]
  /\ shown' = [shown EXCEPT !["focus"].enabled = TRUE]
Reconnected ==
  /\ looper' = [looper EXCEPT !.at = "top"]
  /\ shown' = [a \in Axes |-> [shown[a] EXCEPT !.enabled = TRUE]]
Reconnect_Fails ==
  /\ looper' = [looper EXCEPT !.at = "top"]
  /\ sock' = Socket_Close(sock)
  /\ shown' = [a \in Axes |-> Zeroed]
  /\ UNCHANGED <<ready, faults>>

Smart_InitTry ==
  /\ looper.at = "init"
  /\ \/ ~sock.connected /\ Reconnect_Fails
     \/ sock.connected /\ sock.alive /\ ready' = TRUE /\ Reconnected /\ UNCHANGED <<sock, faults>>
     \/ /\ sock.connected /\ IF sock.alive THEN Late ELSE UNCHANGED faults
        /\ IF looper.tries + 1 < MaxTries
             THEN looper' = [looper EXCEPT !.tries = @ + 1] /\ UNCHANGED <<sock, ready, shown>>
             ELSE /\ looper' = [looper EXCEPT !.at = "top"]
                  /\ sock' = Socket_Close(sock) /\ shown' = [a \in Axes |-> Zeroed]
                  /\ UNCHANGED ready
  /\ UNCHANGED <<reachable, axis, thread, asked, muddled>>

\* Smart_Status asks five questions of each axis, and stores each answer
\* after the mutex has been given back.
Looper_Turn ==
  /\ looper.at = "top" /\ sock.connected
  /\ looper' = [looper EXCEPT !.at = "ask", !.axis = "focus", !.flag = 1]
  /\ UNCHANGED <<sock, reachable, ready, axis, shown, thread, faults, asked, muddled>>

Status_Ask ==
  /\ looper.at = "ask"
  /\ LET a == looper.axis IN
     \/ /\ Reaches
        /\ looper' = [looper EXCEPT !.at = "store", !.got = axis[a]]
        /\ UNCHANGED <<sock, shown, faults>>
     \/ /\ IF Reaches THEN Late ELSE UNCHANGED faults
        /\ Smart_CmdFails(a)
        /\ looper' = [looper EXCEPT !.at = "top"]
  /\ UNCHANGED <<reachable, ready, axis, thread, asked, muddled>>

Status_Store ==
  /\ looper.at = "store"
  /\ LET f == Flag[looper.flag] IN
       shown' = [shown EXCEPT ![looper.axis][f] = looper.got[f]]
  /\ looper' = IF looper.flag < Len(Flag) THEN [looper EXCEPT !.at = "ask", !.flag = @ + 1, !.got = 0]
               ELSE IF looper.axis = "focus"
                 THEN [looper EXCEPT !.at = "ask", !.axis = "rotation", !.flag = 1, !.got = 0]
               ELSE [looper EXCEPT !.at = "top", !.got = 0]
  /\ UNCHANGED <<sock, reachable, ready, axis, thread, faults, asked, muddled>>
-----------------------------------------------------------------------------
\* What a client asks for, as the commands it comes to; a move is refused on
\* an axis that is not shown to be homed.
\* A mistake: the rotator is homed without a look at its encoder.
Smart_HomeBlind(a) == <<"O", "h">>
Smart_Home(a)      == IF a = "focus" THEN <<"O", "h">> ELSE <<"encoder", "O", "h">>
Smart_MoveAbsolute == <<"P", "G">>
\* A mistake: a relative move is sent as an absolute one.
Smart_MoveRelativeAsP == <<"P", "G">>
Smart_MoveRelative == <<"D", "G">>
Smart_SetSpeed     == <<"vm">>

Request(c, a, todo, goal, relative) ==
  /\ thread[c].todo = <<>> /\ sock.connected /\ asked < MaxAsked
  /\ thread' = [thread EXCEPT ![c] = [NoThread EXCEPT !.axis = a, !.todo = todo,
                                                          !.goal = goal, !.relative = relative]]
  /\ asked' = asked + 1
  /\ UNCHANGED <<sock, reachable, ready, axis, shown, looper, faults, muddled>>

Smart_Process(c) ==
  \E a \in Axes :
    \/ Request(c, a, Smart_Home(a), 0, FALSE)
    \/ Request(c, a, Smart_SetSpeed, 0, FALSE)
    \/ shown[a].home /\ \E g \in Goals : Request(c, a, Smart_MoveAbsolute, g, FALSE)
    \/ shown[a].home /\ \E g \in Goals : Request(c, a, Smart_MoveRelative, g, TRUE)


\* What a controller does with a command.
Obey(x, cmd, t) ==
  CASE cmd = "P"  -> [x EXCEPT !.next = t.goal]
    [] cmd = "D"  -> [x EXCEPT !.next = x.count + t.goal]
    [] cmd = "G"  -> LET goal == Within(x.next - x.count + x.enc) - x.enc + x.count IN
                     [x EXCEPT !.goal = goal, !.moving = goal # x.count]
    [] cmd = "O"  -> [x EXCEPT !.count = t.enc, !.goal = @ - x.count + t.enc]
    [] cmd = "h"  -> [x EXCEPT !.home = TRUE]
    [] cmd = "vm" -> x

\* Clients that are between the two commands of a move of the axis are mixed
\* up; so is one whose first command is lost.
MixedUp(c, a) ==
  [u \in Clients |-> IF u # c /\ thread[u].axis = a /\ thread[u].todo = <<"G">>
                       THEN [thread[u] EXCEPT !.mixed = TRUE] ELSE thread[u]]

\* Where the client wants the axis, in the counts of the moment.
Aim(t) == IF t.relative THEN axis[t.axis].count + t.goal ELSE t.goal

Thread_Send(c) ==
  LET t == thread[c]  a == t.axis IN
  /\ t.todo # <<>> /\ Head(t.todo) # "encoder"
  /\ \/ /\ sock.sockfd # "none"
        /\ axis' = IF Reaches THEN [axis EXCEPT ![a] = Obey(@, Head(t.todo), t)] ELSE axis
        /\ Head(t.todo) \in {"O", "h"} => Reaches
        /\ thread' = [MixedUp(c, t.axis) EXCEPT
                        ![c] = IF Len(t.todo) = 1 THEN NoThread
                               ELSE [t EXCEPT !.todo = Tail(@), !.aim = Aim(t), !.mixed = ~Reaches]]
        /\ UNCHANGED <<sock, shown, faults>>
     \/ \* No answer, or a write that is refused; the controller may have obeyed.
        /\ IF Reaches THEN Head(t.todo) \in {"O", "h"} /\ Late ELSE UNCHANGED faults
        /\ Smart_CmdFails(t.axis)
        /\ axis' \in {axis} \cup
             IF Reaches THEN {[axis EXCEPT ![a] = Obey(@, Head(t.todo), t)]} ELSE {}
        /\ thread' = [thread EXCEPT ![c] = NoThread]
  /\ UNCHANGED <<reachable, ready, looper, asked, muddled>>

\* The encoder has a connection of its own, without a mutex.
Smart_ReadEncoder(c) ==
  /\ thread[c].todo # <<>> /\ Head(thread[c].todo) = "encoder"
  /\ \/ thread' = [thread EXCEPT ![c].todo = Tail(@), ![c].enc = axis["rotation"].enc]
     \/ ~reachable /\ thread' = [thread EXCEPT ![c] = NoThread]
  /\ muddled' = (muddled \/ axis["rotation"].moving)
  /\ UNCHANGED <<sock, reachable, ready, axis, shown, looper, faults, asked>>
-----------------------------------------------------------------------------
Reading == \E c \in Clients : thread[c].todo = <<"O", "h">>

Axis_Move(a) ==
  /\ axis[a].moving
  /\ LET x == axis[a]  n == IF x.goal > x.count THEN x.count + 1 ELSE x.count - 1 IN
       axis' = [axis EXCEPT ![a] = [x EXCEPT !.count = n, !.enc = x.enc + n - x.count,
                                             !.moving = n # x.goal]]
  /\ muddled' = (muddled \/ (a = "rotation" /\ Reading))
  /\ UNCHANGED <<sock, reachable, ready, shown, looper, thread, faults, asked>>

Smart_LinkLost ==
  /\ sock.alive /\ Late
  /\ sock' = [sock EXCEPT !.alive = FALSE] /\ reachable' = FALSE
  /\ UNCHANGED <<ready, axis, shown, looper, thread, asked, muddled>>

Smart_LinkBack ==
  /\ ~reachable /\ reachable' = TRUE
  /\ UNCHANGED <<sock, ready, axis, shown, looper, thread, faults, asked, muddled>>

Smart_Looper == Smart_Reconnect \/ Smart_InitTry \/ Looper_Turn \/ Status_Ask \/ Status_Store
Smart_Thread(c) == Thread_Send(c) \/ Smart_ReadEncoder(c)

Smart_Next ==
  \/ Smart_Looper
  \/ \E c \in Clients : Smart_Process(c) \/ Smart_Thread(c)
  \/ \E a \in Axes : Axis_Move(a)
  \/ Smart_LinkLost \/ Smart_LinkBack

Smart_Fairness ==
  /\ WF_svars(Smart_Looper) /\ \A c \in Clients : WF_svars(Smart_Thread(c))
  /\ \A a \in Axes : WF_svars(Axis_Move(a))
  /\ WF_svars(Smart_LinkBack)
Smart_Spec == Smart_Init /\ [][Smart_Next]_svars /\ Smart_Fairness
-----------------------------------------------------------------------------
Smart_TypeOK ==
  /\ sock \in Socket_Info /\ faults \in 0 .. MaxFaults /\ asked \in 0 .. MaxAsked
  /\ \A a \in Axes : axis[a].enc \in 0 .. MaxAt /\ (axis[a].moving <=> axis[a].goal # axis[a].count)
  /\ looper.tries < MaxTries

\* A rotator that is homed counts what its encoder says, unless it moved
\* while its position was being set from the encoder.
RotationTruthful ==
  axis["rotation"].home /\ ~muddled => axis["rotation"].count = axis["rotation"].enc

\* A client that moves an axis moves it to the place it asked for, whatever
\* the looper and the client of the other axis do, if no other client moved
\* this axis between its two commands and the first of them was not lost.
GoesWhereAsked ==
  [][\A c \in Clients :
       LET t == thread[c] IN
       t.todo = <<"G">> /\ thread'[c].todo = <<>> /\ ~t.mixed /\ axis' # axis
         => axis' = [axis EXCEPT ![t.axis] = Obey([@ EXCEPT !.next = t.aim], "G", t)]]_svars

\* What is shown of both motors becomes what they are, again and again, and
\* both are enabled for the user interface.
SmartCatchesUp ==
  []<>(\A a \in Axes : shown[a].enabled /\ \A f \in {"count", "moving", "home"} : shown[a][f] = axis[a][f])
=============================================================================
