------------------------------- MODULE Motors -------------------------------
(***************************************************************************)
(* The threads of the topbox server around one motor: its status looper,   *)
(* the thread that homes it, and a client that gives one request after the *)
(* other.  All three use one socket, under its mutex, and one Device_Data, *)
(* without a lock.  The motor moves by itself; the network may fail and    *)
(* come back.                                                              *)
(*                                                                         *)
(* What a thread asks is answered and stored in two steps, as the routines *)
(* unlock the mutex before they store: a thread may store a flag that is   *)
(* out of date by then.  `clean' says that this, and lost replies, have    *)
(* not happened since the homing in progress began.                        *)
(***************************************************************************)
EXTENDS Stage, FiniteSets

CONSTANTS
  Kinds,      \* the kinds of motor: "FSM", "OAP" and "Stage"
  Commands,   \* the requests of the client, out of those of *_Process
  Tries,      \* how often a wait polls (the timeouts of the code)
  MaxSteps,   \* how many jogs out of the limit (10)
  MaxFaults   \* replies that come too late, connections that are lost, and
              \* requests of the client after the first

ASSUME MotorsAssumption ==
  /\ Kinds \subseteq {"FSM", "OAP", "Stage"}
  /\ {Tries, MaxSteps} \subseteq Nat \ {0} /\ MaxFaults \in Nat

VARIABLES world, reachable, run, asked
vars == <<world, reachable, run, asked>>

Threads == {"looper", "home", "client"}
Kind    == world.dev.kind
Flags   == DOMAIN Source_StatusMVP(Device_Init("FSM"))

\* The steps of every request that is made of a motor of a kind.
Text == [k \in Kinds |->
  LET process == IF k = "Stage" THEN Stage_Process ELSE MVP_Process IN
  [c \in {"looper", "home"} \cup (DOMAIN process \cap Commands) |->
     CASE c = "looper" -> IF k = "Stage" THEN Stage_Looper ELSE MVP_Looper
       [] c = "home"   -> IF k = "Stage" THEN Stage_Home ELSE MVP_Home(k)
       [] OTHER        -> process[c]]]

\* What a thread does: a request, the next step of its text, the polls of a
\* wait, the jogs, and the flags it was told but has not stored.
NoReply == [is |-> FALSE, flags |-> <<>>, old |-> FALSE]
Idle    == [request |-> "none", pc |-> 1, count |-> 0, steps |-> 0, polled |-> FALSE, got |-> NoReply]
Begin(request) == [Idle EXCEPT !.request = request]

Busy(t)   == run[t].request # "none"
Script(t) == Text[Kind][run[t].request]
Now(t)    == Script(t)[run[t].pc]
AtStep(t, kinds) == Busy(t) /\ run[t].pc <= Len(Script(t)) /\ Now(t).k \in kinds

Homing == Busy("home")
Data   == world.data
Told   == Source_StatusMVP(world.dev)    \* what the device would answer
Call(w, op, arg) == IF Kind = "Stage" THEN Stage_Call(w, op, arg) ELSE MVP_Call(w, op, arg)

Go(t, n)   == [run EXCEPT ![t].pc = @ + n, ![t].count = 0, ![t].polled = FALSE]
\* A looper begins its next turn, any other thread is over.
Leave(t)   == [run EXCEPT ![t] = IF t = "looper" THEN Begin("looper") ELSE Idle]

Init ==
  /\ \E k \in Kinds :
       world = [dev |-> Device_Init(k), sock |-> Socket_Setup,
                data |-> [f \in Flags |-> FALSE], faults |-> MaxFaults, clean |-> TRUE]
  /\ reachable = TRUE
  /\ run = [t \in Threads |-> IF t = "looper" THEN Begin("looper") ELSE Idle]
  /\ asked = FALSE
-----------------------------------------------------------------------------
(* The looper opens the connection when there is none, and tries again     *)
(* forever; the mutex is not taken for that.                               *)
(***************************************************************************)
Looper_Open ==
  /\ run["looper"].pc = 1 /\ ~world.sock.connected
  /\ \E s \in Socket_OpenClient(world.sock, reachable) : world' = [world EXCEPT !.sock = s]
  /\ UNCHANGED <<reachable, run, asked>>

ToClose == Len(Script("looper")) + 2   \* where a turn that failed goes

\* A mistake: the turn just ends.
Looper_CloseForgotten ==
  /\ run["looper"].pc = ToClose
  /\ run' = Leave("looper")
  /\ UNCHANGED <<world, reachable, asked>>

\* A turn that failed: the socket is closed, without the mutex, though
\* another thread may have opened it or be using it.
Looper_Close ==
  /\ run["looper"].pc = ToClose
  /\ world' = CloseAndZero(world)
  /\ run' = Leave("looper")
  /\ UNCHANGED <<reachable, asked>>

MayRun(t) == ~world.sock.locked /\ (t = "looper" /\ run[t].pc = 1 => world.sock.connected)

\* The flags the other threads hold are out of date once a move has begun.
Outdated(ran, t, op) ==
  IF op \notin {"MoveRelative", "MoveAbsolute"} THEN ran
  ELSE [u \in Threads |-> IF u # t /\ ran[u].got.is THEN [ran[u] EXCEPT !.got.old = TRUE] ELSE ran[u]]

\* A routine that only tells the device something.
Thread_Call(t) ==
  /\ AtStep(t, {"do", "undo", "try", "turn"}) /\ MayRun(t)
  /\ \E r \in Call(world, Now(t).op, Now(t).arg) :
       LET k     == Now(t).k
           mixed == t = "client" /\ Homing /\ Now(t).op # "Position"
           w     == IF mixed THEN [r.w EXCEPT !.clean = FALSE] ELSE r.w
           failed == ~r.ok /\ k # "try" IN
       /\ run' = Outdated(IF ~failed THEN Go(t, 1)
                          ELSE IF k = "turn" THEN [run EXCEPT ![t].pc = ToClose]
                          ELSE Leave(t), t, Now(t).op)
       /\ IF failed /\ k = "undo"
            THEN \E back \in Call(w, "SetSpeed", "default") : world' = back.w
            ELSE world' = w
  /\ UNCHANGED <<reachable, asked>>

\* A routine that asks, for flags or for nothing but an answer.
Thread_Get(t) ==
  /\ AtStep(t, {"gettry", "getdo", "getturn"}) /\ MayRun(t) /\ ~run[t].got.is
  /\ \E r \in Call(world, Now(t).op, Now(t).arg) :
       IF r.ok
         THEN /\ world' = r.w
              /\ run' = [run EXCEPT ![t].got =
                           [is |-> TRUE, flags |-> [f \in Now(t).flags |-> Told[f]], old |-> FALSE]]
       ELSE CASE Now(t).k = "gettry"  -> /\ world' = [r.w EXCEPT !.clean = FALSE]
                                         /\ run' = Go(t, 1 + Now(t).n)
              [] Now(t).k = "getdo"   -> /\ world' = CloseAndZero(r.w)
                                         /\ run' = Leave(t)
              [] Now(t).k = "getturn" -> /\ world' = r.w
                                         /\ run' = [run EXCEPT ![t].pc = ToClose]
  /\ UNCHANGED <<reachable, asked>>

\* The reply is stored after the unlock, over whatever is there by now.
Thread_Store(t) ==
  /\ AtStep(t, {"gettry", "getdo", "getturn"}) /\ run[t].got.is
  /\ LET got == run[t].got IN
       world' = [world EXCEPT !.data = [f \in Flags |-> IF f \in DOMAIN got.flags THEN got.flags[f] ELSE @[f]],
                              !.clean = @ /\ ~got.old]
  /\ run' = [Go(t, 1) EXCEPT ![t].got = NoReply]
  /\ UNCHANGED <<reachable, asked>>

Holds(t) == \A f \in Now(t).flags : Data[f] = Now(t).value

\* The tests between the routines.
Thread_Branch(t) ==
  /\ AtStep(t, {"expect", "skip", "back", "sometimes"})
  /\ CASE Now(t).k = "expect"    -> run' = IF Holds(t) THEN Go(t, 1) ELSE Leave(t)
       [] Now(t).k = "skip"      -> run' = IF Holds(t) THEN Go(t, 1 + Now(t).n) ELSE Go(t, 1)
       [] Now(t).k = "sometimes" -> run' \in {Go(t, 1), Go(t, 1 + Now(t).n)}
       [] Now(t).k = "back"      ->
            run' = IF Holds(t) /\ run[t].steps + 1 < MaxSteps
                     THEN [Go(t, -Now(t).n) EXCEPT ![t].steps = @ + 1]
                     ELSE [Go(t, 1) EXCEPT ![t].steps = 0]
  /\ UNCHANGED <<world, reachable, asked>>

-----------------------------------------------------------------------------
(* A wait: first it gives up, on an error, on a motor that is not enabled  *)
(* (the routines of the stage do not look at that) or after Tries polls;   *)
(* then it sleeps; then it looks at the flag, which the looper keeps.      *)
(***************************************************************************)
Hopeless(t) == Data.error \/ (Kind # "Stage" /\ ~Data.enabled) \/ run[t].count >= Tries

Thread_Poll(t) ==
  /\ AtStep(t, {"wait", "waitundo"}) /\ ~run[t].polled
  /\ ~(Hopeless(t) /\ Now(t).k = "waitundo" /\ ~MayRun(t))
  /\ run' = IF Hopeless(t) THEN Leave(t) ELSE [run EXCEPT ![t].polled = TRUE, ![t].count = @ + 1]
  /\ IF Hopeless(t) /\ Now(t).k = "waitundo"
       THEN \E r \in Call(world, "SetSpeed", "default") : world' = r.w
       ELSE world' = world
  /\ UNCHANGED <<reachable, asked>>

Thread_Polled(t) ==
  /\ AtStep(t, {"wait", "waitundo"}) /\ run[t].polled
  /\ run' = IF Holds(t) THEN Go(t, 1) ELSE [run EXCEPT ![t].polled = FALSE]
  /\ UNCHANGED <<world, reachable, asked>>

Thread_Done(t) ==
  /\ Busy(t) /\ run[t].pc = Len(Script(t)) + 1
  /\ run' = Leave(t)
  /\ UNCHANGED <<world, reachable, asked>>

\* A request: refused without a connection.  Each "home" makes a thread of
\* its own; a second one is not refused (see HomeRequests), but the model is
\* bounded to one at a time.
Client_Request(c) ==
  LET t == IF c = "home" THEN "home" ELSE "client" IN
  /\ ~Busy(t) /\ world.sock.connected
  /\ asked => world.faults > 0
  /\ run' = [run EXCEPT ![t] = Begin(c)]
  /\ world' = [world EXCEPT !.faults = IF asked THEN @ - 1 ELSE @,
                            !.clean = IF c = "home" THEN ~world.dev.moving /\ ~Busy("client")
                                      ELSE IF Homing THEN FALSE ELSE @]
  /\ asked' = TRUE
  /\ UNCHANGED reachable

Device_Move ==
  /\ world.dev.moving
  /\ \E d \in IF Kind = "Stage" THEN Source_StageRelativeMove(world.dev)
                               ELSE Source_RelativeMVP(world.dev) : world' = [world EXCEPT !.dev = d]
  /\ UNCHANGED <<reachable, run, asked>>

\* The network: a connection dies without a word, and the host is away.
Link_Lost ==
  /\ world.sock.alive /\ world.faults > 0
  /\ world' = [world EXCEPT !.sock.alive = FALSE, !.faults = @ - 1]
  /\ reachable' = FALSE
  /\ UNCHANGED <<run, asked>>

Link_Back ==
  /\ ~reachable /\ reachable' = TRUE
  /\ UNCHANGED <<world, run, asked>>

Thread(t) == \/ Thread_Call(t)   \/ Thread_Get(t)  \/ Thread_Store(t) \/ Thread_Branch(t)
             \/ Thread_Poll(t)   \/ Thread_Polled(t) \/ Thread_Done(t)

Next ==
  \/ Looper_Open \/ Looper_Close
  \/ \E t \in Threads : Thread(t)
  \/ \E c \in DOMAIN Text[Kind] \ {"looper"} : Client_Request(c)
  \/ Device_Move \/ Link_Lost \/ Link_Back

Spec == Init /\ [][Next]_vars

\* The threads run, the motor moves, and the host does come back.
Fairness ==
  /\ WF_vars(Looper_Open) /\ WF_vars(Looper_Close)
  /\ \A t \in Threads : WF_vars(Thread(t))
  /\ WF_vars(Device_Move) /\ WF_vars(Link_Back)
FairSpec == Spec /\ Fairness
-----------------------------------------------------------------------------
TypeOK ==
  /\ world.sock \in Socket_Info /\ world.data \in [Flags -> BOOLEAN]
  /\ world.dev.at \in 0 .. Top /\ world.dev.goal \in 0 .. Top /\ world.dev.zero \in 0 .. Top
  /\ world.faults \in 0 .. MaxFaults
  /\ \A t \in Threads : Busy(t) => run[t].pc \in 1 .. Len(Script(t)) + 2

\* The step that declares the motor homed.
DeclaresHome ==
  /\ AtStep("home", {"do", "undo", "try"}) /\ Now("home").op = "SetHomeFlag" /\ Now("home").arg = TRUE
  /\ run'["home"].pc = run["home"].pc + 1

\* Where a homed motor counts from; the stage sets no zero after the offset.
HomeZero == IF Kind = "Stage" THEN Edge ELSE HomeAt(Kind)

\* A motor is declared homed, at the end of homing, only when it stands
\* still at its home and counts from the right place: if it stood still when homing
\* began, no client interfered, and nothing was lost or stored too late.
HomedAtHome ==
  [][DeclaresHome /\ world.clean
       => /\ ~world.dev.moving /\ world.dev.at = HomeAt(Kind)
          /\ world.dev.zero = HomeZero]_vars

\* The same of every homing, as MVP_Home.c has it: "Set this position as the
\* real home", of a status structure that "has been updated".
HomeFlagTruthful ==
  [][DeclaresHome => world.dev.at = HomeAt(Kind)]_vars

\* Homing that comes to its end leaves the motor with its own speed, and
\* the home trigger off, if no client interfered and nothing was lost.
HomeLeavesTidy ==
  [][Homing /\ ~Homing' /\ run["home"].pc > Len(Script("home")) /\ world.clean
       => world.dev.speed = "default" /\ ~world.dev.trigger]_vars

\* Homing ends, whatever is lost: the waits give up.  It does not once the
\* reset of a client has left the mutex locked.
HomeEnds == Homing ~> (~Homing \/ world.sock.locked)

\* A connection that died is noticed and replaced.
LooperReconnects ==
  ~world.sock.alive ~> (world.sock.alive \/ world.sock.locked)

\* What the threads believe becomes what the motor says, again and again,
\* through losses, refused moves and stores that came too late.
DataCatchesUp ==
  []<>(world.sock.locked \/ \A f \in Flags \ {"home"} : Data[f] = Told[f])

\* Homing that nothing disturbs ends at home, and tidily.
HomingRight == HomedAtHome /\ HomeLeavesTidy

\* Neither homing nor the looper is stuck, whatever is lost.
ThreadsGoOn == HomeEnds /\ LooperReconnects
=============================================================================
