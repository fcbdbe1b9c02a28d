--------------------------- MODULE MotorsProofs ---------------------------
(***************************************************************************)
(* Theorems about Motors, for every kind of motor, range of places, number *)
(* of polls, jogs and faults, and set of requests: homing that nothing     *)
(* disturbs ends at home, and leaves the motor tidy.                       *)
(*                                                                         *)
(* The invariant is an outline of homing: for each step of MVP_Home and    *)
(* Stage_Home a phase the motor is in before that step (Phase, In).        *)
(* Three things are shown of it.  A motor that moves stays in its phase    *)
(* (PhaseGoesOn).  Each step of each script leads from its phase to the    *)
(* next (Fits), whatever the motor has done meanwhile.  And no other       *)
(* thread changes what the phase says, nor the flags that homing waits     *)
(* for: what the looper was told in a phase stays true in it (Tells).      *)
(*                                                                         *)
(* Then the types: no jump of a thread leads out of its script (Within).   *)
(***************************************************************************)
EXTENDS Motors, SequenceTheorems, TLAPS

-----------------------------------------------------------------------------
(* The outline of homing: what holds of the motor before each step of the  *)
(* home thread, as the phase the motor is in, when nothing disturbed it.   *)

Requests == {"none", "looper", "home"} \cup UNION {DOMAIN Text[k] : k \in Kinds}
Replies == [is : BOOLEAN, flags : UNION {[s -> BOOLEAN] : s \in SUBSET Flags}, old : BOOLEAN]
Running ==
  [request : Requests, pc : Nat \ {0}, count : Int, steps : Int, polled : BOOLEAN, got : Replies]

Motor ==
  [kind : Kinds, at : 0 .. Top, goal : 0 .. Top, moving : BOOLEAN, enabled : BOOLEAN,
   zero : 0 .. Top, speed : Speeds, home : BOOLEAN, trigger : BOOLEAN]

\* A motor that moves is not where it goes to; only homing of an OAP arms a trigger.
Sane == {d \in Motor : (d.moving => d.goal # d.at) /\ (d.kind # "OAP" => ~d.trigger)}
World ==
  [dev : Sane, sock : Socket_Info, data : [Flags -> BOOLEAN], faults : 0 .. MaxFaults, clean : BOOLEAN]

FsmPhase(n) ==
  IF n \in {10, 11} THEN "down"
  ELSE IF n \in {14, 15} THEN "out"
  ELSE IF n \in {16, 17} THEN "clear"
  ELSE IF n \in {18, 19} THEN "ready"
  ELSE IF n \in {20, 21} THEN "slowly"
  ELSE IF n \in 22 .. 25 THEN "edge"
  ELSE IF n \in {26, 27} THEN "back"
  ELSE IF n \in 28 .. 31 THEN "home"
  ELSE "still"

StagePhase(n) ==
  IF n \in 6 .. 10 THEN "down"
  ELSE IF n \in 12 .. 16 THEN "out"
  ELSE IF n \in {17, 18} THEN "clear"
  ELSE IF n = 19 THEN "ready"
  ELSE IF n \in 20 .. 24 THEN "slowly"
  ELSE IF n \in 25 .. 27 THEN "edge"
  ELSE IF n \in 28 .. 32 THEN "back"
  ELSE IF n \in 33 .. 35 THEN "home"
  ELSE "still"

OapPhase(n) ==
  IF n \in 3 .. 9 THEN "known"
  ELSE IF n \in {10, 11} THEN "below"
  ELSE IF n = 12 THEN "passed"
  ELSE IF n \in {13, 14} THEN "under"
  ELSE IF n \in {15, 16} THEN "armed"
  ELSE IF n \in {17, 18} THEN "up"
  ELSE IF n \in 19 .. 22 THEN "mark"
  ELSE IF n \in {23, 24} THEN "offset"
  ELSE IF n \in 25 .. 28 THEN "home"
  ELSE "still"

Phase(k, n) ==
  IF k = "FSM" THEN FsmPhase(n) ELSE IF k = "OAP" THEN OapPhase(n) ELSE StagePhase(n)

\* What holds of a motor in a phase.
Sinks(d) == d.moving => d.goal = 0 /\ d.at > 0
In(phase, d) ==
  /\ phase \in {"still", "known"} => ~d.moving
  /\ phase = "down"   => (d.moving => d.goal = 0 /\ d.at > Edge)
  /\ phase = "out"    => IF d.moving THEN d.goal = d.at + 1 ELSE d.at >= Edge
  /\ phase = "clear"  => ~d.moving /\ d.at >= Edge
  /\ phase = "ready"  => ~d.moving /\ d.at >= Edge /\ d.speed = "slow"
  /\ phase = "slowly" => /\ d.at >= Edge /\ d.speed = "slow"
                         /\ d.moving => d.goal = 0 /\ d.at > Edge
  /\ phase = "edge"   => ~d.moving /\ d.at = Edge
  /\ phase = "back"   => IF d.moving THEN d.goal = 3 /\ d.at \in 1 .. 2 ELSE d.at = 3
  /\ phase = "below"  => Sinks(d)
  /\ phase = "passed" => Sinks(d) /\ d.at < Mark
  /\ phase = "under"  => ~d.moving /\ d.at < Mark
  /\ phase = "armed"  => ~d.moving /\ d.at < Mark /\ d.trigger
  /\ phase = "up"     => d.trigger /\ IF d.moving THEN d.goal = Top /\ d.at < Mark ELSE d.at = Mark
  /\ phase = "mark"   => ~d.moving /\ d.at = Mark
  /\ phase = "offset" => IF d.moving THEN d.goal = 1 /\ d.at = Mark ELSE d.at = 1
  /\ phase = "home"   => ~d.moving /\ d.at = HomeAt(d.kind)

\* What the flags that were asked for in a phase say of the motor, from then on.
Tells(phase, flags, d) ==
  /\ phase = "down" /\ "negative" \in DOMAIN flags /\ flags["negative"] => ~d.moving
  /\ phase = "slowly" /\ "negative" \in DOMAIN flags /\ flags["negative"] => ~d.moving /\ d.at = Edge
  /\ phase \in {"out", "back", "offset"} /\ "moving" \in DOMAIN flags /\ ~flags["moving"] => ~d.moving
  /\ phase \in {"known", "below"} /\ "event_2" \in DOMAIN flags /\ ~flags["event_2"] => d.at < Mark
  /\ phase = "up" /\ "event_2" \in DOMAIN flags /\ flags["event_2"] => ~d.moving /\ d.at = Mark

\* The steps before which Device_Data tells so too: home has asked for itself.
Asked(k) ==
  IF k = "FSM" THEN {11, 15, 21, 27}
  ELSE IF k = "OAP" THEN {11, 18, 24}
  ELSE {9, 10, 14, 15, 16, 23, 24, 30, 31, 32}

Length(k) == IF k = "FSM" THEN 30 ELSE IF k = "OAP" THEN 27 ELSE 34

\* What homing has set by then.
Extras(k, n, d) ==
  /\ n \in 4 .. Length(k) => d.enabled
  /\ k = "OAP" /\ n >= 20 => ~d.trigger
  /\ k = "FSM" /\ n >= 29 => d.zero = 3
  /\ k = "OAP" /\ n >= 26 => d.zero = 1
  /\ k = "Stage" /\ n >= 26 => d.zero = Edge
  /\ n > Length(k) \/ (k = "Stage" /\ n >= 27) => d.speed = "default"

HomeState(k, n, d) ==
  n \in 1 .. Length(k) + 1 /\ In(Phase(k, n), d) /\ Extras(k, n, d)

Dead(s) == s.sockfd = "none" \/ ~s.alive

Runs(k) ==
  {r \in [Threads -> Running] :
     /\ r["looper"].request = "looper" /\ r["home"].request \in {"none", "home"}
     /\ r["client"].request \in {"none"} \cup (DOMAIN Text[k] \ {"looper", "home"})}

Typed == world \in World /\ run \in Runs(Kind)

Asks == {"gettry", "getdo", "getturn"}
OutlineOf(w, r) ==
  LET k == w.dev.kind  script == Text[k]["home"]  n == r["home"].pc  d == w.dev IN
  /\ r["client"].request = "none" /\ w.sock.connected
  /\ HomeState(k, n, d)
  /\ k = "Stage" /\ n = 3 => d.enabled \/ Dead(w.sock)
  /\ \A t \in {"looper", "home"} :
       r[t].got.is /\ ~r[t].got.old => Tells(Phase(k, n), r[t].got.flags, d)
  /\ r["home"].got.is =>
       n <= Len(script) /\ script[n].k \in Asks /\ DOMAIN r["home"].got.flags = script[n].flags
  /\ n \in Asked(k) => Tells(Phase(k, n), w.data, d)

HomingInv == Typed /\ (Homing /\ world.clean => OutlineOf(world, run))
-----------------------------------------------------------------------------
(* The motor by itself                                                     *)

Moved(k, d) == IF k = "Stage" THEN Source_StageRelativeMove(d) ELSE Source_RelativeMVP(d)

LimitPhases == {"still", "down", "out", "clear", "ready", "slowly", "edge", "back", "home"}
MarkPhases  == {"still", "known", "below", "passed", "under", "armed", "up", "mark", "offset", "home"}

\* The parabola homes by its mark, the others by their limit switch.
LEMMA PhaseKinds ==
  \A k, n : Phase(k, n) \in IF k = "OAP" THEN MarkPhases ELSE LimitPhases
BY DEF Phase, FsmPhase, StagePhase, OapPhase, LimitPhases, MarkPhases

\* Where a stretch of a move ends, and whether the move ends there.
Onward(d) == IF d.goal > d.at THEN d.at + 1 ELSE d.at - 1
Stretch(d, e) ==
  /\ e.kind = d.kind /\ e.enabled = d.enabled /\ e.zero = d.zero /\ e.speed = d.speed
  /\ e.trigger = d.trigger
  /\ IF d.kind # "OAP" /\ Onward(d) < d.at /\ Onward(d) <= Edge
       THEN ~e.moving /\ e.at \in {Onward(d)} \cup Overrun(d)
     ELSE IF (d.kind = "OAP" /\ d.trigger /\ Onward(d) >= Mark) \/ Onward(d) = d.goal
       THEN ~e.moving /\ e.at = Onward(d)
     ELSE e.moving /\ e.at = Onward(d) /\ e.goal = d.goal

\* A motor that moves stays sane, and comes one stretch further towards its goal.
LEMMA MovedMotor ==
  ASSUME NEW d \in Sane, d.moving, NEW e \in Moved(d.kind, d)
  PROVE  e \in Sane /\ Stretch(d, e)
<1>1. d \in Motor /\ d.at \in 0 .. Top /\ d.goal \in 0 .. Top /\ d.goal # d.at /\ Top \in Nat /\ Top >= 3
  BY MvpAssumption DEF Sane, Motor
<1>2. Onward(d) \in 0 .. Top /\ Overrun(d) \in {{}, {0}}
  BY <1>1 DEF Onward, Overrun
<1>3. e \in Source_RelativeMVP(d)
  <2>1. CASE d.kind = "Stage"
    <3>1. [d EXCEPT !.trigger = FALSE] = d
      BY <2>1 DEF Sane, Motor
    <3> QED
      BY <2>1, <3>1 DEF Moved, Source_StageRelativeMove
  <2>2. CASE d.kind # "Stage"
    BY <2>2 DEF Moved
  <2> QED
    BY <2>1, <2>2
<1> DEFINE Stop(a) == [d EXCEPT !.at = a, !.goal = a, !.moving = FALSE]
           limit == d.kind # "OAP" /\ Onward(d) < d.at /\ Onward(d) <= Edge
           flag  == d.kind = "OAP" /\ d.trigger /\ Onward(d) >= Mark
<1>4. e \in IF limit THEN {Stop(a) : a \in {Onward(d)} \cup Overrun(d)}
            ELSE IF flag \/ Onward(d) = d.goal THEN {Stop(Onward(d))}
            ELSE {[d EXCEPT !.at = Onward(d)]}
  BY <1>3 DEF Source_RelativeMVP, Onward
<1>5. CASE limit
  <2>1. PICK a \in {Onward(d)} \cup Overrun(d) : e = Stop(a)
    BY <1>4, <1>5
  <2>2. a \in 0 .. Top
    BY <1>1, <1>2
  <2>3. /\ e \in Motor /\ e.kind = d.kind /\ e.at = a /\ e.goal = a /\ ~e.moving
        /\ e.enabled = d.enabled /\ e.zero = d.zero /\ e.speed = d.speed /\ e.trigger = d.trigger
    BY <1>1, <2>1, <2>2 DEF Motor
  <2> QED
    BY <1>1, <1>5, <2>1, <2>3 DEF Sane, Stretch
<1>6. CASE ~limit /\ (flag \/ Onward(d) = d.goal)
  <2>1. e = Stop(Onward(d))
    BY <1>4, <1>6
  <2>2. /\ e \in Motor /\ e.kind = d.kind /\ e.at = Onward(d) /\ e.goal = Onward(d) /\ ~e.moving
        /\ e.enabled = d.enabled /\ e.zero = d.zero /\ e.speed = d.speed /\ e.trigger = d.trigger
    BY <1>1, <1>2, <2>1 DEF Motor
  <2> QED
    BY <1>1, <1>2, <1>6, <2>2 DEF Sane, Stretch
<1>7. CASE ~limit /\ ~flag /\ Onward(d) # d.goal
  <2>1. e = [d EXCEPT !.at = Onward(d)]
    BY <1>4, <1>7
  <2>2. e \in Motor /\ e.at = Onward(d) /\ e.goal = d.goal /\ e.moving /\ e.kind = d.kind
        /\ e.enabled = d.enabled /\ e.zero = d.zero /\ e.speed = d.speed /\ e.trigger = d.trigger
    BY <1>1, <1>2, <2>1 DEF Motor
  <2> QED
    BY <1>1, <1>2, <1>7, <2>2 DEF Sane, Stretch
<1> QED
  BY <1>5, <1>6, <1>7

\* While a motor moves its phase goes on, and what it told stays true.
LEMMA PhaseGoesOn ==
  ASSUME NEW d \in Sane, d.moving, NEW e \in Moved(d.kind, d),
         NEW p \in IF d.kind = "OAP" THEN MarkPhases ELSE LimitPhases, In(p, d)
  PROVE  In(p, e) /\ \A f : Tells(p, f, d) => Tells(p, f, e)
<1>1. /\ e.at \in 0 .. Top /\ e.goal \in 0 .. Top /\ e.moving \in BOOLEAN /\ Stretch(d, e)
      /\ d.at \in 0 .. Top /\ d.goal \in 0 .. Top /\ d.goal # d.at
      /\ d.kind # "OAP" => ~d.trigger
  BY MovedMotor DEF Sane, Motor
<1>2. Top \in Nat /\ Top >= 3
  BY MvpAssumption
<1>3. CASE p = "down"
  BY <1>1, <1>2, <1>3 DEF In, Tells, Stretch, Onward, Edge, LimitPhases, MarkPhases
<1>4. CASE p = "out"
  BY <1>1, <1>2, <1>4 DEF In, Tells, Stretch, Onward, Edge, LimitPhases, MarkPhases
<1>5. CASE p = "slowly"
  BY <1>1, <1>2, <1>5 DEF In, Tells, Stretch, Onward, Edge, Overrun, LimitPhases, MarkPhases
<1>6. CASE p = "back"
  BY <1>1, <1>2, <1>6 DEF In, Tells, Stretch, Onward, Edge, LimitPhases, MarkPhases
<1>7. CASE p \in {"below", "passed"}
  BY <1>1, <1>2, <1>7 DEF In, Tells, Stretch, Onward, Sinks, Mark, LimitPhases, MarkPhases
<1>8. CASE p = "up"
  BY <1>1, <1>2, <1>8 DEF In, Tells, Stretch, Onward, Mark, LimitPhases, MarkPhases
<1>9. CASE p = "offset"
  BY <1>1, <1>2, <1>9 DEF In, Tells, Stretch, Onward, Mark, LimitPhases, MarkPhases
<1>10. CASE p \notin {"down", "out", "slowly", "back", "below", "passed", "up", "offset"}
  BY <1>10 DEF In, LimitPhases, MarkPhases
<1> QED
  BY <1>3, <1>4, <1>5, <1>6, <1>7, <1>8, <1>9, <1>10

\* What the motor answers in a phase says what that phase takes it to say.
LEMMA ToldTells ==
  ASSUME NEW d \in Sane, NEW p \in IF d.kind = "OAP" THEN MarkPhases ELSE LimitPhases, In(p, d),
         NEW S \in SUBSET Flags
  PROVE  Tells(p, [f \in S |-> Source_StatusMVP(d)[f]], d)
<1> DEFINE told == [f \in S |-> Source_StatusMVP(d)[f]]
<1>1. /\ d.at \in 0 .. Top /\ d.goal \in 0 .. Top /\ Top \in Nat /\ Top >= 3 /\ d.moving \in BOOLEAN
  BY MvpAssumption DEF Sane, Motor
<1>2. /\ DOMAIN told = S
      /\ "negative" \in S => (told["negative"] <=> d.kind # "OAP" /\ d.at <= Edge)
      /\ "event_2" \in S => (told["event_2"] <=> d.kind = "OAP" /\ d.at >= Mark)
      /\ "moving" \in S => (told["moving"] <=> d.moving)
  BY DEF Source_StatusMVP
<1> HIDE DEF told
<1>3. Tells(p, told, d)
  <2>1. CASE p \in {"down", "slowly"}
    BY <1>1, <1>2, <2>1 DEF Tells, In, Edge, LimitPhases, MarkPhases
  <2>2. CASE p \in {"out", "back", "offset"}
    BY <1>2, <2>2 DEF Tells
  <2>3. CASE p \in {"known", "below", "up"}
    BY <1>1, <1>2, <2>3 DEF Tells, In, Mark, LimitPhases, MarkPhases
  <2>4. CASE p \notin {"down", "slowly", "out", "back", "offset", "known", "below", "up"}
    BY <2>4 DEF Tells
  <2> QED
    BY <2>1, <2>2, <2>3, <2>4
<1> QED
  BY <1>3 DEF told

\* The flags, one by one.
LEMMA FlagsAre == Flags = {"moving", "enabled", "error", "negative", "event_2", "home"}
BY DEF Flags, Source_StatusMVP
-----------------------------------------------------------------------------
(* The exchanges with the motor                                            *)

\* What a routine may be called with.
MvpOps   == {"SetHomeFlag", "MoveRelative", "MoveAbsolute", "SetSpeed", "SetAccel", "SetZero",
             "SetHomeTrigger", "HardStop", "Abort", "ResetNode", "Position", "Status", "EN", "DI"}

StageOps == {"SetHomeFlag", "MoveRelative", "MoveAbsolute", "SetSpeed", "SetZero", "Position",
             "Status", "EN", "DI"}

GoodCall(k, op, arg) ==
  /\ op \in IF k = "Stage" THEN StageOps ELSE MvpOps
  /\ op \in {"MoveRelative", "MoveAbsolute"} => arg \in Int
  /\ op = "SetSpeed" => arg \in Speeds
  /\ op \in {"SetHomeFlag", "SetHomeTrigger"} => arg \in BOOLEAN
  /\ op = "SetHomeTrigger" => k = "OAP"

\* What the routines that homing and the looper call do to the motor when they succeed.
Plain == MvpOps \ {"MoveAbsolute", "ResetNode"}
Effect(op, arg, d) ==
  IF op = "MoveRelative" THEN Source_Move(d, arg)
  ELSE IF op = "SetSpeed" THEN [d EXCEPT !.speed = arg]
  ELSE IF op = "SetZero" THEN [d EXCEPT !.zero = d.at]
  ELSE IF op = "SetHomeFlag" THEN [d EXCEPT !.home = arg]
  ELSE IF op = "SetHomeTrigger" THEN [d EXCEPT !.trigger = arg]
  ELSE IF op = "EN" THEN [d EXCEPT !.enabled = TRUE]
  ELSE IF op = "DI" THEN [d EXCEPT !.enabled = FALSE, !.moving = FALSE, !.goal = d.at]
  ELSE IF op = "Abort" THEN [d EXCEPT !.moving = FALSE, !.goal = d.at]
  ELSE d

Aim(d, distance) ==
  IF d.at + distance < 0 THEN 0 ELSE IF d.at + distance > Top THEN Top ELSE d.at + distance

Refused(d, distance) ==
  \/ d.moving \/ ~d.enabled \/ Aim(d, distance) = d.at
  \/ distance < 0 /\ d.kind # "OAP" /\ d.at <= Edge

\* The same, field by field.
Effected(op, arg, d, e) ==
  /\ e.kind = d.kind /\ e.at = d.at
  /\ IF op = "MoveRelative"
       THEN IF Refused(d, arg) THEN e.moving = d.moving /\ e.goal = d.goal
                               ELSE e.moving /\ e.goal = Aim(d, arg)
     ELSE IF op \in {"Abort", "DI"} THEN ~e.moving
     ELSE e.moving = d.moving /\ e.goal = d.goal
  /\ op = "EN" => e.enabled
  /\ op \notin {"EN", "DI"} => e.enabled = d.enabled
  /\ e.zero = IF op = "SetZero" THEN d.at ELSE d.zero
  /\ e.speed = IF op = "SetSpeed" THEN arg ELSE d.speed
  /\ e.trigger = IF op = "SetHomeTrigger" THEN arg ELSE d.trigger

\* What asking for a move does to the motor.
LEMMA MoveEffect ==
  ASSUME NEW d \in Sane, NEW distance \in Int, NEW e, e = Source_Move(d, distance)
  PROVE  e \in Sane /\ Effected("MoveRelative", distance, d, e)
<1>1. d \in Motor /\ d.at \in 0 .. Top /\ Top \in Nat
  BY MvpAssumption DEF Sane, Motor
<1>2. Aim(d, distance) \in 0 .. Top
  BY <1>1 DEF Aim
<1>3. e = IF Refused(d, distance) THEN d ELSE [d EXCEPT !.moving = TRUE, !.goal = Aim(d, distance)]
  BY DEF Source_Move, Refused, Aim, Source_StatusMVP
<1>4. CASE Refused(d, distance)
  BY <1>3, <1>4 DEF Effected
<1>5. CASE ~Refused(d, distance)
  <2>1. /\ e \in Motor /\ e.kind = d.kind /\ e.at = d.at /\ e.moving /\ e.goal = Aim(d, distance)
        /\ e.enabled = d.enabled /\ e.zero = d.zero /\ e.speed = d.speed /\ e.trigger = d.trigger
    BY <1>1, <1>2, <1>3, <1>5 DEF Motor
  <2> QED
    BY <1>5, <2>1 DEF Effected, Sane, Refused
<1> QED
  BY <1>4, <1>5

\* What the routines of one exchange do to the motor.
LEMMA PlainEffect ==
  ASSUME NEW d \in Sane, NEW op \in Plain, NEW arg, GoodCall(d.kind, op, arg)
  PROVE  Effect(op, arg, d) \in Sane /\ Effected(op, arg, d, Effect(op, arg, d))
<1> DEFINE e == Effect(op, arg, d)
<1>1. d \in Motor /\ d.at \in 0 .. Top /\ Top \in Nat
  BY MvpAssumption DEF Sane, Motor
<1>2. CASE op = "MoveRelative"
  BY <1>2, MoveEffect DEF Effect, GoodCall
<1>3. CASE op = "SetSpeed"
  BY <1>1, <1>3 DEF Effect, GoodCall, Effected, Sane, Motor
<1>4. CASE op = "SetZero"
  BY <1>1, <1>4 DEF Effect, GoodCall, Effected, Sane, Motor
<1>5. CASE op = "SetHomeFlag"
  BY <1>1, <1>5 DEF Effect, GoodCall, Effected, Sane, Motor
<1>6. CASE op = "SetHomeTrigger"
  BY <1>1, <1>6 DEF Effect, GoodCall, Effected, Sane, Motor
<1>7. CASE op = "EN"
  BY <1>1, <1>7 DEF Effect, GoodCall, Effected, Sane, Motor
<1>8. CASE op = "DI"
  BY <1>1, <1>8 DEF Effect, GoodCall, Effected, Sane, Motor
<1>9. CASE op = "Abort"
  BY <1>1, <1>9 DEF Effect, GoodCall, Effected, Sane, Motor
<1>10. CASE op \in {"SetAccel", "HardStop", "Position", "Status"}
  BY <1>10 DEF Effect, Effected
<1> QED
  BY <1>2, <1>3, <1>4, <1>5, <1>6, <1>7, <1>8, <1>9, <1>10 DEF Plain, MvpOps

\* What any exchange leaves: as long as nothing was lost, the flags and the connection.
Given(w, r) ==
  /\ r.w \in World /\ r.ok \in BOOLEAN /\ r.w.dev.kind = w.dev.kind
  /\ r.w.clean => /\ w.clean /\ r.w.data = w.data /\ r.w.sock.connected = w.sock.connected
                  /\ Dead(w.sock) => Dead(r.w.sock)

\* A connection that is closed with its data zeroed is a fault.
LEMMA Closes ==
  ASSUME NEW w \in World
  PROVE  CloseAndZero(w) \in World /\ ~CloseAndZero(w).clean /\ CloseAndZero(w).dev = w.dev
<1>1. Socket_Close(w.sock) \in Socket_Info
  BY DEF World, Socket_Close, Socket_Info, Descriptors
<1>2. Status_ZeroFlags(w.data) \in [Flags -> BOOLEAN]
  BY DEF World, Status_ZeroFlags
<1> QED
  BY <1>1, <1>2 DEF World, CloseAndZero

\* A command without a reply: the motor has obeyed, or the connection was dead.
LEMMA TellGives ==
  ASSUME NEW w \in World, NEW e \in Sane, e.kind = w.dev.kind,
         NEW failed \in {w, CloseAndZero(w)}, NEW r \in Tell(w, e, failed)
  PROVE  /\ Given(w, r) /\ r.w.dev \in {w.dev, e}
         /\ r.ok /\ r.w.clean => ~Dead(w.sock) /\ r.w.dev = e
         /\ ~r.ok /\ r.w.clean => Dead(w.sock) /\ r.w.dev = w.dev
<1>1. failed \in World /\ failed.dev = w.dev /\ (failed.clean => failed = w)
  BY Closes
<1>2. [w EXCEPT !.dev = e] \in World /\ [w EXCEPT !.clean = FALSE] \in World
  BY DEF World
<1>3. \/ Dead(w.sock) /\ r = Result(failed, FALSE)
      \/ ~Dead(w.sock) /\ r = Result([w EXCEPT !.dev = e], TRUE)
      \/ r = Result([w EXCEPT !.clean = FALSE], TRUE)
  BY DEF Tell, Dead
<1>4. CASE Dead(w.sock) /\ r = Result(failed, FALSE)
  <2>1. r.w = failed /\ ~r.ok /\ r.ok \in BOOLEAN
    BY <1>4 DEF Result
  <2> QED
    BY <1>1, <1>4, <2>1 DEF Given
<1>5. CASE ~Dead(w.sock) /\ r = Result([w EXCEPT !.dev = e], TRUE)
  <2>1. r.ok = TRUE /\ r.w = [w EXCEPT !.dev = e]
    BY <1>5 DEF Result
  <2>2. r.w.dev = e /\ r.w.clean = w.clean /\ r.w.data = w.data /\ r.w.sock = w.sock
    BY <2>1 DEF World
  <2> QED
    BY <1>2, <1>5, <2>1, <2>2 DEF Given
<1>6. CASE r = Result([w EXCEPT !.clean = FALSE], TRUE)
  <2>1. r.ok = TRUE /\ r.w = [w EXCEPT !.clean = FALSE]
    BY <1>6 DEF Result
  <2>2. ~r.w.clean /\ r.w.dev = w.dev
    BY <2>1 DEF World
  <2> QED
    BY <1>2, <2>1, <2>2 DEF Given
<1> QED
  BY <1>3, <1>4, <1>5, <1>6

\* A command with a reply: where nothing is lost, the motor has obeyed or the connection was dead.
LEMMA AskGives ==
  ASSUME NEW w \in World, NEW e \in Sane, e.kind = w.dev.kind,
         NEW failed \in {w, CloseAndZero(w)}, NEW r \in Ask(w, e, failed)
  PROVE  /\ Given(w, r) /\ r.w.dev \in {w.dev, e}
         /\ r.ok /\ r.w.clean => ~Dead(w.sock) /\ r.w.dev = e
<1>1. failed \in World /\ failed.dev = w.dev /\ (failed.clean => failed = w)
  BY Closes
<1> DEFINE told == [w EXCEPT !.dev = e]
           lost == [told EXCEPT !.faults = @ - 1]
<1>2. /\ told \in World /\ told.dev = e /\ told.clean = w.clean /\ told.data = w.data
      /\ told.sock = w.sock /\ told.faults = w.faults
  BY DEF World
<1> HIDE DEF told
<1>3. /\ w.faults # 0 => lost \in World
      /\ lost.dev = e /\ lost.clean = w.clean /\ lost.data = w.data
      /\ lost.sock = w.sock
  BY <1>2, MotorsAssumption DEF World
<1>4. \/ r = Result(failed, FALSE) \/ r = Result(w, FALSE)
      \/ w.faults # 0 /\ r = Result(lost, FALSE)
      \/ ~Dead(w.sock) /\ r = Result(told, TRUE)
  BY DEF Ask, Dead, told
<1> HIDE DEF lost
<1>5. CASE r = Result(failed, FALSE)
  BY <1>1, <1>5 DEF Given, Result
<1>6. CASE r = Result(w, FALSE)
  BY <1>6 DEF Given, Result
<1>7. CASE w.faults # 0 /\ r = Result(lost, FALSE)
  BY <1>3, <1>7 DEF Given, Result
<1>8. CASE ~Dead(w.sock) /\ r = Result(told, TRUE)
  <2>1. r.ok = TRUE /\ r.w = told
    BY <1>8 DEF Result
  <2> QED
    BY <1>2, <1>8, <2>1 DEF Given
<1> QED
  BY <1>4, <1>5, <1>6, <1>7, <1>8

\* The routines of both kinds of controller, in what homing and the looper rely on.
CallOf(k, w, op, arg) == IF k = "Stage" THEN Stage_Call(w, op, arg) ELSE MVP_Call(w, op, arg)

\* Each routine of a stage is one exchange.
LEMMA StageIsTold ==
  ASSUME NEW w \in World, NEW op \in StageOps \ {"MoveAbsolute"}, NEW arg
  PROVE  LET e == Effect(op, arg, w.dev) IN
         IF op \in {"Position", "Status"} THEN Stage_Call(w, op, arg) = Ask(w, e, CloseAndZero(w))
         ELSE IF op \in {"SetHomeFlag", "EN", "DI"} THEN Stage_Call(w, op, arg) = Tell(w, e, w)
         ELSE Stage_Call(w, op, arg) = Tell(w, e, CloseAndZero(w))
BY DEF Stage_Call, StageOps, Effect, Stage_SetHomeVar, Stage_MoveRelative, Stage_SetSpeed, Stage_SetZero,
       Stage_Position, get_thing, Stage_Read, Stage_Enable, Stage_Disable, Source_Stage, Source_MVP

\* So is each routine of an MVP motor, but for its moves and the reset of its node.
LEMMA MvpIsTold ==
  ASSUME NEW w \in World, NEW op \in Plain \ {"MoveRelative"}, NEW arg
  PROVE  LET e == Effect(op, arg, w.dev) IN
         IF op \in {"SetHomeFlag", "SetSpeed", "SetAccel", "Position", "Status"}
           THEN MVP_Call(w, op, arg) = Ask(w, e, CloseAndZero(w))
         ELSE IF op = "SetZero" THEN MVP_Call(w, op, arg) = Tell(w, e, CloseAndZero(w))
         ELSE MVP_Call(w, op, arg) = Tell(w, e, w)
BY DEF MVP_Call, Plain, MvpOps, Effect, MVP_SetHomeFlag, MVP_SetSpeed, MVP_SetAccel, MVP_SetZero,
       MVP_SetHomeTrigger, MVP_HardStop, MVP_Abort, MVP_Position, MVP_Asks, EN, DI, Source_MVP

\* A motor stays sane, and of its kind, when it is asked to move.
LEMMA MoveKeeps ==
  ASSUME NEW d \in Sane, NEW distance \in Int
  PROVE  Source_Move(d, distance) \in Sane /\ Source_Move(d, distance).kind = d.kind
BY MoveEffect DEF Effected

\* What two exchanges keep, both together keep.
LEMMA GivenOn == ASSUME NEW w, NEW q, NEW r, Given(w, q), Given(q.w, r) PROVE Given(w, r)
BY DEF Given

\* A move of an MVP motor is asked for and then told.
LEMMA MoveGives ==
  ASSUME NEW w \in World, NEW distance \in Int, NEW r \in MVP_MoveRelative(w, distance)
  PROVE  /\ Given(w, r)
         /\ r.ok /\ r.w.clean => ~Dead(w.sock) /\ r.w.dev = Source_Move(w.dev, distance)
<1>1. w.dev \in Sane
  BY DEF World
<1>2. PICK q \in Ask(w, w.dev, CloseAndZero(w)) :
        r \in IF q.ok THEN Tell(q.w, Source_Move(q.w.dev, distance), CloseAndZero(q.w)) ELSE {q}
  BY DEF MVP_MoveRelative
<1>3. Given(w, q) /\ q.w.dev = w.dev /\ (q.ok /\ q.w.clean => ~Dead(w.sock))
  BY <1>1, AskGives
<1>4. CASE ~q.ok
  BY <1>2, <1>3, <1>4
<1>5. CASE q.ok
  <2>1. q.w \in World
    BY <1>3 DEF Given
  <2>2. Source_Move(q.w.dev, distance) \in Sane /\ Source_Move(q.w.dev, distance).kind = q.w.dev.kind
    BY <1>1, <1>3, MoveKeeps
  <2>3. r \in Tell(q.w, Source_Move(q.w.dev, distance), CloseAndZero(q.w))
    BY <1>2, <1>5
  <2>4. /\ Given(q.w, r)
        /\ r.ok /\ r.w.clean => r.w.dev = Source_Move(q.w.dev, distance)
    BY <2>1, <2>2, <2>3, TellGives
  <2>5. Given(w, r)
    BY <1>3, <2>4, GivenOn
  <2>6. r.w.clean => q.w.clean
    BY <2>4 DEF Given
  <2> QED
    BY <1>3, <1>5, <2>4, <2>5, <2>6
<1> QED
  BY <1>4, <1>5

\* Resetting the node keeps what every routine keeps.
LEMMA ResetGives ==
  ASSUME NEW w \in World, NEW r \in MVP_ResetNode(w)
  PROVE  Given(w, r)
<1> DEFINE e == Source_MVP(w.dev, "RN", 0)
<1>1. w.dev \in Motor /\ w.dev.at \in 0 .. Top /\ Top \in Nat
  BY MvpAssumption DEF World, Sane, Motor
<1>2. /\ e = [kind |-> w.dev.kind, at |-> w.dev.at, goal |-> w.dev.at, moving |-> FALSE, enabled |-> FALSE,
              zero |-> w.dev.at, speed |-> "default", home |-> FALSE, trigger |-> FALSE]
  BY DEF Source_MVP, Device_Init
<1> HIDE DEF e
<1>3. e \in Sane /\ e.kind = w.dev.kind
  BY <1>1, <1>2 DEF Sane, Motor, Speeds
<1>4. PICK q \in Ask(w, e, w) :
        r = q \/ r = Result([q.w EXCEPT !.sock.locked = TRUE], FALSE)
  BY DEF MVP_ResetNode, e
<1>5. Given(w, q)
  BY <1>3, AskGives
<1>6. CASE r = q
  BY <1>5, <1>6
<1>7. CASE r = Result([q.w EXCEPT !.sock.locked = TRUE], FALSE)
  <2>1. q.w \in World
    BY <1>5 DEF Given
  <2>2. [q.w EXCEPT !.sock.locked = TRUE] \in World
    BY <2>1 DEF World, Socket_Info
  <2>3. LET x == [q.w EXCEPT !.sock.locked = TRUE] IN
        /\ x.dev = q.w.dev /\ x.clean = q.w.clean /\ x.data = q.w.data
        /\ x.sock.connected = q.w.sock.connected /\ x.sock.sockfd = q.w.sock.sockfd
        /\ x.sock.alive = q.w.sock.alive
    BY <2>1 DEF World, Socket_Info
  <2>4. r.w = [q.w EXCEPT !.sock.locked = TRUE] /\ r.ok = FALSE
    BY <1>7 DEF Result
  <2> QED
    BY <1>5, <2>2, <2>3, <2>4 DEF Given, Dead
<1> QED
  BY <1>4, <1>6, <1>7

\* What a call gives its caller.
Gives(k, w, op, arg, r) ==
  /\ Given(w, r)
  /\ op \in Plain /\ r.ok /\ r.w.clean => ~Dead(w.sock) /\ r.w.dev = Effect(op, arg, w.dev)
  /\ op \in {"SetAccel", "HardStop", "Position", "Status"} => r.w.dev = w.dev
  /\ k = "Stage" /\ op \in {"SetHomeFlag", "EN", "DI"} /\ ~r.ok /\ r.w.clean
       => Dead(w.sock) /\ r.w.dev = w.dev

\* What every routine gives, in the terms homing relies on.
LEMMA CallGives ==
  ASSUME NEW w \in World, NEW op, NEW arg, GoodCall(w.dev.kind, op, arg),
         NEW r \in CallOf(w.dev.kind, w, op, arg)
  PROVE  Gives(w.dev.kind, w, op, arg, r)
<1> DEFINE k == w.dev.kind
           e == Effect(op, arg, w.dev)
<1>0. w.dev \in Sane /\ w.dev.at \in 0 .. Top /\ w.dev.zero \in Int /\ Top \in Nat
  BY MvpAssumption DEF World, Sane, Motor
<1>1. CASE op \in Plain \ {"MoveRelative"}
  <2>1. e \in Sane /\ e.kind = w.dev.kind
    BY <1>0, <1>1, PlainEffect DEF Effected
  <2>2. op \in {"SetAccel", "HardStop", "Position", "Status"} => e = w.dev
    BY DEF Effect
  <2> HIDE DEF e
  <2>3. PICK failed \in {w, CloseAndZero(w)} :
          \/ r \in Ask(w, e, failed) /\ ~(k = "Stage" /\ op \in {"SetHomeFlag", "EN", "DI"})
          \/ r \in Tell(w, e, failed)
    <3>1. CASE k = "Stage"
      <4>1. op \in StageOps \ {"MoveAbsolute"}
        BY <1>1, <3>1 DEF GoodCall, Plain
      <4> QED
        BY <3>1, <4>1, StageIsTold DEF CallOf, e
    <3>2. CASE k # "Stage"
      BY <1>1, <3>2, MvpIsTold DEF CallOf, e
    <3> QED
      BY <3>1, <3>2
  <2>4. CASE r \in Ask(w, e, failed) /\ ~(k = "Stage" /\ op \in {"SetHomeFlag", "EN", "DI"})
    BY <2>1, <2>2, <2>4, AskGives DEF Gives, e
  <2>5. CASE r \in Tell(w, e, failed)
    BY <2>1, <2>2, <2>5, TellGives DEF Gives, e
  <2> QED
    BY <2>3, <2>4, <2>5
<1>2. CASE op = "MoveRelative"
  <2>0. arg \in Int /\ op \in Plain /\ e = Source_Move(w.dev, arg)
    BY <1>2 DEF GoodCall, Plain, MvpOps, Effect
  <2>1. CASE k = "Stage"
    <3>1. r \in Tell(w, e, CloseAndZero(w))
      BY <1>2, <2>1, StageIsTold DEF CallOf, StageOps
    <3>2. e \in Sane /\ e.kind = w.dev.kind
      BY <1>0, <2>0, MoveKeeps
    <3> QED
      BY <1>2, <3>1, <3>2, TellGives DEF Gives
  <2>2. CASE k # "Stage"
    <3>1. r \in MVP_MoveRelative(w, arg)
      BY <1>2, <2>2 DEF CallOf, MVP_Call
    <3> QED
      BY <1>2, <2>0, <3>1, MoveGives DEF Gives
  <2> QED
    BY <2>1, <2>2
<1>3. CASE op = "MoveAbsolute"
  <2> DEFINE distance == w.dev.zero + arg - w.dev.at
  <2>1. distance \in Int
    BY <1>0, <1>3 DEF GoodCall
  <2> HIDE DEF distance
  <2>2. Given(w, r)
    <3>1. CASE k = "Stage"
      <4>1. r \in Tell(w, Source_Move(w.dev, distance), CloseAndZero(w))
        BY <1>3, <3>1 DEF CallOf, Stage_Call, Stage_MoveAbsolute, Source_Stage, distance
      <4>2. Source_Move(w.dev, distance) \in Sane /\ Source_Move(w.dev, distance).kind = w.dev.kind
        BY <1>0, <2>1, MoveKeeps
      <4> QED
        BY <4>1, <4>2, TellGives
    <3>2. CASE k # "Stage"
      <4>1. r \in MVP_MoveRelative(w, distance)
        BY <1>3, <3>2 DEF CallOf, MVP_Call, MVP_MoveAbsolute, distance
      <4> QED
        BY <2>1, <4>1, MoveGives
    <3> QED
      BY <3>1, <3>2
  <2> QED
    BY <1>3, <2>2 DEF Gives, Plain
<1>4. CASE op = "ResetNode"
  <2>1. r \in MVP_ResetNode(w)
    BY <1>4 DEF CallOf, MVP_Call, GoodCall, StageOps
  <2> QED
    BY <1>4, <2>1, ResetGives DEF Gives, Plain
<1> QED
  BY <1>1, <1>2, <1>3, <1>4 DEF GoodCall, Plain, StageOps, MvpOps
-----------------------------------------------------------------------------
(* The steps of homing against the outline                                 *)

\* The steps the scripts of a kind of motor are made of.
StepKinds == {"do", "undo", "try", "turn", "gettry", "getdo", "getturn", "expect", "wait", "waitundo",
              "skip", "back", "sometimes"}

Steps ==
  [k : StepKinds, op : MvpOps \cup {""}, arg : Int \cup BOOLEAN \cup Speeds, flags : SUBSET Flags,
   value : BOOLEAN, n : Nat]

Scripted(k) ==
  {s \in Steps : /\ s.k \in {"do", "undo", "try", "turn"} => GoodCall(k, s.op, s.arg)
                 /\ s.k \in Asks => s.op = "Status"}

Watched(phase) ==
  IF phase \in {"down", "slowly"} THEN "negative"
  ELSE IF phase \in {"out", "back", "offset"} THEN "moving" ELSE "event_2"

\* What was told before step n says before step m what it has to say there.
StillTells(k, n, m, d, e) == \A f : Tells(Phase(k, n), f, d) => Tells(Phase(k, m), f, e)
OnTo(k, n, m, d, e) == HomeState(k, m, e) /\ StillTells(k, n, m, d, e)

\* Where the n-th step of homing stands in the outline.
Calls == {"do", "undo", "try"}
Placed(k, n, s) ==
  /\ s.k \in Calls => s.op \in Plain
  /\ s.k \in Calls \cup {"gettry", "getdo", "expect", "skip", "back", "wait", "waitundo"}
  /\ s.k = "try" => k = "Stage" /\ s.op \in {"SetHomeFlag", "EN", "DI"}
  /\ s.k \in {"wait", "waitundo"} => n \in Asked(k)
  /\ n + 1 \in Asked(k) => /\ s.k \in Asks /\ Phase(k, n) = Phase(k, n + 1)
                           /\ n \in Asked(k) \/ Watched(Phase(k, n)) \in s.flags
  /\ s.k = "skip" => n + 1 + s.n \notin Asked(k)
  /\ s.k = "back" => s.n < n /\ n - s.n \notin Asked(k)
  /\ k = "Stage" => /\ n = 2 => s.k = "try" /\ s.op = "EN"
                    /\ s.k = "skip" => n + 1 + s.n # 3
                    /\ s.k = "back" => n - s.n # 3
  /\ s.k \in Calls /\ s.op = "SetHomeFlag" /\ s.arg = TRUE
       => Phase(k, n) = "home" /\ n >= (IF k = "FSM" THEN 29 ELSE 26)

\* It leads from one assertion of the outline to the next.
Keeps(k, n, s) ==
  \A d \in Sane : d.kind = k /\ HomeState(k, n, d) =>
    /\ s.k \in Calls /\ (k = "Stage" /\ n = 3 => d.enabled) =>
         \A e \in Sane : Effected(s.op, s.arg, d, e) =>
           /\ HomeState(k, n + 1, e)
           /\ s.op # "MoveRelative" => StillTells(k, n, n + 1, d, e)
    /\ s.k \in {"try", "gettry", "getdo", "expect", "skip", "back"} => OnTo(k, n, n + 1, d, d)
    /\ s.k = "skip" => OnTo(k, n, n + 1 + s.n, d, d)
    /\ s.k = "back" => OnTo(k, n, n - s.n, d, d)
    /\ s.k \in {"wait", "waitundo"} =>
         \A data \in [Flags -> BOOLEAN] :
           Tells(Phase(k, n), data, d) /\ (\A f \in s.flags : data[f] = s.value)
             => OnTo(k, n, n + 1, d, d)

Fits(k, n, s) == s \in Scripted(k) /\ Placed(k, n, s) /\ Keeps(k, n, s)

\* A part of the script, from after one step to another.
Outlined(k, from, to, part) ==
  /\ part \in Seq(Scripted(k)) /\ from \in Nat /\ to = from + Len(part)
  /\ \A i \in 1 .. Len(part) : Fits(k, from + i, part[i])

\* Two outlines that meet make one.
LEMMA OutlinedOn ==
  ASSUME NEW k, NEW from, NEW mid, NEW to, NEW a, NEW b,
         Outlined(k, from, mid, a), Outlined(k, mid, to, b)
  PROVE  Outlined(k, from, to, a \o b)
<1> DEFINE S == Scripted(k)
<1>1. /\ a \in Seq(S) /\ b \in Seq(S) /\ Len(a) \in Nat /\ Len(b) \in Nat
      /\ from \in Nat /\ mid = from + Len(a) /\ to = mid + Len(b)
  BY DEF Outlined
<1>2. a \o b \in Seq(S) /\ Len(a \o b) = Len(a) + Len(b)
  BY <1>1
<1>3. ASSUME NEW i \in 1 .. Len(a) + Len(b)
      PROVE  Fits(k, from + i, (a \o b)[i])
  <2>1. CASE i <= Len(a)
    <3>1. i \in 1 .. Len(a) /\ (a \o b)[i] = a[i]
      BY <1>1, <2>1, ConcatProperties
    <3> QED
      BY <3>1 DEF Outlined
  <2>2. CASE i > Len(a)
    <3>1. (a \o b)[i] = b[i - Len(a)]
      BY <1>1, <2>2, ConcatProperties
    <3> DEFINE j == i - Len(a)
    <3>2. j \in 1 .. Len(b)
      BY <1>1, <2>2
    <3>3. Fits(k, mid + j, b[j])
      BY <3>2 DEF Outlined
    <3>4. mid + j = from + i
      BY <1>1
    <3> QED
      BY <3>1, <3>3, <3>4
  <2> QED
    BY <1>1, <2>1, <2>2
<1> QED
  BY <1>1, <1>2, <1>3 DEF Outlined

\* Between these places nothing more is claimed of the settings.
Level(k, n) ==
  /\ n \in 1 .. Length(k) /\ n # 3
  /\ k = "FSM" => n \notin {28, 30}
  /\ k = "OAP" => n \notin {19, 25, 27}
  /\ k = "Stage" => n \notin {25, 26}

\* Nothing more is known at the next step where the level stays.
LEMMA LevelKeeps ==
  ASSUME NEW k \in {"FSM", "OAP", "Stage"}, NEW n, Level(k, n), NEW d, Extras(k, n, d)
  PROVE  Extras(k, n + 1, d)
BY DEF Level, Extras, Length

\* A call that leaves the motor where it is, in the same phase, with the settings that are claimed.
Quiet == {"SetAccel", "HardStop", "SetHomeFlag", "SetZero", "SetSpeed", "SetHomeTrigger", "EN"}
Calm(k, n, s) ==
  /\ s \in Scripted(k) /\ Level(k, n) /\ n + 1 \notin Asked(k) /\ Phase(k, n + 1) = Phase(k, n)
  /\ s.k \in {"do", "undo"} \/ (s.k = "try" /\ k = "Stage" /\ s.op \in {"SetHomeFlag", "EN"})
  /\ s.op \in Quiet
  /\ s.op = "SetSpeed" => Phase(k, n) \notin {"ready", "slowly"} /\ ~(k = "Stage" /\ n \in 27 .. 34)
  /\ s.op = "SetHomeTrigger" => Phase(k, n) \notin {"armed", "up"} /\ n < 19
  /\ s.op = "SetZero" => n < 25
  /\ s.op = "SetHomeFlag" /\ s.arg = TRUE => Phase(k, n) = "home" /\ n >= (IF k = "FSM" THEN 29 ELSE 26)
  /\ k = "Stage" /\ n = 2 => s.k = "try" /\ s.op = "EN"

\* A routine that moves nothing leaves the phase and what it tells.
LEMMA QuietIn ==
  ASSUME NEW d \in Sane, NEW e \in Sane, NEW op \in Quiet, NEW arg, Effected(op, arg, d, e),
         NEW p, In(p, d), op = "SetSpeed" => p \notin {"ready", "slowly"},
         op = "SetHomeTrigger" => p \notin {"armed", "up"}
  PROVE  In(p, e) /\ \A f : Tells(p, f, d) => Tells(p, f, e)
<1>1. e.at = d.at /\ e.kind = d.kind /\ (e.moving <=> d.moving) /\ e.goal = d.goal
  BY DEF Effected, Quiet
<1>2. p \in {"ready", "slowly"} => e.speed = d.speed
  BY DEF Effected
<1>3. p \in {"armed", "up"} => (e.trigger <=> d.trigger)
  BY DEF Effected
<1>4. In(p, e)
  BY <1>1, <1>2, <1>3 DEF In, Sinks
<1> QED
  BY <1>1, <1>4 DEF Tells

\* A step that moves nothing and changes no phase fits.
LEMMA CalmFits ==
  ASSUME NEW k \in {"FSM", "OAP", "Stage"}, NEW n \in Int, NEW s, Calm(k, n, s)
  PROVE  Fits(k, n, s)
<1> DEFINE p == Phase(k, n)
<1>1. Placed(k, n, s)
  BY DEF Calm, Placed, Calls, Quiet, Plain, MvpOps
<1>2. ASSUME NEW d \in Sane, d.kind = k, HomeState(k, n, d)
      PROVE  /\ s.k = "try" => OnTo(k, n, n + 1, d, d)
             /\ \A e \in Sane : Effected(s.op, s.arg, d, e) => OnTo(k, n, n + 1, d, e)
  <2>1. n + 1 \in 1 .. Length(k) + 1 /\ Phase(k, n + 1) = p /\ In(p, d) /\ Extras(k, n, d)
    BY <1>2 DEF Calm, Level, HomeState, Length
  <2>2. Extras(k, n + 1, d)
    BY <2>1, LevelKeeps DEF Calm
  <2>3. OnTo(k, n, n + 1, d, d)
    BY <2>1, <2>2 DEF OnTo, HomeState, StillTells
  <2>4. ASSUME NEW e \in Sane, Effected(s.op, s.arg, d, e)
        PROVE  OnTo(k, n, n + 1, d, e)
    <3>1. In(p, e) /\ \A f : Tells(p, f, d) => Tells(p, f, e)
      BY <2>1, <2>4, QuietIn DEF Calm
    <3>2. Extras(k, n + 1, e)
      <4>1. d.enabled => e.enabled
        BY <2>4 DEF Effected, Calm, Quiet
      <4>2. n >= 19 => (~d.trigger => ~e.trigger)
        BY <2>4 DEF Effected, Calm
      <4>3. n >= 25 => e.zero = d.zero
        BY <2>4 DEF Effected, Calm
      <4>4. n > Length(k) - 1 \/ (k = "Stage" /\ n >= 26) => e.speed = d.speed
        BY <2>4 DEF Effected, Calm, Level, Length
      <4> QED
        BY <2>2, <4>1, <4>2, <4>3, <4>4 DEF Extras, Length
    <3> QED
      BY <2>1, <3>1, <3>2 DEF OnTo, HomeState, StillTells
  <2> QED
    BY <2>3, <2>4
<1>3. Keeps(k, n, s)
  BY <1>2 DEF Keeps, OnTo, Calm, Calls
<1> QED
  BY <1>1, <1>3 DEF Fits, Calm

\* Any other call, by what it does to the phase and to the settings.
CallAt(k, n, s) ==
  /\ s \in Scripted(k) /\ n \in 1 .. Length(k) /\ n + 1 \notin Asked(k) /\ ~(k = "Stage" /\ n = 2)
  /\ s.k \in {"do", "undo"} /\ s.op \in Plain \ {"SetHomeFlag"}

\* A routine fits if it leads from its phase to the next.
LEMMA CallFits ==
  ASSUME NEW k \in {"FSM", "OAP", "Stage"}, NEW n \in Int, NEW s, CallAt(k, n, s),
         NEW p, p = Phase(k, n), NEW q, q = Phase(k, n + 1),
         \A d, e \in Sane :
           d.kind = k /\ e.kind = k /\ In(p, d) /\ Extras(k, n, d) /\ Effected(s.op, s.arg, d, e)
             /\ (k = "Stage" /\ n = 3 => d.enabled)
             => /\ In(q, e) /\ Extras(k, n + 1, e)
                /\ s.op = "MoveRelative" \/ \A f : Tells(p, f, d) => Tells(q, f, e)
  PROVE  Fits(k, n, s)
<1>1. Placed(k, n, s)
  BY DEF CallAt, Placed, Calls
<1>2. n + 1 \in 1 .. Length(k) + 1
  BY DEF CallAt, Length
<1>3. ASSUME NEW d \in Sane, d.kind = k, HomeState(k, n, d), k = "Stage" /\ n = 3 => d.enabled,
             NEW e \in Sane, Effected(s.op, s.arg, d, e)
      PROVE  HomeState(k, n + 1, e) /\ (s.op # "MoveRelative" => StillTells(k, n, n + 1, d, e))
  <2>1. e.kind = k
    BY <1>3 DEF Effected
  <2> QED
    BY <1>2, <1>3, <2>1 DEF HomeState, StillTells
<1>4. Keeps(k, n, s)
  BY <1>3 DEF Keeps, CallAt
<1> QED
  BY <1>1, <1>4 DEF Fits, CallAt

\* A question, in the same phase.
AskedAt(k, n, s) ==
  /\ s \in Scripted(k) /\ Level(k, n) /\ Phase(k, n + 1) = Phase(k, n) /\ ~(k = "Stage" /\ n = 2)
  /\ s.k \in {"gettry", "getdo", "expect"}
  /\ n + 1 \in Asked(k) => s.k # "expect" /\ (n \in Asked(k) \/ Watched(Phase(k, n)) \in s.flags)

\* Asking for the flags fits in the middle of a phase that they tell of.
LEMMA AskedFits ==
  ASSUME NEW k \in {"FSM", "OAP", "Stage"}, NEW n \in Int, NEW s, AskedAt(k, n, s)
  PROVE  Fits(k, n, s)
<1>1. Placed(k, n, s)
  BY DEF AskedAt, Placed, Calls, Asks
<1>2. n + 1 \in 1 .. Length(k) + 1
  BY DEF AskedAt, Level, Length
<1>3. ASSUME NEW d \in Sane, HomeState(k, n, d)
      PROVE  OnTo(k, n, n + 1, d, d)
  BY <1>2, <1>3, LevelKeeps DEF AskedAt, OnTo, HomeState, StillTells
<1>4. Keeps(k, n, s)
  BY <1>3 DEF Keeps, AskedAt, Calls
<1> QED
  BY <1>1, <1>4 DEF Fits, AskedAt

\* From one phase into another, with the motor as it is.
Slides(k, n, m, d) ==
  m \in 1 .. Length(k) + 1 /\ In(Phase(k, m), d) /\ Extras(k, m, d)
    /\ \A f : Tells(Phase(k, n), f, d) => Tells(Phase(k, m), f, d)

\* A step that may skip fits if both ways lead on.
LEMMA SkipFits ==
  ASSUME NEW k \in {"FSM", "OAP", "Stage"}, NEW n \in Int, NEW s \in Scripted(k), s.k = "skip",
         n + 1 \notin Asked(k), n + 1 + s.n \notin Asked(k), ~(k = "Stage" /\ (n = 2 \/ n + 1 + s.n = 3)),
         \A d \in Sane : d.kind = k /\ In(Phase(k, n), d) /\ Extras(k, n, d) =>
           Slides(k, n, n + 1, d) /\ Slides(k, n, n + 1 + s.n, d)
  PROVE  Fits(k, n, s)
<1>1. Placed(k, n, s)
  BY DEF Placed, Calls
<1>2. ASSUME NEW d \in Sane, d.kind = k, HomeState(k, n, d)
      PROVE  OnTo(k, n, n + 1, d, d) /\ OnTo(k, n, n + 1 + s.n, d, d)
  BY <1>2 DEF OnTo, HomeState, StillTells, Slides
<1>3. Keeps(k, n, s)
  BY <1>2 DEF Keeps, Calls
<1> QED
  BY <1>1, <1>3 DEF Fits

\* A step that may go back fits if both ways lead on.
LEMMA BackFits ==
  ASSUME NEW k \in {"FSM", "OAP", "Stage"}, NEW n \in Int, NEW s \in Scripted(k), s.k = "back", s.n < n,
         n + 1 \notin Asked(k), n - s.n \notin Asked(k), ~(k = "Stage" /\ (n = 2 \/ n - s.n = 3)),
         \A d \in Sane : d.kind = k /\ In(Phase(k, n), d) /\ Extras(k, n, d) =>
           Slides(k, n, n + 1, d) /\ Slides(k, n, n - s.n, d)
  PROVE  Fits(k, n, s)
<1>1. Placed(k, n, s)
  BY DEF Placed, Calls
<1>2. ASSUME NEW d \in Sane, d.kind = k, HomeState(k, n, d)
      PROVE  OnTo(k, n, n + 1, d, d) /\ OnTo(k, n, n - s.n, d, d)
  BY <1>2 DEF OnTo, HomeState, StillTells, Slides
<1>3. Keeps(k, n, s)
  BY <1>2 DEF Keeps, Calls
<1> QED
  BY <1>1, <1>3 DEF Fits

\* A wait for a flag that has been asked for.
LEMMA WaitFits ==
  ASSUME NEW k \in {"FSM", "OAP", "Stage"}, NEW n \in Int, NEW s \in Scripted(k),
         s.k \in {"wait", "waitundo"}, n \in Asked(k), n + 1 \notin Asked(k), ~(k = "Stage" /\ n = 2),
         NEW flag \in Flags, s.flags = {flag},
         \A d \in Sane, data \in [Flags -> BOOLEAN] :
           d.kind = k /\ In(Phase(k, n), d) /\ Extras(k, n, d) /\ Tells(Phase(k, n), data, d)
             /\ data[flag] = s.value => Slides(k, n, n + 1, d)
  PROVE  Fits(k, n, s)
<1>1. Placed(k, n, s)
  BY DEF Placed, Calls
<1>2. ASSUME NEW d \in Sane, d.kind = k, HomeState(k, n, d), NEW data \in [Flags -> BOOLEAN],
             Tells(Phase(k, n), data, d), data[flag] = s.value
      PROVE  OnTo(k, n, n + 1, d, d)
  BY <1>2 DEF OnTo, HomeState, StillTells, Slides
<1>3. Keeps(k, n, s)
  BY <1>2 DEF Keeps, Calls
<1> QED
  BY <1>1, <1>3 DEF Fits

\* What the steps are made of.
LEMMA CallIs ==
  ASSUME NEW k, NEW op \in MvpOps, NEW arg \in Int \cup BOOLEAN \cup Speeds, GoodCall(k, op, arg)
  PROVE  Do(op, arg) \in Scripted(k) /\ Undo(op, arg) \in Scripted(k) /\ Try(op, arg) \in Scripted(k)
BY DEF Do, Undo, Try, Step, Scripted, Steps, StepKinds, Asks

\* The steps that ask for flags.
LEMMA AskIs ==
  ASSUME NEW k, NEW flags \in SUBSET Flags, NEW n \in Nat
  PROVE  GetTry("Status", flags, n) \in Scripted(k) /\ GetDo("Status", flags) \in Scripted(k)
BY DEF GetTry, GetDo, Step, Scripted, Steps, StepKinds, MvpOps, Asks

\* The steps that look at a flag.
LEMMA TestIs ==
  ASSUME NEW k, NEW f \in Flags, NEW v \in BOOLEAN
  PROVE  Expect(f, v) \in Scripted(k) /\ Wait(f, v) \in Scripted(k) /\ WaitUndo(f, v) \in Scripted(k)
<1>1. Expect(f, v) \in Steps /\ Wait(f, v) \in Steps /\ WaitUndo(f, v) \in Steps
  BY DEF Expect, Wait, WaitUndo, Step, Steps, StepKinds
<1>2. Expect(f, v).k = "expect" /\ Wait(f, v).k = "wait" /\ WaitUndo(f, v).k = "waitundo"
  BY DEF Expect, Wait, WaitUndo, Step
<1> QED
  BY <1>1, <1>2 DEF Scripted, Asks

\* The steps that skip or go back.
LEMMA JumpIs ==
  ASSUME NEW k, NEW f \in Flags, NEW v \in BOOLEAN, NEW n \in Nat
  PROVE  Skip(f, v, n) \in Scripted(k) /\ Back(f, v, n) \in Scripted(k)
<1>1. Skip(f, v, n) \in Steps /\ Back(f, v, n) \in Steps
  BY DEF Skip, Back, Step, Steps, StepKinds
<1>2. Skip(f, v, n).k = "skip" /\ Back(f, v, n).k = "back"
  BY DEF Skip, Back, Step
<1> QED
  BY <1>1, <1>2 DEF Scripted, Asks
-----------------------------------------------------------------------------
(* The tip and the tilt of the fold mirror                                 *)

LEMMA PrepareFits ==
  \A k \in {"FSM", "OAP"} : Outlined(k, 0, 5, Home_Prepare)
<1> SUFFICES ASSUME NEW k \in {"FSM", "OAP"}
             PROVE  Outlined(k, 0, 5, Home_Prepare)
  OBVIOUS
<1> DEFINE a == Do("SetHomeFlag", FALSE)  b == Do("MoveRelative", 0)  c == Do("EN", 0)
           g == GetDo("Status", StatusFlags)  t == Expect("enabled", TRUE)
<1>1. {a, b, c, g, t} \subseteq Scripted(k)
  <2>0. a \in Scripted(k)
    BY DEF Do, Step, Scripted, Steps, StepKinds, MvpOps, GoodCall, Asks
  <2>1. b \in Scripted(k) /\ c \in Scripted(k)
    BY CallIs DEF GoodCall, MvpOps
  <2>2. g \in Scripted(k) /\ t \in Scripted(k)
    BY AskIs, TestIs, FlagsAre DEF StatusFlags
  <2> HIDE DEF a, b, c, g, t
  <2> QED
    BY <2>0, <2>1, <2>2
<1>2. /\ a.k = "do" /\ a.op = "SetHomeFlag" /\ (a.arg = FALSE)
      /\ b.k = "do" /\ b.op = "MoveRelative" /\ b.arg = 0
      /\ c.k = "do" /\ c.op = "EN"
      /\ g.k = "getdo" /\ g.flags = StatusFlags /\ t.k = "expect"
  BY DEF Do, GetDo, Expect, Step
<1> HIDE DEF a, b, c, g, t
<1>3. /\ Phase(k, 1) = "still" /\ Phase(k, 2) = "still"
      /\ k = "FSM" => Phase(k, 3) = "still" /\ Phase(k, 4) = "still" /\ Phase(k, 5) = "still"
                      /\ Phase(k, 6) = "still"
      /\ k = "OAP" => Phase(k, 3) = "known" /\ Phase(k, 4) = "known" /\ Phase(k, 5) = "known"
                      /\ Phase(k, 6) = "known"
  BY DEF Phase, FsmPhase, OapPhase
<1>4. Fits(k, 1, a)
  <2>1. Calm(k, 1, a)
    BY <1>1, <1>2, <1>3 DEF Calm, Level, Length, Asked, Quiet
  <2> QED
    BY <2>1, CalmFits
<1>5. Fits(k, 2, b)
  <2>1. CallAt(k, 2, b)
    BY <1>1, <1>2 DEF CallAt, Length, Asked, Plain, MvpOps
  <2>2. ASSUME NEW d \in Sane, NEW e \in Sane, In(Phase(k, 2), d), Extras(k, 2, d),
               Effected("MoveRelative", 0, d, e)
        PROVE  In(Phase(k, 3), e) /\ Extras(k, 3, e)
    <3>1. Refused(d, 0) /\ ~d.moving
      <4>1. d.at \in 0 .. Top /\ Top \in Nat /\ d.at + 0 = d.at
        BY MvpAssumption DEF Sane, Motor
      <4> QED
        BY <1>3, <2>2, <4>1 DEF In, Refused, Aim
    <3> QED
      BY <1>3, <2>2, <3>1 DEF Effected, In, Extras, Length
  <2> QED
    BY <1>2, <2>1, <2>2, CallFits
<1>6. Fits(k, 3, c)
  <2>1. CallAt(k, 3, c)
    BY <1>1, <1>2 DEF CallAt, Length, Asked, Plain, MvpOps
  <2>2. ASSUME NEW d \in Sane, NEW e \in Sane, In(Phase(k, 3), d), Extras(k, 3, d),
               Effected("EN", c.arg, d, e)
        PROVE  In(Phase(k, 4), e) /\ Extras(k, 4, e)
               /\ \A f : Tells(Phase(k, 3), f, d) => Tells(Phase(k, 4), f, e)
    BY <1>3, <2>2 DEF Effected, In, Extras, Length, Tells
  <2> QED
    BY <1>2, <2>1, <2>2, CallFits
<1>7. Fits(k, 4, g) /\ Fits(k, 5, t)
  <2>1. AskedAt(k, 4, g) /\ AskedAt(k, 5, t)
    BY <1>1, <1>2, <1>3 DEF AskedAt, Level, Length, Asked
  <2> QED
    BY <2>1, AskedFits
<1>8. Home_Prepare = <<a, b>> \o <<c, g, t>>
  BY DEF Home_Prepare, MVP_Enable, a, b, c, g, t
<1>9. Outlined(k, 0, 2, <<a, b>>)
  BY <1>1, <1>4, <1>5 DEF Outlined
<1>10. Outlined(k, 2, 5, <<c, g, t>>)
  BY <1>1, <1>6, <1>7 DEF Outlined
<1> QED
  BY <1>8, <1>9, <1>10, OutlinedOn

LastStep == <<Do("SetSpeed", "default")>>

\* To the limit switch.
LEMMA FsmToLimit == Outlined("FSM", 5, 11, FSM_ToLimit)
<1> DEFINE s6 == Do("SetAccel", 0)  s7 == Skip("negative", TRUE, 2)  s8 == Do("SetSpeed", "fast")
           s9 == Do("MoveRelative", -Top)  s10 == MVP_Status  s11 == Wait("negative", TRUE)
<1>1. /\ s6 \in Scripted("FSM") /\ s7 \in Scripted("FSM") /\ s8 \in Scripted("FSM")
      /\ s9 \in Scripted("FSM") /\ s10 \in Scripted("FSM") /\ s11 \in Scripted("FSM")
  <2>1. s6 \in Scripted("FSM")
    BY CallIs DEF GoodCall, MvpOps
  <2>2. s8 \in Scripted("FSM")
    BY CallIs DEF GoodCall, MvpOps, Speeds
  <2>3. s9 \in Scripted("FSM")
    BY CallIs, MvpAssumption DEF GoodCall, MvpOps
  <2>4. s7 \in Scripted("FSM") /\ s10 \in Scripted("FSM") /\ s11 \in Scripted("FSM")
    BY AskIs, TestIs, JumpIs, FlagsAre DEF MVP_Status, StatusFlags
  <2> HIDE DEF s6, s7, s8, s9, s10, s11
  <2> QED
    BY <2>1, <2>2, <2>3, <2>4
<1>2. /\ s6.k = "do" /\ s6.op = "SetAccel" /\ s6.arg = 0 /\ s7.k = "skip" /\ s7.flags = {"negative"}
      /\ s7.n = 2 /\ s8.k = "do" /\ s8.op = "SetSpeed" /\ s8.arg = "fast" /\ s9.k = "do"
      /\ s9.op = "MoveRelative" /\ s9.arg = -Top /\ s10.k = "gettry" /\ s10.flags = StatusFlags
      /\ s11.k = "wait" /\ s11.flags = {"negative"} /\ (s11.value = TRUE)
  BY DEF Do, GetTry, Skip, Wait, MVP_Status, StatusFlags, Step
<1> HIDE DEF s6, s7, s8, s9, s10, s11
<1>3. /\ Phase("FSM", 6) = "still" /\ Phase("FSM", 7) = "still" /\ Phase("FSM", 8) = "still"
      /\ Phase("FSM", 9) = "still" /\ Phase("FSM", 10) = "down" /\ Phase("FSM", 11) = "down"
      /\ Phase("FSM", 12) = "still" /\ Phase("FSM", 10) = "down"
  BY DEF Phase, FsmPhase
<1>4. Fits("FSM", 6, s6) /\ Fits("FSM", 8, s8)
  <2>1. Calm("FSM", 6, s6)
    BY <1>1, <1>2, <1>3 DEF Calm, Level, Length, Asked, Quiet
  <2>2. Calm("FSM", 8, s8)
    BY <1>1, <1>2, <1>3 DEF Calm, Level, Length, Asked, Quiet
  <2> QED
    BY <2>1, <2>2, CalmFits
<1>5. Fits("FSM", 10, s10)
  <2>1. AskedAt("FSM", 10, s10)
    BY <1>1, <1>2, <1>3 DEF AskedAt, Level, Length, Asked, Watched, StatusFlags
  <2> QED
    BY <2>1, AskedFits
<1>6. Fits("FSM", 7, s7)
  <2>1. ASSUME NEW d \in Sane, d.kind = "FSM", In("still", d), Extras("FSM", 7, d)
        PROVE  Slides("FSM", 7, 8, d) /\ Slides("FSM", 7, 10, d)
    BY <1>3, <2>1 DEF Slides, In, Sinks, Extras, Length, Tells
  <2>2. 7 + 1 = 8 /\ 7 + 1 + s7.n = 10 /\ 8 \notin Asked("FSM") /\ 10 \notin Asked("FSM")
    BY <1>2 DEF Asked
  <2> QED
    BY <1>1, <1>2, <1>3, <2>1, <2>2, SkipFits
<1>7. Fits("FSM", 9, s9)
  <2>1. CallAt("FSM", 9, s9)
    BY <1>1, <1>2 DEF CallAt, Length, Asked, Plain, MvpOps
  <2>2. ASSUME NEW d \in Sane, NEW e \in Sane, d.kind = "FSM", e.kind = "FSM",
               In("still", d), Extras("FSM", 9, d), Effected("MoveRelative", s9.arg, d, e)
        PROVE  In("down", e) /\ Extras("FSM", 10, e)
    <3>1. d.at \in 0 .. Top /\ Top \in Nat /\ Top >= 3 /\ d.moving \in BOOLEAN /\ d.enabled
      BY <2>2, MvpAssumption DEF Sane, Motor, Extras, Length
    <3>2. In("down", e)
      BY <1>2, <2>2, <3>1 DEF Effected, In, Sinks, Refused, Aim, Edge, Mark, HomeAt
    <3>3. (e.enabled <=> d.enabled) /\ e.zero = d.zero /\ e.speed = d.speed /\ (e.trigger <=> d.trigger)
      BY <2>2 DEF Effected
    <3> QED
      BY <2>2, <3>2, <3>3 DEF Extras, Length
  <2> QED
    BY <1>2, <1>3, <2>1, <2>2, CallFits
<1>8. Fits("FSM", 11, s11)
  <2>1. ASSUME NEW d \in Sane, NEW data \in [Flags -> BOOLEAN], d.kind = "FSM",
               In("down", d), Extras("FSM", 11, d), Tells("down", data, d), data["negative"] = s11.value
        PROVE  Slides("FSM", 11, 12, d)
    <3>1. "negative" \in DOMAIN data /\ data["negative"]
      BY <1>2, <2>1, FlagsAre
    <3>2. In("still", d)
      BY <2>1, <3>1 DEF In, Tells, Sinks, Sane, HomeAt
    <3> QED
      BY <1>3, <2>1, <3>2 DEF Slides, Extras, Length, Tells
  <2>2. 11 \in Asked("FSM") /\ 11 + 1 = 12 /\ 12 \notin Asked("FSM") /\ "negative" \in Flags
    BY FlagsAre DEF Asked
  <2> QED
    BY <1>1, <1>2, <1>3, <2>1, <2>2, WaitFits
<1>9. FSM_ToLimit = <<s6, s7, s8, s9, s10, s11>>
  BY DEF FSM_ToLimit, s6, s7, s8, s9, s10, s11
<1> QED
  BY <1>1, <1>4, <1>5, <1>6, <1>7, <1>8, <1>9 DEF Outlined

\* Out of the switch again.
LEMMA FsmOutOfLimit == Outlined("FSM", 11, 16, FSM_OutOfLimit)
<1> DEFINE s12 == Do("SetSpeed", "fast")  s13 == Do("MoveRelative", 1)  s14 == MVP_Status
           s15 == Wait("moving", FALSE)  s16 == Back("negative", TRUE, 3)
<1>1. /\ s12 \in Scripted("FSM") /\ s13 \in Scripted("FSM") /\ s14 \in Scripted("FSM")
      /\ s15 \in Scripted("FSM") /\ s16 \in Scripted("FSM")
  <2>1. s12 \in Scripted("FSM")
    BY CallIs DEF GoodCall, MvpOps, Speeds
  <2>2. s13 \in Scripted("FSM")
    BY CallIs DEF GoodCall, MvpOps
  <2>3. s14 \in Scripted("FSM") /\ s15 \in Scripted("FSM") /\ s16 \in Scripted("FSM")
    BY AskIs, TestIs, JumpIs, FlagsAre DEF MVP_Status, StatusFlags
  <2> HIDE DEF s12, s13, s14, s15, s16
  <2> QED
    BY <2>1, <2>2, <2>3
<1>2. /\ s12.k = "do" /\ s12.op = "SetSpeed" /\ s12.arg = "fast" /\ s13.k = "do"
      /\ s13.op = "MoveRelative" /\ s13.arg = 1 /\ s14.k = "gettry" /\ s14.flags = StatusFlags
      /\ s15.k = "wait" /\ s15.flags = {"moving"} /\ (s15.value = FALSE) /\ s16.k = "back"
      /\ s16.flags = {"negative"} /\ s16.n = 3
  BY DEF Back, Do, GetTry, Wait, MVP_Status, StatusFlags, Step
<1> HIDE DEF s12, s13, s14, s15, s16
<1>3. /\ Phase("FSM", 12) = "still" /\ Phase("FSM", 13) = "still" /\ Phase("FSM", 14) = "out"
      /\ Phase("FSM", 15) = "out" /\ Phase("FSM", 16) = "clear" /\ Phase("FSM", 17) = "clear"
      /\ Phase("FSM", 13) = "still"
  BY DEF Phase, FsmPhase
<1>4. Fits("FSM", 12, s12)
  <2>1. Calm("FSM", 12, s12)
    BY <1>1, <1>2, <1>3 DEF Calm, Level, Length, Asked, Quiet
  <2> QED
    BY <2>1, CalmFits
<1>5. Fits("FSM", 14, s14)
  <2>1. AskedAt("FSM", 14, s14)
    BY <1>1, <1>2, <1>3 DEF AskedAt, Level, Length, Asked, Watched, StatusFlags
  <2> QED
    BY <2>1, AskedFits
<1>6. Fits("FSM", 13, s13)
  <2>1. CallAt("FSM", 13, s13)
    BY <1>1, <1>2 DEF CallAt, Length, Asked, Plain, MvpOps
  <2>2. ASSUME NEW d \in Sane, NEW e \in Sane, d.kind = "FSM", e.kind = "FSM",
               In("still", d), Extras("FSM", 13, d), Effected("MoveRelative", s13.arg, d, e)
        PROVE  In("out", e) /\ Extras("FSM", 14, e)
    <3>1. d.at \in 0 .. Top /\ Top \in Nat /\ Top >= 3 /\ d.moving \in BOOLEAN /\ d.enabled
      BY <2>2, MvpAssumption DEF Sane, Motor, Extras, Length
    <3>2. In("out", e)
      BY <1>2, <2>2, <3>1 DEF Effected, In, Sinks, Refused, Aim, Edge, Mark, HomeAt
    <3>3. (e.enabled <=> d.enabled) /\ e.zero = d.zero /\ e.speed = d.speed /\ (e.trigger <=> d.trigger)
      BY <2>2 DEF Effected
    <3> QED
      BY <2>2, <3>2, <3>3 DEF Extras, Length
  <2> QED
    BY <1>2, <1>3, <2>1, <2>2, CallFits
<1>7. Fits("FSM", 15, s15)
  <2>1. ASSUME NEW d \in Sane, NEW data \in [Flags -> BOOLEAN], d.kind = "FSM",
               In("out", d), Extras("FSM", 15, d), Tells("out", data, d), data["moving"] = s15.value
        PROVE  Slides("FSM", 15, 16, d)
    <3>1. "moving" \in DOMAIN data /\ ~data["moving"]
      BY <1>2, <2>1, FlagsAre
    <3>2. In("clear", d)
      BY <2>1, <3>1 DEF In, Tells, Sinks, Sane, HomeAt
    <3> QED
      BY <1>3, <2>1, <3>2 DEF Slides, Extras, Length, Tells
  <2>2. 15 \in Asked("FSM") /\ 15 + 1 = 16 /\ 16 \notin Asked("FSM") /\ "moving" \in Flags
    BY FlagsAre DEF Asked
  <2> QED
    BY <1>1, <1>2, <1>3, <2>1, <2>2, WaitFits
<1>8. Fits("FSM", 16, s16)
  <2>1. ASSUME NEW d \in Sane, d.kind = "FSM", In("clear", d), Extras("FSM", 16, d)
        PROVE  Slides("FSM", 16, 17, d) /\ Slides("FSM", 16, 13, d)
    BY <1>3, <2>1 DEF Slides, In, Sinks, Extras, Length, Tells
  <2>2. 16 + 1 = 17 /\ s16.n < 16 /\ 16 - s16.n = 13 /\ 17 \notin Asked("FSM") /\ 13 \notin Asked("FSM")
    BY <1>2 DEF Asked
  <2> QED
    BY <1>1, <1>2, <1>3, <2>1, <2>2, BackFits
<1>9. FSM_OutOfLimit = <<s12, s13, s14, s15, s16>>
  BY DEF FSM_OutOfLimit, s12, s13, s14, s15, s16
<1> QED
  BY <1>1, <1>4, <1>5, <1>6, <1>7, <1>8, <1>9 DEF Outlined

\* Slowly back to its edge.
LEMMA FsmApproach == Outlined("FSM", 16, 22, FSM_Approach)
<1> DEFINE s17 == Do("SetSpeed", "slow")  s18 == Do("SetAccel", 0)  s19 == Do("MoveRelative", -Top)
           s20 == MVP_Status  s21 == Wait("negative", TRUE)  s22 == Do("SetZero", 0)
<1>1. /\ s17 \in Scripted("FSM") /\ s18 \in Scripted("FSM") /\ s19 \in Scripted("FSM")
      /\ s20 \in Scripted("FSM") /\ s21 \in Scripted("FSM") /\ s22 \in Scripted("FSM")
  <2>1. s17 \in Scripted("FSM")
    BY CallIs DEF GoodCall, MvpOps, Speeds
  <2>2. s18 \in Scripted("FSM")
    BY CallIs DEF GoodCall, MvpOps
  <2>3. s19 \in Scripted("FSM")
    BY CallIs, MvpAssumption DEF GoodCall, MvpOps
  <2>4. s22 \in Scripted("FSM")
    BY CallIs DEF GoodCall, MvpOps
  <2>5. s20 \in Scripted("FSM") /\ s21 \in Scripted("FSM")
    BY AskIs, TestIs, JumpIs, FlagsAre DEF MVP_Status, StatusFlags
  <2> HIDE DEF s17, s18, s19, s20, s21, s22
  <2> QED
    BY <2>1, <2>2, <2>3, <2>4, <2>5
<1>2. /\ s17.k = "do" /\ s17.op = "SetSpeed" /\ s17.arg = "slow" /\ s18.k = "do" /\ s18.op = "SetAccel"
      /\ s18.arg = 0 /\ s19.k = "do" /\ s19.op = "MoveRelative" /\ s19.arg = -Top /\ s20.k = "gettry"
      /\ s20.flags = StatusFlags /\ s21.k = "wait" /\ s21.flags = {"negative"} /\ (s21.value = TRUE)
      /\ s22.k = "do" /\ s22.op = "SetZero" /\ s22.arg = 0
  BY DEF Do, GetTry, Wait, MVP_Status, StatusFlags, Step
<1> HIDE DEF s17, s18, s19, s20, s21, s22
<1>3. /\ Phase("FSM", 17) = "clear" /\ Phase("FSM", 18) = "ready" /\ Phase("FSM", 19) = "ready"
      /\ Phase("FSM", 20) = "slowly" /\ Phase("FSM", 21) = "slowly" /\ Phase("FSM", 22) = "edge"
      /\ Phase("FSM", 23) = "edge"
  BY DEF Phase, FsmPhase
<1>4. Fits("FSM", 18, s18) /\ Fits("FSM", 22, s22)
  <2>1. Calm("FSM", 18, s18)
    BY <1>1, <1>2, <1>3 DEF Calm, Level, Length, Asked, Quiet
  <2>2. Calm("FSM", 22, s22)
    BY <1>1, <1>2, <1>3 DEF Calm, Level, Length, Asked, Quiet
  <2> QED
    BY <2>1, <2>2, CalmFits
<1>5. Fits("FSM", 20, s20)
  <2>1. AskedAt("FSM", 20, s20)
    BY <1>1, <1>2, <1>3 DEF AskedAt, Level, Length, Asked, Watched, StatusFlags
  <2> QED
    BY <2>1, AskedFits
<1>6. Fits("FSM", 17, s17)
  <2>1. CallAt("FSM", 17, s17)
    BY <1>1, <1>2 DEF CallAt, Length, Asked, Plain, MvpOps
  <2>2. ASSUME NEW d \in Sane, NEW e \in Sane, d.kind = "FSM", e.kind = "FSM",
               In("clear", d), Extras("FSM", 17, d), Effected("SetSpeed", s17.arg, d, e)
        PROVE  In("ready", e) /\ Extras("FSM", 18, e)
               /\ \A f : Tells("clear", f, d) => Tells("ready", f, e)
    BY <1>2, <2>2 DEF Effected, In, Sinks, Extras, Length, Tells, Edge, Mark, HomeAt
  <2> QED
    BY <1>2, <1>3, <2>1, <2>2, CallFits
<1>7. Fits("FSM", 19, s19)
  <2>1. CallAt("FSM", 19, s19)
    BY <1>1, <1>2 DEF CallAt, Length, Asked, Plain, MvpOps
  <2>2. ASSUME NEW d \in Sane, NEW e \in Sane, d.kind = "FSM", e.kind = "FSM",
               In("ready", d), Extras("FSM", 19, d), Effected("MoveRelative", s19.arg, d, e)
        PROVE  In("slowly", e) /\ Extras("FSM", 20, e)
    <3>1. d.at \in 0 .. Top /\ Top \in Nat /\ Top >= 3 /\ d.moving \in BOOLEAN /\ d.enabled
      BY <2>2, MvpAssumption DEF Sane, Motor, Extras, Length
    <3>2. In("slowly", e)
      BY <1>2, <2>2, <3>1 DEF Effected, In, Sinks, Refused, Aim, Edge, Mark, HomeAt
    <3>3. (e.enabled <=> d.enabled) /\ e.zero = d.zero /\ e.speed = d.speed /\ (e.trigger <=> d.trigger)
      BY <2>2 DEF Effected
    <3> QED
      BY <2>2, <3>2, <3>3 DEF Extras, Length
  <2> QED
    BY <1>2, <1>3, <2>1, <2>2, CallFits
<1>8. Fits("FSM", 21, s21)
  <2>1. ASSUME NEW d \in Sane, NEW data \in [Flags -> BOOLEAN], d.kind = "FSM",
               In("slowly", d), Extras("FSM", 21, d), Tells("slowly", data, d), data["negative"] = s21.value
        PROVE  Slides("FSM", 21, 22, d)
    <3>1. "negative" \in DOMAIN data /\ data["negative"]
      BY <1>2, <2>1, FlagsAre
    <3>2. In("edge", d)
      BY <2>1, <3>1 DEF In, Tells, Sinks, Sane, HomeAt
    <3> QED
      BY <1>3, <2>1, <3>2 DEF Slides, Extras, Length, Tells
  <2>2. 21 \in Asked("FSM") /\ 21 + 1 = 22 /\ 22 \notin Asked("FSM") /\ "negative" \in Flags
    BY FlagsAre DEF Asked
  <2> QED
    BY <1>1, <1>2, <1>3, <2>1, <2>2, WaitFits
<1>9. FSM_Approach = <<s17, s18, s19, s20, s21, s22>>
  BY DEF FSM_Approach, s17, s18, s19, s20, s21, s22
<1> QED
  BY <1>1, <1>4, <1>5, <1>6, <1>7, <1>8, <1>9 DEF Outlined

\* From the edge to home.
LEMMA FsmOffset == Outlined("FSM", 22, 29, FSM_Offset)
<1> DEFINE s23 == Do("SetSpeed", "default")  s24 == Do("SetAccel", 0)
           s25 == Do("MoveRelative", HomeAt("FSM") - Edge)  s26 == MVP_Status
           s27 == Wait("moving", FALSE)  s28 == Do("SetZero", 0)  s29 == Do("SetHomeFlag", TRUE)
<1>1. /\ s23 \in Scripted("FSM") /\ s24 \in Scripted("FSM") /\ s25 \in Scripted("FSM")
      /\ s26 \in Scripted("FSM") /\ s27 \in Scripted("FSM") /\ s28 \in Scripted("FSM")
      /\ s29 \in Scripted("FSM")
  <2>1. s23 \in Scripted("FSM")
    BY CallIs DEF GoodCall, MvpOps, Speeds
  <2>2. s24 \in Scripted("FSM")
    BY CallIs DEF GoodCall, MvpOps
  <2>3. s25 \in Scripted("FSM")
    BY CallIs DEF GoodCall, MvpOps, HomeAt, Edge, Mark
  <2>4. s28 \in Scripted("FSM")
    BY CallIs DEF GoodCall, MvpOps
  <2>5. s29 \in Scripted("FSM")
    BY DEF Do, Undo, Try, Step, Scripted, Steps, StepKinds, MvpOps, StageOps, GoodCall, Asks
  <2>6. s26 \in Scripted("FSM") /\ s27 \in Scripted("FSM")
    BY AskIs, TestIs, JumpIs, FlagsAre DEF MVP_Status, StatusFlags
  <2> HIDE DEF s23, s24, s25, s26, s27, s28, s29
  <2> QED
    BY <2>1, <2>2, <2>3, <2>4, <2>5, <2>6
<1>2. /\ s23.k = "do" /\ s23.op = "SetSpeed" /\ s23.arg = "default" /\ s24.k = "do"
      /\ s24.op = "SetAccel" /\ s24.arg = 0 /\ s25.k = "do" /\ s25.op = "MoveRelative"
      /\ s25.arg = HomeAt("FSM") - Edge /\ s26.k = "gettry" /\ s26.flags = StatusFlags /\ s27.k = "wait"
      /\ s27.flags = {"moving"} /\ (s27.value = FALSE) /\ s28.k = "do" /\ s28.op = "SetZero"
      /\ s28.arg = 0 /\ s29.k = "do" /\ s29.op = "SetHomeFlag" /\ (s29.arg = TRUE)
  BY DEF Do, GetTry, Wait, MVP_Status, StatusFlags, Step
<1> HIDE DEF s23, s24, s25, s26, s27, s28, s29
<1>3. /\ Phase("FSM", 23) = "edge" /\ Phase("FSM", 24) = "edge" /\ Phase("FSM", 25) = "edge"
      /\ Phase("FSM", 26) = "back" /\ Phase("FSM", 27) = "back" /\ Phase("FSM", 28) = "home"
      /\ Phase("FSM", 29) = "home" /\ Phase("FSM", 30) = "home"
  BY DEF Phase, FsmPhase
<1>4. Fits("FSM", 23, s23) /\ Fits("FSM", 24, s24) /\ Fits("FSM", 29, s29)
  <2>1. Calm("FSM", 23, s23)
    BY <1>1, <1>2, <1>3 DEF Calm, Level, Length, Asked, Quiet
  <2>2. Calm("FSM", 24, s24)
    BY <1>1, <1>2, <1>3 DEF Calm, Level, Length, Asked, Quiet
  <2>3. Calm("FSM", 29, s29)
    BY <1>1, <1>2, <1>3 DEF Calm, Level, Length, Asked, Quiet
  <2> QED
    BY <2>1, <2>2, <2>3, CalmFits
<1>5. Fits("FSM", 26, s26)
  <2>1. AskedAt("FSM", 26, s26)
    BY <1>1, <1>2, <1>3 DEF AskedAt, Level, Length, Asked, Watched, StatusFlags
  <2> QED
    BY <2>1, AskedFits
<1>6. Fits("FSM", 25, s25)
  <2>1. CallAt("FSM", 25, s25)
    BY <1>1, <1>2 DEF CallAt, Length, Asked, Plain, MvpOps
  <2>2. ASSUME NEW d \in Sane, NEW e \in Sane, d.kind = "FSM", e.kind = "FSM",
               In("edge", d), Extras("FSM", 25, d), Effected("MoveRelative", s25.arg, d, e)
        PROVE  In("back", e) /\ Extras("FSM", 26, e)
    <3>1. d.at \in 0 .. Top /\ Top \in Nat /\ Top >= 3 /\ d.moving \in BOOLEAN /\ d.enabled
      BY <2>2, MvpAssumption DEF Sane, Motor, Extras, Length
    <3>2. In("back", e)
      BY <1>2, <2>2, <3>1 DEF Effected, In, Sinks, Refused, Aim, Edge, Mark, HomeAt
    <3>3. (e.enabled <=> d.enabled) /\ e.zero = d.zero /\ e.speed = d.speed /\ (e.trigger <=> d.trigger)
      BY <2>2 DEF Effected
    <3> QED
      BY <2>2, <3>2, <3>3 DEF Extras, Length
  <2> QED
    BY <1>2, <1>3, <2>1, <2>2, CallFits
<1>7. Fits("FSM", 27, s27)
  <2>1. ASSUME NEW d \in Sane, NEW data \in [Flags -> BOOLEAN], d.kind = "FSM",
               In("back", d), Extras("FSM", 27, d), Tells("back", data, d), data["moving"] = s27.value
        PROVE  Slides("FSM", 27, 28, d)
    <3>1. "moving" \in DOMAIN data /\ ~data["moving"]
      BY <1>2, <2>1, FlagsAre
    <3>2. In("home", d)
      BY <2>1, <3>1 DEF In, Tells, Sinks, Sane, HomeAt
    <3> QED
      BY <1>3, <2>1, <3>2 DEF Slides, Extras, Length, Tells
  <2>2. 27 \in Asked("FSM") /\ 27 + 1 = 28 /\ 28 \notin Asked("FSM") /\ "moving" \in Flags
    BY FlagsAre DEF Asked
  <2> QED
    BY <1>1, <1>2, <1>3, <2>1, <2>2, WaitFits
<1>8. Fits("FSM", 28, s28)
  <2>1. CallAt("FSM", 28, s28)
    BY <1>1, <1>2 DEF CallAt, Length, Asked, Plain, MvpOps
  <2>2. ASSUME NEW d \in Sane, NEW e \in Sane, d.kind = "FSM", e.kind = "FSM",
               In("home", d), Extras("FSM", 28, d), Effected("SetZero", s28.arg, d, e)
        PROVE  In("home", e) /\ Extras("FSM", 29, e)
               /\ \A f : Tells("home", f, d) => Tells("home", f, e)
    BY <1>2, <2>2 DEF Effected, In, Sinks, Extras, Length, Tells, Edge, Mark, HomeAt
  <2> QED
    BY <1>2, <1>3, <2>1, <2>2, CallFits
<1>9. FSM_Offset = <<s23, s24, s25, s26, s27, s28, s29>>
  BY DEF FSM_Offset, s23, s24, s25, s26, s27, s28, s29
<1> QED
  BY <1>1, <1>4, <1>5, <1>6, <1>7, <1>8, <1>9 DEF Outlined

\* The speed is put back.
LEMMA FsmLast == Outlined("FSM", 29, 30, LastStep)
<1> DEFINE s30 == Do("SetSpeed", "default")
<1>1. s30 \in Scripted("FSM")
  <2>1. s30 \in Scripted("FSM")
    BY CallIs DEF GoodCall, MvpOps, Speeds
  <2> HIDE DEF s30
  <2> QED
    BY <2>1
<1>2. s30.k = "do" /\ s30.op = "SetSpeed" /\ s30.arg = "default"
  BY DEF Do, Step
<1> HIDE DEF s30
<1>3. Phase("FSM", 30) = "home" /\ Phase("FSM", 31) = "home"
  BY DEF Phase, FsmPhase
<1>4. Fits("FSM", 30, s30)
  <2>1. CallAt("FSM", 30, s30)
    BY <1>1, <1>2 DEF CallAt, Length, Asked, Plain, MvpOps
  <2>2. ASSUME NEW d \in Sane, NEW e \in Sane, d.kind = "FSM", e.kind = "FSM",
               In("home", d), Extras("FSM", 30, d), Effected("SetSpeed", s30.arg, d, e)
        PROVE  In("home", e) /\ Extras("FSM", 31, e)
               /\ \A f : Tells("home", f, d) => Tells("home", f, e)
    BY <1>2, <2>2 DEF Effected, In, Sinks, Extras, Length, Tells, Edge, Mark, HomeAt
  <2> QED
    BY <1>2, <1>3, <2>1, <2>2, CallFits
<1>5. LastStep = <<s30>>
  BY DEF LastStep, s30
<1> QED
  BY <1>1, <1>4, <1>5 DEF Outlined
-----------------------------------------------------------------------------
(* The tip and the tilt of the off-axis parabola                           *)

LEMMA OapBelowMark == Outlined("OAP", 5, 12, OAP_BelowMark)
<1> DEFINE s6 == Do("SetAccel", 0)  s7 == Skip("event_2", FALSE, 2)  s8 == Do("SetSpeed", "fast")
           s9 == Undo("MoveRelative", -Top)  s10 == MVP_Status  s11 == WaitUndo("event_2", FALSE)
           s12 == Undo("Abort", 0)
<1>1. /\ s6 \in Scripted("OAP") /\ s7 \in Scripted("OAP") /\ s8 \in Scripted("OAP")
      /\ s9 \in Scripted("OAP") /\ s10 \in Scripted("OAP") /\ s11 \in Scripted("OAP")
      /\ s12 \in Scripted("OAP")
  <2>1. s6 \in Scripted("OAP")
    BY CallIs DEF GoodCall, MvpOps
  <2>2. s8 \in Scripted("OAP")
    BY CallIs DEF GoodCall, MvpOps, Speeds
  <2>3. s9 \in Scripted("OAP")
    BY CallIs, MvpAssumption DEF GoodCall, MvpOps
  <2>4. s12 \in Scripted("OAP")
    BY CallIs DEF GoodCall, MvpOps
  <2>5. s7 \in Scripted("OAP") /\ s10 \in Scripted("OAP") /\ s11 \in Scripted("OAP")
    BY AskIs, TestIs, JumpIs, FlagsAre DEF MVP_Status, StatusFlags
  <2> HIDE DEF s6, s7, s8, s9, s10, s11, s12
  <2> QED
    BY <2>1, <2>2, <2>3, <2>4, <2>5
<1>2. /\ s6.k = "do" /\ s6.op = "SetAccel" /\ s6.arg = 0 /\ s7.k = "skip" /\ s7.flags = {"event_2"}
      /\ s7.n = 2 /\ s8.k = "do" /\ s8.op = "SetSpeed" /\ s8.arg = "fast" /\ s9.k = "undo"
      /\ s9.op = "MoveRelative" /\ s9.arg = -Top /\ s10.k = "gettry" /\ s10.flags = StatusFlags
      /\ s11.k = "waitundo" /\ s11.flags = {"event_2"} /\ (s11.value = FALSE) /\ s12.k = "undo"
      /\ s12.op = "Abort" /\ s12.arg = 0
  BY DEF Do, GetTry, Skip, Undo, WaitUndo, MVP_Status, StatusFlags, Step
<1> HIDE DEF s6, s7, s8, s9, s10, s11, s12
<1>3. /\ Phase("OAP", 6) = "known" /\ Phase("OAP", 7) = "known" /\ Phase("OAP", 8) = "known"
      /\ Phase("OAP", 9) = "known" /\ Phase("OAP", 10) = "below" /\ Phase("OAP", 11) = "below"
      /\ Phase("OAP", 12) = "passed" /\ Phase("OAP", 13) = "under" /\ Phase("OAP", 10) = "below"
  BY DEF Phase, OapPhase
<1>4. Fits("OAP", 6, s6) /\ Fits("OAP", 8, s8)
  <2>1. Calm("OAP", 6, s6)
    BY <1>1, <1>2, <1>3 DEF Calm, Level, Length, Asked, Quiet
  <2>2. Calm("OAP", 8, s8)
    BY <1>1, <1>2, <1>3 DEF Calm, Level, Length, Asked, Quiet
  <2> QED
    BY <2>1, <2>2, CalmFits
<1>5. Fits("OAP", 10, s10)
  <2>1. AskedAt("OAP", 10, s10)
    BY <1>1, <1>2, <1>3 DEF AskedAt, Level, Length, Asked, Watched, StatusFlags
  <2> QED
    BY <2>1, AskedFits
<1>6. Fits("OAP", 7, s7)
  <2>1. ASSUME NEW d \in Sane, d.kind = "OAP", In("known", d), Extras("OAP", 7, d)
        PROVE  Slides("OAP", 7, 8, d) /\ Slides("OAP", 7, 10, d)
    BY <1>3, <2>1 DEF Slides, In, Sinks, Extras, Length, Tells
  <2>2. 7 + 1 = 8 /\ 7 + 1 + s7.n = 10 /\ 8 \notin Asked("OAP") /\ 10 \notin Asked("OAP")
    BY <1>2 DEF Asked
  <2> QED
    BY <1>1, <1>2, <1>3, <2>1, <2>2, SkipFits
<1>7. Fits("OAP", 9, s9)
  <2>1. CallAt("OAP", 9, s9)
    BY <1>1, <1>2 DEF CallAt, Length, Asked, Plain, MvpOps
  <2>2. ASSUME NEW d \in Sane, NEW e \in Sane, d.kind = "OAP", e.kind = "OAP",
               In("known", d), Extras("OAP", 9, d), Effected("MoveRelative", s9.arg, d, e)
        PROVE  In("below", e) /\ Extras("OAP", 10, e)
    <3>1. d.at \in 0 .. Top /\ Top \in Nat /\ Top >= 3 /\ d.moving \in BOOLEAN /\ d.enabled
      BY <2>2, MvpAssumption DEF Sane, Motor, Extras, Length
    <3>2. In("below", e)
      BY <1>2, <2>2, <3>1 DEF Effected, In, Sinks, Refused, Aim, Edge, Mark, HomeAt
    <3>3. (e.enabled <=> d.enabled) /\ e.zero = d.zero /\ e.speed = d.speed /\ (e.trigger <=> d.trigger)
      BY <2>2 DEF Effected
    <3> QED
      BY <2>2, <3>2, <3>3 DEF Extras, Length
  <2> QED
    BY <1>2, <1>3, <2>1, <2>2, CallFits
<1>8. Fits("OAP", 11, s11)
  <2>1. ASSUME NEW d \in Sane, NEW data \in [Flags -> BOOLEAN], d.kind = "OAP",
               In("below", d), Extras("OAP", 11, d), Tells("below", data, d), data["event_2"] = s11.value
        PROVE  Slides("OAP", 11, 12, d)
    <3>1. "event_2" \in DOMAIN data /\ ~data["event_2"]
      BY <1>2, <2>1, FlagsAre
    <3>2. In("passed", d)
      BY <2>1, <3>1 DEF In, Tells, Sinks, Sane, HomeAt
    <3> QED
      BY <1>3, <2>1, <3>2 DEF Slides, Extras, Length, Tells
  <2>2. 11 \in Asked("OAP") /\ 11 + 1 = 12 /\ 12 \notin Asked("OAP") /\ "event_2" \in Flags
    BY FlagsAre DEF Asked
  <2> QED
    BY <1>1, <1>2, <1>3, <2>1, <2>2, WaitFits
<1>9. Fits("OAP", 12, s12)
  <2>1. CallAt("OAP", 12, s12)
    BY <1>1, <1>2 DEF CallAt, Length, Asked, Plain, MvpOps
  <2>2. ASSUME NEW d \in Sane, NEW e \in Sane, d.kind = "OAP", e.kind = "OAP",
               In("passed", d), Extras("OAP", 12, d), Effected("Abort", s12.arg, d, e)
        PROVE  In("under", e) /\ Extras("OAP", 13, e)
               /\ \A f : Tells("passed", f, d) => Tells("under", f, e)
    BY <1>2, <2>2 DEF Effected, In, Sinks, Extras, Length, Tells, Edge, Mark, HomeAt
  <2> QED
    BY <1>2, <1>3, <2>1, <2>2, CallFits
<1>10. OAP_BelowMark = <<s6, s7, s8, s9, s10, s11, s12>>
  BY DEF OAP_BelowMark, s6, s7, s8, s9, s10, s11, s12
<1> QED
  BY <1>1, <1>4, <1>5, <1>6, <1>7, <1>8, <1>9, <1>10 DEF Outlined

\* Up to the mark.
LEMMA OapToMark == Outlined("OAP", 12, 18, OAP_ToMark)
<1> DEFINE s13 == Undo("SetSpeed", "default")  s14 == Do("SetHomeTrigger", TRUE)
           s15 == Do("HardStop", 0)  s16 == Do("MoveRelative", Top)  s17 == MVP_Status
           s18 == Wait("event_2", TRUE)
<1>1. /\ s13 \in Scripted("OAP") /\ s14 \in Scripted("OAP") /\ s15 \in Scripted("OAP")
      /\ s16 \in Scripted("OAP") /\ s17 \in Scripted("OAP") /\ s18 \in Scripted("OAP")
  <2>1. s13 \in Scripted("OAP")
    BY CallIs DEF GoodCall, MvpOps, Speeds
  <2>2. s15 \in Scripted("OAP")
    BY CallIs DEF GoodCall, MvpOps
  <2>3. s16 \in Scripted("OAP")
    BY CallIs, MvpAssumption DEF GoodCall, MvpOps
  <2>4. s14 \in Scripted("OAP")
    BY DEF Do, Undo, Try, Step, Scripted, Steps, StepKinds, MvpOps, StageOps, GoodCall, Asks
  <2>5. s17 \in Scripted("OAP") /\ s18 \in Scripted("OAP")
    BY AskIs, TestIs, JumpIs, FlagsAre DEF MVP_Status, StatusFlags
  <2> HIDE DEF s13, s14, s15, s16, s17, s18
  <2> QED
    BY <2>1, <2>2, <2>3, <2>4, <2>5
<1>2. /\ s13.k = "undo" /\ s13.op = "SetSpeed" /\ s13.arg = "default" /\ s14.k = "do"
      /\ s14.op = "SetHomeTrigger" /\ (s14.arg = TRUE) /\ s15.k = "do" /\ s15.op = "HardStop"
      /\ s15.arg = 0 /\ s16.k = "do" /\ s16.op = "MoveRelative" /\ s16.arg = Top /\ s17.k = "gettry"
      /\ s17.flags = StatusFlags /\ s18.k = "wait" /\ s18.flags = {"event_2"} /\ (s18.value = TRUE)
  BY DEF Do, GetTry, Undo, Wait, MVP_Status, StatusFlags, Step
<1> HIDE DEF s13, s14, s15, s16, s17, s18
<1>3. /\ Phase("OAP", 13) = "under" /\ Phase("OAP", 14) = "under" /\ Phase("OAP", 15) = "armed"
      /\ Phase("OAP", 16) = "armed" /\ Phase("OAP", 17) = "up" /\ Phase("OAP", 18) = "up"
      /\ Phase("OAP", 19) = "mark"
  BY DEF Phase, OapPhase
<1>4. Fits("OAP", 13, s13) /\ Fits("OAP", 15, s15)
  <2>1. Calm("OAP", 13, s13)
    BY <1>1, <1>2, <1>3 DEF Calm, Level, Length, Asked, Quiet
  <2>2. Calm("OAP", 15, s15)
    BY <1>1, <1>2, <1>3 DEF Calm, Level, Length, Asked, Quiet
  <2> QED
    BY <2>1, <2>2, CalmFits
<1>5. Fits("OAP", 17, s17)
  <2>1. AskedAt("OAP", 17, s17)
    BY <1>1, <1>2, <1>3 DEF AskedAt, Level, Length, Asked, Watched, StatusFlags
  <2> QED
    BY <2>1, AskedFits
<1>6. Fits("OAP", 14, s14)
  <2>1. CallAt("OAP", 14, s14)
    BY <1>1, <1>2 DEF CallAt, Length, Asked, Plain, MvpOps
  <2>2. ASSUME NEW d \in Sane, NEW e \in Sane, d.kind = "OAP", e.kind = "OAP",
               In("under", d), Extras("OAP", 14, d), Effected("SetHomeTrigger", s14.arg, d, e)
        PROVE  In("armed", e) /\ Extras("OAP", 15, e)
               /\ \A f : Tells("under", f, d) => Tells("armed", f, e)
    BY <1>2, <2>2 DEF Effected, In, Sinks, Extras, Length, Tells, Edge, Mark, HomeAt
  <2> QED
    BY <1>2, <1>3, <2>1, <2>2, CallFits
<1>7. Fits("OAP", 16, s16)
  <2>1. CallAt("OAP", 16, s16)
    BY <1>1, <1>2 DEF CallAt, Length, Asked, Plain, MvpOps
  <2>2. ASSUME NEW d \in Sane, NEW e \in Sane, d.kind = "OAP", e.kind = "OAP",
               In("armed", d), Extras("OAP", 16, d), Effected("MoveRelative", s16.arg, d, e)
        PROVE  In("up", e) /\ Extras("OAP", 17, e)
    <3>1. d.at \in 0 .. Top /\ Top \in Nat /\ Top >= 3 /\ d.moving \in BOOLEAN /\ d.enabled
      BY <2>2, MvpAssumption DEF Sane, Motor, Extras, Length
    <3>2. In("up", e)
      BY <1>2, <2>2, <3>1 DEF Effected, In, Sinks, Refused, Aim, Edge, Mark, HomeAt
    <3>3. (e.enabled <=> d.enabled) /\ e.zero = d.zero /\ e.speed = d.speed /\ (e.trigger <=> d.trigger)
      BY <2>2 DEF Effected
    <3> QED
      BY <2>2, <3>2, <3>3 DEF Extras, Length
  <2> QED
    BY <1>2, <1>3, <2>1, <2>2, CallFits
<1>8. Fits("OAP", 18, s18)
  <2>1. ASSUME NEW d \in Sane, NEW data \in [Flags -> BOOLEAN], d.kind = "OAP",
               In("up", d), Extras("OAP", 18, d), Tells("up", data, d), data["event_2"] = s18.value
        PROVE  Slides("OAP", 18, 19, d)
    <3>1. "event_2" \in DOMAIN data /\ data["event_2"]
      BY <1>2, <2>1, FlagsAre
    <3>2. In("mark", d)
      BY <2>1, <3>1 DEF In, Tells, Sinks, Sane, HomeAt
    <3> QED
      BY <1>3, <2>1, <3>2 DEF Slides, Extras, Length, Tells
  <2>2. 18 \in Asked("OAP") /\ 18 + 1 = 19 /\ 19 \notin Asked("OAP") /\ "event_2" \in Flags
    BY FlagsAre DEF Asked
  <2> QED
    BY <1>1, <1>2, <1>3, <2>1, <2>2, WaitFits
<1>9. OAP_ToMark = <<s13, s14, s15, s16, s17, s18>>
  BY DEF OAP_ToMark, s13, s14, s15, s16, s17, s18
<1> QED
  BY <1>1, <1>4, <1>5, <1>6, <1>7, <1>8, <1>9 DEF Outlined

\* From the mark to home.
LEMMA OapOffset == Outlined("OAP", 18, 26, OAP_Offset)
<1> DEFINE s19 == Undo("SetHomeTrigger", FALSE)  s20 == Undo("SetZero", 0)
           s21 == Undo("SetSpeed", "fast")  s22 == Do("MoveRelative", HomeAt("OAP") - Mark)
           s23 == MVP_Status  s24 == WaitUndo("moving", FALSE)  s25 == Undo("SetZero", 0)
           s26 == Undo("SetHomeFlag", TRUE)
<1>1. /\ s19 \in Scripted("OAP") /\ s20 \in Scripted("OAP") /\ s21 \in Scripted("OAP")
      /\ s22 \in Scripted("OAP") /\ s23 \in Scripted("OAP") /\ s24 \in Scripted("OAP")
      /\ s25 \in Scripted("OAP") /\ s26 \in Scripted("OAP")
  <2>1. s20 \in Scripted("OAP")
    BY CallIs DEF GoodCall, MvpOps
  <2>2. s21 \in Scripted("OAP")
    BY CallIs DEF GoodCall, MvpOps, Speeds
  <2>3. s22 \in Scripted("OAP")
    BY CallIs DEF GoodCall, MvpOps, HomeAt, Edge, Mark
  <2>4. s25 \in Scripted("OAP")
    BY CallIs DEF GoodCall, MvpOps
  <2>5. s19 \in Scripted("OAP")
    BY DEF Do, Undo, Try, Step, Scripted, Steps, StepKinds, MvpOps, StageOps, GoodCall, Asks
  <2>6. s26 \in Scripted("OAP")
    BY DEF Do, Undo, Try, Step, Scripted, Steps, StepKinds, MvpOps, StageOps, GoodCall, Asks
  <2>7. s23 \in Scripted("OAP") /\ s24 \in Scripted("OAP")
    BY AskIs, TestIs, JumpIs, FlagsAre DEF MVP_Status, StatusFlags
  <2> HIDE DEF s19, s20, s21, s22, s23, s24, s25, s26
  <2> QED
    BY <2>1, <2>2, <2>3, <2>4, <2>5, <2>6, <2>7
<1>2. /\ s19.k = "undo" /\ s19.op = "SetHomeTrigger" /\ (s19.arg = FALSE) /\ s20.k = "undo"
      /\ s20.op = "SetZero" /\ s20.arg = 0 /\ s21.k = "undo" /\ s21.op = "SetSpeed" /\ s21.arg = "fast"
      /\ s22.k = "do" /\ s22.op = "MoveRelative" /\ s22.arg = HomeAt("OAP") - Mark /\ s23.k = "gettry"
      /\ s23.flags = StatusFlags /\ s24.k = "waitundo" /\ s24.flags = {"moving"} /\ (s24.value = FALSE)
      /\ s25.k = "undo" /\ s25.op = "SetZero" /\ s25.arg = 0 /\ s26.k = "undo" /\ s26.op = "SetHomeFlag"
      /\ (s26.arg = TRUE)
  BY DEF Do, GetTry, Undo, WaitUndo, MVP_Status, StatusFlags, Step
<1> HIDE DEF s19, s20, s21, s22, s23, s24, s25, s26
<1>3. /\ Phase("OAP", 19) = "mark" /\ Phase("OAP", 20) = "mark" /\ Phase("OAP", 21) = "mark"
      /\ Phase("OAP", 22) = "mark" /\ Phase("OAP", 23) = "offset" /\ Phase("OAP", 24) = "offset"
      /\ Phase("OAP", 25) = "home" /\ Phase("OAP", 26) = "home" /\ Phase("OAP", 27) = "home"
  BY DEF Phase, OapPhase
<1>4. Fits("OAP", 20, s20) /\ Fits("OAP", 21, s21) /\ Fits("OAP", 26, s26)
  <2>1. Calm("OAP", 20, s20)
    BY <1>1, <1>2, <1>3 DEF Calm, Level, Length, Asked, Quiet
  <2>2. Calm("OAP", 21, s21)
    BY <1>1, <1>2, <1>3 DEF Calm, Level, Length, Asked, Quiet
  <2>3. Calm("OAP", 26, s26)
    BY <1>1, <1>2, <1>3 DEF Calm, Level, Length, Asked, Quiet
  <2> QED
    BY <2>1, <2>2, <2>3, CalmFits
<1>5. Fits("OAP", 23, s23)
  <2>1. AskedAt("OAP", 23, s23)
    BY <1>1, <1>2, <1>3 DEF AskedAt, Level, Length, Asked, Watched, StatusFlags
  <2> QED
    BY <2>1, AskedFits
<1>6. Fits("OAP", 19, s19)
  <2>1. CallAt("OAP", 19, s19)
    BY <1>1, <1>2 DEF CallAt, Length, Asked, Plain, MvpOps
  <2>2. ASSUME NEW d \in Sane, NEW e \in Sane, d.kind = "OAP", e.kind = "OAP",
               In("mark", d), Extras("OAP", 19, d), Effected("SetHomeTrigger", s19.arg, d, e)
        PROVE  In("mark", e) /\ Extras("OAP", 20, e)
               /\ \A f : Tells("mark", f, d) => Tells("mark", f, e)
    BY <1>2, <2>2 DEF Effected, In, Sinks, Extras, Length, Tells, Edge, Mark, HomeAt
  <2> QED
    BY <1>2, <1>3, <2>1, <2>2, CallFits
<1>7. Fits("OAP", 22, s22)
  <2>1. CallAt("OAP", 22, s22)
    BY <1>1, <1>2 DEF CallAt, Length, Asked, Plain, MvpOps
  <2>2. ASSUME NEW d \in Sane, NEW e \in Sane, d.kind = "OAP", e.kind = "OAP",
               In("mark", d), Extras("OAP", 22, d), Effected("MoveRelative", s22.arg, d, e)
        PROVE  In("offset", e) /\ Extras("OAP", 23, e)
    <3>1. d.at \in 0 .. Top /\ Top \in Nat /\ Top >= 3 /\ d.moving \in BOOLEAN /\ d.enabled
      BY <2>2, MvpAssumption DEF Sane, Motor, Extras, Length
    <3>2. In("offset", e)
      BY <1>2, <2>2, <3>1 DEF Effected, In, Sinks, Refused, Aim, Edge, Mark, HomeAt
    <3>3. (e.enabled <=> d.enabled) /\ e.zero = d.zero /\ e.speed = d.speed /\ (e.trigger <=> d.trigger)
      BY <2>2 DEF Effected
    <3> QED
      BY <2>2, <3>2, <3>3 DEF Extras, Length
  <2> QED
    BY <1>2, <1>3, <2>1, <2>2, CallFits
<1>8. Fits("OAP", 24, s24)
  <2>1. ASSUME NEW d \in Sane, NEW data \in [Flags -> BOOLEAN], d.kind = "OAP",
               In("offset", d), Extras("OAP", 24, d), Tells("offset", data, d), data["moving"] = s24.value
        PROVE  Slides("OAP", 24, 25, d)
    <3>1. "moving" \in DOMAIN data /\ ~data["moving"]
      BY <1>2, <2>1, FlagsAre
    <3>2. In("home", d)
      BY <2>1, <3>1 DEF In, Tells, Sinks, Sane, HomeAt
    <3> QED
      BY <1>3, <2>1, <3>2 DEF Slides, Extras, Length, Tells
  <2>2. 24 \in Asked("OAP") /\ 24 + 1 = 25 /\ 25 \notin Asked("OAP") /\ "moving" \in Flags
    BY FlagsAre DEF Asked
  <2> QED
    BY <1>1, <1>2, <1>3, <2>1, <2>2, WaitFits
<1>9. Fits("OAP", 25, s25)
  <2>1. CallAt("OAP", 25, s25)
    BY <1>1, <1>2 DEF CallAt, Length, Asked, Plain, MvpOps
  <2>2. ASSUME NEW d \in Sane, NEW e \in Sane, d.kind = "OAP", e.kind = "OAP",
               In("home", d), Extras("OAP", 25, d), Effected("SetZero", s25.arg, d, e)
        PROVE  In("home", e) /\ Extras("OAP", 26, e)
               /\ \A f : Tells("home", f, d) => Tells("home", f, e)
    BY <1>2, <2>2 DEF Effected, In, Sinks, Extras, Length, Tells, Edge, Mark, HomeAt
  <2> QED
    BY <1>2, <1>3, <2>1, <2>2, CallFits
<1>10. OAP_Offset = <<s19, s20, s21, s22, s23, s24, s25, s26>>
  BY DEF OAP_Offset, s19, s20, s21, s22, s23, s24, s25, s26
<1> QED
  BY <1>1, <1>4, <1>5, <1>6, <1>7, <1>8, <1>9, <1>10 DEF Outlined

\* The speed is put back.
LEMMA OapLast == Outlined("OAP", 26, 27, LastStep)
<1> DEFINE s27 == Do("SetSpeed", "default")
<1>1. s27 \in Scripted("OAP")
  <2>1. s27 \in Scripted("OAP")
    BY CallIs DEF GoodCall, MvpOps, Speeds
  <2> HIDE DEF s27
  <2> QED
    BY <2>1
<1>2. s27.k = "do" /\ s27.op = "SetSpeed" /\ s27.arg = "default"
  BY DEF Do, Step
<1> HIDE DEF s27
<1>3. Phase("OAP", 27) = "home" /\ Phase("OAP", 28) = "home"
  BY DEF Phase, OapPhase
<1>4. Fits("OAP", 27, s27)
  <2>1. CallAt("OAP", 27, s27)
    BY <1>1, <1>2 DEF CallAt, Length, Asked, Plain, MvpOps
  <2>2. ASSUME NEW d \in Sane, NEW e \in Sane, d.kind = "OAP", e.kind = "OAP",
               In("home", d), Extras("OAP", 27, d), Effected("SetSpeed", s27.arg, d, e)
        PROVE  In("home", e) /\ Extras("OAP", 28, e)
               /\ \A f : Tells("home", f, d) => Tells("home", f, e)
    BY <1>2, <2>2 DEF Effected, In, Sinks, Extras, Length, Tells, Edge, Mark, HomeAt
  <2> QED
    BY <1>2, <1>3, <2>1, <2>2, CallFits
<1>5. LastStep = <<s27>>
  BY DEF LastStep, s27
<1> QED
  BY <1>1, <1>4, <1>5 DEF Outlined
-----------------------------------------------------------------------------
(* The stage                                                               *)

\* The drive is taken off at home.
LEMMA DriveOffFits ==
  ASSUME NEW s \in Scripted("Stage"), s.k = "try", s.op = "DI"
  PROVE  Fits("Stage", 34, s)
<1>1. Phase("Stage", 34) = "home" /\ Phase("Stage", 35) = "home"
  BY DEF Phase, StagePhase
<1>2. Placed("Stage", 34, s)
  BY DEF Placed, Calls, Plain, MvpOps, Asked, Asks
<1>3. ASSUME NEW d \in Sane, d.kind = "Stage", HomeState("Stage", 34, d)
      PROVE  /\ OnTo("Stage", 34, 35, d, d)
             /\ \A e \in Sane : Effected("DI", s.arg, d, e) => OnTo("Stage", 34, 35, d, e)
  <2>1. In("home", d) /\ Extras("Stage", 34, d)
    BY <1>1, <1>3 DEF HomeState
  <2>2. Extras("Stage", 35, d) /\ 35 \in 1 .. Length("Stage") + 1
    BY <2>1 DEF Extras, Length
  <2>3. \A e, f : Tells("home", f, e)
    BY DEF Tells
  <2>4. ASSUME NEW e \in Sane, Effected("DI", s.arg, d, e)
        PROVE  In("home", e) /\ Extras("Stage", 35, e)
    <3>1. e.kind = d.kind /\ e.at = d.at /\ ~e.moving /\ e.zero = d.zero /\ e.speed = d.speed
      BY <2>4 DEF Effected
    <3> QED
      BY <2>1, <2>2, <3>1, <1>3 DEF In, Extras, Length
  <2> QED
    BY <1>1, <2>1, <2>2, <2>3, <2>4 DEF OnTo, HomeState, StillTells
<1>4. Keeps("Stage", 34, s)
  BY <1>3 DEF Keeps, Calls, OnTo
<1> QED
  BY <1>2, <1>4 DEF Fits

DownSteps == <<Try("SetHomeFlag", FALSE), Try("EN", 0), Do("SetSpeed", "default"),
               Skip("negative", TRUE, 1), Do("MoveRelative", -Top)>>
AtLimit == <<Wait("negative", TRUE)>>
OutSteps == <<Do("MoveRelative", 1)>>
IsOut == <<Wait("moving", FALSE), Back("negative", TRUE, 6)>>
SlowlySteps == <<Do("SetSpeed", "slow"), Do("MoveRelative", -Top)>>
AtEdge == <<Wait("negative", TRUE), Do("SetZero", 0)>>
BackSteps == <<Do("SetSpeed", "default"), Do("MoveRelative", HomeAt("Stage") - Edge)>>
AtHome == <<Wait("moving", FALSE), Try("SetHomeFlag", TRUE), Try("DI", 0)>>

\* Down to the limit switch.
LEMMA StageDown == Outlined("Stage", 0, 5, DownSteps)
<1> DEFINE s1 == Try("SetHomeFlag", FALSE)  s2 == Try("EN", 0)  s3 == Do("SetSpeed", "default")
           s4 == Skip("negative", TRUE, 1)  s5 == Do("MoveRelative", -Top)
<1>1. /\ s1 \in Scripted("Stage") /\ s2 \in Scripted("Stage") /\ s3 \in Scripted("Stage")
      /\ s4 \in Scripted("Stage") /\ s5 \in Scripted("Stage")
  <2>1. s2 \in Scripted("Stage")
    BY CallIs DEF GoodCall, MvpOps, StageOps
  <2>2. s3 \in Scripted("Stage")
    BY CallIs DEF GoodCall, MvpOps, StageOps, Speeds
  <2>3. s5 \in Scripted("Stage")
    BY CallIs, MvpAssumption DEF GoodCall, MvpOps, StageOps
  <2>4. s1 \in Scripted("Stage")
    BY DEF Do, Undo, Try, Step, Scripted, Steps, StepKinds, MvpOps, StageOps, GoodCall, Asks
  <2>5. s4 \in Scripted("Stage")
    BY AskIs, TestIs, JumpIs, FlagsAre DEF MVP_Status, StatusFlags
  <2> HIDE DEF s1, s2, s3, s4, s5
  <2> QED
    BY <2>1, <2>2, <2>3, <2>4, <2>5
<1>2. /\ s1.k = "try" /\ s1.op = "SetHomeFlag" /\ (s1.arg = FALSE) /\ s2.k = "try" /\ s2.op = "EN"
      /\ s2.arg = 0 /\ s3.k = "do" /\ s3.op = "SetSpeed" /\ s3.arg = "default" /\ s4.k = "skip"
      /\ s4.flags = {"negative"} /\ s4.n = 1 /\ s5.k = "do" /\ s5.op = "MoveRelative" /\ s5.arg = -Top
  BY DEF Do, Skip, Try, Step
<1> HIDE DEF s1, s2, s3, s4, s5
<1>3. /\ Phase("Stage", 1) = "still" /\ Phase("Stage", 2) = "still" /\ Phase("Stage", 3) = "still"
      /\ Phase("Stage", 4) = "still" /\ Phase("Stage", 5) = "still" /\ Phase("Stage", 6) = "down"
      /\ Phase("Stage", 6) = "down"
  BY DEF Phase, StagePhase
<1>4. Fits("Stage", 1, s1) /\ Fits("Stage", 2, s2)
  <2>1. Calm("Stage", 1, s1)
    BY <1>1, <1>2, <1>3 DEF Calm, Level, Length, Asked, Quiet
  <2>2. Calm("Stage", 2, s2)
    BY <1>1, <1>2, <1>3 DEF Calm, Level, Length, Asked, Quiet
  <2> QED
    BY <2>1, <2>2, CalmFits
<1>5. Fits("Stage", 3, s3)
  <2>1. CallAt("Stage", 3, s3)
    BY <1>1, <1>2 DEF CallAt, Length, Asked, Plain, MvpOps
  <2>2. ASSUME NEW d \in Sane, NEW e \in Sane, d.kind = "Stage", e.kind = "Stage", d.enabled,
               In("still", d), Extras("Stage", 3, d), Effected("SetSpeed", s3.arg, d, e)
        PROVE  In("still", e) /\ Extras("Stage", 4, e)
               /\ \A f : Tells("still", f, d) => Tells("still", f, e)
    <3>1. (e.enabled <=> d.enabled) /\ (e.moving <=> d.moving)
      BY <1>2, <2>2 DEF Effected
    <3> QED
      BY <2>2, <3>1 DEF In, Extras, Length, Tells
  <2> QED
    BY <1>2, <1>3, <2>1, <2>2, CallFits
<1>6. Fits("Stage", 4, s4)
  <2>1. ASSUME NEW d \in Sane, d.kind = "Stage", In("still", d), Extras("Stage", 4, d)
        PROVE  Slides("Stage", 4, 5, d) /\ Slides("Stage", 4, 6, d)
    BY <1>3, <2>1 DEF Slides, In, Sinks, Extras, Length, Tells
  <2>2. 4 + 1 = 5 /\ 4 + 1 + s4.n = 6 /\ 5 \notin Asked("Stage") /\ 6 \notin Asked("Stage")
    BY <1>2 DEF Asked
  <2> QED
    BY <1>1, <1>2, <1>3, <2>1, <2>2, SkipFits
<1>7. Fits("Stage", 5, s5)
  <2>1. CallAt("Stage", 5, s5)
    BY <1>1, <1>2 DEF CallAt, Length, Asked, Plain, MvpOps
  <2>2. ASSUME NEW d \in Sane, NEW e \in Sane, d.kind = "Stage", e.kind = "Stage",
               In("still", d), Extras("Stage", 5, d), Effected("MoveRelative", s5.arg, d, e)
        PROVE  In("down", e) /\ Extras("Stage", 6, e)
    <3>1. d.at \in 0 .. Top /\ Top \in Nat /\ Top >= 3 /\ d.moving \in BOOLEAN /\ d.enabled
      BY <2>2, MvpAssumption DEF Sane, Motor, Extras, Length
    <3>2. In("down", e)
      BY <1>2, <2>2, <3>1 DEF Effected, In, Sinks, Refused, Aim, Edge, Mark, HomeAt
    <3>3. (e.enabled <=> d.enabled) /\ e.zero = d.zero /\ e.speed = d.speed /\ (e.trigger <=> d.trigger)
      BY <2>2 DEF Effected
    <3> QED
      BY <2>2, <3>2, <3>3 DEF Extras, Length
  <2> QED
    BY <1>2, <1>3, <2>1, <2>2, CallFits
<1>8. DownSteps = <<s1, s2, s3, s4, s5>>
  BY DEF DownSteps, s1, s2, s3, s4, s5
<1> QED
  BY <1>1, <1>4, <1>5, <1>6, <1>7, <1>8 DEF Outlined

\* The switch stops it.
LEMMA StageAtLimit == Outlined("Stage", 9, 10, AtLimit)
<1> DEFINE s10 == Wait("negative", TRUE)
<1>1. s10 \in Scripted("Stage")
  <2>1. s10 \in Scripted("Stage")
    BY AskIs, TestIs, JumpIs, FlagsAre DEF MVP_Status, StatusFlags
  <2> HIDE DEF s10
  <2> QED
    BY <2>1
<1>2. s10.k = "wait" /\ s10.flags = {"negative"} /\ (s10.value = TRUE)
  BY DEF Wait, Step
<1> HIDE DEF s10
<1>3. Phase("Stage", 10) = "down" /\ Phase("Stage", 11) = "still"
  BY DEF Phase, StagePhase
<1>4. Fits("Stage", 10, s10)
  <2>1. ASSUME NEW d \in Sane, NEW data \in [Flags -> BOOLEAN], d.kind = "Stage",
               In("down", d), Extras("Stage", 10, d), Tells("down", data, d), data["negative"] = s10.value
        PROVE  Slides("Stage", 10, 11, d)
    <3>1. "negative" \in DOMAIN data /\ data["negative"]
      BY <1>2, <2>1, FlagsAre
    <3>2. In("still", d)
      BY <2>1, <3>1 DEF In, Tells, Sinks, Sane, HomeAt
    <3> QED
      BY <1>3, <2>1, <3>2 DEF Slides, Extras, Length, Tells
  <2>2. 10 \in Asked("Stage") /\ 10 + 1 = 11 /\ 11 \notin Asked("Stage") /\ "negative" \in Flags
    BY FlagsAre DEF Asked
  <2> QED
    BY <1>1, <1>2, <1>3, <2>1, <2>2, WaitFits
<1>5. AtLimit = <<s10>>
  BY DEF AtLimit, s10
<1> QED
  BY <1>1, <1>4, <1>5 DEF Outlined

\* A jog out of the switch.
LEMMA StageOut == Outlined("Stage", 10, 11, OutSteps)
<1> DEFINE s11 == Do("MoveRelative", 1)
<1>1. s11 \in Scripted("Stage")
  <2>1. s11 \in Scripted("Stage")
    BY CallIs DEF GoodCall, MvpOps, StageOps
  <2> HIDE DEF s11
  <2> QED
    BY <2>1
<1>2. s11.k = "do" /\ s11.op = "MoveRelative" /\ s11.arg = 1
  BY DEF Do, Step
<1> HIDE DEF s11
<1>3. Phase("Stage", 11) = "still" /\ Phase("Stage", 12) = "out"
  BY DEF Phase, StagePhase
<1>4. Fits("Stage", 11, s11)
  <2>1. CallAt("Stage", 11, s11)
    BY <1>1, <1>2 DEF CallAt, Length, Asked, Plain, MvpOps
  <2>2. ASSUME NEW d \in Sane, NEW e \in Sane, d.kind = "Stage", e.kind = "Stage",
               In("still", d), Extras("Stage", 11, d), Effected("MoveRelative", s11.arg, d, e)
        PROVE  In("out", e) /\ Extras("Stage", 12, e)
    <3>1. d.at \in 0 .. Top /\ Top \in Nat /\ Top >= 3 /\ d.moving \in BOOLEAN /\ d.enabled
      BY <2>2, MvpAssumption DEF Sane, Motor, Extras, Length
    <3>2. In("out", e)
      BY <1>2, <2>2, <3>1 DEF Effected, In, Sinks, Refused, Aim, Edge, Mark, HomeAt
    <3>3. (e.enabled <=> d.enabled) /\ e.zero = d.zero /\ e.speed = d.speed /\ (e.trigger <=> d.trigger)
      BY <2>2 DEF Effected
    <3> QED
      BY <2>2, <3>2, <3>3 DEF Extras, Length
  <2> QED
    BY <1>2, <1>3, <2>1, <2>2, CallFits
<1>5. OutSteps = <<s11>>
  BY DEF OutSteps, s11
<1> QED
  BY <1>1, <1>4, <1>5 DEF Outlined

\* Out of it, or another jog.
LEMMA StageIsOut == Outlined("Stage", 15, 17, IsOut)
<1> DEFINE s16 == Wait("moving", FALSE)  s17 == Back("negative", TRUE, 6)
<1>1. s16 \in Scripted("Stage") /\ s17 \in Scripted("Stage")
  <2>1. s16 \in Scripted("Stage") /\ s17 \in Scripted("Stage")
    BY AskIs, TestIs, JumpIs, FlagsAre DEF MVP_Status, StatusFlags
  <2> HIDE DEF s16, s17
  <2> QED
    BY <2>1
<1>2. /\ s16.k = "wait" /\ s16.flags = {"moving"} /\ (s16.value = FALSE) /\ s17.k = "back"
      /\ s17.flags = {"negative"} /\ s17.n = 6
  BY DEF Back, Wait, Step
<1> HIDE DEF s16, s17
<1>3. /\ Phase("Stage", 16) = "out" /\ Phase("Stage", 17) = "clear" /\ Phase("Stage", 18) = "clear"
      /\ Phase("Stage", 11) = "still"
  BY DEF Phase, StagePhase
<1>4. Fits("Stage", 16, s16)
  <2>1. ASSUME NEW d \in Sane, NEW data \in [Flags -> BOOLEAN], d.kind = "Stage",
               In("out", d), Extras("Stage", 16, d), Tells("out", data, d), data["moving"] = s16.value
        PROVE  Slides("Stage", 16, 17, d)
    <3>1. "moving" \in DOMAIN data /\ ~data["moving"]
      BY <1>2, <2>1, FlagsAre
    <3>2. In("clear", d)
      BY <2>1, <3>1 DEF In, Tells, Sinks, Sane, HomeAt
    <3> QED
      BY <1>3, <2>1, <3>2 DEF Slides, Extras, Length, Tells
  <2>2. 16 \in Asked("Stage") /\ 16 + 1 = 17 /\ 17 \notin Asked("Stage") /\ "moving" \in Flags
    BY FlagsAre DEF Asked
  <2> QED
    BY <1>1, <1>2, <1>3, <2>1, <2>2, WaitFits
<1>5. Fits("Stage", 17, s17)
  <2>1. ASSUME NEW d \in Sane, d.kind = "Stage", In("clear", d), Extras("Stage", 17, d)
        PROVE  Slides("Stage", 17, 18, d) /\ Slides("Stage", 17, 11, d)
    BY <1>3, <2>1 DEF Slides, In, Sinks, Extras, Length, Tells
  <2>2. 17 + 1 = 18 /\ s17.n < 17 /\ 17 - s17.n = 11 /\ 18 \notin Asked("Stage") /\ 11 \notin Asked("Stage")
    BY <1>2 DEF Asked
  <2> QED
    BY <1>1, <1>2, <1>3, <2>1, <2>2, BackFits
<1>6. IsOut = <<s16, s17>>
  BY DEF IsOut, s16, s17
<1> QED
  BY <1>1, <1>4, <1>5, <1>6 DEF Outlined

\* Slowly back.
LEMMA StageSlowly == Outlined("Stage", 17, 19, SlowlySteps)
<1> DEFINE s18 == Do("SetSpeed", "slow")  s19 == Do("MoveRelative", -Top)
<1>1. s18 \in Scripted("Stage") /\ s19 \in Scripted("Stage")
  <2>1. s18 \in Scripted("Stage")
    BY CallIs DEF GoodCall, MvpOps, StageOps, Speeds
  <2>2. s19 \in Scripted("Stage")
    BY CallIs, MvpAssumption DEF GoodCall, MvpOps, StageOps
  <2> HIDE DEF s18, s19
  <2> QED
    BY <2>1, <2>2
<1>2. /\ s18.k = "do" /\ s18.op = "SetSpeed" /\ s18.arg = "slow" /\ s19.k = "do"
      /\ s19.op = "MoveRelative" /\ s19.arg = -Top
  BY DEF Do, Step
<1> HIDE DEF s18, s19
<1>3. Phase("Stage", 18) = "clear" /\ Phase("Stage", 19) = "ready" /\ Phase("Stage", 20) = "slowly"
  BY DEF Phase, StagePhase
<1>4. Fits("Stage", 18, s18)
  <2>1. CallAt("Stage", 18, s18)
    BY <1>1, <1>2 DEF CallAt, Length, Asked, Plain, MvpOps
  <2>2. ASSUME NEW d \in Sane, NEW e \in Sane, d.kind = "Stage", e.kind = "Stage",
               In("clear", d), Extras("Stage", 18, d), Effected("SetSpeed", s18.arg, d, e)
        PROVE  In("ready", e) /\ Extras("Stage", 19, e)
               /\ \A f : Tells("clear", f, d) => Tells("ready", f, e)
    BY <1>2, <2>2 DEF Effected, In, Sinks, Extras, Length, Tells, Edge, Mark, HomeAt
  <2> QED
    BY <1>2, <1>3, <2>1, <2>2, CallFits
<1>5. Fits("Stage", 19, s19)
  <2>1. CallAt("Stage", 19, s19)
    BY <1>1, <1>2 DEF CallAt, Length, Asked, Plain, MvpOps
  <2>2. ASSUME NEW d \in Sane, NEW e \in Sane, d.kind = "Stage", e.kind = "Stage",
               In("ready", d), Extras("Stage", 19, d), Effected("MoveRelative", s19.arg, d, e)
        PROVE  In("slowly", e) /\ Extras("Stage", 20, e)
    <3>1. d.at \in 0 .. Top /\ Top \in Nat /\ Top >= 3 /\ d.moving \in BOOLEAN /\ d.enabled
      BY <2>2, MvpAssumption DEF Sane, Motor, Extras, Length
    <3>2. In("slowly", e)
      BY <1>2, <2>2, <3>1 DEF Effected, In, Sinks, Refused, Aim, Edge, Mark, HomeAt
    <3>3. (e.enabled <=> d.enabled) /\ e.zero = d.zero /\ e.speed = d.speed /\ (e.trigger <=> d.trigger)
      BY <2>2 DEF Effected
    <3> QED
      BY <2>2, <3>2, <3>3 DEF Extras, Length
  <2> QED
    BY <1>2, <1>3, <2>1, <2>2, CallFits
<1>6. SlowlySteps = <<s18, s19>>
  BY DEF SlowlySteps, s18, s19
<1> QED
  BY <1>1, <1>4, <1>5, <1>6 DEF Outlined

\* At the edge of the switch, where zero is set.
LEMMA StageAtEdge == Outlined("Stage", 23, 25, AtEdge)
<1> DEFINE s24 == Wait("negative", TRUE)  s25 == Do("SetZero", 0)
<1>1. s24 \in Scripted("Stage") /\ s25 \in Scripted("Stage")
  <2>1. s25 \in Scripted("Stage")
    BY CallIs DEF GoodCall, MvpOps, StageOps
  <2>2. s24 \in Scripted("Stage")
    BY AskIs, TestIs, JumpIs, FlagsAre DEF MVP_Status, StatusFlags
  <2> HIDE DEF s24, s25
  <2> QED
    BY <2>1, <2>2
<1>2. /\ s24.k = "wait" /\ s24.flags = {"negative"} /\ (s24.value = TRUE) /\ s25.k = "do"
      /\ s25.op = "SetZero" /\ s25.arg = 0
  BY DEF Do, Wait, Step
<1> HIDE DEF s24, s25
<1>3. Phase("Stage", 24) = "slowly" /\ Phase("Stage", 25) = "edge" /\ Phase("Stage", 26) = "edge"
  BY DEF Phase, StagePhase
<1>4. Fits("Stage", 24, s24)
  <2>1. ASSUME NEW d \in Sane, NEW data \in [Flags -> BOOLEAN], d.kind = "Stage",
               In("slowly", d), Extras("Stage", 24, d), Tells("slowly", data, d), data["negative"] = s24.value
        PROVE  Slides("Stage", 24, 25, d)
    <3>1. "negative" \in DOMAIN data /\ data["negative"]
      BY <1>2, <2>1, FlagsAre
    <3>2. In("edge", d)
      BY <2>1, <3>1 DEF In, Tells, Sinks, Sane, HomeAt
    <3> QED
      BY <1>3, <2>1, <3>2 DEF Slides, Extras, Length, Tells
  <2>2. 24 \in Asked("Stage") /\ 24 + 1 = 25 /\ 25 \notin Asked("Stage") /\ "negative" \in Flags
    BY FlagsAre DEF Asked
  <2> QED
    BY <1>1, <1>2, <1>3, <2>1, <2>2, WaitFits
<1>5. Fits("Stage", 25, s25)
  <2>1. CallAt("Stage", 25, s25)
    BY <1>1, <1>2 DEF CallAt, Length, Asked, Plain, MvpOps
  <2>2. ASSUME NEW d \in Sane, NEW e \in Sane, d.kind = "Stage", e.kind = "Stage",
               In("edge", d), Extras("Stage", 25, d), Effected("SetZero", s25.arg, d, e)
        PROVE  In("edge", e) /\ Extras("Stage", 26, e)
               /\ \A f : Tells("edge", f, d) => Tells("edge", f, e)
    BY <1>2, <2>2 DEF Effected, In, Sinks, Extras, Length, Tells, Edge, Mark, HomeAt
  <2> QED
    BY <1>2, <1>3, <2>1, <2>2, CallFits
<1>6. AtEdge = <<s24, s25>>
  BY DEF AtEdge, s24, s25
<1> QED
  BY <1>1, <1>4, <1>5, <1>6 DEF Outlined

\* From the edge to home.
LEMMA StageBack == Outlined("Stage", 25, 27, BackSteps)
<1> DEFINE s26 == Do("SetSpeed", "default")  s27 == Do("MoveRelative", HomeAt("Stage") - Edge)
<1>1. s26 \in Scripted("Stage") /\ s27 \in Scripted("Stage")
  <2>1. s26 \in Scripted("Stage")
    BY CallIs DEF GoodCall, MvpOps, StageOps, Speeds
  <2>2. s27 \in Scripted("Stage")
    BY CallIs DEF GoodCall, MvpOps, StageOps, HomeAt, Edge, Mark
  <2> HIDE DEF s26, s27
  <2> QED
    BY <2>1, <2>2
<1>2. /\ s26.k = "do" /\ s26.op = "SetSpeed" /\ s26.arg = "default" /\ s27.k = "do"
      /\ s27.op = "MoveRelative" /\ s27.arg = HomeAt("Stage") - Edge
  BY DEF Do, Step
<1> HIDE DEF s26, s27
<1>3. Phase("Stage", 26) = "edge" /\ Phase("Stage", 27) = "edge" /\ Phase("Stage", 28) = "back"
  BY DEF Phase, StagePhase
<1>4. Fits("Stage", 26, s26)
  <2>1. CallAt("Stage", 26, s26)
    BY <1>1, <1>2 DEF CallAt, Length, Asked, Plain, MvpOps
  <2>2. ASSUME NEW d \in Sane, NEW e \in Sane, d.kind = "Stage", e.kind = "Stage",
               In("edge", d), Extras("Stage", 26, d), Effected("SetSpeed", s26.arg, d, e)
        PROVE  In("edge", e) /\ Extras("Stage", 27, e)
               /\ \A f : Tells("edge", f, d) => Tells("edge", f, e)
    BY <1>2, <2>2 DEF Effected, In, Sinks, Extras, Length, Tells, Edge, Mark, HomeAt
  <2> QED
    BY <1>2, <1>3, <2>1, <2>2, CallFits
<1>5. Fits("Stage", 27, s27)
  <2>1. CallAt("Stage", 27, s27)
    BY <1>1, <1>2 DEF CallAt, Length, Asked, Plain, MvpOps
  <2>2. ASSUME NEW d \in Sane, NEW e \in Sane, d.kind = "Stage", e.kind = "Stage",
               In("edge", d), Extras("Stage", 27, d), Effected("MoveRelative", s27.arg, d, e)
        PROVE  In("back", e) /\ Extras("Stage", 28, e)
    <3>1. d.at \in 0 .. Top /\ Top \in Nat /\ Top >= 3 /\ d.moving \in BOOLEAN /\ d.enabled
      BY <2>2, MvpAssumption DEF Sane, Motor, Extras, Length
    <3>2. In("back", e)
      BY <1>2, <2>2, <3>1 DEF Effected, In, Sinks, Refused, Aim, Edge, Mark, HomeAt
    <3>3. (e.enabled <=> d.enabled) /\ e.zero = d.zero /\ e.speed = d.speed /\ (e.trigger <=> d.trigger)
      BY <2>2 DEF Effected
    <3> QED
      BY <2>2, <3>2, <3>3 DEF Extras, Length
  <2> QED
    BY <1>2, <1>3, <2>1, <2>2, CallFits
<1>6. BackSteps = <<s26, s27>>
  BY DEF BackSteps, s26, s27
<1> QED
  BY <1>1, <1>4, <1>5, <1>6 DEF Outlined

\* At home, where homing is declared.
LEMMA StageAtHome == Outlined("Stage", 31, 34, AtHome)
<1> DEFINE s32 == Wait("moving", FALSE)  s33 == Try("SetHomeFlag", TRUE)  s34 == Try("DI", 0)
<1>1. s32 \in Scripted("Stage") /\ s33 \in Scripted("Stage") /\ s34 \in Scripted("Stage")
  <2>1. s34 \in Scripted("Stage")
    BY CallIs DEF GoodCall, MvpOps, StageOps
  <2>2. s33 \in Scripted("Stage")
    BY DEF Do, Undo, Try, Step, Scripted, Steps, StepKinds, MvpOps, StageOps, GoodCall, Asks
  <2>3. s32 \in Scripted("Stage")
    BY AskIs, TestIs, JumpIs, FlagsAre DEF MVP_Status, StatusFlags
  <2> HIDE DEF s32, s33, s34
  <2> QED
    BY <2>1, <2>2, <2>3
<1>2. /\ s32.k = "wait" /\ s32.flags = {"moving"} /\ (s32.value = FALSE) /\ s33.k = "try"
      /\ s33.op = "SetHomeFlag" /\ (s33.arg = TRUE) /\ s34.k = "try" /\ s34.op = "DI" /\ s34.arg = 0
  BY DEF Try, Wait, Step
<1> HIDE DEF s32, s33, s34
<1>3. /\ Phase("Stage", 32) = "back" /\ Phase("Stage", 33) = "home" /\ Phase("Stage", 34) = "home"
      /\ Phase("Stage", 35) = "home"
  BY DEF Phase, StagePhase
<1>4. Fits("Stage", 33, s33)
  <2>1. Calm("Stage", 33, s33)
    BY <1>1, <1>2, <1>3 DEF Calm, Level, Length, Asked, Quiet
  <2> QED
    BY <2>1, CalmFits
<1>5. Fits("Stage", 32, s32)
  <2>1. ASSUME NEW d \in Sane, NEW data \in [Flags -> BOOLEAN], d.kind = "Stage",
               In("back", d), Extras("Stage", 32, d), Tells("back", data, d), data["moving"] = s32.value
        PROVE  Slides("Stage", 32, 33, d)
    <3>1. "moving" \in DOMAIN data /\ ~data["moving"]
      BY <1>2, <2>1, FlagsAre
    <3>2. In("home", d)
      BY <2>1, <3>1 DEF In, Tells, Sinks, Sane, HomeAt
    <3> QED
      BY <1>3, <2>1, <3>2 DEF Slides, Extras, Length, Tells
  <2>2. 32 \in Asked("Stage") /\ 32 + 1 = 33 /\ 33 \notin Asked("Stage") /\ "moving" \in Flags
    BY FlagsAre DEF Asked
  <2> QED
    BY <1>1, <1>2, <1>3, <2>1, <2>2, WaitFits
<1>6. Fits("Stage", 34, s34)
  BY <1>1, <1>2, DriveOffFits
<1>7. AtHome = <<s32, s33, s34>>
  BY DEF AtHome, s32, s33, s34
<1> QED
  BY <1>1, <1>4, <1>5, <1>6, <1>7 DEF Outlined

\* The flags of the stage are asked for one after the other.
LEMMA StageAsks ==
  \A from \in {5, 11, 19, 27} : Outlined("Stage", from, from + 4, Stage_Status)
<1> SUFFICES ASSUME NEW from \in {5, 11, 19, 27}
             PROVE  Outlined("Stage", from, from + 4, Stage_Status)
  OBVIOUS
<1> DEFINE a == GetTry("Status", {"enabled"}, 3)  b == GetTry("Status", {"moving"}, 2)
           c == GetTry("Status", {"negative"}, 1)  g == GetTry("Status", {"home"}, 0)
<1>1. /\ a \in Scripted("Stage") /\ b \in Scripted("Stage") /\ c \in Scripted("Stage")
      /\ g \in Scripted("Stage")
  BY AskIs, FlagsAre
<1>2. /\ a.k = "gettry" /\ b.k = "gettry" /\ b.flags = {"moving"}
      /\ c.k = "gettry" /\ c.flags = {"negative"} /\ g.k = "gettry"
  BY DEF GetTry, Step
<1> HIDE DEF a, b, c, g
<1>3. PICK p : /\ p = IF from = 5 THEN "down" ELSE IF from = 11 THEN "out"
                        ELSE IF from = 19 THEN "slowly" ELSE "back"
               /\ Phase("Stage", from + 1) = p /\ Phase("Stage", from + 2) = p
               /\ Phase("Stage", from + 3) = p /\ Phase("Stage", from + 4) = p
               /\ Phase("Stage", from + 5) = p
  BY DEF Phase, StagePhase
<1>4. AskedAt("Stage", from + 1, a)
  BY <1>1, <1>2, <1>3 DEF AskedAt, Level, Length, Asked, Watched
<1>5. AskedAt("Stage", from + 2, b)
  BY <1>1, <1>2, <1>3 DEF AskedAt, Level, Length, Asked, Watched
<1>6. AskedAt("Stage", from + 3, c)
  BY <1>1, <1>2, <1>3 DEF AskedAt, Level, Length, Asked, Watched
<1>7. AskedAt("Stage", from + 4, g)
  BY <1>1, <1>2, <1>3 DEF AskedAt, Level, Length, Asked, Watched
<1>8. /\ Fits("Stage", from + 1, a) /\ Fits("Stage", from + 2, b)
      /\ Fits("Stage", from + 3, c) /\ Fits("Stage", from + 4, g)
  BY <1>4, <1>5, <1>6, <1>7, AskedFits
<1>9. Stage_Status = <<a, b, c, g>>
  BY DEF Stage_Status, a, b, c, g
<1> QED
  BY <1>1, <1>8, <1>9 DEF Outlined
-----------------------------------------------------------------------------
(* No step leads out of a script                                           *)

\* A step that goes on no more than room steps beyond the next, and ends no turn.
Stays(s, room) ==
  /\ s.k \notin {"turn", "getturn"}
  /\ s.k \in {"gettry", "skip", "sometimes"} => s.n <= room

\* A script whose steps all lead into it, or to its end.
Inside(script) == \A i \in 1 .. Len(script) : Stays(script[i], Len(script) - i)

\* A script of a few steps.
LEMMA ShortInside ==
  \A a, b, c, d :
    /\ Stays(a, 0) => Inside(<<a>>)
    /\ Stays(a, 1) /\ Stays(b, 0) => Inside(<<a, b>>)
    /\ Stays(a, 2) /\ Stays(b, 1) /\ Stays(c, 0) => Inside(<<a, b, c>>)
    /\ Stays(a, 3) /\ Stays(b, 2) /\ Stays(c, 1) /\ Stays(d, 0) => Inside(<<a, b, c, d>>)
BY DEF Inside

\* Two steps and three are five.
LEMMA TwoAndThree ==
  ASSUME NEW x, NEW y, NEW a, NEW b, NEW c
  PROVE  <<x, y>> \o <<a, b, c>> = <<x, y, a, b, c>>
<1> DEFINE S == {x, y, a, b, c}  s == <<x, y>>  t == <<a, b, c>>  u == <<x, y, a, b, c>>
<1>1. x \in S /\ y \in S /\ a \in S /\ b \in S /\ c \in S
  OBVIOUS
<1> HIDE DEF S
<1>2. s \in Seq(S) /\ t \in Seq(S) /\ u \in Seq(S) /\ Len(s) = 2 /\ Len(t) = 3 /\ Len(u) = 5
  BY <1>1
<1>3. s \o t \in Seq(S) /\ Len(s \o t) = 5
  BY <1>2, ConcatProperties
<1>4. \A i \in 1 .. 5 : (s \o t)[i] = u[i]
  BY <1>2, ConcatProperties
<1> QED
  BY <1>2, <1>3, <1>4, SeqEqual

\* A script of some more.
LEMMA LongInside ==
  \A a, b, c, d, e, f, g, h :
    /\ Stays(a, 4) /\ Stays(b, 3) /\ Stays(c, 2) /\ Stays(d, 1) /\ Stays(e, 0)
         => Inside(<<a, b, c, d, e>>)
    /\ Stays(a, 5) /\ Stays(b, 4) /\ Stays(c, 3) /\ Stays(d, 2) /\ Stays(e, 1) /\ Stays(f, 0)
         => Inside(<<a, b, c, d, e, f>>)
    /\ Stays(a, 6) /\ Stays(b, 5) /\ Stays(c, 4) /\ Stays(d, 3) /\ Stays(e, 2) /\ Stays(f, 1)
         /\ Stays(g, 0) => Inside(<<a, b, c, d, e, f, g>>)
    /\ Stays(a, 7) /\ Stays(b, 6) /\ Stays(c, 5) /\ Stays(d, 4) /\ Stays(e, 3) /\ Stays(f, 2)
         /\ Stays(g, 1) /\ Stays(h, 0) => Inside(<<a, b, c, d, e, f, g, h>>)
BY DEF Inside

\* The parts of homing the fold mirror.
LEMMA FsmInside ==
  /\ Inside(Home_Prepare)
  /\ Inside(FSM_ToLimit)
  /\ Inside(FSM_OutOfLimit)
  /\ Inside(FSM_Approach)
  /\ Inside(FSM_Offset)
  /\ Inside(LastStep)
<1>1. Inside(Home_Prepare)
  <2>1. /\ Stays(Do("SetHomeFlag", FALSE), 4) /\ Stays(Do("MoveRelative", 0), 3)
        /\ Stays(Do("EN", 0), 2) /\ Stays(GetDo("Status", StatusFlags), 1)
        /\ Stays(Expect("enabled", TRUE), 0)
    BY DEF Stays, Step, Do, Undo, Try, GetDo, GetTry, MVP_Status, Expect, Skip, Back, Wait, WaitUndo
  <2>2. Home_Prepare = <<Do("SetHomeFlag", FALSE), Do("MoveRelative", 0), Do("EN", 0),
                         GetDo("Status", StatusFlags), Expect("enabled", TRUE)>>
    BY TwoAndThree DEF Home_Prepare, MVP_Enable
  <2> QED
    BY <2>1, <2>2, LongInside
<1>2. Inside(FSM_ToLimit)
  <2>1. /\ Stays(Do("SetAccel", 0), 5) /\ Stays(Skip("negative", TRUE, 2), 4)
        /\ Stays(Do("SetSpeed", "fast"), 3) /\ Stays(Do("MoveRelative", -Top), 2)
        /\ Stays(MVP_Status, 1) /\ Stays(Wait("negative", TRUE), 0)
    BY DEF Stays, Step, Do, Undo, Try, GetDo, GetTry, MVP_Status, Expect, Skip, Back, Wait, WaitUndo
  <2> QED
    BY <2>1, LongInside DEF FSM_ToLimit
<1>3. Inside(FSM_OutOfLimit)
  <2>1. /\ Stays(Do("SetSpeed", "fast"), 4) /\ Stays(Do("MoveRelative", 1), 3)
        /\ Stays(MVP_Status, 2) /\ Stays(Wait("moving", FALSE), 1)
        /\ Stays(Back("negative", TRUE, 3), 0)
    BY DEF Stays, Step, Do, Undo, Try, GetDo, GetTry, MVP_Status, Expect, Skip, Back, Wait, WaitUndo
  <2> QED
    BY <2>1, LongInside DEF FSM_OutOfLimit
<1>4. Inside(FSM_Approach)
  <2>1. /\ Stays(Do("SetSpeed", "slow"), 5) /\ Stays(Do("SetAccel", 0), 4)
        /\ Stays(Do("MoveRelative", -Top), 3) /\ Stays(MVP_Status, 2)
        /\ Stays(Wait("negative", TRUE), 1) /\ Stays(Do("SetZero", 0), 0)
    BY DEF Stays, Step, Do, Undo, Try, GetDo, GetTry, MVP_Status, Expect, Skip, Back, Wait, WaitUndo
  <2> QED
    BY <2>1, LongInside DEF FSM_Approach
<1>5. Inside(FSM_Offset)
  <2>1. /\ Stays(Do("SetSpeed", "default"), 6) /\ Stays(Do("SetAccel", 0), 5)
        /\ Stays(Do("MoveRelative", HomeAt("FSM") - Edge), 4) /\ Stays(MVP_Status, 3)
        /\ Stays(Wait("moving", FALSE), 2) /\ Stays(Do("SetZero", 0), 1)
        /\ Stays(Do("SetHomeFlag", TRUE), 0)
    BY DEF Stays, Step, Do, Undo, Try, GetDo, GetTry, MVP_Status, Expect, Skip, Back, Wait, WaitUndo
  <2> QED
    BY <2>1, LongInside DEF FSM_Offset
<1>6. Inside(LastStep)
  <2>1. Stays(Do("SetSpeed", "default"), 0)
    BY DEF Stays, Step, Do, Undo, Try, GetDo, GetTry, MVP_Status, Expect, Skip, Back, Wait, WaitUndo
  <2> QED
    BY <2>1, ShortInside DEF LastStep
<1> QED
  BY <1>1, <1>2, <1>3, <1>4, <1>5, <1>6

\* The parts of homing the parabola.
LEMMA OapInside ==
  /\ Inside(OAP_BelowMark)
  /\ Inside(OAP_ToMark)
  /\ Inside(OAP_Offset)
<1>1. Inside(OAP_BelowMark)
  <2>1. /\ Stays(Do("SetAccel", 0), 6) /\ Stays(Skip("event_2", FALSE, 2), 5)
        /\ Stays(Do("SetSpeed", "fast"), 4) /\ Stays(Undo("MoveRelative", -Top), 3)
        /\ Stays(MVP_Status, 2) /\ Stays(WaitUndo("event_2", FALSE), 1) /\ Stays(Undo("Abort", 0), 0)
    BY DEF Stays, Step, Do, Undo, Try, GetDo, GetTry, MVP_Status, Expect, Skip, Back, Wait, WaitUndo
  <2> QED
    BY <2>1, LongInside DEF OAP_BelowMark
<1>2. Inside(OAP_ToMark)
  <2>1. /\ Stays(Undo("SetSpeed", "default"), 5) /\ Stays(Do("SetHomeTrigger", TRUE), 4)
        /\ Stays(Do("HardStop", 0), 3) /\ Stays(Do("MoveRelative", Top), 2) /\ Stays(MVP_Status, 1)
        /\ Stays(Wait("event_2", TRUE), 0)
    BY DEF Stays, Step, Do, Undo, Try, GetDo, GetTry, MVP_Status, Expect, Skip, Back, Wait, WaitUndo
  <2> QED
    BY <2>1, LongInside DEF OAP_ToMark
<1>3. Inside(OAP_Offset)
  <2>1. /\ Stays(Undo("SetHomeTrigger", FALSE), 7) /\ Stays(Undo("SetZero", 0), 6)
        /\ Stays(Undo("SetSpeed", "fast"), 5) /\ Stays(Do("MoveRelative", HomeAt("OAP") - Mark), 4)
        /\ Stays(MVP_Status, 3) /\ Stays(WaitUndo("moving", FALSE), 2)
        /\ Stays(Undo("SetZero", 0), 1) /\ Stays(Undo("SetHomeFlag", TRUE), 0)
    BY DEF Stays, Step, Do, Undo, Try, GetDo, GetTry, MVP_Status, Expect, Skip, Back, Wait, WaitUndo
  <2> QED
    BY <2>1, LongInside DEF OAP_Offset
<1> QED
  BY <1>1, <1>2, <1>3

\* The parts of homing a stage.
LEMMA StageInside ==
  /\ Inside(Stage_Status)
  /\ Inside(DownSteps)
  /\ Inside(AtLimit)
  /\ Inside(OutSteps)
  /\ Inside(IsOut)
  /\ Inside(SlowlySteps)
  /\ Inside(AtEdge)
  /\ Inside(BackSteps)
  /\ Inside(AtHome)
<1>1. Inside(Stage_Status)
  <2>1. /\ Stays(GetTry("Status", {"enabled"}, 3), 3) /\ Stays(GetTry("Status", {"moving"}, 2), 2)
        /\ Stays(GetTry("Status", {"negative"}, 1), 1) /\ Stays(GetTry("Status", {"home"}, 0), 0)
    BY DEF Stays, Step, Do, Undo, Try, GetDo, GetTry, MVP_Status, Expect, Skip, Back, Wait, WaitUndo
  <2> QED
    BY <2>1, ShortInside DEF Stage_Status
<1>2. Inside(DownSteps)
  <2>1. /\ Stays(Try("SetHomeFlag", FALSE), 4) /\ Stays(Try("EN", 0), 3)
        /\ Stays(Do("SetSpeed", "default"), 2) /\ Stays(Skip("negative", TRUE, 1), 1)
        /\ Stays(Do("MoveRelative", -Top), 0)
    BY DEF Stays, Step, Do, Undo, Try, GetDo, GetTry, MVP_Status, Expect, Skip, Back, Wait, WaitUndo
  <2> QED
    BY <2>1, LongInside DEF DownSteps
<1>3. Inside(AtLimit)
  <2>1. Stays(Wait("negative", TRUE), 0)
    BY DEF Stays, Step, Do, Undo, Try, GetDo, GetTry, MVP_Status, Expect, Skip, Back, Wait, WaitUndo
  <2> QED
    BY <2>1, ShortInside DEF AtLimit
<1>4. Inside(OutSteps)
  <2>1. Stays(Do("MoveRelative", 1), 0)
    BY DEF Stays, Step, Do, Undo, Try, GetDo, GetTry, MVP_Status, Expect, Skip, Back, Wait, WaitUndo
  <2> QED
    BY <2>1, ShortInside DEF OutSteps
<1>5. Inside(IsOut)
  <2>1. /\ Stays(Wait("moving", FALSE), 1) /\ Stays(Back("negative", TRUE, 6), 0)
    BY DEF Stays, Step, Do, Undo, Try, GetDo, GetTry, MVP_Status, Expect, Skip, Back, Wait, WaitUndo
  <2> QED
    BY <2>1, ShortInside DEF IsOut
<1>6. Inside(SlowlySteps)
  <2>1. /\ Stays(Do("SetSpeed", "slow"), 1) /\ Stays(Do("MoveRelative", -Top), 0)
    BY DEF Stays, Step, Do, Undo, Try, GetDo, GetTry, MVP_Status, Expect, Skip, Back, Wait, WaitUndo
  <2> QED
    BY <2>1, ShortInside DEF SlowlySteps
<1>7. Inside(AtEdge)
  <2>1. /\ Stays(Wait("negative", TRUE), 1) /\ Stays(Do("SetZero", 0), 0)
    BY DEF Stays, Step, Do, Undo, Try, GetDo, GetTry, MVP_Status, Expect, Skip, Back, Wait, WaitUndo
  <2> QED
    BY <2>1, ShortInside DEF AtEdge
<1>8. Inside(BackSteps)
  <2>1. /\ Stays(Do("SetSpeed", "default"), 1)
        /\ Stays(Do("MoveRelative", HomeAt("Stage") - Edge), 0)
    BY DEF Stays, Step, Do, Undo, Try, GetDo, GetTry, MVP_Status, Expect, Skip, Back, Wait, WaitUndo
  <2> QED
    BY <2>1, ShortInside DEF BackSteps
<1>9. Inside(AtHome)
  <2>1. /\ Stays(Wait("moving", FALSE), 2) /\ Stays(Try("SetHomeFlag", TRUE), 1)
        /\ Stays(Try("DI", 0), 0)
    BY DEF Stays, Step, Do, Undo, Try, GetDo, GetTry, MVP_Status, Expect, Skip, Back, Wait, WaitUndo
  <2> QED
    BY <2>1, ShortInside DEF AtHome
<1> QED
  BY <1>1, <1>2, <1>3, <1>4, <1>5, <1>6, <1>7, <1>8, <1>9

\* A part of homing that is outlined, and leads nowhere else.
Laid(k, from, to, part) == Outlined(k, from, to, part) /\ Inside(part)

\* Two such parts that meet make one.
LEMMA LaidOn ==
  ASSUME NEW k, NEW from, NEW mid, NEW to, NEW a, NEW b, Laid(k, from, mid, a), Laid(k, mid, to, b)
  PROVE  Laid(k, from, to, a \o b)
<1>1. Outlined(k, from, to, a \o b)
  BY OutlinedOn DEF Laid
<1>2. a \in Seq(Scripted(k)) /\ b \in Seq(Scripted(k)) /\ Len(a) \in Nat /\ Len(b) \in Nat
  BY DEF Laid, Outlined
<1>3. Len(a \o b) = Len(a) + Len(b)
  BY <1>2
<1>4. ASSUME NEW i \in 1 .. Len(a) + Len(b)
      PROVE  Stays((a \o b)[i], Len(a) + Len(b) - i)
  <2>1. (a \o b)[i] = IF i <= Len(a) THEN a[i] ELSE b[i - Len(a)]
    BY <1>2, ConcatProperties
  <2>2. CASE i <= Len(a)
    <3>1. i \in 1 .. Len(a) /\ a[i] \in Scripted(k)
      BY <1>2, <2>2
    <3>3. a[i].n \in Nat
      BY <3>1 DEF Scripted, Steps
    <3>2. Stays(a[i], Len(a) - i)
      BY <3>1 DEF Laid, Inside
    <3> QED
      BY <1>2, <2>1, <2>2, <3>1, <3>2, <3>3 DEF Stays
  <2>3. CASE i > Len(a)
    <3>1. i - Len(a) \in 1 .. Len(b) /\ Len(b) - (i - Len(a)) = Len(a) + Len(b) - i
      BY <1>2, <2>3
    <3> QED
      BY <1>2, <2>1, <2>3, <3>1 DEF Laid, Inside
  <2> QED
    BY <1>2, <2>2, <2>3
<1> QED
  BY <1>1, <1>3, <1>4 DEF Laid, Inside

-----------------------------------------------------------------------------
(* Every script of homing, from its beginning to its end                   *)

LEMMA FsmFits == Laid("FSM", 0, 30, MVP_Home("FSM"))
<1> DEFINE a == FSM_ToLimit \o FSM_OutOfLimit
           b == a \o FSM_Approach
           c == b \o FSM_Offset
           h == Home_Prepare \o c
<1>1. Laid("FSM", 5, 16, a)
  BY LaidOn, FsmToLimit, FsmOutOfLimit, FsmInside DEF Laid
<1> HIDE DEF a
<1>2. Laid("FSM", 5, 22, b)
  BY <1>1, LaidOn, FsmApproach, FsmInside DEF Laid
<1> HIDE DEF b
<1>3. Laid("FSM", 5, 29, c)
  BY <1>2, LaidOn, FsmOffset, FsmInside DEF Laid
<1> HIDE DEF c
<1>4. Laid("FSM", 0, 29, h)
  BY <1>3, LaidOn, PrepareFits, FsmInside DEF Laid
<1> HIDE DEF h
<1>5. MVP_Home("FSM") = h \o LastStep
  BY DEF MVP_Home, LastStep, a, b, c, h
<1> QED
  BY <1>4, <1>5, LaidOn, FsmLast, FsmInside DEF Laid

\* The whole of homing the off-axis parabola.
LEMMA OapFits == Laid("OAP", 0, 27, MVP_Home("OAP"))
<1> DEFINE a == OAP_BelowMark \o OAP_ToMark
           b == a \o OAP_Offset
           h == Home_Prepare \o b
<1>1. Laid("OAP", 5, 18, a)
  BY LaidOn, OapBelowMark, OapToMark, OapInside, FsmInside DEF Laid
<1> HIDE DEF a
<1>2. Laid("OAP", 5, 26, b)
  BY <1>1, LaidOn, OapOffset, OapInside, FsmInside DEF Laid
<1> HIDE DEF b
<1>3. Laid("OAP", 0, 26, h)
  BY <1>2, LaidOn, PrepareFits, FsmInside DEF Laid
<1> HIDE DEF h
<1>4. MVP_Home("OAP") = h \o LastStep
  BY DEF MVP_Home, LastStep, a, b, h
<1> QED
  BY <1>3, <1>4, LaidOn, OapLast, OapInside, FsmInside DEF Laid

\* The whole of homing a stage.
LEMMA StageFits == Laid("Stage", 0, 34, Stage_Home)
<1>1. Laid("Stage", 0, 10, Stage_ToLimit)
  <2> DEFINE a == DownSteps \o Stage_Status
  <2>1. Laid("Stage", 0, 9, a)
    BY LaidOn, StageDown, StageAsks, StageInside DEF Laid
  <2> HIDE DEF a
  <2>2. Stage_ToLimit = a \o AtLimit
    BY DEF Stage_ToLimit, DownSteps, AtLimit, a
  <2> QED
    BY <2>1, <2>2, LaidOn, StageAtLimit, StageInside DEF Laid
<1>2. Laid("Stage", 10, 17, Stage_OutOfLimit)
  <2> DEFINE a == OutSteps \o Stage_Status
  <2>1. Laid("Stage", 10, 15, a)
    BY LaidOn, StageOut, StageAsks, StageInside DEF Laid
  <2> HIDE DEF a
  <2>2. Stage_OutOfLimit = a \o IsOut
    BY DEF Stage_OutOfLimit, OutSteps, IsOut, a
  <2> QED
    BY <2>1, <2>2, LaidOn, StageIsOut, StageInside DEF Laid
<1>3. Laid("Stage", 17, 25, Stage_Approach)
  <2> DEFINE a == SlowlySteps \o Stage_Status
  <2>1. Laid("Stage", 17, 23, a)
    BY LaidOn, StageSlowly, StageAsks, StageInside DEF Laid
  <2> HIDE DEF a
  <2>2. Stage_Approach = a \o AtEdge
    BY DEF Stage_Approach, SlowlySteps, AtEdge, a
  <2> QED
    BY <2>1, <2>2, LaidOn, StageAtEdge, StageInside DEF Laid
<1>4. Laid("Stage", 25, 34, Stage_Offset)
  <2> DEFINE a == BackSteps \o Stage_Status
  <2>1. Laid("Stage", 25, 31, a)
    BY LaidOn, StageBack, StageAsks, StageInside DEF Laid
  <2> HIDE DEF a
  <2>2. Stage_Offset = a \o AtHome
    BY DEF Stage_Offset, BackSteps, AtHome, a
  <2> QED
    BY <2>1, <2>2, LaidOn, StageAtHome, StageInside DEF Laid
<1> DEFINE a == Stage_ToLimit \o Stage_OutOfLimit
           b == a \o Stage_Approach
<1>5. Laid("Stage", 0, 17, a)
  BY <1>1, <1>2, LaidOn
<1> HIDE DEF a
<1>6. Laid("Stage", 0, 25, b)
  BY <1>3, <1>5, LaidOn
<1> HIDE DEF b
<1>7. Stage_Home = b \o Stage_Offset
  BY DEF Stage_Home, a, b
<1> QED
  BY <1>4, <1>6, <1>7, LaidOn
-----------------------------------------------------------------------------
(* What the threads may have to run                                        *)

LEMMA KindIs == ASSUME NEW k \in Kinds PROVE k \in {"FSM", "OAP", "Stage"}
BY MotorsAssumption

\* Whatever the motor, what the homing thread runs is what the outline is of.
LEMMA HomeText == ASSUME NEW k \in Kinds PROVE Outlined(k, 0, Length(k), Text[k]["home"])
<1>1. Text[k]["home"] = IF k = "Stage" THEN Stage_Home ELSE MVP_Home(k)
  BY DEF Text
<1>2. k = "FSM" \/ k = "OAP" \/ k = "Stage"
  BY KindIs
<1> QED
  BY <1>1, <1>2, FsmFits, OapFits, StageFits DEF Length, Laid

\* Nor does it lead out of that.
LEMMA HomeInside == ASSUME NEW k \in Kinds PROVE Inside(Text[k]["home"])
<1>1. Text[k]["home"] = IF k = "Stage" THEN Stage_Home ELSE MVP_Home(k)
  BY DEF Text
<1>2. k = "FSM" \/ k = "OAP" \/ k = "Stage"
  BY KindIs
<1> QED
  BY <1>1, <1>2, FsmFits, OapFits, StageFits DEF Laid

\* What a script may hold: calls that are well made, and no jump before its beginning.
GoodScript(k, script) ==
  /\ script \in Seq(Scripted(k))
  /\ \A i \in 1 .. Len(script) : script[i].k = "back" => script[i].n < i

\* The steps only the looper has.
LEMMA SomeTurns ==
  \A k : /\ Turn("Position") \in Scripted(k) /\ Sometimes(1) \in Scripted(k)
         /\ \A flags \in SUBSET Flags : GetTurn("Status", flags) \in Scripted(k)
<1> SUFFICES ASSUME NEW k, NEW flags \in SUBSET Flags
             PROVE  /\ Turn("Position") \in Scripted(k) /\ Sometimes(1) \in Scripted(k)
                    /\ GetTurn("Status", flags) \in Scripted(k)
  OBVIOUS
<1>1. Turn("Position") \in Steps /\ Turn("Position").k = "turn" /\ Turn("Position").op = "Position"
  BY DEF Turn, Step, Steps, StepKinds, MvpOps
<1>2. Sometimes(1) \in Steps /\ Sometimes(1).k = "sometimes"
  BY DEF Sometimes, Step, Steps, StepKinds
<1>3. GetTurn("Status", flags) \in Steps /\ GetTurn("Status", flags).k = "getturn"
      /\ GetTurn("Status", flags).op = "Status"
  BY DEF GetTurn, Step, Steps, StepKinds, MvpOps
<1>4. GoodCall(k, "Position", 0) /\ Turn("Position").arg = 0
  BY DEF GoodCall, MvpOps, StageOps, Turn, Step
<1> QED
  BY <1>1, <1>2, <1>3, <1>4 DEF Scripted, Asks

\* The looper only asks.
Looks(s) ==
  s.k \in {"turn", "getturn", "sometimes"} /\ (s.k # "sometimes" => s.op \in {"Position", "Status"})

\* The looper asks for flags and the position, and never moves the motor.
LEMMA LooperText ==
  ASSUME NEW k \in Kinds
  PROVE  /\ GoodScript(k, Text[k]["looper"])
         /\ \A i \in 1 .. Len(Text[k]["looper"]) : Looks(Text[k]["looper"][i])
         /\ \A i \in 1 .. Len(Text[k]["looper"]) :
              Text[k]["looper"][i].k = "sometimes"
                => i + Text[k]["looper"][i].n <= Len(Text[k]["looper"])
<1> DEFINE a == Turn("Position")  b == GetTurn("Status", StatusFlags)  c == Sometimes(1)
           e == GetTurn("Status", {"enabled"})  m == GetTurn("Status", {"moving"})
           g == GetTurn("Status", {"negative"})  h == GetTurn("Status", {"home"})
<1>1. /\ a \in Scripted(k) /\ b \in Scripted(k) /\ c \in Scripted(k) /\ e \in Scripted(k)
      /\ m \in Scripted(k) /\ g \in Scripted(k) /\ h \in Scripted(k)
  BY SomeTurns, FlagsAre DEF StatusFlags
<1>2. Looks(a) /\ Looks(b) /\ Looks(c) /\ Looks(e) /\ Looks(m) /\ Looks(g) /\ Looks(h)
  BY DEF Looks, Turn, GetTurn, Sometimes, Step
<1>7. /\ a.k = "turn" /\ b.k = "getturn" /\ c.k = "sometimes" /\ c.n = 1 /\ e.k = "getturn"
      /\ m.k = "getturn" /\ g.k = "getturn" /\ h.k = "getturn"
  BY DEF Turn, GetTurn, Sometimes, Step
<1> HIDE DEF a, b, c, e, m, g, h
<1>3. MVP_Looper = <<a, b, c, h>> /\ Stage_Looper = <<a, e, m, g, h>>
  BY DEF MVP_Looper, Stage_Looper, a, b, c, e, m, g, h
<1>4. MVP_Looper \in Seq(Scripted(k)) /\ \A i \in 1 .. Len(MVP_Looper) : Looks(MVP_Looper[i])
  BY <1>1, <1>2, <1>3
<1>5. Stage_Looper \in Seq(Scripted(k)) /\ \A i \in 1 .. Len(Stage_Looper) : Looks(Stage_Looper[i])
  BY <1>1, <1>2, <1>3
<1>6. Text[k]["looper"] = IF k = "Stage" THEN Stage_Looper ELSE MVP_Looper
  BY DEF Text
<1>8. \A i \in 1 .. Len(MVP_Looper) : MVP_Looper[i].k = "sometimes" => i + MVP_Looper[i].n <= Len(MVP_Looper)
  BY <1>3, <1>7
<1>9. \A i \in 1 .. Len(Stage_Looper) : Stage_Looper[i].k # "sometimes"
  BY <1>3, <1>7
<1>10. GoodScript(k, Text[k]["looper"])
  BY <1>4, <1>5, <1>6 DEF GoodScript, Looks
<1> QED
  BY <1>4, <1>5, <1>6, <1>8, <1>9, <1>10

\* The requests of a client are short, and go on step by step.
Short(k, script) ==
  /\ script \in Seq(Scripted(k))
  /\ \A i \in 1 .. Len(script) :
       script[i].k \in {"try", "do", "getdo", "gettry", "expect"} /\ script[i].n = 0

\* A short script may be run.
LEMMA ShortIsGood ==
  ASSUME NEW k, NEW script, Short(k, script)
  PROVE  GoodScript(k, script) /\ Inside(script)
BY DEF Short, GoodScript, Inside, Stays

\* A request of one routine is short.
LEMMA OneTry ==
  ASSUME NEW k, NEW op \in MvpOps, NEW arg \in Int \cup BOOLEAN \cup Speeds, GoodCall(k, op, arg)
  PROVE  Short(k, <<Try(op, arg)>>)
<1> DEFINE s == Try(op, arg)
<1>1. s \in Scripted(k) /\ s.k = "try" /\ s.n = 0
  BY CallIs DEF Try, Step
<1> HIDE DEF s
<1>2. Short(k, <<s>>)
  BY <1>1 DEF Short
<1> QED
  BY <1>2 DEF s

\* The requests for a stage.
LEMMA StageText ==
  \A c \in DOMAIN Stage_Process : Short("Stage", Stage_Process[c])
<1> SUFFICES ASSUME NEW c \in DOMAIN Stage_Process
             PROVE  Short("Stage", Stage_Process[c])
  OBVIOUS
<1>1. c \in {"enable", "disable", "abort", "position", "zero", "sethome", "relative", "absolute", "speed"}
  BY DEF Stage_Process
<1>2. CASE c = "enable"
  BY <1>2, OneTry DEF Stage_Process, GoodCall, MvpOps, StageOps
<1>3. CASE c = "disable"
  BY <1>3, OneTry DEF Stage_Process, GoodCall, MvpOps, StageOps
<1>10. CASE c = "abort"
  BY <1>10, OneTry DEF Stage_Process, GoodCall, MvpOps, StageOps
<1>4. CASE c = "position"
  BY <1>4, OneTry DEF Stage_Process, GoodCall, MvpOps, StageOps
<1>5. CASE c = "zero"
  BY <1>5, OneTry DEF Stage_Process, GoodCall, MvpOps, StageOps
<1>6. CASE c = "sethome"
  BY <1>6, OneTry DEF Stage_Process, GoodCall, MvpOps, StageOps
<1>7. CASE c = "relative"
  BY <1>7, OneTry DEF Stage_Process, GoodCall, MvpOps, StageOps
<1>8. CASE c = "absolute"
  BY <1>8, OneTry DEF Stage_Process, GoodCall, MvpOps, StageOps
<1>9. CASE c = "speed"
  BY <1>9, OneTry DEF Stage_Process, GoodCall, MvpOps, StageOps, Speeds
<1> QED
  BY <1>1, <1>2, <1>3, <1>4, <1>5, <1>6, <1>7, <1>8, <1>9, <1>10

\* One short request and another.
LEMMA ShortOn ==
  ASSUME NEW k, NEW a, NEW b, Short(k, a), Short(k, b)
  PROVE  Short(k, a \o b)
<1>1. a \in Seq(Scripted(k)) /\ b \in Seq(Scripted(k)) /\ Len(a) \in Nat /\ Len(b) \in Nat
  BY DEF Short
<1>2. a \o b \in Seq(Scripted(k)) /\ Len(a \o b) = Len(a) + Len(b)
  BY <1>1
<1>3. ASSUME NEW i \in 1 .. Len(a) + Len(b)
      PROVE  (a \o b)[i].k \in {"try", "do", "getdo", "gettry", "expect"} /\ (a \o b)[i].n = 0
  <2>1. (a \o b)[i] = IF i <= Len(a) THEN a[i] ELSE b[i - Len(a)]
    BY <1>1, ConcatProperties
  <2>2. i <= Len(a) => i \in 1 .. Len(a)
    BY <1>1
  <2>3. i > Len(a) => i - Len(a) \in 1 .. Len(b)
    BY <1>1
  <2> QED
    BY <1>1, <2>1, <2>2, <2>3 DEF Short
<1> QED
  BY <1>2, <1>3 DEF Short

\* The requests for an MVP motor.
LEMMA MvpText ==
  ASSUME NEW k \in {"FSM", "OAP"}
  PROVE  \A c \in DOMAIN MVP_Process : Short(k, MVP_Process[c])
<1>1. \A c \in DOMAIN MVP_Actions : Short(k, MVP_Actions[c])
  <2> DEFINE x == Expect("enabled", FALSE)  y == Expect("enabled", TRUE)  m == Try("MoveRelative", 0)
             e == Do("EN", 0)  o == Do("DI", 0)  g == GetDo("Status", StatusFlags)
  <2>1. /\ x \in Scripted(k) /\ y \in Scripted(k) /\ m \in Scripted(k) /\ e \in Scripted(k)
        /\ o \in Scripted(k) /\ g \in Scripted(k)
    <3>1. x \in Scripted(k) /\ y \in Scripted(k) /\ g \in Scripted(k)
      BY TestIs, AskIs, FlagsAre DEF StatusFlags
    <3>2. m \in Scripted(k) /\ e \in Scripted(k) /\ o \in Scripted(k)
      BY CallIs DEF GoodCall, MvpOps
    <3> HIDE DEF x, y, m, e, o, g
    <3> QED
      BY <3>1, <3>2
  <2>2. /\ x.k = "expect" /\ y.k = "expect" /\ m.k = "try" /\ e.k = "do" /\ o.k = "do" /\ g.k = "getdo"
        /\ x.n = 0 /\ y.n = 0 /\ m.n = 0 /\ e.n = 0 /\ o.n = 0 /\ g.n = 0
    BY DEF Expect, Try, Do, GetDo, Step
  <2> HIDE DEF x, y, m, e, o, g
  <2>3. MVP_Enable = <<e, g, y>> /\ MVP_Disable = <<o, g, x>>
    BY DEF MVP_Enable, MVP_Disable, x, y, e, o, g
  <2>4. MVP_Actions["enable"] = <<x, m>> \o <<e, g, y>> /\ MVP_Actions["disable"] = <<y>> \o <<o, g, x>>
    BY <2>3 DEF MVP_Actions, x, y, m
  <2>5. Short(k, MVP_Actions["enable"])
    <3>1. Short(k, <<x, m>>)
      BY <2>1, <2>2 DEF Short
    <3>2. Short(k, <<e, g, y>>)
      BY <2>1, <2>2 DEF Short
    <3> QED
      BY <2>4, <3>1, <3>2, ShortOn
  <2>6. Short(k, MVP_Actions["disable"])
    <3>1. Short(k, <<y>>)
      BY <2>1, <2>2 DEF Short
    <3>2. Short(k, <<o, g, x>>)
      BY <2>1, <2>2 DEF Short
    <3> QED
      BY <2>4, <3>1, <3>2, ShortOn
  <2>7. Short(k, MVP_Actions["abort"])
    BY OneTry DEF MVP_Actions, GoodCall, MvpOps
  <2>8. Short(k, MVP_Actions["reset"])
    BY OneTry DEF MVP_Actions, GoodCall, MvpOps
  <2>9. Short(k, MVP_Actions["position"])
    BY OneTry DEF MVP_Actions, GoodCall, MvpOps
  <2>10. DOMAIN MVP_Actions = {"abort", "reset", "enable", "disable", "position"}
    BY DEF MVP_Actions
  <2> QED
    BY <2>5, <2>6, <2>7, <2>8, <2>9, <2>10
<1>2. \A c \in DOMAIN MVP_Settings : Short(k, MVP_Settings[c])
  <2>1. Short(k, MVP_Settings["zero"])
    BY OneTry DEF MVP_Settings, GoodCall, MvpOps
  <2>2. Short(k, MVP_Settings["relative"])
    BY OneTry DEF MVP_Settings, GoodCall, MvpOps
  <2>3. Short(k, MVP_Settings["absolute"])
    BY OneTry DEF MVP_Settings, GoodCall, MvpOps
  <2>4. Short(k, MVP_Settings["speed"])
    BY OneTry DEF MVP_Settings, GoodCall, MvpOps, Speeds
  <2>5. Short(k, MVP_Settings["accel"])
    BY OneTry DEF MVP_Settings, GoodCall, MvpOps
  <2>6. Short(k, MVP_Settings["hflag"])
    BY OneTry DEF MVP_Settings, GoodCall, MvpOps
  <2>7. Short(k, MVP_Settings["get_hflag"])
    <3>1. MVP_HomeFlag \in Scripted(k) /\ MVP_HomeFlag.k = "gettry" /\ MVP_HomeFlag.n = 0
      BY AskIs, FlagsAre DEF MVP_HomeFlag, GetTry, Step
    <3> QED
      BY <3>1 DEF Short, MVP_Settings
  <2>8. DOMAIN MVP_Settings = {"zero", "relative", "absolute", "speed", "accel", "hflag", "get_hflag"}
    BY DEF MVP_Settings
  <2> QED
    BY <2>1, <2>2, <2>3, <2>4, <2>5, <2>6, <2>7, <2>8
<1> QED
  BY <1>1, <1>2 DEF MVP_Process

\* All that a thread may be given to run may be run.
LEMMA Texts ==
  ASSUME NEW k \in Kinds, NEW c \in DOMAIN Text[k]
  PROVE  GoodScript(k, Text[k][c]) /\ (c # "looper" => Inside(Text[k][c]))
<1>1. CASE c = "looper"
  BY <1>1, LooperText
<1>2. CASE c = "home"
  <2> DEFINE script == Text[k]["home"]
  <2>1. Outlined(k, 0, Length(k), script)
    BY HomeText
  <2> HIDE DEF script
  <2>2. \A i \in 1 .. Len(script) : script[i].k = "back" => script[i].n < i
    BY <2>1 DEF Outlined, Fits, Placed
  <2> QED
    BY <1>2, <2>1, <2>2, HomeInside DEF Outlined, GoodScript, script
<1>3. CASE c \notin {"looper", "home"}
  <2> DEFINE process == IF k = "Stage" THEN Stage_Process ELSE MVP_Process
  <2>1. c \in DOMAIN process /\ Text[k][c] = process[c]
    BY <1>3 DEF Text
  <2>2. k = "FSM" \/ k = "OAP" \/ k = "Stage"
    BY KindIs
  <2>3. Short(k, process[c])
    BY <2>1, <2>2, MvpText, StageText
  <2> QED
    BY <2>1, <2>3, ShortIsGood
<1> QED
  BY <1>1, <1>2, <1>3
-----------------------------------------------------------------------------
(* What the threads run                                                    *)

LEMMA KindFacts ==
  ASSUME Typed
  PROVE  Kind \in Kinds /\ Kind \in {"FSM", "OAP", "Stage"} /\ world.dev \in Sane
BY MotorsAssumption DEF Typed, World, Sane, Motor, Kind

\* Who the threads are and what they run.
LEMMA RunFacts ==
  ASSUME Typed
  PROVE  /\ run \in [Threads -> Running] /\ "looper" \in Threads /\ "home" \in Threads /\ "client" \in Threads
         /\ Busy("looper") /\ run["looper"].request = "looper"
         /\ Homing <=> run["home"].request = "home"
         /\ \A t \in Threads : Busy(t) => run[t].request \in DOMAIN Text[Kind]
<1>1. Kind \in Kinds
  BY KindFacts
<1>2. {"looper", "home"} \subseteq DOMAIN Text[Kind]
  BY <1>1 DEF Text
<1> QED
  BY <1>2 DEF Typed, Runs, Threads, Busy, Homing

\* A busy thread runs a script.
LEMMA ScriptIs ==
  ASSUME Typed, NEW t \in Threads, Busy(t)
  PROVE  GoodScript(Kind, Script(t)) /\ Script(t) \in Seq(Scripted(Kind)) /\ Len(Script(t)) \in Nat
<1>1. Kind \in Kinds /\ run[t].request \in DOMAIN Text[Kind]
  BY KindFacts, RunFacts
<1>2. GoodScript(Kind, Text[Kind][run[t].request])
  BY <1>1, Texts
<1> QED
  BY <1>2 DEF Script, GoodScript

\* A thread at a step is within its script.
LEMMA NowIs ==
  ASSUME Typed, NEW t \in Threads, NEW K, AtStep(t, K)
  PROVE  /\ Busy(t) /\ run[t].pc \in 1 .. Len(Script(t)) /\ Now(t) \in Scripted(Kind) /\ Now(t).k \in K
         /\ Now(t).k = "back" => Now(t).n < run[t].pc
         /\ Now(t).n \in Nat /\ Now(t).flags \in SUBSET Flags /\ Now(t).value \in BOOLEAN
<1>1. Busy(t) /\ run[t].pc <= Len(Script(t)) /\ Now(t).k \in K
  BY DEF AtStep
<1>2. GoodScript(Kind, Script(t)) /\ Script(t) \in Seq(Scripted(Kind)) /\ Len(Script(t)) \in Nat
  BY <1>1, ScriptIs
<1>3. run[t].pc \in Nat \ {0}
  BY RunFacts DEF Running
<1>4. run[t].pc \in 1 .. Len(Script(t))
  BY <1>1, <1>2, <1>3
<1>5. Now(t) \in Scripted(Kind) /\ (Now(t).k = "back" => Now(t).n < run[t].pc)
  BY <1>2, <1>4 DEF Now, GoodScript
<1>6. Now(t) \in Steps
  BY <1>5 DEF Scripted
<1> QED
  BY <1>1, <1>4, <1>5, <1>6 DEF Steps

\* What the looper does now is to look.
LEMMA LooperNow ==
  ASSUME Typed, NEW K, AtStep("looper", K)
  PROVE  Looks(Now("looper"))
<1>1. Kind \in Kinds /\ run["looper"].request = "looper" /\ "looper" \in Threads
  BY KindFacts, RunFacts
<1>2. run["looper"].pc \in 1 .. Len(Script("looper"))
  BY <1>1, NowIs
<1>3. \A i \in 1 .. Len(Text[Kind]["looper"]) : Looks(Text[Kind]["looper"][i])
  BY <1>1, LooperText
<1> QED
  BY <1>1, <1>2, <1>3 DEF Now, Script

\* While homing, the homing thread runs the script that is outlined.
LEMMA HomeScript ==
  ASSUME Typed, Homing
  PROVE  /\ Script("home") = Text[Kind]["home"] /\ Len(Script("home")) = Length(Kind)
         /\ \A i \in 1 .. Len(Script("home")) : Fits(Kind, i, Script("home")[i])
<1>1. Kind \in Kinds /\ run["home"].request = "home"
  BY KindFacts, RunFacts
<1> DEFINE script == Text[Kind]["home"]
<1>2. Outlined(Kind, 0, Length(Kind), script)
  BY <1>1, HomeText
<1>3. Script("home") = script
  BY <1>1 DEF Script
<1> HIDE DEF script
<1>4. Length(Kind) = 0 + Len(script) /\ Len(script) \in Nat
  BY <1>2 DEF Outlined
<1>5. \A i \in 1 .. Len(script) : Fits(Kind, 0 + i, script[i])
  BY <1>2 DEF Outlined
<1>6. \A i \in 1 .. Len(script) : 0 + i = i
  BY <1>4
<1> QED
  BY <1>3, <1>4, <1>5, <1>6 DEF script

\* So its step now fits.
LEMMA HomeNow ==
  ASSUME Typed, NEW K, AtStep("home", K)
  PROVE  Homing /\ Fits(Kind, run["home"].pc, Now("home")) /\ run["home"].pc \in 1 .. Length(Kind)
<1>1. Homing /\ "home" \in Threads
  BY RunFacts DEF AtStep, Homing
<1>2. run["home"].pc \in 1 .. Len(Script("home"))
  BY <1>1, NowIs
<1> QED
  BY <1>1, <1>2, HomeScript DEF Now
-----------------------------------------------------------------------------
(* What the steps of a thread leave of the types                           *)

LEMMA WithRuns ==
  ASSUME Typed, NEW t \in Threads, NEW x \in Running, x.request = run[t].request
  PROVE  [run EXCEPT ![t] = x] \in Runs(Kind)
<1>1. run \in [Threads -> Running] /\ run \in Runs(Kind)
  BY RunFacts DEF Typed
<1>2. [run EXCEPT ![t] = x] \in [Threads -> Running]
  BY <1>1
<1>3. \A u \in Threads : [run EXCEPT ![t] = x][u].request = run[u].request
  BY <1>1
<1> QED
  BY <1>1, <1>2, <1>3, RunFacts DEF Runs

\* Going on changes one thread.
LEMMA GoIs ==
  ASSUME Typed, NEW t \in Threads, NEW m \in Int
  PROVE  /\ Go(t, m)[t].pc = run[t].pc + m /\ Go(t, m)[t].got = run[t].got
         /\ Go(t, m)[t].request = run[t].request
         /\ \A u \in Threads : u # t => Go(t, m)[u] = run[u]
<1>1. run \in [Threads -> Running] /\ run[t] \in Running /\ run[t].pc \in Nat
  BY RunFacts DEF Running
<1> QED
  BY <1>1 DEF Go, Running

\* Going on, it still runs.
LEMMA GoRuns ==
  ASSUME Typed, NEW t \in Threads, NEW m \in Int, run[t].pc + m >= 1
  PROVE  Go(t, m) \in Runs(Kind)
<1>1. PICK y \in Running : y = run[t]
  BY RunFacts
<1>2. y.pc + m \in Nat \ {0}
  BY <1>1 DEF Running
<1> DEFINE x == [y EXCEPT !.pc = y.pc + m, !.count = 0, !.polled = FALSE]
<1>3. x \in Running /\ x.request = y.request
  <2> DEFINE a == [y EXCEPT !.pc = y.pc + m]
             b == [a EXCEPT !.count = 0]
  <2>1. a \in Running /\ a.request = y.request
    BY <1>1, <1>2 DEF Running
  <2>2. x = [b EXCEPT !.polled = FALSE]
    OBVIOUS
  <2> HIDE DEF a, x
  <2>3. b \in Running /\ b.request = y.request
    BY <2>1 DEF Running
  <2> HIDE DEF b
  <2> QED
    BY <2>2, <2>3 DEF Running
<1>4. Go(t, m) = [run EXCEPT ![t] = x]
  BY <1>1, RunFacts DEF Go, Running
<1> HIDE DEF x
<1> QED
  BY <1>1, <1>3, <1>4, WithRuns

\* A thread with nothing to do, and one that begins.
LEMMA IdleIs ==
  /\ Idle \in Running /\ Idle.request = "none" /\ Idle.got = NoReply /\ NoReply.is = FALSE
  /\ NoReply \in Replies
  /\ \A c \in Requests : /\ Begin(c) \in Running /\ Begin(c).request = c /\ Begin(c).got = NoReply
                         /\ Begin(c).pc = 1
<1>1. NoReply \in Replies /\ NoReply.is = FALSE
  <2>1. <<>> \in [{} -> BOOLEAN] /\ {} \in SUBSET Flags
    OBVIOUS
  <2> QED
    BY <2>1 DEF NoReply, Replies
<1>2. /\ Idle \in Running /\ Idle.request = "none" /\ Idle.got = NoReply /\ Idle.pc = 1
  BY <1>1 DEF Idle, Running, Requests
<1>3. ASSUME NEW c \in Requests
      PROVE  /\ Begin(c) \in Running /\ Begin(c).request = c /\ Begin(c).got = NoReply
             /\ Begin(c).pc = 1
  BY <1>2, <1>3 DEF Begin, Running
<1> QED
  BY <1>1, <1>2, <1>3

\* A thread that leaves no longer homes, and leaves no reply.
LEMMA LeaveRuns ==
  ASSUME Typed, NEW t \in Threads
  PROVE  /\ Leave(t) \in Runs(Kind) /\ ~Leave(t)[t].got.is
         /\ Leave(t)["home"].request = "home" => t # "home"
         /\ \A u \in Threads : u # t => Leave(t)[u] = run[u]
<1>1. run \in [Threads -> Running] /\ run \in Runs(Kind)
  BY RunFacts DEF Typed
<1>2. PICK x \in Running : /\ x = IF t = "looper" THEN Begin("looper") ELSE Idle
                           /\ x.request = IF t = "looper" THEN "looper" ELSE "none"
                           /\ ~x.got.is
  BY IdleIs DEF Requests
<1>3. Leave(t) = [run EXCEPT ![t] = x]
  BY <1>2 DEF Leave
<1>4. Leave(t) \in [Threads -> Running] /\ Leave(t)[t] = x /\ \A u \in Threads : u # t => Leave(t)[u] = run[u]
  BY <1>1, <1>3
<1>5. Leave(t) \in Runs(Kind)
  BY <1>1, <1>2, <1>4, RunFacts DEF Runs
<1> QED
  BY <1>2, <1>4, <1>5

\* The looper on its way to close the connection.
LEMMA ToCloseIs ==
  ASSUME Typed, NEW t \in Threads, NEW q, q = [run EXCEPT ![t].pc = ToClose]
  PROVE  /\ q \in Runs(Kind) /\ q[t].got = run[t].got /\ q[t].request = run[t].request
         /\ \A u \in Threads : u # t => q[u] = run[u]
<1>1. PICK y \in Running : y = run[t]
  BY RunFacts
<1>2. ToClose \in Nat \ {0}
  BY ScriptIs, RunFacts DEF ToClose
<1> DEFINE x == [y EXCEPT !.pc = ToClose]
<1>3. x \in Running /\ x.request = y.request /\ x.got = y.got
  BY <1>1, <1>2 DEF Running
<1>4. q = [run EXCEPT ![t] = x]
  BY <1>1, RunFacts DEF Running
<1> HIDE DEF x
<1>5. q \in Runs(Kind)
  BY <1>1, <1>3, <1>4, WithRuns
<1> QED
  BY <1>1, <1>3, <1>4, <1>5, RunFacts

\* After a move what the other threads have got is out of date.
LEMMA OutdatedIs ==
  ASSUME NEW k, NEW r \in Runs(k), NEW t \in Threads, NEW op, NEW q, q = Outdated(r, t, op)
  PROVE  /\ q \in Runs(k) /\ q[t] = r[t]
         /\ \A u \in Threads :
              /\ q[u].request = r[u].request /\ q[u].pc = r[u].pc
              /\ q[u].got.is => /\ r[u].got.is /\ q[u].got.flags = r[u].got.flags
                                /\ r[u].got.old => q[u].got.old
                                /\ op = "MoveRelative" /\ u # t => q[u].got.old
<1>1. r \in [Threads -> Running]
  BY DEF Runs
<1>2. ASSUME NEW y \in Running
      PROVE  LET x == [y EXCEPT !.got.old = TRUE] IN
             /\ x \in Running /\ x.request = y.request /\ x.pc = y.pc /\ x.got.is = y.got.is
             /\ x.got.flags = y.got.flags /\ x.got.old
  <2>1. PICK g \in Replies : g = y.got
    BY DEF Running
  <2>2. [g EXCEPT !.old = TRUE] \in Replies /\ [g EXCEPT !.old = TRUE].is = g.is
        /\ [g EXCEPT !.old = TRUE].flags = g.flags /\ [g EXCEPT !.old = TRUE].old
    BY <2>1 DEF Replies
  <2>3. [y EXCEPT !.got.old = TRUE] = [y EXCEPT !.got = [g EXCEPT !.old = TRUE]]
    BY <2>1
  <2> DEFINE h == [g EXCEPT !.old = TRUE]
  <2> HIDE DEF h
  <2>4. [y EXCEPT !.got = h] \in Running /\ [y EXCEPT !.got = h].request = y.request
        /\ [y EXCEPT !.got = h].pc = y.pc /\ [y EXCEPT !.got = h].got = h
    BY <2>2 DEF Running, h
  <2> QED
    BY <2>1, <2>2, <2>3, <2>4 DEF h
<1>3. CASE op \notin {"MoveRelative", "MoveAbsolute"}
  BY <1>1, <1>3 DEF Outdated
<1>4. CASE op \in {"MoveRelative", "MoveAbsolute"}
  <2>1. q = [u \in Threads |-> IF u # t /\ r[u].got.is THEN [r[u] EXCEPT !.got.old = TRUE] ELSE r[u]]
    BY <1>4 DEF Outdated
  <2>2. \A u \in Threads : r[u] \in Running
    BY <1>1
  <2>3. /\ q \in [Threads -> Running] /\ q[t] = r[t]
        /\ \A u \in Threads :
              /\ q[u].request = r[u].request /\ q[u].pc = r[u].pc
              /\ q[u].got.is => /\ r[u].got.is /\ q[u].got.flags = r[u].got.flags
                                /\ r[u].got.old => q[u].got.old
                                /\ op = "MoveRelative" /\ u # t => q[u].got.old
    BY ZenonT(30), <1>2, <2>1, <2>2
  <2>4. q["looper"].request = r["looper"].request /\ q["home"].request = r["home"].request
        /\ q["client"].request = r["client"].request
    BY <2>3 DEF Threads
  <2> QED
    BY <2>3, <2>4 DEF Runs
<1> QED
  BY <1>3, <1>4
-----------------------------------------------------------------------------
(* Steps against the outline                                               *)

\* A step that disturbs neither the motor nor what the threads believe.
LEMMA Untouched ==
  ASSUME NEW w, NEW r, OutlineOf(w, r), NEW x, NEW q,
         x.dev = w.dev, x.data = w.data, x.sock.connected = w.sock.connected,
         Dead(w.sock) => Dead(x.sock), q["client"].request = "none", q["home"].pc = r["home"].pc,
         \A t \in {"looper", "home"} : q[t].got.is =>
           r[t].got.is /\ q[t].got.flags = r[t].got.flags /\ (~q[t].got.old => ~r[t].got.old)
  PROVE  OutlineOf(x, q)
BY DEF OutlineOf

\* A step of the home thread, to another step of its script.
LEMMA HomeGoesOn ==
  ASSUME NEW w, NEW r, OutlineOf(w, r), NEW x, NEW q, NEW k, k = w.dev.kind, k = x.dev.kind, NEW m,
         q["client"].request = "none", x.sock.connected, q["home"].pc = m, ~q["home"].got.is,
         HomeState(k, m, x.dev), k = "Stage" /\ m = 3 => x.dev.enabled \/ Dead(x.sock),
         q["looper"].got.is /\ ~q["looper"].got.old =>
           /\ r["looper"].got.is /\ q["looper"].got.flags = r["looper"].got.flags /\ ~r["looper"].got.old
           /\ StillTells(k, r["home"].pc, m, w.dev, x.dev),
         m \in Asked(k) => Tells(Phase(k, m), x.data, x.dev)
  PROVE  OutlineOf(x, q)
BY DEF OutlineOf, StillTells
-----------------------------------------------------------------------------
(* The steps that leave the motor alone                                    *)

\* A step keeps the invariant, and the kind of the motor.
HomingKept == HomingInv' /\ Kind' = Kind

LEMMA NextHolds ==
  ASSUME Typed, world' \in World, world'.dev.kind = Kind, run' \in Runs(Kind),
         run'["home"].request = "home" /\ world'.clean => OutlineOf(world', run')
  PROVE  HomingKept
<1>1. Typed'
  BY DEF Typed, Kind
<1>2. Homing' => run'["home"].request = "home"
  BY DEF Homing, Busy, Runs
<1> QED
  BY <1>1, <1>2 DEF HomingKept, HomingInv, OutlineOf, Kind

\* A world in which, if it is still clean, nothing happened that homing or the looper relies on.
Undisturbed(w, x) ==
  x.clean => /\ w.clean /\ x.dev = w.dev /\ x.data = w.data /\ x.sock.connected = w.sock.connected
             /\ Dead(w.sock) => Dead(x.sock)

\* A step of a thread, none of homing but its last.
LEMMA Beside ==
  ASSUME HomingInv, NEW t \in Threads, Busy(t), world' \in World, world'.dev.kind = Kind, run' \in Runs(Kind),
         t = "home" => run'["home"].request # "home",
         \A u \in Threads : u # t => run'[u] = run[u],
         t # "home" => (world'.clean => world.clean),
         t = "looper" => /\ Undisturbed(world, world')
                         /\ run'[t].got.is => /\ run[t].got.is /\ run'[t].got.flags = run[t].got.flags
                                              /\ ~run'[t].got.old => ~run[t].got.old
  PROVE  HomingKept
<1>0. Typed
  BY DEF HomingInv
<1>1. "home" \in Threads /\ "looper" \in Threads /\ "client" \in Threads
  BY DEF Threads
<1>2. ASSUME run'["home"].request = "home", world'.clean
      PROVE  OutlineOf(world', run')
  <2>1. t # "home" /\ run'["home"] = run["home"]
    BY <1>1, <1>2
  <2>2. Homing /\ world.clean
    BY <1>2, <2>1 DEF Homing, Busy
  <2>3. OutlineOf(world, run)
    BY <2>2 DEF HomingInv
  <2>4. run["client"].request = "none"
    BY <2>3 DEF OutlineOf
  <2>5. t = "looper"
    BY <2>1, <2>4 DEF Threads, Busy
  <2>6. run'["client"] = run["client"]
    BY <1>1, <2>5
  <2> QED
    BY <1>2, <2>1, <2>3, <2>4, <2>5, <2>6, Untouched DEF Undisturbed
<1> QED
  BY <1>0, <1>2, NextHolds

\* A step of homing to another, in the same world.
LEMMA HomeSteps ==
  ASSUME HomingInv, NEW K, AtStep("home", K), K \cap Asks = {}, world' = world, run' \in Runs(Kind),
         NEW m, run'["home"].pc = m, run'["home"].got = run["home"].got,
         \A u \in Threads : u # "home" => run'[u] = run[u],
         m \notin Asked(Kind), ~(Kind = "Stage" /\ m = 3),
         OutlineOf(world, run) => OnTo(Kind, run["home"].pc, m, world.dev, world.dev)
  PROVE  HomingKept
<1>0. Typed
  BY DEF HomingInv
<1>1. world \in World /\ "looper" \in Threads /\ "client" \in Threads
  BY <1>0 DEF Typed, Threads
<1>2. Homing /\ Now("home").k \in K /\ Now("home") = Text[Kind]["home"][run["home"].pc]
  BY <1>0, HomeNow, HomeScript DEF AtStep, Now
<1>3. ASSUME world.clean
      PROVE  OutlineOf(world, run')
  <2>1. OutlineOf(world, run)
    BY <1>2, <1>3 DEF HomingInv
  <2>2. run["client"].request = "none" /\ world.sock.connected /\ ~run["home"].got.is
    BY <1>2, <2>1 DEF OutlineOf, Kind
  <2>3. run'["client"] = run["client"] /\ run'["looper"] = run["looper"]
    BY <1>1
  <2>4. HomeState(Kind, m, world.dev) /\ StillTells(Kind, run["home"].pc, m, world.dev, world.dev)
    BY <2>1 DEF OnTo
  <2> QED
    BY <2>1, <2>2, <2>3, <2>4, HomeGoesOn DEF Kind
<1> QED
  BY <1>0, <1>1, <1>3, NextHolds DEF Kind

\* A thread that keeps its request still runs.
LEMMA StepsRuns ==
  ASSUME NEW q \in Runs(Kind), NEW t \in Threads, NEW x \in Running, x.request = q[t].request
  PROVE  [q EXCEPT ![t] = x] \in Runs(Kind)
<1>1. q \in [Threads -> Running]
  BY DEF Runs
<1> DEFINE p == [q EXCEPT ![t] = x]
<1>2. p \in [Threads -> Running] /\ p[t] = x /\ \A u \in Threads : u # t => p[u] = q[u]
  BY <1>1
<1>3. \A u \in Threads : p[u].request = q[u].request
  BY <1>2
<1> HIDE DEF p
<1>4. p \in Runs(Kind)
  BY <1>2, <1>3 DEF Runs, Threads
<1> QED
  BY <1>4 DEF p

\* A thread looks at a flag and goes on, skips, goes back or leaves.
LEMMA BranchHolds == ASSUME HomingInv, NEW t \in Threads, Thread_Branch(t) PROVE HomingKept
<1> DEFINE K == {"expect", "skip", "back", "sometimes"}
           pc == run[t].pc
           n == Now(t).n
<1>0. Typed /\ AtStep(t, K) /\ world' = world
  BY DEF HomingInv, Thread_Branch
<1>1. /\ world \in World /\ run[t] \in Running /\ pc \in Nat \ {0} /\ n \in Nat /\ Now(t).k \in K /\ Busy(t)
      /\ Now(t).k = "back" => n < pc
  BY <1>0, RunFacts, NowIs DEF Typed, Running
<1> DEFINE To(m) == /\ run' \in Runs(Kind) /\ run'[t].pc = m /\ run'[t].got = run[t].got
                    /\ \A u \in Threads : u # t => run'[u] = run[u]
<1>2. \/ run' = Leave(t)
      \/ To(pc + 1)
      \/ Now(t).k \in {"skip", "sometimes"} /\ To(pc + 1 + n)
      \/ Now(t).k = "back" /\ To(pc - n)
  <2>1. ASSUME NEW m \in Int, pc + m >= 1, run' = Go(t, m)
        PROVE  To(pc + m)
    BY <1>0, <2>1, GoIs, GoRuns
  <2>2. ASSUME NEW m \in Int, pc + m >= 1, NEW j \in Int, run' = [Go(t, m) EXCEPT ![t].steps = j]
        PROVE  To(pc + m)
    <3>1. Go(t, m) \in Runs(Kind)
      BY <1>0, <2>2, GoRuns
    <3>2. /\ run' \in Runs(Kind) /\ run'[t].pc = Go(t, m)[t].pc /\ run'[t].got = Go(t, m)[t].got
          /\ \A u \in Threads : u # t => run'[u] = Go(t, m)[u]
      <4>0. PICK q \in Runs(Kind) : q = Go(t, m)
        BY <3>1
      <4>1. q \in Runs(Kind) /\ run' = [q EXCEPT ![t].steps = j]
        BY <2>2, <4>0
      <4>2. q \in [Threads -> Running]
        BY <4>1 DEF Runs
      <4>3. PICK y \in Running : y = q[t]
        BY <4>2
      <4> DEFINE x == [y EXCEPT !.steps = j]
      <4>4. run' = [q EXCEPT ![t] = x]
        BY <4>1, <4>2, <4>3
      <4> HIDE DEF pc, To
      <4>5. x \in Running /\ x.request = y.request /\ x.pc = y.pc /\ x.got = y.got
        BY <4>3 DEF Running
      <4> HIDE DEF x
      <4>7. x.request = q[t].request
        BY <4>3, <4>5
      <4>8. [q EXCEPT ![t] = x] \in Runs(Kind)
        BY <4>1, <4>5, <4>7, StepsRuns
      <4>9. /\ run' \in Runs(Kind) /\ run'[t] = x
            /\ \A u \in Threads : u # t => run'[u] = q[u]
        BY <4>2, <4>4, <4>5, <4>8
      <4> QED
        BY <4>0, <4>3, <4>5, <4>9
    <3> QED
      BY <1>0, <3>2, GoIs
  <2>3. CASE Now(t).k = "expect"
    BY <1>1, <2>1, <2>3 DEF Thread_Branch
  <2>4. CASE Now(t).k \in {"skip", "sometimes"}
    <3>1. run' = Go(t, 1) \/ run' = Go(t, 1 + n)
      BY <2>4 DEF Thread_Branch
    <3>2. pc + (1 + n) = pc + 1 + n /\ pc + (1 + n) >= 1 /\ 1 + n \in Int /\ pc + 1 >= 1
      BY <1>1
    <3> HIDE DEF To, pc, n
    <3> QED
      BY <2>1, <2>4, <3>1, <3>2
  <2>5. CASE Now(t).k = "back"
    <3>1. \/ run' = [Go(t, -n) EXCEPT ![t].steps = @ + 1]
          \/ run' = [Go(t, 1) EXCEPT ![t].steps = 0]
      BY <2>5 DEF Thread_Branch
    <3>2. pc + (-n) = pc - n /\ pc + (-n) >= 1 /\ -n \in Int /\ pc + 1 >= 1
      BY <1>1, <2>5
    <3>3. CASE run' = [Go(t, 1) EXCEPT ![t].steps = 0]
      BY <2>2, <3>2, <3>3
    <3>4. CASE run' = [Go(t, -n) EXCEPT ![t].steps = @ + 1]
      <4>1. Go(t, -n) \in Runs(Kind)
        BY <1>0, <3>2, GoRuns
      <4>2. Go(t, -n)[t].steps + 1 \in Int /\ Go(t, -n) \in [Threads -> Running]
        BY <4>1 DEF Runs, Running
      <4>3. run' = [Go(t, -n) EXCEPT ![t].steps = Go(t, -n)[t].steps + 1]
        BY <3>4, <4>2
      <4> HIDE DEF n, pc
      <4>4. To(pc + (-n))
        BY <2>2, <3>2, <4>2, <4>3
      <4> QED
        BY <2>5, <3>2, <4>4
    <3> QED
      BY <3>1, <3>3, <3>4
  <2> QED
    BY <1>1, <2>3, <2>4, <2>5
<1>3. CASE run' = Leave(t)
  BY <1>0, <1>1, <1>3, LeaveRuns, Beside DEF Undisturbed, Kind
<1>4. CASE t # "home" /\ run' # Leave(t)
  BY <1>0, <1>1, <1>2, <1>4, Beside DEF Undisturbed, Kind
<1>5. CASE t = "home" /\ run' # Leave(t)
  <2>1. Fits(Kind, pc, Now("home"))
    BY <1>0, <1>5, HomeNow
  <2>2. Placed(Kind, pc, Now("home")) /\ Keeps(Kind, pc, Now("home"))
    BY <2>1 DEF Fits
  <2>3. PICK m : /\ To(m)
                 /\ \/ m = pc + 1
                    \/ m = pc + 1 + n /\ Now("home").k = "skip"
                    \/ m = pc - n /\ Now("home").k = "back"
    <3>1. Now("home").k # "sometimes"
      BY <1>5, <2>2 DEF Placed, Calls
    <3> HIDE DEF To, pc, n
    <3> QED
      BY <1>2, <1>5, <3>1
  <2>4. m \notin Asked(Kind)
    BY <1>1, <1>5, <2>2, <2>3 DEF Placed, Asks
  <2>5. ~(Kind = "Stage" /\ m = 3)
    <3>1. Kind = "Stage" /\ pc = 2 => Now("home").k = "try"
      BY <2>2 DEF Placed
    <3>2. Kind = "Stage" => /\ Now("home").k = "skip" => pc + 1 + n # 3
                            /\ Now("home").k = "back" => pc - n # 3
      BY <1>5, <2>2 DEF Placed
    <3>3. pc + 1 = 3 => pc = 2
      BY <1>1
    <3> HIDE DEF To, pc, n
    <3> QED
      BY <1>1, <1>5, <2>3, <3>1, <3>2, <3>3
  <2>6. OutlineOf(world, run) => OnTo(Kind, pc, m, world.dev, world.dev)
    <3>1. OutlineOf(world, run) => HomeState(Kind, pc, world.dev)
      BY <1>5 DEF OutlineOf, Kind
    <3>2. world.dev \in Sane /\ world.dev.kind = Kind
      BY <1>0, KindFacts DEF Kind
    <3>3. Now("home").k \in {"expect", "skip", "back"}
      BY <1>1, <1>5, <2>2 DEF Placed, Calls
    <3> HIDE DEF To, pc
    <3> QED
      BY <1>5, <2>2, <2>3, <3>1, <3>2, <3>3 DEF Keeps
  <2>7. K \cap Asks = {}
    BY DEF Asks
  <2> QED
    BY <1>0, <1>5, <2>3, <2>4, <2>5, <2>6, <2>7, HomeSteps
<1> QED
  BY <1>3, <1>4, <1>5

\* A thread that stays at its step.
LEMMA InPlace ==
  ASSUME HomingInv, run' \in Runs(Kind), world' = world,
         \A u \in Threads : /\ run'[u].request = run[u].request /\ run'[u].pc = run[u].pc
                            /\ run'[u].got = run[u].got
  PROVE  HomingKept
<1>1. Typed /\ world \in World
  BY DEF HomingInv, Typed
<1>2. ASSUME run'["home"].request = "home", world'.clean
      PROVE  OutlineOf(world', run')
  <2>1. OutlineOf(world, run)
    BY <1>1, <1>2, RunFacts DEF HomingInv
  <2>2. run'["client"].request = "none"
    BY <2>1 DEF OutlineOf, Threads
  <2> QED
    BY <2>1, <2>2, Untouched DEF Threads
<1> QED
  BY <1>1, <1>2, NextHolds DEF Kind

\* A wait that has come to its end.
LEMMA PolledHolds == ASSUME HomingInv, NEW t \in Threads, Thread_Polled(t) PROVE HomingKept
<1> DEFINE K == {"wait", "waitundo"}
           pc == run[t].pc
<1>0. Typed /\ AtStep(t, K) /\ world' = world
  BY DEF HomingInv, Thread_Polled
<1>1. /\ world \in World /\ run[t] \in Running /\ pc \in Nat \ {0} /\ Now(t).k \in K /\ Busy(t)
  BY <1>0, RunFacts, NowIs DEF Typed, Running
<1>2. CASE ~Holds(t)
  <2>1. run' = [run EXCEPT ![t].polled = FALSE]
    BY <1>2 DEF Thread_Polled
  <2>2. PICK y \in Running : y = run[t]
    BY <1>1
  <2> DEFINE x == [y EXCEPT !.polled = FALSE]
  <2>3. x \in Running /\ x.request = y.request /\ x.pc = y.pc /\ x.got = y.got
    BY <2>2 DEF Running
  <2>4. run' = [run EXCEPT ![t] = x]
    BY <1>0, <2>1, <2>2, RunFacts
  <2> HIDE DEF x
  <2>5. /\ run' \in Runs(Kind) /\ run'[t] = x
        /\ \A u \in Threads : u # t => run'[u] = run[u]
    BY <1>0, <2>2, <2>3, <2>4, WithRuns, RunFacts
  <2> QED
    BY <1>0, <2>2, <2>3, <2>5, InPlace
<1>3. CASE Holds(t)
  <2>1. run' = Go(t, 1)
    BY <1>3 DEF Thread_Polled
  <2>2. /\ run' \in Runs(Kind) /\ run'[t].pc = pc + 1 /\ run'[t].got = run[t].got
        /\ \A u \in Threads : u # t => run'[u] = run[u]
    BY <1>0, <1>1, <2>1, GoIs, GoRuns
  <2>3. CASE t # "home"
    BY <1>0, <1>1, <2>2, <2>3, Beside DEF Undisturbed, Kind
  <2>4. CASE t = "home"
    <3>1. Placed(Kind, pc, Now("home")) /\ Keeps(Kind, pc, Now("home"))
      BY <1>0, <2>4, HomeNow DEF Fits
    <3>2. pc \in Asked(Kind) /\ pc + 1 \notin Asked(Kind) /\ ~(Kind = "Stage" /\ pc + 1 = 3)
      <4>1. pc \in Asked(Kind) /\ pc + 1 \notin Asked(Kind)
        BY <1>1, <2>4, <3>1 DEF Placed, Asks
      <4>2. Kind = "Stage" /\ pc = 2 => Now("home").k = "try"
        BY <3>1 DEF Placed
      <4> QED
        BY <1>1, <2>4, <4>1, <4>2
    <3>3. ASSUME OutlineOf(world, run)
          PROVE  OnTo(Kind, pc, pc + 1, world.dev, world.dev)
      <4>1. HomeState(Kind, pc, world.dev) /\ Tells(Phase(Kind, pc), world.data, world.dev)
        BY <2>4, <3>2, <3>3 DEF OutlineOf, Kind
      <4>2. world.dev \in Sane /\ world.dev.kind = Kind /\ world.data \in [Flags -> BOOLEAN]
        BY <1>0, KindFacts DEF Kind, Typed, World
      <4>3. \A f \in Now("home").flags : world.data[f] = Now("home").value
        BY <1>3, <2>4 DEF Holds, Data
      <4> HIDE DEF pc
      <4> QED
        BY <1>1, <2>4, <3>1, <4>1, <4>2, <4>3 DEF Keeps
    <3>4. K \cap Asks = {}
      BY DEF Asks
    <3> QED
      BY <1>0, <2>2, <2>4, <3>2, <3>3, <3>4, HomeSteps
  <2> QED
    BY <2>3, <2>4
<1> QED
  BY <1>2, <1>3

\* A thread at the end of its script.
LEMMA DoneHolds == ASSUME HomingInv, NEW t \in Threads, Thread_Done(t) PROVE HomingKept
<1>1. Typed /\ Busy(t) /\ run' = Leave(t) /\ world' = world
  BY DEF HomingInv, Thread_Done
<1>2. world \in World
  BY <1>1 DEF Typed
<1> QED
  BY <1>1, <1>2, LeaveRuns, Beside DEF Undisturbed, Kind

\* The looper opens a connection or closes it.
LEMMA LooperHolds == ASSUME HomingInv, Looper_Open \/ Looper_Close PROVE HomingKept
<1>0. Typed /\ world \in World /\ run \in Runs(Kind)
  BY DEF HomingInv, Typed
<1>1. CASE Looper_Open
  <2>1. PICK s \in Socket_OpenClient(world.sock, reachable) : world' = [world EXCEPT !.sock = s]
    BY <1>1 DEF Looper_Open
  <2>2. ~world.sock.connected /\ run' = run
    BY <1>1 DEF Looper_Open
  <2>3. s \in Socket_Info
    <3>1. world.sock \in Socket_Info
      BY <1>0 DEF World
    <3>2. \A alive \in BOOLEAN :
            [world.sock EXCEPT !.connected = TRUE, !.sockfd = "open", !.alive = alive] \in Socket_Info
      BY <3>1 DEF Socket_Info, Descriptors
    <3>3. \A fd \in Descriptors :
            [world.sock EXCEPT !.connected = FALSE, !.alive = FALSE, !.sockfd = fd] \in Socket_Info
      BY <3>1 DEF Socket_Info, Descriptors
    <3>4. world.sock.sockfd \in Descriptors /\ "zero" \in Descriptors
      BY <3>1 DEF Socket_Info, Descriptors
    <3>5. \/ \E alive \in BOOLEAN :
               s = [world.sock EXCEPT !.connected = TRUE, !.sockfd = "open", !.alive = alive]
          \/ \E fd \in Descriptors : s = [world.sock EXCEPT !.connected = FALSE, !.alive = FALSE, !.sockfd = fd]
      <4>1. CASE reachable
        BY <2>1, <4>1 DEF Socket_OpenClient
      <4>2. CASE ~reachable
        <5>1. \/ s = [world.sock EXCEPT !.connected = TRUE, !.sockfd = "open", !.alive = FALSE]
              \/ s = [world.sock EXCEPT !.connected = FALSE, !.alive = FALSE, !.sockfd = "zero"]
              \/ s = [world.sock EXCEPT !.connected = FALSE, !.alive = FALSE, !.sockfd = world.sock.sockfd]
          BY <2>1, <4>2, <3>1 DEF Socket_OpenClient, Socket_Info
        <5> QED
          BY <3>4, <5>1
      <4> QED
        BY <4>1, <4>2
    <3> QED
      BY <3>2, <3>3, <3>5
  <2>4. world' \in World /\ world'.dev.kind = Kind /\ world'.clean = world.clean
    BY <1>0, <2>1, <2>3 DEF World, Kind
  <2>5. ~(run["home"].request = "home" /\ world.clean)
    BY <1>0, <2>2, RunFacts DEF HomingInv, OutlineOf
  <2> QED
    BY <1>0, <2>2, <2>4, <2>5, NextHolds
<1>2. CASE Looper_Close
  <2>1. world' = CloseAndZero(world) /\ run' = Leave("looper")
    BY <1>2 DEF Looper_Close
  <2>2. world' \in World /\ ~world'.clean /\ world'.dev.kind = Kind
    BY <1>0, <2>1, Closes DEF Kind
  <2>3. run' \in Runs(Kind)
    BY <1>0, <2>1, LeaveRuns DEF Threads
  <2> QED
    BY <1>0, <2>2, <2>3, NextHolds
<1> QED
  BY <1>1, <1>2

\* The host is lost or comes back.
LEMMA LinkHolds == ASSUME HomingInv, Link_Lost \/ Link_Back PROVE HomingKept
<1>0. Typed /\ world \in World /\ run \in Runs(Kind) /\ run' = run
  BY DEF HomingInv, Typed, Link_Lost, Link_Back
<1>1. PICK s \in Socket_Info : /\ s = [world.sock EXCEPT !.alive = FALSE]
                               /\ s.connected = world.sock.connected /\ ~s.alive
  <2> DEFINE z == [world.sock EXCEPT !.alive = FALSE]
  <2>1. world.sock \in Socket_Info
    BY <1>0 DEF World
  <2>2. z \in Socket_Info /\ z.connected = world.sock.connected /\ ~z.alive
    BY <2>1 DEF Socket_Info
  <2> QED
    BY <2>2
<1>2. /\ world' \in World /\ world'.dev = world.dev /\ world'.data = world.data
      /\ world'.clean = world.clean /\ world'.sock.connected = world.sock.connected
      /\ Dead(world.sock) => Dead(world'.sock)
  <2>1. CASE Link_Back
    BY <1>0, <2>1 DEF Link_Back
  <2>2. CASE Link_Lost
    <3> DEFINE x == [world EXCEPT !.sock = s]
    <3>1. x \in World /\ x.dev = world.dev /\ x.data = world.data /\ x.clean = world.clean /\ x.sock = s
          /\ x.faults = world.faults
      BY <1>0 DEF World
    <3>2. world' = [x EXCEPT !.faults = world.faults - 1]
      BY <1>0, <1>1, <2>2 DEF Link_Lost, World
    <3> HIDE DEF x
    <3>3. world' \in World /\ world'.dev = x.dev /\ world'.data = x.data /\ world'.clean = x.clean
          /\ world'.sock = s
      <4>1. world.faults - 1 \in 0 .. MaxFaults
        BY <1>0, <2>2, MotorsAssumption DEF Link_Lost, World
      <4> QED
        BY <3>1, <3>2, <4>1 DEF World
    <3> QED
      BY <1>1, <3>1, <3>3 DEF Dead
  <2> QED
    BY <2>1, <2>2
<1>3. ASSUME run'["home"].request = "home", world'.clean
      PROVE  OutlineOf(world', run')
  <2>1. OutlineOf(world, run)
    BY <1>0, <1>2, <1>3, RunFacts DEF HomingInv
  <2>2. run["client"].request = "none"
    BY <2>1 DEF OutlineOf
  <2> QED
    BY <1>0, <1>2, <2>1, <2>2, Untouched
<1> QED
  BY <1>0, <1>2, <1>3, NextHolds DEF Kind

\* The motor moves.
LEMMA MoveHolds == ASSUME HomingInv, Device_Move PROVE HomingKept
<1>0. Typed /\ world \in World /\ run \in Runs(Kind) /\ run' = run /\ world.dev \in Sane /\ world.dev.moving
  BY KindFacts DEF HomingInv, Typed, Device_Move
<1>1. PICK e \in Moved(Kind, world.dev) : world' = [world EXCEPT !.dev = e]
  BY DEF Device_Move, Moved
<1>2. e \in Sane /\ Stretch(world.dev, e)
  BY <1>0, MovedMotor DEF Kind
<1>3. /\ world' \in World /\ world'.dev = e /\ world'.data = world.data /\ world'.clean = world.clean
      /\ world'.sock = world.sock
  BY <1>0, <1>1, <1>2 DEF World
<1>4. ASSUME run'["home"].request = "home", world'.clean
      PROVE  OutlineOf(world', run')
  <2> DEFINE n == run["home"].pc
             p == Phase(Kind, n)
             d == world.dev
  <2>1. OutlineOf(world, run)
    BY <1>0, <1>3, <1>4, RunFacts DEF HomingInv
  <2>2. In(p, d) /\ Extras(Kind, n, d) /\ n \in 1 .. Length(Kind) + 1
    BY <2>1 DEF OutlineOf, HomeState, Kind
  <2>3. p \in IF d.kind = "OAP" THEN MarkPhases ELSE LimitPhases
    BY PhaseKinds DEF Kind
  <2>4. In(p, e) /\ \A f : Tells(p, f, d) => Tells(p, f, e)
    BY <1>0, <2>2, <2>3, PhaseGoesOn DEF Kind
  <2>5. e.kind = Kind /\ e.enabled = d.enabled /\ e.zero = d.zero /\ e.speed = d.speed /\ e.trigger = d.trigger
    BY <1>2 DEF Stretch, Kind
  <2>6. Extras(Kind, n, e)
    BY <2>2, <2>5 DEF Extras
  <2> HIDE DEF p
  <2>7. HomeState(Kind, n, e)
    BY <2>2, <2>4, <2>6 DEF HomeState, p
  <2> QED
    BY <1>0, <1>3, <2>1, <2>4, <2>5, <2>7 DEF OutlineOf, Kind, p
<1> QED
  BY <1>0, <1>2, <1>3, <1>4, NextHolds DEF Stretch, Kind

\* A client asks for something, homing among it.
LEMMA RequestHolds ==
  ASSUME HomingInv, NEW c \in DOMAIN Text[Kind] \ {"looper"}, Client_Request(c)
  PROVE  HomingKept
<1> DEFINE t == IF c = "home" THEN "home" ELSE "client"
<1>0. Typed /\ world \in World /\ run \in Runs(Kind) /\ Kind \in Kinds /\ run \in [Threads -> Running]
  BY KindFacts, RunFacts DEF HomingInv, Typed
<1>1. /\ run' = [run EXCEPT ![t] = Begin(c)] /\ ~Busy(t) /\ world.sock.connected
      /\ world' = [world EXCEPT !.faults = IF asked THEN @ - 1 ELSE @,
                                !.clean = IF c = "home" THEN ~world.dev.moving /\ ~Busy("client")
                                          ELSE IF Homing THEN FALSE ELSE @]
  BY DEF Client_Request
<1>2. PICK b \in BOOLEAN : /\ b = (IF c = "home" THEN ~world.dev.moving /\ ~Busy("client")
                                   ELSE IF Homing THEN FALSE ELSE world.clean)
  <2>1. (IF c = "home" THEN ~world.dev.moving /\ ~Busy("client")
          ELSE IF Homing THEN FALSE ELSE world.clean) \in BOOLEAN
    BY <1>0 DEF World
  <2> QED
    BY <2>1
<1>3. PICK i \in 0 .. MaxFaults : i = IF asked THEN world.faults - 1 ELSE world.faults
  BY <1>0, MotorsAssumption DEF World, Client_Request
<1>4. /\ world' \in World /\ world'.dev = world.dev /\ world'.data = world.data
      /\ world'.sock = world.sock /\ world'.clean = b
  <2> DEFINE x == [world EXCEPT !.faults = i]
  <2>1. /\ x \in World /\ x.dev = world.dev /\ x.data = world.data /\ x.clean = world.clean
        /\ x.sock = world.sock
    BY <1>0 DEF World
  <2>2. world' = [x EXCEPT !.clean = b]
    BY <1>0, <1>1, <1>2, <1>3 DEF World
  <2> HIDE DEF x
  <2> QED
    BY <2>1, <2>2 DEF World
<1>5. c \in Requests /\ t \in Threads
  BY <1>0 DEF Requests, Threads
<1>6. Begin(c) \in Running /\ Begin(c).request = c /\ ~Begin(c).got.is /\ Begin(c).pc = 1
  BY <1>5, IdleIs
<1>7. /\ run' \in [Threads -> Running] /\ run'[t] = Begin(c)
      /\ \A u \in Threads : u # t => run'[u] = run[u]
  BY <1>0, <1>1, <1>5, <1>6
<1>8. run' \in Runs(Kind)
  BY <1>0, <1>6, <1>7 DEF Runs, Threads
<1>9. ASSUME run'["home"].request = "home", world'.clean
      PROVE  OutlineOf(world', run')
  <2>1. c = "home"
    <3>1. SUFFICES ASSUME c # "home" PROVE FALSE
      OBVIOUS
    <3>2. run'["home"] = run["home"]
      BY <1>7, <3>1 DEF Threads
    <3>3. Homing
      BY <1>9, <3>2 DEF Homing, Busy
    <3> QED
      BY <1>2, <1>4, <1>9, <3>1, <3>3
  <2>2. ~world.dev.moving /\ run["client"].request = "none"
    BY <1>2, <1>4, <1>9, <2>1 DEF Busy
  <2>3. run'["client"] = run["client"] /\ run'["looper"] = run["looper"] /\ run'["home"] = Begin(c)
    BY <1>7, <2>1 DEF Threads
  <2>4. Phase(Kind, 1) = "still"
    BY DEF Phase, FsmPhase, OapPhase, StagePhase
  <2>5. In("still", world.dev) /\ \A f : Tells("still", f, world.dev)
    BY <2>2 DEF In, Tells
  <2>6. Extras(Kind, 1, world.dev) /\ 1 \in 1 .. Length(Kind) + 1
    BY DEF Extras, Length
  <2>7. 1 \notin Asked(Kind)
    BY DEF Asked
  <2> QED
    BY <1>1, <1>4, <1>6, <2>2, <2>3, <2>4, <2>5, <2>6, <2>7 DEF OutlineOf, HomeState, Kind
<1> QED
  BY <1>0, <1>4, <1>8, <1>9, NextHolds DEF Kind

\* In the beginning nobody homes.
LEMMA InitHolds == Init => HomingInv
<1> SUFFICES ASSUME Init PROVE HomingInv
  OBVIOUS
<1>1. PICK k \in Kinds :
        world = [dev |-> Device_Init(k), sock |-> Socket_Setup,
                 data |-> [f \in Flags |-> FALSE], faults |-> MaxFaults, clean |-> TRUE]
  BY DEF Init
<1>2. Device_Init(k) \in Sane /\ Device_Init(k).kind = k
  BY MvpAssumption DEF Device_Init, Sane, Motor, Speeds
<1>3. Socket_Setup \in Socket_Info
  BY DEF Socket_Setup, Socket_Info, Descriptors
<1>4. [f \in Flags |-> FALSE] \in [Flags -> BOOLEAN] /\ MaxFaults \in 0 .. MaxFaults
  BY MotorsAssumption
<1>5. world \in World /\ Kind = k
  BY <1>1, <1>2, <1>3, <1>4 DEF World, Kind
<1>6. run = [t \in Threads |-> IF t = "looper" THEN Begin("looper") ELSE Idle]
  BY DEF Init
<1>7. run \in Runs(Kind) /\ run["home"].request = "none"
  BY <1>6, IdleIs DEF Runs, Threads, Requests
<1> QED
  BY <1>5, <1>7 DEF HomingInv, Typed, Homing, Busy

\* The speed is put back.
LEMMA SpeedBack ==
  ASSUME NEW w \in World, w.dev.kind = Kind, NEW r \in Call(w, "SetSpeed", "default")
  PROVE  Given(w, r)
<1>1. GoodCall(w.dev.kind, "SetSpeed", "default")
  BY DEF GoodCall, MvpOps, StageOps, Speeds
<1>2. r \in CallOf(w.dev.kind, w, "SetSpeed", "default")
  BY DEF Call, CallOf
<1> QED
  BY <1>1, <1>2, CallGives DEF Gives

\* A wait asks for the flags once more.
LEMMA PollHolds == ASSUME HomingInv, NEW t \in Threads, Thread_Poll(t) PROVE HomingKept
<1>0. Typed /\ AtStep(t, {"wait", "waitundo"}) /\ world \in World
  BY DEF HomingInv, Typed, Thread_Poll
<1>1. run[t] \in Running /\ Now(t).k \in {"wait", "waitundo"} /\ Busy(t) /\ run \in [Threads -> Running]
  BY <1>0, RunFacts, NowIs
<1>2. CASE ~Hopeless(t)
  <2>1. run' = [run EXCEPT ![t].polled = TRUE, ![t].count = @ + 1] /\ world' = world
    BY <1>2 DEF Thread_Poll
  <2>2. PICK y \in Running : y = run[t]
    BY <1>1
  <2> DEFINE z == [y EXCEPT !.polled = TRUE]
             x == [z EXCEPT !.count = z.count + 1]
  <2>3. z \in Running /\ z.request = y.request /\ z.pc = y.pc /\ z.got = y.got /\ z.count = y.count
    BY <2>2 DEF Running
  <2>4. run' = [run EXCEPT ![t] = [[y EXCEPT !.polled = TRUE] EXCEPT !.count = y.count + 1]]
    BY <1>1, <2>1, <2>2 DEF Running
  <2> HIDE DEF z
  <2>5. z.count + 1 \in Int
    BY <2>3 DEF Running
  <2>6. x \in Running /\ x.request = y.request /\ x.pc = y.pc /\ x.got = y.got
    BY <2>3, <2>5 DEF Running
  <2>7. run' = [run EXCEPT ![t] = x]
    BY <2>3, <2>4 DEF z
  <2> HIDE DEF x
  <2>8. /\ run' \in Runs(Kind) /\ run'[t] = x
        /\ \A u \in Threads : u # t => run'[u] = run[u]
    BY <1>0, <1>1, <2>2, <2>6, <2>7, WithRuns
  <2>9. world' = world
    BY <2>1
  <2> QED
    BY <2>2, <2>6, <2>8, <2>9, InPlace
<1>3. CASE Hopeless(t)
  <2>1. run' = Leave(t)
    BY <1>3 DEF Thread_Poll
  <2>2. world' \in World /\ world'.dev.kind = Kind /\ (world'.clean => world.clean)
    <3>1. CASE Now(t).k = "waitundo"
      <4>1. PICK r \in Call(world, "SetSpeed", "default") : world' = r.w
        BY <1>3, <3>1 DEF Thread_Poll
      <4>2. Given(world, r)
        BY <1>0, <4>1, SpeedBack DEF Kind
      <4> QED
        BY <4>1, <4>2 DEF Given, Kind
    <3>2. CASE Now(t).k # "waitundo"
      BY <1>0, <1>3, <3>2 DEF Thread_Poll, Kind
    <3> QED
      BY <3>1, <3>2
  <2>3. t # "looper"
    BY <1>0, <1>1, LooperNow DEF Looks
  <2> QED
    BY <1>0, <1>1, <2>1, <2>2, <2>3, LeaveRuns, Beside
<1> QED
  BY <1>2, <1>3

\* What is stored says what the reply said, or what the flags said before.
LEMMA Mixed ==
  ASSUME NEW p, NEW d, NEW g, Tells(p, g, d), NEW data \in [Flags -> BOOLEAN], NEW mix,
         mix = [f \in Flags |-> IF f \in DOMAIN g THEN g[f] ELSE data[f]],
         Tells(p, data, d) \/ Watched(p) \in DOMAIN g
  PROVE  Tells(p, mix, d)
<1>1. /\ DOMAIN mix = Flags /\ DOMAIN data = Flags
      /\ \A f \in Flags : mix[f] = IF f \in DOMAIN g THEN g[f] ELSE data[f]
  OBVIOUS
<1>2. "negative" \in Flags /\ "moving" \in Flags /\ "event_2" \in Flags
  BY FlagsAre
<1>3. CASE p \in {"down", "slowly"}
  BY <1>1, <1>2, <1>3 DEF Tells, Watched
<1>4. CASE p \in {"out", "back", "offset"}
  BY <1>1, <1>2, <1>4 DEF Tells, Watched
<1>5. CASE p \notin {"down", "slowly", "out", "back", "offset"}
  BY <1>1, <1>2, <1>5 DEF Tells, Watched
<1> QED
  BY <1>3, <1>4, <1>5

\* A thread gets flags from the motor.
LEMMA GetHolds == ASSUME HomingInv, NEW t \in Threads, Thread_Get(t) PROVE HomingKept
<1>0. Typed /\ AtStep(t, Asks) /\ world \in World /\ run \in [Threads -> Running]
  BY RunFacts DEF HomingInv, Typed, Thread_Get, Asks
<1>1. /\ run[t] \in Running /\ Now(t) \in Scripted(Kind) /\ Now(t).k \in Asks /\ Busy(t)
      /\ Now(t).flags \in SUBSET Flags /\ Now(t).n \in Nat /\ run[t].pc \in 1 .. Len(Script(t))
  BY <1>0, NowIs
<1>2. PICK r \in Call(world, Now(t).op, Now(t).arg) :
        IF r.ok
          THEN /\ world' = r.w
               /\ run' = [run EXCEPT ![t].got =
                            [is |-> TRUE, flags |-> [f \in Now(t).flags |-> Told[f]], old |-> FALSE]]
        ELSE CASE Now(t).k = "gettry"  -> /\ world' = [r.w EXCEPT !.clean = FALSE]
                                          /\ run' = Go(t, 1 + Now(t).n)
               [] Now(t).k = "getdo"   -> /\ world' = CloseAndZero(r.w)
                                          /\ run' = Leave(t)
               [] Now(t).k = "getturn" -> /\ world' = r.w
                                          /\ run' = [run EXCEPT ![t].pc = ToClose]
  BY DEF Thread_Get
<1>3. Given(world, r) /\ r.w.dev = world.dev
  <2>1. Now(t).op = "Status"
    BY <1>1 DEF Scripted
  <2>2. GoodCall(Kind, "Status", Now(t).arg)
    BY DEF GoodCall, MvpOps, StageOps
  <2>3. r \in CallOf(Kind, world, "Status", Now(t).arg)
    BY <1>2, <2>1 DEF Call, CallOf
  <2> QED
    BY <1>0, <2>2, <2>3, CallGives DEF Gives, Kind
<1>4. r.w \in World /\ Undisturbed(world, r.w)
  BY <1>3 DEF Given, Undisturbed
<1>5. CASE r.ok
  <2> DEFINE told == [f \in Now(t).flags |-> Source_StatusMVP(world.dev)[f]]
             g == [is |-> TRUE, flags |-> told, old |-> FALSE]
  <2>1. told \in [Now(t).flags -> BOOLEAN]
    <3>1. world.dev \in Motor
      BY <1>0 DEF World, Sane
    <3>2. \A f \in Flags : Source_StatusMVP(world.dev)[f] \in BOOLEAN
      <4>1. world.dev.moving \in BOOLEAN /\ world.dev.enabled \in BOOLEAN /\ world.dev.home \in BOOLEAN
        BY <3>1 DEF Motor
      <4>2. /\ (world.dev.kind # "OAP" /\ world.dev.at <= Edge) \in BOOLEAN
            /\ (world.dev.kind = "OAP" /\ world.dev.at >= Mark) \in BOOLEAN
        OBVIOUS
      <4>3. world.dev.home \in BOOLEAN /\ FALSE \in BOOLEAN
        BY <4>1
      <4> DEFINE answer == Source_StatusMVP(world.dev)
      <4>4. /\ answer["moving"] \in BOOLEAN /\ answer["enabled"] \in BOOLEAN /\ answer["error"] \in BOOLEAN
            /\ answer["negative"] \in BOOLEAN /\ answer["event_2"] \in BOOLEAN /\ answer["home"] \in BOOLEAN
        BY <4>1, <4>2 DEF Source_StatusMVP
      <4> HIDE DEF answer
      <4> QED
        BY <4>4, FlagsAre DEF answer
    <3> HIDE DEF told
    <3>3. \A f \in Now(t).flags : told[f] = Source_StatusMVP(world.dev)[f]
      BY DEF told
    <3>4. told = [f \in Now(t).flags |-> told[f]]
      BY DEF told
    <3> QED
      BY <1>1, <3>2, <3>3, <3>4
  <2>2. world' = r.w /\ run' = [run EXCEPT ![t].got = g]
    BY <1>2, <1>5 DEF Told
  <2> HIDE DEF told
  <2>3. g \in Replies /\ g.is /\ ~g.old /\ g.flags = told /\ DOMAIN told = Now(t).flags
    BY <1>1, <2>1 DEF Replies
  <2> HIDE DEF g
  <2>4. PICK y \in Running : y = run[t]
    BY <1>1
  <2> DEFINE x == [y EXCEPT !.got = g]
  <2>5. x \in Running /\ x.request = y.request /\ x.pc = y.pc /\ x.got = g
    BY <2>3 DEF Running
  <2>6. run' = [run EXCEPT ![t] = x]
    BY <1>0, <2>2, <2>4
  <2> HIDE DEF x
  <2>7. run' \in Runs(Kind) /\ run'[t] = x /\ \A u \in Threads : u # t => run'[u] = run[u]
    BY <1>0, <2>4, <2>5, <2>6, WithRuns
  <2>8. ASSUME run'["home"].request = "home", world'.clean
        PROVE  OutlineOf(world', run')
    <3>1. \A u \in Threads : run'[u].request = run[u].request /\ run'[u].pc = run[u].pc
      BY <2>4, <2>5, <2>7
    <3>2. OutlineOf(world, run) /\ Homing
      BY <1>0, <1>4, <2>2, <2>8, <3>1, RunFacts DEF HomingInv, Undisturbed, Threads
    <3>3. run'["client"].request = "none" /\ t # "client"
      BY <1>1, <3>1, <3>2 DEF OutlineOf, Threads, Busy
    <3> DEFINE p == Phase(Kind, run["home"].pc)
    <3>4. Tells(p, told, world.dev)
      <4>1. p \in IF world.dev.kind = "OAP" THEN MarkPhases ELSE LimitPhases
        BY PhaseKinds DEF Kind
      <4>2. In(p, world.dev) /\ world.dev \in Sane
        BY <1>0, <3>2 DEF OutlineOf, HomeState, Kind, World
      <4> HIDE DEF p
      <4> QED
        BY <1>1, <4>1, <4>2, ToldTells DEF told
    <3>5. t = "home" => Now(t) = Text[Kind]["home"][run["home"].pc] /\ run["home"].pc <= Len(Text[Kind]["home"])
      BY <1>0, <1>1, <3>2, HomeScript DEF Now
    <3>6. ASSUME NEW u \in {"looper", "home"}, run'[u].got.is, ~run'[u].got.old
          PROVE  Tells(p, run'[u].got.flags, world.dev)
      <4>1. CASE u = t
        BY <2>3, <2>5, <2>7, <3>4, <4>1
      <4>2. CASE u # t
        <5>1. run'[u] = run[u]
          BY <2>7, <4>2 DEF Threads
        <5> QED
          BY <3>2, <3>6, <5>1 DEF OutlineOf, Kind
      <4> QED
        BY <4>1, <4>2
    <3>7. run'["home"].got.is =>
            /\ run["home"].pc <= Len(Text[Kind]["home"])
            /\ Text[Kind]["home"][run["home"].pc].k \in Asks
            /\ DOMAIN run'["home"].got.flags = Text[Kind]["home"][run["home"].pc].flags
      <4>1. CASE t = "home"
        BY <1>1, <2>3, <2>5, <2>7, <3>5, <4>1
      <4>2. CASE t # "home"
        <5>1. run'["home"] = run["home"]
          BY <2>7, <4>2 DEF Threads
        <5> QED
          BY <3>2, <5>1 DEF OutlineOf, Kind
      <4> QED
        BY <4>1, <4>2
    <3>8. run'["home"].pc = run["home"].pc
      BY <3>1 DEF Threads
    <3> QED
      BY <1>3, <1>4, <2>2, <2>8, <3>2, <3>3, <3>6, <3>7, <3>8 DEF OutlineOf, Undisturbed, Kind
  <2> QED
    BY <1>0, <1>3, <1>4, <2>2, <2>7, <2>8, NextHolds DEF Kind
<1>6. CASE ~r.ok /\ Now(t).k = "gettry"
  <2>1. world' = [r.w EXCEPT !.clean = FALSE] /\ run' = Go(t, 1 + Now(t).n)
    BY <1>2, <1>6
  <2>2. world' \in World /\ ~world'.clean /\ world'.dev = world.dev
    BY <1>3, <1>4, <2>1 DEF World
  <2>3. run[t].pc + (1 + Now(t).n) >= 1 /\ 1 + Now(t).n \in Int
    BY <1>1
  <2>4. run' \in Runs(Kind)
    BY <1>0, <2>1, <2>3, GoRuns
  <2> QED
    BY <1>0, <2>2, <2>4, NextHolds DEF Kind
<1>7. CASE ~r.ok /\ Now(t).k = "getdo"
  <2>1. world' = CloseAndZero(r.w) /\ run' = Leave(t)
    BY <1>2, <1>7
  <2> QED
    BY <1>0, <1>3, <1>4, <2>1, Closes, LeaveRuns, NextHolds DEF Kind
<1>8. CASE ~r.ok /\ Now(t).k = "getturn"
  <2>1. world' = r.w /\ run' = [run EXCEPT ![t].pc = ToClose]
    BY <1>2, <1>8
  <2>2. /\ run' \in Runs(Kind) /\ run'[t].got = run[t].got
        /\ \A u \in Threads : u # t => run'[u] = run[u]
    BY <1>0, <2>1, ToCloseIs
  <2>3. t # "home"
    <3>1. SUFFICES ASSUME t = "home" PROVE FALSE
      OBVIOUS
    <3>2. Placed(Kind, run["home"].pc, Now("home"))
      BY <1>0, <3>1, HomeNow DEF Fits
    <3> QED
      BY <1>8, <3>1, <3>2 DEF Placed, Calls
  <2> QED
    BY <1>0, <1>1, <1>3, <1>4, <2>1, <2>2, <2>3, Beside DEF Undisturbed, Kind
<1> QED
  BY <1>1, <1>5, <1>6, <1>7, <1>8 DEF Asks

\* A thread stores the flags it has got.
LEMMA StoreHolds == ASSUME HomingInv, NEW t \in Threads, Thread_Store(t) PROVE HomingKept
<1> DEFINE g == run[t].got
           pc == run[t].pc
           mix == [f \in Flags |-> IF f \in DOMAIN g.flags THEN g.flags[f] ELSE world.data[f]]
<1>0. Typed /\ AtStep(t, Asks) /\ world \in World /\ run \in [Threads -> Running]
  BY RunFacts DEF HomingInv, Typed, Thread_Store, Asks
<1>1. /\ run[t] \in Running /\ Now(t) \in Scripted(Kind) /\ Now(t).k \in Asks /\ Busy(t)
      /\ pc \in Nat \ {0} /\ g \in Replies
  BY <1>0, NowIs DEF Running
<1>2. /\ g.is /\ world' = [world EXCEPT !.data = mix, !.clean = @ /\ ~g.old]
      /\ run' = [Go(t, 1) EXCEPT ![t].got = NoReply]
  BY DEF Thread_Store
<1>3. mix \in [Flags -> BOOLEAN]
  <2>1. PICK S \in SUBSET Flags : g.flags \in [S -> BOOLEAN]
    BY <1>1 DEF Replies
  <2>2. world.data \in [Flags -> BOOLEAN]
    BY <1>0 DEF World
  <2> HIDE DEF g
  <2> QED
    BY <2>1, <2>2
<1>4. /\ world' \in World /\ world'.dev = world.dev /\ world'.data = mix /\ world'.sock = world.sock
      /\ world'.clean = (world.clean /\ ~g.old)
  <2> HIDE DEF mix, g
  <2> DEFINE a == [world EXCEPT !.data = mix]
  <2>1. /\ a \in World /\ a.dev = world.dev /\ a.data = mix /\ a.sock = world.sock /\ a.clean = world.clean
    BY <1>0, <1>3 DEF World
  <2>2. PICK b \in BOOLEAN : b = (world.clean /\ ~g.old)
    <3>1. (world.clean /\ ~g.old) \in BOOLEAN
      OBVIOUS
    <3> QED
      BY <3>1
  <2>3. world' = [a EXCEPT !.clean = b]
    BY <1>0, <1>2, <2>2 DEF World
  <2> HIDE DEF a
  <2> QED
    BY <2>1, <2>2, <2>3 DEF World
<1> HIDE DEF mix
<1>5. /\ run' \in Runs(Kind) /\ run'[t].pc = pc + 1 /\ ~run'[t].got.is
      /\ \A u \in Threads : u # t => run'[u] = run[u]
  <2>1. PICK q \in Runs(Kind) : q = Go(t, 1)
    BY <1>0, <1>1, GoRuns
  <2>2. q[t].pc = pc + 1 /\ q[t].request = run[t].request /\ \A u \in Threads : u # t => q[u] = run[u]
    BY <1>0, <2>1, GoIs
  <2>3. q \in [Threads -> Running]
    BY <2>1 DEF Runs
  <2>4. PICK y \in Running : y = q[t]
    BY <2>3
  <2> DEFINE x == [y EXCEPT !.got = NoReply]
  <2>5. x \in Running /\ x.request = y.request /\ x.pc = y.pc /\ ~x.got.is
    BY <2>4, IdleIs DEF Running
  <2>6. run' = [q EXCEPT ![t] = x]
    BY <1>2, <2>1, <2>3, <2>4
  <2> HIDE DEF x, pc, g
  <2>7. x.request = q[t].request
    BY <2>4, <2>5
  <2>8. [q EXCEPT ![t] = x] \in Runs(Kind)
    BY <2>1, <2>5, <2>7, StepsRuns
  <2> QED
    BY <2>2, <2>3, <2>4, <2>5, <2>6, <2>8
<1>6. ASSUME run'["home"].request = "home", world'.clean
      PROVE  OutlineOf(world', run')
  <2> DEFINE n == run["home"].pc
             p == Phase(Kind, n)
             d == world.dev
  <2>1. OutlineOf(world, run) /\ Homing
    <3>1. CASE t = "home"
      BY <1>0, <1>1, <1>4, <1>6, <3>1 DEF HomingInv, Homing
    <3>2. CASE t # "home"
      <4>1. run'["home"] = run["home"]
        BY <1>5, <3>2 DEF Threads
      <4> QED
        BY <1>0, <1>4, <1>6, <4>1, RunFacts DEF HomingInv
    <3> QED
      BY <3>1, <3>2
  <2>2. run["client"].request = "none" /\ t # "client"
    BY <1>1, <2>1 DEF OutlineOf, Busy
  <2>3. run'["client"].request = "none"
    BY <1>5, <2>2 DEF Threads
  <2>4. t \in {"looper", "home"} /\ Tells(p, g.flags, d)
    BY <1>2, <1>4, <1>6, <2>1, <2>2 DEF OutlineOf, Kind, Threads
  <2>5. Tells(p, world.data, d) \/ Watched(p) \in DOMAIN g.flags => Tells(p, mix, d)
    <3>1. world.data \in [Flags -> BOOLEAN]
      BY <1>0 DEF World
    <3> HIDE DEF p, g
    <3> QED
      BY <2>4, <3>1, Mixed DEF mix
  <2>6. CASE t = "looper"
    <3>1. run'["home"] = run["home"]
      BY <1>5, <2>6 DEF Threads
    <3>2. n \in Asked(Kind) => Tells(p, mix, d)
      BY <2>1, <2>5 DEF OutlineOf, Kind
    <3>3. \A u \in {"looper", "home"} : run'[u].got.is => run'[u] = run[u]
      BY <1>5, <2>6, <3>1
    <3> HIDE DEF g, mix
    <3> QED
      BY <1>4, <2>1, <2>3, <3>1, <3>2, <3>3 DEF OutlineOf, Kind
  <2>7. CASE t = "home"
    <3>1. Placed(Kind, n, Now("home")) /\ Keeps(Kind, n, Now("home"))
      BY <1>0, <2>7, HomeNow DEF Fits
    <3>2. Now("home").k \in {"gettry", "getdo"} /\ ~(Kind = "Stage" /\ n + 1 = 3)
      <4>1. Now("home").k \in {"gettry", "getdo"}
        BY <1>1, <2>7, <3>1 DEF Placed, Asks, Calls
      <4>2. Kind = "Stage" /\ n = 2 => Now("home").k = "try"
        BY <3>1 DEF Placed
      <4> QED
        BY <1>1, <2>7, <4>1, <4>2
    <3>3. HomeState(Kind, n, d) /\ d \in Sane /\ d.kind = Kind
      BY <1>0, <2>1, KindFacts DEF OutlineOf, Kind
    <3>4. OnTo(Kind, n, n + 1, d, d)
      BY <3>1, <3>2, <3>3 DEF Keeps
    <3>5. DOMAIN g.flags = Now("home").flags
      <4>1. Script("home") = Text[Kind]["home"]
        BY <1>0, <2>1, HomeScript
      <4> QED
        BY <1>2, <2>1, <2>7, <4>1 DEF OutlineOf, Now, Kind
    <3>6. n + 1 \in Asked(Kind) => Tells(Phase(Kind, n + 1), mix, d)
      <4>1. n \in Asked(Kind) => Tells(p, world.data, d)
        BY <2>1 DEF OutlineOf, Kind
      <4>2. n + 1 \in Asked(Kind) =>
              Phase(Kind, n + 1) = p /\ (n \in Asked(Kind) \/ Watched(p) \in Now("home").flags)
        BY <3>1 DEF Placed
      <4> HIDE DEF g, n, p
      <4> QED
        BY <2>5, <3>5, <4>1, <4>2
    <3>7. run'["looper"] = run["looper"] /\ run'["home"].pc = n + 1 /\ ~run'["home"].got.is
      BY <1>5, <2>7 DEF Threads
    <3>8. world'.sock.connected /\ world'.data = mix /\ world'.dev = d
      BY <1>4, <2>1 DEF OutlineOf
    <3>9. HomeState(Kind, n + 1, world'.dev) /\ StillTells(Kind, n, n + 1, d, world'.dev)
      BY <3>4, <3>8 DEF OnTo
    <3>10. Kind = d.kind /\ Kind = world'.dev.kind
      BY <3>8 DEF Kind
    <3> DEFINE m == n + 1
    <3>11. /\ HomeState(Kind, m, world'.dev) /\ StillTells(Kind, n, m, d, world'.dev)
           /\ ~(Kind = "Stage" /\ m = 3) /\ run'["home"].pc = m
           /\ m \in Asked(Kind) => Tells(Phase(Kind, m), world'.data, world'.dev)
      BY <3>2, <3>6, <3>7, <3>8, <3>9
    <3> HIDE DEF m
    <3> QED
      BY <2>1, <2>3, <3>7, <3>8, <3>10, <3>11, HomeGoesOn
  <2> QED
    BY <2>4, <2>6, <2>7
<1> QED
  BY <1>0, <1>4, <1>5, <1>6, NextHolds DEF Kind

\* What a routine that was called leaves: of the motor, and of the other threads.
LEMMA CallHolds == ASSUME HomingInv, NEW t \in Threads, Thread_Call(t) PROVE HomingKept
<1> DEFINE K == {"do", "undo", "try", "turn"}
           op == Now(t).op
           arg == Now(t).arg
           pc == run[t].pc
<1>0. Typed /\ AtStep(t, K) /\ world \in World
  BY DEF HomingInv, Typed, Thread_Call
<1>1. Now(t) \in Scripted(Kind) /\ Now(t).k \in K /\ Busy(t) /\ pc \in Nat \ {0}
  BY <1>0, NowIs, RunFacts DEF Running
<1>2. PICK r \in Call(world, op, arg) :
        LET k     == Now(t).k
            mixed == t = "client" /\ Homing /\ Now(t).op # "Position"
            w     == IF mixed THEN [r.w EXCEPT !.clean = FALSE] ELSE r.w
            failed == ~r.ok /\ k # "try" IN
        /\ run' = Outdated(IF ~failed THEN Go(t, 1)
                           ELSE IF k = "turn" THEN [run EXCEPT ![t].pc = ToClose]
                           ELSE Leave(t), t, Now(t).op)
        /\ IF failed /\ k = "undo"
             THEN \E back \in Call(w, "SetSpeed", "default") : world' = back.w
             ELSE world' = w
  BY DEF Thread_Call
<1> DEFINE w == IF t = "client" /\ Homing /\ op # "Position" THEN [r.w EXCEPT !.clean = FALSE] ELSE r.w
           failed == ~r.ok /\ Now(t).k # "try"
<1>3. GoodCall(Kind, op, arg) /\ Gives(Kind, world, op, arg, r) /\ Given(world, r)
  <2>1. GoodCall(Kind, op, arg)
    BY <1>1 DEF Scripted
  <2>2. r \in CallOf(Kind, world, op, arg)
    BY <1>2 DEF Call, CallOf
  <2> HIDE DEF op, arg
  <2> QED
    BY ZenonT(30), <1>0, <2>1, <2>2, CallGives DEF Gives, Kind
<1>4. /\ world' \in World /\ world'.dev.kind = Kind /\ (world'.clean => world.clean)
      /\ t # "client" /\ ~(failed /\ Now(t).k = "undo") => world' = r.w
  <2>1. w \in World /\ w.dev.kind = Kind /\ (w.clean => world.clean) /\ (t # "client" => w = r.w)
    <3>1. r.w \in World /\ r.w.dev.kind = Kind /\ (r.w.clean => world.clean)
      BY <1>3 DEF Given, Kind
    <3>2. CASE w = r.w
      BY <3>1, <3>2
    <3>3. CASE w = [r.w EXCEPT !.clean = FALSE] /\ t = "client"
      BY <3>1, <3>3 DEF World
    <3> QED
      BY <3>2, <3>3
  <2>2. CASE failed /\ Now(t).k = "undo"
    <3>1. PICK back \in Call(w, "SetSpeed", "default") : world' = back.w
      BY <1>2, <2>2
    <3> HIDE DEF w
    <3>2. Given(w, back)
      BY <2>1, <3>1, SpeedBack
    <3> QED
      BY <2>1, <2>2, <3>1, <3>2 DEF Given
  <2>3. CASE ~(failed /\ Now(t).k = "undo")
    <3>1. world' = w
      BY <1>2, <2>3
    <3> QED
      BY <2>1, <3>1
  <2> QED
    BY <2>2, <2>3
<1> HIDE DEF w
<1>5. PICK q \in Runs(Kind) :
        /\ run' = Outdated(q, t, op) /\ (q[t].got.is => q[t].got = run[t].got)
        /\ \A u \in Threads : u # t => q[u] = run[u]
        /\ t = "home" /\ failed => q[t].request # "home" \/ Now(t).k = "turn"
        /\ ~failed => q[t].pc = pc + 1
        /\ q[t].request = "home" => run[t].request = "home"
  <2>1. CASE ~failed
    <3>1. PICK q \in Runs(Kind) : q = Go(t, 1)
      BY <1>0, <1>1, GoRuns
    <3>2. run' = Outdated(q, t, op)
      BY <1>2, <2>1, <3>1
    <3> HIDE DEF op, pc
    <3>3. /\ q[t].got = run[t].got /\ q[t].request = run[t].request /\ q[t].pc = pc + 1
          /\ \A u \in Threads : u # t => q[u] = run[u]
      BY <1>0, <3>1, GoIs DEF pc
    <3> QED
      BY <2>1, <3>2, <3>3
  <2>2. CASE failed /\ Now(t).k = "turn"
    <3> DEFINE q == [run EXCEPT ![t].pc = ToClose]
    <3>1. run' = Outdated(q, t, op)
      BY <1>2, <2>2
    <3> HIDE DEF q, op, pc
    <3>2. /\ q \in Runs(Kind) /\ q[t].got = run[t].got /\ q[t].request = run[t].request
          /\ \A u \in Threads : u # t => q[u] = run[u]
      BY <1>0, ToCloseIs DEF q
    <3> QED
      BY <2>2, <3>1, <3>2
  <2>3. CASE failed /\ Now(t).k # "turn"
    <3>1. PICK q \in Runs(Kind) : q = Leave(t)
      BY <1>0, LeaveRuns
    <3>2. run' = Outdated(q, t, op)
      BY <1>2, <2>3, <3>1
    <3> HIDE DEF op, pc
    <3>3. /\ ~q[t].got.is /\ (q["home"].request = "home" => t # "home")
          /\ \A u \in Threads : u # t => q[u] = run[u]
      BY <1>0, <3>1, LeaveRuns
    <3>4. q[t].request # "home"
      <4>1. q["looper"].request = "looper" /\ q["client"].request # "home"
        BY RunFacts DEF Runs
      <4> QED
        BY <3>3, <4>1 DEF Threads
    <3> QED
      BY <2>3, <3>2, <3>3, <3>4
  <2> QED
    BY <2>1, <2>2, <2>3
<1>6. /\ run' \in Runs(Kind) /\ run'[t] = q[t]
      /\ \A u \in Threads :
           /\ run'[u].request = q[u].request /\ run'[u].pc = q[u].pc
           /\ run'[u].got.is => /\ q[u].got.is /\ run'[u].got.flags = q[u].got.flags
                                /\ q[u].got.old => run'[u].got.old
                                /\ op = "MoveRelative" /\ u # t => run'[u].got.old
  <2> HIDE DEF op
  <2> QED
    BY <1>5, OutdatedIs
<1>7. ASSUME run'["home"].request = "home", world'.clean
      PROVE  OutlineOf(world', run')
  <2> DEFINE n == run["home"].pc
             d == world.dev
  <2>1. OutlineOf(world, run) /\ Homing
    <3>1. run["home"].request = "home"
      <4>1. q["home"].request = "home"
        BY <1>6, <1>7 DEF Threads
      <4> QED
        BY <1>5, <4>1 DEF Threads
    <3> QED
      BY <1>0, <1>4, <1>7, <3>1, RunFacts DEF HomingInv
  <2>2. run["client"].request = "none" /\ t # "client"
    BY <1>1, <2>1 DEF OutlineOf, Busy
  <2>3. run'["client"].request = "none"
    BY <1>5, <1>6, <2>2 DEF Threads
  <2>4. CASE t = "looper"
    <3>1. Now(t).k = "turn" /\ op \in {"Position", "Status"}
      BY <1>0, <1>1, <2>4, LooperNow DEF Looks
    <3>2. world' = r.w /\ r.w.dev = world.dev
      BY <1>3, <1>4, <2>2, <3>1 DEF Gives
    <3>3. run'["home"].pc = run["home"].pc
      BY <1>5, <1>6, <2>4 DEF Threads
    <3>4. \A u \in {"looper", "home"} : run'[u].got.is =>
            run[u].got.is /\ run'[u].got.flags = run[u].got.flags /\ (~run'[u].got.old => ~run[u].got.old)
      BY <1>5, <1>6, <2>4 DEF Threads
    <3>5. /\ world'.dev = world.dev /\ world'.data = world.data
          /\ world'.sock.connected = world.sock.connected /\ (Dead(world.sock) => Dead(world'.sock))
      BY <1>3, <1>7, <3>2 DEF Given
    <3> HIDE DEF op, failed
    <3> QED
      BY <2>1, <2>3, <3>3, <3>4, <3>5, Untouched
  <2>5. CASE t = "home"
    <3>0. Fits(Kind, n, Now("home")) /\ n \in 1 .. Length(Kind)
      BY <1>0, <2>5, HomeNow
    <3>1. Placed(Kind, n, Now("home")) /\ Keeps(Kind, n, Now("home"))
      BY <3>0 DEF Fits
    <3>2. Now("home").k \in Calls /\ op \in Plain
      BY <1>1, <2>5, <3>1 DEF Placed, Calls
    <3>3. ~failed
      BY <1>5, <1>6, <1>7, <2>5, <3>2 DEF Calls
    <3>4. /\ world' = r.w /\ world'.data = world.data /\ world'.sock.connected
          /\ Dead(world.sock) => Dead(world'.sock)
      BY <1>3, <1>4, <1>7, <2>1, <2>2, <3>3 DEF Given, OutlineOf
    <3>5. HomeState(Kind, n, d) /\ d \in Sane /\ d.kind = Kind
      BY <1>0, <2>1, KindFacts DEF OutlineOf, Kind
    <3>6. ~run'["home"].got.is
      <4>1. run["home"].got.is => Now("home").k \in Asks
        <5>1. Script("home") = Text[Kind]["home"]
          BY <1>0, <2>1, HomeScript
        <5> QED
          BY <2>1, <5>1 DEF OutlineOf, Now, Kind
      <4> QED
        BY <1>5, <1>6, <2>5, <3>2, <4>1 DEF Calls, Asks
    <3>7. /\ HomeState(Kind, n + 1, world'.dev)
          /\ op # "MoveRelative" => StillTells(Kind, n, n + 1, d, world'.dev)
          /\ Kind = "Stage" /\ n = 2 => world'.dev.enabled \/ Dead(world'.sock)
      <4>1. CASE r.ok
        <5> DEFINE e == Effect(op, arg, d)
        <5>1. world'.dev = e /\ ~Dead(world.sock)
          BY <1>3, <1>7, <3>2, <3>4, <4>1 DEF Gives
        <5>2. e \in Sane /\ Effected(op, arg, d, e)
          BY <1>3, <3>2, <3>5, PlainEffect
        <5>3. Kind = "Stage" /\ n = 3 => d.enabled
          BY <2>1, <5>1 DEF OutlineOf, Kind
        <5>4. Kind = "Stage" /\ n = 2 => op = "EN"
          BY <2>5, <3>1 DEF Placed
        <5> HIDE DEF e, n, d
        <5>5. /\ HomeState(Kind, n + 1, e)
              /\ op # "MoveRelative" => StillTells(Kind, n, n + 1, d, e)
          BY <2>5, <3>1, <3>2, <3>5, <5>2, <5>3 DEF Keeps
        <5>6. op = "EN" => e.enabled
          BY <5>2 DEF Effected
        <5> HIDE DEF op, arg
        <5> QED
          BY <5>1, <5>4, <5>5, <5>6
      <4>2. CASE ~r.ok
        <5>1. Now("home").k = "try"
          BY <2>5, <3>3, <4>2
        <5>2. Kind = "Stage" /\ op \in {"SetHomeFlag", "EN", "DI"}
          BY <2>5, <3>1, <5>1 DEF Placed
        <5>3. Dead(world.sock) /\ r.w.dev = world.dev
          BY <1>3, <1>7, <3>4, <4>2, <5>2 DEF Gives
        <5>4. OnTo(Kind, n, n + 1, d, d)
          BY <3>1, <3>5, <5>1 DEF Keeps
        <5> HIDE DEF op, n
        <5> QED
          BY <3>4, <5>3, <5>4 DEF OnTo
      <4> QED
        BY <4>1, <4>2
    <3> DEFINE m == n + 1
    <3>8. m \notin Asked(Kind) /\ run'["home"].pc = m
      <4>1. n + 1 \notin Asked(Kind)
        BY <3>1, <3>2 DEF Placed, Calls, Asks
      <4> QED
        BY <1>5, <1>6, <2>5, <3>3, <4>1
    <3>9. Kind = "Stage" /\ m = 3 => world'.dev.enabled \/ Dead(world'.sock)
      <4>1. m = 3 => n = 2
        BY <3>0
      <4> HIDE DEF m, n
      <4> QED
        BY <3>7, <4>1
    <3>10. run'["looper"].got.is /\ ~run'["looper"].got.old =>
             /\ run["looper"].got.is /\ run'["looper"].got.flags = run["looper"].got.flags
             /\ ~run["looper"].got.old /\ StillTells(Kind, n, m, d, world'.dev)
      <4>1. q["looper"] = run["looper"] /\ "looper" \in Threads /\ "looper" # t
        BY <1>5, <2>5 DEF Threads
      <4> HIDE DEF op, n, d
      <4> QED
        BY <1>6, <3>7, <4>1
    <3>11. HomeState(Kind, m, world'.dev) /\ Kind = d.kind /\ Kind = world'.dev.kind
      BY <1>4, <3>5, <3>7
    <3> HIDE DEF m, op, failed
    <3> QED
      BY <2>1, <2>3, <3>4, <3>6, <3>8, <3>9, <3>10, <3>11, HomeGoesOn
  <2> QED
    BY <2>2, <2>4, <2>5 DEF Threads
<1> QED
  BY <1>0, <1>4, <1>6, <1>7, NextHolds
-----------------------------------------------------------------------------
(* Homing is right                                                         *)

LEMMA StepHolds == HomingInv /\ [Next]_vars => HomingKept
<1> SUFFICES ASSUME HomingInv, [Next]_vars PROVE HomingKept
  OBVIOUS
<1>1. CASE UNCHANGED vars
  <2>1. world' = world /\ run' = run /\ run \in Runs(Kind)
    BY <1>1 DEF vars, HomingInv, Typed
  <2> QED
    BY <2>1, InPlace
<1>2. CASE Looper_Open \/ Looper_Close
  BY <1>2, LooperHolds
<1>3. ASSUME NEW t \in Threads, Thread(t)
      PROVE  HomingKept
  BY <1>3, CallHolds, GetHolds, StoreHolds, BranchHolds, PollHolds, PolledHolds, DoneHolds DEF Thread
<1>4. ASSUME NEW c \in DOMAIN Text[Kind] \ {"looper"}, Client_Request(c)
      PROVE  HomingKept
  BY <1>4, RequestHolds
<1>5. CASE Device_Move
  BY <1>5, MoveHolds
<1>6. CASE Link_Lost \/ Link_Back
  BY <1>6, LinkHolds
<1> QED
  BY <1>1, <1>2, <1>3, <1>4, <1>5, <1>6 DEF Next

\* Where the motor is when it is declared homed.
LEMMA HomedThere ==
  ASSUME HomingInv, DeclaresHome, world.clean
  PROVE  /\ ~world.dev.moving /\ world.dev.at = HomeAt(Kind)
         /\ world.dev.zero = HomeZero
<1> DEFINE n == run["home"].pc
<1>1. Typed /\ AtStep("home", Calls) /\ Now("home").op = "SetHomeFlag" /\ Now("home").arg = TRUE
  BY DEF HomingInv, DeclaresHome, Calls
<1>2. Homing /\ Fits(Kind, n, Now("home")) /\ Now("home").k \in Calls
  BY <1>1, HomeNow, NowIs DEF Threads
<1>3. OutlineOf(world, run)
  BY <1>2 DEF HomingInv
<1>4. In(Phase(Kind, n), world.dev) /\ Extras(Kind, n, world.dev)
  BY <1>3 DEF OutlineOf, HomeState, Kind
<1>5. Phase(Kind, n) = "home" /\ n >= (IF Kind = "FSM" THEN 29 ELSE 26)
  BY <1>1, <1>2 DEF Fits, Placed
<1>6. ~world.dev.moving /\ world.dev.at = HomeAt(Kind)
  BY <1>4, <1>5 DEF In, Kind
<1>7. Kind \in {"FSM", "OAP", "Stage"}
  BY <1>1, KindFacts
<1>8. world.dev.zero = HomeZero
  BY <1>4, <1>5, <1>7 DEF Extras, HomeZero, HomeAt
<1> QED
  BY <1>6, <1>8

\* How the motor is left when homing has ended.
LEMMA TidyThere ==
  ASSUME HomingInv, Homing, run["home"].pc > Len(Script("home")), world.clean
  PROVE  world.dev.speed = "default" /\ ~world.dev.trigger
<1> DEFINE n == run["home"].pc
<1>1. Typed /\ OutlineOf(world, run) /\ Len(Script("home")) = Length(Kind)
  BY HomeScript DEF HomingInv
<1>2. n > Length(Kind) /\ n \in 1 .. Length(Kind) + 1 /\ Extras(Kind, n, world.dev)
  BY <1>1 DEF OutlineOf, HomeState, Kind
<1>3. world.dev \in Sane /\ Kind = world.dev.kind
  BY <1>1, KindFacts DEF Kind
<1>4. Kind = "OAP" => n >= 20
  <2>1. Length("OAP") = 27
    BY DEF Length
  <2> HIDE DEF n
  <2> QED
    BY <1>2, <2>1
<1>5. world.dev.speed = "default" /\ (Kind = "OAP" => ~world.dev.trigger)
  BY <1>2, <1>4 DEF Extras
<1> QED
  BY <1>3, <1>5 DEF Sane

\* Whatever the timing of the looper, the motor, the client and the network:
\* HSO..._Home homes a motor where it stands, and leaves it tidy.
THEOREM HomingIsRight == Spec => HomingRight
<1>1. HomingInv /\ [Next]_vars =>
        [DeclaresHome /\ world.clean
           => /\ ~world.dev.moving /\ world.dev.at = HomeAt(Kind)
              /\ world.dev.zero = HomeZero]_vars
  BY HomedThere
<1>2. HomingInv /\ [Next]_vars =>
        [Homing /\ ~Homing' /\ run["home"].pc > Len(Script("home")) /\ world.clean
           => world.dev.speed = "default" /\ ~world.dev.trigger]_vars
  BY TidyThere
<1>3. HomingInv /\ [Next]_vars => HomingInv'
  BY StepHolds DEF HomingKept
<1> QED
  BY <1>1, <1>2, <1>3, InitHolds, PTL DEF Spec, HomingRight, HomedAtHome, HomeLeavesTidy

-----------------------------------------------------------------------------
(* Types                                                                   *)

\* Every thread is at a step of its script, or at its end, or a looper is on its way to close.
Within == \A t \in Threads : Busy(t) => run[t].pc <= Len(Script(t)) + 2

\* A script that a thread may be given has a length.
LEMMA TextLength ==
  ASSUME Typed, NEW c \in DOMAIN Text[Kind]
  PROVE  Len(Text[Kind][c]) \in Nat
<1>1. GoodScript(Kind, Text[Kind][c])
  BY KindFacts, Texts
<1> QED
  BY <1>1 DEF GoodScript

\* A step of one thread that stays within what it then runs.
LEMMA StaysWithin ==
  ASSUME Typed, Within, Kind' = Kind, NEW t \in Threads,
         \A u \in Threads : u # t => run'[u].request = run[u].request /\ run'[u].pc = run[u].pc,
         run'[t].request # "none" => run'[t].pc <= Len(Text[Kind][run'[t].request]) + 2
  PROVE  Within'
BY DEF Within, Busy, Script

\* A thread that leaves begins its script again, or none.
LEMMA LeaveWithin ==
  ASSUME Typed, Within, Kind' = Kind, NEW t \in Threads,
         \A u \in Threads : /\ run'[u].request = Leave(t)[u].request
                            /\ run'[u].pc = Leave(t)[u].pc
  PROVE  Within'
<1>1. PICK x \in Running : /\ x = IF t = "looper" THEN Begin("looper") ELSE Idle
                           /\ x.request = IF t = "looper" THEN "looper" ELSE "none"
                           /\ x.pc = 1
  BY IdleIs DEF Requests, Begin, Idle
<1>2. Leave(t)[t] = x /\ \A u \in Threads : u # t => Leave(t)[u] = run[u]
  BY <1>1, RunFacts DEF Leave
<1>3. "looper" \in DOMAIN Text[Kind]
  BY RunFacts
<1>4. Len(Text[Kind]["looper"]) \in Nat
  BY <1>3, TextLength
<1>5. run'[t].request = x.request /\ run'[t].pc = x.pc
  BY <1>2
<1>6. run'[t].request # "none" => run'[t].pc <= Len(Text[Kind][run'[t].request]) + 2
  BY <1>1, <1>4, <1>5
<1>7. \A u \in Threads : u # t => run'[u].request = run[u].request /\ run'[u].pc = run[u].pc
  BY <1>2
<1> QED
  BY <1>6, <1>7, StaysWithin

\* A thread that goes on, no further than the end.
LEMMA GoWithin ==
  ASSUME Typed, Within, Kind' = Kind, NEW t \in Threads, NEW m \in Int, Busy(t),
         run[t].pc + m <= Len(Script(t)) + 1,
         \A u \in Threads : /\ run'[u].request = Go(t, m)[u].request
                            /\ run'[u].pc = Go(t, m)[u].pc
  PROVE  Within'
<1>1. run'[t].pc = run[t].pc + m /\ run'[t].request = run[t].request
  BY GoIs
<1>2. \A u \in Threads : u # t => run'[u].request = run[u].request /\ run'[u].pc = run[u].pc
  BY GoIs
<1>3. run'[t].pc <= Len(Script(t)) + 2
  <2>1. run[t].pc \in Int /\ Len(Script(t)) \in Nat
    BY ScriptIs, RunFacts DEF Running
  <2> QED
    BY <1>1, <2>1
<1>4. Script(t) = Text[Kind][run'[t].request]
  BY <1>1 DEF Script
<1> QED
  BY <1>2, <1>3, <1>4, StaysWithin

\* Where nobody goes anywhere.
LEMMA SameWithin ==
  ASSUME Within, Kind' = Kind,
         \A u \in Threads : run'[u].request = run[u].request /\ run'[u].pc = run[u].pc
  PROVE  Within'
BY DEF Within, Busy, Script

\* A looper on its way to close the connection.
LEMMA CloseWithin ==
  ASSUME Typed, Within, Kind' = Kind,
         \A u \in Threads : LET q == [run EXCEPT !["looper"].pc = ToClose] IN
                            run'[u].request = q[u].request /\ run'[u].pc = q[u].pc
  PROVE  Within'
<1> DEFINE q == [run EXCEPT !["looper"].pc = ToClose]
<1>1. /\ q["looper"].request = "looper" /\ q["looper"].pc = ToClose
      /\ \A u \in Threads : u # "looper" => q[u] = run[u]
  BY RunFacts DEF Running
<1> HIDE DEF q
<1>2. ToClose = Len(Text[Kind]["looper"]) + 2
  BY RunFacts DEF ToClose, Script
<1>3. "looper" \in Threads /\ Len(Text[Kind]["looper"]) \in Nat
  BY RunFacts, TextLength
<1>4. \A u \in Threads : run'[u].request = q[u].request /\ run'[u].pc = q[u].pc
  BY DEF q
<1>5. /\ \A u \in Threads : u # "looper" => run'[u].request = run[u].request /\ run'[u].pc = run[u].pc
      /\ run'["looper"].request = "looper" /\ run'["looper"].pc = ToClose
  BY <1>1, <1>3, <1>4
<1>6. run'["looper"].pc <= Len(Text[Kind][run'["looper"].request]) + 2
  BY <1>2, <1>3, <1>5
<1> QED
  BY <1>3, <1>5, <1>6, StaysWithin

\* Where a step leads that may lead further than the next.
LEMMA NowJumps ==
  ASSUME Typed, NEW t \in Threads, NEW K, AtStep(t, K)
  PROVE  /\ Now(t).k \in {"turn", "getturn"} => t = "looper"
         /\ Now(t).k \in {"gettry", "skip", "sometimes"} => run[t].pc + Now(t).n <= Len(Script(t))
<1>1. /\ Busy(t) /\ run[t].pc \in 1 .. Len(Script(t)) /\ Now(t).n \in Nat /\ Len(Script(t)) \in Nat
      /\ Now(t) = Script(t)[run[t].pc] /\ Script(t) = Text[Kind][run[t].request]
  BY NowIs, ScriptIs DEF Now, Script
<1>2. Kind \in Kinds /\ run[t].request \in DOMAIN Text[Kind]
  BY <1>1, KindFacts, RunFacts
<1>3. CASE t = "looper"
  <2>1. Script(t) = Text[Kind]["looper"]
    BY <1>1, <1>3, RunFacts
  <2>2. Looks(Now(t)) /\ (Now(t).k = "sometimes" => run[t].pc + Now(t).n <= Len(Script(t)))
    BY <1>1, <1>2, <2>1, LooperText
  <2> QED
    BY <1>3, <2>2 DEF Looks
<1>4. CASE t # "looper"
  <2>1. run[t].request # "looper"
    BY <1>1, <1>4 DEF Typed, Runs, Threads, Busy
  <2>2. Inside(Script(t))
    BY <1>1, <1>2, <2>1, Texts
  <2>3. Stays(Now(t), Len(Script(t)) - run[t].pc)
    BY <1>1, <2>2 DEF Inside
  <2>4. /\ Now(t).k \notin {"turn", "getturn"}
        /\ Now(t).k \in {"gettry", "skip", "sometimes"} => Now(t).n <= Len(Script(t)) - run[t].pc
    BY <2>3 DEF Stays
  <2>5. ASSUME NEW n \in Nat, NEW len \in Nat, NEW pc \in 1 .. len, n <= len - pc
        PROVE  pc + n <= len
    BY <2>5
  <2>6. Now(t).n <= Len(Script(t)) - run[t].pc => run[t].pc + Now(t).n <= Len(Script(t))
    BY <1>1, <2>5
  <2> QED
    BY <2>4, <2>6
<1> QED
  BY <1>3, <1>4

\* A routine: on to the next step, off to close, or over.
LEMMA CallWithin ==
  ASSUME Typed, Within, HomingKept, NEW t \in Threads, Thread_Call(t) PROVE Within'
<1> DEFINE op == Now(t).op
<1>1. AtStep(t, {"do", "undo", "try", "turn"})
  BY DEF Thread_Call
<1>2. /\ Busy(t) /\ run[t].pc \in 1 .. Len(Script(t)) /\ Len(Script(t)) \in Nat
      /\ Now(t).k = "turn" => t = "looper"
  BY <1>1, NowIs, NowJumps, ScriptIs
<1>3. PICK q : /\ \/ q = Go(t, 1) \/ q = Leave(t)
                  \/ Now(t).k = "turn" /\ q = [run EXCEPT ![t].pc = ToClose]
               /\ run' = Outdated(q, t, op)
  BY DEF Thread_Call
<1> HIDE DEF op
<1>4. q \in Runs(Kind)
  <2>1. CASE q = Go(t, 1)
    BY <1>2, <2>1, GoRuns
  <2>2. CASE q = Leave(t)
    BY <2>2, LeaveRuns
  <2>3. CASE q = [run EXCEPT ![t].pc = ToClose]
    BY <2>3, ToCloseIs
  <2> QED
    BY <1>3, <2>1, <2>2, <2>3
<1>5. \A u \in Threads : run'[u].request = q[u].request /\ run'[u].pc = q[u].pc
  BY <1>3, <1>4, OutdatedIs
<1>6. Kind' = Kind
  BY DEF HomingKept
<1>7. CASE q = Go(t, 1)
  BY <1>2, <1>5, <1>6, <1>7, GoWithin
<1>8. CASE q = Leave(t)
  BY <1>5, <1>6, <1>8, LeaveWithin
<1>9. CASE Now(t).k = "turn" /\ q = [run EXCEPT ![t].pc = ToClose]
  <2>1. q = [run EXCEPT !["looper"].pc = ToClose]
    BY <1>2, <1>9
  <2> QED
    BY <1>5, <1>6, <2>1, CloseWithin
<1> QED
  BY <1>3, <1>7, <1>8, <1>9

\* A routine that asks: it is answered, or the next step is left out, or all.
LEMMA GetWithin ==
  ASSUME Typed, Within, HomingKept, NEW t \in Threads, Thread_Get(t) PROVE Within'
<1>1. AtStep(t, {"gettry", "getdo", "getturn"})
  BY DEF Thread_Get
<1>2. /\ Busy(t) /\ run[t].pc \in 1 .. Len(Script(t)) /\ Len(Script(t)) \in Nat /\ Now(t).n \in Nat
      /\ Now(t).k \in {"gettry", "getdo", "getturn"} /\ (Now(t).k = "getturn" => t = "looper")
      /\ Now(t).k = "gettry" => run[t].pc + Now(t).n <= Len(Script(t))
  BY <1>1, NowIs, NowJumps, ScriptIs
<1>3. Kind' = Kind /\ run \in [Threads -> Running]
  BY RunFacts DEF HomingKept
<1>4. \/ \E g : run' = [run EXCEPT ![t].got = g]
      \/ Now(t).k = "gettry" /\ run' = Go(t, 1 + Now(t).n)
      \/ run' = Leave(t)
      \/ Now(t).k = "getturn" /\ run' = [run EXCEPT ![t].pc = ToClose]
  BY <1>2 DEF Thread_Get
<1>5. CASE \E g : run' = [run EXCEPT ![t].got = g]
  <2>1. \A u \in Threads : run'[u].request = run[u].request /\ run'[u].pc = run[u].pc
    BY <1>3, <1>5 DEF Running
  <2> QED
    BY <1>3, <2>1, SameWithin
<1>6. CASE Now(t).k = "gettry" /\ run' = Go(t, 1 + Now(t).n)
  <2>1. 1 + Now(t).n \in Int /\ run[t].pc + (1 + Now(t).n) <= Len(Script(t)) + 1
    BY <1>2, <1>6
  <2> QED
    BY <1>2, <1>3, <1>6, <2>1, GoWithin
<1>7. CASE run' = Leave(t)
  BY <1>3, <1>7, LeaveWithin
<1>8. CASE Now(t).k = "getturn" /\ run' = [run EXCEPT ![t].pc = ToClose]
  <2>1. run' = [run EXCEPT !["looper"].pc = ToClose]
    BY <1>2, <1>8
  <2> QED
    BY <1>3, <2>1, CloseWithin
<1> QED
  BY <1>4, <1>5, <1>6, <1>7, <1>8

\* What is answered is stored.
LEMMA StoreWithin ==
  ASSUME Typed, Within, HomingKept, NEW t \in Threads, Thread_Store(t) PROVE Within'
<1>1. AtStep(t, {"gettry", "getdo", "getturn"}) /\ run' = [Go(t, 1) EXCEPT ![t].got = NoReply]
  BY DEF Thread_Store
<1>2. Busy(t) /\ run[t].pc \in 1 .. Len(Script(t)) /\ Len(Script(t)) \in Nat
  BY <1>1, NowIs, ScriptIs
<1>3. Go(t, 1) \in Runs(Kind)
  BY <1>2, GoRuns
<1>4. \A u \in Threads : run'[u].request = Go(t, 1)[u].request /\ run'[u].pc = Go(t, 1)[u].pc
  BY <1>1, <1>3 DEF Runs, Running
<1>5. run[t].pc + 1 <= Len(Script(t)) + 1 /\ Kind' = Kind
  BY <1>2 DEF HomingKept
<1> QED
  BY <1>2, <1>4, <1>5, GoWithin

\* The tests: on, further on, back, or over.
LEMMA BranchWithin ==
  ASSUME Typed, Within, HomingKept, NEW t \in Threads, Thread_Branch(t) PROVE Within'
<1>1. AtStep(t, {"expect", "skip", "back", "sometimes"})
  BY DEF Thread_Branch
<1>2. /\ Busy(t) /\ run[t].pc \in 1 .. Len(Script(t)) /\ Len(Script(t)) \in Nat /\ Now(t).n \in Nat
      /\ Now(t).k \in {"expect", "skip", "back", "sometimes"}
      /\ Now(t).k \in {"skip", "sometimes"} => run[t].pc + Now(t).n <= Len(Script(t))
      /\ Now(t).k = "back" => Now(t).n < run[t].pc
  BY <1>1, NowIs, NowJumps, ScriptIs
<1>3. Kind' = Kind
  BY DEF HomingKept
<1>4. \/ run' = Leave(t) \/ run' = Go(t, 1)
      \/ Now(t).k \in {"skip", "sometimes"} /\ run' = Go(t, 1 + Now(t).n)
      \/ Now(t).k = "back" /\ \E s : run' = [Go(t, -Now(t).n) EXCEPT ![t].steps = s]
      \/ \E s : run' = [Go(t, 1) EXCEPT ![t].steps = s]
  BY <1>2 DEF Thread_Branch
<1>5. CASE run' = Leave(t)
  BY <1>3, <1>5, LeaveWithin
<1>6. CASE run' = Go(t, 1)
  BY <1>2, <1>3, <1>6, GoWithin
<1>7. CASE Now(t).k \in {"skip", "sometimes"} /\ run' = Go(t, 1 + Now(t).n)
  <2>1. 1 + Now(t).n \in Int /\ run[t].pc + (1 + Now(t).n) <= Len(Script(t)) + 1
    BY <1>2, <1>7
  <2> QED
    BY <1>2, <1>3, <1>7, <2>1, GoWithin
<1>8. ASSUME NEW m \in Int, m <= 1, run[t].pc + m >= 1,
             NEW s, run' = [Go(t, m) EXCEPT ![t].steps = s]
      PROVE  Within'
  <2>1. Go(t, m) \in Runs(Kind)
    BY <1>2, <1>8, GoRuns
  <2>2. \A u \in Threads : run'[u].request = Go(t, m)[u].request /\ run'[u].pc = Go(t, m)[u].pc
    BY <1>8, <2>1 DEF Runs, Running
  <2>3. run[t].pc + m <= Len(Script(t)) + 1
    BY <1>2, <1>8
  <2> QED
    BY <1>2, <1>3, <2>2, <2>3, GoWithin
<1>9. CASE Now(t).k = "back" /\ \E s : run' = [Go(t, -Now(t).n) EXCEPT ![t].steps = s]
  <2>1. -Now(t).n \in Int /\ -Now(t).n <= 1 /\ run[t].pc + (-Now(t).n) >= 1
    BY <1>2, <1>9
  <2> QED
    BY <1>8, <1>9, <2>1
<1>10. CASE \E s : run' = [Go(t, 1) EXCEPT ![t].steps = s]
  <2>1. 1 \in Int /\ 1 <= 1 /\ run[t].pc + 1 >= 1
    BY <1>2
  <2>2. PICK s : run' = [Go(t, 1) EXCEPT ![t].steps = s]
    BY <1>10
  <2> QED
    BY <1>8, <2>1, <2>2
<1> QED
  BY <1>4, <1>5, <1>6, <1>7, <1>9, <1>10

\* A wait, and the end of a script.
LEMMA WaitWithin ==
  ASSUME Typed, Within, HomingKept, NEW t \in Threads,
         Thread_Poll(t) \/ Thread_Polled(t) \/ Thread_Done(t)
  PROVE  Within'
<1>1. Kind' = Kind /\ run \in [Threads -> Running]
  BY RunFacts DEF HomingKept
<1>2. CASE run' = Leave(t)
  BY <1>1, <1>2, LeaveWithin
<1>3. CASE Thread_Polled(t) /\ run' = Go(t, 1)
  <2>1. Busy(t) /\ run[t].pc \in 1 .. Len(Script(t)) /\ Len(Script(t)) \in Nat
    BY <1>3, NowIs, ScriptIs DEF Thread_Polled
  <2>2. run[t].pc + 1 <= Len(Script(t)) + 1
    BY <2>1
  <2> QED
    BY <1>1, <1>3, <2>1, <2>2, GoWithin
<1>4. CASE run' = [run EXCEPT ![t].polled = TRUE, ![t].count = run[t].count + 1]
  <2>1. \A u \in Threads : run'[u].request = run[u].request /\ run'[u].pc = run[u].pc
    BY <1>1, <1>4 DEF Running
  <2> QED
    BY <1>1, <2>1, SameWithin
<1>5. CASE run' = [run EXCEPT ![t].polled = FALSE]
  <2>1. \A u \in Threads : run'[u].request = run[u].request /\ run'[u].pc = run[u].pc
    BY <1>1, <1>5 DEF Running
  <2> QED
    BY <1>1, <2>1, SameWithin
<1>6. Thread_Poll(t) =>
        run' = Leave(t) \/ run' = [run EXCEPT ![t].polled = TRUE, ![t].count = run[t].count + 1]
  BY <1>1 DEF Thread_Poll
<1>7. Thread_Polled(t) => run' = Go(t, 1) \/ run' = [run EXCEPT ![t].polled = FALSE]
  BY DEF Thread_Polled
<1>8. Thread_Done(t) => run' = Leave(t)
  BY DEF Thread_Done
<1> QED
  BY <1>2, <1>3, <1>4, <1>5, <1>6, <1>7, <1>8

\* No step of anybody leads out of a script.
LEMMA StepWithin == ASSUME HomingInv, Within, [Next]_vars PROVE Within'
<1>1. Typed /\ HomingKept /\ Kind' = Kind
  BY StepHolds DEF HomingInv, HomingKept
<1>2. CASE run' = run
  BY <1>1, <1>2, SameWithin
<1>3. CASE Looper_Close
  BY <1>1, <1>3, RunFacts, LeaveWithin DEF Looper_Close
<1>4. ASSUME NEW t \in Threads, Thread(t)
      PROVE  Within'
  BY <1>1, <1>4, CallWithin, GetWithin, StoreWithin, BranchWithin, WaitWithin DEF Thread
<1>5. ASSUME NEW c \in DOMAIN Text[Kind] \ {"looper"}, Client_Request(c)
      PROVE  Within'
  <2>1. PICK t \in Threads : run' = [run EXCEPT ![t] = Begin(c)]
    BY <1>5 DEF Client_Request, Threads
  <2>2. c \in Requests /\ run \in [Threads -> Running]
    BY <1>1, KindFacts, RunFacts DEF Requests
  <2>3. Begin(c).request = c /\ Begin(c).pc = 1
    BY <2>2, IdleIs
  <2>4. run'[t] = Begin(c) /\ \A u \in Threads : u # t => run'[u] = run[u]
    BY <2>1, <2>2
  <2>5. Len(Text[Kind][c]) \in Nat
    BY <1>1, TextLength
  <2>6. run'[t].request = c /\ run'[t].pc = 1
    BY <2>3, <2>4
  <2>7. \A u \in Threads : u # t => run'[u].request = run[u].request /\ run'[u].pc = run[u].pc
    BY <2>4
  <2>8. run'[t].pc <= Len(Text[Kind][run'[t].request]) + 2
    BY <2>5, <2>6
  <2> QED
    BY <1>1, <2>7, <2>8, StaysWithin
<1>6. Looper_Open \/ Device_Move \/ Link_Lost \/ Link_Back \/ UNCHANGED vars => run' = run
  BY DEF Looper_Open, Device_Move, Link_Lost, Link_Back, vars
<1> QED
  BY <1>2, <1>3, <1>4, <1>5, <1>6 DEF Next

\* In the beginning the looper is at its first step.
LEMMA InitWithin == Init => Within
<1> SUFFICES ASSUME Init, NEW t \in Threads, Busy(t) PROVE run[t].pc <= Len(Script(t)) + 2
  BY DEF Within
<1>1. Typed
  BY InitHolds DEF HomingInv
<1>2. run[t] = IF t = "looper" THEN Begin("looper") ELSE Idle
  BY DEF Init
<1>3. run[t].pc = 1
  BY <1>2, IdleIs DEF Idle, Begin
<1>4. Len(Script(t)) \in Nat
  BY <1>1, ScriptIs
<1> QED
  BY <1>3, <1>4

\* The socket, the flags and the motor are what they may be, wherever a motor is told
\* to go, and no thread leaves its script: whatever a step of *_Home, *_Process or *_Looper
\* makes of a failure leads to a step of the same routine, or to its end.
THEOREM MotorsTyped == Spec => []TypeOK
<1>1. HomingInv /\ Within => TypeOK
  <2> SUFFICES ASSUME HomingInv, Within PROVE TypeOK
    OBVIOUS
  <2>1. world \in World /\ world.dev \in Motor
    BY DEF HomingInv, Typed, World, Sane
  <2>2. \A t \in Threads : Busy(t) => run[t].pc \in 1 .. Len(Script(t)) + 2
    BY ScriptIs, RunFacts DEF HomingInv, Within, Running
  <2> QED
    BY <2>1, <2>2 DEF TypeOK, World, Motor
<1>2. HomingInv /\ Within /\ [Next]_vars => (HomingInv /\ Within)'
  BY StepHolds, StepWithin DEF HomingKept
<1> QED
  BY <1>1, <1>2, InitHolds, InitWithin, PTL DEF Spec

=============================================================================
