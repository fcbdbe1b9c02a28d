---------------------------- MODULE FilterWheel ----------------------------
(***************************************************************************)
(* The filter wheel of the topbox server (topbox_server/Fwheel): a stepper *)
(* without position feedback but a home switch.  The thread that homes the *)
(* wheel and the threads of the clients step it, ask the switch and write  *)
(* Device_Data, all without a lock.  Where the wheel stands is what they   *)
(* have counted.                                                           *)
(***************************************************************************)
EXTENDS Integers, Sequences, FiniteSets

CONSTANTS
  NFilters,   \* FW_NFILTERS (8)
  StepSize,   \* FW_STEPSIZE, steps from filter to filter (33)
  Offset,     \* FW_OFFSET, steps from the home switch to the first (17)
  MaxHome,    \* FW_MAX_HOME, steps spent on finding home (500)
  Movers,     \* the threads: that of "home", and clients
  Asks,       \* the positions clients ask for
  MaxAsks,    \* requests
  MaxLate     \* answers that come after the timeout

ASSUME FwheelAssumption ==
  /\ {NFilters, StepSize, MaxHome} \subseteq Nat \ {0} /\ Offset \in 1 .. StepSize
  /\ MaxHome > NFilters * StepSize
  /\ Asks \subseteq Nat /\ {MaxAsks, MaxLate} \subseteq Nat

VARIABLES
  at,         \* steps the wheel stands past the home switch
  flags,      \* home, moving, position and filter of Device_Data
  job,        \* for each thread, the tasks left of its request
  asks, late,
  link,       \* the connection: "none", "up", or "dead", which nobody ever notices
  clean       \* history: since homing began one thread at a time moved the
              \* wheel, by whole filters, and nothing was lost
fvars == <<at, flags, job, asks, late, link, clean>>

Steps == NFilters * StepSize
Place(pos) == (Offset + (pos - 1) * StepSize) % Steps   \* where filter pos is in the beam

Task(k, n) == [k |-> k, n |-> n]
Count(n) == Task("count", n)      \* Fwheel_MoveCount
Seek(limit) == Task("seek", limit)   \* Fwheel_SeekHome

\* Fwheel_FilterSetPos: the position first, then the name; a position that is
\* no filter becomes "bogus", and then what the memory before the names holds.
SetPos(pos) == <<Task("position", pos), Task("filter", pos)>>
\* A mistake: the second filter is called the first.
SetPosShifted(pos) == <<Task("position", pos), Task("filter", IF pos > 1 THEN pos - 1 ELSE pos)>>
Fwheel_FilterSetPos(pos) == SetPos(pos)

\* Fwheel_Home: home is set before the wheel has come to its first filter.
Fwheel_Home ==
  <<Seek(MaxHome), Task("home", 1), Count(Offset)>> \o Fwheel_FilterSetPos(1)

\* The request as the code brings it into cur .. cur + NFilters - 1.
Wrapped(new, cur) == cur + ((new - cur) % NFilters)

\* Straight on, or over the home switch, which is looked for from the last
\* filter on, and counting anew from there.
Fwheel_MoveAbsolute(new, cur) ==
  LET goal == Wrapped(new, cur) IN
  IF goal = cur THEN <<>>
  ELSE IF goal <= NFilters THEN <<Count((goal - cur) * StepSize)>> \o Fwheel_FilterSetPos(goal)
  ELSE LET last == goal - NFilters IN
       (IF cur < NFilters THEN <<Count((NFilters - cur) * StepSize)>> ELSE <<>>)
         \o <<Seek(StepSize), Count(Offset)>>
         \o (IF last > 1 THEN <<Count((last - 1) * StepSize)>> ELSE <<>>)
         \o Fwheel_FilterSetPos(last)

Fwheel_MoveThird == <<Count(StepSize \div 3)>>

Fwheel_Init ==
  /\ at \in 0 .. Steps - 1
  /\ flags = [home |-> 0, moving |-> 0, position |-> 0, filter |-> 0]
  /\ job = [t \in Movers |-> <<>>]
  /\ asks = 0 /\ late = 0 /\ link = "none" /\ clean = FALSE
-----------------------------------------------------------------------------
Alive == link = "up"
Idle(t)  == job[t] = <<>>
AllIdle  == \A t \in Movers : Idle(t)
First(t) == job[t][1]
\* A wheel that is being moved by two threads is counted by neither.
Alone(t) == \A u \in Movers \ {t} : Idle(u)

Asked == link # "none" /\ asks < MaxAsks /\ asks' = asks + 1
Started(t, tasks) == job' = [job EXCEPT ![t] = tasks]

\* "home" clears the flags at once; no thread is refused because of another.
Process_Home(t) ==
  /\ Asked /\ Idle(t)
  /\ Started(t, Fwheel_Home)
  /\ flags' = [flags EXCEPT !.home = 0, !.moving = 0, !.position = 0]
  /\ clean' = Alone(t)
  /\ UNCHANGED <<at, late, link>>

\* "absolute" and "relative": refused when the wheel was not homed.
Process_Move(t) ==
  /\ Asked /\ Idle(t) /\ flags.home = 1
  /\ \E n \in Asks, relative \in BOOLEAN :
       Started(t, Fwheel_MoveAbsolute(IF relative THEN flags.position - n ELSE n, flags.position))
  /\ clean' = (clean /\ Alone(t))
  /\ UNCHANGED <<at, flags, late, link>>

\* "third": moves the wheel and says nothing of it.
Process_Third(t) ==
  /\ Asked /\ Idle(t)
  /\ Started(t, Fwheel_MoveThird)
  /\ clean' = FALSE
  /\ UNCHANGED <<at, flags, late, link>>

\* Fwheel_Step: two writes, which a lost connection may still take.
Fwheel_Step(there) == IF Alive THEN (there + 1) % Steps ELSE there

Fwheel_MoveCount(t) ==
  /\ ~Idle(t) /\ First(t).k = "count"
  /\ IF First(t).n > 0
       THEN /\ at' = Fwheel_Step(at)
            /\ flags' = [flags EXCEPT !.moving = 1]
            /\ job' = [job EXCEPT ![t][1].n = @ - 1]
       ELSE /\ flags' = [flags EXCEPT !.moving = 0]
            /\ job' = [job EXCEPT ![t] = Tail(@)]
            /\ at' = at
  /\ UNCHANGED <<asks, late, link, clean>>

\* A mistake: the search starts over when it has come to its end.
Seek_NotFoundAgain(t) ==
  /\ job' = [job EXCEPT ![t][1].n = IF First(t).n > 1 THEN @ - 1 ELSE StepSize]
  /\ flags' = [flags EXCEPT !.moving = 1]

\* Not found: another step, until the last.  Then homing leaves position 0,
\* and a move over home also that the wheel is not homed.
Seek_NotFound(t) ==
  IF First(t).n > 1
    THEN job' = [job EXCEPT ![t][1].n = @ - 1] /\ flags' = [flags EXCEPT !.moving = 1]
    ELSE /\ job' = [job EXCEPT ![t] = Fwheel_FilterSetPos(0) \o
                                      IF job[t][2].k = "home" THEN <<>> ELSE <<Task("home", 0)>>]
         /\ flags' = [flags EXCEPT !.moving = 0]

Seek_Found(t) == /\ job' = [job EXCEPT ![t] = Tail(@)]
                 /\ flags' = [flags EXCEPT !.moving = 0]

\* Fwheel_SeekHome: a step, then the switch; when the answer is late or will
\* never come, the buffer is read all the same.
Fwheel_SeekHome(t) ==
  /\ ~Idle(t) /\ First(t).k = "seek"
  /\ at' = Fwheel_Step(at)
  /\ \/ Alive /\ (IF at' = 0 THEN Seek_Found(t) ELSE Seek_NotFound(t)) /\ UNCHANGED <<late, clean>>
     \/ /\ Alive => late < MaxLate
        /\ late' = IF Alive THEN late + 1 ELSE late
        /\ clean' = FALSE
        /\ Seek_Found(t) \/ Seek_NotFound(t)
  /\ UNCHANGED <<asks, link>>

Fwheel_Set(t) ==
  /\ ~Idle(t) /\ First(t).k \in {"position", "filter", "home"}
  /\ flags' = [flags EXCEPT ![First(t).k] = First(t).n]
  /\ job' = [job EXCEPT ![t] = Tail(@)]
  /\ UNCHANGED <<at, asks, late, link, clean>>

\* The looper only opens the connection, and never looks at it again.
Fwheel_Looper ==
  /\ link = "none" /\ link' \in {"up", "dead"}
  /\ UNCHANGED <<at, flags, job, asks, late, clean>>

Fwheel_LinkLost ==
  /\ Alive /\ link' = "dead" /\ clean' = FALSE
  /\ UNCHANGED <<at, flags, job, asks, late>>

Fwheel_Work(t) == Fwheel_MoveCount(t) \/ Fwheel_SeekHome(t) \/ Fwheel_Set(t)

Fwheel_Next ==
  \/ \E t \in Movers : Process_Home(t) \/ Process_Move(t) \/ Process_Third(t) \/ Fwheel_Work(t)
  \/ Fwheel_Looper \/ Fwheel_LinkLost

Fwheel_Spec == Fwheel_Init /\ [][Fwheel_Next]_fvars /\ \A t \in Movers : WF_fvars(Fwheel_Work(t))
-----------------------------------------------------------------------------
Fwheel_TypeOK ==
  /\ at \in 0 .. Steps - 1 /\ flags.home \in {0, 1} /\ flags.moving \in {0, 1}
  /\ flags.position \in 0 .. NFilters /\ flags.filter \in 0 .. NFilters
  /\ asks \in 0 .. MaxAsks /\ late \in 0 .. MaxLate

\* A wheel at rest that was homed, and since then moved by one thread at a
\* time with nothing lost, has in its beam the filter whose number and name
\* are shown.
FilterShown ==
  AllIdle /\ clean /\ flags.home = 1
    => /\ at = Place(flags.position)
       /\ flags.filter = flags.position

\* Whatever is lost, and whoever interferes, every request ends: the
\* search for the switch is bounded.
MovesEnd == \A t \in Movers : ~Idle(t) ~> Idle(t)
=============================================================================
