---------------------------- MODULE TopboxServer ----------------------------
(***************************************************************************)
(* The topbox server as a process: main sets up the devices (StatusList),  *)
(* starts the status server, and accepts the clients that command the      *)
(* devices (HomeRequests).  Each client has a thread and a slot in one of  *)
(* two pools; both pools draw on the descriptors of the one process.       *)
(* ClientPool has the steps of such a loop in detail; here each is one.    *)
(***************************************************************************)
EXTENDS FiniteSets, Integers

CONSTANTS
  Clients,            \* connections of clients that command devices
  Watchers,           \* connections of clients that watch the status
  Connections,        \* NUM_CONNECTIONS (10), threads for the commands
  StatusConnections,  \* STATUS_CONNECTIONS (20), threads for the status
  MaxOpen,            \* descriptors the process has for connections
  Nobody

ASSUME TopboxAssumption ==
  /\ {Connections, StatusConnections} \subseteq Nat \ {0} /\ MaxOpen \in Nat
  /\ Clients \cap Watchers = {} /\ Nobody \notin Clients \cup Watchers

Everyone == Clients \cup Watchers
Slots == ({"master"} \X (1 .. Connections)) \cup ({"status"} \X (1 .. StatusConnections))
Pool(c) == IF c \in Watchers THEN "status" ELSE "master"

VARIABLES
  main,        \* where main is
  running,     \* *Master_continueRunning
  statusUp,    \* *continueRunning of Status_Master
  waiting,     \* connections not accepted yet
  open,        \* those served by a thread
  lost,        \* those with a descriptor that no thread will close
  past,        \* those whose thread has ended, or was never started
  hungUp,      \* those whose client has gone
  slots,       \* the connection of each Thread_Info[i].sockfd, Master_Info[i].sockfd
  jammed,      \* has a motor controller's mutex been left locked?
  stuck        \* clients whose thread waits for it, for ever
topVars == <<main, running, statusUp, waiting, open, lost, past, hungUp, slots, jammed, stuck>>
lockVars == <<jammed, stuck>>

Top_Init ==
  /\ main = "setup" /\ running = TRUE /\ statusUp = TRUE
  /\ waiting = {} /\ open = {} /\ lost = {} /\ past = {} /\ hungUp = {}
  /\ slots = [s \in Slots |-> Nobody]
  /\ jammed = FALSE /\ stuck = {}
-----------------------------------------------------------------------------
\* The devices and their loopers, then the thread of the status server.  A thread
\* that cannot be created, or main's port that is taken, ends main and all that runs;
\* when the port of the status server is taken, only its own thread ends.
Start_Servers ==
  /\ main = "setup" /\ main' \in {"serve", "over"} /\ statusUp' \in {statusUp, FALSE}
  /\ UNCHANGED <<running, waiting, open, lost, past, hungUp, slots, lockVars>>

\* The loop ends; a second later the process is gone, whatever its threads do.
Stop ==
  /\ main = "serve" /\ ~running /\ main' = "over"
  /\ UNCHANGED <<running, statusUp, waiting, open, lost, past, hungUp, slots, lockVars>>

Arrive(c) ==
  /\ main = "serve" /\ c \notin waiting \cup open \cup lost \cup past
  /\ waiting' = waiting \cup {c}
  /\ UNCHANGED <<main, running, statusUp, open, lost, past, hungUp, slots, lockVars>>

HangUp(c) ==
  /\ c \in waiting \cup open \cup lost /\ c \notin hungUp
  /\ hungUp' = hungUp \cup {c}
  /\ UNCHANGED <<main, running, statusUp, waiting, open, lost, past, slots, lockVars>>

\* The two accept loops.
FreeSlots(c) == {s \in Slots : s[1] = Pool(c) /\ slots[s] = Nobody}
Exhausted    == Cardinality(open \cup lost) >= MaxOpen
Accepting(c) ==
  /\ main = "serve" /\ c \in waiting /\ ~Exhausted /\ (c \in Watchers => statusUp)
  /\ waiting' = waiting \ {c}

\* All slots are taken: the descriptor is not closed, and nobody will.
Accept_Full(c) ==
  /\ Accepting(c) /\ FreeSlots(c) = {}
  /\ lost' = lost \cup {c}
  /\ UNCHANGED <<main, running, statusUp, open, past, hungUp, slots, lockVars>>

\* A mistake: the first slot is taken, free or not.
Accept_First(c) ==
  /\ Accepting(c)
  /\ open' = open \cup {c} /\ slots' = [slots EXCEPT ![<<Pool(c), 1>>] = c]
  /\ UNCHANGED <<main, running, statusUp, lost, past, hungUp, lockVars>>

Accept(c) ==
  /\ Accepting(c)
  /\ \E s \in FreeSlots(c) :
       /\ \A t \in FreeSlots(c) : s[2] <= t[2]
       /\ slots' = [slots EXCEPT ![s] = c]
  /\ open' = open \cup {c}
  /\ UNCHANGED <<main, running, statusUp, lost, past, hungUp, lockVars>>

\* The thread cannot be created: the status server closes the connection,
\* frees the slot and goes on; main leaves them as they are and stops.
Accept_Fails(c) ==
  /\ Accepting(c)
  /\ \/ /\ Pool(c) = "status" /\ FreeSlots(c) # {}
        /\ past' = past \cup {c}
        /\ UNCHANGED <<main, running, statusUp, open, lost, hungUp, slots, lockVars>>
     \/ /\ Pool(c) = "master" /\ running' = FALSE /\ lost' = lost \cup {c}
        /\ \E s \in FreeSlots(c) :
             (\A t \in FreeSlots(c) : s[2] <= t[2]) /\ slots' = [slots EXCEPT ![s] = c]
        /\ UNCHANGED <<main, statusUp, open, past, hungUp, lockVars>>

\* The socket cannot be set to blocking: either loop ends.
Restore_Fails(c) ==
  /\ Accepting(c) /\ FreeSlots(c) # {}
  /\ lost' = lost \cup {c}
  /\ IF Pool(c) = "master" THEN running' = FALSE /\ UNCHANGED statusUp
                           ELSE statusUp' = FALSE /\ UNCHANGED running
  /\ UNCHANGED <<main, open, past, hungUp, slots, lockVars>>

\* Status_Master cancels its threads, which close nothing.
Status_Cancel ==
  /\ main = "serve" /\ ~statusUp /\ open \cap Watchers # {}
  /\ open' = open \ Watchers /\ lost' = lost \cup (open \cap Watchers)
  /\ UNCHANGED <<main, running, statusUp, waiting, past, hungUp, slots, lockVars>>

Working(c) == main = "serve" /\ c \in open \ stuck

\* "reset": MVP_ResetNode gives up a controller that does not answer, and leaves its
\* mutex locked.
Reset_Silent(c) ==
  /\ Working(c) /\ c \in Clients /\ jammed' = TRUE
  /\ UNCHANGED <<main, running, statusUp, waiting, open, lost, past, hungUp, slots, stuck>>

\* Another command for that controller: the thread waits for the mutex and reads no
\* more, whether its client is there or not.
Wait_Forever(c) ==
  /\ Working(c) /\ c \in Clients /\ jammed /\ stuck' = stuck \cup {c}
  /\ UNCHANGED <<main, running, statusUp, waiting, open, lost, past, hungUp, slots, jammed>>

\* "quit", or a request that cannot be read: close(), then sockfd = -1.
Leave(c) ==
  /\ Working(c)
  /\ open' = open \ {c} /\ past' = past \cup {c}
  /\ slots' = [s \in Slots |-> IF slots[s] = c THEN Nobody ELSE slots[s]]
  /\ UNCHANGED <<main, running, statusUp, waiting, lost, hungUp, lockVars>>

\* A mistake: Status_Process goes on when it cannot read a request.
Thread_EndKept(c) == c \in hungUp /\ c \in Clients /\ Leave(c)
\* The thread of a client that has gone finds that it cannot read.
Thread_End(c) == c \in hungUp /\ Leave(c)

\* "exit"
Exit(c) ==
  /\ Working(c) /\ c \in Clients /\ running' = FALSE
  /\ UNCHANGED <<main, statusUp, waiting, open, lost, past, hungUp, slots, lockVars>>

Top_Next ==
  \/ Start_Servers \/ Stop \/ Status_Cancel
  \/ \E c \in Everyone :
       \/ Arrive(c) \/ HangUp(c)
       \/ Accept(c) \/ Accept_Full(c) \/ Accept_Fails(c) \/ Restore_Fails(c)
       \/ Reset_Silent(c) \/ Wait_Forever(c) \/ Leave(c) \/ Thread_End(c) \/ Exit(c)

\* main, the loops that accept and the threads run, but those that wait for a mutex
\* nobody unlocks; clients need do nothing.
Top_Fairness ==
  /\ WF_topVars(Start_Servers \/ Stop)
  /\ \A c \in Everyone : WF_topVars(Accept(c) \/ Accept_Full(c)) /\ WF_topVars(Thread_End(c))

Top_Spec == Top_Init /\ [][Top_Next]_topVars /\ Top_Fairness
-----------------------------------------------------------------------------
\* A connection waits, is served, is lost or is past, never two of these, and
\* a slot is kept for one that is served or lost only.
Top_TypeOK ==
  /\ main \in {"setup", "serve", "over"} /\ running \in BOOLEAN /\ statusUp \in BOOLEAN
  /\ waiting \subseteq Everyone /\ open \subseteq Everyone /\ lost \subseteq Everyone
  /\ past \subseteq Everyone /\ hungUp \subseteq Everyone
  /\ slots \in [Slots -> Everyone \cup {Nobody}]
  /\ waiting \cap (open \cup lost \cup past) = {} /\ open \cap (lost \cup past) = {}
  /\ lost \cap past = {} /\ jammed \in BOOLEAN /\ stuck \subseteq Clients
  /\ \A s \in Slots : slots[s] # Nobody => slots[s] \in open \cup lost

\* A thread that serves a client has a slot of the right pool to itself, and
\* no slot is kept for anybody else, but when the loop of that pool has stopped.
SlotsHeld ==
  /\ \A c \in open : \E s \in Slots : slots[s] = c /\ s[1] = Pool(c)
  /\ \A s, t \in Slots : slots[s] = slots[t] /\ slots[s] # Nobody => s = t
  /\ \A s \in Slots : slots[s] # Nobody => slots[s] \in open \/ IF s[1] = "master" THEN ~running ELSE ~statusUp

\* Once a client has said "exit", or a thread could not be created, the
\* process ends, whatever its threads are doing.
ExitEnds == ~running ~> main = "over"

\* A client that connects is accepted, as long as the process runs and has a
\* descriptor left, and let go when it has hung up, unless its thread has run into
\* a mutex that was left locked.
Answered ==
  \A c \in Everyone :
    /\ c \in waiting ~> c \notin waiting \/ main = "over" \/ Exhausted \/ ~statusUp
    /\ c \in open \cap hungUp ~> c \notin open \/ main = "over" \/ c \in stuck

\* The server answers whoever connects, lets go whoever leaves, and ends when told.
ServerAnswers == ExitEnds /\ Answered
=============================================================================
