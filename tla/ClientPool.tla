----------------------------- MODULE ClientPool -----------------------------
(***************************************************************************)
(* An accept loop and its pool of threads, one for each client.  The loop  *)
(* of main in Data_Server.c (Main = TRUE) starts PCR_Process threads; one  *)
(* of them stops it when an operator sends "exit".  DServ_Master,          *)
(* WFSC_Master and Info_Master (Main = FALSE) are the same loop, but a     *)
(* thread that cannot be started is handled differently, and no request    *)
(* stops them.                                                             *)
(***************************************************************************)
EXTENDS Integers

CONSTANTS
  NumConnections,  \* NUM_CONNECTIONS, INFO_CONNECTIONS
  Conns,           \* the connections clients make
  Fds,             \* the file descriptors left for them
  Main,            \* the loop of Data_Server.c, or one of the others?
  Nobody           \* no connection

ASSUME PoolAssumption ==
  /\ NumConnections \in Nat \ {0} /\ Fds \subseteq Nat /\ Main \in BOOLEAN
  /\ Nobody \notin Conns

Slots == 0 .. NumConnections - 1

VARIABLES
  sockfd,     \* Thread_Info[i].sockfd, -1 when the slot is not in use
  at,         \* the connection that is open at each descriptor
  arrived, backlog, hung,  \* connections made, not yet accepted, closed by the client
  running,    \* *continueRunning
  master,     \* where the loop is
  newsockfd, client,  \* the descriptor accepted last, and its connection
  i,          \* the loop's index
  thread,     \* where the thread of each connection is
  slot, fd,   \* its Main_Info and its own copy of sockfd
  latest,     \* pcrThread[i], dservThread[i]: the thread started last in each slot
  cancelled   \* threads with a cancellation request

clientVars == <<arrived, backlog, hung>>
masterVars == <<master, newsockfd, client, i, latest>>
threadVars == <<thread, slot, fd>>
vars == <<sockfd, at, clientVars, running, masterVars, threadVars, cancelled>>

Init ==
  /\ sockfd = [s \in Slots |-> -1]
  /\ at = [f \in Fds |-> Nobody]
  /\ arrived = {} /\ backlog = {} /\ hung = {}
  /\ running = TRUE
  /\ master = "accept" /\ newsockfd = -1 /\ client = Nobody /\ i = 0
  /\ thread = [c \in Conns |-> "none"]
  /\ slot = [c \in Conns |-> 0] /\ fd = [c \in Conns |-> -1]
  /\ latest = [s \in Slots |-> Nobody]
  /\ cancelled = {}

(***************************************************************************)
(* Clients                                                                 *)
(***************************************************************************)

Arrive(c) ==
  /\ c \notin arrived /\ master # "over"
  /\ arrived' = arrived \cup {c} /\ backlog' = backlog \cup {c}
  /\ UNCHANGED <<sockfd, at, hung, running, masterVars, threadVars, cancelled>>

HangUp(c) ==
  /\ c \in arrived \ hung
  /\ hung' = hung \cup {c}
  /\ UNCHANGED <<sockfd, at, arrived, backlog, running, masterVars, threadVars, cancelled>>

(***************************************************************************)
(* The accept loop                                                         *)
(***************************************************************************)

MasterGo(from, to) == master = from /\ master' = to

Accept ==
  \E c \in backlog, f \in Fds :
    /\ MasterGo("accept", "scan")
    /\ at[f] = Nobody
    /\ at' = [at EXCEPT ![f] = c]
    /\ backlog' = backlog \ {c}
    /\ newsockfd' = f /\ client' = c /\ i' = 0
    /\ UNCHANGED <<sockfd, arrived, hung, running, latest, threadVars, cancelled>>

\* No client waits, or the process has no descriptor left: the loop sleeps.
AcceptNothing ==
  /\ MasterGo("accept", "test")
  /\ backlog = {} \/ \A f \in Fds : at[f] # Nobody
  /\ UNCHANGED <<sockfd, at, clientVars, running, newsockfd, client, i, latest, threadVars, cancelled>>

\* Mistake: the first slot is taken without looking whether it is free.
ScanNot ==
  /\ MasterGo("scan", "fill")
  /\ i < NumConnections
  /\ UNCHANGED <<sockfd, at, clientVars, running, newsockfd, client, i, latest, threadVars, cancelled>>

\* The search for a slot that is not in use; when there is none, the descriptor
\* just accepted is left as it is.
Scan ==
  /\ master = "scan"
  /\ \/ i < NumConnections /\ sockfd[i] >= 0 /\ i' = i + 1 /\ UNCHANGED master
     \/ i < NumConnections /\ sockfd[i] < 0 /\ master' = "fill" /\ UNCHANGED i
     \/ i >= NumConnections /\ master' = "test" /\ UNCHANGED i
  /\ UNCHANGED <<sockfd, at, clientVars, running, newsockfd, client, latest, threadVars, cancelled>>

Fill ==
  /\ MasterGo("fill", "create")
  /\ sockfd' = [sockfd EXCEPT ![i] = newsockfd]
  /\ UNCHANGED <<at, clientVars, running, newsockfd, client, i, latest, threadVars, cancelled>>

\* The socket cannot be set to blocking again.
RestoreFails ==
  /\ MasterGo("fill", "test")
  /\ running' = FALSE
  /\ UNCHANGED <<sockfd, at, clientVars, newsockfd, client, i, latest, threadVars, cancelled>>

Create ==
  /\ MasterGo("create", "test")
  /\ thread' = [thread EXCEPT ![client] = "start"]
  /\ slot' = [slot EXCEPT ![client] = i]
  /\ latest' = [latest EXCEPT ![i] = client]
  /\ UNCHANGED <<sockfd, at, clientVars, running, newsockfd, client, i, fd, cancelled>>

\* Mistake: the connection is closed, but its slot stays in use.
CreateFailsKeepingSlot ==
  /\ MasterGo("create", "test")
  /\ IF Main
     THEN running' = FALSE /\ UNCHANGED at
     ELSE at' = [at EXCEPT ![newsockfd] = Nobody] /\ UNCHANGED running
  /\ UNCHANGED <<sockfd, clientVars, newsockfd, client, i, latest, threadVars, cancelled>>

\* The thread cannot be started.  Data_Server.c stops; the others go on without it.
CreateFails ==
  /\ MasterGo("create", "test")
  /\ IF Main
     THEN running' = FALSE /\ UNCHANGED <<sockfd, at>>
     ELSE /\ at' = [at EXCEPT ![newsockfd] = Nobody]
          /\ sockfd' = [sockfd EXCEPT ![i] = -1]
          /\ UNCHANGED running
  /\ UNCHANGED <<clientVars, newsockfd, client, i, latest, threadVars, cancelled>>

Test ==
  /\ master = "test"
  /\ IF running THEN master' = "accept" /\ UNCHANGED i ELSE master' = "cancel" /\ i' = 0
  /\ UNCHANGED <<sockfd, at, clientVars, running, newsockfd, client, latest, threadVars, cancelled>>

\* At the end: which slots have threads to cancel?  (main returns after this, and the
\* process with all its threads is gone a second later.)
CancelScan ==
  /\ master = "cancel"
  /\ \/ i < NumConnections /\ sockfd[i] >= 0 /\ master' = "cancelling" /\ UNCHANGED i
     \/ i < NumConnections /\ sockfd[i] < 0 /\ i' = i + 1 /\ UNCHANGED master
     \/ i >= NumConnections /\ master' = "over" /\ UNCHANGED i
  /\ UNCHANGED <<sockfd, at, clientVars, running, newsockfd, client, latest, threadVars, cancelled>>

\* A slot whose thread could not be started has none to cancel: pcrThread[i] is not set,
\* or still names the thread before.  Cancelling a thread that has ended does nothing.
Cancel ==
  /\ MasterGo("cancelling", "cancel")
  /\ i' = i + 1
  /\ cancelled' = cancelled \cup {latest[i]}
  /\ UNCHANGED <<sockfd, at, clientVars, running, newsockfd, client, latest, threadVars>>

(***************************************************************************)
(* The thread of a client                                                  *)
(***************************************************************************)

ThreadGo(c, from, to) == thread[c] = from /\ thread' = [thread EXCEPT ![c] = to]

ThreadStart(c) ==
  /\ ThreadGo(c, "start", "serve")
  /\ fd' = [fd EXCEPT ![c] = sockfd[slot[c]]]
  /\ UNCHANGED <<sockfd, at, clientVars, running, masterVars, slot, cancelled>>

\* The request "exit".
Exit(c) ==
  /\ Main /\ thread[c] = "serve"
  /\ running' = FALSE
  /\ UNCHANGED <<sockfd, at, clientVars, masterVars, threadVars, cancelled>>

\* The request "quit", or one that cannot be read.
Leave(c) ==
  /\ ThreadGo(c, "serve", "close")
  /\ UNCHANGED <<sockfd, at, clientVars, running, masterVars, slot, fd, cancelled>>

\* Mistake: the slot is given back before the connection is closed.
CloseLast(c) ==
  /\ \/ ThreadGo(c, "close", "clear") /\ UNCHANGED at
        /\ sockfd' = [sockfd EXCEPT ![slot[c]] = -1]
     \/ ThreadGo(c, "clear", "ended") /\ UNCHANGED sockfd
        /\ at' = [f \in Fds |-> IF f = sockfd[slot[c]] THEN Nobody ELSE at[f]]
  /\ UNCHANGED <<clientVars, running, masterVars, slot, fd, cancelled>>

\* close(Main_Info->sockfd), and then Main_Info->sockfd = -1.
Close(c) ==
  /\ \/ ThreadGo(c, "close", "clear") /\ UNCHANGED sockfd
        /\ at' = [f \in Fds |-> IF f = sockfd[slot[c]] THEN Nobody ELSE at[f]]
     \/ ThreadGo(c, "clear", "ended") /\ UNCHANGED at
        /\ sockfd' = [sockfd EXCEPT ![slot[c]] = -1]
  /\ UNCHANGED <<clientVars, running, masterVars, slot, fd, cancelled>>

\* A cancelled thread ends in its next read, write or close.
BeCancelled(c) ==
  /\ c \in cancelled
  /\ ThreadGo(c, "serve", "cancelled") \/ ThreadGo(c, "close", "cancelled")
  /\ UNCHANGED <<sockfd, at, clientVars, running, masterVars, slot, fd, cancelled>>

-----------------------------------------------------------------------------
MasterStep ==
  \/ Accept \/ AcceptNothing \/ Scan \/ Fill \/ RestoreFails
  \/ Create \/ CreateFails \/ Test \/ CancelScan \/ Cancel

ThreadStep(c) ==
  ThreadStart(c) \/ (c \in hung /\ Leave(c)) \/ Close(c) \/ BeCancelled(c)

Next ==
  \/ MasterStep
  \/ \E c \in Conns :
       \/ Arrive(c) \/ HangUp(c)
       \/ ThreadStart(c) \/ Exit(c) \/ Leave(c) \/ Close(c) \/ BeCancelled(c)

Spec == Init /\ [][Next]_vars

\* The threads are scheduled; a client may stay, and be silent, for as long as it likes.
FairSpec == Spec /\ WF_vars(MasterStep) /\ \A c \in Conns : WF_vars(ThreadStep(c))

-----------------------------------------------------------------------------
TypeOK ==
  /\ sockfd \in [Slots -> Fds \cup {-1}]
  /\ at \in [Fds -> Conns \cup {Nobody}]
  /\ arrived \subseteq Conns /\ backlog \subseteq arrived /\ hung \subseteq arrived
  /\ running \in BOOLEAN
  /\ master \in {"accept", "scan", "fill", "create", "test", "cancel", "cancelling", "over"}
  /\ newsockfd \in Fds \cup {-1} /\ client \in Conns \cup {Nobody}
  /\ i \in 0 .. NumConnections
  /\ thread \in [Conns -> {"none", "start", "serve", "close", "clear", "ended", "cancelled"}]
  /\ slot \in [Conns -> Slots] /\ fd \in [Conns -> Fds \cup {-1}]
  /\ latest \in [Slots -> Conns \cup {Nobody}]
  /\ cancelled \subseteq Conns \cup {Nobody}

\* The threads that use their slot.
Holding(c) == thread[c] \in {"start", "serve", "close", "clear", "cancelled"}

\* PCR_Process, DServ_Process and their like read and write only the connection they
\* were started for, although descriptors and slots are used again all the time.
OwnConnection == \A c \in Conns : thread[c] = "serve" => at[fd[c]] = c

\* While the loop runs, a slot is in use exactly as long as the loop or one thread
\* needs it: none is lost, and no two threads share one.
SlotsHeld ==
  /\ \A c, d \in Conns : Holding(c) /\ Holding(d) /\ slot[c] = slot[d] => c = d
  /\ running => \A s \in Slots :
       sockfd[s] >= 0 <=> \/ master = "create" /\ i = s
                          \/ \E c \in Conns : Holding(c) /\ slot[c] = s

\* The loop has a connection in its hands, which no thread has yet.
Incoming == master \in {"scan", "fill", "create"}

\* Only accepted connections have threads.
Accepted == \A c \in Conns : thread[c] # "none" => c \in arrived \ backlog

InHand ==
  Incoming =>
    /\ client \in arrived \ backlog /\ thread[client] = "none"
    /\ newsockfd \in Fds /\ at[newsockfd] = client

\* The loop fills only a slot that nobody needs.
Filling ==
  /\ master \in {"fill", "create", "cancelling"} => i < NumConnections
  /\ master = "fill" => sockfd[i] = -1
  /\ master = "create" => sockfd[i] = newsockfd /\ \A c \in Conns : Holding(c) => slot[c] # i

\* A slot names the descriptor of its thread's connection until that is closed.
OwnDescriptor ==
  \A c \in Conns :
    /\ Holding(c) => sockfd[slot[c]] \in Fds
    /\ thread[c] \in {"start", "serve", "close"} => at[sockfd[slot[c]]] = c
    /\ thread[c] = "serve" => fd[c] = sockfd[slot[c]]

\* Why the pool works: slots and descriptors that are used again are, at each step, in
\* the hands of the loop, of one thread or of nobody.
PoolInv == Accepted /\ InHand /\ Filling /\ OwnDescriptor /\ SlotsHeld

\* DServ_Master.c:33 sockets are closed at once, "Needed to fix the problem of no socket
\* resources available": every descriptor taken by accept is in a slot or in the hands
\* of the loop, as long as the loop runs.
NoDescriptorLost ==
  running => \A f \in Fds : at[f] # Nobody =>
    \/ \E s \in Slots : sockfd[s] = f
    \/ master \in {"scan", "fill"} /\ newsockfd = f

\* DServ_Master.c:20 "The mother will properly shutdown all created threads": at the end
\* only threads that were created are cancelled.
CancelsCreated == Nobody \notin cancelled

\* When all clients have gone, the pool gets all its slots back, unless the loop stops
\* or has no descriptor for those that wait.
PoolRecovers ==
  hung = Conns ~> \/ ~running
                  \/ \A s \in Slots : sockfd[s] = -1
                  \/ \A f \in Fds : at[f] # Nobody

\* The pool serves each client at most once, each in a slot of its own, and starts with
\* none after the loop has ended.
Serving == {c \in Conns : thread[c] \in {"start", "serve", "close"}}
Past == {c \in Conns : thread[c] \in {"clear", "ended", "cancelled"}}
Open == master \notin {"cancel", "cancelling", "over"}

Pool == INSTANCE ClientSeats WITH
  Clients <- Conns, Seats <- Slots, serving <- Serving, seat <- slot, past <- Past, open <- Open

SeatsSpec == Pool!SeatsSpec
=============================================================================
