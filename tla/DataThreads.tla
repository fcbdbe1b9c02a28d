---------------------------- MODULE DataThreads ----------------------------
(***************************************************************************)
(* What surrounds the ring of mirror frames in the data server: the frames *)
(* of the camera, the threads that receive frames and how operators start  *)
(* them, the port of the PCR's errors, the pools of threads of the servers *)
(* that send frames and parameters, and once more the channel for          *)
(* commands, under fairness.  Each behaviour is about one of them, chosen  *)
(* at the start: what they share, a connection that ends or a flag that is *)
(* cleared, happens in each of them at any time.                           *)
(***************************************************************************)
EXTENDS CameraFrames, FrameThreads, ErrorPort

CONSTANTS
  Workers, Status, NumParameters, MaxConns, MaxRequests, Nobody,  \* of PcrCommand
  NumConnections, PoolConns, Fds                                  \* of ClientPool

VARIABLES
  which,    \* the part this behaviour is about
  owner, connected, sockfd, pc, channel, made, asked, replies, count, mine, watched, answer,
  givenUp, initList, got, positions, source, listOf, stored,  \* PcrCommand
  slotFd, openAt, arrived, backlog, hung, accepting, master, newsockfd, client, index,
  poolThread, slot, fd, latest, cancelled                     \* ClientPool
channelVars == <<owner, connected, sockfd, pc, channel, made, asked, replies, count, mine, watched,
                 answer, givenUp, initList, got, positions, source, listOf, stored>>
poolVars == <<slotFd, openAt, arrived, backlog, hung, accepting, master, newsockfd, client, index,
              poolThread, slot, fd, latest, cancelled>>
dataThreadVars == <<which, camVars, frameVars, errorVars, channelVars, poolVars>>

Channel == INSTANCE PcrCommand WITH link <- channel

\* DServ_Master, WFSC_Master and Info_Master.
Masters == INSTANCE ClientPool WITH
  Main <- FALSE, Conns <- PoolConns, sockfd <- slotFd, at <- openAt, running <- accepting,
  i <- index, thread <- poolThread

Init ==
  /\ which \in {"camera", "threads", "errors", "channel", "pools"}
  /\ Cam_Init /\ FrameThreads_Init /\ ErrorPort_Init /\ Channel!Init /\ Masters!Init

CameraPart   == which = "camera" /\ Cam_Next
                /\ UNCHANGED <<which, frameVars, errorVars, channelVars, poolVars>>
ThreadsPart  == which = "threads" /\ FrameThreads_Next
                /\ UNCHANGED <<which, camVars, errorVars, channelVars, poolVars>>
ErrorsPart   == which = "errors" /\ ErrorPort_Next
                /\ UNCHANGED <<which, camVars, frameVars, channelVars, poolVars>>
ChannelPart  == which = "channel" /\ Channel!Next
                /\ UNCHANGED <<which, camVars, frameVars, errorVars, poolVars>>
PoolsPart    == which = "pools" /\ Masters!Next
                /\ UNCHANGED <<which, camVars, frameVars, errorVars, channelVars>>
Next == CameraPart \/ ThreadsPart \/ ErrorsPart \/ ChannelPart \/ PoolsPart

\* The threads go on.  The PCR finishes a frame it has begun or breaks off, and
\* answers on the channel as long as it is there, where the mutex is granted in the
\* end.  Of a camera thread that is starved nothing is assumed but that it finds out
\* when the connection is broken; nor of operators and clients.
Fairness ==
  /\ WF_camVars(which = "camera" /\ CameraThread /\ (CameraStarved => link = "broken"))
  /\ WF_errorVars(which = "errors" /\ Error_Thread)
  /\ WF_channelVars(which = "channel" /\ Channel!StatusMaster)
  /\ \A w \in Workers : WF_channelVars(which = "channel" /\ Channel!Worker(w))
  /\ \A t \in Workers \cup {Status} : SF_channelVars(which = "channel" /\ Channel!Lock(t))
  /\ \A c \in 1 .. MaxConns : WF_channelVars(which = "channel" /\ Channel!Answer(c))
  /\ WF_poolVars(which = "pools" /\ Masters!MasterStep)
  /\ \A c \in PoolConns : WF_poolVars(which = "pools" /\ Masters!ThreadStep(c))

Spec == Init /\ [][Next]_dataThreadVars /\ Fairness
-----------------------------------------------------------------------------
\* Error_Master comes to listen to a connection that is up, again and again,
\* whatever breaks and whoever connects.
ErrorPortListens == which = "errors" => []<>ErrorListens

\* A command that waits for the mutex of the channel comes to its end, unless
\* the holder of the mutex was left reading where nothing will come.
CommandEnds == Channel!CommandEnds

\* When all their clients have gone, they get all their slots back.
PoolRecovers == Masters!PoolRecovers
=============================================================================
