----------------------------- MODULE PcrCommand -----------------------------
(***************************************************************************)
(* The command channel to the PC-Reconstructor (PCR): one TCP connection   *)
(* that all threads of the data server share.  Every thread PCR_Process    *)
(* may send a command and wait for its reply (PCR_SendCmd and the routines *)
(* that send vectors), while Status_Master asks for "all" parameters once  *)
(* a second.  A mutex, PCR_CMD_Lock, keeps the exchanges apart; opening    *)
(* and most of the closing of the connection happens outside it.           *)
(*                                                                         *)
(* A line of text is what the PCR says of one thing: "OK", "Error", one    *)
(* parameter of the status, or the "EOF" that ends the status.             *)
(***************************************************************************)
EXTENDS Integers, Sequences

CONSTANTS
  Workers,       \* threads that run commands of operators
  Status,        \* the thread Status_Master
  NumParameters, \* parameters in the reply to "all"
  MaxConns,      \* bound: connections that are made
  MaxRequests,   \* bound: commands of operators
  Nobody         \* owner of the mutex when it is free

Threads  == Workers \cup {Status}
Conns    == 1 .. MaxConns
Requests == 1 .. MaxRequests

OK         == -1
ERROR      == 0
Parameters == 1 .. NumParameters
EOF        == NumParameters + 1
Lines      == OK .. EOF

\* A line, and the request it answers.
Reply == [to : Requests \cup {Status}, line : Lines]

ASSUME CommandAssumption ==
  /\ NumParameters \in Nat /\ MaxConns \in Nat /\ MaxRequests \in Nat
  /\ Status \notin Workers /\ Nobody \notin Threads
  /\ Status \notin Requests /\ Nobody \notin Requests

VARIABLES
  owner,      \* who holds PCR_CMD_Lock
  connected,  \* Socket_Info.connected
  sockfd,     \* Socket_Info.sockfd: a connection, -1, or 0
  pc,         \* where each thread is
  link,       \* each connection, as the data server's socket shows it
  made,       \* connections made so far
  asked,      \* per connection: requests the PCR has not answered yet
  replies,    \* per connection: lines on their way to the data server
  count,      \* commands of operators so far
  mine,       \* the command each worker runs, a number
  watched,    \* the socket each worker passed to select()
  initList,   \* Init_List
  got,        \* lines read by Status_ReadToEOF, the last one included
  positions,  \* Status_Position: the parameter on each line of the reply
  answer,     \* history: the request that was answered with the "OK" each worker
              \*          took for its reply, and the connection it came over
  givenUp,    \* history: the connection of every reply that was not waited for
  source,     \* history: connection of the status reply read last
  listOf,     \* history: connection on which positions was set up
  stored      \* history: the lines stored last, and their connection

sockVars   == <<connected, sockfd, link, made>>
wireVars   == <<asked, replies>>
workerVars == <<count, mine, watched, answer, givenUp>>
statusVars == <<initList, got, positions, source, listOf, stored>>
vars == <<owner, sockVars, pc, wireVars, workerVars, statusVars>>

-----------------------------------------------------------------------------
NoReply == [to |-> Status, conn |-> 0]

Init ==
  /\ owner = Nobody
  /\ connected = FALSE /\ sockfd = -1
  /\ pc = [t \in Threads |-> IF t = Status THEN "check" ELSE "idle"]
  /\ link = [c \in Conns |-> "none"] /\ made = 0
  /\ asked = [c \in Conns |-> <<>>] /\ replies = [c \in Conns |-> <<>>]
  /\ count = 0 /\ mine = [w \in Workers |-> 0] /\ watched = [w \in Workers |-> -1]
  /\ initList = TRUE /\ got = <<>> /\ positions = <<>>
  /\ answer = [w \in Workers |-> NoReply] /\ givenUp = <<>>
  /\ source = 0 /\ listOf = 0 /\ stored = [lines |-> <<>>, conn |-> 0]

Go(t, from, to) == pc[t] = from /\ pc' = [pc EXCEPT ![t] = to]

\* close(): what was on its way is lost.
Forget(c) ==
  /\ link' = [d \in Conns |-> IF d = c THEN "none" ELSE link[d]]
  /\ asked' = [d \in Conns |-> IF d = c THEN <<>> ELSE asked[d]]
  /\ replies' = [d \in Conns |-> IF d = c THEN <<>> ELSE replies[d]]

SocketClose ==
  /\ Forget(sockfd)
  /\ sockfd' = -1 /\ connected' = FALSE
  /\ UNCHANGED made

(***************************************************************************)
(* Socket_OpenClient, by whoever finds the channel not connected.  Nothing *)
(* keeps two threads from being in it at a time.                           *)
(***************************************************************************)

AfterFailure(t) == IF t = Status THEN "close" ELSE "idle"
AfterOpening(t) == IF t = Status THEN "check" ELSE "lock"

\* The host has no address, or: close the old socket, if there is one.
OpenBegin(t) ==
  \/ /\ Go(t, "open", AfterFailure(t))
     /\ UNCHANGED <<owner, sockVars, wireVars, workerVars, statusVars>>
  \/ /\ Go(t, "open", "opening")
     /\ IF connected \/ sockfd >= 0
        THEN Forget(sockfd) /\ sockfd' = 0 /\ connected' = FALSE
        ELSE UNCHANGED <<link, asked, replies, sockfd, connected>>
     /\ UNCHANGED <<owner, made, workerVars, statusVars>>

\* After a failure connected is cleared and sockfd is left as it is.
OpenEnd(t) ==
  /\ \/ /\ made < MaxConns
        /\ Go(t, "opening", AfterOpening(t))
        /\ made' = made + 1
        /\ link' = [link EXCEPT ![made'] = "up"]
        /\ sockfd' = made' /\ connected' = TRUE
     \/ /\ Go(t, "opening", AfterFailure(t))
        /\ connected' = FALSE
        /\ UNCHANGED <<made, link, sockfd>>
  /\ UNCHANGED <<owner, wireVars, workerVars, statusVars>>

(***************************************************************************)
(* One exchange, and the mutex around it                                   *)
(***************************************************************************)

\* Mistake: the mutex is not taken.
LockIgnored(t) ==
  /\ Go(t, "lock", "send")
  /\ owner' = t
  /\ UNCHANGED <<sockVars, wireVars, workerVars, statusVars>>

Lock(t) ==
  /\ owner = Nobody
  /\ Go(t, "lock", "send")
  /\ owner' = t
  /\ UNCHANGED <<sockVars, wireVars, workerVars, statusVars>>

\* The request is written to whatever sockfd is now.  The first write after the PCR
\* closed its end succeeds; it may earn a reset.
Written(request) ==
  \/ /\ sockfd = 0 /\ UNCHANGED <<link, asked>>
  \/ /\ sockfd \in Conns /\ link[sockfd] = "up"
     /\ asked' = [asked EXCEPT ![sockfd] = Append(@, request)]
     /\ UNCHANGED link
  \/ /\ sockfd \in Conns /\ link[sockfd] = "closed"
     /\ \E l \in {"closed", "reset"} : link' = [link EXCEPT ![sockfd] = l]
     /\ UNCHANGED asked

WriteFails == sockfd \in Conns => link[sockfd] # "up"

Send(w) ==
  /\ Go(w, "send", "select")
  /\ Written(mine[w])
  /\ watched' = [watched EXCEPT ![w] = sockfd]
  /\ UNCHANGED <<owner, connected, sockfd, made, replies, count, mine, answer,
                 givenUp, statusVars>>

SendFails(w) ==
  /\ WriteFails
  /\ Go(w, "send", "idle")
  /\ owner' = Nobody
  /\ UNCHANGED <<sockVars, wireVars, workerVars, statusVars>>

StatusSend ==
  /\ Go(Status, "send", "read")
  /\ Written(Status)
  /\ got' = <<>>
  /\ UNCHANGED <<owner, connected, sockfd, made, replies, workerVars, initList,
                 positions, source, listOf, stored>>

StatusSendFails ==
  /\ WriteFails
  /\ Go(Status, "send", "close")
  /\ owner' = Nobody
  /\ UNCHANGED <<sockVars, wireVars, workerVars, statusVars>>
(***************************************************************************)
(* PCR_SendCmd, and PCR_SendShortVector and its kin                        *)
(***************************************************************************)

Begin(w) ==
  /\ count < MaxRequests
  /\ Go(w, "idle", IF connected THEN "lock" ELSE "open")
  /\ count' = count + 1
  /\ mine' = [mine EXCEPT ![w] = count']
  /\ answer' = [answer EXCEPT ![w] = NoReply]
  /\ UNCHANGED <<owner, sockVars, wireVars, watched, givenUp, statusVars>>

\* select() returns as soon as there is something to read, the end of the
\* connection included, or when the socket is not open any more.
Select(w) ==
  /\ watched[w] \in Conns => replies[watched[w]] # <<>> \/ link[watched[w]] # "up"
  /\ watched[w] # -1
  /\ Go(w, "select", "read")
  /\ UNCHANGED <<owner, sockVars, wireVars, workerVars, statusVars>>

\* Mistake: the mutex stays locked.
TimeoutLocked(w) ==
  /\ watched[w] \in Conns => replies[watched[w]] = <<>> /\ link[watched[w]] \in {"up", "none"}
  /\ Go(w, "select", "idle")
  /\ givenUp' = IF watched[w] \in Conns THEN Append(givenUp, watched[w]) ELSE givenUp
  /\ UNCHANGED <<owner, sockVars, wireVars, count, mine, watched, answer, statusVars>>

\* "Reply not received": the command is over, its reply may still come.  A socket
\* closed by another thread while select() waits does not wake it, and FD_SET(-1)
\* followed by select(0) waits for nothing.
Timeout(w) ==
  /\ watched[w] \in Conns => replies[watched[w]] = <<>> /\ link[watched[w]] \in {"up", "none"}
  /\ Go(w, "select", "idle")
  /\ owner' = Nobody
  /\ givenUp' = IF watched[w] \in Conns THEN Append(givenUp, watched[w]) ELSE givenUp
  /\ UNCHANGED <<sockVars, wireVars, count, mine, watched, answer, statusVars>>

LineReady == sockfd \in Conns /\ replies[sockfd] # <<>>

TakeLine == replies' = [replies EXCEPT ![sockfd] = Tail(@)]

\* The end of the data: nothing can come from sockfd any more.
AtEnd == sockfd \in Conns => replies[sockfd] = <<>> /\ link[sockfd] # "up"

\* Only "ok" is success; "error" and anything else is failure.
ReadReply(w) ==
  /\ LineReady
  /\ Go(w, "read", "idle")
  /\ TakeLine
  /\ answer' = [answer EXCEPT ![w] = IF Head(replies[sockfd]).line = OK
                                     THEN [to |-> Head(replies[sockfd]).to, conn |-> sockfd]
                                     ELSE NoReply]
  /\ owner' = Nobody
  /\ UNCHANGED <<sockVars, asked, count, mine, watched, givenUp, statusVars>>

\* PCR_SendCmd closes the connection, the routines that send vectors do not.
ReadFails(w) ==
  /\ AtEnd
  /\ Go(w, "read", "idle")
  /\ SocketClose \/ UNCHANGED <<sockVars, wireVars>>
  /\ owner' = Nobody
  /\ UNCHANGED <<workerVars, statusVars>>

(***************************************************************************)
(* Status_Master                                                           *)
(***************************************************************************)

StatusCheck ==
  /\ Go(Status, "check", IF connected THEN "lock" ELSE "open")
  /\ initList' = (initList \/ ~connected)
  /\ UNCHANGED <<owner, sockVars, wireVars, workerVars, got, positions, source,
                 listOf, stored>>

\* Socket_Close without the mutex, then the next turn of the loop.
StatusClose ==
  /\ Go(Status, "close", "check")
  /\ SocketClose
  /\ UNCHANGED <<owner, workerVars, statusVars>>

\* Status_EndOfData
EndOfData(line) == line \in {OK, EOF}

\* Bound: lines of one reply; there are more only when a line repeats without end, or
\* after more replies that nobody waited for than there are parameters.
MaxLines == 2 * NumParameters + 2

TakeStatusLine(line) ==
  /\ got' = IF Len(got) >= MaxLines THEN got ELSE Append(got, line)
  /\ IF EndOfData(line)
     THEN /\ Go(Status, "read", "apply")
          /\ owner' = Nobody
          /\ source' = sockfd
     ELSE /\ pc[Status] = "read"
          /\ UNCHANGED <<pc, owner, source>>
  /\ UNCHANGED <<workerVars, initList, positions, listOf, stored>>

StatusReadLine ==
  /\ LineReady
  /\ TakeLine
  /\ TakeStatusLine(Head(replies[sockfd]).line)
  /\ UNCHANGED <<sockVars, asked>>

\* At the end of the data Status_ReadLine leaves recvline as it was, and that is no
\* error: the line read before is taken again.  Before the first line recvline is
\* uninitialised.
StatusReadNothing ==
  /\ sockfd # -1 /\ AtEnd
  /\ sockfd \in Conns => link[sockfd] # "reset"
  /\ \E line \in IF got = <<>> THEN Lines ELSE {got[Len(got)]} : TakeStatusLine(line)
  /\ UNCHANGED <<sockVars, wireVars>>

\* Status_ReadToEOF closes the connection and Status_Master closes it once more,
\* without the mutex.
StatusReadFails ==
  /\ AtEnd
  /\ sockfd = -1 \/ (sockfd \in Conns /\ link[sockfd] = "reset")
  /\ Go(Status, "read", "close")
  /\ SocketClose
  /\ owner' = Nobody
  /\ UNCHANGED <<workerVars, statusVars>>

LinesBefore == SubSeq(got, 1, Len(got) - 1)      \* Status_Lines of them

\* First reply: Status_ParameterPositions, Status_UpdateParameters, and on to the
\* second exchange without a pause.
StatusInit ==
  /\ initList
  /\ Go(Status, "apply", "lock")
  /\ initList' = FALSE
  /\ positions' = LinesBefore
  /\ listOf' = source
  /\ stored' = [lines |-> LinesBefore, conn |-> source]
  /\ UNCHANGED <<owner, sockVars, wireVars, workerVars, got, source>>

\* Mistake: the number of lines is not looked at.
StatusUpdateUnchecked ==
  /\ ~initList
  /\ Go(Status, "apply", "check")
  /\ stored' = [lines |-> LinesBefore, conn |-> source]
  /\ UNCHANGED <<owner, sockVars, wireVars, workerVars, initList, got, positions,
                 source, listOf>>

\* Status_Lines # Status_Count: close the connection.
StatusUpdate ==
  /\ ~initList
  /\ \/ /\ Len(LinesBefore) = Len(positions)
        /\ Go(Status, "apply", "check")
        /\ stored' = [lines |-> LinesBefore, conn |-> source]
     \/ /\ Len(LinesBefore) # Len(positions)
        /\ Go(Status, "apply", "close")
        /\ UNCHANGED stored
  /\ UNCHANGED <<owner, sockVars, wireVars, workerVars, initList, got, positions,
                 source, listOf>>

(***************************************************************************)
(* The PCR                                                                 *)
(***************************************************************************)

StatusReply ==
  [i \in 1 .. NumParameters + 1 |-> [to |-> Status, line |-> i]]

\* It answers one request after the other.
Answer(c) ==
  /\ asked[c] # <<>>
  /\ asked' = [asked EXCEPT ![c] = Tail(@)]
  /\ IF Head(asked[c]) = Status
     THEN replies' = [replies EXCEPT ![c] = @ \o StatusReply]
     ELSE \E l \in {OK, ERROR} :
            replies' = [replies EXCEPT ![c] = Append(@, [to |-> Head(asked[c]), line |-> l])]
  /\ UNCHANGED <<owner, sockVars, pc, workerVars, statusVars>>

\* It goes away: in order, after some of its replies, or not.
Drop(c) ==
  /\ link[c] = "up"
  /\ asked' = [asked EXCEPT ![c] = <<>>]
  /\ \/ /\ link' = [link EXCEPT ![c] = "closed"]
        /\ \E k \in 0 .. Len(replies[c]) :
             replies' = [replies EXCEPT ![c] = SubSeq(@, 1, k)]
     \/ /\ link' = [link EXCEPT ![c] = "reset"]
        /\ replies' = [replies EXCEPT ![c] = <<>>]
  /\ UNCHANGED <<owner, connected, sockfd, made, pc, workerVars, statusVars>>

-----------------------------------------------------------------------------
Opening(t) == OpenBegin(t) \/ OpenEnd(t)

Worker(w) ==
  \/ Opening(w) \/ Send(w) \/ SendFails(w)
  \/ Select(w) \/ Timeout(w) \/ ReadReply(w) \/ ReadFails(w)

StatusMaster ==
  \/ Opening(Status) \/ StatusCheck \/ StatusClose \/ StatusSend \/ StatusSendFails
  \/ StatusReadLine \/ StatusReadNothing \/ StatusReadFails
  \/ StatusInit \/ StatusUpdate

Next ==
  \/ \E w \in Workers : Begin(w) \/ Worker(w)
  \/ StatusMaster
  \/ \E t \in Threads : Lock(t)
  \/ \E c \in Conns : Answer(c) \/ Drop(c)

Spec == Init /\ [][Next]_vars

\* Threads run, the mutex is granted in the end, and the PCR answers what it is
\* asked as long as it is there.  Nothing is assumed of operators.
FairSpec ==
  /\ Spec
  /\ WF_vars(StatusMaster) /\ SF_vars(Lock(Status))
  /\ \A w \in Workers : WF_vars(Worker(w)) /\ SF_vars(Lock(w))
  /\ \A c \in Conns : WF_vars(Answer(c))

(***************************************************************************)
(* Properties                                                              *)
(***************************************************************************)

WorkerPlaces == {"idle", "open", "opening", "lock", "send", "select", "read"}
StatusPlaces == {"check", "open", "opening", "lock", "send", "read", "apply", "close"}

TypeOK ==
  /\ owner \in Threads \cup {Nobody}
  /\ connected \in BOOLEAN /\ sockfd \in -1 .. MaxConns
  /\ pc \in [Threads -> WorkerPlaces \cup StatusPlaces]
  /\ pc[Status] \in StatusPlaces /\ \A w \in Workers : pc[w] \in WorkerPlaces
  /\ link \in [Conns -> {"none", "up", "closed", "reset"}] /\ made \in 0 .. MaxConns
  /\ asked \in [Conns -> Seq(Requests \cup {Status})]
  /\ replies \in [Conns -> Seq(Reply)]
  /\ count \in 0 .. MaxRequests /\ mine \in [Workers -> 0 .. MaxRequests]
  /\ watched \in [Workers -> -1 .. MaxConns]
  /\ initList \in BOOLEAN
  /\ got \in Seq(Lines) /\ positions \in Seq(Lines)
  /\ answer \in [Workers -> [to : Requests \cup {Status}, conn : 0 .. MaxConns]]
  /\ givenUp \in Seq(Conns)
  /\ source \in 0 .. MaxConns /\ listOf \in 0 .. MaxConns
  /\ stored \in [lines : Seq(Lines), conn : 0 .. MaxConns]

\* The mutex: whoever is in an exchange holds it, so exchanges do not overlap,
\* although connections are opened and closed without it.
OneExchange ==
  \A t \in Threads : pc[t] \in {"send", "select", "read"} <=> owner = t

\* An "OK" taken for the reply to a command is the reply to another only after
\* somebody stopped waiting for a reply on that connection.
Mistaken(w) == answer[w] # NoReply /\ answer[w].to # mine[w]

OwnReply ==
  \A w \in Workers :
    Mistaken(w) => \E i \in DOMAIN givenUp : givenUp[i] = answer[w].conn

\* What the owner of the mutex may have outstanding on connection c: nothing, a
\* request, a reply to it, or what is left of the status, its last line the "EOF".
Calm(c) == asked[c] = <<>> /\ replies[c] = <<>>
Waiting(w, c) == pc[w] \in {"select", "read"} /\ watched[w] = c
Asked(c) ==
  /\ replies[c] = <<>>
  /\ \/ pc[Status] = "read" /\ asked[c] = <<Status>>
     \/ \E w \in Workers : Waiting(w, c) /\ asked[c] = <<mine[w]>>
Answered(c) ==
  /\ asked[c] = <<>> /\ Len(replies[c]) = 1
  /\ \E w \in Workers : Waiting(w, c) /\ replies[c][1].to = mine[w]
Telling(c) ==
  /\ asked[c] = <<>> /\ pc[Status] = "read"
  /\ \A i \in DOMAIN replies[c] :
       /\ replies[c][i].to = Status /\ replies[c][i].line \in 1 .. EOF
       /\ replies[c][i].line = EOF => i = Len(replies[c])

\* The connection in use, as long as nobody stopped waiting for a reply on it,
\* carries at most the exchange of the owner of the mutex: nothing is left of an
\* earlier one, whatever was lost and whoever opened and closed.
ChannelHolds ==
  sockfd \in Conns /\ (\A i \in DOMAIN givenUp : givenUp[i] # sockfd)
    => Calm(sockfd) \/ Asked(sockfd) \/ Answered(sockfd) \/ Telling(sockfd)

\* A value of the status is stored as the parameter it belongs to, although replies
\* that nobody waited for come in between, as long as these are not more than there
\* are parameters: then they could make up a reply of the right length.
StoredInPlace ==
  Len(givenUp) <= NumParameters =>
    \A i \in DOMAIN positions :
      (i \in DOMAIN stored.lines /\ positions[i] \in Parameters) =>
        stored.lines[i] = positions[i]

\* The holder of the mutex reads from a connection on which nothing will come.
Deaf ==
  /\ \E t \in Threads : pc[t] = "read"
  /\ sockfd \in Conns => replies[sockfd] = <<>> /\ asked[sockfd] = <<>>

\* A command that waits for the mutex comes to its end, unless the holder of the
\* mutex was left reading where nothing will come.
CommandEnds == \A w \in Workers : pc[w] = "lock" ~> (pc[w] = "idle" \/ Deaf)

\* "Added mutex lock and unlock to keep from having collisions between different
\* threads trying to use the PCR_CMD port": a command gets its own reply.
NoCollisions == \A w \in Workers : ~Mistaken(w)

\* "If we have lost connection to the pcr, then Status_Lines ... is 0 (or at least
\* not equal to Status_Count).  In this case we should close the connection".
ConnectionLossNoticed ==
  \A c \in Conns : link[c] \in {"closed", "reset"} ~> link[c] = "none"

\* "If we have not connected to the PCR, or the connection was lost and
\* re-established, then we need to get the parameter list from the PCR": values are
\* stored by the list that came over the same connection.
ListPerConnection == stored.conn = listOf

\* "Check if there is an old socket connection.  If so, close it": the connection in
\* use is the only one open.
OneConnection == \A c \in Conns : link[c] # "none" => sockfd = c
=============================================================================
