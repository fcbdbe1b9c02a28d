-------------------------- MODULE PcrCommandProofs --------------------------
(***************************************************************************)
(* Proofs about the command channel (PcrCommand), for any number of        *)
(* operators, parameters, connections and commands.                        *)
(***************************************************************************)
EXTENDS PcrCommand, SequenceTheorems, TLAPS

Requested == Requests \cup {Status}

\* The lines of a status reply have come before they are used.
Applying == pc[Status] = "apply" => got # <<>>

\* A worker that is not idle has a command.
Numbered == \A w \in Workers : pc[w] # "idle" => mine[w] \in Requests

TypeInv == TypeOK /\ Applying /\ Numbered

LEMMA Numbers ==
  /\ NumParameters \in Nat /\ MaxConns \in Nat /\ MaxRequests \in Nat
  /\ Status \notin Workers /\ Nobody \notin Threads /\ Status \notin Requests
  /\ Conns \subseteq 0 .. MaxConns /\ Conns \subseteq -1 .. MaxConns
  /\ -1 \notin Conns /\ 0 \notin Conns /\ OK \in Lines /\ ERROR \in Lines
  /\ 1 .. NumParameters + 1 \subseteq Lines
BY CommandAssumption DEF Conns, Lines, OK, ERROR, EOF, Requests, Threads

LEMMA Places == WorkerPlaces \cup StatusPlaces =
  {"idle", "open", "opening", "lock", "send", "select", "read", "check", "apply", "close"}
BY DEF WorkerPlaces, StatusPlaces

LEMMA TailType ==
  ASSUME NEW S, NEW s \in Seq(S), s # <<>>
  PROVE  Head(s) \in S /\ Tail(s) \in Seq(S)
BY HeadTailProperties

LEMMA LastOne ==
  ASSUME NEW S, NEW s \in Seq(S), Len(s) = 1
  PROVE  Tail(s) = <<>>
<1>1. s # <<>>
  BY EmptySeq
<1>2. Tail(s) \in Seq(S) /\ Len(Tail(s)) = 0
  BY <1>1, HeadTailProperties
<1> QED  BY <1>2, EmptySeq

LEMMA PrefixType ==
  ASSUME NEW S, NEW s \in Seq(S), NEW k \in Int, k <= Len(s)
  PROVE  SubSeq(s, 1, k) \in Seq(S)
<1>1. \A j \in 1 .. k : s[j] \in S
  BY LenProperties
<1> QED  BY <1>1, SubSeqProperties

LEMMA StatusReplyType == StatusReply \in Seq(Reply) /\ Len(StatusReply) = NumParameters + 1
<1>1. \A j \in 1 .. NumParameters + 1 : [to |-> Status, line |-> j] \in Reply
  BY Numbers DEF Reply, Lines
<1>2. StatusReply \in [1 .. NumParameters + 1 -> Reply]
  BY <1>1 DEF StatusReply
<1>3. NumParameters + 1 \in Nat
  BY Numbers
<1>4. StatusReply \in Seq(Reply)
  BY <1>2, <1>3, SeqDef
<1> QED  BY <1>2, <1>3, <1>4, LenProperties

-----------------------------------------------------------------------------
(***************************************************************************)
(* Types                                                                   *)
(***************************************************************************)
OwnerOK  == owner \in Threads \cup {Nobody}
PcOK     == /\ pc \in [Threads -> WorkerPlaces \cup StatusPlaces]
            /\ pc[Status] \in StatusPlaces /\ \A w \in Workers : pc[w] \in WorkerPlaces
SockOK   == /\ connected \in BOOLEAN /\ sockfd \in -1 .. MaxConns /\ made \in 0 .. MaxConns
            /\ link \in [Conns -> {"none", "up", "closed", "reset"}]
WireOK   == asked \in [Conns -> Seq(Requested)] /\ replies \in [Conns -> Seq(Reply)]
WorkerOK == /\ count \in 0 .. MaxRequests /\ mine \in [Workers -> 0 .. MaxRequests]
            /\ watched \in [Workers -> -1 .. MaxConns]
            /\ answer \in [Workers -> [to : Requested, conn : 0 .. MaxConns]]
            /\ givenUp \in Seq(Conns)
StatusOK == /\ initList \in BOOLEAN /\ got \in Seq(Lines) /\ positions \in Seq(Lines)
            /\ source \in 0 .. MaxConns /\ listOf \in 0 .. MaxConns
            /\ stored \in [lines : Seq(Lines), conn : 0 .. MaxConns]

LEMMA TypeParts == TypeOK <=> OwnerOK /\ PcOK /\ SockOK /\ WireOK /\ WorkerOK /\ StatusOK
BY DEF TypeOK, OwnerOK, PcOK, SockOK, WireOK, WorkerOK, StatusOK, Requested

LEMMA InitTypes == Init => TypeInv
<1> SUFFICES ASSUME Init PROVE TypeInv
  OBVIOUS
<1> USE Numbers DEF Init
<1>1. OwnerOK /\ SockOK
  <2>1. OwnerOK
    BY DEF OwnerOK
  <2>2. connected = FALSE /\ sockfd = -1 /\ made = 0 /\ link = [c \in Conns |-> "none"]
    OBVIOUS
  <2>3. -1 \in -1 .. MaxConns /\ 0 \in 0 .. MaxConns
    OBVIOUS
  <2> HIDE DEF Init
  <2> QED  BY <2>1, <2>2, <2>3 DEF SockOK
<1>2. PcOK /\ Applying /\ Numbered
  BY DEF PcOK, Applying, Numbered, Threads, WorkerPlaces, StatusPlaces
<1>3. WireOK
  BY DEF WireOK
<1>4. NoReply \in [to : Requested, conn : 0 .. MaxConns]
  BY DEF NoReply, Requested
<1>5. WorkerOK
  BY <1>4 DEF WorkerOK
<1>6. StatusOK
  BY DEF StatusOK
<1> QED  BY <1>1, <1>2, <1>3, <1>5, <1>6, TypeParts DEF TypeInv

\* A thread goes from one place to another.
LEMMA GoType ==
  ASSUME PcOK, NEW t \in Threads, NEW from, NEW to, Go(t, from, to),
         t = Status => to \in StatusPlaces, t # Status => to \in WorkerPlaces
  PROVE  PcOK' /\ pc[t] = from /\ pc'[t] = to /\ \A u \in Threads \ {t} : pc'[u] = pc[u]
BY Numbers DEF PcOK, Go, Threads

LEMMA ForgetType ==
  ASSUME SockOK, WireOK, NEW c, Forget(c)
  PROVE  WireOK' /\ link' \in [Conns -> {"none", "up", "closed", "reset"}]
<1>1. <<>> \in Seq(Requested) /\ <<>> \in Seq(Reply)
  OBVIOUS
<1> QED  BY <1>1 DEF Forget, SockOK, WireOK

LEMMA CloseType ==
  ASSUME SockOK, WireOK, SocketClose
  PROVE  SockOK' /\ WireOK'
<1>1. Forget(sockfd)
  BY DEF SocketClose
<1>2. WireOK' /\ link' \in [Conns -> {"none", "up", "closed", "reset"}]
  BY <1>1, ForgetType
<1>3. sockfd' = -1 /\ connected' = FALSE /\ made' = made /\ -1 \in -1 .. MaxConns
  BY Numbers DEF SocketClose
<1> QED  BY <1>2, <1>3 DEF SockOK

LEMMA WrittenType ==
  ASSUME SockOK, WireOK, NEW r \in Requested, Written(r), UNCHANGED <<connected, sockfd, made, replies>>
  PROVE  SockOK' /\ WireOK'
<1>1. \A s \in Seq(Requested) : Append(s, r) \in Seq(Requested)
  OBVIOUS
<1>2. link' \in [Conns -> {"none", "up", "closed", "reset"}]
  BY DEF Written, SockOK
<1>3. asked' \in [Conns -> Seq(Requested)]
  <2>1. CASE UNCHANGED asked
    BY <2>1 DEF WireOK
  <2>2. CASE sockfd \in Conns /\ asked' = [asked EXCEPT ![sockfd] = Append(@, r)]
    <3>1. Append(asked[sockfd], r) \in Seq(Requested)
      BY <1>1, <2>2 DEF WireOK
    <3> QED  BY <2>2, <3>1 DEF WireOK
  <2> QED  BY <2>1, <2>2 DEF Written
<1> QED  BY <1>2, <1>3 DEF SockOK, WireOK

\* Every step keeps the types, action by action and group by group of variables.
LEMMA StepTypes == TypeInv /\ [Next]_vars => TypeInv'
<1> SUFFICES ASSUME TypeInv, [Next]_vars PROVE TypeInv'
  OBVIOUS
<1> DEFINE Moves == /\ PcOK' /\ (pc'[Status] = "apply" => pc[Status] = "apply")
                    /\ \A v \in Workers : pc'[v] # "idle" => pc[v] # "idle"
<1>a. OwnerOK /\ PcOK /\ SockOK /\ WireOK /\ WorkerOK /\ StatusOK /\ Applying /\ Numbered
  BY TypeParts DEF TypeInv
<1>b. (\A w \in Workers : w \in Threads /\ w # Status) /\ Status \in Threads
  BY Numbers DEF Threads
<1>c. ASSUME UNCHANGED statusVars PROVE StatusOK'
  BY <1>a, <1>c DEF StatusOK, statusVars
<1>d. ASSUME UNCHANGED workerVars PROVE WorkerOK'
  BY <1>a, <1>d DEF WorkerOK, workerVars
<1>e. ASSUME UNCHANGED sockVars PROVE SockOK'
  BY <1>a, <1>e DEF SockOK, sockVars
<1>f. ASSUME UNCHANGED wireVars PROVE WireOK'
  BY <1>a, <1>f DEF WireOK, wireVars
<1>g. ASSUME owner' \in {owner, Nobody} PROVE OwnerOK'
  BY <1>a, <1>g DEF OwnerOK
<1>h. NoReply \in [to : Requested, conn : 0 .. MaxConns]
  BY Numbers DEF NoReply, Requested
<1>i. ASSUME OwnerOK', PcOK', SockOK', WireOK', WorkerOK', StatusOK', Applying', Numbered' PROVE TypeInv'
  BY <1>i, TypeParts DEF TypeInv, TypeOK, OwnerOK, PcOK, SockOK, WireOK, WorkerOK, StatusOK, Requested
<1>j. ASSUME UNCHANGED pc PROVE Moves
  BY <1>a, <1>j DEF PcOK
<1>k. ASSUME Moves, UNCHANGED got PROVE Applying'
  BY <1>a, <1>k DEF Applying
<1>l. ASSUME Moves, UNCHANGED mine PROVE Numbered'
  BY <1>a, <1>l DEF Numbered
<1>m. ASSUME UNCHANGED statusVars, UNCHANGED workerVars, Moves PROVE StatusOK' /\ WorkerOK' /\ PcOK' /\ Applying' /\ Numbered'
  BY <1>c, <1>d, <1>k, <1>l, <1>m DEF statusVars, workerVars
<1>n. ASSUME NEW t \in Threads, NEW from, NEW to, Go(t, from, to), to # "apply",
             t = Status => to \in StatusPlaces, t # Status => to \in WorkerPlaces /\ from # "idle"
      PROVE  Moves /\ pc[t] = from /\ pc'[t] = to
  BY <1>a, <1>b, <1>n, GoType
<1> HIDE DEF Moves
<1>1. ASSUME NEW w \in Workers, Begin(w) PROVE TypeInv'
  <2>1. PcOK' /\ pc'[Status] = pc[Status] /\ \A v \in Workers \ {w} : pc'[v] = pc[v]
    <3> DEFINE to == IF connected THEN "lock" ELSE "open"
    <3>1. Go(w, "idle", to) /\ to \in WorkerPlaces
      BY <1>1 DEF Begin, WorkerPlaces
    <3> HIDE DEF to
    <3> QED  BY <3>1, <1>a, <1>b, GoType
  <2>2. mine' = [mine EXCEPT ![w] = count'] /\ count' = count + 1 /\ count' \in Requests /\ count' \in 0 .. MaxRequests
    BY <1>1, <1>a, Numbers DEF Begin, WorkerOK, Requests
  <2>3. WorkerOK'
    BY <1>1, <2>2, <1>a, <1>h DEF Begin, WorkerOK
  <2>4. Numbered' /\ Applying'
    BY <1>1, <2>1, <2>2, <1>a DEF Begin, Numbered, Applying, WorkerOK, statusVars
  <2>5. OwnerOK' /\ SockOK' /\ WireOK' /\ StatusOK'
    BY <1>1, <1>c, <1>e, <1>f, <1>g DEF Begin
  <2> QED  BY <1>i, <2>1, <2>3, <2>4, <2>5
<1>2. ASSUME NEW t \in Threads, OpenBegin(t) PROVE TypeInv'
  <2>1. Moves
    <3>1. Go(t, "open", AfterFailure(t)) \/ Go(t, "open", "opening")
      BY <1>2 DEF OpenBegin
    <3> QED  BY <3>1, <1>n DEF AfterFailure, WorkerPlaces, StatusPlaces
  <2>2. SockOK' /\ WireOK'
    <3>1. CASE UNCHANGED <<sockVars, wireVars>>
      BY <3>1, <1>e, <1>f
    <3>2. CASE Forget(sockfd) /\ sockfd' = 0 /\ connected' = FALSE /\ UNCHANGED made
      <4>1. WireOK' /\ link' \in [Conns -> {"none", "up", "closed", "reset"}]
        BY <3>2, <1>a, ForgetType
      <4>2. 0 \in -1 .. MaxConns
        BY Numbers
      <4> QED  BY <3>2, <4>1, <4>2, <1>a DEF SockOK
    <3> QED  BY <1>2, <3>1, <3>2 DEF OpenBegin, sockVars, wireVars
  <2> QED  BY <1>2, <1>g, <1>i, <1>m, <2>1, <2>2 DEF OpenBegin
<1>3. ASSUME NEW t \in Threads, OpenEnd(t) PROVE TypeInv'
  <2>1. Moves
    <3>1. Go(t, "opening", AfterFailure(t)) \/ Go(t, "opening", AfterOpening(t))
      BY <1>3 DEF OpenEnd
    <3> QED  BY <3>1, <1>n DEF AfterFailure, AfterOpening, WorkerPlaces, StatusPlaces
  <2>2. SockOK'
    <3>1. CASE made < MaxConns /\ made' = made + 1 /\ link' = [link EXCEPT ![made'] = "up"] /\ sockfd' = made' /\ connected' = TRUE
      <4>1. made + 1 \in 0 .. MaxConns /\ made + 1 \in -1 .. MaxConns
        BY <3>1, <1>a, Numbers DEF SockOK
      <4> QED  BY <3>1, <4>1, <1>a DEF SockOK
    <3>2. CASE connected' = FALSE /\ UNCHANGED <<made, link, sockfd>>
      BY <3>2, <1>a DEF SockOK
    <3> QED  BY <1>3, <3>1, <3>2 DEF OpenEnd
  <2> QED  BY <1>3, <1>f, <1>g, <1>i, <1>m, <2>1, <2>2 DEF OpenEnd
<1>4. ASSUME NEW t \in Threads, Lock(t) PROVE TypeInv'
  <2>1. Moves
    BY <1>4, <1>n DEF Lock, WorkerPlaces, StatusPlaces
  <2>2. OwnerOK'
    BY <1>4 DEF Lock, OwnerOK
  <2> QED  BY <1>4, <1>e, <1>f, <1>i, <1>m, <2>1, <2>2 DEF Lock
<1>5. ASSUME NEW w \in Workers, Send(w) PROVE TypeInv'
  <2>1. Moves /\ mine[w] \in Requested
    BY <1>5, <1>a, <1>b, <1>n DEF Send, WorkerPlaces, Numbered, Requested
  <2>2. WorkerOK'
    BY <1>5, <1>a DEF Send, WorkerOK, SockOK
  <2>3. SockOK' /\ WireOK'
    BY <1>5, <1>a, <2>1, WrittenType DEF Send
  <2> QED  BY <1>5, <1>c, <1>g, <1>i, <1>k, <1>l, <2>1, <2>2, <2>3 DEF Send, statusVars, Moves
<1>6. ASSUME NEW w \in Workers, SendFails(w) PROVE TypeInv'
  <2>1. Moves
    BY <1>6, <1>b, <1>n DEF SendFails, WorkerPlaces
  <2> QED  BY <1>6, <1>e, <1>f, <1>g, <1>i, <1>m, <2>1 DEF SendFails
<1>7. CASE StatusSend
  <2>1. Moves /\ pc'[Status] = "read"
    BY <1>7, <1>b, <1>n DEF StatusSend, StatusPlaces
  <2>2. StatusOK'
    BY <1>7, <1>a DEF StatusSend, StatusOK
  <2>3. SockOK' /\ WireOK'
    BY <1>7, <1>a, WrittenType DEF StatusSend, Requested
  <2>4. Applying'
    BY <2>1 DEF Applying
  <2> QED  BY <1>7, <1>d, <1>g, <1>i, <1>l, <2>1, <2>2, <2>3, <2>4 DEF StatusSend, workerVars, Moves
<1>8. CASE StatusSendFails
  <2>1. Moves
    BY <1>8, <1>b, <1>n DEF StatusSendFails, StatusPlaces
  <2> QED  BY <1>8, <1>e, <1>f, <1>g, <1>i, <1>m, <2>1 DEF StatusSendFails
<1>9. ASSUME NEW w \in Workers, Select(w) PROVE TypeInv'
  <2>1. Moves
    BY <1>9, <1>b, <1>n DEF Select, WorkerPlaces
  <2> QED  BY <1>9, <1>e, <1>f, <1>g, <1>i, <1>m, <2>1 DEF Select
<1>10. ASSUME NEW w \in Workers, Timeout(w) PROVE TypeInv'
  <2>1. Moves
    BY <1>10, <1>b, <1>n DEF Timeout, WorkerPlaces
  <2>2. givenUp' \in Seq(Conns)
    BY <1>10, <1>a DEF Timeout, WorkerOK
  <2>3. WorkerOK'
    BY <1>10, <2>2, <1>a DEF Timeout, WorkerOK
  <2> QED  BY <1>10, <1>c, <1>e, <1>f, <1>g, <1>i, <1>k, <1>l, <2>1, <2>3 DEF Timeout, statusVars, Moves
<1>11. ASSUME LineReady, TakeLine, UNCHANGED asked
       PROVE  WireOK' /\ Head(replies[sockfd]) \in Reply
  <2>1. replies[sockfd] \in Seq(Reply) /\ replies[sockfd] # <<>>
    BY <1>11, <1>a DEF LineReady, WireOK
  <2>2. Head(replies[sockfd]) \in Reply /\ Tail(replies[sockfd]) \in Seq(Reply)
    BY <2>1, TailType
  <2> QED  BY <1>11, <1>a, <2>2 DEF TakeLine, WireOK
<1>12. ASSUME NEW w \in Workers, ReadReply(w) PROVE TypeInv'
  <2>1. Moves
    BY <1>12, <1>b, <1>n DEF ReadReply, WorkerPlaces
  <2>2. WireOK' /\ Head(replies[sockfd]) \in Reply /\ sockfd \in Conns
    BY <1>12, <1>11 DEF ReadReply, LineReady
  <2>3. [to |-> Head(replies[sockfd]).to, conn |-> sockfd] \in [to : Requested, conn : 0 .. MaxConns]
    BY <2>2, Numbers DEF Reply, Requested
  <2>4. WorkerOK'
    BY <1>12, <1>a, <1>h, <2>3 DEF ReadReply, WorkerOK
  <2> QED  BY <1>12, <1>c, <1>e, <1>g, <1>i, <1>k, <1>l, <2>1, <2>2, <2>4 DEF ReadReply, statusVars, Moves
<1>13. ASSUME NEW w \in Workers, ReadFails(w) PROVE TypeInv'
  <2>1. Moves
    BY <1>13, <1>b, <1>n DEF ReadFails, WorkerPlaces
  <2>2. SockOK' /\ WireOK'
    BY <1>13, <1>a, <1>e, <1>f, CloseType DEF ReadFails
  <2> QED  BY <1>13, <1>g, <1>i, <1>m, <2>1, <2>2 DEF ReadFails
<1>14. CASE StatusCheck
  <2>1. Moves
    BY <1>14, <1>b, <1>n DEF StatusCheck, StatusPlaces
  <2>2. StatusOK'
    BY <1>14, <1>a DEF StatusCheck, StatusOK, SockOK
  <2> QED  BY <1>14, <1>d, <1>e, <1>f, <1>g, <1>i, <1>k, <1>l, <2>1, <2>2 DEF StatusCheck, workerVars, Moves
<1>15. CASE StatusClose
  <2>1. Moves
    BY <1>15, <1>b, <1>n DEF StatusClose, StatusPlaces
  <2>2. SockOK' /\ WireOK'
    BY <1>15, <1>a, CloseType DEF StatusClose
  <2> QED  BY <1>15, <1>g, <1>i, <1>m, <2>1, <2>2 DEF StatusClose
<1>16. ASSUME NEW line \in Lines, TakeStatusLine(line)
       PROVE  PcOK' /\ Applying' /\ Numbered' /\ OwnerOK' /\ WorkerOK' /\ (sockfd \in 0 .. MaxConns => StatusOK')
  <2>1. got' \in Seq(Lines) /\ got' # <<>>
    <3>1. got \in Seq(Lines) /\ Append(got, line) \in Seq(Lines) /\ Append(got, line) # <<>>
      BY <1>a DEF StatusOK
    <3>2. Len(got) >= MaxLines => got # <<>>
      BY <3>1, Numbers, EmptySeq DEF MaxLines
    <3> QED  BY <1>16, <3>1, <3>2 DEF TakeStatusLine
  <2>2. PcOK' /\ \A v \in Workers : pc'[v] = pc[v]
    <3>1. CASE Go(Status, "read", "apply")
      BY <3>1, <1>a, <1>b, GoType DEF StatusPlaces
    <3>2. CASE UNCHANGED pc
      BY <3>2, <1>a DEF PcOK
    <3> QED  BY <1>16, <3>1, <3>2 DEF TakeStatusLine
  <2>3. Applying' /\ Numbered'
    BY <1>16, <1>a, <2>1, <2>2 DEF TakeStatusLine, Applying, Numbered, workerVars
  <2>4. OwnerOK' /\ WorkerOK'
    BY <1>16, <1>d, <1>g DEF TakeStatusLine
  <2>5. sockfd \in 0 .. MaxConns => StatusOK'
    BY <1>16, <1>a, <2>1 DEF TakeStatusLine, StatusOK
  <2> QED  BY <2>2, <2>3, <2>4, <2>5
<1>17. CASE StatusReadLine
  <2>1. WireOK' /\ Head(replies[sockfd]) \in Reply /\ sockfd \in 0 .. MaxConns
    BY <1>17, <1>11, Numbers DEF StatusReadLine, LineReady
  <2>2. Head(replies[sockfd]).line \in Lines
    BY <2>1 DEF Reply
  <2> QED  BY <1>17, <1>16, <1>e, <1>i, <2>1, <2>2 DEF StatusReadLine
<1>18. CASE StatusReadNothing
  <2>1. PICK line \in IF got = <<>> THEN Lines ELSE {got[Len(got)]} : TakeStatusLine(line)
    BY <1>18 DEF StatusReadNothing
  <2>2. line \in Lines
    <3>1. CASE got = <<>>
      BY <2>1, <3>1
    <3>2. CASE got # <<>>
      <4>1. Len(got) \in 1 .. Len(got) /\ got \in Seq(Lines)
        BY <3>2, <1>a, EmptySeq DEF StatusOK
      <4> QED  BY <2>1, <3>2, <4>1, ElementOfSeq
    <3> QED  BY <3>1, <3>2
  <2>3. sockfd \in 0 .. MaxConns
    BY <1>18, <1>a DEF StatusReadNothing, SockOK
  <2> QED  BY <1>18, <1>16, <1>e, <1>f, <1>i, <2>1, <2>2, <2>3 DEF StatusReadNothing
<1>19. CASE StatusReadFails
  <2>1. Moves
    BY <1>19, <1>b, <1>n DEF StatusReadFails, StatusPlaces
  <2>2. SockOK' /\ WireOK'
    BY <1>19, <1>a, CloseType DEF StatusReadFails
  <2> QED  BY <1>19, <1>g, <1>i, <1>m, <2>1, <2>2 DEF StatusReadFails
<1>20. pc[Status] = "apply" => LinesBefore \in Seq(Lines)
  <2>1. got \in Seq(Lines) /\ Len(got) \in Nat
    BY <1>a, LenProperties DEF StatusOK
  <2> QED  BY <2>1, PrefixType DEF LinesBefore
<1>21. CASE StatusInit
  <2>1. Moves /\ pc[Status] = "apply"
    BY <1>21, <1>b, <1>n DEF StatusInit, StatusPlaces
  <2>2. StatusOK'
    BY <1>21, <1>a, <1>20, <2>1 DEF StatusInit, StatusOK
  <2> QED  BY <1>21, <1>d, <1>e, <1>f, <1>g, <1>i, <1>k, <1>l, <2>1, <2>2 DEF StatusInit, workerVars, Moves
<1>22. CASE StatusUpdate
  <2>1. Moves /\ pc[Status] = "apply"
    <3>1. Go(Status, "apply", "check") \/ Go(Status, "apply", "close")
      BY <1>22 DEF StatusUpdate
    <3> QED  BY <3>1, <1>b, <1>n DEF StatusPlaces
  <2>2. StatusOK'
    BY <1>22, <1>a, <1>20, <2>1 DEF StatusUpdate, StatusOK
  <2> QED  BY <1>22, <1>d, <1>e, <1>f, <1>g, <1>i, <1>k, <1>l, <2>1, <2>2 DEF StatusUpdate, workerVars, Moves
<1>23. ASSUME NEW c \in Conns, Answer(c) PROVE TypeInv'
  <2>1. asked[c] \in Seq(Requested) /\ asked[c] # <<>> /\ replies[c] \in Seq(Reply)
    BY <1>23, <1>a DEF Answer, WireOK
  <2>2. Head(asked[c]) \in Requested /\ Tail(asked[c]) \in Seq(Requested)
    BY <2>1, TailType
  <2>3. replies[c] \o StatusReply \in Seq(Reply)
    BY <2>1, StatusReplyType, ConcatProperties
  <2>4. \A l \in {OK, ERROR} : Append(replies[c], [to |-> Head(asked[c]), line |-> l]) \in Seq(Reply)
    BY <2>1, <2>2, Numbers DEF Reply, Requested
  <2>5. WireOK'
    BY <1>23, <1>a, <2>2, <2>3, <2>4 DEF Answer, WireOK
  <2> QED  BY <1>23, <1>e, <1>g, <1>i, <1>j, <1>m, <2>5 DEF Answer
<1>24. ASSUME NEW c \in Conns, Drop(c) PROVE TypeInv'
  <2>1. replies[c] \in Seq(Reply) /\ \A k \in 0 .. Len(replies[c]) : SubSeq(replies[c], 1, k) \in Seq(Reply)
    BY <1>a, PrefixType, LenProperties DEF WireOK
  <2>2. <<>> \in Seq(Requested) /\ <<>> \in Seq(Reply)
    OBVIOUS
  <2>3. WireOK'
    BY <1>24, <1>a, <2>1, <2>2 DEF Drop, WireOK
  <2>4. SockOK'
    BY <1>24, <1>a DEF Drop, SockOK
  <2> QED  BY <1>24, <1>g, <1>i, <1>j, <1>m, <2>3, <2>4 DEF Drop
<1>25. CASE UNCHANGED vars
  <2>1. UNCHANGED <<owner, sockVars, pc, wireVars, workerVars, statusVars>>
    BY <1>25 DEF vars
  <2> QED  BY <2>1, <1>e, <1>f, <1>g, <1>i, <1>j, <1>m
<1> QED
  BY <1>1, <1>2, <1>3, <1>4, <1>5, <1>6, <1>7, <1>8, <1>9, <1>10, <1>12, <1>13, <1>14, <1>15, <1>17, <1>18,
     <1>19, <1>21, <1>22, <1>23, <1>24, <1>25, <1>b DEF Next, Worker, StatusMaster, Opening

\* Every variable keeps its type, whatever is lost and whoever opens and closes.
THEOREM TypeCorrect == Spec => []TypeOK
<1>1. TypeInv => TypeOK
  BY DEF TypeInv
<1> QED  BY <1>1, InitTypes, StepTypes, PTL DEF Spec

-----------------------------------------------------------------------------
(***************************************************************************)
(* Exchanges                                                               *)
(***************************************************************************)
Exchange == {"send", "select", "read"}

\* A thread goes from place to place inside its exchange or outside it, leaves it
\* and the mutex with it, or takes the mutex.
Passes(t, from, to) ==
  \/ from \notin Exchange /\ to \notin Exchange /\ owner' = owner
  \/ from \in Exchange /\ to \in Exchange /\ owner' = owner
  \/ from \in Exchange /\ to \notin Exchange /\ owner' = Nobody
  \/ from \notin Exchange /\ to \in Exchange /\ owner = Nobody /\ owner' = t

LEMMA PassKeeps ==
  ASSUME PcOK, OneExchange, NEW t \in Threads, NEW from, NEW to, Go(t, from, to), Passes(t, from, to)
  PROVE  OneExchange'
<1>1. pc[t] = from /\ pc'[t] = to /\ \A u \in Threads \ {t} : pc'[u] = pc[u]
  BY DEF PcOK, Go
<1>2. \A u \in Threads : (pc[u] \in Exchange <=> owner = u) /\ u # Nobody
  BY Numbers DEF OneExchange, Exchange
<1>3. \A u \in Threads : pc'[u] \in Exchange <=> owner' = u
  BY <1>1, <1>2 DEF Passes
<1> QED  BY <1>3 DEF OneExchange, Exchange

LEMMA ExchangeStep == TypeInv /\ OneExchange /\ [Next]_vars => OneExchange'
<1> SUFFICES ASSUME TypeInv, OneExchange, [Next]_vars PROVE OneExchange'
  OBVIOUS
<1>a. PcOK /\ (\A w \in Workers : w \in Threads /\ w # Status) /\ Status \in Threads
  BY TypeParts, Numbers DEF TypeInv, Threads
<1>b. ASSUME UNCHANGED <<owner, pc>> PROVE OneExchange'
  BY <1>b DEF OneExchange
<1>c. ASSUME NEW t \in Threads, NEW from, NEW to, Go(t, from, to), Passes(t, from, to) PROVE OneExchange'
  BY <1>a, <1>c, PassKeeps
<1> USE DEF Passes, Exchange
<1>1. ASSUME NEW w \in Workers, Begin(w) PROVE OneExchange'
  <2>1. Go(w, "idle", "lock") \/ Go(w, "idle", "open")
    BY <1>1 DEF Begin
  <2> QED  BY <1>1, <1>a, <1>c, <2>1 DEF Begin
<1>2. ASSUME NEW t \in Threads, Opening(t) PROVE OneExchange'
  <2>1. \E from \in {"open", "opening"}, to \in {"close", "idle", "check", "lock", "opening"} : Go(t, from, to)
    BY <1>2 DEF Opening, OpenBegin, OpenEnd, AfterFailure, AfterOpening
  <2>2. owner' = owner
    BY <1>2 DEF Opening, OpenBegin, OpenEnd
  <2> QED  BY <1>c, <2>1, <2>2
<1>3. ASSUME NEW t \in Threads, Lock(t) PROVE OneExchange'
  BY <1>3, <1>c DEF Lock
<1>4. ASSUME NEW w \in Workers, Send(w) \/ SendFails(w) \/ Select(w) PROVE OneExchange'
  BY <1>4, <1>a, <1>c DEF Send, SendFails, Select
<1>5. ASSUME NEW w \in Workers, Timeout(w) \/ ReadReply(w) \/ ReadFails(w) PROVE OneExchange'
  BY <1>5, <1>a, <1>c DEF Timeout, ReadReply, ReadFails
<1>6. CASE StatusCheck
  <2>1. Go(Status, "check", "lock") \/ Go(Status, "check", "open")
    BY <1>6 DEF StatusCheck
  <2> QED  BY <1>6, <1>a, <1>c, <2>1 DEF StatusCheck
<1>7. CASE StatusClose \/ StatusSend \/ StatusSendFails \/ StatusReadFails \/ StatusInit
  BY <1>7, <1>a, <1>c DEF StatusClose, StatusSend, StatusSendFails, StatusReadFails, StatusInit
<1>8. ASSUME NEW line, TakeStatusLine(line) PROVE OneExchange'
  BY <1>8, <1>a, <1>b, <1>c DEF TakeStatusLine
<1>9. CASE StatusReadLine \/ StatusReadNothing
  BY <1>8, <1>9 DEF StatusReadLine, StatusReadNothing
<1>10. CASE StatusUpdate
  BY <1>10, <1>a, <1>c DEF StatusUpdate
<1>11. ASSUME NEW c \in Conns, Answer(c) \/ Drop(c) PROVE OneExchange'
  BY <1>11, <1>b DEF Answer, Drop
<1>12. CASE UNCHANGED vars
  BY <1>12, <1>b DEF vars
<1> QED
  BY <1>1, <1>2, <1>3, <1>4, <1>5, <1>6, <1>7, <1>9, <1>10, <1>11, <1>12, <1>a DEF Next, Worker, StatusMaster

\* Whoever is in an exchange holds PCR_CMD_Lock, and whoever holds it is in one:
\* no way out of an exchange leaves the mutex locked, and none unlocks it for another.
THEOREM ExchangesApart == Spec => []OneExchange
<1>1. Init => OneExchange
  BY Numbers DEF Init, OneExchange, Threads
<1>2. (TypeInv /\ OneExchange) /\ [Next]_vars => (TypeInv /\ OneExchange)'
  BY StepTypes, ExchangeStep
<1> QED  BY <1>1, <1>2, InitTypes, PTL DEF Spec

-----------------------------------------------------------------------------
(***************************************************************************)
(* What the connection carries                                             *)
(***************************************************************************)

\* Nothing was asked on a connection before it was made, and nothing stays asked on
\* one that is down.
Wires ==
  /\ sockfd <= made
  /\ \A c \in Conns : c > made => link[c] = "none" /\ replies[c] = <<>>
  /\ \A c \in Conns : link[c] # "up" => asked[c] = <<>>

LEMMA ForgetWires ==
  ASSUME TypeInv, Wires, NEW c, Forget(c)
  PROVE  \A d \in Conns : /\ d > made => link'[d] = "none" /\ replies'[d] = <<>>
                          /\ link'[d] # "up" => asked'[d] = <<>>
BY TypeParts DEF TypeInv, SockOK, WireOK, Forget, Wires

LEMMA WiresStep == TypeInv /\ Wires /\ [Next]_vars => Wires'
<1> SUFFICES ASSUME TypeInv, Wires, [Next]_vars PROVE Wires'
  OBVIOUS
<1>a. SockOK /\ WireOK /\ \A c \in Conns : c \in 1 .. MaxConns
  BY TypeParts DEF TypeInv, Conns
<1>b. ASSUME UNCHANGED <<sockVars, wireVars>> PROVE Wires'
  BY <1>b DEF Wires, sockVars, wireVars
<1>c. ASSUME SocketClose PROVE Wires'
  <2>1. Forget(sockfd) /\ sockfd' = -1 /\ made' = made /\ made \in Nat
    BY <1>a, <1>c, Numbers DEF SocketClose, SockOK
  <2> QED  BY <2>1, ForgetWires DEF Wires
<1>d. ASSUME NEW r, Written(r), UNCHANGED <<sockfd, made, replies>> PROVE Wires'
  BY <1>a, <1>d DEF Written, Wires, SockOK, WireOK
<1>e. ASSUME TakeLine, LineReady, UNCHANGED <<sockVars, asked>> PROVE Wires'
  BY <1>a, <1>e DEF TakeLine, LineReady, Wires, sockVars, WireOK
<1>1. ASSUME NEW t \in Threads, OpenBegin(t) PROVE Wires'
  <2>1. CASE UNCHANGED <<sockVars, wireVars>>
    BY <1>b, <2>1
  <2>2. CASE Forget(sockfd) /\ sockfd' = 0 /\ UNCHANGED made
    <3>1. made \in Nat
      BY <1>a, Numbers DEF SockOK
    <3> QED  BY <2>2, <3>1, ForgetWires DEF Wires
  <2> QED  BY <1>1, <2>1, <2>2 DEF OpenBegin, sockVars, wireVars
<1>2. ASSUME NEW t \in Threads, OpenEnd(t) PROVE Wires'
  <2>1. CASE made < MaxConns /\ made' = made + 1 /\ link' = [link EXCEPT ![made'] = "up"] /\ sockfd' = made'
    BY <1>2, <1>a, <2>1, Numbers DEF OpenEnd, Wires, SockOK, wireVars
  <2>2. CASE UNCHANGED <<made, link, sockfd>>
    BY <1>2, <2>2 DEF OpenEnd, Wires, wireVars
  <2> QED  BY <1>2, <2>1, <2>2 DEF OpenEnd
<1>3. ASSUME NEW c \in Conns, Answer(c) PROVE Wires'
  <2>1. asked[c] # <<>> /\ link[c] = "up" /\ ~(c > made)
    BY <1>3, <1>a DEF Answer, Wires
  <2> QED  BY <1>3, <1>a, <2>1 DEF Answer, Wires, WireOK, sockVars
<1>4. ASSUME NEW c \in Conns, Drop(c) PROVE Wires'
  <2>1. ~(c > made)
    BY <1>4 DEF Drop, Wires
  <2> QED  BY <1>4, <1>a, <2>1 DEF Drop, Wires, SockOK, WireOK
<1>5. ASSUME NEW w \in Workers, Begin(w) \/ SendFails(w) \/ Select(w) \/ Timeout(w) PROVE Wires'
  BY <1>5, <1>b DEF Begin, SendFails, Select, Timeout
<1>6. ASSUME NEW w \in Workers, Send(w) \/ ReadReply(w) \/ ReadFails(w) PROVE Wires'
  BY <1>6, <1>b, <1>c, <1>d, <1>e DEF Send, ReadReply, ReadFails
<1>7. CASE StatusCheck \/ StatusSendFails \/ StatusReadNothing \/ StatusInit \/ StatusUpdate
  BY <1>7, <1>b DEF StatusCheck, StatusSendFails, StatusReadNothing, StatusInit, StatusUpdate
<1>8. CASE StatusClose \/ StatusSend \/ StatusReadLine \/ StatusReadFails
  BY <1>8, <1>c, <1>d, <1>e DEF StatusClose, StatusSend, StatusReadLine, StatusReadFails
<1>9. ASSUME NEW t \in Threads, Lock(t) PROVE Wires'
  BY <1>9, <1>b DEF Lock
<1>10. CASE UNCHANGED vars
  BY <1>10, <1>b DEF vars
<1> QED
  BY <1>1, <1>2, <1>3, <1>4, <1>5, <1>6, <1>7, <1>8, <1>9, <1>10, Numbers DEF Next, Worker, StatusMaster, Opening, Threads

\* Nobody stopped waiting for a reply on connection c.
Patient(c) == \A i \in DOMAIN givenUp : givenUp[i] # c

\* What connection c may carry (ChannelHolds).
Orderly(c) == Calm(c) \/ Asked(c) \/ Answered(c) \/ Telling(c)

ChannelInv == TypeInv /\ OneExchange /\ Wires /\ ChannelHolds

LEMMA AppendGrows ==
  ASSUME NEW S, NEW s \in Seq(S), NEW x \in S
  PROVE  /\ \A i \in DOMAIN s : i \in DOMAIN Append(s, x) /\ Append(s, x)[i] = s[i]
         /\ \E i \in DOMAIN Append(s, x) : Append(s, x)[i] = x
BY AppendProperties

\* That a connection was given up is not forgotten.
LEMMA GivenUpGrows ==
  ASSUME TypeInv, [Next]_vars
  PROVE  \A i \in DOMAIN givenUp : i \in DOMAIN givenUp' /\ givenUp'[i] = givenUp[i]
<1>1. CASE UNCHANGED givenUp
  BY <1>1
<1>2. ASSUME NEW w \in Workers, Timeout(w), watched[w] \in Conns
      PROVE  \A i \in DOMAIN givenUp : i \in DOMAIN givenUp' /\ givenUp'[i] = givenUp[i]
  <2>1. givenUp \in Seq(Conns) /\ givenUp' = Append(givenUp, watched[w])
    BY <1>2, TypeParts DEF Timeout, TypeInv, WorkerOK
  <2> QED  BY <1>2, <2>1, AppendGrows
<1> QED
  BY <1>1, <1>2
  DEF Next, vars, workerVars, Worker, StatusMaster, Opening, Begin, OpenBegin, OpenEnd, Lock, Send,
      SendFails, Select, Timeout, ReadReply, ReadFails, StatusCheck, StatusClose, StatusSend,
      StatusSendFails, StatusReadLine, StatusReadNothing, TakeStatusLine, StatusReadFails, StatusInit,
      StatusUpdate, Answer, Drop

\* Steps that leave the lines alone, and the exchange that waits for them.
LEMMA Untouched ==
  ASSUME NEW c, asked'[c] = asked[c], replies'[c] = replies[c],
         pc[Status] = "read" => pc'[Status] = "read",
         \A w \in Workers : Waiting(w, c) => Waiting(w, c)' /\ mine'[w] = mine[w]
  PROVE  Orderly(c) => Orderly(c)'
BY DEF Orderly, Calm, Asked, Answered, Telling

\* Only the owner of the mutex reads or waits.
LEMMA OwnerAlone ==
  ASSUME OneExchange
  PROVE  /\ \A w \in Workers : \A c : Waiting(w, c) => owner = w
         /\ pc[Status] \in Exchange => owner = Status
         /\ \A w \in Workers : pc[w] \in Exchange => owner = w
         /\ Status \notin Workers
BY Numbers DEF OneExchange, Exchange, Waiting, Threads

LEMMA ChannelStep == ChannelInv /\ [Next]_vars => ChannelHolds'
<1> SUFFICES ASSUME ChannelInv, [Next]_vars, NEW s \in Conns, sockfd' = s, Patient(s)' PROVE Orderly(s)'
  BY DEF ChannelHolds, Orderly, Patient
<1>a. /\ PcOK /\ SockOK /\ WireOK /\ WorkerOK /\ StatusOK /\ Numbered /\ Wires
      /\ Status \in Threads /\ \A w \in Workers : w \in Threads
  BY TypeParts DEF ChannelInv, TypeInv, Threads
<1>b. sockfd = s => Patient(s) /\ Orderly(s)
  <2>1. \A i \in DOMAIN givenUp : i \in DOMAIN givenUp' /\ givenUp'[i] = givenUp[i]
    BY GivenUpGrows DEF ChannelInv
  <2> QED  BY <2>1 DEF Patient, Orderly, ChannelInv, ChannelHolds
<1>c. /\ \A w \in Workers : \A c : Waiting(w, c) => owner = w
      /\ pc[Status] \in Exchange => owner = Status
      /\ \A w \in Workers : pc[w] \in Exchange => owner = w /\ mine[w] \in Requests
      /\ Status \notin Workers /\ Status \notin Requests
  BY <1>a, OwnerAlone, Numbers DEF ChannelInv, Numbered, Exchange
<1>d. ASSUME sockfd = s, UNCHANGED wireVars, UNCHANGED watched,
             NEW t \in Threads, NEW from, NEW to, Go(t, from, to),
             from \in {"select", "read"} => to \in {"select", "read"} /\ (t = Status => to = from),
             \A w \in Workers \ {t} : mine'[w] = mine[w], from # "idle" => UNCHANGED mine
      PROVE  Orderly(s)'
  <2>1. \A u \in Threads : pc[u] = pc'[u] \/ (u = t /\ pc[u] = from /\ pc'[u] = to)
    BY <1>a, <1>d DEF Go, PcOK
  <2>2. \A w \in Workers : Waiting(w, s) => Waiting(w, s)' /\ mine'[w] = mine[w]
    BY <1>a, <1>d, <2>1 DEF Waiting, Go
  <2>3. pc[Status] = "read" => pc'[Status] = "read"
    BY <1>a, <1>d, <2>1
  <2> QED  BY <1>b, <1>d, <2>2, <2>3, Untouched DEF wireVars
<1>e. ASSUME sockfd = s, Calm(s), UNCHANGED wireVars PROVE Orderly(s)'
  BY <1>e DEF Orderly, Calm, wireVars
<1>f. ASSUME AtEnd, sockfd = s PROVE Calm(s)
  BY <1>a, <1>f DEF AtEnd, Calm, Wires
<1>g. -1 \notin Conns /\ 0 \notin Conns
  BY Numbers
<1>h. SocketClose => sockfd' = -1
  BY DEF SocketClose
<1>1. ASSUME NEW w \in Workers, Begin(w) PROVE Orderly(s)'
  <2>1. Go(w, "idle", "lock") \/ Go(w, "idle", "open")
    BY <1>1 DEF Begin
  <2>2. \A v \in Workers \ {w} : mine'[v] = mine[v]
    BY <1>1, <1>a DEF Begin, WorkerOK
  <2> QED  BY <1>1, <1>a, <1>d, <2>1, <2>2 DEF Begin, sockVars
<1>2. ASSUME NEW t \in Threads, OpenBegin(t) PROVE Orderly(s)'
  <2>1. \E to : Go(t, "open", to) /\ to \notin Exchange
    BY <1>2 DEF OpenBegin, AfterFailure, Exchange
  <2>2. sockfd = s /\ UNCHANGED <<wireVars, workerVars>>
    BY <1>2, <1>g DEF OpenBegin, sockVars, wireVars
  <2> QED  BY <1>d, <2>1, <2>2 DEF workerVars
<1>3. ASSUME NEW t \in Threads, OpenEnd(t) PROVE Orderly(s)'
  <2>1. \E to : Go(t, "opening", to) /\ to \notin Exchange
    BY <1>3 DEF OpenEnd, AfterFailure, AfterOpening, Exchange
  <2>2. CASE UNCHANGED sockfd
    BY <1>3, <1>d, <2>1, <2>2 DEF OpenEnd, workerVars
  <2>3. CASE sockfd' = made + 1
    <3>1. link[s] = "none" /\ replies[s] = <<>> /\ asked[s] = <<>>
      BY <1>a, <2>3 DEF Wires, SockOK
    <3> QED  BY <1>3, <3>1 DEF OpenEnd, Orderly, Calm, wireVars
  <2> QED  BY <1>3, <2>2, <2>3 DEF OpenEnd
<1>4. ASSUME NEW t \in Threads, Lock(t) PROVE Orderly(s)'
  BY <1>4, <1>d DEF Lock, sockVars, workerVars
<1>5. ASSUME NEW w \in Workers, Send(w) PROVE Orderly(s)'
  <2>1. pc[w] = "send" /\ sockfd = s /\ owner = w
    BY <1>5, <1>c DEF Send, Go, Exchange
  <2>2. Calm(s)
    BY <1>b, <1>c, <2>1 DEF Orderly, Asked, Answered, Telling, Waiting, Exchange
  <2>3. pc'[w] = "select" /\ watched'[w] = s /\ mine' = mine
    BY <1>5, <1>a DEF Send, Go, PcOK, WorkerOK
  <2>4. CASE UNCHANGED asked
    BY <1>5, <1>e, <2>1, <2>2, <2>4 DEF Send, wireVars
  <2>5. CASE asked' = [asked EXCEPT ![s] = Append(@, mine[w])]
    <3>1. asked'[s] = <<mine[w]>> /\ replies'[s] = <<>>
      BY <1>5, <1>a, <2>1, <2>2, <2>5 DEF Send, Calm, WireOK
    <3> QED  BY <2>1, <2>3, <3>1 DEF Orderly, Asked, Waiting
  <2> QED  BY <1>5, <2>4, <2>5 DEF Send, Written
<1>6. CASE StatusSend
  <2>1. pc[Status] = "send" /\ sockfd = s /\ owner = Status
    BY <1>6, <1>c DEF StatusSend, Go, Exchange
  <2>2. Calm(s)
    BY <1>b, <1>c, <2>1 DEF Orderly, Asked, Answered, Telling
  <2>3. pc'[Status] = "read"
    BY <1>6, <1>a DEF StatusSend, Go, PcOK
  <2>4. CASE UNCHANGED asked
    BY <1>6, <1>e, <2>1, <2>2, <2>4 DEF StatusSend, wireVars
  <2>5. CASE asked' = [asked EXCEPT ![s] = Append(@, Status)]
    <3>1. asked'[s] = <<Status>> /\ replies'[s] = <<>>
      BY <1>6, <1>a, <2>1, <2>2, <2>5 DEF StatusSend, Calm, WireOK
    <3> QED  BY <2>1, <2>3, <3>1 DEF Orderly, Asked
  <2> QED  BY <1>6, <2>4, <2>5 DEF StatusSend, Written
<1>7. ASSUME NEW w \in Workers, SendFails(w) \/ Select(w) PROVE Orderly(s)'
  BY <1>7, <1>a, <1>c, <1>d DEF SendFails, Select, sockVars, workerVars
<1>8. ASSUME NEW w \in Workers, Timeout(w) PROVE Orderly(s)'
  <2>1. sockfd = s /\ UNCHANGED wireVars /\ pc[w] = "select" /\ owner = w
    BY <1>8, <1>c DEF Timeout, Go, sockVars, Exchange
  <2>2. watched[w] # s
    <3> SUFFICES ASSUME watched[w] = s PROVE FALSE
      OBVIOUS
    <3>1. s \in Conns /\ givenUp' = Append(givenUp, s) /\ givenUp \in Seq(Conns)
      BY <1>8, <1>a, <2>1 DEF Timeout, WorkerOK
    <3>2. \E i \in DOMAIN givenUp' : givenUp'[i] = s
      BY <3>1, AppendGrows
    <3> QED  BY <2>1, <3>2 DEF Patient
  <2>3. Calm(s)
    BY <1>b, <1>c, <2>1, <2>2 DEF Orderly, Asked, Answered, Telling, Waiting, Exchange
  <2> QED  BY <1>e, <2>1, <2>3
<1>9. ASSUME NEW w \in Workers, ReadReply(w) PROVE Orderly(s)'
  <2>1. s \in Conns /\ sockfd = s /\ owner = w /\ replies[s] # <<>>
    BY <1>9, <1>c DEF ReadReply, LineReady, Go, sockVars, Exchange
  <2>2. asked[s] = <<>> /\ Len(replies[s]) = 1
    BY <1>b, <1>c, <2>1 DEF Orderly, Calm, Asked, Answered, Telling, Exchange
  <2>3. replies[s] \in Seq(Reply)
    BY <1>a DEF WireOK
  <2>4. Tail(replies[s]) = <<>>
    BY <2>2, <2>3, LastOne
  <2> QED  BY <1>9, <1>a, <2>1, <2>2, <2>4 DEF ReadReply, TakeLine, Orderly, Calm, WireOK
<1>10. ASSUME NEW w \in Workers, ReadFails(w) PROVE Orderly(s)'
  BY <1>10, <1>e, <1>f, <1>g, <1>h DEF ReadFails, sockVars
<1>11. CASE StatusClose \/ StatusReadFails
  BY <1>11, <1>g, <1>h DEF StatusClose, StatusReadFails
<1>12. CASE StatusReadLine
  <2> DEFINE line == Head(replies[s]).line
  <2>1. s \in Conns /\ sockfd = s /\ replies[s] # <<>> /\ replies[s] \in Seq(Reply) /\ pc[Status] = "read"
    BY <1>12, <1>a DEF StatusReadLine, LineReady, TakeStatusLine, Go, sockVars, WireOK
  <2>2. Telling(s)
    BY <1>b, <1>c, <2>1 DEF Orderly, Calm, Asked, Answered, Exchange
  <2>3. asked'[s] = <<>> /\ replies'[s] = Tail(replies[s])
    BY <1>12, <1>a, <2>1, <2>2 DEF StatusReadLine, TakeLine, Telling, WireOK
  <2>4. /\ DOMAIN replies[s] = 1 .. Len(replies[s]) /\ Len(replies[s]) \in Nat \ {0}
        /\ Len(Tail(replies[s])) = Len(replies[s]) - 1
        /\ \A i \in DOMAIN Tail(replies[s]) : i + 1 \in DOMAIN replies[s] /\ Tail(replies[s])[i] = replies[s][i + 1]
        /\ Head(replies[s]) = replies[s][1]
    BY <2>1
  <2>5. CASE EndOfData(line)
    <3>1. line = EOF
      BY <2>2, <2>4, <2>5, Numbers DEF EndOfData, Telling, OK, EOF
    <3>2. 1 \in DOMAIN replies[s] /\ replies[s][1].line = EOF
      BY <2>4, <3>1
    <3>3. Len(replies[s]) = 1
      BY <2>2, <3>2 DEF Telling
    <3>4. Tail(replies[s]) = <<>>
      BY <2>1, <3>3, LastOne
    <3> QED  BY <2>1, <2>3, <3>4 DEF Orderly, Calm
  <2>6. CASE ~EndOfData(line)
    <3>1. pc'[Status] = "read"
      BY <1>12, <2>1, <2>6 DEF StatusReadLine, TakeStatusLine
    <3>2. \A i \in DOMAIN replies'[s] :
            /\ replies'[s][i].to = Status /\ replies'[s][i].line \in 1 .. EOF
            /\ replies'[s][i].line = EOF => i = Len(replies'[s])
      <4> TAKE i \in DOMAIN replies'[s]
      <4>1. i \in Int /\ i + 1 \in DOMAIN replies[s] /\ replies'[s][i] = replies[s][i + 1]
        BY <2>1, <2>3, <2>4
      <4>2. replies[s][i + 1].line = EOF => i + 1 = Len(replies[s])
        BY <2>2, <4>1 DEF Telling
      <4> QED  BY <2>2, <2>3, <2>4, <4>1, <4>2 DEF Telling
    <3> QED  BY <2>1, <2>3, <3>1, <3>2 DEF Orderly, Telling
  <2> QED  BY <2>5, <2>6
<1>13. CASE StatusReadNothing
  <2>1. sockfd = s /\ UNCHANGED wireVars /\ AtEnd
    BY <1>13 DEF StatusReadNothing, sockVars
  <2> QED  BY <1>e, <1>f, <2>1
<1>14. CASE StatusCheck
  <2>1. Go(Status, "check", "lock") \/ Go(Status, "check", "open")
    BY <1>14 DEF StatusCheck
  <2> QED  BY <1>14, <1>a, <1>d, <2>1 DEF StatusCheck, sockVars, workerVars
<1>15. CASE StatusSendFails \/ StatusInit \/ StatusUpdate
  <2>1. \E from \in {"send", "apply"} : \E to : Go(Status, from, to)
    BY <1>15 DEF StatusSendFails, StatusInit, StatusUpdate
  <2>2. UNCHANGED <<sockVars, wireVars, workerVars>>
    BY <1>15 DEF StatusSendFails, StatusInit, StatusUpdate
  <2> QED  BY <1>a, <1>d, <2>1, <2>2 DEF sockVars, workerVars
<1>16. ASSUME NEW c \in Conns, Answer(c) PROVE Orderly(s)'
  <2>1. sockfd = s /\ s \in Conns /\ UNCHANGED <<pc, workerVars>> /\ asked[c] # <<>>
    BY <1>16 DEF Answer, sockVars
  <2>2. CASE c # s
    <3>1. asked'[s] = asked[s] /\ replies'[s] = replies[s]
      BY <1>16, <1>a, <2>1, <2>2 DEF Answer, WireOK
    <3> QED  BY <1>b, <2>1, <3>1, Untouched DEF workerVars, Waiting
  <2>3. CASE c = s
    <3>1. Asked(s)
      BY <1>b, <2>1, <2>3 DEF Orderly, Calm, Answered, Telling
    <3>2. CASE pc[Status] = "read" /\ asked[s] = <<Status>>
      <4>1. asked'[s] = <<>> /\ replies'[s] = <<>> \o StatusReply
        BY <1>16, <1>a, <2>1, <2>3, <3>1, <3>2 DEF Answer, Asked, WireOK
      <4>2. replies'[s] = StatusReply
        BY <4>1, StatusReplyType, ConcatEmptySeq
      <4>3. \A i \in DOMAIN StatusReply :
              /\ StatusReply[i].to = Status /\ StatusReply[i].line \in 1 .. EOF
              /\ StatusReply[i].line = EOF => i = Len(StatusReply)
        BY StatusReplyType, Numbers DEF StatusReply, EOF
      <4> QED  BY <2>1, <3>2, <4>1, <4>2, <4>3 DEF Orderly, Telling
    <3>3. ASSUME NEW w \in Workers, Waiting(w, s), asked[s] = <<mine[w]>> PROVE Orderly(s)'
      <4>1. mine[w] # Status /\ Head(asked[s]) = mine[w] /\ Tail(asked[s]) = <<>>
        BY <1>c, <3>3 DEF Waiting, Exchange
      <4>2. PICK l \in {OK, ERROR} : replies' = [replies EXCEPT ![c] = Append(@, [to |-> mine[w], line |-> l])]
        BY <1>16, <2>3, <4>1 DEF Answer
      <4>3. asked'[s] = <<>> /\ replies'[s] = <<[to |-> mine[w], line |-> l]>>
        BY <1>16, <1>a, <2>1, <2>3, <3>1, <4>1, <4>2 DEF Answer, Asked, WireOK
      <4>4. Len(replies'[s]) = 1 /\ replies'[s][1].to = mine[w]
        BY <4>3
      <4>5. Waiting(w, s)' /\ mine' = mine
        BY <2>1, <3>3 DEF Waiting, workerVars
      <4> QED  BY <2>1, <4>3, <4>4, <4>5 DEF Orderly, Answered
    <3> QED  BY <3>1, <3>2, <3>3 DEF Asked
  <2> QED  BY <2>2, <2>3
<1>17. ASSUME NEW c \in Conns, Drop(c) PROVE Orderly(s)'
  <2>1. sockfd = s /\ s \in Conns /\ UNCHANGED <<pc, workerVars>>
    BY <1>17 DEF Drop
  <2>2. CASE c # s
    <3>1. asked'[s] = asked[s] /\ replies'[s] = replies[s]
      BY <1>17, <1>a, <2>1, <2>2 DEF Drop, WireOK
    <3> QED  BY <1>b, <2>1, <3>1, Untouched DEF workerVars, Waiting
  <2>3. CASE c = s /\ replies'[s] = <<>>
    BY <1>17, <1>a, <2>1, <2>3 DEF Drop, Orderly, Calm, WireOK
  <2>4. ASSUME c = s, NEW k \in 0 .. Len(replies[s]), k # 0, replies'[s] = SubSeq(replies[s], 1, k)
        PROVE  Orderly(s)'
    <3>1. /\ replies[s] \in Seq(Reply) /\ Len(replies[s]) \in Nat /\ DOMAIN replies[s] = 1 .. Len(replies[s])
          /\ Len(replies'[s]) = k /\ DOMAIN replies'[s] = 1 .. k /\ \A i \in 1 .. k : replies'[s][i] = replies[s][i]
      BY <1>a, <2>1, <2>4 DEF WireOK
    <3>2. Answered(s) \/ Telling(s)
      BY <1>b, <2>1, <2>4, <3>1 DEF Orderly, Calm, Asked
    <3>3. asked'[s] = <<>>
      BY <1>17, <1>a, <2>1, <2>4 DEF Drop, WireOK
    <3>4. CASE Answered(s)
      <4>1. PICK w \in Workers : Waiting(w, s) /\ replies[s][1].to = mine[w]
        BY <3>4 DEF Answered
      <4>2. k = 1 /\ Len(replies'[s]) = 1 /\ replies'[s][1] = replies[s][1]
        BY <2>4, <3>1, <3>4 DEF Answered
      <4>3. Waiting(w, s)' /\ mine' = mine
        BY <2>1, <4>1 DEF Waiting, workerVars
      <4> QED  BY <3>3, <4>1, <4>2, <4>3 DEF Orderly, Answered
    <3>5. CASE Telling(s)
      <4>1. \A i \in DOMAIN replies'[s] :
              /\ replies'[s][i].to = Status /\ replies'[s][i].line \in 1 .. EOF
              /\ replies'[s][i].line = EOF => i = Len(replies'[s])
        BY <3>1, <3>5 DEF Telling
      <4> QED  BY <2>1, <3>3, <3>5, <4>1 DEF Orderly, Telling
    <3> QED  BY <3>2, <3>4, <3>5
  <2>5. CASE c = s
    <3>1. replies'[s] = <<>> \/ \E k \in 0 .. Len(replies[s]) : replies'[s] = SubSeq(replies[s], 1, k)
      BY <1>17, <1>a, <2>1, <2>5 DEF Drop, WireOK
    <3>2. SubSeq(replies[s], 1, 0) = <<>>
      BY <1>a, <2>1 DEF WireOK
    <3> QED  BY <2>3, <2>4, <2>5, <3>1, <3>2
  <2> QED  BY <2>2, <2>5
<1>18. CASE UNCHANGED vars
  BY <1>18, <1>b, Untouched DEF vars, sockVars, wireVars, workerVars, Waiting
<1> QED
  BY <1>1, <1>2, <1>3, <1>4, <1>5, <1>6, <1>7, <1>8, <1>9, <1>10, <1>11, <1>12, <1>13, <1>14, <1>15, <1>16,
     <1>17, <1>18, <1>a DEF Next, Worker, StatusMaster, Opening

LEMMA InitChannel == Init => ChannelInv
<1> SUFFICES ASSUME Init PROVE ChannelInv
  OBVIOUS
<1>1. TypeInv
  BY InitTypes
<1>2. sockfd = -1 /\ -1 \notin Conns /\ made = 0 /\ -1 <= 0
  BY Numbers DEF Init
<1>3. OneExchange /\ \A c \in Conns : link[c] = "none" /\ replies[c] = <<>> /\ asked[c] = <<>>
  BY Numbers DEF Init, OneExchange, Threads
<1> QED  BY <1>1, <1>2, <1>3 DEF ChannelInv, ChannelHolds, Wires

LEMMA ChannelInvStep == ChannelInv /\ [Next]_vars => ChannelInv'
BY StepTypes, ExchangeStep, WiresStep, ChannelStep DEF ChannelInv

\* The connection in use carries what belongs to the exchange that goes on, and nothing
\* left of an earlier one, for any number of threads, losses and reconnections, until
\* somebody stops waiting for a reply on it.
THEOREM ChannelClean == Spec => []ChannelHolds
<1>1. ChannelInv => ChannelHolds
  BY DEF ChannelInv
<1> QED  BY <1>1, InitChannel, ChannelInvStep, PTL DEF Spec

\* What PCR_SendCmd reads is the reply to its command, because the connection carried
\* nothing else.
LEMMA ReplyStep == ChannelInv /\ OwnReply /\ [Next]_vars => OwnReply'
<1> SUFFICES ASSUME ChannelInv, OwnReply, [Next]_vars, NEW w \in Workers, Mistaken(w)'
             PROVE  \E i \in DOMAIN givenUp' : givenUp'[i] = answer'[w].conn
  BY DEF OwnReply
<1>a. PcOK /\ WireOK /\ WorkerOK /\ StatusOK /\ \A i \in DOMAIN givenUp : i \in DOMAIN givenUp' /\ givenUp'[i] = givenUp[i]
  BY TypeParts, GivenUpGrows DEF ChannelInv, TypeInv
<1>b. ASSUME answer'[w] = answer[w], mine'[w] = mine[w]
      PROVE  \E i \in DOMAIN givenUp' : givenUp'[i] = answer'[w].conn
  BY <1>a, <1>b DEF OwnReply, Mistaken
<1>1. ASSUME NEW v \in Workers, Begin(v) PROVE \E i \in DOMAIN givenUp' : givenUp'[i] = answer'[w].conn
  <2>1. CASE v = w
    BY <1>1, <1>a, <2>1 DEF Begin, Mistaken, WorkerOK
  <2>2. CASE v # w
    BY <1>1, <1>a, <1>b, <2>2 DEF Begin, WorkerOK
  <2> QED  BY <2>1, <2>2
<1>2. ASSUME NEW v \in Workers, ReadReply(v) PROVE \E i \in DOMAIN givenUp' : givenUp'[i] = answer'[w].conn
  <2>1. CASE v = w
    <3>1. /\ sockfd \in Conns /\ replies[sockfd] # <<>> /\ replies[sockfd] \in Seq(Reply) /\ owner = w
          /\ givenUp' = givenUp /\ mine' = mine
      BY <1>2, <1>a, <2>1, OwnerAlone DEF ReadReply, LineReady, Go, WireOK, Exchange, ChannelInv
    <3>2. answer'[w] = [to |-> Head(replies[sockfd]).to, conn |-> sockfd] /\ Head(replies[sockfd]).to # mine[w]
      BY <1>2, <1>a, <2>1, <3>1 DEF ReadReply, Mistaken, WorkerOK
    <3>3. ASSUME Patient(sockfd) PROVE FALSE
      <4>1. Orderly(sockfd)
        BY <3>1, <3>3 DEF ChannelInv, ChannelHolds, Orderly, Patient
      <4>2. Answered(sockfd)
        BY <3>1, <4>1, OwnerAlone DEF Orderly, Calm, Asked, Telling, Exchange, ChannelInv
      <4>3. replies[sockfd][1].to = mine[w]
        BY <3>1, <4>2, OwnerAlone DEF Answered, ChannelInv
      <4>4. Head(replies[sockfd]) = replies[sockfd][1]
        BY <3>1
      <4> QED  BY <3>2, <4>3, <4>4
    <3> QED  BY <3>1, <3>2, <3>3 DEF Patient
  <2>2. CASE v # w
    BY <1>2, <1>a, <1>b, <2>2 DEF ReadReply, WorkerOK
  <2> QED  BY <2>1, <2>2
<1>3. CASE UNCHANGED <<answer, mine>>
  BY <1>b, <1>3
<1> QED
  BY <1>1, <1>2, <1>3
  DEF Next, vars, workerVars, Worker, StatusMaster, Opening, OpenBegin, OpenEnd, Lock, Send, SendFails,
      Select, Timeout, ReadFails, StatusCheck, StatusClose, StatusSend, StatusSendFails, StatusReadLine,
      StatusReadNothing, TakeStatusLine, StatusReadFails, StatusInit, StatusUpdate, Answer, Drop

\* A command gets the reply to itself, unless a reply on the same connection was not
\* waited for.
THEOREM RepliesOwn == Spec => []OwnReply
<1>1. Init => OwnReply
  BY DEF Init, OwnReply, Mistaken
<1>2. (ChannelInv /\ OwnReply) /\ [Next]_vars => (ChannelInv /\ OwnReply)'
  BY ChannelInvStep, ReplyStep
<1> QED  BY <1>1, <1>2, InitChannel, PTL DEF Spec

-----------------------------------------------------------------------------
(***************************************************************************)
(* Where the values of the status are stored                               *)
(***************************************************************************)

\* Connection c carries nothing for the status: what is asked and answered on it are
\* commands, those that were given up and at most the one that is waited for.
Pending(c)  == Len(asked[c]) + Len(replies[c])
OnlyLate(c) ==
  /\ \A k \in DOMAIN asked[c] : asked[c][k] # Status
  /\ \A k \in DOMAIN replies[c] : replies[c][k].line \in {OK, ERROR}
  /\ Pending(c) <= Len(givenUp) + 1
  /\ (\A w \in Workers : ~Waiting(w, c)) => Pending(c) <= Len(givenUp)

\* What has been read, and what is still to be read from c, is a late replies and then
\* the parameters in their order, or the beginning of that.
HasRead(a) == \A k \in DOMAIN got : got[k] = IF k <= a THEN ERROR ELSE k - a
WillRead(c, a) ==
  \A k \in DOMAIN replies[c] : IF Len(got) + k <= a THEN replies[c][k].line \in {OK, ERROR}
                                                     ELSE replies[c][k].line = Len(got) + k - a
WillAnswer(c, a) ==
  asked[c] # <<>> => /\ Len(got) + Pending(c) = a + 1
                     /\ \A k \in DOMAIN asked[c] : asked[c][k] = Status <=> k = Len(asked[c])
TellsAfter(c, a) ==
  /\ HasRead(a) /\ WillRead(c, a) /\ WillAnswer(c, a)
  /\ Len(got) + Len(replies[c]) <= a + NumParameters + 1
Tells(c) == \E a \in 0 .. Len(givenUp) : TellsAfter(c, a)

\* Lines that are no parameters, and lines that are all of them after late replies.
AllErrors(s)  == \A k \in DOMAIN s : s[k] = ERROR
InOrder(s, a) == Len(s) = a + NumParameters /\ \A k \in DOMAIN s : s[k] = IF k <= a THEN ERROR ELSE k - a
Proper(s)     == \E a \in 0 .. Len(givenUp) : InOrder(s, a)

\* The next reply makes a list, or is compared with a list of parameters.
Matters == initList \/ ~AllErrors(positions)

ReadingRight ==
  pc[Status] = "read" => /\ \A k \in DOMAIN got : ~EndOfData(got[k])
                         /\ Matters => sockfd \notin Conns \/ Calm(sockfd) \/ Tells(sockfd)
FewLines(s) == AllErrors(s) /\ (Len(s) < Len(givenUp) \/ Len(s) = 0)
ApplyingRight ==
  pc[Status] = "apply" /\ Matters =>
    \/ FewLines(LinesBefore)
    \/ Proper(LinesBefore) /\ (sockfd \in Conns => OnlyLate(sockfd))
BetweenRight ==
  pc[Status] \in {"check", "opening", "lock", "send"} /\ Matters /\ sockfd \in Conns => OnlyLate(sockfd)
ListRight ==
  /\ AllErrors(positions) \/ Proper(positions)
  /\ ~AllErrors(positions) => stored.lines = positions

StoredRight == ReadingRight /\ ApplyingRight /\ BetweenRight /\ ListRight
StoredInv   == Len(givenUp) <= NumParameters => StoredRight

LEMMA StoredFollows == TypeInv /\ StoredInv => StoredInPlace
<1> SUFFICES ASSUME TypeInv, StoredInv, Len(givenUp) <= NumParameters, NEW k \in DOMAIN positions,
                    k \in DOMAIN stored.lines, positions[k] \in Parameters
             PROVE  stored.lines[k] = positions[k]
  BY DEF StoredInPlace
<1>1. positions[k] # ERROR
  BY Numbers DEF Parameters, ERROR
<1>2. ~AllErrors(positions)
  BY <1>1 DEF AllErrors
<1> QED  BY <1>2 DEF StoredInv, StoredRight, ListRight

LEMMA InitStored == Init => StoredInv
<1> SUFFICES ASSUME Init PROVE StoredInv
  OBVIOUS
<1>1. pc[Status] = "check" /\ sockfd = -1 /\ positions = <<>>
  BY Numbers DEF Init, Threads
<1>2. AllErrors(positions)
  BY <1>1 DEF AllErrors
<1> QED
  BY <1>1, <1>2, Numbers DEF StoredInv, StoredRight, ReadingRight, ApplyingRight, BetweenRight, ListRight

\* There are only more and more replies that nobody waits for.
LEMMA MoreGivenUp == ASSUME TypeInv, [Next]_vars PROVE Len(givenUp) \in Nat /\ Len(givenUp') \in Nat /\ Len(givenUp) <= Len(givenUp')
<1>1. CASE UNCHANGED givenUp
  BY <1>1, TypeParts DEF TypeInv, WorkerOK
<1>2. ASSUME NEW w \in Workers, Timeout(w), watched[w] \in Conns
      PROVE  Len(givenUp) \in Nat /\ Len(givenUp') \in Nat /\ Len(givenUp) <= Len(givenUp')
  <2>1. givenUp \in Seq(Conns) /\ givenUp' = Append(givenUp, watched[w])
    BY <1>2, TypeParts DEF Timeout, TypeInv, WorkerOK
  <2>2. Len(givenUp) \in Nat /\ Len(givenUp') = Len(givenUp) + 1
    BY <1>2, <2>1
  <2> QED  BY <2>2
<1> QED
  BY <1>1, <1>2
  DEF Next, vars, workerVars, Worker, StatusMaster, Opening, Begin, OpenBegin, OpenEnd, Lock, Send,
      SendFails, Select, Timeout, ReadReply, ReadFails, StatusCheck, StatusClose, StatusSend,
      StatusSendFails, StatusReadLine, StatusReadNothing, TakeStatusLine, StatusReadFails, StatusInit,
      StatusUpdate, Answer, Drop

LEMMA ProperLasts == ASSUME NEW s, Proper(s), Len(givenUp) \in Nat, Len(givenUp') \in Nat, Len(givenUp) <= Len(givenUp') PROVE Proper(s)'
<1>1. PICK a \in 0 .. Len(givenUp) : InOrder(s, a)
  BY DEF Proper
<1>2. a \in 0 .. Len(givenUp')
  BY <1>1
<1>3. InOrder(s, a)'
  BY <1>1 DEF InOrder
<1> QED  BY <1>2, <1>3 DEF Proper

LEMMA CalmIsLate == ASSUME NEW c, Calm(c), Len(givenUp) \in Nat PROVE OnlyLate(c)
<1>1. asked[c] = <<>> /\ replies[c] = <<>> /\ Len(<<>>) = 0 /\ DOMAIN <<>> = {}
  BY DEF Calm
<1>2. Pending(c) = 0
  BY <1>1 DEF Pending
<1> QED  BY <1>1, <1>2 DEF OnlyLate

\* Of a step: replies that nobody waits for any more are not forgotten.
Patience == Len(givenUp) \in Nat /\ Len(givenUp') \in Nat /\ Len(givenUp) <= Len(givenUp')

LEMMA PendingType ==
  ASSUME WireOK, NEW c \in Conns
  PROVE  Len(asked[c]) \in Nat /\ Len(replies[c]) \in Nat /\ Pending(c) \in Nat
<1>1. asked[c] \in Seq(Requested) /\ replies[c] \in Seq(Reply)
  BY DEF WireOK
<1>2. Len(asked[c]) \in Nat /\ Len(replies[c]) \in Nat
  BY <1>1, LenProperties
<1>3. \A m, n \in Nat : m + n \in Nat
  OBVIOUS
<1> QED  BY <1>2, <1>3 DEF Pending

LEMMA PendingMoves ==
  ASSUME WireOK, NEW c \in Conns, NEW m \in Int, NEW n \in Int,
         Len(asked'[c]) = Len(asked[c]) + m, Len(replies'[c]) = Len(replies[c]) + n
  PROVE  Pending(c)' = Pending(c) + m + n
<1>1. PICK a \in Nat, r \in Nat : a = Len(asked[c]) /\ r = Len(replies[c])
  BY PendingType
<1>2. Pending(c) = a + r
  BY <1>1 DEF Pending
<1>3. Pending(c)' = (a + m) + (r + n)
  BY <1>1 DEF Pending
<1> QED  BY <1>2, <1>3

\* A connection that is left alone carries what it carried.
LEMMA LateStays ==
  ASSUME WireOK, Patience, NEW c \in Conns, OnlyLate(c), asked'[c] = asked[c], replies'[c] = replies[c],
         \A w \in Workers : Waiting(w, c) => Waiting(w, c)'
  PROVE  OnlyLate(c)'
<1>1. Pending(c)' = Pending(c) /\ Pending(c) \in Nat
  <2>1. Pending(c)' = Pending(c)
    BY DEF Pending
  <2> QED  BY <2>1, PendingType
<1>2. Pending(c)' <= Len(givenUp') + 1
  BY <1>1 DEF OnlyLate, Patience
<1>3. (\A w \in Workers : ~Waiting(w, c)') => Pending(c)' <= Len(givenUp')
  BY <1>1 DEF OnlyLate, Patience
<1> QED  BY <1>2, <1>3 DEF OnlyLate

LEMMA TellsStays ==
  ASSUME Patience, NEW c, Tells(c), asked'[c] = asked[c], replies'[c] = replies[c], got' = got
  PROVE  Tells(c)'
<1>1. PICK a \in 0 .. Len(givenUp) : TellsAfter(c, a)
  BY DEF Tells
<1>2. a \in 0 .. Len(givenUp')
  BY <1>1 DEF Patience
<1>3. TellsAfter(c, a)'
  BY <1>1 DEF TellsAfter, HasRead, WillRead, WillAnswer, Pending
<1> QED  BY <1>2, <1>3 DEF Tells

LEMMA ListLasts == ASSUME Patience, ListRight, UNCHANGED <<positions, stored>> PROVE ListRight'
<1>1. PICK s : s = positions
  OBVIOUS
<1>2. AllErrors(s) \/ Proper(s)'
  BY <1>1, ProperLasts DEF ListRight, Patience
<1>3. AllErrors(positions)' = AllErrors(s) /\ Proper(positions)' = Proper(s)' /\ AllErrors(positions) = AllErrors(s)
  BY <1>1 DEF AllErrors, Proper
<1> QED  BY <1>2, <1>3 DEF ListRight

LEMMA FewLast == ASSUME Patience, NEW s, FewLines(s), Len(s) \in Nat PROVE FewLines(s)'
BY DEF FewLines, Patience, AllErrors

\* Steps beside the loop of the status.
LEMMA Beside ==
  ASSUME StatusOK, Patience, StoredRight, UNCHANGED statusVars, pc'[Status] = pc[Status],
         \A c \in Conns : sockfd' = c =>
           \/ Calm(c)'
           \/ /\ sockfd = c
              /\ OnlyLate(c) => OnlyLate(c)'
              /\ pc[Status] = "read" => (Calm(c) \/ Tells(c) => Calm(c)' \/ Tells(c)')
  PROVE  StoredRight'
<1>1. UNCHANGED <<initList, got, positions, source, listOf, stored>>
  BY DEF statusVars
<1>2. ListRight'
  BY <1>1, ListLasts DEF StoredRight
<1>3. Matters' = Matters
  BY <1>1 DEF Matters, AllErrors
<1>4. \A c : Calm(c)' => OnlyLate(c)'
  <2> SUFFICES ASSUME NEW c, Calm(c)' PROVE OnlyLate(c)'
    OBVIOUS
  <2>1. asked'[c] = <<>> /\ replies'[c] = <<>> /\ Len(<<>>) = 0 /\ DOMAIN <<>> = {}
    BY DEF Calm
  <2>2. Pending(c)' = 0
    BY <2>1 DEF Pending
  <2> QED  BY <2>1, <2>2 DEF OnlyLate, Patience
<1>5. BetweenRight'
  <2> SUFFICES ASSUME pc[Status] \in {"check", "opening", "lock", "send"}, Matters, NEW c \in Conns, sockfd' = c
               PROVE  OnlyLate(c)'
    BY <1>3 DEF BetweenRight
  <2> QED  BY <1>4 DEF StoredRight, BetweenRight
<1>6. ReadingRight'
  <2> SUFFICES ASSUME pc[Status] = "read"
               PROVE  /\ \A k \in DOMAIN got : ~EndOfData(got[k])
                      /\ Matters => \A c \in Conns : sockfd' = c => Calm(c)' \/ Tells(c)'
    BY <1>1, <1>3 DEF ReadingRight
  <2> QED  BY DEF StoredRight, ReadingRight
<1>7. ApplyingRight'
  <2> SUFFICES ASSUME pc[Status] = "apply", Matters
               PROVE  FewLines(LinesBefore)' \/ (Proper(LinesBefore)' /\ \A c \in Conns : sockfd' = c => OnlyLate(c)')
    BY <1>3 DEF ApplyingRight
  <2>1. PICK l : l = LinesBefore
    OBVIOUS
  <2>2. LinesBefore' = l
    BY <1>1, <2>1 DEF LinesBefore
  <2>3. Len(l) \in Nat
    BY <2>1, LenProperties, SubSeqProperties DEF LinesBefore, StatusOK
  <2>4. CASE FewLines(l)
    BY <2>2, <2>3, <2>4, FewLast DEF FewLines, AllErrors
  <2>5. CASE Proper(l) /\ (sockfd \in Conns => OnlyLate(sockfd))
    <3>1. Proper(l)'
      BY <2>5, ProperLasts DEF Patience
    <3>2. Proper(LinesBefore)'
      BY <2>2, <3>1 DEF Proper
    <3>3. \A c \in Conns : sockfd' = c => OnlyLate(c)'
      BY <1>4, <2>5
    <3> QED  BY <3>2, <3>3
  <2> QED  BY <2>1, <2>4, <2>5 DEF StoredRight, ApplyingRight
<1> QED  BY <1>2, <1>5, <1>6, <1>7 DEF StoredRight

-----------------------------------------------------------------------------
\* Steps of the threads that run commands.
LEMMA WorkerSteps ==
  ASSUME ChannelInv, StoredRight, Patience, NEW w \in Workers, Begin(w) \/ Worker(w) \/ Lock(w)
  PROVE  StoredRight'
<1>a. /\ PcOK /\ SockOK /\ WireOK /\ WorkerOK /\ StatusOK /\ Numbered /\ Wires
      /\ w \in Threads /\ w # Status /\ Status \in Threads /\ \A v \in Workers : v \in Threads
  BY TypeParts, Numbers DEF ChannelInv, TypeInv, Threads
<1>b. /\ \A v \in Workers : \A c : Waiting(v, c) => owner = v
      /\ pc[Status] \in Exchange => owner = Status
      /\ pc[w] \in Exchange => owner = w /\ mine[w] \in Requests
      /\ Status \notin Requests /\ -1 \notin Conns /\ 0 \notin Conns
  BY <1>a, OwnerAlone, Numbers DEF ChannelInv, Numbered, Exchange
<1>c. \A from, to : Go(w, from, to) =>
        pc[w] = from /\ pc'[w] = to /\ pc'[Status] = pc[Status] /\ \A v \in Workers \ {w} : pc'[v] = pc[v]
  BY <1>a DEF Go, PcOK
<1>d. UNCHANGED statusVars /\ pc'[Status] = pc[Status]
  BY <1>c DEF Begin, Worker, Opening, OpenBegin, OpenEnd, Lock, Send, SendFails, Select, Timeout, ReadReply, ReadFails
<1>e. UNCHANGED got
  BY <1>d DEF statusVars
<1>f. ASSUME \A c \in Conns : sockfd' = c => Calm(c)' \/ (sockfd = c /\ (OnlyLate(c) => OnlyLate(c)') /\ owner = w)
      PROVE  StoredRight'
  <2>1. owner = w => pc[Status] # "read"
    BY <1>a, <1>b DEF Exchange
  <2> QED  BY <1>a, <1>d, <1>f, <2>1, Beside
<1>g. ASSUME UNCHANGED <<sockfd, wireVars>>, \A v \in Workers : \A c : Waiting(v, c) => Waiting(v, c)' PROVE StoredRight'
  <2>1. \A c : asked'[c] = asked[c] /\ replies'[c] = replies[c]
    BY <1>g DEF wireVars
  <2>2. ASSUME NEW c \in Conns, OnlyLate(c) PROVE OnlyLate(c)'
    BY <1>a, <1>g, <2>1, <2>2, LateStays
  <2>3. ASSUME NEW c \in Conns, Tells(c) PROVE Tells(c)'
    BY <1>e, <2>1, <2>3, TellsStays
  <2>4. ASSUME NEW c \in Conns, Calm(c) PROVE Calm(c)'
    BY <2>1, <2>4 DEF Calm
  <2> QED  BY <1>a, <1>d, <1>g, <2>2, <2>3, <2>4, Beside
<1>h. ASSUME sockfd' \notin Conns PROVE StoredRight'
  BY <1>f, <1>h
<1>i. ASSUME NEW from, NEW to, Go(w, from, to), UNCHANGED watched, from \in {"select", "read"} => to \in {"select", "read"}
      PROVE  \A v \in Workers : \A c : Waiting(v, c) => Waiting(v, c)'
  BY <1>c, <1>i DEF Waiting
<1>1. CASE Begin(w)
  <2>1. Go(w, "idle", "lock") \/ Go(w, "idle", "open")
    BY <1>1 DEF Begin
  <2>2. \A v \in Workers : \A c : Waiting(v, c) => Waiting(v, c)'
    BY <1>1, <1>i, <2>1 DEF Begin
  <2> QED  BY <1>1, <1>g, <2>2 DEF Begin, sockVars
<1>2. CASE OpenBegin(w)
  <2>1. sockfd' \notin Conns \/ UNCHANGED <<sockfd, wireVars>>
    BY <1>2, <1>b DEF OpenBegin, sockVars, wireVars
  <2>2. Go(w, "open", "idle") \/ Go(w, "open", "opening")
    BY <1>2, <1>a DEF OpenBegin, AfterFailure
  <2>3. \A v \in Workers : \A c : Waiting(v, c) => Waiting(v, c)'
    BY <1>2, <1>i, <2>2 DEF OpenBegin, workerVars
  <2> QED  BY <1>g, <1>h, <2>1, <2>3
<1>3. CASE OpenEnd(w)
  <2>1. Go(w, "opening", "idle") \/ Go(w, "opening", "lock")
    BY <1>3, <1>a DEF OpenEnd, AfterFailure, AfterOpening
  <2>2. \A v \in Workers : \A c : Waiting(v, c) => Waiting(v, c)'
    BY <1>3, <1>i, <2>1 DEF OpenEnd, workerVars
  <2>3. CASE UNCHANGED sockfd
    BY <1>3, <1>g, <2>2, <2>3 DEF OpenEnd
  <2>4. CASE made' = made + 1 /\ sockfd' = made'
    <3>1. \A c \in Conns : sockfd' = c => asked[c] = <<>> /\ replies[c] = <<>>
      BY <1>a, <2>4 DEF Wires, SockOK
    <3>2. \A c \in Conns : sockfd' = c => Calm(c)'
      BY <1>3, <3>1 DEF OpenEnd, wireVars, Calm
    <3> QED  BY <1>f, <3>2
  <2> QED  BY <1>3, <2>3, <2>4 DEF OpenEnd
<1>4. CASE Lock(w) \/ SendFails(w) \/ Select(w)
  <2>1. /\ UNCHANGED <<sockVars, wireVars, workerVars>>
        /\ Go(w, "lock", "send") \/ Go(w, "send", "idle") \/ Go(w, "select", "read")
    BY <1>4 DEF Lock, SendFails, Select
  <2>2. \A v \in Workers : \A c : Waiting(v, c) => Waiting(v, c)'
    BY <1>i, <2>1 DEF workerVars
  <2> QED  BY <1>g, <2>1, <2>2 DEF sockVars
<1>5. CASE Send(w)
  <2>1. pc[w] = "send" /\ pc'[w] = "select" /\ watched'[w] = sockfd /\ owner = w /\ UNCHANGED <<sockfd, replies, givenUp>>
    BY <1>5, <1>a, <1>b, <1>c DEF Send, Exchange, WorkerOK
  <2> SUFFICES ASSUME NEW c \in Conns, sockfd = c, OnlyLate(c) PROVE Calm(c)' \/ OnlyLate(c)'
    BY <1>f, <2>1
  <2>2. \A v \in Workers : ~Waiting(v, c)
    BY <1>b, <2>1 DEF Waiting
  <2>3. CASE UNCHANGED asked
    BY <1>a, <2>1, <2>2, <2>3, LateStays
  <2>4. CASE asked' = [asked EXCEPT ![c] = Append(@, mine[w])]
    <3>1. PICK A : A = asked[c]
      OBVIOUS
    <3>2. A \in Seq(Requested) /\ replies[c] \in Seq(Reply) /\ mine[w] \in Requested /\ mine[w] # Status
      BY <1>a, <1>b, <2>1, <3>1 DEF WireOK, Exchange, Requested
    <3>3. asked'[c] = Append(A, mine[w]) /\ replies'[c] = replies[c]
      BY <1>a, <2>1, <2>4, <3>1 DEF WireOK
    <3>4. Len(Append(A, mine[w])) = Len(A) + 1 /\ Len(A) \in Nat /\ Len(replies[c]) \in Nat
      BY <3>2
    <3>5. Pending(c)' = Pending(c) + 1 /\ Pending(c) \in Nat
      <4>1. Len(asked'[c]) = Len(asked[c]) + 1 /\ Len(replies'[c]) = Len(replies[c]) + 0
        BY <3>1, <3>3, <3>4
      <4>2. Len(asked[c]) \in Nat /\ Len(replies[c]) \in Nat /\ Pending(c) \in Nat
        BY <1>a, PendingType
      <4>3. Pending(c)' = Pending(c) + 1
        BY <1>a, <4>1, <4>2, PendingMoves
      <4> QED  BY <4>2, <4>3
    <3>6. Pending(c)' <= Len(givenUp') + 1
      BY <2>1, <2>2, <3>5 DEF OnlyLate, Patience
    <3>7. Waiting(w, c)'
      BY <2>1 DEF Waiting
    <3>8. \A k \in DOMAIN Append(A, mine[w]) : Append(A, mine[w])[k] # Status
      <4> TAKE k \in DOMAIN Append(A, mine[w])
      <4>1. CASE k \in DOMAIN A
        BY <3>1, <3>2, <4>1 DEF OnlyLate
      <4>2. CASE k = Len(A) + 1
        BY <3>2, <4>2
      <4> QED  BY <3>2, <4>1, <4>2
    <3> QED  BY <3>3, <3>6, <3>7, <3>8 DEF OnlyLate
  <2> QED  BY <1>5, <1>b, <2>3, <2>4 DEF Send, Written
<1>6. CASE Timeout(w)
  <2>1. /\ pc[w] = "select" /\ pc'[w] = "idle" /\ owner = w /\ UNCHANGED <<sockfd, wireVars, watched>>
        /\ givenUp' = IF watched[w] \in Conns THEN Append(givenUp, watched[w]) ELSE givenUp
    BY <1>6, <1>b, <1>c DEF Timeout, Exchange, sockVars
  <2> SUFFICES ASSUME NEW c \in Conns, sockfd = c, OnlyLate(c) PROVE OnlyLate(c)'
    BY <1>f, <2>1
  <2>2. asked'[c] = asked[c] /\ replies'[c] = replies[c]
    BY <2>1 DEF wireVars
  <2>3. CASE watched[w] = c
    <3>1. Len(givenUp') = Len(givenUp) + 1
      BY <1>a, <2>1, <2>3 DEF WorkerOK
    <3>2. Pending(c)' = Pending(c) /\ Pending(c) \in Nat
      <4>1. Pending(c)' = Pending(c)
        BY <2>2 DEF Pending
      <4> QED  BY <1>a, <4>1, PendingType
    <3>3. Pending(c)' <= Len(givenUp') /\ Pending(c)' <= Len(givenUp') + 1
      BY <3>1, <3>2 DEF OnlyLate, Patience
    <3> QED  BY <2>2, <3>3 DEF OnlyLate
  <2>4. CASE watched[w] # c
    <3>1. \A v \in Workers : ~Waiting(v, c)
      BY <1>b, <2>1, <2>4 DEF Waiting
    <3> QED  BY <1>a, <2>2, <3>1, LateStays
  <2> QED  BY <2>3, <2>4
<1>7. CASE ReadReply(w)
  <2>1. /\ pc[w] = "read" /\ owner = w /\ UNCHANGED <<sockfd, asked, givenUp>>
        /\ sockfd \in Conns /\ replies[sockfd] # <<>> /\ replies' = [replies EXCEPT ![sockfd] = Tail(@)]
    BY <1>7, <1>b, <1>c DEF ReadReply, Exchange, sockVars, LineReady, TakeLine
  <2> SUFFICES ASSUME NEW c \in Conns, sockfd = c, OnlyLate(c) PROVE OnlyLate(c)'
    BY <1>f, <2>1
  <2>2. PICK R : R = replies[c]
    OBVIOUS
  <2>3. R \in Seq(Reply) /\ R # <<>> /\ replies'[c] = Tail(R) /\ asked'[c] = asked[c] /\ Len(asked[c]) \in Nat
    BY <1>a, <2>1, <2>2, LenProperties DEF WireOK
  <2>4. /\ Len(R) \in Nat /\ Len(Tail(R)) = Len(R) - 1
        /\ \A k \in DOMAIN Tail(R) : k + 1 \in DOMAIN R /\ Tail(R)[k] = R[k + 1]
    BY <2>3
  <2>5. Pending(c)' = Pending(c) - 1 /\ Pending(c) \in Nat
    <3>1. Len(replies'[c]) = Len(replies[c]) + (-1) /\ Len(asked'[c]) = Len(asked[c]) + 0
      BY <2>2, <2>3, <2>4
    <3>2. Len(asked[c]) \in Nat /\ Len(replies[c]) \in Nat /\ Pending(c) \in Nat
      BY <1>a, PendingType
    <3>3. 0 \in Int /\ -1 \in Int
      OBVIOUS
    <3>4. Pending(c)' = Pending(c) + 0 + (-1)
      BY <1>a, <3>1, <3>3, PendingMoves
    <3> QED  BY <3>2, <3>4
  <2>6. Pending(c)' <= Len(givenUp') /\ Pending(c)' <= Len(givenUp') + 1
    BY <2>1, <2>5 DEF OnlyLate, Patience
  <2>7. \A k \in DOMAIN Tail(R) : Tail(R)[k].line \in {OK, ERROR}
    BY <2>2, <2>4 DEF OnlyLate
  <2> QED  BY <2>3, <2>6, <2>7 DEF OnlyLate
<1>8. CASE ReadFails(w)
  <2>1. CASE SocketClose
    <3>1. sockfd' = -1
      BY <2>1 DEF SocketClose
    <3> QED  BY <1>b, <1>h, <3>1
  <2>2. CASE UNCHANGED <<sockVars, wireVars>>
    <3>1. \A c \in Conns : sockfd = c => asked[c] = <<>> /\ replies[c] = <<>>
      BY <1>8, <1>a DEF ReadFails, AtEnd, Wires
    <3>2. \A c \in Conns : sockfd' = c => Calm(c)'
      BY <2>2, <3>1 DEF Calm, sockVars, wireVars
    <3> QED  BY <1>f, <3>2
  <2> QED  BY <1>8, <2>1, <2>2 DEF ReadFails
<1> QED  BY <1>1, <1>2, <1>3, <1>4, <1>5, <1>6, <1>7, <1>8 DEF Worker, Opening

\* The first and the following requests of a connection, as the PCR answers them.
LEMMA HeadAndTail ==
  ASSUME NEW S, NEW s \in Seq(S), s # <<>>
  PROVE  /\ Len(s) \in Nat \ {0} /\ Len(Tail(s)) = Len(s) - 1 /\ Head(s) = s[1] /\ 1 \in DOMAIN s
         /\ \A k \in DOMAIN Tail(s) : k \in Nat /\ k + 1 \in DOMAIN s /\ Tail(s)[k] = s[k + 1]
OBVIOUS

\* The PCR answers a command that was given up, or that somebody waits for.
LEMMA AnswerKeepsLate ==
  ASSUME ChannelInv, NEW c \in Conns, Answer(c), OnlyLate(c) PROVE OnlyLate(c)'
<1>a. WireOK /\ UNCHANGED <<pc, watched, givenUp>>
  BY TypeParts DEF ChannelInv, TypeInv, Answer, workerVars
<1>1. PICK A, R : A = asked[c] /\ R = replies[c]
  OBVIOUS
<1>2. A \in Seq(Requested) /\ A # <<>> /\ R \in Seq(Reply)
  BY <1>a, <1>1 DEF WireOK, Answer
<1>3. /\ Len(A) \in Nat \ {0} /\ Len(Tail(A)) = Len(A) - 1 /\ Head(A) # Status
      /\ \A k \in DOMAIN Tail(A) : Tail(A)[k] # Status
  BY <1>1, <1>2, HeadAndTail DEF OnlyLate
<1>4. PICK l \in {OK, ERROR} : replies' = [replies EXCEPT ![c] = Append(@, [to |-> Head(asked[c]), line |-> l])]
  BY <1>1, <1>3 DEF Answer
<1>5. PICK x : x = [to |-> Head(A), line |-> l]
  OBVIOUS
<1>6. asked'[c] = Tail(A) /\ replies'[c] = Append(R, x)
  BY <1>a, <1>1, <1>4, <1>5 DEF WireOK, Answer
<1>7. Len(Append(R, x)) = Len(R) + 1 /\ \A k \in DOMAIN Append(R, x) : Append(R, x)[k].line \in {OK, ERROR}
  <2>1. x \in Reply /\ x.line = l
    BY <1>2, <1>5, Numbers, TailType DEF Reply, Requested
  <2>2. /\ Len(Append(R, x)) = Len(R) + 1
        /\ \A k \in DOMAIN Append(R, x) : (k \in DOMAIN R /\ Append(R, x)[k] = R[k]) \/ Append(R, x)[k] = x
    BY <1>2, <2>1
  <2> QED  BY <1>1, <2>1, <2>2 DEF OnlyLate
<1>8. Pending(c)' = Pending(c) /\ Pending(c) \in Nat
  <2>1. Len(asked'[c]) = Len(asked[c]) + (-1) /\ Len(replies'[c]) = Len(replies[c]) + 1 /\ 1 \in Int /\ -1 \in Int
    BY <1>1, <1>3, <1>6, <1>7
  <2>2. Pending(c)' = Pending(c) + (-1) + 1
    BY <1>a, <2>1, PendingMoves
  <2> QED  BY <1>a, <2>2, PendingType
<1>9. Pending(c)' <= Len(givenUp') + 1 /\ ((\A w \in Workers : ~Waiting(w, c)') => Pending(c)' <= Len(givenUp'))
  BY <1>a, <1>8 DEF OnlyLate, Waiting
<1> QED  BY <1>3, <1>6, <1>7, <1>9 DEF OnlyLate

\* The PCR answers what comes before the request for the status, or that request.
LEMMA AnswerKeepsTelling ==
  ASSUME ChannelInv, NEW c \in Conns, Answer(c), Tells(c) PROVE Tells(c)'
<1>a. WireOK /\ UNCHANGED <<got, givenUp>> /\ Len(got) \in Nat /\ Len(givenUp) \in Nat
  BY TypeParts, LenProperties DEF ChannelInv, TypeInv, Answer, workerVars, statusVars, StatusOK, WorkerOK
<1>b. PICK a \in 0 .. Len(givenUp) : TellsAfter(c, a)
  BY DEF Tells
<1>1. PICK A, R, g : A = asked[c] /\ R = replies[c] /\ g = Len(got)
  OBVIOUS
<1>2. A \in Seq(Requested) /\ A # <<>> /\ R \in Seq(Reply) /\ g \in Nat /\ a \in Nat
  BY <1>a, <1>b, <1>1 DEF WireOK, Answer
<1>3. /\ Len(A) \in Nat \ {0} /\ Len(Tail(A)) = Len(A) - 1 /\ Head(A) = A[1] /\ 1 \in DOMAIN A
      /\ \A k \in DOMAIN Tail(A) : k \in Nat /\ k + 1 \in DOMAIN A /\ Tail(A)[k] = A[k + 1]
  BY <1>2, HeadAndTail
<1>4. Len(R) \in Nat /\ DOMAIN R = 1 .. Len(R) /\ asked'[c] = Tail(A)
  BY <1>a, <1>1, <1>2, LenProperties DEF WireOK, Answer
<1>5. g + Len(A) + Len(R) = a + 1 /\ \A k \in DOMAIN A : A[k] = Status <=> k = Len(A)
  <2>1. Len(got) + Pending(c) = a + 1 /\ \A k \in DOMAIN A : A[k] = Status <=> k = Len(A)
    BY <1>b, <1>1, <1>2 DEF TellsAfter, WillAnswer
  <2>2. PICK m \in Nat, n \in Nat : m = Len(A) /\ n = Len(R)
    BY <1>3, <1>4
  <2>3. Pending(c) = m + n
    BY <1>1, <2>2 DEF Pending
  <2>4. g + (m + n) = a + 1
    BY <1>1, <2>1, <2>3
  <2>5. g + m + n = a + 1
    BY <1>2, <2>4
  <2> QED  BY <2>1, <2>2, <2>5
<1>6. \A k \in DOMAIN R : IF g + k <= a THEN R[k].line \in {OK, ERROR} ELSE R[k].line = g + k - a
  BY <1>b, <1>1 DEF TellsAfter, WillRead
<1>7. HasRead(a)'
  BY <1>a, <1>b DEF TellsAfter, HasRead
<1>8. CASE Head(A) = Status
  <2>1. Len(A) = 1 /\ g + Len(R) = a
    BY <1>2, <1>3, <1>4, <1>5, <1>8
  <2>2. Tail(A) = <<>>
    BY <1>2, <2>1, LastOne
  <2>3. replies'[c] = R \o StatusReply
    BY <1>a, <1>1, <1>8 DEF WireOK, Answer
  <2>4. /\ Len(R \o StatusReply) = Len(R) + NumParameters + 1
        /\ \A k \in DOMAIN (R \o StatusReply) : k \in Nat /\ k >= 1 /\ k <= Len(R) + NumParameters + 1
             /\ (R \o StatusReply)[k] = IF k <= Len(R) THEN R[k] ELSE StatusReply[k - Len(R)]
    <3>1. PICK S : S = StatusReply
      OBVIOUS
    <3>2. S \in Seq(Reply) /\ Len(S) = NumParameters + 1 /\ NumParameters \in Nat
      BY <3>1, StatusReplyType, Numbers
    <3>3. PICK T : T = R \o S
      OBVIOUS
    <3>4. /\ T \in Seq(Reply) /\ Len(T) = Len(R) + Len(S)
          /\ \A k \in 1 .. Len(R) + Len(S) : T[k] = IF k <= Len(R) THEN R[k] ELSE S[k - Len(R)]
      BY <1>2, <3>2, <3>3, ConcatProperties
    <3>5. Len(T) = Len(R) + NumParameters + 1 /\ DOMAIN T = 1 .. Len(R) + NumParameters + 1
      BY <1>4, <3>2, <3>4, LenProperties
    <3>6. \A k \in DOMAIN T : k \in Nat /\ k >= 1 /\ k <= Len(R) + NumParameters + 1
                             /\ T[k] = IF k <= Len(R) THEN R[k] ELSE S[k - Len(R)]
      BY <1>4, <3>2, <3>4, <3>5
    <3> QED  BY <3>1, <3>3, <3>5, <3>6
  <2>5. \A k \in 1 .. NumParameters + 1 : StatusReply[k].line = k
    BY Numbers DEF StatusReply
  <2>6. WillRead(c, a)'
    <3> SUFFICES ASSUME NEW k \in DOMAIN (R \o StatusReply)
                 PROVE  IF g + k <= a THEN (R \o StatusReply)[k].line \in {OK, ERROR}
                                      ELSE (R \o StatusReply)[k].line = g + k - a
      BY <1>a, <1>1, <2>3 DEF WillRead
    <3>1. CASE k <= Len(R)
      BY <1>2, <1>4, <1>6, <2>1, <2>4, <3>1
    <3>2. CASE ~(k <= Len(R))
      <4>1. k - Len(R) \in 1 .. NumParameters + 1 /\ (R \o StatusReply)[k] = StatusReply[k - Len(R)]
        BY <1>4, <2>4, <3>2, Numbers
      <4>2. (R \o StatusReply)[k].line = k - Len(R)
        BY <2>5, <4>1
      <4> QED  BY <1>2, <1>4, <2>1, <2>4, <3>2, <4>2
    <3> QED  BY <3>1, <3>2
  <2>7. WillAnswer(c, a)'
    BY <1>4, <2>2 DEF WillAnswer
  <2>8. Len(got') + Len(replies'[c]) <= a + NumParameters + 1
    BY <1>a, <1>1, <1>2, <1>4, <2>1, <2>3, <2>4, Numbers
  <2> QED  BY <1>a, <1>7, <2>6, <2>7, <2>8 DEF Tells, TellsAfter
<1>9. CASE Head(A) # Status
  <2>1. Len(A) >= 2 /\ g + Len(R) + 1 <= a
    BY <1>2, <1>3, <1>4, <1>5, <1>9
  <2>2. PICK l \in {OK, ERROR} : replies' = [replies EXCEPT ![c] = Append(@, [to |-> Head(asked[c]), line |-> l])]
    BY <1>1, <1>9 DEF Answer
  <2>3. PICK x : x = [to |-> Head(A), line |-> l]
    OBVIOUS
  <2>4. replies'[c] = Append(R, x) /\ x.line = l
    BY <1>a, <1>1, <2>2, <2>3 DEF WireOK
  <2>5. x \in Reply
    BY <1>2, <2>3, Numbers, TailType DEF Reply, Requested
  <2>6. /\ Len(Append(R, x)) = Len(R) + 1
        /\ \A k \in DOMAIN Append(R, x) :
             (k \in DOMAIN R /\ Append(R, x)[k] = R[k]) \/ (k = Len(R) + 1 /\ Append(R, x)[k] = x)
    BY <1>2, <2>5
  <2>7. WillRead(c, a)'
    <3> SUFFICES ASSUME NEW k \in DOMAIN Append(R, x)
                 PROVE  IF g + k <= a THEN Append(R, x)[k].line \in {OK, ERROR}
                                      ELSE Append(R, x)[k].line = g + k - a
      BY <1>a, <1>1, <2>4 DEF WillRead
    <3>1. CASE k \in DOMAIN R /\ Append(R, x)[k] = R[k]
      BY <1>6, <3>1
    <3>2. CASE k = Len(R) + 1 /\ Append(R, x)[k] = x
      BY <1>2, <1>4, <2>1, <2>4, <3>2
    <3> QED  BY <2>6, <3>1, <3>2
  <2>8. WillAnswer(c, a)'
    <3>1. Len(got') + Pending(c)' = a + 1
      <4>1. Pending(c)' = Len(Tail(A)) + Len(Append(R, x))
        BY <1>4, <2>4 DEF Pending
      <4>2. PICK m \in Nat, n \in Nat : m = Len(A) /\ n = Len(R)
        BY <1>3, <1>4
      <4>3. Pending(c)' = (m - 1) + (n + 1)
        BY <1>3, <2>6, <4>1, <4>2
      <4>4. g + ((m - 1) + (n + 1)) = a + 1
        BY <1>2, <1>5, <4>2
      <4> QED  BY <1>a, <1>1, <4>3, <4>4
    <3>2. \A k \in DOMAIN Tail(A) : Tail(A)[k] = Status <=> k = Len(Tail(A))
      BY <1>3, <1>5
    <3> QED  BY <1>4, <3>1, <3>2 DEF WillAnswer
  <2>9. Len(got') + Len(replies'[c]) <= a + NumParameters + 1
    BY <1>a, <1>1, <1>2, <1>4, <2>1, <2>4, <2>6, Numbers
  <2> QED  BY <1>a, <1>7, <2>7, <2>8, <2>9 DEF Tells, TellsAfter
<1> QED  BY <1>8, <1>9

\* When the PCR goes away, what comes is the beginning of what would have come.
LEMMA DropKeeps ==
  ASSUME ChannelInv, NEW c \in Conns, Drop(c)
  PROVE  (OnlyLate(c) => OnlyLate(c)') /\ (Tells(c) => Tells(c)')
<1>a. WireOK /\ UNCHANGED <<got, givenUp, pc, watched>> /\ Len(got) \in Nat /\ Len(givenUp) \in Nat
  BY TypeParts, LenProperties DEF ChannelInv, TypeInv, Drop, workerVars, statusVars, StatusOK, WorkerOK
<1>1. PICK R, g : R = replies[c] /\ g = Len(got)
  OBVIOUS
<1>2. R \in Seq(Reply) /\ Len(R) \in Nat /\ DOMAIN R = 1 .. Len(R) /\ g \in Nat
  BY <1>a, <1>1, LenProperties DEF WireOK
<1>3. PICK Q : Q = replies'[c]
  OBVIOUS
<1>4. Len(Q) \in Nat /\ Len(Q) <= Len(R) /\ DOMAIN Q = 1 .. Len(Q) /\ \A k \in DOMAIN Q : k \in DOMAIN R /\ Q[k] = R[k]
  <2>1. CASE replies' = [replies EXCEPT ![c] = <<>>]
    <3>1. Q = <<>>
      BY <1>a, <1>3, <2>1 DEF WireOK
    <3> QED  BY <1>2, <3>1
  <2>2. ASSUME NEW k \in 0 .. Len(R), Q = SubSeq(R, 1, k)
        PROVE  Len(Q) \in Nat /\ Len(Q) <= Len(R) /\ DOMAIN Q = 1 .. Len(Q) /\ \A j \in DOMAIN Q : j \in DOMAIN R /\ Q[j] = R[j]
    BY <1>2, <2>2
  <2>3. Q = <<>> \/ replies' = [replies EXCEPT ![c] = <<>>] \/ \E k \in 0 .. Len(R) : Q = SubSeq(R, 1, k)
    BY <1>a, <1>1, <1>3 DEF Drop, WireOK
  <2> QED  BY <1>2, <2>1, <2>2, <2>3
<1>5. asked'[c] = <<>> /\ Len(<<>>) = 0 /\ DOMAIN <<>> = {} /\ Len(asked[c]) \in Nat
  BY <1>a, PendingType DEF Drop, WireOK
<1>6. Pending(c)' = Len(Q) /\ Pending(c) = Len(asked[c]) + Len(R)
  BY <1>1, <1>3, <1>4, <1>5 DEF Pending
<1>7. ASSUME OnlyLate(c) PROVE OnlyLate(c)'
  <2>1. \A k \in DOMAIN Q : Q[k].line \in {OK, ERROR}
    BY <1>1, <1>4, <1>7 DEF OnlyLate
  <2>2. Pending(c)' <= Len(givenUp') + 1 /\ ((\A w \in Workers : ~Waiting(w, c)') => Pending(c)' <= Len(givenUp'))
    BY <1>a, <1>2, <1>4, <1>5, <1>6, <1>7 DEF OnlyLate, Waiting
  <2> QED  BY <1>3, <1>5, <2>1, <2>2 DEF OnlyLate
<1>8. ASSUME Tells(c) PROVE Tells(c)'
  <2>1. PICK a \in 0 .. Len(givenUp) : TellsAfter(c, a)
    BY <1>8 DEF Tells
  <2>2. HasRead(a)'
    BY <1>a, <2>1 DEF TellsAfter, HasRead
  <2>3. WillRead(c, a)'
    <3>1. \A k \in DOMAIN Q : IF g + k <= a THEN Q[k].line \in {OK, ERROR} ELSE Q[k].line = g + k - a
      BY <1>1, <1>4, <2>1 DEF TellsAfter, WillRead
    <3> QED  BY <1>a, <1>1, <1>3, <3>1 DEF WillRead
  <2>4. WillAnswer(c, a)'
    BY <1>5 DEF WillAnswer
  <2>5. Len(got') + Len(replies'[c]) <= a + NumParameters + 1
    BY <1>a, <1>1, <1>2, <1>3, <1>4, <2>1, Numbers DEF TellsAfter
  <2> QED  BY <1>a, <2>1, <2>2, <2>3, <2>4, <2>5 DEF Tells, TellsAfter
<1> QED  BY <1>7, <1>8

LEMMA PcrSteps ==
  ASSUME ChannelInv, StoredRight, Patience, NEW d \in Conns, Answer(d) \/ Drop(d)
  PROVE  StoredRight'
<1>a. WireOK /\ StatusOK /\ UNCHANGED <<sockfd, pc, watched, got>> /\ UNCHANGED statusVars
  BY TypeParts DEF ChannelInv, TypeInv, Answer, Drop, sockVars, workerVars, statusVars
<1>1. ASSUME NEW c \in Conns, c # d
      PROVE  (OnlyLate(c) => OnlyLate(c)') /\ (Tells(c) => Tells(c)') /\ (Calm(c) => Calm(c)')
  <2>1. asked'[c] = asked[c] /\ replies'[c] = replies[c]
    BY <1>a, <1>1 DEF Answer, Drop, WireOK
  <2>2. \A w \in Workers : Waiting(w, c) => Waiting(w, c)'
    BY <1>a DEF Waiting
  <2>3. OnlyLate(c) => OnlyLate(c)'
    BY <1>a, <2>1, <2>2, LateStays
  <2>4. Tells(c) => Tells(c)'
    BY <1>a, <2>1, TellsStays
  <2> QED  BY <2>1, <2>3, <2>4 DEF Calm
<1>2. (OnlyLate(d) => OnlyLate(d)') /\ (Tells(d) => Tells(d)') /\ (Calm(d) => Calm(d)')
  <2>1. CASE Answer(d)
    <3>1. ~Calm(d)
      BY <2>1 DEF Answer, Calm
    <3> QED  BY <2>1, <3>1, AnswerKeepsLate, AnswerKeepsTelling
  <2>2. CASE Drop(d)
    <3>1. Calm(d) => Calm(d)'
      <4> SUFFICES ASSUME replies[d] = <<>> PROVE asked'[d] = <<>> /\ replies'[d] = <<>>
        BY DEF Calm
      <4>1. \A k \in 0 .. Len(<<>>) : SubSeq(<<>>, 1, k) = <<>>
        OBVIOUS
      <4> QED  BY <1>a, <2>2, <4>1 DEF Drop, WireOK
    <3> QED  BY <2>2, <3>1, DropKeeps
  <2> QED  BY <2>1, <2>2
<1>3. \A c \in Conns : (OnlyLate(c) => OnlyLate(c)') /\ (Tells(c) => Tells(c)') /\ (Calm(c) => Calm(c)')
  BY <1>1, <1>2
<1> QED  BY <1>a, <1>3, Beside

\* Steps of the loop of the status that read no line and use none.
LEMMA LoopSteps ==
  ASSUME ChannelInv, StoredRight, Patience,
         \/ Opening(Status) \/ StatusCheck \/ StatusClose \/ StatusSendFails \/ StatusReadFails
         \/ Lock(Status)
  PROVE  StoredRight'
<1>a. /\ PcOK /\ SockOK /\ WireOK /\ WorkerOK /\ StatusOK /\ Wires /\ Status \in Threads
      /\ -1 \notin Conns /\ 0 \notin Conns /\ \A w \in Workers : w # Status /\ w \in Threads
  BY TypeParts, Numbers DEF ChannelInv, TypeInv, Threads
<1>b. \A from, to : Go(Status, from, to) =>
        pc[Status] = from /\ pc'[Status] = to /\ \A w \in Workers : pc'[w] = pc[w]
  BY <1>a DEF Go, PcOK
<1>c. ASSUME UNCHANGED <<positions, stored>>, pc'[Status] \notin {"read", "apply"},
             pc'[Status] \in {"check", "opening", "lock", "send"} /\ Matters' =>
               \A c \in Conns : sockfd' = c => OnlyLate(c)'
      PROVE  StoredRight'
  <2>1. ListRight'
    BY <1>c, ListLasts DEF StoredRight
  <2> QED  BY <1>c, <2>1 DEF StoredRight, ReadingRight, ApplyingRight, BetweenRight
<1>d. ASSUME UNCHANGED <<positions, stored>>, pc'[Status] \in {"open", "close"} PROVE StoredRight'
  BY <1>c, <1>d
<1>e. ASSUME UNCHANGED <<positions, stored>>, pc'[Status] \in {"check", "opening"}, sockfd' \notin Conns PROVE StoredRight'
  BY <1>c, <1>e
<1>f. ASSUME UNCHANGED <<sockfd, wireVars, workerVars, positions, stored>>, Matters' => Matters,
             NEW from \in {"check", "opening", "lock", "send"}, NEW to \in {"check", "opening", "lock", "send"},
             Go(Status, from, to)
      PROVE  StoredRight'
  <2> SUFFICES ASSUME Matters, NEW c \in Conns, sockfd' = c PROVE OnlyLate(c)'
    BY <1>b, <1>c, <1>f
  <2>1. OnlyLate(c)
    BY <1>b, <1>f DEF StoredRight, BetweenRight
  <2>2. asked'[c] = asked[c] /\ replies'[c] = replies[c]
    BY <1>f DEF wireVars
  <2>3. \A w \in Workers : Waiting(w, c) => Waiting(w, c)'
    BY <1>b, <1>f DEF Waiting, workerVars
  <2> QED  BY <1>a, <2>1, <2>2, <2>3, LateStays
<1>1. CASE OpenBegin(Status)
  <2>1. CASE Go(Status, "open", "close")
    BY <1>1, <1>b, <1>d, <2>1 DEF OpenBegin, statusVars
  <2>2. CASE Go(Status, "open", "opening")
    <3>1. Go(Status, "open", "opening") /\ sockfd' \notin Conns
      BY <1>1, <1>a, <1>b, <2>2 DEF OpenBegin, AfterFailure, SockOK, Conns
    <3> QED  BY <1>1, <1>b, <1>e, <3>1 DEF OpenBegin, statusVars
  <2> QED  BY <1>1, <2>1, <2>2 DEF OpenBegin, AfterFailure
<1>2. CASE OpenEnd(Status)
  <2>1. UNCHANGED <<positions, stored, wireVars>>
    BY <1>2 DEF OpenEnd, statusVars
  <2>2. CASE Go(Status, "opening", "close")
    BY <1>b, <1>d, <2>1, <2>2
  <2>3. CASE Go(Status, "opening", "check") /\ made' = made + 1 /\ sockfd' = made'
    <3>1. \A c \in Conns : sockfd' = c => asked[c] = <<>> /\ replies[c] = <<>>
      BY <1>a, <2>3 DEF Wires, SockOK
    <3>2. ASSUME NEW c \in Conns, sockfd' = c PROVE OnlyLate(c)'
      <4>1. asked'[c] = <<>> /\ replies'[c] = <<>> /\ Len(<<>>) = 0 /\ DOMAIN <<>> = {}
        BY <2>1, <3>1, <3>2 DEF wireVars
      <4>2. Pending(c)' = 0
        BY <4>1 DEF Pending
      <4> QED  BY <4>1, <4>2 DEF OnlyLate, Patience
    <3> QED  BY <1>b, <1>c, <2>1, <2>3, <3>2
  <2> QED  BY <1>2, <2>2, <2>3 DEF OpenEnd, AfterFailure, AfterOpening
<1>3. CASE StatusCheck
  <2>1. UNCHANGED <<sockVars, wireVars, workerVars, positions, stored>>
    BY <1>3 DEF StatusCheck
  <2>2. CASE connected
    <3>1. Go(Status, "check", "lock") /\ (Matters' => Matters)
      BY <1>3, <2>1, <2>2 DEF StatusCheck, Matters, AllErrors
    <3>2. "check" \in {"check", "opening", "lock", "send"} /\ "lock" \in {"check", "opening", "lock", "send"}
      OBVIOUS
    <3>3. UNCHANGED sockfd
      BY <2>1 DEF sockVars
    <3> QED  BY <1>f, <2>1, <3>1, <3>2, <3>3
  <2>3. CASE ~connected
    BY <1>3, <1>b, <1>d, <2>1, <2>3 DEF StatusCheck
  <2> QED  BY <2>2, <2>3
<1>4. CASE StatusClose
  BY <1>4, <1>a, <1>b, <1>e DEF StatusClose, SocketClose, statusVars
<1>5. CASE StatusSendFails \/ StatusReadFails
  BY <1>5, <1>b, <1>d DEF StatusSendFails, StatusReadFails, statusVars
<1>6. CASE Lock(Status)
  <2>1. UNCHANGED <<sockfd, wireVars, workerVars, positions, stored, initList>> /\ Go(Status, "lock", "send")
    BY <1>6 DEF Lock, sockVars, statusVars
  <2>2. Matters' => Matters
    BY <2>1 DEF Matters, AllErrors
  <2>3. "lock" \in {"check", "opening", "lock", "send"} /\ "send" \in {"check", "opening", "lock", "send"}
    OBVIOUS
  <2> QED  BY <1>f, <2>1, <2>2, <2>3
<1> QED  BY <1>1, <1>2, <1>3, <1>4, <1>5, <1>6 DEF Opening

\* The status is asked for on a connection that carries late replies only.
LEMMA SendStep ==
  ASSUME ChannelInv, StoredRight, Patience, StatusSend
  PROVE  StoredRight'
<1>a. /\ PcOK /\ SockOK /\ WireOK /\ WorkerOK /\ StatusOK /\ Wires /\ Status \in Threads /\ OneExchange
      /\ 0 \notin Conns
  BY TypeParts, Numbers DEF ChannelInv, TypeInv, Threads
<1>b. /\ pc[Status] = "send" /\ pc'[Status] = "read" /\ owner = Status /\ got' = <<>>
      /\ UNCHANGED <<sockfd, replies, givenUp, initList, positions, stored>>
  BY <1>a, OwnerAlone DEF StatusSend, Go, PcOK, Exchange, workerVars
<1>1. ListRight'
  BY <1>b, ListLasts DEF StoredRight
<1>2. \A k \in DOMAIN got' : ~EndOfData(got'[k])
  BY <1>b
<1>3. ASSUME Matters, NEW c \in Conns, sockfd = c PROVE Calm(c)' \/ Tells(c)'
  <2>1. OnlyLate(c) /\ \A w \in Workers : ~Waiting(w, c)
    BY <1>a, <1>b, <1>3, OwnerAlone DEF StoredRight, BetweenRight
  <2>2. Pending(c) <= Len(givenUp) /\ Pending(c) \in Nat
    BY <1>a, <2>1, PendingType DEF OnlyLate
  <2>3. PICK a : a = Pending(c)
    OBVIOUS
  <2>4. a \in 0 .. Len(givenUp') /\ a \in Nat
    BY <1>b, <2>2, <2>3 DEF Patience
  <2>5. PICK A, R : A = asked[c] /\ R = replies[c]
    OBVIOUS
  <2>6. A \in Seq(Requested) /\ R \in Seq(Reply) /\ DOMAIN R = 1 .. Len(R) /\ Len(R) \in Nat /\ Len(A) \in Nat
    BY <1>a, <2>5, LenProperties DEF WireOK
  <2>7. a = Len(A) + Len(R)
    BY <2>3, <2>5 DEF Pending
  <2>8. \A k \in DOMAIN R : k <= a /\ R[k].line \in {OK, ERROR}
    <3>1. \A k \in DOMAIN R : R[k].line \in {OK, ERROR}
      BY <2>1, <2>5 DEF OnlyLate
    <3>2. \A k \in DOMAIN R : k <= a
      BY <2>6, <2>7
    <3> QED  BY <3>1, <3>2
  <2>9. Len(got') = 0 /\ DOMAIN got' = {} /\ replies'[c] = R
    BY <1>b, <2>5
  <2>10. HasRead(a)' /\ WillRead(c, a)'
    BY <2>6, <2>8, <2>9 DEF HasRead, WillRead
  <2>11. Len(got') + Len(replies'[c]) <= a + NumParameters + 1
    BY <2>6, <2>7, <2>9, Numbers
  <2>12. WillAnswer(c, a)'
    <3>1. CASE asked' = [asked EXCEPT ![c] = Append(@, Status)]
      <4>1. asked'[c] = Append(A, Status)
        BY <1>a, <2>5, <3>1 DEF WireOK
      <4>2. Status \in Requested
        BY DEF Requested
      <4>3. /\ Len(Append(A, Status)) = Len(A) + 1
            /\ \A k \in DOMAIN Append(A, Status) :
                 (k \in DOMAIN A /\ k # Len(A) + 1 /\ Append(A, Status)[k] = A[k]) \/ (k = Len(A) + 1 /\ Append(A, Status)[k] = Status)
        BY <2>6, <4>2
      <4>4. \A k \in DOMAIN Append(A, Status) : Append(A, Status)[k] = Status <=> k = Len(Append(A, Status))
        BY <2>1, <2>5, <4>3 DEF OnlyLate
      <4>5. Len(got') + Pending(c)' = a + 1
        <5>1. Len(asked'[c]) = Len(asked[c]) + 1 /\ Len(replies'[c]) = Len(replies[c]) + 0 /\ 0 \in Int /\ 1 \in Int
          BY <2>5, <2>6, <2>9, <4>1, <4>3
        <5>2. Pending(c)' = Pending(c) + 1 + 0
          BY <1>a, <5>1, PendingMoves
        <5> QED  BY <2>3, <2>4, <2>9, <5>2
      <4> QED  BY <4>1, <4>4, <4>5 DEF WillAnswer
    <3>2. CASE link[c] = "closed" /\ UNCHANGED asked
      BY <1>a, <3>2 DEF Wires, WillAnswer
    <3> QED  BY <1>a, <1>3, <3>1, <3>2 DEF StatusSend, Written
  <2> QED  BY <2>4, <2>10, <2>11, <2>12 DEF Tells, TellsAfter
<1>4. ReadingRight'
  <2>1. Matters' = Matters
    BY <1>b DEF Matters, AllErrors
  <2> QED  BY <1>b, <1>2, <1>3, <2>1 DEF ReadingRight
<1> QED  BY <1>1, <1>4, <1>b DEF StoredRight, ApplyingRight, BetweenRight

\* What is used of the lines read is what came before the last one.
LEMMA BeforeTheLast ==
  ASSUME NEW S, NEW s \in Seq(S), NEW x \in S
  PROVE  SubSeq(Append(s, x), 1, Len(Append(s, x)) - 1) = s
<1>1. /\ Len(Append(s, x)) = Len(s) + 1 /\ Append(s, x) \in Seq(S) /\ Len(s) \in Nat
      /\ \A k \in 1 .. Len(s) : Append(s, x)[k] = s[k]
  BY AppendProperties, LenProperties
<1>2. PICK t, n : t = Append(s, x) /\ n = Len(s)
  OBVIOUS
<1>3. t \in Seq(S) /\ n \in Nat /\ Len(t) = n + 1 /\ \A k \in 1 .. n : t[k] = s[k]
  BY <1>1, <1>2
<1>4. SubSeq(t, 1, n) \in Seq(S) /\ Len(SubSeq(t, 1, n)) = n /\ \A k \in 1 .. n : SubSeq(t, 1, n)[k] = t[k]
  <2>1. \A k \in 1 .. n : t[k] \in S
    BY <1>3
  <2> QED  BY <1>3, <2>1, SubSeqProperties
<1>5. SubSeq(t, 1, n) = s
  BY <1>2, <1>3, <1>4, SeqEqual
<1>6. Len(t) - 1 = n
  BY <1>3
<1> QED  BY <1>2, <1>5, <1>6

\* The status is read line by line: late replies, then the parameters, then "EOF".
LEMMA ReadStep ==
  ASSUME ChannelInv, StoredRight, Patience, Len(givenUp) <= NumParameters, StatusReadLine
  PROVE  StoredRight'
<1>a. PcOK /\ SockOK /\ WireOK /\ WorkerOK /\ StatusOK /\ Status \in Threads /\ NumParameters \in Nat
  BY TypeParts, Numbers DEF ChannelInv, TypeInv, Threads
<1>1. PICK s \in Conns : s = sockfd
  BY DEF StatusReadLine, LineReady
<1>2. PICK R, G, A : R = replies[s] /\ G = got /\ A = asked[s]
  OBVIOUS
<1>3. R \in Seq(Reply) /\ R # <<>> /\ G \in Seq(Lines) /\ A \in Seq(Requested)
  BY <1>a, <1>1, <1>2 DEF StatusReadLine, LineReady, WireOK, StatusOK
<1>4. /\ Len(R) \in Nat \ {0} /\ Len(Tail(R)) = Len(R) - 1 /\ Head(R) = R[1] /\ 1 \in DOMAIN R
      /\ \A k \in DOMAIN Tail(R) : k \in Nat /\ k + 1 \in DOMAIN R /\ Tail(R)[k] = R[k + 1]
  BY <1>3, HeadAndTail
<1>5. PICK line : line = Head(R).line
  OBVIOUS
<1>6. line \in Lines /\ TakeStatusLine(line)
  <2>1. Head(R) \in Reply
    BY <1>3, TailType
  <2>2. line \in Lines
    BY <1>5, <2>1 DEF Reply
  <2> QED  BY <1>1, <1>2, <1>5, <2>2 DEF StatusReadLine
<1>7. /\ pc[Status] = "read" /\ sockfd' = s /\ asked'[s] = A /\ replies'[s] = Tail(R)
      /\ UNCHANGED <<givenUp, initList, positions, stored>>
      /\ pc'[Status] = IF EndOfData(line) THEN "apply" ELSE "read"
  BY <1>a, <1>1, <1>2, <1>6
  DEF StatusReadLine, TakeStatusLine, TakeLine, Go, PcOK, WireOK, sockVars, workerVars
<1>8. (\A k \in DOMAIN G : ~EndOfData(G[k])) /\ (Matters => Tells(s))
  BY <1>1, <1>2, <1>3, <1>7 DEF StoredRight, ReadingRight, Calm
<1>9. ListRight' /\ Matters' = Matters
  BY <1>7, ListLasts DEF StoredRight, Matters, AllErrors
<1>10. PICK g : g = Len(G)
  OBVIOUS
<1>11. g \in Nat /\ DOMAIN G = 1 .. g
  BY <1>3, <1>10, LenProperties
<1>12. /\ Append(G, line) \in Seq(Lines) /\ Len(Append(G, line)) = g + 1 /\ DOMAIN Append(G, line) = 1 .. g + 1
       /\ \A k \in 1 .. g : Append(G, line)[k] = G[k]
       /\ Append(G, line)[g + 1] = line
  BY <1>3, <1>6, <1>10, <1>11
<1>13. ASSUME ~EndOfData(line) PROVE \A k \in DOMAIN got' : ~EndOfData(got'[k])
  <2>1. got' = G \/ got' = Append(G, line)
    BY <1>2, <1>6 DEF TakeStatusLine
  <2>2. \A k \in DOMAIN Append(G, line) : k \in 1 .. g \/ k = g + 1
    BY <1>11, <1>12
  <2> QED  BY <1>8, <1>11, <1>12, <1>13, <2>1, <2>2
<1>14. CASE ~Matters
  <2>1. ReadingRight'
    <3> SUFFICES ASSUME ~EndOfData(line) PROVE \A k \in DOMAIN got' : ~EndOfData(got'[k])
      BY <1>7, <1>9, <1>14 DEF ReadingRight
    <3> QED  BY <1>13
  <2> QED  BY <1>9, <1>14, <2>1 DEF StoredRight, ApplyingRight, BetweenRight
<1>15. CASE Matters
  <2>1. PICK a \in 0 .. Len(givenUp) : TellsAfter(s, a)
    BY <1>8, <1>15 DEF Tells
  <2>2. a \in Nat /\ a <= NumParameters /\ a \in 0 .. Len(givenUp')
    <3>1. PICK n \in Nat : n = Len(givenUp)
      BY DEF Patience
    <3>2. a \in 0 .. n /\ n <= NumParameters /\ Len(givenUp') = n
      BY <1>7, <2>1, <3>1
    <3> QED  BY <1>a, <3>2
  <2>3. /\ \A k \in 1 .. g : G[k] = IF k <= a THEN ERROR ELSE k - a
        /\ \A k \in DOMAIN R : IF g + k <= a THEN R[k].line \in {OK, ERROR} ELSE R[k].line = g + k - a
        /\ g + Len(R) <= a + NumParameters + 1
    BY <1>2, <1>10, <1>11, <2>1 DEF TellsAfter, HasRead, WillRead
  <2>4. A # <<>> => /\ Len(got) + Pending(s) = a + 1
                    /\ \A k \in DOMAIN A : A[k] = Status <=> k = Len(A)
    BY <1>2, <2>1 DEF TellsAfter, WillAnswer
  <2>5. got' = Append(G, line)
    <3>1. ~(g >= MaxLines)
      BY <1>a, <1>4, <1>11, <2>2, <2>3 DEF MaxLines
    <3> QED  BY <1>2, <1>6, <1>10, <3>1 DEF TakeStatusLine
  <2>6. IF g + 1 <= a THEN line \in {OK, ERROR} ELSE line = g + 1 - a
    BY <1>4, <1>5, <2>3
  <2>7. LinesBefore' = G
    <3>1. SubSeq(Append(G, line), 1, Len(Append(G, line)) - 1) = G
      BY <1>3, <1>6, BeforeTheLast
    <3> QED  BY <2>5, <3>1 DEF LinesBefore
  <2>8. CASE ~EndOfData(line)
    <3>1. line = IF g + 1 <= a THEN ERROR ELSE g + 1 - a
      BY <2>6, <2>8 DEF EndOfData
    <3>2. HasRead(a)'
      <4>1. \A k \in DOMAIN Append(G, line) : Append(G, line)[k] = IF k <= a THEN ERROR ELSE k - a
        <5> TAKE k \in DOMAIN Append(G, line)
        <5>1. CASE k \in 1 .. g
          <6>1. Append(G, line)[k] = G[k]
            BY <1>12, <5>1
          <6> QED  BY <2>3, <5>1, <6>1
        <5>2. CASE k = g + 1
          <6>1. Append(G, line)[k] = line
            BY <1>12, <5>2
          <6>2. (k <= a <=> g + 1 <= a) /\ k - a = g + 1 - a
            BY <1>11, <2>2, <5>2
          <6> QED  BY <3>1, <6>1, <6>2
        <5>3. k \in 1 .. g \/ k = g + 1
          BY <1>11, <1>12
        <5> QED  BY <5>1, <5>2, <5>3
      <4> QED  BY <2>5, <4>1 DEF HasRead
    <3>3. WillRead(s, a)'
      <4>1. \A k \in DOMAIN Tail(R) : IF g + 1 + k <= a THEN Tail(R)[k].line \in {OK, ERROR}
                                                        ELSE Tail(R)[k].line = g + 1 + k - a
        <5> TAKE k \in DOMAIN Tail(R)
        <5>1. PICK j : j = k + 1
          OBVIOUS
        <5>2. j \in DOMAIN R /\ Tail(R)[k] = R[j] /\ k \in Nat /\ j \in Nat
          BY <1>4, <5>1
        <5>3. g + j = g + 1 + k
          BY <1>11, <5>1, <5>2
        <5>4. IF g + j <= a THEN R[j].line \in {OK, ERROR} ELSE R[j].line = g + j - a
          BY <2>3, <5>2
        <5>5. R[j].line = Tail(R)[k].line
          BY <5>2
        <5>6. IF g + 1 + k <= a THEN R[j].line \in {OK, ERROR} ELSE R[j].line = g + 1 + k - a
          <6>1. g + j <= a <=> g + 1 + k <= a
            BY <5>3
          <6>2. g + j - a = g + 1 + k - a
            BY <1>11, <2>2, <5>1, <5>2
          <6> QED  BY <5>4, <6>1, <6>2
        <5> QED  BY <5>5, <5>6
      <4> QED  BY <1>7, <1>12, <2>5, <4>1 DEF WillRead
    <3>4. WillAnswer(s, a)'
      <4> SUFFICES ASSUME A # <<>> PROVE Len(got') + Pending(s)' = a + 1
        BY <1>7, <2>4 DEF WillAnswer
      <4>1. Len(asked'[s]) = Len(asked[s]) + 0 /\ Len(replies'[s]) = Len(replies[s]) + (-1) /\ 0 \in Int /\ -1 \in Int
        BY <1>a, <1>2, <1>4, <1>7, PendingType
      <4>2. Pending(s)' = Pending(s) + 0 + (-1)
        BY <1>a, <4>1, PendingMoves
      <4>3. Pending(s) \in Nat
        BY <1>a, PendingType
      <4> QED  BY <1>2, <1>10, <1>11, <1>12, <2>2, <2>4, <2>5, <4>2, <4>3
    <3>5. Len(got') + Len(replies'[s]) <= a + NumParameters + 1
      BY <1>a, <1>4, <1>7, <1>11, <1>12, <2>2, <2>3, <2>5
    <3>6. Tells(s)'
      BY <2>2, <3>2, <3>3, <3>4, <3>5 DEF Tells, TellsAfter
    <3>7. ReadingRight'
      BY <1>7, <1>13, <2>8, <3>6 DEF ReadingRight
    <3> QED  BY <1>7, <1>9, <2>8, <3>7 DEF StoredRight, ApplyingRight, BetweenRight
  <2>9. ASSUME EndOfData(line), FewLines(G)' \/ (Proper(G)' /\ OnlyLate(s)') PROVE StoredRight'
    <3>1. FewLines(LinesBefore)' \/ (Proper(LinesBefore)' /\ OnlyLate(s)')
      BY <2>7, <2>9 DEF FewLines, Proper, AllErrors
    <3>2. ApplyingRight'
      BY <1>7, <3>1 DEF ApplyingRight
    <3> QED  BY <1>7, <1>9, <2>9, <3>2 DEF StoredRight, ReadingRight, BetweenRight
  <2>10. CASE EndOfData(line) /\ g + 1 <= a
    <3>1. AllErrors(G)
      BY <1>11, <2>2, <2>3, <2>10 DEF AllErrors
    <3>2. Len(G) < Len(givenUp')
      BY <1>10, <1>11, <2>2, <2>10 DEF Patience
    <3>3. FewLines(G)'
      BY <3>1, <3>2 DEF FewLines, AllErrors
    <3> QED  BY <2>9, <2>10, <3>3
  <2>11. CASE EndOfData(line) /\ ~(g + 1 <= a)
    <3>1. line = g + 1 - a /\ line >= 1
      BY <1>11, <2>2, <2>6, <2>11
    <3>2. line = NumParameters + 1
      BY <1>a, <2>11, <3>1 DEF EndOfData, OK, EOF
    <3>3. g = a + NumParameters /\ Len(R) = 1
      BY <1>a, <1>4, <1>11, <2>2, <2>3, <3>1, <3>2
    <3>4. InOrder(G, a)
      BY <1>10, <1>11, <2>3, <3>3 DEF InOrder
    <3>5. Proper(G)'
      <4>1. InOrder(G, a)'
        BY <3>4 DEF InOrder
      <4> QED  BY <2>2, <4>1 DEF Proper
    <3>6. Tail(R) = <<>>
      BY <1>3, <3>3, LastOne
    <3>7. A = <<>>
      <4> SUFFICES ASSUME A # <<>> PROVE FALSE
        OBVIOUS
      <4>1. PICK m \in Nat : m = Len(A) /\ m # 0
        BY <1>3, LenProperties, EmptySeq
      <4>2. Pending(s) = m + 1
        BY <1>2, <3>3, <4>1 DEF Pending
      <4>3. g + (m + 1) = a + 1
        BY <1>2, <1>10, <2>4, <4>2
      <4> QED  BY <1>a, <2>2, <3>3, <4>1, <4>3
    <3>8. OnlyLate(s)'
      <4>1. asked'[s] = <<>> /\ replies'[s] = <<>> /\ Len(<<>>) = 0 /\ DOMAIN <<>> = {}
        BY <1>7, <3>6, <3>7
      <4>2. Pending(s)' = 0
        BY <4>1 DEF Pending
      <4> QED  BY <4>1, <4>2 DEF OnlyLate, Patience
    <3> QED  BY <2>9, <2>11, <3>5, <3>8
  <2> QED  BY <2>8, <2>10, <2>11
<1> QED  BY <1>14, <1>15

\* At the end of the data the line read last is taken again, and it is not the end of
\* the status; or there was none, and any line ends a status of no lines.
LEMMA NothingStep ==
  ASSUME ChannelInv, StoredRight, Patience, StatusReadNothing
  PROVE  StoredRight'
<1>a. /\ PcOK /\ SockOK /\ WireOK /\ WorkerOK /\ StatusOK /\ Wires /\ Status \in Threads /\ NumParameters \in Nat
  BY TypeParts, Numbers DEF ChannelInv, TypeInv, Threads
<1>1. PICK line \in IF got = <<>> THEN Lines ELSE {got[Len(got)]} : TakeStatusLine(line)
  BY DEF StatusReadNothing
<1>2. /\ pc[Status] = "read" /\ UNCHANGED <<sockVars, wireVars, givenUp, initList, positions, stored>>
      /\ pc'[Status] = IF EndOfData(line) THEN "apply" ELSE "read"
      /\ got' = IF Len(got) >= MaxLines THEN got ELSE Append(got, line)
  BY <1>a, <1>1 DEF StatusReadNothing, TakeStatusLine, Go, PcOK, workerVars
<1>3. ListRight' /\ Matters' = Matters
  BY <1>2, ListLasts DEF StoredRight, Matters, AllErrors
<1>4. \A c \in Conns : sockfd' = c => Calm(c)'
  <2>1. \A c \in Conns : sockfd = c => asked[c] = <<>> /\ replies[c] = <<>>
    BY <1>a DEF StatusReadNothing, AtEnd, Wires
  <2> QED  BY <1>2, <2>1 DEF Calm, sockVars, wireVars
<1>5. \A k \in DOMAIN got : ~EndOfData(got[k])
  BY <1>2 DEF StoredRight, ReadingRight
<1>6. PICK G : G = got
  OBVIOUS
<1>7. G \in Seq(Lines) /\ Len(G) \in Nat /\ DOMAIN G = 1 .. Len(G)
  BY <1>a, <1>6, LenProperties DEF StatusOK
<1>8. line \in Lines
  <2>1. CASE G = <<>>
    BY <1>1, <1>6, <2>1
  <2>2. CASE G # <<>>
    <3>1. Len(G) \in 1 .. Len(G)
      BY <1>7, <2>2, EmptySeq
    <3> QED  BY <1>1, <1>6, <1>7, <2>2, <3>1, ElementOfSeq
  <2> QED  BY <2>1, <2>2
<1>9. CASE ~EndOfData(line)
  <2>1. /\ DOMAIN Append(G, line) = 1 .. Len(G) + 1
        /\ \A k \in 1 .. Len(G) : Append(G, line)[k] = G[k]
        /\ Append(G, line)[Len(G) + 1] = line
    BY <1>7, <1>8
  <2>2. \A k \in DOMAIN Append(G, line) : k \in DOMAIN G \/ k = Len(G) + 1
    BY <1>7, <2>1
  <2>3. \A k \in DOMAIN Append(G, line) : ~EndOfData(Append(G, line)[k])
    BY <1>5, <1>6, <1>7, <1>9, <2>1, <2>2
  <2>4. \A k \in DOMAIN got' : ~EndOfData(got'[k])
    BY <1>2, <1>5, <1>6, <2>3
  <2>5. ReadingRight'
    BY <1>2, <1>4, <2>4 DEF ReadingRight
  <2> QED  BY <1>2, <1>3, <1>9, <2>5 DEF StoredRight, ApplyingRight, BetweenRight
<1>10. CASE EndOfData(line)
  <2>1. G = <<>>
    <3> SUFFICES ASSUME G # <<>> PROVE FALSE
      OBVIOUS
    <3>1. Len(G) \in DOMAIN G
      BY <1>7, EmptySeq
    <3>2. line = G[Len(G)]
      BY <1>1, <1>6
    <3> QED  BY <1>5, <1>6, <1>10, <3>1, <3>2
  <2>2. ~(Len(G) >= MaxLines)
    BY <1>a, <2>1 DEF MaxLines
  <2>3. LinesBefore' = <<>>
    <3>1. SubSeq(Append(G, line), 1, Len(Append(G, line)) - 1) = G
      BY <1>7, <1>8, BeforeTheLast
    <3> QED  BY <1>2, <1>6, <2>1, <2>2, <3>1 DEF LinesBefore
  <2>4. FewLines(LinesBefore)'
    BY <2>3 DEF FewLines, AllErrors
  <2> QED  BY <1>2, <1>3, <1>10, <2>4 DEF StoredRight, ReadingRight, ApplyingRight, BetweenRight
<1> QED  BY <1>9, <1>10

\* The first reply makes the list, and later ones are stored by it only when they are
\* as long, that is, when as many late replies came before the parameters.
LEMMA ApplyStep ==
  ASSUME ChannelInv, StoredRight, Patience, Len(givenUp) <= NumParameters, StatusInit \/ StatusUpdate
  PROVE  StoredRight'
<1>a. PcOK /\ WireOK /\ WorkerOK /\ StatusOK /\ Status \in Threads /\ NumParameters \in Nat
  BY TypeParts, Numbers DEF ChannelInv, TypeInv, Threads
<1>1. pc[Status] = "apply" /\ UNCHANGED <<sockfd, wireVars, givenUp, watched, got>> /\ \A w \in Workers : pc'[w] = pc[w]
  BY <1>a, Numbers DEF StatusInit, StatusUpdate, Go, PcOK, Threads, sockVars, workerVars
<1>2. PICK L, P : L = LinesBefore /\ P = positions
  OBVIOUS
<1>3. L \in Seq(Lines) /\ P \in Seq(Lines)
  <2>1. got \in Seq(Lines) /\ Len(got) \in Nat
    BY <1>a, LenProperties DEF StatusOK
  <2> QED  BY <1>a, <1>2, <2>1, PrefixType DEF LinesBefore, StatusOK
<1>4. Matters => FewLines(L) \/ (Proper(L) /\ \A c \in Conns : sockfd = c => OnlyLate(c))
  <2>1. FewLines(LinesBefore) = FewLines(L) /\ Proper(LinesBefore) = Proper(L)
    BY <1>2 DEF FewLines, AllErrors, Proper
  <2> QED  BY <1>1, <2>1 DEF StoredRight, ApplyingRight
<1>5. Proper(L) => Proper(L)'
  BY ProperLasts DEF Patience
<1>6. ASSUME \A c \in Conns : sockfd = c => OnlyLate(c) PROVE \A c \in Conns : sockfd' = c => OnlyLate(c)'
  <2> SUFFICES ASSUME NEW c \in Conns, sockfd = c PROVE OnlyLate(c)'
    BY <1>1
  <2>1. asked'[c] = asked[c] /\ replies'[c] = replies[c]
    BY <1>1 DEF wireVars
  <2>2. \A w \in Workers : Waiting(w, c) => Waiting(w, c)'
    BY <1>1 DEF Waiting
  <2> QED  BY <1>a, <1>6, <2>1, <2>2, LateStays
<1>7. CASE StatusInit
  <2>1. Matters /\ pc'[Status] = "lock" /\ initList' = FALSE /\ positions' = L /\ stored'.lines = L
    BY <1>7, <1>a, <1>2 DEF StatusInit, Go, PcOK, Matters
  <2>2. ListRight'
    <3>1. AllErrors(L) \/ Proper(L)'
      BY <1>4, <1>5, <2>1 DEF FewLines
    <3> QED  BY <2>1, <3>1 DEF ListRight, AllErrors, Proper
  <2>3. BetweenRight'
    <3>1. CASE FewLines(L)
      <4>1. ~Matters'
        BY <2>1, <3>1 DEF FewLines, Matters, AllErrors
      <4> QED  BY <4>1 DEF BetweenRight
    <3>2. CASE \A c \in Conns : sockfd = c => OnlyLate(c)
      BY <1>6, <3>2 DEF BetweenRight
    <3> QED  BY <1>4, <2>1, <3>1, <3>2
  <2> QED  BY <2>1, <2>2, <2>3 DEF StoredRight, ReadingRight, ApplyingRight
<1>8. CASE StatusUpdate
  <2>1. ~initList /\ UNCHANGED <<initList, positions>> /\ Matters' = Matters
    BY <1>8 DEF StatusUpdate, Matters, AllErrors
  <2>2. CASE pc'[Status] = "close" /\ UNCHANGED stored
    <3>1. ListRight'
      BY <2>1, <2>2, ListLasts DEF StoredRight
    <3> QED  BY <2>2, <3>1 DEF StoredRight, ReadingRight, ApplyingRight, BetweenRight
  <2>3. CASE Len(L) = Len(P) /\ pc'[Status] = "check" /\ stored'.lines = L
    <3>1. CASE AllErrors(P)
      <4>1. ~Matters' /\ ListRight'
        BY <1>2, <2>1, <3>1 DEF Matters, AllErrors, ListRight
      <4> QED  BY <2>3, <4>1 DEF StoredRight, ReadingRight, ApplyingRight, BetweenRight
    <3>2. CASE ~AllErrors(P)
      <4>1. Matters /\ Proper(P)
        <5>1. AllErrors(positions) = AllErrors(P) /\ Proper(positions) = Proper(P)
          BY <1>2 DEF AllErrors, Proper
        <5> QED  BY <3>2, <5>1 DEF StoredRight, ListRight, Matters
      <4>2. PICK n \in Nat : n = Len(givenUp) /\ n <= NumParameters
        BY DEF Patience
      <4>3. PICK a \in 0 .. n : InOrder(P, a)
        BY <4>1, <4>2 DEF Proper
      <4>4. Len(P) = a + NumParameters /\ \A k \in DOMAIN P : P[k] = IF k <= a THEN ERROR ELSE k - a
        BY <4>3 DEF InOrder
      <4>5. ~FewLines(L)
        <5> SUFFICES ASSUME FewLines(L) PROVE FALSE
          OBVIOUS
        <5>1. Len(L) < n \/ Len(L) = 0
          BY <4>2 DEF FewLines
        <5>2. Len(P) = 0
          BY <1>a, <2>3, <4>2, <4>3, <4>4, <5>1
        <5>3. P = <<>>
          BY <1>3, <5>2, EmptySeq
        <5> QED  BY <3>2, <5>3 DEF AllErrors
      <4>6. Proper(L) /\ \A c \in Conns : sockfd = c => OnlyLate(c)
        BY <1>4, <4>1, <4>5
      <4>7. PICK b \in 0 .. n : InOrder(L, b)
        BY <4>2, <4>6 DEF Proper
      <4>8. Len(L) = b + NumParameters /\ \A k \in DOMAIN L : L[k] = IF k <= b THEN ERROR ELSE k - b
        BY <4>7 DEF InOrder
      <4>9. a = b
        BY <1>a, <2>3, <4>2, <4>3, <4>4, <4>7, <4>8
      <4>10. \A k \in 1 .. Len(L) : L[k] = P[k]
        <5>1. DOMAIN L = 1 .. Len(L) /\ DOMAIN P = 1 .. Len(L)
          BY <1>3, <2>3, LenProperties
        <5> QED  BY <4>4, <4>8, <4>9, <5>1
      <4>11. L = P
        BY <1>3, <2>3, <4>10, SeqEqual
      <4>12. ListRight'
        <5>1. positions' = P /\ stored'.lines = P /\ Proper(P)'
          BY <1>2, <1>5, <2>1, <2>3, <4>6, <4>11
        <5> QED  BY <5>1 DEF ListRight, Proper
      <4>13. BetweenRight'
        BY <1>6, <4>6 DEF BetweenRight
      <4> QED  BY <2>3, <4>12, <4>13 DEF StoredRight, ReadingRight, ApplyingRight
    <3> QED  BY <3>1, <3>2
  <2> QED  BY <1>8, <1>a, <1>2, <2>2, <2>3 DEF StatusUpdate, Go, PcOK
<1> QED  BY <1>7, <1>8

LEMMA StoredStep == ChannelInv /\ StoredInv /\ [Next]_vars => StoredInv'
<1> SUFFICES ASSUME ChannelInv, StoredInv, [Next]_vars, Len(givenUp') <= NumParameters PROVE StoredRight'
  BY DEF StoredInv, StoredRight
<1>1. Patience /\ NumParameters \in Nat
  BY MoreGivenUp, Numbers DEF Patience, ChannelInv
<1>2. Len(givenUp) <= NumParameters
  BY <1>1 DEF Patience
<1>3. StoredRight
  BY <1>2 DEF StoredInv, StoredRight
<1>4. CASE UNCHANGED vars
  <2>1. UNCHANGED <<sockVars, wireVars, workerVars, statusVars, pc>>
    BY <1>4 DEF vars
  <2>2. WireOK /\ StatusOK
    BY TypeParts DEF ChannelInv, TypeInv
  <2>3. ASSUME NEW c \in Conns PROVE (OnlyLate(c) => OnlyLate(c)') /\ (Tells(c) => Tells(c)') /\ (Calm(c) => Calm(c)')
    <3>1. asked'[c] = asked[c] /\ replies'[c] = replies[c] /\ got' = got
      BY <2>1 DEF wireVars, statusVars
    <3>2. \A w \in Workers : Waiting(w, c) => Waiting(w, c)'
      BY <2>1 DEF Waiting, workerVars
    <3>3. OnlyLate(c) => OnlyLate(c)'
      BY <1>1, <2>2, <3>1, <3>2, LateStays
    <3>4. Tells(c) => Tells(c)'
      BY <1>1, <3>1, TellsStays
    <3> QED  BY <3>1, <3>3, <3>4 DEF Calm
  <2> QED  BY <1>1, <1>3, <2>1, <2>2, <2>3, Beside DEF sockVars
<1>5. ASSUME NEW w \in Workers, Begin(w) \/ Worker(w) \/ Lock(w) PROVE StoredRight'
  BY <1>1, <1>3, <1>5, WorkerSteps
<1>6. ASSUME NEW c \in Conns, Answer(c) \/ Drop(c) PROVE StoredRight'
  BY <1>1, <1>3, <1>6, PcrSteps
<1>7. CASE StatusMaster \/ Lock(Status)
  <2>1. CASE Opening(Status) \/ StatusCheck \/ StatusClose \/ StatusSendFails \/ StatusReadFails \/ Lock(Status)
    BY <1>1, <1>3, <2>1, LoopSteps
  <2>2. CASE StatusSend
    BY <1>1, <1>3, <2>2, SendStep
  <2>3. CASE StatusReadLine
    BY <1>1, <1>2, <1>3, <2>3, ReadStep
  <2>4. CASE StatusReadNothing
    BY <1>1, <1>3, <2>4, NothingStep
  <2>5. CASE StatusInit \/ StatusUpdate
    BY <1>1, <1>2, <1>3, <2>5, ApplyStep
  <2> QED  BY <1>7, <2>1, <2>2, <2>3, <2>4, <2>5 DEF StatusMaster
<1> QED  BY <1>4, <1>5, <1>6, <1>7 DEF Next, Threads

\* A value of the status is stored as the parameter it belongs to, for any number of
\* threads, parameters, losses and reconnections, as long as no more replies were given
\* up than there are parameters.
THEOREM ValuesInPlace == Spec => []StoredInPlace
<1>1. ChannelInv /\ StoredInv => StoredInPlace
  BY StoredFollows DEF ChannelInv
<1>2. Init => ChannelInv /\ StoredInv
  BY InitChannel, InitStored
<1>3. (ChannelInv /\ StoredInv) /\ [Next]_vars => (ChannelInv /\ StoredInv)'
  BY ChannelInvStep, StoredStep
<1> QED  BY <1>1, <1>2, <1>3, PTL DEF Spec
=============================================================================
