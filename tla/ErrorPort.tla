----------------------------- MODULE ErrorPort -----------------------------
(***************************************************************************)
(* The connection over which the PC-Reconstructor (PCR) tells of errors.   *)
(* Error_Master makes it, waits for the PCR's hello, and reads one message *)
(* after the other; an operator may "connect" it as well, at any time      *)
(* while it is down (PCR_Process).  Nothing keeps the two from being in    *)
(* Socket_OpenClient at a time.  What a message does is in Commands.       *)
(***************************************************************************)
EXTENDS Integers

CONSTANTS
  Links,        \* connections there may be at a time
  MaxTroubles,  \* bound: connections that break or fail, silent PCRs, opens of the operator
  Error,        \* the thread Error_Master
  Operator      \* an operator's thread

ASSUME ErrorPortAssumption == MaxTroubles \in Nat /\ Error # Operator /\ Links \subseteq Nat \ {0}

VARIABLES
  port,        \* Socket_Info: connected, and sockfd, a connection, -1, or 0
  place,       \* where the two threads are
  links,       \* the connections, as their sockets show them
  hello,       \* those whose hello has not been read
  together,    \* history: the two were opening at a time
  troubles
errorVars == <<port, place, links, hello, together, troubles>>

ErrorPort_Init ==
  /\ port = [connected |-> FALSE, fd |-> -1]
  /\ place = [t \in {Error, Operator} |-> IF t = Error THEN "outer" ELSE "idle"]
  /\ links = [l \in Links |-> "none"] /\ hello = {}
  /\ together = FALSE /\ troubles = 0

Trouble == troubles < MaxTroubles /\ troubles' = troubles + 1
GoTo(t, at) == place' = [place EXCEPT ![t] = at]
Drop(l) == /\ links' = [m \in Links |-> IF m = l THEN "none" ELSE links[m]]
           /\ hello' = hello \ {l}
Socket_Close == port' = [connected |-> FALSE, fd |-> -1] /\ Drop(port.fd)
Speaks == port.fd \in Links /\ links[port.fd] = "up"
-----------------------------------------------------------------------------
\* while ( *continueRunning ), which nobody clears once the list has been found
\* to have the names that are needed.
Error_Outer ==
  /\ place[Error] = "outer" /\ GoTo(Error, IF port.connected THEN "hello" ELSE "open")
  /\ UNCHANGED <<port, links, hello, together, troubles>>

\* Error_Master tries once a second until it is connected, and looks at nothing
\* else; an operator tries once.
After(t, connected) ==
  IF t = Operator THEN "idle" ELSE IF connected THEN "hello" ELSE "open"

\* The beginning of Socket_OpenClient, where a name that is not found ends it.
Open_Begin(t) ==
  /\ place[t] = "open"
  /\ \/ /\ GoTo(t, After(t, port.connected)) /\ Trouble /\ UNCHANGED <<port, links, hello, together>>
     \/ /\ GoTo(t, "opening")
        /\ IF port.connected \/ port.fd >= 0
           THEN Drop(port.fd) /\ port' = [connected |-> FALSE, fd |-> 0]
           ELSE UNCHANGED <<port, links, hello>>
        /\ together' = (together \/ \E u \in {Error, Operator} \ {t} : place[u] = "opening")
        /\ UNCHANGED troubles

Open_Fails(t) ==
  /\ place[t] = "opening" /\ port' = [port EXCEPT !.connected = FALSE] /\ GoTo(t, After(t, FALSE))
  /\ Trouble
  /\ UNCHANGED <<links, hello, together>>

\* A mistake: the connection made is used, without being noted.
Open_Unnoted(t) ==
  /\ place[t] = "opening" /\ GoTo(t, After(t, TRUE))
  /\ \E l \in Links : links[l] = "none" /\ links' = [links EXCEPT ![l] = "up"] /\ hello' = hello \cup {l}
  /\ UNCHANGED <<port, together, troubles>>

Open_End(t) ==
  /\ place[t] = "opening" /\ GoTo(t, After(t, TRUE))
  /\ \E l \in Links :
       /\ links[l] = "none" /\ links' = [links EXCEPT ![l] = "up"]
       /\ hello' = hello \cup {l} /\ port' = [connected |-> TRUE, fd |-> l]
  /\ UNCHANGED <<together, troubles>>
-----------------------------------------------------------------------------
\* PCR_OK, within a second.
Hello_Ok ==
  /\ place[Error] = "hello" /\ Speaks /\ port.fd \in hello
  /\ hello' = hello \ {port.fd} /\ GoTo(Error, "wait")
  /\ UNCHANGED <<port, links, together, troubles>>

\* Nothing comes, or something else: the connection is closed.  When it is gone
\* the thread begins anew at once; on a socket that is closed, select may do either.
Hello_Fails ==
  /\ place[Error] = "hello" /\ Socket_Close
  /\ \/ Speaks /\ port.fd \in hello /\ Trouble /\ GoTo(Error, "wait")
     \/ Speaks /\ port.fd \notin hello /\ GoTo(Error, "wait") /\ UNCHANGED troubles
     \/ ~Speaks /\ GoTo(Error, "outer") /\ UNCHANGED troubles
     \/ port.fd \notin Links /\ GoTo(Error, "wait") /\ UNCHANGED troubles
  /\ UNCHANGED together

\* while ( ... && connected )
Wait_Leave ==
  /\ place[Error] = "wait" /\ ~port.connected /\ GoTo(Error, "outer")
  /\ UNCHANGED <<port, links, hello, together, troubles>>

\* Something has come: it is read from whatever the socket is by now.
Wait_Select ==
  /\ place[Error] = "wait" /\ port.connected
  /\ GoTo(Error, "read")
  /\ UNCHANGED <<port, links, hello, together, troubles>>

\* A message; or the hello of a connection that was made by the operator since.
Wait_Message ==
  /\ place[Error] = "read" /\ Speaks /\ GoTo(Error, "wait") /\ hello' = hello \ {port.fd}
  /\ UNCHANGED <<port, links, together, troubles>>

\* A mistake: a connection that is gone is read on.
Wait_Deaf ==
  /\ place[Error] = "read" /\ ~Speaks /\ GoTo(Error, "wait")
  /\ UNCHANGED <<port, links, hello, together, troubles>>

Wait_Lost ==
  /\ place[Error] = "read" /\ ~Speaks /\ Socket_Close /\ GoTo(Error, "wait")
  /\ UNCHANGED <<together, troubles>>
-----------------------------------------------------------------------------
\* "connect error" of an operator.
Operator_Open ==
  /\ place[Operator] = "idle" /\ ~port.connected /\ Trouble /\ GoTo(Operator, "open")
  /\ UNCHANGED <<port, links, hello, together>>

Link_Breaks(l) ==
  /\ links[l] = "up" /\ Trouble /\ links' = [links EXCEPT ![l] = "gone"]
  /\ UNCHANGED <<port, place, hello, together>>

Error_Thread ==
  \/ Open_Begin(Error) \/ Open_Fails(Error) \/ Open_End(Error)
  \/ Error_Outer \/ Hello_Ok \/ Hello_Fails \/ Wait_Leave
  \/ Wait_Select \/ Wait_Message \/ Wait_Lost

ErrorPort_Next ==
  \/ Error_Thread \/ Operator_Open
  \/ Open_Begin(Operator) \/ Open_Fails(Operator) \/ Open_End(Operator)
  \/ \E l \in Links : Link_Breaks(l)

ErrorPort_Spec == ErrorPort_Init /\ [][ErrorPort_Next]_errorVars
-----------------------------------------------------------------------------
\* A connection is the one in use, unless the two threads were opening at a time.
OneErrorLink == together \/ \A l \in Links : links[l] # "none" => port.fd = l

\* Error_Master listens to a connection that is up.
ErrorListens == place[Error] = "wait" /\ Speaks
=============================================================================
