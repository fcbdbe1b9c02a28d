----------------------------- MODULE TopSocket -----------------------------
(***************************************************************************)
(* The socket of a device of the topbox server: a Socket_Info, which the   *)
(* status thread of the device and the threads of all clients share, and   *)
(* the exchanges that are made over it.  A routine of a device takes the   *)
(* mutex of the Socket_Info for a whole exchange, so an exchange is one    *)
(* step here; what a routine does with the reply after the unlock is not.  *)
(*                                                                         *)
(* A world is [dev, sock, data, faults, clean]: the device, its socket,    *)
(* the Device_Data all threads share, the losses that may still happen,    *)
(* and the history bit "what the threads believe is what the device says". *)
(***************************************************************************)
EXTENDS Integers

Descriptors == {"none", "open", "zero"}   \* sockfd: -1, a socket, and 0

Socket_Info == [connected : BOOLEAN, sockfd : Descriptors,
                alive : BOOLEAN,  \* the network carries bytes both ways
                locked : BOOLEAN] \* the mutex was left locked

Socket_Setup == [connected |-> FALSE, sockfd |-> "none",
                 alive |-> FALSE, locked |-> FALSE]

Socket_Close(s) == [s EXCEPT !.connected = FALSE, !.sockfd = "none",
                             !.alive = FALSE]

\* An old descriptor is closed first and leaves 0 behind when the connect
\* fails.  A host that does not answer at all within the second select() waits
\* passes for connected.
Socket_OpenClient(s, reachable) ==
  LET open(alive) == [s EXCEPT !.connected = TRUE, !.sockfd = "open", !.alive = alive]
      old == s.connected \/ s.sockfd # "none" IN
  IF reachable THEN {open(TRUE)}
  ELSE {open(FALSE), [s EXCEPT !.connected = FALSE, !.alive = FALSE,
                               !.sockfd = IF old THEN "zero" ELSE @]}

\* error is only displayed, and left out.
\* What Status_ZeroFlags clears (position and in_position are only displayed).
Status_ZeroFlags(data) ==
  [f \in DOMAIN data |-> IF f \in {"home", "moving", "error", "enabled", "negative", "event_2"}
                           THEN FALSE ELSE data[f]]

CloseAndZero(w) == [w EXCEPT !.sock = Socket_Close(@), !.data = Status_ZeroFlags(@), !.clean = FALSE]

Result(w, ok) == [w |-> w, ok |-> ok]

-----------------------------------------------------------------------------
(* Socket_Write: the bytes reach the device, are refused, or, on a dead    *)
(* connection, are taken and lost.  dev is the device once it has obeyed,  *)
(* failed what the routine leaves when the write fails.                    *)
(***************************************************************************)
Tell(w, dev, failed) ==
  IF w.sock.sockfd = "none" THEN {Result(failed, FALSE)}
  ELSE IF w.sock.alive      THEN {Result([w EXCEPT !.dev = dev], TRUE)}
  ELSE {Result(failed, FALSE), Result([w EXCEPT !.clean = FALSE], TRUE)}

\* Socket_Read after the write of a question: the reply, or nothing for the
\* time the routine waits, or the end of the connection.  The device has
\* done what it was told in the first two cases.
\* A reply that comes later is dropped: Socket_Flush reads it before the next write,
\* if it comes within the millisecond Socket_Flush waits.
Ask(w, dev, failed) ==
  IF w.sock.sockfd = "none" THEN {Result(failed, FALSE)}
  ELSE IF ~w.sock.alive     THEN {Result(failed, FALSE), Result(w, FALSE)}
  ELSE LET told == [w EXCEPT !.dev = dev] IN
       {Result(told, TRUE)} \cup
       (IF w.faults = 0 THEN {}
        ELSE {Result([told EXCEPT !.faults = @ - 1], FALSE)})
=============================================================================
