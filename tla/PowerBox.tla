------------------------------ MODULE PowerBox ------------------------------
(***************************************************************************)
(* The power box of the topbox server (topbox_server/Power): relays that   *)
(* clients switch, and a status thread that asks which are on.  A question *)
(* is written and its reply read under two holds of the mutex, and nothing *)
(* throws away what is still waiting on the connection, so a reply that    *)
(* comes too late is taken for the reply to the next question.             *)
(***************************************************************************)
EXTENDS TopSocket, Sequences, FiniteSets

CONSTANTS
  Relays,     \* the relays: "wfsc", "peltier", ...
  MaxLateReplies,   \* replies that come after the timeout
  MaxLost,          \* connections that are lost
  MaxSwitch         \* requests of the clients

ASSUME PowerAssumption == {MaxLateReplies, MaxLost, MaxSwitch} \subseteq Nat

VARIABLES
  box, boxThere,
  real,      \* the relays that are on
  relays,    \* Data->relays, as a set
  wire,      \* the replies that are on their way or unread
  polling,   \* where Power_Looper stands
  lateReplies, losses, switched
pvars == <<box, boxThere, real, relays, wire, polling, lateReplies, losses, switched>>

Power_Init ==
  /\ box = Socket_Setup /\ boxThere \in BOOLEAN
  /\ real = {} /\ relays = {} /\ wire = <<>> /\ polling = "start"
  /\ lateReplies = 0 /\ losses = 0 /\ switched = 0
-----------------------------------------------------------------------------
\* Before the loop: connect, flush, and ask once when that worked.
Power_Start ==
  /\ polling = "start"
  /\ \E s \in Socket_OpenClient(box, boxThere) :
       /\ box' = s
       /\ polling' = IF s.connected THEN "ask" ELSE "loop"
  /\ wire' = <<>>
  /\ UNCHANGED <<boxThere, real, relays, lateReplies, losses, switched>>

\* In the loop: what OpenClient has set is cleared again, so that the status
\* is not asked for, the clients are refused, and the next turn opens anew.
Power_Open ==
  /\ polling = "loop" /\ ~box.connected
  /\ \E s \in Socket_OpenClient(box, boxThere) : box' = [s EXCEPT !.connected = FALSE]
  /\ wire' = <<>>
  /\ UNCHANGED <<boxThere, real, relays, polling, lateReplies, losses, switched>>

Power_Turn ==
  /\ polling = "loop" /\ box.connected
  /\ polling' = "ask"
  /\ UNCHANGED <<box, boxThere, real, relays, wire, lateReplies, losses, switched>>

\* A write or a read that fails: close, and zero the flags (relays stay).
Power_Fail == /\ box' = Socket_Close(box) /\ polling' = "loop" /\ wire' = <<>>
              /\ UNCHANGED <<boxThere, real, relays, lateReplies, losses, switched>>

Power_Write ==
  /\ polling = "ask"
  /\ \/ /\ box.sockfd # "none"
        /\ polling' = "read"
        /\ wire' = IF box.alive THEN Append(wire, real) ELSE wire
        /\ UNCHANGED <<box, boxThere, real, relays, lateReplies, losses, switched>>
     \/ ~box.alive /\ Power_Fail

\* A mistake: the oldest reply is left there.
Power_ReadAgain ==
  /\ polling = "read" /\ wire # <<>>
  /\ relays' = wire[1] /\ polling' = "loop" /\ UNCHANGED wire
  /\ UNCHANGED <<box, boxThere, real, lateReplies, losses, switched>>

\* A mistake: a relay once shown as on stays so.
Power_ReadSticky ==
  /\ polling = "read" /\ wire # <<>>
  /\ \E n \in 1 .. Len(wire) : wire' = SubSeq(wire, n + 1, Len(wire))
  /\ relays' = relays \cup wire[1] /\ polling' = "loop"
  /\ UNCHANGED <<box, boxThere, real, lateReplies, losses, switched>>

\* read() takes what has come by now; sscanf() looks at the first reply.
Power_Read ==
  /\ polling = "read" /\ wire # <<>>
  /\ \E n \in 1 .. Len(wire) : wire' = SubSeq(wire, n + 1, Len(wire))
  /\ relays' = wire[1]
  /\ polling' = "loop"
  /\ UNCHANGED <<box, boxThere, real, lateReplies, losses, switched>>

\* The timeout is no failure for Power_Status: it reads its reply off a
\* buffer nobody wrote to.
Power_Timeout ==
  /\ polling = "read"
  /\ IF box.alive THEN lateReplies < MaxLateReplies /\ lateReplies' = lateReplies + 1
                   ELSE lateReplies' = lateReplies
  /\ relays' \in SUBSET Relays
  /\ polling' = "loop"
  /\ UNCHANGED <<box, boxThere, real, wire, losses, switched>>

Power_ReadEnd == polling = "read" /\ ~box.alive /\ wire = <<>> /\ Power_Fail

\* A client switches a relay: one write, and no reply.
Power_Relay(r, on) ==
  /\ box.connected /\ switched < MaxSwitch
  /\ switched' = switched + 1
  /\ real' = IF ~box.alive THEN real ELSE IF on THEN real \cup {r} ELSE real \ {r}
  /\ UNCHANGED <<box, boxThere, relays, wire, polling, lateReplies, losses>>

Power_LinkLost ==
  /\ box.alive /\ losses < MaxLost
  /\ box' = [box EXCEPT !.alive = FALSE] /\ boxThere' = FALSE
  /\ wire' = <<>> /\ losses' = losses + 1
  /\ UNCHANGED <<real, relays, polling, lateReplies, switched>>

Power_LinkBack ==
  /\ ~boxThere /\ boxThere' = TRUE
  /\ UNCHANGED <<box, real, relays, wire, polling, lateReplies, losses, switched>>

Power_Looper == \/ Power_Start \/ Power_Open \/ Power_Turn
                \/ Power_Write \/ Power_Read \/ Power_Timeout \/ Power_ReadEnd
Power_Next ==
  \/ Power_Looper
  \/ \E r \in Relays, on \in BOOLEAN : Power_Relay(r, on)
  \/ Power_LinkLost \/ Power_LinkBack

\* The status thread runs.
Power_Fairness == WF_pvars(Power_Looper) /\ WF_pvars(Power_LinkBack)
Power_Spec == Power_Init /\ [][Power_Next]_pvars /\ Power_Fairness
-----------------------------------------------------------------------------
Power_TypeOK ==
  /\ box \in Socket_Info /\ real \subseteq Relays /\ relays \subseteq Relays
  /\ polling \in {"start", "loop", "ask", "read"}
  /\ \A i \in DOMAIN wire : wire[i] \subseteq Relays

\* The status lags behind by one reply for each that came late, and no more.
BehindByTheLate == Len(wire) <= lateReplies + (IF polling = "read" THEN 1 ELSE 0)

\* While the connection lasts, the relays that are shown become those that
\* are on, though each reply may answer an earlier question.
RelaysCatchUp == <>[]~(box.connected /\ box.alive) \/ []<>(relays = real)

\* The loop gets a lost connection back.  (It does not: see the README.)
PowerReconnects == ~box.connected ~> box.connected
=============================================================================
