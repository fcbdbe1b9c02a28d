---------------------------- MODULE ClientSeats -----------------------------
(***************************************************************************)
(* What a server with a pool of threads promises: each client is served at *)
(* most once, in a seat that no other client has meanwhile, and none is    *)
(* taken after the server has closed.                                      *)
(***************************************************************************)
CONSTANTS Clients, Seats

VARIABLES
  serving,  \* the clients being served
  seat,     \* the seat each client has, or had last
  past,     \* the clients that have been served
  open      \* does the server take clients?

seatVars == <<serving, seat, past, open>>

SeatsInit ==
  serving = {} /\ seat \in [Clients -> Seats] /\ past = {} /\ open = TRUE

Begin(c) ==
  /\ open
  /\ c \notin serving \cup past
  /\ \E s \in Seats :
       /\ \A d \in serving : seat[d] # s
       /\ seat' = [seat EXCEPT ![c] = s]
  /\ serving' = serving \cup {c}
  /\ UNCHANGED <<past, open>>

End(c) ==
  /\ c \in serving
  /\ serving' = serving \ {c}
  /\ past' = past \cup {c}
  /\ UNCHANGED <<seat, open>>

Shut == open /\ open' = FALSE /\ UNCHANGED <<serving, seat, past>>

SeatsNext == Shut \/ \E c \in Clients : Begin(c) \/ End(c)

SeatsSpec == SeatsInit /\ [][SeatsNext]_seatVars
=============================================================================
