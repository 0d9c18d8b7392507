-------------------------- MODULE ConnectionService --------------------------
(***************************************************************************)
(* What webserv promises the clients that connect to it, with no           *)
(* descriptors, no heap and no epoll: a client is admitted at most once,   *)
(* is answered at most once and only after its request has been read       *)
(* completely, and is let go of once and for all.  Module EventLoop is     *)
(* shown to implement it.                                                  *)
(***************************************************************************)
CONSTANT Clients

VARIABLES stage,   \* how far the server has come with each client
          up       \* the server process runs

svars == <<stage, up>>

Stages == {"unknown",    \* not accepted
           "reading",    \* accepted, request incomplete
           "ready",      \* request complete
           "answered",   \* one response sent, connection closed
           "dropped"}    \* let go of without a response

SInit == /\ stage = [c \in Clients |-> "unknown"]
         /\ up = TRUE

Move(c, from, to) == /\ up /\ stage[c] \in from
                     /\ stage' = [stage EXCEPT ![c] = to]
                     /\ UNCHANGED up

Admit(c)    == Move(c, {"unknown"}, "reading")
Complete(c) == Move(c, {"reading"}, "ready")
Answer(c)   == Move(c, {"ready"}, "answered")
Drop(c)     == Move(c, {"unknown", "reading", "ready"}, "dropped")
Halt        == up /\ up' = FALSE /\ UNCHANGED stage

SNext == Halt \/ \E c \in Clients : Admit(c) \/ Complete(c) \/ Answer(c) \/ Drop(c)

SSpec == SInit /\ [][SNext]_svars
==============================================================================
