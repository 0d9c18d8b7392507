------------------------------ MODULE EventLoop ------------------------------
(***************************************************************************)
(* The event loop of webserv: loop(), EpollWrapper, Connection, the        *)
(* listening sockets of Server, and the kernel objects they are built on   *)
(* (accept queues, descriptors, epoll registrations), against clients that *)
(* connect, send, close and reset whenever they like.                      *)
(*                                                                         *)
(* A Connection and its channel_t are allocated together, freed together   *)
(* and serve one accepted client, so the client's name is also the name of *)
(* the two heap objects: heap[c], fd[c] and phase[c] are the fields of the *)
(* Connection accepted for client c.                                       *)
(***************************************************************************)
EXTENDS Naturals, FiniteSets, RequestPhases

CONSTANTS Clients,          \* TCP connections that clients may open
          Servers,          \* listening sockets that may be configured
          Fds,              \* descriptors left for client sockets
          None,             \* no client, no server, no descriptor
          MAX_EVENTS,       \* events per configured server in one epoll_wait
          LISTEN_BACKLOG,   \* length of an accept queue
          MaxUnread,        \* bound: segments in one receive queue
          Faults            \* which rarely failing calls may fail in this model

ASSUME NoneAssumption == None \notin Clients \cup Servers \cup Fds
ASSUME BoundsAssumption == /\ MAX_EVENTS \in Nat \ {0}
                           /\ LISTEN_BACKLOG \in Nat \ {0}
                           /\ MaxUnread \in Nat \ {0}
ASSUME FaultsAssumption ==
         Faults \subseteq {"listen", "fcntl", "epoll_add", "handler"}

VARIABLES
  \* the clients and the kernel
  peer,        \* the client's end: "idle", "up", "closed" (FIN), "reset" (RST)
  queue,       \* the server in whose accept queue the client waits, or None
  unread,      \* segments received by the kernel and not yet read
  socket,      \* descriptor table: the client a descriptor is connected to
  channel,     \* epoll registration of a descriptor: the channel_t it carries
  interest,    \* and the events asked for: "none", "IN" or "OUT"
  \* the process
  configured,  \* the servers of the configuration file
  listening,   \* those whose socket is set up
  watched,     \* those whose socket is registered with epoll
  running,     \* the flag behind running()
  pc,          \* where loop() is
  accepts,     \* listening sockets of the current batch still to be handled
  events,      \* EPOLL bits of the current batch still to be handled
  cur,         \* the connection whose response is being produced
  heap,        \* "none", "live" or "freed": the Connection and its channel_t
  fd,          \* Connection::fd
  phase,       \* Connection::request
  reply        \* what was sent: "none", "cut" (short send) or "whole"

kernel  == <<queue, socket, channel, interest>>
objects == <<heap, fd, phase>>
boot    == <<configured, listening, watched>>
vars == <<peer, queue, unread, socket, channel, interest, configured, listening,
          watched, running, pc, accepts, events, cur, heap, fd, phase, reply>>

TypeOK ==
  /\ peer \in [Clients -> {"idle", "up", "closed", "reset"}]
  /\ queue \in [Clients -> Servers \cup {None}]
  /\ unread \in [Clients -> 0..MaxUnread]
  /\ socket \in [Fds -> Clients \cup {None}]
  /\ channel \in [Fds -> Clients \cup {None}]
  /\ interest \in [Fds -> {"none", "IN", "OUT"}]
  /\ configured \subseteq Servers
  /\ listening \subseteq configured
  /\ watched \subseteq listening
  /\ running \in BOOLEAN
  /\ pc \in {"boot", "wait", "event", "send", "exited", "aborted"}
  /\ accepts \subseteq Servers
  /\ events \in [Clients -> SUBSET {"HUP", "IN", "OUT"}]
  /\ cur \in Clients \cup {None}
  /\ heap \in [Clients -> {"none", "live", "freed"}]
  /\ fd \in [Clients -> Fds \cup {None}]
  /\ phase \in [Clients -> Phases]
  /\ reply \in [Clients -> {"none", "cut", "whole"}]

Init ==
  /\ peer = [c \in Clients |-> "idle"]
  /\ queue = [c \in Clients |-> None]
  /\ unread = [c \in Clients |-> 0]
  /\ socket = [f \in Fds |-> None]
  /\ channel = [f \in Fds |-> None]
  /\ interest = [f \in Fds |-> "none"]
  /\ configured \in SUBSET Servers
  /\ listening = {}
  /\ watched = {}
  /\ running \in BOOLEAN                    \* --no-run clears it before loop()
  /\ pc = "boot"
  /\ accepts = {}
  /\ events = [c \in Clients |-> {}]
  /\ cur = None
  /\ heap = [c \in Clients |-> "none"]
  /\ fd = [c \in Clients |-> None]
  /\ phase = [c \in Clients |-> "head"]
  /\ reply = [c \in Clients |-> "none"]

Alive == pc \notin {"exited", "aborted"}

------------------------------------------------------------------------------
(* The clients and the signal.  They act between any two steps of the loop. *)

Connected(c) == queue[c] # None \/ \E f \in Fds : socket[f] = c

Connect(c, s) ==
  /\ Alive /\ peer[c] = "idle" /\ s \in listening
  /\ Cardinality({d \in Clients : queue[d] = s}) < LISTEN_BACKLOG
  /\ peer' = [peer EXCEPT ![c] = "up"]
  /\ queue' = [queue EXCEPT ![c] = s]
  /\ UNCHANGED <<unread, socket, channel, interest, boot, running, pc, accepts,
                 events, cur, objects, reply>>

Send(c) ==
  /\ Alive /\ peer[c] = "up" /\ Connected(c) /\ unread[c] < MaxUnread
  /\ unread' = [unread EXCEPT ![c] = @ + 1]
  /\ UNCHANGED <<peer, kernel, boot, running, pc, accepts, events, cur, objects,
                 reply>>

Close(c) ==
  /\ Alive /\ peer[c] = "up" /\ Connected(c)
  /\ peer' = [peer EXCEPT ![c] = "closed"]
  /\ UNCHANGED <<unread, kernel, boot, running, pc, accepts, events, cur,
                 objects, reply>>

Reset(c) ==
  /\ Alive /\ peer[c] \in {"up", "closed"} /\ Connected(c)
  /\ peer' = [peer EXCEPT ![c] = "reset"]
  /\ UNCHANGED <<unread, kernel, boot, running, pc, accepts, events, cur,
                 objects, reply>>

(* SIGINT or SIGQUIT: shutdown() clears the flag; nothing else is interrupted,
   epoll_wait being called with a zero timeout. *)
Signal ==
  /\ Alive /\ running
  /\ running' = FALSE
  /\ UNCHANGED <<peer, unread, kernel, boot, pc, accepts, events, cur, objects,
                 reply>>

------------------------------------------------------------------------------
(* loop() before the loop: one Server::init and one epoll.add per config. *)

StartServer(s) ==
  /\ pc = "boot" /\ s \in configured \ listening
  /\ listening' = listening \cup {s}
  /\ \/ watched' = watched \cup {s}
     \/ "epoll_add" \in Faults /\ UNCHANGED watched
  /\ UNCHANGED <<peer, unread, kernel, configured, running, pc, accepts, events,
                 cur, objects, reply>>

(* A socket call of listenToPort fails: loop() returns 1. *)
StartServerFails ==
  /\ pc = "boot" /\ configured # listening /\ "listen" \in Faults
  /\ running' = FALSE
  /\ pc' = "exited"
  /\ UNCHANGED <<peer, unread, kernel, boot, accepts, events, cur, objects,
                 reply>>

EnterLoop ==
  /\ pc = "boot" /\ configured = listening
  /\ pc' = "wait"
  /\ UNCHANGED <<peer, unread, kernel, boot, running, accepts, events, cur,
                 objects, reply>>

\* Mutant: the loop drains its connections before it ends.
LeaveLoopDrained ==
  /\ pc = "wait" /\ ~running /\ \A f \in Fds : socket[f] = None
  /\ pc' = "exited"
  /\ UNCHANGED <<peer, unread, kernel, boot, running, accepts, events, cur,
                 objects, reply>>

LeaveLoop ==
  /\ pc = "wait" /\ ~running
  /\ pc' = "exited"
  /\ UNCHANGED <<peer, unread, kernel, boot, running, accepts, events, cur,
                 objects, reply>>

------------------------------------------------------------------------------
(* epoll_wait(0).  "HUP" stands for EPOLLERR and EPOLLHUP, which the kernel
   reports unasked once the client has reset; EPOLLRDHUP is never asked for,
   so a FIN only makes the socket readable. *)

\* Mutants of Bits: EPOLLIN asked for together with EPOLLOUT; hang-ups ignored;
\* the switch asks for the wrong event.
BitsWithInput(f) ==
  LET c == socket[f] IN
    IF channel[f] = None \/ c = None THEN {}
    ELSE {b \in {"HUP", "IN", "OUT"} :
            \/ b = "HUP" /\ peer[c] = "reset"
            \/ b = "IN"  /\ (unread[c] > 0 \/ peer[c] \in {"closed", "reset"})
            \/ b = "OUT" /\ interest[f] = "OUT"}

BitsWithoutHangUp(f) ==
  IF channel[f] = None \/ socket[f] = None THEN {}
  ELSE {b \in {"IN", "OUT"} :
          /\ b = interest[f]
          /\ b = "IN" => \/ unread[socket[f]] > 0
                         \/ peer[socket[f]] \in {"closed", "reset"}}

BitsOnlyInput(f) ==
  {b \in {"HUP", "IN"} :
     /\ channel[f] # None /\ socket[f] # None
     /\ b = "HUP" => peer[socket[f]] = "reset"
     /\ b = "IN" => interest[f] = "IN" /\ (unread[socket[f]] > 0
                                          \/ peer[socket[f]] # "up")}

Bits(f) ==
  LET c == socket[f] IN
    IF channel[f] = None \/ c = None THEN {}
    ELSE {b \in {"HUP", "IN", "OUT"} :
            \/ b = "HUP" /\ peer[c] = "reset"
            \/ b = "IN"  /\ interest[f] = "IN"
                         /\ (unread[c] > 0 \/ peer[c] \in {"closed", "reset"})
            \/ b = "OUT" /\ interest[f] = "OUT"}

ReadyFds == {f \in Fds : Bits(f) # {}}

\* Mutant: edge-triggered, a listening socket is ready for its first client only.
ReadyServersOnEdge ==
  {s \in watched : Cardinality({c \in Clients : queue[c] = s}) = 1}

ReadyServers == {s \in watched : \E c \in Clients : queue[c] = s}

MaxEvents == MAX_EVENTS * Cardinality(configured)

(* The for loop over a batch: what is left of it, and epoll_wait once it is
   empty. *)
Batch(S, E) ==
  /\ accepts' = S
  /\ events' = E
  /\ pc' = IF S = {} /\ \A c \in Clients : E[c] = {} THEN "wait" ELSE "event"

Handled(c) == Batch(accepts, [events EXCEPT ![c] = {}])

(* The batch: every ready descriptor, or as many as fit.  The order in which
   the kernel lists them is not specified, so the batch is kept as a set and
   the loop handles its members in any order. *)
CollectEvents ==
  /\ pc = "wait" /\ running /\ configured # {}
  /\ \E F \in SUBSET ReadyFds, S \in SUBSET ReadyServers :
       /\ \/ F = ReadyFds /\ S = ReadyServers
             /\ Cardinality(F) + Cardinality(S) <= MaxEvents
          \/ Cardinality(F) + Cardinality(S) = MaxEvents
       /\ Batch(S, [c \in Clients |->
                      UNION {Bits(f) : f \in {g \in F : channel[g] = c}}])
  /\ UNCHANGED <<peer, unread, kernel, boot, running, cur, objects, reply>>

(* With no server configured maxevents is 0 and epoll_wait fails. *)
CollectFails ==
  /\ pc = "wait" /\ running /\ configured = {}
  /\ running' = FALSE
  /\ UNCHANGED <<peer, unread, kernel, boot, pc, accepts, events, cur, objects,
                 reply>>

------------------------------------------------------------------------------
(* An event of a listening socket: new Connection, accept, fcntl, epoll.add. *)

FreeFds == {f \in Fds : socket[f] = None}

Accept(s, c, f) ==
  /\ pc = "event" /\ s \in accepts /\ queue[c] = s /\ f \in FreeFds
  /\ Batch(accepts \ {s}, events)
  /\ queue' = [queue EXCEPT ![c] = None]
  /\ socket' = [socket EXCEPT ![f] = c]
  /\ \/ /\ heap' = [heap EXCEPT ![c] = "live"]
        /\ fd' = [fd EXCEPT ![c] = f]
        /\ \/ /\ channel' = [channel EXCEPT ![f] = c]
              /\ interest' = [interest EXCEPT ![f] = "IN"]
           \/ /\ "epoll_add" \in Faults         \* its result is not looked at
              /\ UNCHANGED <<channel, interest>>
     \/ \* setNonBlocking fails: the Connection goes, the descriptor stays open
        /\ "fcntl" \in Faults
        /\ heap' = [heap EXCEPT ![c] = "freed"]
        /\ UNCHANGED <<fd, channel, interest>>
  /\ UNCHANGED <<peer, unread, boot, running, cur, phase, reply>>

(* accept returns -1: no descriptor left, or nobody in the queue any more. *)
AcceptFails(s) ==
  /\ pc = "event" /\ s \in accepts
  /\ FreeFds = {} \/ \A c \in Clients : queue[c] # s
  /\ Batch(accepts \ {s}, events)
  /\ UNCHANGED <<peer, unread, kernel, boot, running, cur, objects, reply>>

------------------------------------------------------------------------------
(* Events of a connection. *)

\* Mutants of CloseFd: the registration outlives the close; the descriptor does.
CloseKeepsRegistration(f) ==
  /\ socket' = [socket EXCEPT ![f] = None]
  /\ UNCHANGED <<channel, interest>>

CloseOnlyRemoves(f) ==
  /\ channel' = [channel EXCEPT ![f] = None]
  /\ interest' = [interest EXCEPT ![f] = "none"]
  /\ UNCHANGED socket

(* close() of a descriptor, which also ends its epoll registration. *)
CloseFd(f) ==
  /\ socket' = [socket EXCEPT ![f] = None]
  /\ channel' = [channel EXCEPT ![f] = None]
  /\ interest' = [interest EXCEPT ![f] = "none"]

\* Mutant: the objects are deleted and the descriptor is left to epoll.
RemoveOnlyDeletes(c) ==
  /\ heap' = [heap EXCEPT ![c] = "freed"]
  /\ UNCHANGED <<socket, channel, interest, fd>>

(* removeConnection: epoll.remove, disconnect, delete both objects. *)
RemoveConnection(c) ==
  /\ CloseFd(fd[c])
  /\ heap' = [heap EXCEPT ![c] = "freed"]
  /\ fd' = [fd EXCEPT ![c] = None]

HandleHangUp(c) ==
  /\ pc = "event" /\ "HUP" \in events[c]
  /\ RemoveConnection(c)
  /\ Handled(c)
  /\ UNCHANGED <<peer, queue, unread, boot, running, cur, phase, reply>>

Readable(c) == pc = "event" /\ "HUP" \notin events[c] /\ "IN" \in events[c]

\* Mutants of AfterParse: the switch to EPOLLOUT is forgotten; the exception
\* handler only closes; there is no exception handler; the switch is made at once.
AfterParseUnarmed(c, result) ==
  \/ result = "thrown" /\ RemoveConnection(c) /\ UNCHANGED phase
  \/ /\ result \in Phases
     /\ phase' = [phase EXCEPT ![c] = result]
     /\ UNCHANGED <<channel, interest, socket, heap, fd>>

AfterParseCloses(c, result) ==
  \/ result = "thrown" /\ CloseFd(fd[c]) /\ UNCHANGED <<phase, heap, fd>>
  \/ /\ result \in Phases
     /\ phase' = [phase EXCEPT ![c] = result]
     /\ UNCHANGED <<channel, interest, socket, heap, fd>>

AfterParseUncaught(c, result) ==
  /\ phase' = [phase EXCEPT ![c] = result]
  /\ UNCHANGED <<channel, interest, socket, heap, fd>>

AfterParseEager(c, result) ==
  /\ phase' = [phase EXCEPT ![c] = IF result = "thrown" THEN @ ELSE result]
  /\ interest' = [interest EXCEPT ![fd[c]] = "OUT"]
  /\ UNCHANGED <<channel, socket, heap, fd>>

(* After parse: a complete request switches the registration, if there still
   is one, to EPOLLOUT; an exception removes the connection. *)
AfterParse(c, result) ==
  \/ /\ result = "thrown"
     /\ RemoveConnection(c)
     /\ UNCHANGED phase
  \/ /\ result \in Phases
     /\ phase' = [phase EXCEPT ![c] = result]
     /\ IF result = "complete" /\ channel[fd[c]] # None
        THEN /\ channel' = [channel EXCEPT ![fd[c]] = c]
             /\ interest' = [interest EXCEPT ![fd[c]] = "OUT"]
        ELSE UNCHANGED <<channel, interest>>
     /\ UNCHANGED <<socket, heap, fd>>

ReadBytes(c) ==
  /\ Readable(c)
  /\ LET p == socket[fd[c]] IN
       /\ p # None /\ unread[p] > 0
       /\ unread' = [unread EXCEPT ![p] = @ - 1]
  /\ \E result \in AfterBytes[phase[c]] : AfterParse(c, result)
  /\ Handled(c)
  /\ UNCHANGED <<peer, queue, boot, running, cur, reply>>

(* recv returns 0: getRequestData closes the descriptor itself and returns "",
   and the caller parses that and goes on as if nothing had happened.  A
   modify of the closed descriptor fails and its result is not looked at. *)
ReadEnd(c) ==
  /\ Readable(c)
  /\ LET p == socket[fd[c]] IN
       p # None /\ unread[p] = 0 /\ peer[p] = "closed"
  /\ CloseFd(fd[c])
  /\ \E result \in AfterNothing[phase[c]] :
       phase' = [phase EXCEPT ![c] = result]
  /\ Handled(c)
  /\ UNCHANGED <<peer, queue, unread, boot, running, cur, heap, fd, reply>>

(* recv returns -1: the client has reset since the batch was collected. *)
ReadFails(c) ==
  /\ Readable(c)
  /\ LET p == socket[fd[c]] IN
       p = None \/ (unread[p] = 0 /\ peer[p] = "reset")
  /\ \E result \in AfterNothing[phase[c]] : AfterParse(c, result)
  /\ Handled(c)
  /\ UNCHANGED <<peer, queue, unread, boot, running, cur, reply>>

(* handleRequest fills in the response.  Nothing catches what it throws. *)
HandleRequest(c) ==
  /\ pc = "event" /\ events[c] = {"OUT"}
  /\ cur' = c
  /\ \/ pc' = "send"
     \/ pc' = "aborted" /\ "handler" \in Faults
  /\ UNCHANGED <<peer, unread, kernel, boot, running, accepts, events, objects,
                 reply>>

(* sendHttpResponse: one send, whose count is not looked at, then
   removeConnection.  A failing send throws out of the loop (or raises
   SIGPIPE): the process ends. *)
SendResponse ==
  /\ pc = "send"
  /\ LET p == socket[fd[cur]] IN
       \/ /\ p = None \/ peer[p] = "reset"
          /\ pc' = "aborted"
          /\ UNCHANGED <<kernel, accepts, events, cur, objects, reply>>
       \/ /\ p # None /\ peer[p] # "reset"
          /\ \E sent \in {"cut", "whole"} : reply' = [reply EXCEPT ![p] = sent]
          /\ RemoveConnection(cur)
          /\ Handled(cur)
          /\ cur' = None
          /\ UNCHANGED <<queue, phase>>
  /\ UNCHANGED <<peer, unread, boot, running>>

Terminated == ~Alive /\ UNCHANGED vars

------------------------------------------------------------------------------
Boot == StartServerFails \/ EnterLoop \/ \E s \in Servers : StartServer(s)

HandleEvent ==
  \/ \E s \in Servers : AcceptFails(s)
  \/ \E s \in Servers, c \in Clients, f \in Fds : Accept(s, c, f)
  \/ \E c \in Clients : \/ HandleHangUp(c)
                        \/ ReadBytes(c) \/ ReadEnd(c) \/ ReadFails(c)
                        \/ HandleRequest(c)
  \/ SendResponse

Process == Boot \/ LeaveLoop \/ CollectFails \/ CollectEvents \/ HandleEvent

Environment ==
  \/ Signal
  \/ \E c \in Clients : \/ \E s \in Servers : Connect(c, s)
                        \/ Send(c) \/ Close(c) \/ Reset(c)

Next == Process \/ Environment \/ Terminated

Spec == Init /\ [][Next]_vars

(* The process is one thread that never blocks in a call of the model: as long
   as it has something to do, it does it. *)
FairSpec == Spec /\ WF_vars(Process)
------------------------------------------------------------------------------
(* Safety. *)

Registered(c) == \E f \in Fds : channel[f] = c

(* No use after free.  What epoll will report, and what the current batch still
   holds, refers to objects that have not been deleted: every delete of loop()
   is preceded by the end of the registration, and a batch names a connection
   at most once. *)
EventsAreLive ==
  \A c \in Clients : events[c] # {} \/ Registered(c) \/ cur = c => heap[c] = "live"

(* A registration and the Connection it carries agree on the descriptor, and the
   descriptor is connected to the client the Connection was accepted for, also
   after the number has been closed and given to another client. *)
DescriptorOwnership ==
  \A f \in Fds : channel[f] # None =>
     /\ fd[channel[f]] = f
     /\ socket[f] = channel[f]

(* Nothing handled earlier in a batch makes what follows in it stale: an event
   still to be handled is of an open, registered descriptor, EPOLLOUT of a
   complete request and EPOLLIN of an incomplete one. *)
BatchIsCurrent ==
  \A c \in Clients : events[c] # {} =>
     /\ fd[c] # None /\ channel[fd[c]] = c
     /\ "OUT" \in events[c] => phase[c] = "complete"
     /\ "IN" \in events[c] => phase[c] # "complete"

(* A connection waits for EPOLLOUT exactly when its request is complete: no
   complete request waits for more input, no incomplete one is answered. *)
InterestMatchesRequest ==
  \A f \in Fds : channel[f] # None =>
     interest[f] = IF phase[channel[f]] = "complete" THEN "OUT" ELSE "IN"

(* A connection object that epoll no longer reports belongs to a client that has
   closed or reset: no client that still waits is forgotten, unless the
   registration itself failed. *)
NoForgottenClient ==
  "epoll_add" \notin Faults =>
     \A c \in Clients : heap[c] = "live" /\ ~Registered(c) =>
        peer[c] \in {"closed", "reset"}

(* As long as fcntl and epoll_ctl succeed, every open client descriptor is
   watched: recv returning 0, parse errors and hang-ups all give it back. *)
NoDescriptorLeak ==
  Faults \cap {"fcntl", "epoll_add"} = {} =>
     \A f \in Fds : socket[f] # None => channel[f] # None

(* No Connection is lost: one that is allocated is reachable from epoll and will
   be deleted.  The code does not keep this. *)
NoMemoryLeak ==
  "epoll_add" \notin Faults =>
     \A c \in Clients : heap[c] = "live" => Registered(c)

------------------------------------------------------------------------------
(* The inductive invariant: with the types and the properties above it says
   which objects exist at each point of a client's life. *)

(* A client that has not been accepted has no objects; one that has not
   connected is not even in a queue. *)
Unaccepted ==
  \A c \in Clients : /\ queue[c] # None => heap[c] = "none"
                     /\ peer[c] = "idle" => heap[c] = "none" /\ queue[c] = None
                     /\ heap[c] = "none" => phase[c] = "head"

(* The connection being answered is the one whose EPOLLOUT is being handled. *)
CurIsHandled ==
  /\ pc = "send" => cur # None
  /\ cur # None => events[cur] = {"OUT"} /\ pc \in {"send", "aborted"}

(* Once a client was answered its connection is gone. *)
AnsweredIsFreed == \A c \in Clients : reply[c] # "none" => heap[c] = "freed"

(* What every step preserves: the properties above hold because of it. *)
IInv == /\ TypeOK
        /\ DescriptorOwnership
        /\ EventsAreLive
        /\ BatchIsCurrent
        /\ InterestMatchesRequest
        /\ Unaccepted
        /\ CurIsHandled
        /\ AnsweredIsFreed

------------------------------------------------------------------------------
(* What the loop does for its clients is what ConnectionService promises. *)

Stage(c) ==
  IF reply[c] # "none" THEN "answered"
  ELSE IF heap[c] = "none" THEN "unknown"
  ELSE IF heap[c] = "freed" \/ ~Registered(c) THEN "dropped"
  ELSE IF phase[c] = "complete" THEN "ready" ELSE "reading"

Service == INSTANCE ConnectionService
             WITH stage <- [c \in Clients |-> Stage(c)], up <- Alive

(* Each client is answered at most once, only for a request that was read
   completely, and never after it was dropped or the process has ended. *)
ImplementsService == Service!SSpec

------------------------------------------------------------------------------
(* Liveness, for a batch that holds every descriptor. *)

(* A complete request is answered or its connection is given up. *)
AnsweredInTheEnd ==
  \A c \in Clients :
     Stage(c) = "ready" ~> Stage(c) \in {"answered", "dropped"} \/ ~Alive

(* A connection whose client has reset gives its descriptor back. *)
HangUpIsNoticed ==
  \A c \in Clients :
     Registered(c) /\ peer[c] = "reset" ~> ~Registered(c) \/ ~Alive

(* A connection waiting to be accepted is, unless no descriptor is free. *)
QueueIsServed ==
  \A c \in Clients :
     queue[c] # None ~> queue[c] = None \/ FreeFds = {} \/ ~running \/ ~Alive

(* A signal ends the process, whatever the clients do. *)
SignalEndsTheLoop == ~running ~> ~Alive
==============================================================================
