--------------------------- MODULE EventLoopProofs ---------------------------
(***************************************************************************)
(* Proofs about EventLoop for every set of clients, servers and            *)
(* descriptors, every batch and queue length and every choice of faults.   *)
(***************************************************************************)
EXTENDS EventLoop, TLAPS

------------------------------------------------------------------------------
(* Lemmas about the helpers of the model. *)

LEMMA PhaseFacts ==
  /\ \A p \in Unfinished : AfterNothing[p] \subseteq Phases
  /\ \A p \in Phases : p # "complete" => p \in Unfinished
BY DEF AfterNothing, Unfinished, Phases

LEMMA BatchTypes ==
  ASSUME NEW S \in SUBSET Servers,
         NEW E \in [Clients -> SUBSET {"HUP", "IN", "OUT"}],
         Batch(S, E)
  PROVE  /\ accepts' \subseteq Servers
         /\ events' \in [Clients -> SUBSET {"HUP", "IN", "OUT"}]
         /\ pc' \in {"wait", "event"}
BY DEF Batch

LEMMA BitsType == ASSUME NEW f \in Fds PROVE Bits(f) \subseteq {"HUP", "IN", "OUT"}
BY DEF Bits

------------------------------------------------------------------------------
(* Types. *)

LEMMA InitType == Init => TypeOK
BY BoundsAssumption DEF Init, TypeOK, Phases, Unfinished

LEMMA EnvironmentType == ASSUME TypeOK, Environment PROVE TypeOK'
<1>1. CASE Signal
  BY <1>1 DEF Signal, TypeOK, kernel, boot, objects
<1>2. ASSUME NEW c \in Clients, NEW s \in Servers, Connect(c, s) PROVE TypeOK'
  BY <1>2 DEF Connect, TypeOK, boot, objects
<1>3. ASSUME NEW c \in Clients, Send(c) PROVE TypeOK'
  BY <1>3, BoundsAssumption DEF Send, TypeOK, kernel, boot, objects
<1>4. ASSUME NEW c \in Clients, Close(c) PROVE TypeOK'
  BY <1>4 DEF Close, TypeOK, kernel, boot, objects
<1>5. ASSUME NEW c \in Clients, Reset(c) PROVE TypeOK'
  BY <1>5 DEF Reset, TypeOK, kernel, boot, objects
<1>. QED BY <1>1, <1>2, <1>3, <1>4, <1>5 DEF Environment

LEMMA LoopType ==
  ASSUME TypeOK, Boot \/ LeaveLoop \/ CollectFails \/ CollectEvents
  PROVE  TypeOK'
<1>1. CASE StartServerFails
  BY <1>1 DEF StartServerFails, TypeOK, kernel, boot, objects
<1>2. CASE EnterLoop
  BY <1>2 DEF EnterLoop, TypeOK, kernel, boot, objects
<1>3. ASSUME NEW s \in Servers, StartServer(s) PROVE TypeOK'
  BY <1>3 DEF StartServer, TypeOK, kernel, objects
<1>4. CASE LeaveLoop
  BY <1>4 DEF LeaveLoop, TypeOK, kernel, boot, objects
<1>5. CASE CollectFails
  BY <1>5 DEF CollectFails, TypeOK, kernel, boot, objects
<1>6. CASE CollectEvents
  <2>1. PICK F \in SUBSET ReadyFds, S \in SUBSET ReadyServers :
          Batch(S, [c \in Clients |->
                      UNION {Bits(f) : f \in {g \in F : channel[g] = c}}])
    BY <1>6 DEF CollectEvents
  <2>2. S \in SUBSET Servers
    BY DEF ReadyServers, TypeOK
  <2>3. [c \in Clients |-> UNION {Bits(f) : f \in {g \in F : channel[g] = c}}]
          \in [Clients -> SUBSET {"HUP", "IN", "OUT"}]
    <3>1. F \subseteq Fds
      BY DEF ReadyFds
    <3>. QED BY <3>1, BitsType
  <2>4. /\ accepts' \subseteq Servers
        /\ events' \in [Clients -> SUBSET {"HUP", "IN", "OUT"}]
        /\ pc' \in {"wait", "event"}
    BY <2>1, <2>2, <2>3, BatchTypes
  <2>. QED BY <1>6, <2>4 DEF CollectEvents, TypeOK, kernel, boot, objects
<1>. QED BY <1>1, <1>2, <1>3, <1>4, <1>5, <1>6 DEF Boot

LEMMA HandledTypes ==
  ASSUME TypeOK, NEW c \in Clients, Handled(c)
  PROVE  /\ accepts' \subseteq Servers
         /\ events' \in [Clients -> SUBSET {"HUP", "IN", "OUT"}]
         /\ pc' \in {"wait", "event"}
<1>1. [events EXCEPT ![c] = {}] \in [Clients -> SUBSET {"HUP", "IN", "OUT"}]
  BY DEF TypeOK
<1>. QED BY <1>1 DEF Handled, Batch, TypeOK

LEMMA RemoveTypes ==
  ASSUME TypeOK, NEW c \in Clients, RemoveConnection(c)
  PROVE  /\ socket' \in [Fds -> Clients \cup {None}]
         /\ channel' \in [Fds -> Clients \cup {None}]
         /\ interest' \in [Fds -> {"none", "IN", "OUT"}]
         /\ heap' \in [Clients -> {"none", "live", "freed"}]
         /\ fd' \in [Clients -> Fds \cup {None}]
BY DEF RemoveConnection, CloseFd, TypeOK

LEMMA ParseTypes ==
  ASSUME TypeOK, NEW c \in Clients, NEW result, AfterParse(c, result)
  PROVE  /\ socket' \in [Fds -> Clients \cup {None}]
         /\ channel' \in [Fds -> Clients \cup {None}]
         /\ interest' \in [Fds -> {"none", "IN", "OUT"}]
         /\ heap' \in [Clients -> {"none", "live", "freed"}]
         /\ fd' \in [Clients -> Fds \cup {None}]
         /\ phase' \in [Clients -> Phases]
<1>1. CASE RemoveConnection(c) /\ UNCHANGED phase
  BY <1>1, RemoveTypes DEF TypeOK
<1>2. CASE /\ result \in Phases
           /\ phase' = [phase EXCEPT ![c] = result]
           /\ UNCHANGED <<socket, heap, fd>>
           /\ IF result = "complete" /\ channel[fd[c]] # None
              THEN /\ channel' = [channel EXCEPT ![fd[c]] = c]
                   /\ interest' = [interest EXCEPT ![fd[c]] = "OUT"]
              ELSE UNCHANGED <<channel, interest>>
  BY <1>2 DEF TypeOK
<1>. QED BY <1>1, <1>2 DEF AfterParse

LEMMA HandleEventType ==
  ASSUME TypeOK, BatchIsCurrent, CurIsHandled, HandleEvent
  PROVE  TypeOK'
<1>1. ASSUME NEW s \in Servers, AcceptFails(s) PROVE TypeOK'
  <2>1. accepts \ {s} \in SUBSET Servers /\ events \in [Clients -> SUBSET {"HUP", "IN", "OUT"}]
    BY DEF TypeOK
  <2>. QED BY <1>1, <2>1, BatchTypes DEF AcceptFails, TypeOK, kernel, boot, objects
<1>2. ASSUME NEW s \in Servers, NEW c \in Clients, NEW f \in Fds, Accept(s, c, f)
      PROVE TypeOK'
  <2>1. accepts \ {s} \in SUBSET Servers /\ events \in [Clients -> SUBSET {"HUP", "IN", "OUT"}]
    BY DEF TypeOK
  <2>2. /\ accepts' \subseteq Servers
        /\ events' \in [Clients -> SUBSET {"HUP", "IN", "OUT"}]
        /\ pc' \in {"wait", "event"}
    BY <1>2, <2>1, BatchTypes DEF Accept
  <2>3. /\ queue' \in [Clients -> Servers \cup {None}]
        /\ socket' \in [Fds -> Clients \cup {None}]
    BY <1>2 DEF Accept, TypeOK
  <2>4. /\ channel' \in [Fds -> Clients \cup {None}]
        /\ interest' \in [Fds -> {"none", "IN", "OUT"}]
    BY <1>2 DEF Accept, TypeOK
  <2>5. /\ heap' \in [Clients -> {"none", "live", "freed"}]
        /\ fd' \in [Clients -> Fds \cup {None}]
    BY <1>2 DEF Accept, TypeOK
  <2>6. UNCHANGED <<peer, unread, configured, listening, watched, running, cur,
                    phase, reply>>
    BY <1>2 DEF Accept, boot
  <2>. QED BY <2>2, <2>3, <2>4, <2>5, <2>6 DEF TypeOK
<1>3. ASSUME NEW c \in Clients, HandleHangUp(c) PROVE TypeOK'
  BY <1>3, HandledTypes, RemoveTypes DEF HandleHangUp, TypeOK, boot
<1>4. ASSUME NEW c \in Clients, ReadBytes(c) PROVE TypeOK'
  <2>1. PICK result \in AfterBytes[phase[c]] : AfterParse(c, result)
    BY <1>4 DEF ReadBytes
  <2>2. unread' \in [Clients -> 0..MaxUnread]
    <3>1. \A n \in 0..MaxUnread : n > 0 => n - 1 \in 0..MaxUnread
      BY BoundsAssumption
    <3>. QED BY <1>4, <3>1 DEF ReadBytes, TypeOK
  <2>. QED BY <1>4, <2>1, <2>2, HandledTypes, ParseTypes DEF ReadBytes, TypeOK, boot
<1>5. ASSUME NEW c \in Clients, ReadEnd(c) PROVE TypeOK'
  <2>1. phase[c] \in Unfinished
    BY <1>5, PhaseFacts DEF ReadEnd, Readable, BatchIsCurrent, TypeOK
  <2>2. phase' \in [Clients -> Phases]
    BY <1>5, <2>1, PhaseFacts DEF ReadEnd, TypeOK
  <2>. QED BY <1>5, <2>2, HandledTypes DEF ReadEnd, CloseFd, TypeOK, boot
<1>6. ASSUME NEW c \in Clients, ReadFails(c) PROVE TypeOK'
  <2>1. PICK result \in AfterNothing[phase[c]] : AfterParse(c, result)
    BY <1>6 DEF ReadFails
  <2>. QED BY <1>6, <2>1, HandledTypes, ParseTypes DEF ReadFails, TypeOK, boot
<1>7. ASSUME NEW c \in Clients, HandleRequest(c) PROVE TypeOK'
  BY <1>7 DEF HandleRequest, TypeOK, kernel, boot, objects
<1>8. CASE SendResponse
  <2>1. cur \in Clients
    BY <1>8 DEF SendResponse, CurIsHandled, TypeOK
  <2>. QED BY <1>8, <2>1, HandledTypes, RemoveTypes
             DEF SendResponse, TypeOK, kernel, boot, objects
<1>. QED BY <1>1, <1>2, <1>3, <1>4, <1>5, <1>6, <1>7, <1>8 DEF HandleEvent

LEMMA StutterType == ASSUME TypeOK, UNCHANGED vars PROVE TypeOK'
BY DEF TypeOK, vars

------------------------------------------------------------------------------
(* The inductive invariant.  The parts besides TypeOK are taken together. *)

Objects == /\ DescriptorOwnership
           /\ EventsAreLive
           /\ BatchIsCurrent
           /\ InterestMatchesRequest
           /\ Unaccepted
           /\ CurIsHandled
           /\ AnsweredIsFreed

LEMMA IInvSplit == IInv <=> TypeOK /\ Objects
BY DEF IInv, Objects

LEMMA InitObjects == Init => Objects
BY NoneAssumption
   DEF Init, Objects, DescriptorOwnership, EventsAreLive, BatchIsCurrent, Registered,
       InterestMatchesRequest, Unaccepted, CurIsHandled, AnsweredIsFreed

(* Steps that touch no object, no registration and no event. *)
LEMMA ObjectsUntouched ==
  ASSUME TypeOK, Objects,
         UNCHANGED <<socket, channel, interest, events, cur, heap, fd, phase, reply>>,
         \A c \in Clients : queue'[c] # queue[c] => peer[c] = "idle" /\ peer'[c] # "idle",
         \A c \in Clients : peer'[c] = "idle" => peer[c] = "idle",
         pc' = pc \/ (pc # "send" /\ cur = None /\ pc' # "send")
  PROVE  Objects'
<1>1. DescriptorOwnership' /\ EventsAreLive' /\ BatchIsCurrent'
      /\ InterestMatchesRequest' /\ AnsweredIsFreed'
  BY DEF Objects, DescriptorOwnership, EventsAreLive, BatchIsCurrent, Registered,
         InterestMatchesRequest, AnsweredIsFreed
<1>2. Unaccepted'
  BY DEF Objects, Unaccepted
<1>3. CurIsHandled'
  BY DEF Objects, CurIsHandled
<1>. QED BY <1>1, <1>2, <1>3 DEF Objects

LEMMA EnvironmentObjects ==
  ASSUME TypeOK, Objects, Environment PROVE Objects'
<1>1. CASE Signal
  BY <1>1, ObjectsUntouched DEF Signal, kernel, boot, objects
<1>2. ASSUME NEW c \in Clients, NEW s \in Servers, Connect(c, s) PROVE Objects'
  <2>1. /\ peer[c] = "idle" /\ peer'[c] = "up"
        /\ \A d \in Clients : d # c => peer'[d] = peer[d] /\ queue'[d] = queue[d]
    BY <1>2 DEF Connect, TypeOK
  <2>. QED BY <1>2, <2>1, ObjectsUntouched DEF Connect, boot, objects
<1>3. ASSUME NEW c \in Clients, Send(c) PROVE Objects'
  BY <1>3, ObjectsUntouched DEF Send, kernel, boot, objects
<1>4. ASSUME NEW c \in Clients, Close(c) PROVE Objects'
  <2>1. \A d \in Clients : peer'[d] = "idle" => peer[d] = "idle"
    BY <1>4 DEF Close, TypeOK
  <2>. QED BY <1>4, <2>1, ObjectsUntouched DEF Close, kernel, boot, objects
<1>5. ASSUME NEW c \in Clients, Reset(c) PROVE Objects'
  <2>1. \A d \in Clients : peer'[d] = "idle" => peer[d] = "idle"
    BY <1>5 DEF Reset, TypeOK
  <2>. QED BY <1>5, <2>1, ObjectsUntouched DEF Reset, kernel, boot, objects
<1>. QED BY <1>1, <1>2, <1>3, <1>4, <1>5 DEF Environment

(* Outside the for loop no response is being produced. *)
LEMMA NoCur == ASSUME Objects, pc \notin {"send", "aborted"} PROVE cur = None
BY DEF Objects, CurIsHandled

LEMMA CollectObjects ==
  ASSUME TypeOK, Objects, CollectEvents PROVE Objects'
<1>. DEFINE B(F) == [c \in Clients |-> UNION {Bits(f) : f \in {g \in F : channel[g] = c}}]
<1>1. PICK F \in SUBSET ReadyFds, S \in SUBSET ReadyServers : Batch(S, B(F))
  BY DEF CollectEvents
<1>2. /\ UNCHANGED <<peer, queue, socket, channel, interest, cur, heap, fd, phase, reply>>
      /\ pc' # "send"
  BY <1>1 DEF CollectEvents, kernel, objects, Batch
<1>3. ASSUME NEW c \in Clients, NEW b \in events'[c]
      PROVE  \E f \in Fds : channel[f] = c /\ b \in Bits(f)
  BY <1>1 DEF Batch, ReadyFds
<1>4. cur = None
  BY NoCur DEF CollectEvents
<1>5. DescriptorOwnership' /\ InterestMatchesRequest' /\ Unaccepted' /\ AnsweredIsFreed'
  BY <1>2 DEF Objects, DescriptorOwnership, InterestMatchesRequest, Unaccepted,
              AnsweredIsFreed
<1>6. BatchIsCurrent'
  <2>. SUFFICES ASSUME NEW c \in Clients, events'[c] # {}
                PROVE  /\ fd[c] # None /\ channel[fd[c]] = c
                       /\ "OUT" \in events'[c] => phase[c] = "complete"
                       /\ "IN" \in events'[c] => phase[c] # "complete"
    BY <1>2 DEF BatchIsCurrent
  <2>1. \A f \in Fds : channel[f] = c => fd[c] = f
    BY NoneAssumption DEF Objects, DescriptorOwnership
  <2>2. fd[c] \in Fds /\ channel[fd[c]] = c
    BY <1>3, <2>1
  <2>3. interest[fd[c]] = IF phase[c] = "complete" THEN "OUT" ELSE "IN"
    BY <2>2, NoneAssumption DEF Objects, InterestMatchesRequest
  <2>4. \A b \in events'[c] : b \in Bits(fd[c])
    BY <1>3, <2>1
  <2>5. /\ "OUT" \in events'[c] => interest[fd[c]] = "OUT"
        /\ "IN" \in events'[c] => interest[fd[c]] = "IN"
    BY <2>4 DEF Bits
  <2>. QED BY <2>2, <2>3, <2>5, NoneAssumption
<1>7. EventsAreLive'
  BY <1>2, <1>3, <1>4, NoneAssumption DEF Objects, EventsAreLive, Registered
<1>8. CurIsHandled'
  BY <1>2, <1>4 DEF CurIsHandled
<1>. QED BY <1>5, <1>6, <1>7, <1>8 DEF Objects

LEMMA LoopObjects ==
  ASSUME TypeOK, Objects, Boot \/ LeaveLoop \/ CollectFails PROVE Objects'
<1>1. CASE StartServerFails
  BY <1>1, ObjectsUntouched, NoCur DEF StartServerFails, kernel, boot, objects
<1>2. CASE EnterLoop
  BY <1>2, ObjectsUntouched, NoCur DEF EnterLoop, kernel, boot, objects
<1>3. ASSUME NEW s \in Servers, StartServer(s) PROVE Objects'
  BY <1>3, ObjectsUntouched DEF StartServer, kernel, objects
<1>4. CASE LeaveLoop
  BY <1>4, ObjectsUntouched, NoCur DEF LeaveLoop, kernel, boot, objects
<1>5. CASE CollectFails
  BY <1>5, ObjectsUntouched DEF CollectFails, kernel, boot, objects
<1>. QED BY <1>1, <1>2, <1>3, <1>4, <1>5 DEF Boot

(* What the batch and the registration say of a connection whose event is being
   handled. *)
LEMMA HandledConnection ==
  ASSUME TypeOK, Objects, NEW c \in Clients, events[c] # {}
  PROVE  /\ fd[c] \in Fds /\ channel[fd[c]] = c /\ socket[fd[c]] = c
         /\ heap[c] = "live" /\ queue[c] = None /\ peer[c] # "idle"
         /\ reply[c] = "none"
         /\ \A f \in Fds : channel[f] = c => f = fd[c]
         /\ \A d \in Clients : d # c /\ events[d] # {} => fd[d] # fd[c]
<1>1. fd[c] \in Fds /\ channel[fd[c]] = c
  BY DEF Objects, BatchIsCurrent, TypeOK
<1>2. socket[fd[c]] = c /\ \A f \in Fds : channel[f] = c => f = fd[c]
  BY <1>1, NoneAssumption DEF Objects, DescriptorOwnership
<1>3. heap[c] = "live"
  BY DEF Objects, EventsAreLive
<1>4. queue[c] = None /\ peer[c] # "idle" /\ reply[c] = "none"
  BY <1>3 DEF Objects, Unaccepted, AnsweredIsFreed
<1>5. \A d \in Clients : d # c /\ events[d] # {} => fd[d] # fd[c]
  BY <1>1 DEF Objects, BatchIsCurrent
<1>. QED BY <1>1, <1>2, <1>3, <1>4, <1>5

(* The event of c is handled: the others keep theirs. *)
LEMMA HandledEvents ==
  ASSUME TypeOK, NEW c \in Clients, Handled(c)
  PROVE  /\ events'[c] = {}
         /\ \A d \in Clients : d # c => events'[d] = events[d]
         /\ pc' \in {"wait", "event"}
BY DEF Handled, Batch, TypeOK

(* A descriptor is closed, its connection deleted or lost, and its event is
   handled. *)
LEMMA ClosingObjects ==
  ASSUME TypeOK, Objects, NEW c \in Clients, events[c] # {},
         CloseFd(fd[c]), Handled(c), cur' = None,
         \A d \in Clients : d # c => heap'[d] = heap[d] /\ fd'[d] = fd[d]
                                    /\ phase'[d] = phase[d] /\ reply'[d] = reply[d],
         heap'[c] # "none", reply'[c] # "none" => heap'[c] = "freed",
         UNCHANGED <<peer, queue>>
  PROVE  Objects'
<1>1. /\ fd[c] \in Fds
      /\ \A f \in Fds : channel[f] = c => f = fd[c]
      /\ \A d \in Clients : d # c /\ events[d] # {} => fd[d] # fd[c]
      /\ queue[c] = None /\ peer[c] # "idle"
  BY HandledConnection
<1>2. /\ channel'[fd[c]] = None
      /\ \A f \in Fds : f # fd[c] =>
           /\ channel'[f] = channel[f] /\ socket'[f] = socket[f]
           /\ interest'[f] = interest[f]
  BY <1>1 DEF CloseFd, TypeOK
<1>3. \A f \in Fds : channel'[f] # None => /\ f # fd[c] /\ channel'[f] = channel[f]
                                          /\ channel[f] \in Clients \ {c}
  BY <1>1, <1>2 DEF TypeOK
<1>4. /\ events'[c] = {}
      /\ \A d \in Clients : d # c => events'[d] = events[d]
      /\ pc' \in {"wait", "event"}
  BY HandledEvents
<1>5. DescriptorOwnership'
  BY <1>2, <1>3 DEF Objects, DescriptorOwnership
<1>6. EventsAreLive'
  BY <1>3, <1>4, NoneAssumption DEF Objects, EventsAreLive, Registered
<1>7. BatchIsCurrent'
  <2>1. ASSUME NEW d \in Clients, events'[d] # {}
        PROVE  /\ d # c /\ events'[d] = events[d] /\ phase'[d] = phase[d]
               /\ fd'[d] = fd[d] /\ fd[d] # None
               /\ channel'[fd[d]] = d
               /\ "OUT" \in events[d] => phase[d] = "complete"
               /\ "IN" \in events[d] => phase[d] # "complete"
    BY <2>1, <1>1, <1>2, <1>4 DEF Objects, BatchIsCurrent, TypeOK
  <2>. QED BY <2>1 DEF BatchIsCurrent
<1>8. InterestMatchesRequest'
  BY <1>2, <1>3 DEF Objects, InterestMatchesRequest
<1>9. Unaccepted' /\ AnsweredIsFreed'
  BY <1>1 DEF Objects, Unaccepted, AnsweredIsFreed
<1>10. CurIsHandled'
  BY <1>4 DEF CurIsHandled
<1>. QED BY <1>5, <1>6, <1>7, <1>8, <1>9, <1>10 DEF Objects

LEMMA RemoveObjects ==
  ASSUME TypeOK, Objects, NEW c \in Clients, events[c] # {},
         RemoveConnection(c), Handled(c), cur' = None,
         \A d \in Clients : d # c => reply'[d] = reply[d],
         UNCHANGED <<peer, queue, phase>>
  PROVE  Objects'
<1>1. /\ heap'[c] = "freed"
      /\ \A d \in Clients : d # c => heap'[d] = heap[d] /\ fd'[d] = fd[d]
  BY DEF RemoveConnection, TypeOK
<1>2. CloseFd(fd[c])
  BY DEF RemoveConnection
<1>. QED BY <1>1, <1>2, ClosingObjects

(* The request of c moves and its registration with it. *)
LEMMA ParseObjects ==
  ASSUME TypeOK, Objects, NEW c \in Clients, events[c] # {}, "IN" \in events[c],
         NEW result, AfterParse(c, result), Handled(c), pc = "event",
         UNCHANGED <<peer, queue, cur, reply>>
  PROVE  Objects'
<1>1. cur = None
  BY NoCur
<1>2. CASE RemoveConnection(c) /\ UNCHANGED phase
  BY <1>1, <1>2, RemoveObjects
<1>3. CASE /\ phase' = [phase EXCEPT ![c] = result]
           /\ UNCHANGED <<socket, heap, fd>>
           /\ IF result = "complete" /\ channel[fd[c]] # None
              THEN /\ channel' = [channel EXCEPT ![fd[c]] = c]
                   /\ interest' = [interest EXCEPT ![fd[c]] = "OUT"]
              ELSE UNCHANGED <<channel, interest>>
  <2>1. /\ fd[c] \in Fds /\ channel[fd[c]] = c /\ heap[c] = "live"
        /\ \A f \in Fds : channel[f] = c => f = fd[c]
    BY HandledConnection
  <2>2. phase[c] # "complete"
    BY DEF Objects, BatchIsCurrent
  <2>3. phase'[c] = result /\ \A d \in Clients : d # c => phase'[d] = phase[d]
    BY <1>3 DEF TypeOK
  <2>4. /\ channel' = channel
        /\ \A f \in Fds : f # fd[c] => interest'[f] = interest[f]
        /\ interest'[fd[c]] = IF result = "complete" THEN "OUT" ELSE interest[fd[c]]
    BY <1>3, <2>1, NoneAssumption DEF TypeOK
  <2>5. interest[fd[c]] = "IN"
    BY <2>1, <2>2, NoneAssumption DEF Objects, InterestMatchesRequest
  <2>6. /\ events'[c] = {}
        /\ \A d \in Clients : d # c => events'[d] = events[d]
        /\ pc' \in {"wait", "event"}
    BY HandledEvents
  <2>7. DescriptorOwnership' /\ Unaccepted' /\ AnsweredIsFreed'
    BY <1>3, <2>1, <2>3, <2>4 DEF Objects, DescriptorOwnership, Unaccepted,
                                  AnsweredIsFreed
  <2>8. EventsAreLive'
    BY <1>3, <2>4, <2>6 DEF Objects, EventsAreLive, Registered
  <2>9. BatchIsCurrent'
    BY <1>3, <2>3, <2>4, <2>6 DEF Objects, BatchIsCurrent
  <2>10. InterestMatchesRequest'
    <3>. SUFFICES ASSUME NEW f \in Fds, channel[f] # None
                  PROVE  interest'[f] = IF phase'[channel[f]] = "complete"
                                        THEN "OUT" ELSE "IN"
      BY <2>4 DEF InterestMatchesRequest
    <3>1. CASE f = fd[c]
      BY <3>1, <2>1, <2>3, <2>4, <2>5
    <3>2. CASE f # fd[c]
      BY <3>2, <2>1, <2>3, <2>4 DEF Objects, InterestMatchesRequest, TypeOK
    <3>. QED BY <3>1, <3>2
  <2>11. CurIsHandled'
    BY <1>1, <2>6 DEF CurIsHandled
  <2>. QED BY <2>7, <2>8, <2>9, <2>10, <2>11 DEF Objects
<1>. QED BY <1>2, <1>3 DEF AfterParse

LEMMA AcceptObjects ==
  ASSUME TypeOK, Objects, NEW s \in Servers, NEW c \in Clients, NEW f \in Fds,
         Accept(s, c, f)
  PROVE  Objects'
<1>1. /\ queue[c] = s /\ socket[f] = None /\ pc = "event" /\ pc' # "send"
      /\ UNCHANGED <<peer, events, cur, phase, reply>>
  BY DEF Accept, FreeFds, Batch
<1>2. /\ heap[c] = "none" /\ peer[c] # "idle" /\ s # None
      /\ events[c] = {} /\ reply[c] = "none"
      /\ \A g \in Fds : channel[g] # c
  BY <1>1, NoneAssumption DEF Objects, Unaccepted, EventsAreLive, Registered,
                              AnsweredIsFreed
<1>3. channel[f] = None
  BY <1>1, NoneAssumption DEF Objects, DescriptorOwnership
<1>4. cur = None
  BY <1>1, NoCur
<1>5. /\ queue'[c] = None
      /\ \A d \in Clients : d # c => queue'[d] = queue[d]
      /\ socket'[f] = c
      /\ \A g \in Fds : g # f => socket'[g] = socket[g]
  BY DEF Accept, TypeOK
<1>6. /\ heap'[c] # "none"
      /\ \A d \in Clients : d # c => heap'[d] = heap[d] /\ fd'[d] = fd[d]
  BY DEF Accept, TypeOK
<1>7. \A g \in Fds : g # f => channel'[g] = channel[g] /\ interest'[g] = interest[g]
  BY DEF Accept, TypeOK
<1>8. \/ channel'[f] = None
      \/ /\ channel'[f] = c /\ interest'[f] = "IN" /\ heap'[c] = "live" /\ fd'[c] = f
  BY <1>3 DEF Accept, TypeOK
<1>9. phase[c] = "head"
  BY <1>2 DEF Objects, Unaccepted
<1>10. DescriptorOwnership'
  BY <1>2, <1>5, <1>6, <1>7, <1>8, NoneAssumption DEF Objects, DescriptorOwnership, TypeOK
<1>11. EventsAreLive'
  BY <1>1, <1>2, <1>4, <1>6, <1>7, <1>8, NoneAssumption
     DEF Objects, EventsAreLive, Registered, TypeOK
<1>12. BatchIsCurrent'
  <2>. SUFFICES ASSUME NEW d \in Clients, events[d] # {}
                PROVE  fd'[d] # None /\ channel'[fd'[d]] = d
    BY <1>1 DEF Objects, BatchIsCurrent
  <2>1. d # c /\ fd[d] \in Fds /\ channel[fd[d]] = d
    BY <1>2 DEF Objects, BatchIsCurrent, TypeOK
  <2>. QED BY <1>3, <1>6, <1>7, <2>1, NoneAssumption
<1>13. InterestMatchesRequest'
  BY <1>1, <1>7, <1>8, <1>9 DEF Objects, InterestMatchesRequest, TypeOK
<1>14. Unaccepted' /\ AnsweredIsFreed'
  BY <1>1, <1>2, <1>5, <1>6 DEF Objects, Unaccepted, AnsweredIsFreed
<1>15. CurIsHandled'
  BY <1>1, <1>4 DEF CurIsHandled
<1>. QED BY <1>10, <1>11, <1>12, <1>13, <1>14, <1>15 DEF Objects

LEMMA HandleEventObjects ==
  ASSUME TypeOK, Objects, HandleEvent PROVE Objects'
<1>1. ASSUME NEW s \in Servers, AcceptFails(s) PROVE Objects'
  BY <1>1, ObjectsUntouched, NoCur DEF AcceptFails, Batch, kernel, objects
<1>2. ASSUME NEW s \in Servers, NEW c \in Clients, NEW f \in Fds, Accept(s, c, f)
      PROVE Objects'
  BY <1>2, AcceptObjects
<1>3. ASSUME NEW c \in Clients, HandleHangUp(c) PROVE Objects'
  <2>1. events[c] # {} /\ cur' = None
    BY <1>3, NoCur DEF HandleHangUp
  <2>. QED BY <1>3, <2>1, RemoveObjects DEF HandleHangUp
<1>4. ASSUME NEW c \in Clients, ReadBytes(c) PROVE Objects'
  <2>1. "IN" \in events[c] /\ events[c] # {} /\ pc = "event"
    BY <1>4 DEF ReadBytes, Readable
  <2>. QED BY <1>4, <2>1, ParseObjects DEF ReadBytes
<1>5. ASSUME NEW c \in Clients, ReadEnd(c) PROVE Objects'
  <2>1. events[c] # {} /\ cur' = None
    BY <1>5, NoCur DEF ReadEnd, Readable
  <2>2. /\ heap[c] = "live" /\ reply[c] = "none" /\ UNCHANGED <<heap, fd, reply>>
        /\ \A d \in Clients : d # c => phase'[d] = phase[d]
    BY <1>5, <2>1, HandledConnection DEF ReadEnd, TypeOK
  <2>. QED BY <1>5, <2>1, <2>2, ClosingObjects DEF ReadEnd
<1>6. ASSUME NEW c \in Clients, ReadFails(c) PROVE Objects'
  <2>1. "IN" \in events[c] /\ events[c] # {} /\ pc = "event"
    BY <1>6 DEF ReadFails, Readable
  <2>. QED BY <1>6, <2>1, ParseObjects DEF ReadFails
<1>7. ASSUME NEW c \in Clients, HandleRequest(c) PROVE Objects'
  <2>1. /\ events[c] = {"OUT"} /\ cur' = c /\ c # None
        /\ pc' \in {"send", "aborted"}
        /\ UNCHANGED <<peer, queue, socket, channel, interest, events, heap, fd, phase,
                       reply>>
    BY <1>7, NoneAssumption DEF HandleRequest, kernel, objects
  <2>2. heap[c] = "live"
    BY <2>1, HandledConnection
  <2>. QED BY <2>1, <2>2 DEF Objects, DescriptorOwnership, EventsAreLive, Registered,
                BatchIsCurrent, InterestMatchesRequest, Unaccepted, CurIsHandled,
                AnsweredIsFreed
<1>8. CASE SendResponse
  <2>1. cur \in Clients /\ events[cur] # {}
    BY <1>8 DEF SendResponse, Objects, CurIsHandled, TypeOK
  <2>2. socket[fd[cur]] = cur
    BY <2>1, HandledConnection
  <2>3. CASE /\ pc' = "aborted"
             /\ UNCHANGED <<kernel, accepts, events, cur, objects, reply>>
    BY <1>8, <2>1, <2>3
       DEF SendResponse, kernel, objects, Objects, DescriptorOwnership, EventsAreLive,
           Registered, BatchIsCurrent, InterestMatchesRequest, Unaccepted, CurIsHandled,
           AnsweredIsFreed
  <2>4. CASE /\ \E sent \in {"cut", "whole"} :
                   reply' = [reply EXCEPT ![socket[fd[cur]]] = sent]
             /\ RemoveConnection(cur)
             /\ Handled(cur)
             /\ cur' = None
             /\ UNCHANGED <<queue, phase>>
    <3>1. \A d \in Clients : d # cur => reply'[d] = reply[d]
      BY <2>2, <2>4 DEF TypeOK
    <3>. QED BY <1>8, <2>1, <2>4, <3>1, RemoveObjects DEF SendResponse
  <2>. QED BY <1>8, <2>3, <2>4 DEF SendResponse
<1>. QED BY <1>1, <1>2, <1>3, <1>4, <1>5, <1>6, <1>7, <1>8 DEF HandleEvent

LEMMA StutterObjects == ASSUME Objects, UNCHANGED vars PROVE Objects'
BY DEF vars, Objects, DescriptorOwnership, EventsAreLive, Registered, BatchIsCurrent,
       InterestMatchesRequest, Unaccepted, CurIsHandled, AnsweredIsFreed

------------------------------------------------------------------------------
(* Theorems. *)

(* The inductive invariant: every step of the loop, of a client or of a signal
   keeps the objects, the descriptor table and the registrations consistent. *)
THEOREM Invariance == Spec => []IInv
<1>1. Init => IInv
  BY InitType, InitObjects, IInvSplit
<1>2. IInv /\ [Next]_vars => IInv'
  <2>. SUFFICES ASSUME TypeOK, Objects, [Next]_vars PROVE TypeOK' /\ Objects'
    BY IInvSplit DEF IInv, Objects
  <2>1. CASE Environment
    BY <2>1, EnvironmentType, EnvironmentObjects
  <2>2. CASE Boot \/ LeaveLoop \/ CollectFails
    BY <2>2, LoopType, LoopObjects
  <2>3. CASE CollectEvents
    BY <2>3, LoopType, CollectObjects
  <2>4. CASE HandleEvent
    BY <2>4, HandleEventType, HandleEventObjects DEF Objects
  <2>5. CASE Terminated \/ UNCHANGED vars
    BY <2>5, StutterType, StutterObjects DEF Terminated
  <2>. QED BY <2>1, <2>2, <2>3, <2>4, <2>5 DEF Next, Process
<1>. QED BY <1>1, <1>2, PTL DEF Spec

(* Every variable of the loop keeps its type. *)
THEOREM TypeCorrect == Spec => []TypeOK
BY Invariance, PTL DEF IInv

(* What epoll reports and what a batch holds is never a deleted Connection or
   channel_t: loop() has no use after free, whatever clients do. *)
THEOREM NoUseAfterFree == Spec => []EventsAreLive
BY Invariance, PTL DEF IInv

(* A registered descriptor is connected to the client its Connection was accepted
   for, although the kernel reuses the numbers loop() closes. *)
THEOREM OwnDescriptors == Spec => []DescriptorOwnership
BY Invariance, PTL DEF IInv

(* No event handled earlier in a batch makes a later one stale. *)
THEOREM BatchesStayCurrent == Spec => []BatchIsCurrent
BY Invariance, PTL DEF IInv

(* A connection waits for EPOLLOUT exactly when its request is complete. *)
THEOREM InterestIsRight == Spec => []InterestMatchesRequest
BY Invariance, PTL DEF IInv

------------------------------------------------------------------------------
(* What a close and an accept do to the set of registered connections. *)

LEMMA ClosingRegistered ==
  ASSUME TypeOK, Objects, NEW c \in Clients, events[c] # {}, CloseFd(fd[c])
  PROVE  /\ ~Registered(c)'
         /\ \A d \in Clients : d # c => (Registered(d)' <=> Registered(d))
<1>1. /\ fd[c] \in Fds /\ channel[fd[c]] = c
      /\ \A f \in Fds : channel[f] = c => f = fd[c]
  BY HandledConnection
<1>2. channel'[fd[c]] = None /\ \A f \in Fds : f # fd[c] => channel'[f] = channel[f]
  BY <1>1 DEF CloseFd, TypeOK
<1>. QED BY <1>1, <1>2, NoneAssumption DEF Registered

LEMMA AcceptRegistered ==
  ASSUME TypeOK, Objects, NEW s \in Servers, NEW c \in Clients, NEW f \in Fds,
         Accept(s, c, f)
  PROVE  /\ heap[c] = "none" /\ reply'[c] = "none" /\ phase'[c] = "head"
         /\ \/ heap'[c] = "live" /\ Registered(c)'
            \/ heap'[c] = "live" /\ ~Registered(c)' /\ "epoll_add" \in Faults
            \/ heap'[c] = "freed"
         /\ \A d \in Clients : d # c => /\ heap'[d] = heap[d]
                                       /\ (Registered(d)' <=> Registered(d))
         /\ UNCHANGED <<phase, reply>>
<1>1. heap[c] = "none"
  BY NoneAssumption DEF Accept, Objects, Unaccepted
<1>2. /\ reply[c] = "none" /\ phase[c] = "head" /\ UNCHANGED <<phase, reply>>
      /\ \A g \in Fds : channel[g] # c
  BY <1>1 DEF Accept, Objects, Unaccepted, EventsAreLive, Registered, AnsweredIsFreed
<1>3. channel[f] = None
  BY NoneAssumption DEF Accept, FreeFds, Objects, DescriptorOwnership
<1>4. \A g \in Fds : g # f => channel'[g] = channel[g]
  BY DEF Accept, TypeOK
<1>5. \A d \in Clients : d # c => heap'[d] = heap[d]
  BY DEF Accept, TypeOK
<1>6. \/ heap'[c] = "live" /\ channel'[f] = c
      \/ heap'[c] = "live" /\ channel' = channel /\ "epoll_add" \in Faults
      \/ heap'[c] = "freed" /\ channel' = channel
  BY DEF Accept, TypeOK
<1>7. channel'[f] \in {c, None}
  BY <1>3, <1>6
<1>8. \A d \in Clients : d # c => (Registered(d)' <=> Registered(d))
  BY <1>3, <1>4, <1>7, NoneAssumption DEF Registered
<1>9. \/ heap'[c] = "live" /\ Registered(c)'
      \/ heap'[c] = "live" /\ ~Registered(c)' /\ "epoll_add" \in Faults
      \/ heap'[c] = "freed"
  BY <1>2, <1>6 DEF Registered
<1>. QED BY <1>1, <1>2, <1>5, <1>8, <1>9

(* What a call of parse, and the registration that follows it, come to. *)
LEMMA ParseRegistered ==
  ASSUME TypeOK, Objects, NEW c \in Clients, "IN" \in events[c], NEW result,
         AfterParse(c, result)
  PROVE  /\ \/ heap'[c] = "freed" /\ ~Registered(c)' /\ UNCHANGED phase
            \/ /\ phase' = [phase EXCEPT ![c] = result]
               /\ UNCHANGED <<socket, channel, heap>>
         /\ \A d \in Clients : d # c =>
               /\ heap'[d] = heap[d] /\ phase'[d] = phase[d]
               /\ (Registered(d)' <=> Registered(d))
<1>1. CASE RemoveConnection(c) /\ UNCHANGED phase
  <2>1. /\ heap'[c] = "freed" /\ CloseFd(fd[c])
        /\ \A d \in Clients : d # c => heap'[d] = heap[d]
    BY <1>1 DEF RemoveConnection, TypeOK
  <2>. QED BY <1>1, <2>1, ClosingRegistered
<1>2. CASE /\ phase' = [phase EXCEPT ![c] = result]
           /\ UNCHANGED <<socket, heap>>
           /\ \/ channel' = [channel EXCEPT ![fd[c]] = c]
              \/ UNCHANGED channel
  <2>1. fd[c] \in Fds /\ channel[fd[c]] = c
    BY HandledConnection
  <2>2. channel' = channel
    BY <1>2, <2>1 DEF TypeOK
  <2>. QED BY <1>2, <2>2 DEF Registered, TypeOK
<1>. QED BY <1>1, <1>2 DEF AfterParse

------------------------------------------------------------------------------
(* The loop implements ConnectionService. *)

LEMMA StageFrame ==
  ASSUME NEW d \in Clients, reply'[d] = reply[d], heap'[d] = heap[d],
         phase'[d] = phase[d], Registered(d)' <=> Registered(d)
  PROVE  Stage(d)' = Stage(d)
BY DEF Stage

LEMMA ServiceMove ==
  ASSUME NEW c \in Clients, NEW from, NEW to, Alive, Alive', Stage(c) \in from,
         Stage(c)' = to, \A d \in Clients : d # c => Stage(d)' = Stage(d)
  PROVE  Service!Move(c, from, to)
BY DEF Service!Move

(* A registered connection that has not been answered is being read, or ready. *)
LEMMA RegisteredStage ==
  ASSUME TypeOK, Objects, NEW c \in Clients, events[c] # {}
  PROVE  /\ Stage(c) = IF phase[c] = "complete" THEN "ready" ELSE "reading"
         /\ reply[c] = "none" /\ Registered(c) /\ heap[c] = "live"
<1>1. /\ fd[c] \in Fds /\ channel[fd[c]] = c
      /\ heap[c] = "live" /\ reply[c] = "none"
  BY HandledConnection
<1>. QED BY <1>1 DEF Stage, Registered

LEMMA ServiceStutters ==
  ASSUME UNCHANGED <<reply, heap, phase, channel>>
  PROVE  /\ Alive' = Alive => UNCHANGED Service!svars
         /\ Alive /\ ~Alive' => Service!Halt
<1>1. \A d \in Clients : Stage(d)' = Stage(d)
  BY StageFrame DEF Registered
<1>. QED BY <1>1 DEF Service!svars, Service!Halt

LEMMA ParseServes ==
  ASSUME TypeOK, Objects, NEW c \in Clients, "IN" \in events[c], NEW result,
         AfterParse(c, result), reply' = reply, Alive, Alive'
  PROVE  [Service!SNext]_(Service!svars)
<1>1. Stage(c) = "reading" /\ reply[c] = "none" /\ Registered(c) /\ heap[c] = "live"
  BY RegisteredStage DEF Objects, BatchIsCurrent
<1>2. \A d \in Clients : d # c => Stage(d)' = Stage(d)
  BY ParseRegistered, StageFrame
<1>3. CASE heap'[c] = "freed"
  <2>1. Stage(c)' = "dropped"
    BY <1>1, <1>3 DEF Stage
  <2>. QED BY <1>1, <1>2, <2>1, ServiceMove DEF Service!SNext, Service!Drop
<1>4. CASE /\ phase' = [phase EXCEPT ![c] = result]
           /\ UNCHANGED <<channel, heap>>
  <2>1. Stage(c)' = IF result = "complete" THEN "ready" ELSE "reading"
    BY <1>1, <1>4 DEF Stage, Registered, TypeOK
  <2>2. CASE result = "complete"
    BY <1>1, <1>2, <2>1, <2>2, ServiceMove DEF Service!SNext, Service!Complete
  <2>3. CASE result # "complete"
    BY <1>1, <1>2, <2>1, <2>3 DEF Service!svars
  <2>. QED BY <2>2, <2>3
<1>. QED BY <1>3, <1>4, ParseRegistered

LEMMA ClosingServes ==
  ASSUME TypeOK, Objects, NEW c \in Clients, events[c] # {}, CloseFd(fd[c]),
         Alive, Alive', heap'[c] # "none",
         \A d \in Clients : d # c =>
            heap'[d] = heap[d] /\ phase'[d] = phase[d] /\ reply'[d] = reply[d]
  PROVE  /\ \A d \in Clients : d # c => Stage(d)' = Stage(d)
         /\ reply'[c] = reply[c] => Service!Drop(c)
<1>1. \A d \in Clients : d # c => Stage(d)' = Stage(d)
  BY ClosingRegistered, StageFrame
<1>2. Stage(c) \in {"unknown", "reading", "ready"} /\ reply[c] = "none"
  BY RegisteredStage
<1>3. reply'[c] = reply[c] => Stage(c)' = "dropped"
  BY <1>2, ClosingRegistered DEF Stage
<1>. QED BY <1>1, <1>2, <1>3, ServiceMove DEF Service!Drop

LEMMA HandleEventServes ==
  ASSUME TypeOK, Objects, HandleEvent PROVE [Service!SNext]_(Service!svars)
<1>1. ASSUME NEW s \in Servers, AcceptFails(s) PROVE [Service!SNext]_(Service!svars)
  <2>1. Alive /\ Alive' /\ UNCHANGED <<reply, heap, phase, channel>>
    BY <1>1 DEF AcceptFails, Batch, Alive, kernel, objects
  <2>. QED BY <2>1, ServiceStutters
<1>2. ASSUME NEW s \in Servers, NEW c \in Clients, NEW f \in Fds, Accept(s, c, f)
      PROVE [Service!SNext]_(Service!svars)
  <2>1. Alive /\ Alive'
    BY <1>2 DEF Accept, Batch, Alive
  <2>2. \A d \in Clients : d # c => Stage(d)' = Stage(d)
    BY <1>2, AcceptRegistered, StageFrame
  <2>3. Stage(c) = "unknown" /\ Stage(c)' \in {"reading", "dropped"}
    BY <1>2, AcceptRegistered DEF Stage
  <2>. QED BY <2>1, <2>2, <2>3, ServiceMove DEF Service!SNext, Service!Admit, Service!Drop
<1>3. ASSUME NEW c \in Clients, HandleHangUp(c) PROVE [Service!SNext]_(Service!svars)
  <2>1. /\ events[c] # {} /\ Alive /\ Alive' /\ CloseFd(fd[c])
        /\ UNCHANGED <<phase, reply>>
    BY <1>3 DEF HandleHangUp, Handled, Batch, Alive, RemoveConnection
  <2>2. heap'[c] # "none" /\ \A d \in Clients : d # c => heap'[d] = heap[d]
    BY <1>3 DEF HandleHangUp, RemoveConnection, TypeOK
  <2>. QED BY <2>1, <2>2, ClosingServes DEF Service!SNext
<1>4. ASSUME NEW c \in Clients, ReadBytes(c) PROVE [Service!SNext]_(Service!svars)
  <2>1. "IN" \in events[c] /\ Alive /\ Alive' /\ reply' = reply
    BY <1>4 DEF ReadBytes, Readable, Handled, Batch, Alive
  <2>. QED BY <1>4, <2>1, ParseServes DEF ReadBytes
<1>5. ASSUME NEW c \in Clients, ReadEnd(c) PROVE [Service!SNext]_(Service!svars)
  <2>1. /\ events[c] # {} /\ Alive /\ Alive' /\ CloseFd(fd[c])
        /\ UNCHANGED <<heap, reply>>
    BY <1>5 DEF ReadEnd, Readable, Handled, Batch, Alive
  <2>2. heap[c] # "none" /\ \A d \in Clients : d # c => phase'[d] = phase[d]
    BY <1>5, <2>1, RegisteredStage DEF ReadEnd, TypeOK
  <2>. QED BY <2>1, <2>2, ClosingServes DEF Service!SNext
<1>6. ASSUME NEW c \in Clients, ReadFails(c) PROVE [Service!SNext]_(Service!svars)
  <2>1. "IN" \in events[c] /\ Alive /\ Alive' /\ reply' = reply
    BY <1>6 DEF ReadFails, Readable, Handled, Batch, Alive
  <2>. QED BY <1>6, <2>1, ParseServes DEF ReadFails
<1>7. ASSUME NEW c \in Clients, HandleRequest(c) PROVE [Service!SNext]_(Service!svars)
  <2>1. /\ Alive /\ UNCHANGED <<reply, heap, phase, channel>>
        /\ Alive' \in BOOLEAN
    BY <1>7 DEF HandleRequest, Alive, kernel, objects
  <2>. QED BY <2>1, ServiceStutters DEF Service!SNext
<1>8. CASE SendResponse
  <2>1. PICK c \in Clients : /\ cur = c /\ events[c] = {"OUT"}
                             /\ phase[c] = "complete" /\ Alive
    BY <1>8 DEF SendResponse, Objects, CurIsHandled, BatchIsCurrent, TypeOK, Alive
  <2>2. socket[fd[c]] = c /\ Stage(c) = "ready"
    BY <2>1, HandledConnection, RegisteredStage
  <2>3. CASE pc' = "aborted" /\ UNCHANGED <<kernel, objects, reply>>
    <3>1. ~Alive' /\ UNCHANGED <<reply, heap, phase, channel>>
      BY <2>3 DEF Alive, kernel, objects
    <3>. QED BY <2>1, <3>1, ServiceStutters DEF Service!SNext
  <2>4. CASE /\ \E sent \in {"cut", "whole"} : reply' = [reply EXCEPT ![c] = sent]
             /\ RemoveConnection(c)
             /\ Handled(c)
             /\ UNCHANGED phase
    <3>1. /\ \A d \in Clients : d # c => reply'[d] = reply[d] /\ heap'[d] = heap[d]
          /\ reply'[c] \in {"cut", "whole"} /\ heap'[c] # "none"
          /\ CloseFd(fd[c]) /\ Alive'
      BY <2>4 DEF RemoveConnection, TypeOK, Handled, Batch, Alive
    <3>2. Stage(c)' = "answered"
      BY <3>1 DEF Stage
    <3>3. \A d \in Clients : d # c => Stage(d)' = Stage(d)
      BY <2>1, <2>4, <3>1, ClosingServes
    <3>. QED BY <2>1, <2>2, <3>1, <3>2, <3>3, ServiceMove DEF Service!SNext, Service!Answer
  <2>. QED BY <1>8, <2>1, <2>2, <2>3, <2>4 DEF SendResponse
<1>. QED BY <1>1, <1>2, <1>3, <1>4, <1>5, <1>6, <1>7, <1>8 DEF HandleEvent

(* Every step that is not the handling of an event is a stutter or the end of the
   process. *)
LEMMA OtherServes ==
  ASSUME Environment \/ Boot \/ LeaveLoop \/ CollectFails \/ CollectEvents
  PROVE  [Service!SNext]_(Service!svars)
<1>1. UNCHANGED <<reply, heap, phase, channel>> /\ Alive
  BY DEF Environment, Signal, Connect, Send, Close, Reset, Boot, StartServerFails, EnterLoop,
         StartServer, LeaveLoop, CollectFails, CollectEvents, kernel, objects, Alive
<1>2. Alive' \in BOOLEAN
  BY DEF Alive
<1>. QED BY <1>1, <1>2, ServiceStutters DEF Service!SNext

(* The loop implements ConnectionService: a client is admitted once, is answered at
   most once and only when its request is complete, and is let go of for good. *)
THEOREM Implementation == Spec => ImplementsService
<1>1. Init => Service!SInit
  BY DEF Init, Service!SInit, Stage, Alive
<1>2. IInv /\ [Next]_vars => [Service!SNext]_(Service!svars)
  <2>. SUFFICES ASSUME TypeOK, Objects, [Next]_vars
                PROVE  [Service!SNext]_(Service!svars)
    BY IInvSplit
  <2>1. CASE HandleEvent
    BY <2>1, HandleEventServes
  <2>2. CASE Environment \/ Boot \/ LeaveLoop \/ CollectFails \/ CollectEvents
    BY <2>2, OtherServes
  <2>3. CASE Terminated \/ UNCHANGED vars
    <3>1. UNCHANGED <<reply, heap, phase, channel, pc>>
      BY <2>3 DEF Terminated, vars
    <3>2. Alive' = Alive
      BY <3>1 DEF Alive
    <3>. QED BY <3>1, <3>2, ServiceStutters
  <2>. QED BY <2>1, <2>2, <2>3 DEF Next, Process
<1>. QED BY <1>1, <1>2, Invariance, PTL DEF Spec, ImplementsService, Service!SSpec

------------------------------------------------------------------------------
(* Nothing is forgotten. *)

(* As long as registrations succeed, a connection epoll no longer reports belongs
   to a client that has closed or reset. *)
THEOREM NobodyForgotten == Spec => []NoForgottenClient
<1>1. Init => NoForgottenClient
  BY DEF Init, NoForgottenClient
<1>2. IInv /\ NoForgottenClient /\ [Next]_vars => NoForgottenClient'
  <2>. SUFFICES ASSUME TypeOK, Objects, NoForgottenClient, [Next]_vars,
                       "epoll_add" \notin Faults, NEW d \in Clients,
                       heap'[d] = "live", ~Registered(d)'
                PROVE  peer'[d] \in {"closed", "reset"}
    BY IInvSplit DEF NoForgottenClient
  <2>. DEFINE Kept == heap[d] = "live" /\ ~Registered(d)
  <2>1. Kept => peer[d] \in {"closed", "reset"}
    BY DEF NoForgottenClient
  <2>2. ASSUME UNCHANGED <<heap, channel, peer>>
        PROVE  peer'[d] \in {"closed", "reset"}
    BY <2>1, <2>2 DEF Registered
  <2>3. CASE Environment
    <3>1. UNCHANGED <<heap, channel>>
      BY <2>3 DEF Environment, Signal, Connect, Send, Close, Reset, kernel, objects
    <3>2. Kept
      BY <3>1 DEF Registered
    <3>3. peer[d] \in {"closed", "reset"} => peer'[d] \in {"closed", "reset"}
      <4>1. \/ UNCHANGED peer
            \/ \E c \in Clients : peer[c] = "idle" /\ peer' = [peer EXCEPT ![c] = "up"]
            \/ \E c \in Clients : peer' = [peer EXCEPT ![c] = "closed"]
            \/ \E c \in Clients : peer' = [peer EXCEPT ![c] = "reset"]
        BY <2>3 DEF Environment, Signal, Connect, Send, Close, Reset
      <4>. QED BY <4>1 DEF TypeOK
    <3>. QED BY <2>1, <3>2, <3>3
  <2>4. CASE Boot \/ LeaveLoop \/ CollectFails \/ CollectEvents
    <3>1. UNCHANGED <<heap, channel, peer>>
      BY <2>4 DEF Boot, StartServerFails, EnterLoop, StartServer, LeaveLoop,
                  CollectFails, CollectEvents, kernel, objects
    <3>. QED BY <2>2, <3>1
  <2>5. CASE HandleEvent
    <3>1. ASSUME NEW c \in Clients, events[c] # {}, CloseFd(fd[c]), peer' = peer,
                 \A e \in Clients : e # c => heap'[e] = heap[e],
                 heap'[c] = "live" => peer[c] \in {"closed", "reset"}
          PROVE  peer'[d] \in {"closed", "reset"}
      BY <3>1, <2>1, ClosingRegistered
    <3>2. ASSUME NEW c \in Clients, "IN" \in events[c], NEW result,
                 AfterParse(c, result), peer' = peer
          PROVE  peer'[d] \in {"closed", "reset"}
      <4>1. CASE d = c
        BY <4>1, <3>2, <2>1, ParseRegistered DEF Registered
      <4>2. CASE d # c
        BY <4>2, <3>2, <2>1, ParseRegistered
      <4>. QED BY <4>1, <4>2
    <3>3. ASSUME NEW s \in Servers, NEW c \in Clients, NEW f \in Fds, Accept(s, c, f)
          PROVE  peer'[d] \in {"closed", "reset"}
      <4>1. d # c
        BY <3>3, AcceptRegistered
      <4>. QED BY <4>1, <3>3, <2>1, AcceptRegistered DEF Accept
    <3>4. ASSUME NEW s \in Servers, AcceptFails(s) PROVE peer'[d] \in {"closed", "reset"}
      BY <3>4, <2>2 DEF AcceptFails, kernel, objects
    <3>5. ASSUME NEW c \in Clients, HandleHangUp(c) PROVE peer'[d] \in {"closed", "reset"}
      <4>1. heap'[c] = "freed" /\ \A e \in Clients : e # c => heap'[e] = heap[e]
        BY <3>5 DEF HandleHangUp, RemoveConnection, TypeOK
      <4>. QED BY <3>1, <3>5, <4>1 DEF HandleHangUp, RemoveConnection
    <3>6. ASSUME NEW c \in Clients, ReadBytes(c) PROVE peer'[d] \in {"closed", "reset"}
      BY <3>2, <3>6 DEF ReadBytes, Readable
    <3>7. ASSUME NEW c \in Clients, ReadEnd(c) PROVE peer'[d] \in {"closed", "reset"}
      <4>1. events[c] # {} /\ peer[c] = "closed"
        BY <3>7, HandledConnection DEF ReadEnd, Readable
      <4>. QED BY <3>1, <3>7, <4>1 DEF ReadEnd
    <3>8. ASSUME NEW c \in Clients, ReadFails(c) PROVE peer'[d] \in {"closed", "reset"}
      BY <3>2, <3>8 DEF ReadFails, Readable
    <3>9. ASSUME NEW c \in Clients, HandleRequest(c) PROVE peer'[d] \in {"closed", "reset"}
      BY <3>9, <2>2 DEF HandleRequest, kernel, objects
    <3>10. CASE SendResponse
      <4>1. PICK c \in Clients : cur = c /\ events[c] # {}
        BY <3>10 DEF SendResponse, Objects, CurIsHandled, TypeOK
      <4>2. CASE UNCHANGED <<kernel, objects>>
        BY <2>2, <3>10, <4>2 DEF SendResponse, kernel, objects
      <4>3. CASE RemoveConnection(c)
        <5>1. heap'[c] = "freed" /\ \A e \in Clients : e # c => heap'[e] = heap[e]
          BY <4>3 DEF RemoveConnection, TypeOK
        <5>. QED BY <3>1, <3>10, <4>1, <4>3, <5>1 DEF SendResponse, RemoveConnection
      <4>. QED BY <3>10, <4>1, <4>2, <4>3 DEF SendResponse
    <3>. QED BY <2>5, <3>3, <3>4, <3>5, <3>6, <3>7, <3>8, <3>9, <3>10 DEF HandleEvent
  <2>6. CASE Terminated \/ UNCHANGED vars
    BY <2>2, <2>6 DEF Terminated, vars
  <2>. QED BY <2>3, <2>4, <2>5, <2>6 DEF Next, Process
<1>. QED BY <1>1, <1>2, Invariance, PTL DEF Spec

(* As long as fcntl and epoll_ctl succeed, every open client descriptor is watched. *)
THEOREM NothingLeaks == Spec => []NoDescriptorLeak
<1>1. Init => NoDescriptorLeak
  BY DEF Init, NoDescriptorLeak
<1>2. IInv /\ NoDescriptorLeak /\ [Next]_vars => NoDescriptorLeak'
  <2>. SUFFICES ASSUME TypeOK, Objects, NoDescriptorLeak, [Next]_vars,
                       Faults \cap {"fcntl", "epoll_add"} = {}, NEW g \in Fds,
                       socket'[g] # None
                PROVE  channel'[g] # None
    BY IInvSplit DEF NoDescriptorLeak
  <2>1. socket[g] # None => channel[g] # None
    BY DEF NoDescriptorLeak
  <2>2. ASSUME UNCHANGED <<socket, channel>> PROVE channel'[g] # None
    BY <2>1, <2>2
  <2>3. ASSUME NEW f, CloseFd(f) PROVE channel'[g] # None
    <3>1. g # f
      BY <2>3 DEF CloseFd, TypeOK
    <3>. QED BY <2>1, <2>3, <3>1 DEF CloseFd, TypeOK
  <2>4. ASSUME NEW c \in Clients, NEW result, AfterParse(c, result)
        PROVE  channel'[g] # None
    BY <2>1, <2>3, <2>4, NoneAssumption DEF AfterParse, RemoveConnection, TypeOK
  <2>5. CASE Environment \/ Boot \/ LeaveLoop \/ CollectFails \/ CollectEvents
    BY <2>2, <2>5 DEF Environment, Signal, Connect, Send, Close, Reset, Boot,
                      StartServerFails, EnterLoop, StartServer, LeaveLoop,
                      CollectFails, CollectEvents, kernel
  <2>6. CASE HandleEvent
    <3>1. ASSUME NEW s \in Servers, NEW c \in Clients, NEW f \in Fds, Accept(s, c, f)
          PROVE  channel'[g] # None
      <4>1. /\ socket' = [socket EXCEPT ![f] = c]
            /\ channel' = [channel EXCEPT ![f] = c]
        BY <3>1 DEF Accept
      <4>. QED BY <2>1, <4>1, NoneAssumption DEF TypeOK
    <3>2. ASSUME NEW s \in Servers, AcceptFails(s) PROVE channel'[g] # None
      BY <2>2, <3>2 DEF AcceptFails, kernel
    <3>3. ASSUME NEW c \in Clients,
                 HandleHangUp(c) \/ ReadBytes(c) \/ ReadEnd(c) \/ ReadFails(c)
                 \/ HandleRequest(c)
          PROVE  channel'[g] # None
      BY <2>2, <2>3, <2>4, <3>3 DEF HandleHangUp, ReadBytes, ReadEnd, ReadFails,
                                    HandleRequest, RemoveConnection, kernel
    <3>4. CASE SendResponse
      BY <2>2, <2>3, <3>4 DEF SendResponse, RemoveConnection, kernel
    <3>. QED BY <2>6, <3>1, <3>2, <3>3, <3>4 DEF HandleEvent
  <2>7. CASE Terminated \/ UNCHANGED vars
    BY <2>2, <2>7 DEF Terminated, vars
  <2>. QED BY <2>5, <2>6, <2>7 DEF Next, Process
<1>. QED BY <1>1, <1>2, Invariance, PTL DEF Spec
==============================================================================
