------------------------------ MODULE SiteProofs ------------------------------
(***************************************************************************)
(* Proofs about Site: the whole is an event loop and it is a sequence of   *)
(* calls of scripts, so that all that is proved of the two parts alone     *)
(* holds of it too; and what only the whole can promise.                   *)
(***************************************************************************)
EXTENDS Site, EventLoopProofs, Sequences

P == INSTANCE CGIProofs WITH Calls <- Clients, Slots <- Fds, pc <- exec

LEMMA Assumptions ==
  /\ None \notin Clients \cup Pids \cup Fds
  /\ Other \notin Clients \cup {None}
  /\ MaxOutput \in Nat
BY NoneAssumption, ScriptsAssumption

------------------------------------------------------------------------------
(* The whole is an event loop: while a script runs the loop stutters. *)

LEMMA LoopImplements == [SiteNext]_siteVars => [Next]_vars
<1>. SUFFICES ASSUME [SiteNext]_siteVars PROVE [Next]_vars
  OBVIOUS
<1>1. CASE LoopStep
  BY <1>1 DEF LoopStep, Next, Process, HandleEvent
<1>2. CASE UNCHANGED vars
  BY <1>2
<1>3. CASE Environment \/ Terminated
  BY <1>3 DEF Next
<1>4. CASE UNCHANGED siteVars
  BY <1>4 DEF siteVars
<1>. QED BY <1>1, <1>2, <1>3, <1>4
         DEF SiteNext, ServerStep, CallScript, ScriptEnds, ScriptRuns

(* Every behaviour of the whole is one of the event loop: what EventLoop is shown to do
   for its clients it also does when scripts run. *)
THEOREM SiteIsEventLoop == SiteSpec => Spec
BY LoopImplements, PTL DEF SiteSpec, SiteInit, Spec

------------------------------------------------------------------------------
(* The whole is a sequence of calls: the loop calls a script for a connection that has a
   descriptor, and does nothing to the script's variables while it runs. *)

LEMMA CallHasFd ==
  ASSUME IInv, NEW c \in Clients, events[c] # {}
  PROVE  /\ fd[c] \in Fds /\ channel[fd[c]] = c /\ socket[fd[c]] = c
         /\ heap[c] = "live" /\ reply[c] = "none"
BY NoneAssumption
   DEF IInv, TypeOK, BatchIsCurrent, DescriptorOwnership, EventsAreLive, AnsweredIsFreed

LEMMA ScriptsImplement == IInv /\ [SiteNext]_siteVars => [P!Next]_(P!vars)
<1>. SUFFICES ASSUME IInv, [SiteNext]_siteVars PROVE P!Next \/ UNCHANGED P!vars
  OBVIOUS
<1>1. CASE UNCHANGED scriptVars
  BY <1>1 DEF scriptVars, P!vars, P!server, P!files
<1>2. ASSUME NEW c \in Clients, CallScript(c) PROVE P!Next
  <2>1. fd[c] \in Fds
    BY <1>2, CallHasFd DEF CallScript
  <2>2. P!Call(c, fd[c])
    BY <1>2 DEF CallScript, C!Call, P!Call, C!files, P!files
  <2>. QED BY <2>1, <2>2 DEF P!Next, P!Server
<1>3. CASE C!Proceed
  BY <1>3 DEF C!Proceed, C!Fork, C!Poll, C!Kill, C!Reap, C!Read, C!Remove, C!Alive,
              C!Targets, C!MaxTry, C!files, P!Proceed, P!Fork, P!Poll, P!Kill, P!Reap,
              P!Read, P!Remove, P!Alive, P!Targets, P!MaxTry, P!files, P!Next, P!Server
<1>4. ASSUME NEW c \in Clients, C!Exec(c) \/ C!Write(c) \/ C!End(c) PROVE P!Next
  <2>1. P!Exec(c) \/ P!Write(c) \/ P!End(c)
    BY <1>4 DEF C!Exec, C!Write, C!End, C!Alive, C!server, P!Exec, P!Write, P!End,
                P!Alive, P!server
  <2>. QED BY <2>1 DEF P!Next, P!Script
<1>. QED BY <1>1, <1>2, <1>3, <1>4
         DEF SiteNext, ServerStep, LoopStep, ScriptEnds, ScriptRuns, siteVars

LEMMA ScriptsBegin == SiteInit => P!Init
BY DEF SiteInit, C!Init, P!Init

(* Every behaviour of the whole is a sequence of calls as CGI has them, one after the
   other, so that no script ever meets the file or the process of another. *)
THEOREM SiteIsScripts == SiteSpec => P!Spec
<1>1. SiteSpec => []IInv
  BY SiteIsEventLoop, Invariance, PTL
<1>. QED BY <1>1, ScriptsBegin, ScriptsImplement, PTL DEF SiteSpec, P!Spec

------------------------------------------------------------------------------
(* What only the whole promises. *)

(* While a script runs, the event being handled is the EPOLLOUT of its connection; the
   script was named after the descriptor this connection still has. *)
ScriptIsHandled ==
  exec # "idle" => pc = "event" /\ events[call] = {"OUT"} /\ fd[call] = slot[call]

(* The inductive invariant of the whole. *)
SInv == IInv /\ P!IInv /\ ScriptIsHandled

LEMMA ScriptIsHandledStep ==
  ASSUME SInv, [SiteNext]_siteVars PROVE ScriptIsHandled'
<1>1. CASE LoopStep
  BY <1>1 DEF LoopStep, scriptVars, ScriptIsHandled
<1>2. ASSUME NEW c \in Clients, CallScript(c) PROVE ScriptIsHandled'
  <2>1. /\ call' = c /\ slot' = [slot EXCEPT ![c] = fd[c]]
        /\ events[c] = {"OUT"} /\ pc = "event" /\ UNCHANGED <<pc, events, fd>>
    BY <1>2 DEF CallScript, C!Call, vars
  <2>. QED BY <2>1 DEF SInv, P!IInv, P!TypeOK, ScriptIsHandled
<1>3. CASE C!Proceed /\ UNCHANGED vars
  <2>1. UNCHANGED slot /\ exec # "idle" /\ (exec' = "idle" \/ UNCHANGED call)
    BY <1>3 DEF C!Proceed, C!Fork, C!Poll, C!Kill, C!Reap, C!Read, C!Remove
  <2>. QED BY <1>3, <2>1 DEF SInv, ScriptIsHandled, vars
<1>4. ASSUME NEW c \in Clients, ScriptEnds(c) \/ ScriptRuns(c) PROVE ScriptIsHandled'
  BY <1>4 DEF ScriptEnds, ScriptRuns, C!End, C!Exec, C!Write, C!server, SInv,
              ScriptIsHandled, vars
<1>5. CASE Environment /\ UNCHANGED scriptVars
  <2>1. UNCHANGED <<pc, events, fd>>
    BY <1>5 DEF Environment, Signal, Connect, Send, Close, Reset, objects
  <2>. QED BY <1>5, <2>1 DEF SInv, ScriptIsHandled, scriptVars
<1>6. CASE UNCHANGED <<vars, scriptVars>>
  BY <1>6 DEF SInv, ScriptIsHandled, vars, scriptVars
<1>. QED BY <1>1, <1>2, <1>3, <1>4, <1>5, <1>6
         DEF SiteNext, ServerStep, Terminated, siteVars

(* The invariants of both parts hold of the whole, and the script that runs belongs to
   the event that is being handled. *)
THEOREM SiteInvariance == SiteSpec => []SInv
<1>1. SiteSpec => []IInv
  BY SiteIsEventLoop, Invariance, PTL
<1>2. SiteSpec => []P!IInv
  BY SiteIsScripts, P!Invariance, Assumptions, PTL
<1>3. SiteInit => ScriptIsHandled
  BY DEF SiteInit, C!Init, ScriptIsHandled
<1>4. IInv /\ P!IInv /\ ScriptIsHandled /\ [SiteNext]_siteVars => ScriptIsHandled'
  BY ScriptIsHandledStep DEF SInv
<1>5. SInv <=> IInv /\ P!IInv /\ ScriptIsHandled
  BY DEF SInv
<1>. QED BY <1>1, <1>2, <1>3, <1>4, <1>5, PTL DEF SiteSpec

(* A script's file keeps its name to itself: the descriptor it is named after belongs to
   the client the script runs for as long as it runs. *)
THEOREM NamesStayTaken == SiteSpec => []NameStaysTaken
<1>1. SInv => NameStaysTaken
  <2>. SUFFICES ASSUME SInv, exec # "idle"
                PROVE  /\ fd[call] = slot[call] /\ socket[slot[call]] = call
                       /\ heap[call] = "live" /\ channel[slot[call]] = call
    BY DEF NameStaysTaken
  <2>1. call \in Clients
    BY DEF SInv, P!IInv, P!TypeOK, P!OneScript
  <2>2. events[call] # {} /\ fd[call] = slot[call]
    BY DEF SInv, ScriptIsHandled
  <2>. QED BY <2>1, <2>2, CallHasFd DEF SInv
<1>. QED BY <1>1, SiteInvariance, PTL

(* A client is sent what its own script wrote, and all of it: nobody is answered before
   the script has ended, nor with the output of a script that ran for the client who had
   the descriptor before. *)
THEOREM AnswersAreOwn == SiteSpec => []AnswerIsOwnScripts
<1>1. SInv => AnswerIsOwnScripts
  <2>. SUFFICES ASSUME SInv, NEW c \in Clients, reply[c] # "none", slot[c] # None
                PROVE  /\ result[c] = content[c]
                       /\ \A i \in DOMAIN result[c] : result[c][i] = c
    BY DEF AnswerIsOwnScripts
  <2>1. c # call \/ exec = "idle"
    BY CallHasFd DEF SInv, ScriptIsHandled
  <2>2. c # call
    BY <2>1, Assumptions DEF SInv, P!IInv, P!OneScript
  <2>3. result[c] = content[c]
    BY <2>2 DEF SInv, P!IInv, P!ResultRead
  <2>4. DOMAIN content[c] = 1..Len(content[c])
    BY DEF SInv, P!IInv, P!TypeOK
  <2>. QED BY <2>3, <2>4 DEF SInv, P!IInv, P!OwnContent
<1>. QED BY <1>1, SiteInvariance, PTL
==============================================================================
