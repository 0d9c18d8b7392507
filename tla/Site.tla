--------------------------------- MODULE Site ---------------------------------
(***************************************************************************)
(* The event loop with the scripts it runs: where EventLoop has one step   *)
(* that makes a response, a request for a script takes the steps of CGI,   *)
(* during which the loop does nothing, and clients, signals and scripts go *)
(* on.  The file of a script has the name of the descriptor of its         *)
(* connection, a number that connections give back.                        *)
(***************************************************************************)
EXTENDS EventLoop

CONSTANTS Pids,        \* process ids
          Other,       \* any process that is not a script
          MaxOutput    \* bound: writes of one script

ASSUME ScriptsAssumption == /\ None \notin Pids
                            /\ Other \notin Clients \cup {None}
                            /\ MaxOutput \in Nat

VARIABLES exec,        \* CGI!pc
          call, slot, pid, tries, status, result, owner, script, path, content, out

scriptVars == <<exec, call, slot, pid, tries, status, result, owner, script, path,
                content, out>>
siteVars   == <<vars, scriptVars>>

C == INSTANCE CGI WITH Calls <- Clients, Slots <- Fds, pc <- exec

SiteInit == Init /\ C!Init

------------------------------------------------------------------------------
(* The response of client c is being made, and its script has been called. *)
Called(c) == pc = "event" /\ events[c] # {} /\ slot[c] # None

\* Mutant of LoopStep: the loop goes on while the script runs.
LoopStepAnyway ==
  /\ Process
  /\ UNCHANGED scriptVars

(* Everything of loop() but scripts.  What follows a script is its response. *)
LoopStep ==
  /\ exec = "idle"
  /\ IF \E c \in Clients : Called(c)
     THEN \E c \in Clients : Called(c) /\ HandleRequest(c)
     ELSE Process
  /\ UNCHANGED scriptVars

(* handleRequest finds that the request is for a script. *)
CallScript(c) ==
  /\ pc = "event" /\ events[c] = {"OUT"} /\ \A d \in Clients : ~Called(d)
  /\ C!Call(c, fd[c])
  /\ UNCHANGED vars

ScriptRuns(c) == (C!Exec(c) \/ C!Write(c)) /\ UNCHANGED vars
ScriptEnds(c) == C!End(c) /\ UNCHANGED vars

(* The thread of the server. *)
ServerStep ==
  \/ LoopStep
  \/ \E c \in Clients : CallScript(c)
  \/ C!Proceed /\ UNCHANGED vars

SiteNext ==
  \/ ServerStep
  \/ Environment /\ UNCHANGED scriptVars
  \/ \E c \in Clients : \/ ScriptEnds(c)
                        \/ ScriptRuns(c)
  \/ Terminated /\ UNCHANGED scriptVars

SiteSpec == SiteInit /\ [][SiteNext]_siteVars

(* The server's thread runs whenever no call blocks it, and scripts end. *)
SiteFairSpec ==
  /\ SiteSpec
  /\ WF_siteVars(ServerStep)
  /\ \A c \in Clients : WF_siteVars(ScriptEnds(c))

------------------------------------------------------------------------------
(* With scripts that end the loop has the fairness that EventLoop assumes: no script,
   no failed fork and no signal keeps it from its next step for ever.  What EventLoop is
   shown to do in the end it therefore also does for the clients of scripts and for those
   that wait meanwhile. *)
LoopGoesOn == WF_vars(Process)

(* What a client is sent as the result of a script was written by the script that was
   run for this client, although descriptors, and with them the names of files, are
   given to one client after the other; and it is all the script wrote. *)
AnswerIsOwnScripts ==
  \A c \in Clients : reply[c] # "none" /\ slot[c] # None =>
    /\ result[c] = content[c]
    /\ \A i \in DOMAIN result[c] : result[c][i] = c

(* While a script runs, the descriptor that names its file stays with the client it runs
   for: no other connection can come to use the name. *)
NameStaysTaken ==
  exec # "idle" => /\ fd[call] = slot[call]
                   /\ socket[slot[call]] = call
                   /\ heap[call] = "live" /\ channel[slot[call]] = call
==============================================================================
