--------------------------------- MODULE CGI ---------------------------------
(***************************************************************************)
(* CGIRequest: the calls the server makes one after the other, the script  *)
(* each of them forks, the file CGIResponse-<fd> the two share, and the    *)
(* kernel's process table, in which other processes come and go.           *)
(*                                                                         *)
(* What a script writes is counted, not spelled out: a file is the         *)
(* sequence of the calls whose scripts wrote to it.  An inode has the name *)
(* of the call whose script created it.                                    *)
(***************************************************************************)
EXTENDS Integers, Sequences

CONSTANTS Calls,       \* bound: the calls of exec that are made
          Slots,       \* descriptors of connections, which name the files
          Pids,        \* process ids
          Other,       \* any process that is not a script
          None,        \* no call, no inode, no process; the -1 of a failed fork
          MaxOutput    \* bound: writes of one script

ASSUME NamesAssumption == /\ None \notin Calls \cup Pids \cup Slots
                          /\ Other \notin Calls \cup {None}
ASSUME OutputAssumption == MaxOutput \in Nat

MaxTry == 3

VARIABLES
  \* the server
  pc,       \* where the CGIRequest is
  call,     \* the current call, or None
  slot,     \* connection.fd of each call
  pid,      \* what fork returned
  tries,    \* max_try
  status,   \* the bit of status that is tested; nothing ever sets it
  result,   \* what exec returned
  \* the kernel and the scripts
  owner,    \* who has a process id
  script,   \* "none", "forked", "running" (after execve) or "ended"
  path,     \* the inode a file name stands for
  content,  \* of an inode
  out       \* the inode that is the standard output of a script

server  == <<pc, call, slot, pid, tries, status, result>>
files   == <<path, content, out>>
vars    == <<server, owner, script, files>>

TypeOK ==
  /\ pc \in {"idle", "fork", "poll", "kill", "reap", "read", "remove"}
  /\ call \in Calls \cup {None}
  /\ slot \in [Calls -> Slots \cup {None}]
  /\ pid \in Pids \cup {None}
  /\ tries \in 0..MaxTry
  /\ status \in BOOLEAN
  /\ result \in [Calls -> Seq(Calls) \cup {None}]
  /\ owner \in [Pids -> Calls \cup {Other, None}]
  /\ script \in [Calls -> {"none", "forked", "running", "ended"}]
  /\ path \in [Slots -> Calls \cup {None}]
  /\ content \in [Calls -> Seq(Calls)]
  /\ out \in [Calls -> Calls \cup {None}]

Init ==
  /\ pc = "idle" /\ call = None /\ pid = None /\ tries = 0 /\ status = FALSE
  /\ slot = [c \in Calls |-> None]
  /\ result = [c \in Calls |-> None]
  /\ owner = [p \in Pids |-> None]
  /\ script = [c \in Calls |-> "none"]
  /\ path = [s \in Slots |-> None]
  /\ content = [c \in Calls |-> <<>>]
  /\ out = [c \in Calls |-> None]

Alive(c) == script[c] \in {"forked", "running"}

------------------------------------------------------------------------------
(* The server. *)

(* A CGIRequest is made for a connection; exec returns at once when the script
   cannot be read. *)
Call(c, s) ==
  /\ pc = "idle" /\ slot[c] = None
  /\ call' = c
  /\ slot' = [slot EXCEPT ![c] = s]
  /\ \/ pc' = "fork" /\ UNCHANGED result
     \/ pc' = "remove" /\ result' = [result EXCEPT ![c] = <<>>]
  /\ UNCHANGED <<pid, tries, status, owner, script, files>>

(* fork, which fails when no process id is left or for other reasons.  status is
   whatever was on the stack. *)
Fork ==
  /\ pc = "fork"
  /\ \/ \E p \in {q \in Pids : owner[q] = None} :
          /\ pid' = p
          /\ owner' = [owner EXCEPT ![p] = call]
          /\ script' = [script EXCEPT ![call] = "forked"]
     \/ pid' = None /\ UNCHANGED <<owner, script>>
  /\ status' \in BOOLEAN
  /\ tries' = MaxTry
  /\ pc' = "poll"
  /\ UNCHANGED <<call, slot, result, files>>

\* Mutant of Poll: the tries are not counted.
PollForEver ==
  /\ pc = "poll"
  /\ pc' = IF status /\ tries > 0 THEN "poll" ELSE IF status THEN "kill" ELSE "reap"
  /\ UNCHANGED <<call, slot, pid, tries, status, result, owner, script, files>>

\* Mutant of Poll: the count goes past zero.
PollPastZero ==
  /\ pc = "poll"
  /\ tries' = IF status THEN tries - 1 ELSE 0
  /\ pc' = IF status /\ tries >= 0 THEN "poll" ELSE IF status THEN "kill" ELSE "reap"
  /\ UNCHANGED <<call, slot, pid, status, result, owner, script, files>>

(* One round of the while loop, or what follows it.  SIGCHLD being ignored, the
   kernel reaps the script itself and waitpid never stores a status. *)
Poll ==
  /\ pc = "poll"
  /\ tries' = IF status /\ tries > 0 THEN tries - 1 ELSE 0
  /\ pc' = IF status /\ tries > 0 THEN "poll" ELSE IF status THEN "kill" ELSE "reap"
  /\ UNCHANGED <<call, slot, pid, status, result, owner, script, files>>

\* Mutant of Targets: kill(-1) in every case.
TargetsOfMinusOne == Pids

(* The processes that kill(pid, SIGKILL) reaches: the one that has the id by now,
   if any, and every one for the -1 of a failed fork. *)
Targets == IF pid = None THEN Pids ELSE {pid}

\* Mutant of Kill: a signal that a script may ignore.
KillWithTerm ==
  /\ pc = "kill"
  /\ pc' = "reap"
  /\ UNCHANGED <<call, slot, pid, tries, status, result, owner, script, files>>

Kill ==
  /\ pc = "kill"
  /\ owner' = [p \in Pids |-> IF p \in Targets THEN None ELSE owner[p]]
  /\ script' = [c \in Calls |-> IF Alive(c) /\ \E p \in Targets : owner[p] = c
                                THEN "ended" ELSE script[c]]
  /\ pc' = "reap"
  /\ UNCHANGED <<call, slot, pid, tries, status, result, files>>

\* Mutant of Reap: the last waitpid does not block.
ReapNoHang ==
  /\ pc = "reap"
  /\ pc' = "read"
  /\ UNCHANGED <<call, slot, pid, tries, status, result, owner, script, files>>

(* waitpid(pid, NULL, 0) blocks while its child, any child for -1, is alive. *)
Reap ==
  /\ pc = "reap"
  /\ \A c \in Calls : Alive(c) => pid # None /\ owner[pid] # c
  /\ pc' = "read"
  /\ UNCHANGED <<call, slot, pid, tries, status, result, owner, script, files>>

(* readFile: nothing if there is no such file. *)
Read ==
  /\ pc = "read"
  /\ LET inode == path[slot[call]] IN
       result' = [result EXCEPT ![call] = IF inode = None THEN <<>> ELSE content[inode]]
  /\ pc' = "remove"
  /\ UNCHANGED <<call, slot, pid, tries, status, owner, script, files>>

\* Mutant of Remove: the file is left where it is.
RemoveNothing ==
  /\ pc = "remove"
  /\ pc' = "idle"
  /\ call' = None
  /\ UNCHANGED <<slot, pid, tries, status, result, owner, script, files>>

(* The destructor. *)
Remove ==
  /\ pc = "remove"
  /\ path' = [path EXCEPT ![slot[call]] = None]
  /\ pc' = "idle"
  /\ call' = None
  /\ UNCHANGED <<slot, pid, tries, status, result, owner, script, content, out>>

------------------------------------------------------------------------------
(* The forked process: open the file, dup2 and execve, then the script itself.  An
   open, dup2 or execve that fails is an exception nothing catches. *)

Exec(c) ==
  LET s == slot[c]
      inode == IF path[s] = None THEN c ELSE path[s]
  IN /\ script[c] = "forked"
     /\ script' = [script EXCEPT ![c] = "running"]
     /\ path' = [path EXCEPT ![s] = inode]                        \* O_CREAT
     /\ content' = [content EXCEPT ![inode] = <<>>]               \* O_TRUNC
     /\ out' = [out EXCEPT ![c] = inode]
     /\ UNCHANGED <<server, owner>>

Write(c) ==
  /\ script[c] = "running" /\ Len(content[out[c]]) < MaxOutput
  /\ content' = [content EXCEPT ![out[c]] = Append(@, c)]
  /\ UNCHANGED <<server, owner, script, path, out>>

(* The process ends, as it likes or with an exception on the way to execve, which
   may leave an empty file behind. *)
End(c) ==
  /\ Alive(c)
  /\ script' = [script EXCEPT ![c] = "ended"]
  /\ owner' = [p \in Pids |-> IF owner[p] = c THEN None ELSE owner[p]]
  /\ \/ UNCHANGED path
     \/ /\ script[c] = "forked" /\ path[slot[c]] = None
        /\ path' = [path EXCEPT ![slot[c]] = c]
  /\ UNCHANGED <<server, content, out>>

(* Other processes are given ids that are free. *)
OtherStarts(p) ==
  /\ owner[p] = None
  /\ owner' = [owner EXCEPT ![p] = Other]
  /\ UNCHANGED <<server, script, files>>

OtherEnds(p) ==
  /\ owner[p] = Other
  /\ owner' = [owner EXCEPT ![p] = None]
  /\ UNCHANGED <<server, script, files>>

------------------------------------------------------------------------------
Proceed == Fork \/ Poll \/ Kill \/ Reap \/ Read \/ Remove

Server == Proceed \/ \E c \in Calls, s \in Slots : Call(c, s)

Script == \E c \in Calls : Exec(c) \/ Write(c) \/ End(c)

Next == Server \/ Script \/ \E p \in Pids : OtherStarts(p) \/ OtherEnds(p)

Spec == Init /\ [][Next]_vars

(* The server's thread runs whenever no call blocks it; scripts may take for ever. *)
FairSpec == Spec /\ WF_vars(Server)

------------------------------------------------------------------------------
(* What a call returns was written by its own script, although the file of an
   earlier call had the same name and forks and scripts may fail at any point. *)
ResultIsOwn ==
  \A c \in Calls : result[c] # None =>
     \A i \in 1..Len(result[c]) : result[c][i] = c

(* And it is everything the script ever wrote: nothing is written after the file was
   read, by a script that survived its call. *)
ResultIsFinal ==
  \A c \in Calls : result[c] # None => ~Alive(c) /\ result[c] = content[c]

(* Between two calls there is neither a file nor a process left of any of them. *)
NothingLeftBehind ==
  pc = "idle" => /\ \A s \in Slots : path[s] = None
                 /\ \A c \in Calls : ~Alive(c)

(* While the script runs the kill at the end of the tries reaches it and nothing
   else. *)
KillsOnlyTheScript ==
  [][ pc = "kill" /\ pc' = "reap" /\ Alive(call) =>
        /\ ~Alive(call)'
        /\ \A p \in Pids : owner[p] # call => owner'[p] = owner[p] ]_vars

(* If the bit that is tested happens to be set, the server is free again after the
   last try, whatever the script does. *)
FreeAfterLastTry == pc = "poll" /\ status ~> pc = "idle"

(* And in any case once the script has ended, whatever other processes do. *)
FreeAfterScript ==
  \A c \in Calls : call = c /\ script[c] = "ended" ~> pc = "idle"
==============================================================================
