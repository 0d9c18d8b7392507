------------------------------ MODULE CGIProofs ------------------------------
(***************************************************************************)
(* Proofs about CGI for every set of calls, descriptors and process ids    *)
(* and any length of what a script writes.                                 *)
(***************************************************************************)
EXTENDS CGI, TLAPS

(* The inductive invariant, besides the types.  Only the script of the current call is
   alive, from fork to the end of waitpid, and it alone has the id that fork returned. *)
OneScript ==
  /\ pc = "idle" <=> call = None
  /\ call # None => slot[call] # None
  /\ pc = "fork" => script[call] = "none"
  /\ \A c \in Calls : Alive(c) => /\ c = call /\ pc \in {"poll", "kill", "reap"}
                                  /\ pid # None /\ owner[pid] = c
  /\ \A p \in Pids : owner[p] \in Calls => p = pid /\ Alive(owner[p])

(* The only file there may be is the one of the current call, created by its script. *)
OneFile ==
  /\ \A c \in Calls : script[c] = "running" => out[c] = c /\ path[slot[c]] = c
  /\ \A s \in Slots : path[s] # None =>
       pc \notin {"idle", "fork"} /\ path[s] = call /\ s = slot[call]

(* An inode holds what its own script wrote; it has its name until it has been read. *)
OwnContent ==
  /\ \A c \in Calls : \A i \in 1..Len(content[c]) : content[c][i] = c
  /\ \A c \in Calls : content[c] # <<>> => script[c] \in {"running", "ended"}
  /\ call # None /\ pc # "remove" /\ content[call] # <<>> => path[slot[call]] = call

(* A result is there once the file has been read, and not before; it is the content of
   the inode. *)
ResultRead ==
  /\ \A c \in Calls : slot[c] = None => script[c] = "none" /\ result[c] = None
  /\ \A c \in Calls : result[c] # None => c # call \/ pc = "remove"
  /\ \A c \in Calls : slot[c] # None /\ (c # call \/ pc = "remove") =>
       result[c] = content[c]

IInv == TypeOK /\ OneScript /\ OneFile /\ OwnContent /\ ResultRead
------------------------------------------------------------------------------
LEMMA Initially == Init => IInv
<1>. SUFFICES ASSUME Init PROVE IInv
  OBVIOUS
<1>. USE NamesAssumption DEF Init
<1>1. TypeOK
  <2>1. tries \in 0..MaxTry
    BY DEF MaxTry
  <2>2. status \in BOOLEAN
    BY Zenon
  <2>3. content \in [Calls -> Seq(Calls)]
    OBVIOUS
  <2>. QED BY <2>1, <2>2, <2>3 DEF TypeOK
<1>2. OneScript
  BY DEF OneScript, Alive
<1>3. OneFile /\ OwnContent /\ ResultRead
  BY DEF OneFile, OwnContent, ResultRead
<1>. QED BY <1>1, <1>2, <1>3 DEF IInv

(* What is known of the current call: it has a descriptor. *)
LEMMA CallFacts ==
  ASSUME IInv, pc # "idle"
  PROVE  call \in Calls /\ slot[call] \in Slots
BY DEF IInv, TypeOK, OneScript

LEMMA AliveFacts ==
  ASSUME IInv, NEW c \in Calls, Alive(c)
  PROVE  /\ c = call /\ pc \in {"poll", "kill", "reap"} /\ slot[c] \in Slots
         /\ pid \in Pids /\ owner[pid] = c
         /\ result[c] = None
BY DEF IInv, TypeOK, OneScript, ResultRead, Alive

(* One lemma for each action. *)

LEMMA CallStep == ASSUME IInv, NEW c \in Calls, NEW s \in Slots, Call(c, s) PROVE IInv'
<1>1. /\ pc = "idle" /\ slot[c] = None /\ call = None
      /\ script[c] = "none" /\ result[c] = None /\ content[c] = <<>>
  BY DEF Call, IInv, TypeOK, OneScript, OwnContent, ResultRead
<1>. USE <1>1 DEF Call, files
<1>2. TypeOK'
  BY DEF IInv, TypeOK
<1>3. OneScript'
  BY NamesAssumption DEF IInv, TypeOK, OneScript, Alive
<1>4. OneFile'
  BY DEF IInv, TypeOK, OneFile
<1>5. OwnContent'
  BY DEF IInv, TypeOK, OwnContent
<1>6. ResultRead'
  BY NamesAssumption DEF IInv, TypeOK, ResultRead
<1>. QED BY <1>2, <1>3, <1>4, <1>5, <1>6 DEF IInv

LEMMA ForkStep == ASSUME IInv, Fork PROVE IInv'
<1>1. call \in Calls /\ slot[call] \in Slots /\ \A c \in Calls : ~Alive(c)
  BY CallFacts, AliveFacts DEF Fork
<1>. USE <1>1 DEF Fork, files
<1>2. TypeOK'
  <2>1. tries' \in 0..MaxTry /\ pc' \in {"poll"}
    BY DEF MaxTry
  <2>. DEFINE Typed == /\ owner' \in [Pids -> Calls \cup {Other, None}]
                       /\ pid' \in Pids \cup {None}
                       /\ script' \in [Calls -> {"none", "forked", "running", "ended"}]
  <2>2. Typed
    <3>1. ASSUME NEW p \in Pids, pid' = p, owner' = [owner EXCEPT ![p] = call],
                 script' = [script EXCEPT ![call] = "forked"]
          PROVE  Typed
      BY <3>1 DEF IInv, TypeOK
    <3>2. ASSUME pid' = None, UNCHANGED <<owner, script>> PROVE Typed
      BY <3>2 DEF IInv, TypeOK
    <3>. QED BY <3>1, <3>2
  <2>. QED BY <2>1, <2>2, Zenon DEF IInv, TypeOK
<1>3. OneScript'
  BY NamesAssumption DEF IInv, TypeOK, OneScript, Alive
<1>4. OneFile'
  BY DEF IInv, TypeOK, OneFile, OneScript
<1>5. OwnContent'
  BY DEF IInv, TypeOK, OneScript, OwnContent
<1>6. ResultRead'
  BY NamesAssumption DEF IInv, TypeOK, ResultRead
<1>. QED BY <1>2, <1>3, <1>4, <1>5, <1>6 DEF IInv

LEMMA PollStep == ASSUME IInv, Poll PROVE IInv'
<1>. USE DEF Poll, files
<1>1. TypeOK'
  <2>1. tries' \in 0..MaxTry
    BY DEF IInv, TypeOK, MaxTry
  <2>. QED BY <2>1, Zenon DEF IInv, TypeOK
<1>2. OneScript'
  BY DEF IInv, OneScript, Alive
<1>. QED BY <1>1, <1>2 DEF IInv, OneFile, OwnContent, ResultRead

LEMMA KillStep == ASSUME IInv, Kill PROVE IInv'
<1>. USE DEF Kill, files
<1>1. TypeOK'
  BY DEF IInv, TypeOK
<1>2. \A c \in Calls : ~Alive(c)'
  BY DEF IInv, TypeOK, OneScript, Alive, Targets
<1>3. OneScript'
  BY <1>2, NamesAssumption DEF IInv, TypeOK, OneScript, Targets, Alive
<1>. QED BY <1>1, <1>2, <1>3 DEF IInv, TypeOK, OneFile, OwnContent, ResultRead, Alive

LEMMA ReapStep == ASSUME IInv, Reap PROVE IInv'
<1>1. \A c \in Calls : ~Alive(c)
  BY DEF Reap, IInv, OneScript
<1>. QED BY <1>1 DEF Reap, files, IInv, TypeOK, OneScript, OneFile, OwnContent, ResultRead,
                     Alive

LEMMA ReadStep == ASSUME IInv, Read PROVE IInv'
<1>1. call \in Calls /\ slot[call] \in Slots /\ \A c \in Calls : ~Alive(c)
  BY CallFacts, AliveFacts DEF Read
<1>. USE <1>1 DEF Read, files
<1>2. result' = [result EXCEPT ![call] = content[call]]
  BY NamesAssumption DEF IInv, OneFile, OwnContent
<1>3. TypeOK'
  BY <1>2 DEF IInv, TypeOK
<1>4. OneScript'
  BY DEF IInv, OneScript, Alive
<1>5. OneFile' /\ OwnContent'
  BY DEF IInv, OneFile, OwnContent
<1>6. ResultRead'
  BY <1>2, NamesAssumption DEF IInv, TypeOK, ResultRead
<1>. QED BY <1>3, <1>4, <1>5, <1>6 DEF IInv

LEMMA RemoveStep == ASSUME IInv, Remove PROVE IInv'
<1>1. call \in Calls /\ slot[call] \in Slots /\ \A c \in Calls : ~Alive(c)
  BY CallFacts, AliveFacts DEF Remove
<1>. USE <1>1 DEF Remove
<1>2. TypeOK'
  BY DEF IInv, TypeOK
<1>3. OneScript'
  BY NamesAssumption DEF IInv, OneScript, Alive
<1>4. OneFile'
  BY DEF IInv, TypeOK, OneFile, Alive
<1>5. OwnContent' /\ ResultRead'
  BY NamesAssumption DEF IInv, TypeOK, OwnContent, ResultRead
<1>. QED BY <1>2, <1>3, <1>4, <1>5 DEF IInv

LEMMA ExecStep == ASSUME IInv, NEW c \in Calls, Exec(c) PROVE IInv'
<1>1. /\ Alive(c) /\ c = call /\ slot[c] \in Slots /\ pc \in {"poll", "kill", "reap"}
      /\ result[c] = None
  BY AliveFacts DEF Exec, Alive
<1>2. /\ path' = [path EXCEPT ![slot[c]] = c]
      /\ content' = [content EXCEPT ![c] = <<>>]
      /\ out' = [out EXCEPT ![c] = c]
  BY <1>1 DEF Exec, IInv, OneFile
<1>. USE <1>1, <1>2 DEF Exec, server
<1>3. TypeOK'
  BY DEF IInv, TypeOK
<1>4. OneScript'
  BY DEF IInv, TypeOK, OneScript, Alive
<1>5. OneFile'
  BY DEF IInv, TypeOK, OneScript, OneFile, Alive
<1>6. OwnContent'
  BY DEF IInv, TypeOK, OwnContent
<1>7. ResultRead'
  BY NamesAssumption DEF IInv, TypeOK, ResultRead
<1>. QED BY <1>3, <1>4, <1>5, <1>6, <1>7 DEF IInv

LEMMA WriteStep == ASSUME IInv, NEW c \in Calls, Write(c) PROVE IInv'
<1>1. /\ Alive(c) /\ c = call /\ slot[c] \in Slots /\ pc \in {"poll", "kill", "reap"}
      /\ result[c] = None
  BY AliveFacts DEF Write, Alive
<1>2. content' = [content EXCEPT ![c] = Append(@, c)] /\ path[slot[c]] = c
  BY DEF Write, IInv, OneFile
<1>. USE <1>1, <1>2 DEF Write, server
<1>3. TypeOK'
  BY DEF IInv, TypeOK
<1>4. OneScript' /\ OneFile'
  BY DEF IInv, OneScript, OneFile, Alive
<1>5. OwnContent'
  BY DEF IInv, TypeOK, OwnContent
<1>6. ResultRead'
  BY DEF IInv, TypeOK, ResultRead
<1>. QED BY <1>3, <1>4, <1>5, <1>6 DEF IInv

LEMMA EndStep == ASSUME IInv, NEW c \in Calls, End(c) PROVE IInv'
<1>1. /\ c = call /\ slot[c] \in Slots /\ pc \in {"poll", "kill", "reap"}
      /\ owner[pid] = c /\ result[c] = None
  BY AliveFacts DEF End
<1>2. \/ path' = path
      \/ /\ script[c] = "forked" /\ path[slot[c]] = None
         /\ path' = [path EXCEPT ![slot[c]] = c]
  BY DEF End
<1>. USE <1>1, <1>2 DEF End, server
<1>3. TypeOK'
  BY DEF IInv, TypeOK
<1>4. OneScript'
  BY NamesAssumption DEF IInv, TypeOK, OneScript, Alive
<1>5. OneFile'
  BY DEF IInv, TypeOK, OneScript, OneFile, Alive
<1>6. OwnContent'
  BY DEF IInv, TypeOK, OwnContent, Alive
<1>7. ResultRead'
  BY NamesAssumption DEF IInv, TypeOK, ResultRead
<1>. QED BY <1>3, <1>4, <1>5, <1>6, <1>7 DEF IInv

LEMMA OtherStep ==
  ASSUME IInv, NEW p \in Pids, OtherStarts(p) \/ OtherEnds(p)
  PROVE  IInv'
<1>. USE NamesAssumption DEF OtherStarts, OtherEnds, server, files
<1>1. owner' = [owner EXCEPT ![p] = Other] \/ owner' = [owner EXCEPT ![p] = None]
  OBVIOUS
<1>2. owner[p] \notin Calls
  OBVIOUS
<1>3. TypeOK'
  BY <1>1 DEF IInv, TypeOK
<1>4. \A q \in Pids : /\ owner[q] \in Calls => owner'[q] = owner[q]
                      /\ owner'[q] \in Calls => owner'[q] = owner[q]
  BY <1>1, <1>2 DEF IInv, TypeOK
<1>5. OneScript'
  BY <1>4 DEF IInv, TypeOK, OneScript, Alive
<1>. QED BY <1>3, <1>5 DEF IInv, OneFile, OwnContent, ResultRead

LEMMA Inductive == IInv /\ [Next]_vars => IInv'
<1>. SUFFICES ASSUME IInv, [Next]_vars PROVE IInv'
  OBVIOUS
<1>1. CASE UNCHANGED vars
  BY <1>1 DEF vars, server, files, IInv, TypeOK, OneScript, OneFile, OwnContent,
              ResultRead, Alive
<1>2. CASE Server
  BY <1>2, CallStep, ForkStep, PollStep, KillStep, ReapStep, ReadStep, RemoveStep
     DEF Server, Proceed
<1>3. CASE Script
  BY <1>3, ExecStep, WriteStep, EndStep DEF Script
<1>4. CASE \E p \in Pids : OtherStarts(p) \/ OtherEnds(p)
  BY <1>4, OtherStep
<1>. QED BY <1>1, <1>2, <1>3, <1>4 DEF Next

------------------------------------------------------------------------------
(* The theorems. *)

(* The inductive invariant: of all calls only the current one has a script that is alive,
   a file, or an id. *)
THEOREM Invariance == Spec => []IInv
BY Initially, Inductive, PTL DEF Spec

(* Every variable of the calls, the process table and the files keeps its type. *)
THEOREM TypeCorrect == Spec => []TypeOK
<1>1. IInv => TypeOK
  BY DEF IInv
<1>. QED BY <1>1, Invariance, PTL

(* exec returns only what its own script wrote: the name of a file, an open that fails or
   a fork that fails never bring in what an earlier script left. *)
THEOREM OwnResults == Spec => []ResultIsOwn
<1>1. IInv => ResultIsOwn
  BY DEF IInv, TypeOK, OwnContent, ResultRead, ResultIsOwn
<1>. QED BY <1>1, Invariance, PTL

(* exec returns all its script wrote, since the script has ended by then. *)
THEOREM FinalResults == Spec => []ResultIsFinal
<1>1. IInv => ResultIsFinal
  BY AliveFacts DEF IInv, ResultRead, ResultIsFinal
<1>. QED BY <1>1, Invariance, PTL

(* Between two calls no file and no script is left. *)
THEOREM CleansUp == Spec => []NothingLeftBehind
<1>1. IInv => NothingLeftBehind
  BY DEF IInv, OneScript, OneFile, NothingLeftBehind
<1>. QED BY <1>1, Invariance, PTL

(* kill(pid, SIGKILL) hits a script that is still running, and only this script. *)
THEOREM KillHitsTheScript == Spec => KillsOnlyTheScript
<1>1. ASSUME IInv, [Next]_vars, pc = "kill", pc' = "reap", Alive(call)
      PROVE  ~Alive(call)' /\ \A p \in Pids : owner[p] # call => owner'[p] = owner[p]
  <2>1. call \in Calls /\ pid \in Pids /\ owner[pid] = call
    BY <1>1, CallFacts, AliveFacts
  <2>2. Kill
    BY <1>1 DEF Next, vars, server, files, Server, Proceed, Call, Fork, Poll, Kill, Reap,
                Read, Remove, Script, Exec, Write, End, OtherStarts, OtherEnds
  <2>3. \A p \in Pids : owner[p] # call => p \notin Targets
    BY <2>1, NamesAssumption DEF Targets
  <2>4. pid \in Targets
    BY <2>1, NamesAssumption DEF Targets
  <2>. QED BY <1>1, <2>1, <2>2, <2>3, <2>4 DEF Kill, Alive, IInv, TypeOK
<1>2. IInv /\ [Next]_vars =>
        [ pc = "kill" /\ pc' = "reap" /\ Alive(call) =>
            /\ ~Alive(call)'
            /\ \A p \in Pids : owner[p] # call => owner'[p] = owner[p] ]_vars
  BY <1>1
<1>. QED BY <1>2, Invariance, PTL DEF Spec, KillsOnlyTheScript
==============================================================================
