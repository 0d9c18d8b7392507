------------------------------ MODULE ConfigFile ------------------------------
(***************************************************************************)
(* loop() up to its loop: Config::parseConfig, from the lines of the       *)
(* configuration file to the labels of each server (_getLabels), and from  *)
(* these to one Config for each server, or to the end of the process; and  *)
(* the start of the servers.                                               *)
(*                                                                         *)
(* A line of the file is its first word, as prefixed and key (the word is  *)
(* key, or location_ and key), the other words, and whether it ends with a *)
(* brace that belongs to none of them.                                     *)
(***************************************************************************)
EXTENDS Config, FiniteSets, FiniteSetsExt

CONSTANTS Keys,        \* the words lines begin with, without location_
          Files,       \* bound: the files that are read
          Busy         \* the ports other processes listen to

Label == [prefixed : BOOLEAN, key : Keys, value : Seq(Words)]

ASSUME KeysAssumption == {"", "{", "}", "server", "location_location"} \subseteq Keys
ASSUME BusyAssumption == Busy \subseteq Nat
ASSUME FilesAssumption == Files \subseteq Seq([text : Label, brace : BOOLEAN])

VARIABLES file,       \* the file, as lines without blanks
          lines,      \* the lines not yet looked at
          pc,         \* where loop() is, or how it has ended
          labels,     \* the labels of the server that is open
          servers,    \* the labels of each server still to be configured
          config,     \* the Config being filled in
          data,       \* those that are complete
          ports       \* the ports listened to, in the order of data

vars == <<file, lines, pc, labels, servers, config, data, ports>>

Plain(key) == [prefixed |-> FALSE, key |-> key, value |-> <<>>]
Server == Plain("server")
Open   == Plain("{")
Close  == Plain("}")

IsComment(line)  == line.key = "#" /\ ~line.prefixed
IsLocation(line) == line.prefixed \/ line.key = "location"

(* _getLineFromFileData: blank lines go, and a brace at the end of a line, be it a
   comment, becomes a line of its own. *)
Split(f) ==
  FlattenSeq([i \in 1..Len(f) |->
    IF f[i].text = Plain("") THEN <<>>
    ELSE IF f[i].brace THEN <<f[i].text, Open>> ELSE <<f[i].text>>])

Init ==
  /\ file \in {Split(f) : f \in Files}
  /\ lines = file
  /\ pc = "top"
  /\ labels = <<>> /\ servers = <<>>
  /\ config = NewConfig
  /\ data = <<>> /\ ports = <<>>

------------------------------------------------------------------------------
(* _getLabels, one action for each line. *)

Reading == pc \in {"top", "server", "location"} /\ lines # <<>>

(* A line that has to be the brace behind a header: if there is none, front() and
   pop_front() of the empty list crash, or what they return is not a brace. *)
Opened(rest, block) ==
  IF rest = <<>> THEN {"refused", "crashed"}
  ELSE IF rest[1] = Open THEN {block} ELSE {"refused"}

SkipComment ==
  /\ Reading /\ IsComment(Head(lines))
  /\ lines' = Tail(lines)
  /\ UNCHANGED <<file, pc, labels, servers, config, data, ports>>

OpenServer ==
  /\ Reading /\ pc = "top" /\ ~IsComment(Head(lines))
  /\ pc' \in IF Head(lines) = Server THEN Opened(Tail(lines), "server") ELSE {"refused"}
  /\ lines' = SubSeq(lines, 3, Len(lines))
  /\ UNCHANGED <<file, labels, servers, config, data, ports>>

\* Mutant of OpenLocation: the header is not kept as a label.
OpenLocationUnlabelled ==
  /\ Reading /\ pc = "server" /\ IsLocation(Head(lines))
  /\ pc' \in Opened(Tail(lines), "location")
  /\ lines' = SubSeq(lines, 3, Len(lines))
  /\ UNCHANGED <<file, labels, servers, config, data, ports>>

OpenLocation ==
  /\ Reading /\ pc = "server" /\ IsLocation(Head(lines))
  /\ labels' = Append(labels, Head(lines))
  /\ pc' \in Opened(Tail(lines), "location")
  /\ lines' = SubSeq(lines, 3, Len(lines))
  /\ UNCHANGED <<file, servers, config, data, ports>>

ServerLine ==
  /\ Reading /\ pc = "server" /\ ~IsComment(Head(lines)) /\ ~IsLocation(Head(lines))
  /\ Head(lines) # Close
  /\ labels' = Append(labels, Head(lines))
  /\ lines' = Tail(lines)
  /\ UNCHANGED <<file, pc, servers, config, data, ports>>

CloseServer ==
  /\ Reading /\ pc = "server" /\ Head(lines) = Close
  /\ servers' = Append(servers, labels)
  /\ labels' = <<>>
  /\ pc' = "top"
  /\ lines' = Tail(lines)
  /\ UNCHANGED <<file, config, data, ports>>

(* The label of a line in a location: no label has location_ in front twice. *)
InLocation(line) ==
  IF IsLocation(line) THEN Plain("location_location") ELSE [line EXCEPT !.prefixed = TRUE]

LocationLine ==
  /\ Reading /\ pc = "location" /\ ~IsComment(Head(lines)) /\ Head(lines) # Close
  /\ labels' = Append(labels, InLocation(Head(lines)))
  /\ lines' = Tail(lines)
  /\ UNCHANGED <<file, pc, servers, config, data, ports>>

CloseLocation ==
  /\ Reading /\ pc = "location" /\ Head(lines) = Close
  /\ pc' = "server"
  /\ lines' = Tail(lines)
  /\ UNCHANGED <<file, labels, servers, config, data, ports>>

\* Mutant of EndOfFile: an open block ends with the file.
EndOfFileClosesAll ==
  /\ pc \in {"top", "server", "location"} /\ lines = <<>>
  /\ pc' = "add"
  /\ servers' = IF pc = "top" THEN servers ELSE Append(servers, labels)
  /\ UNCHANGED <<file, lines, labels, config, data, ports>>

(* The end of the lines, which must not come within a block. *)
EndOfFile ==
  /\ pc \in {"top", "server", "location"} /\ lines = <<>>
  /\ pc' = IF pc = "top" THEN "add" ELSE "refused"
  /\ UNCHANGED <<file, lines, labels, servers, config, data, ports>>

------------------------------------------------------------------------------
(* parseConfig: the labels of the first server left are added one by one. *)

AddLabel ==
  /\ pc = "add" /\ servers # <<>> /\ servers[1] # <<>>
  /\ servers' = [servers EXCEPT ![1] = Tail(@)]
  /\ \E outcome \in Add(config, servers[1][1]) :
       /\ config' = outcome.config
       /\ pc' = CASE outcome.end = "ok"      -> pc
                  [] outcome.end = "failed"  -> "refused"
                  [] outcome.end = "crashed" -> "crashed"
  /\ UNCHANGED <<file, lines, labels, data, ports>>

\* Mutant of FinishServer: the error pages of one server are left for the next.
FinishServerKeeps ==
  /\ pc = "add" /\ servers # <<>> /\ servers[1] = <<>>
  /\ servers' = Tail(servers)
  /\ data' = Append(data, config)
  /\ config' = [NewConfig EXCEPT !.errorPages = config.errorPages]
  /\ UNCHANGED <<file, lines, pc, labels, ports>>

FinishServer ==
  /\ pc = "add" /\ servers # <<>> /\ servers[1] = <<>>
  /\ servers' = Tail(servers)
  /\ data' = Append(data, config)
  /\ config' = NewConfig
  /\ UNCHANGED <<file, lines, pc, labels, ports>>

Finish ==
  /\ pc = "add" /\ servers = <<>>
  /\ pc' = "accepted"
  /\ UNCHANGED <<file, lines, labels, servers, config, data, ports>>

------------------------------------------------------------------------------
(* The servers are started in turn; bind fails for a port that is taken, by a server of
   the same file perhaps, and then the process ends, as it does if the system has no socket
   for it (socket, setsockopt, fcntl, listen). *)

\* Mutant of Bindable: ports may be shared.
BindableAgain(port) == port \notin Busy

Bindable(port) == port \notin Busy \cup ToSet(ports)

Starting == pc = "accepted" /\ Len(ports) < Len(data)

StartServer ==
  /\ Starting
  /\ LET port == data[Len(ports) + 1].port
     IN \/ Bindable(port) /\ ports' = Append(ports, port) /\ UNCHANGED pc
        \/ ~Bindable(port) /\ pc' = "failed" /\ UNCHANGED ports
        \/ pc' = "unable" /\ UNCHANGED ports
  /\ UNCHANGED <<file, lines, labels, servers, config, data>>

(* Without servers epoll has room for no event, and the loop ends at its first wait. *)
EnterLoop ==
  /\ pc = "accepted" /\ ~Starting
  /\ pc' = IF data = <<>> THEN "stopped" ELSE "serving"
  /\ UNCHANGED <<file, lines, labels, servers, config, data, ports>>

GetLabels == \/ SkipComment \/ OpenServer \/ OpenLocation \/ ServerLine \/ CloseServer
             \/ LocationLine \/ CloseLocation \/ EndOfFile

(* The process serves, or has ended. *)
Terminated ==
  /\ pc \in {"serving", "stopped", "failed", "unable", "refused", "crashed"}
  /\ UNCHANGED vars

Next == \/ GetLabels \/ AddLabel \/ FinishServer \/ Finish
        \/ StartServer \/ EnterLoop
        \/ Terminated

Spec == Init /\ [][Next]_vars

------------------------------------------------------------------------------
(* One Config is filled in at a time; whatever a file says, a port a server listens
   to is not one of the system, a size fits its type, a page is for an error and a
   location has methods of HTTP. *)
ConfigOK(c) ==
  /\ c.port \in Ports
  /\ c.clientBodySize \in 0..(Modulus - 1)
  /\ DOMAIN c.errorPages \subseteq 400..599
  /\ ToSet(c.allowedMethods) \subseteq Methods
  /\ \A i \in 1..Len(c.locations) : ToSet(c.locations[i].http_methods) \subseteq Methods

TypeOK ==
  /\ file \in Seq(Label) /\ lines \in Seq(Label)
  /\ labels \in Seq(Label) /\ servers \in Seq(Seq(Label))
  /\ pc \in {"top", "server", "location", "add", "accepted", "serving", "stopped",
             "failed", "unable", "refused", "crashed"}
  /\ ports \in Seq(Ports)
  /\ ConfigOK(config) /\ \A k \in 1..Len(data) : ConfigOK(data[k])

------------------------------------------------------------------------------
(* What the lines of a file say, by counting braces. *)

Count(from, to, Test(_)) == Cardinality({i \in from..to : Test(file[i])})
Depth(i) == Count(1, i - 1, LAMBDA l : l = Open) - Count(1, i - 1, LAMBDA l : l = Close)

IsAt(l) == l.key = "location" /\ ~l.prefixed

(* The server whose header is the last one up to line i, and its last location. *)
ServerOf(i) == Count(1, i, LAMBDA l : l = Server)
LocationOf(i) ==
  Count(Max({1} \cup {j \in 1..i : file[j] = Server}), i, IsAt)

(* The line opens a block: "server" outside all, a location in a server. *)
IsHeader(i) == \/ Depth(i) = 0 /\ file[i] = Server
               \/ Depth(i) = 1 /\ IsLocation(file[i])

Nested ==
  /\ Depth(Len(file) + 1) = 0
  /\ \A i \in 1..Len(file) : IsComment(file[i]) \/
       /\ Depth(i) \in 0..2
       /\ file[i] = Open <=> i > 1 /\ IsHeader(i - 1)
       /\ Depth(i) = 0 => file[i] \in {Server, Open}
       /\ IsHeader(i) => i < Len(file) /\ file[i + 1] = Open

(* The line is a setting of the server, of a location. *)
OfServer(i, key) == ~IsComment(file[i]) /\ Depth(i) = 1 /\ file[i].key = key /\ ~file[i].prefixed
OfLocation(i, key) == file[i].key = key /\ (Depth(i) = 1 <=> file[i].prefixed) /\ Depth(i) \in 1..2

(* Of the lines D: those that set key of the server, of its location n. *)
ServerLines(D, key) == {i \in D : OfServer(i, key)}
LocationLines(D, n, key) == {i \in D : LocationOf(i) = n /\ OfLocation(i, key)}

(* The last of some lines, 0 if there is none; and what it gives. *)
Latest(I) == Max({0} \cup I)
Given(I, default) == IF Latest(I) = 0 THEN default ELSE file[Latest(I)].value

(* The last line that sets key for server k, for its location n. *)
BlockOf(k) == {i \in 1..Len(file) : ServerOf(i) = k}
LastOf(k, key) == Latest(ServerLines(BlockOf(k), key))
LastIn(k, n, key) == Latest(LocationLines(BlockOf(k), n, key))

(* Settings whose value cannot be wrong, and ports that are right. *)
Harmless(i) ==
  \/ IsComment(file[i]) \/ file[i] \in {Open, Close} \/ Depth(i) = 0
  \/ \E key \in {"root", "index", "upload_path", "location"} : OfServer(i, key)
  \/ OfServer(i, "port") /\ Len(file[i].value) = 1 /\ HasNumber(file[i].value)
       /\ Rest(file[i].value) = <<>> /\ Number[file[i].value[1]] \in Ports
  \/ Depth(i) = 2 /\ \E key \in {"root", "directory_listing", "cgi_pass"} : OfLocation(i, key)

(* A file is accepted only if its blocks are properly nested, as counting braces tells,
   with nothing between a header and its brace; and such a file is accepted unless it
   has a setting that can be refused. *)
AcceptedAsNested ==
  /\ pc = "accepted" => Nested
  /\ pc \in {"refused", "crashed"} /\ Nested => \E i \in 1..Len(file) : ~Harmless(i)

(* The process crashes only on a file that ends behind a header, or for a setting with
   location_ in front in a server that has no location yet. *)
CrashesAsKnown ==
  pc = "crashed" => \/ file # <<>> /\ (Last(file) = Server \/ IsLocation(Last(file)))
                    \/ \E i \in 1..Len(file) :
                         Depth(i) = 1 /\ file[i].prefixed /\ LocationOf(i) = 0

(* What the lines D of a server say of its settings: the last of them counts, and for
   an error the last page given for it. *)
PagesFor(D, code) == {i \in ServerLines(D, "error_page") : Number[file[i].value[1]] = code}

PagesAsWritten(pages, D) ==
  \A code \in 400..599 :
    /\ code \in DOMAIN pages <=> PagesFor(D, code) # {}
    /\ code \in DOMAIN pages => pages[code] = PageOf(file[Latest(PagesFor(D, code))].value)

ServerAsWritten(c, D) ==
  /\ c.mainRoot = Given(ServerLines(D, "root"), <<".">>)
  /\ c.uploadPath = Given(ServerLines(D, "upload_path"), <<"/uploads">>)
  /\ c.serverNames = Given(ServerLines(D, "server_name"), <<>>)
  /\ c.index = ToSet(Given(ServerLines(D, "index"), <<"index.html">>))
  /\ ToSet(c.allowedMethods) = ToSet(Given(ServerLines(D, "allowed_methods"), DefaultMethods))
  /\ PagesAsWritten(c.errorPages, D)

(* And of its location n: the last of them counts, except that scripts and cookies add up,
   and that a redirection keeps what a later line does not give. *)
Codes(D, n) == {i \in LocationLines(D, n, "http_redirection") : file[i].value # <<>>}
Targets(D, n) == {i \in Codes(D, n) : Rest(file[i].value) # <<>>}

RedirectionAsWritten(redirection, D, n) ==
  /\ redirection.code =
       IF Codes(D, n) = {} THEN 0 ELSE Number[file[Latest(Codes(D, n))].value[1]]
  /\ redirection.target =
       IF Targets(D, n) = {} THEN "" ELSE Rest(file[Latest(Targets(D, n))].value)[1]

Names(value) == IF value = <<>> THEN {""} ELSE ToSet(value)

LocationAsWritten(l, D, n) ==
  /\ \E i \in ServerLines(D, "location") : LocationOf(i) = n /\ l.location = file[i].value
  /\ l.root = Given(LocationLines(D, n, "root"), <<>>)
  /\ l.directory_listing = Given(LocationLines(D, n, "directory_listing"), <<>>)
  /\ l.response_is_dir = Given(LocationLines(D, n, "response_is_dir"), <<>>)
  /\ RedirectionAsWritten(l.http_redirection, D, n)
  /\ l.cgi_pass = UNION {ToSet(file[i].value) : i \in LocationLines(D, n, "cgi_pass")}
  /\ l.required_cookie =
       UNION {Names(file[i].value) : i \in LocationLines(D, n, "required_cookie")}
  /\ ToSet(l.set_cookie) = {CookieOf(file[i].value) : i \in LocationLines(D, n, "set_cookie")}

(* Every setting ends up in the server and the location in whose block it stands, and one
   that is not given keeps its default: nothing of one block is seen in another.  (Ports,
   limits and the methods of locations have properties of their own.) *)
SettingsStayInTheirBlock ==
  pc = "accepted" =>
    /\ Len(data) = Count(1, Len(file), LAMBDA l : l = Server)
    /\ \A k \in 1..Len(data) :
         /\ ServerAsWritten(data[k], BlockOf(k))
         /\ Len(data[k].locations) = Cardinality(ServerLines(BlockOf(k), "location"))
         /\ \A n \in 1..Len(data[k].locations) :
              LocationAsWritten(data[k].locations[n], BlockOf(k), n)

(* The port is the number of the last port line, or, if that has no value, what the variable
   happened to hold; the limit is the last number times its unit if this fits the type,
   never a product of two lines; and the defaults stand if there is no such line. *)
NumbersAsWritten ==
  pc = "accepted" =>
    \A k \in 1..Len(data) :
      LET p == LastOf(k, "port")
          m == LastOf(k, "client_max_body_size")
          size == Number[file[m].value[1]]
                    * (IF Last(file[m].value) \in Megas THEN Kilo * Kilo ELSE Kilo)
      IN /\ p = 0 => data[k].port = 8080
         /\ p # 0 => IF file[p].value = <<>> THEN data[k].port \in Garbage
                     ELSE data[k].port = Number[file[p].value[1]]
         /\ m = 0 => data[k].clientBodySize = Kilo * Kilo
         /\ m # 0 /\ size \in 0..(Modulus - 1) => data[k].clientBodySize = size

(* The methods given for a location are among those of its server, in so far as these
   were given before. *)
MethodsNarrow ==
  pc = "accepted" =>
    \A k \in 1..Len(data) : \A n \in 1..Len(data[k].locations) :
      LET i == LastIn(k, n, "http_methods")
          methods == ToSet(data[k].locations[n].http_methods)
      IN IF i = 0 THEN methods = Methods
         ELSE /\ methods = ToSet(file[i].value)
              /\ LastOf(k, "allowed_methods") < i =>
                   methods \subseteq ToSet(data[k].allowedMethods)

(* The process serves a file only with all its servers, each of them on its own port; it
   fails for a port only if there is no such start, and stops by itself only for a file without a
   server, which is also what a file that cannot be read becomes. *)
StartsAllOrNothing ==
  LET port(k) == data[k].port
      servable == /\ \A k \in 1..Len(data) : port(k) \notin Busy
                  /\ \A j, k \in 1..Len(data) : port(j) = port(k) => j = k
  IN /\ pc = "serving" => /\ Nested /\ servable
                         /\ Len(ports) = Count(1, Len(file), LAMBDA l : l = Server)
     /\ pc = "failed" => ~servable
     /\ pc = "stopped" => \A i \in 1..Len(file) : IsComment(file[i])
==============================================================================
