---------------------------- MODULE RequestHandler ----------------------------
(***************************************************************************)
(* Server::handleRequest and what outlives a request: the files below the  *)
(* root and the sessions of the static Cookie object, which are lost when  *)
(* the process ends.  Around it, browsers that keep the cookies they are   *)
(* given and send all of them back.                                        *)
(*                                                                         *)
(* A request is what the parser has made of it: the path, the method, the  *)
(* error code, the size of the body and the parts found in it, and the     *)
(* query parameters.  A location is what the configuration says of it.     *)
(***************************************************************************)
EXTENDS Naturals, Sequences, FiniteSets, SequencesExt

CONSTANTS Users,        \* browsers
          Names,        \* of cookies
          Keys,         \* what generateSession can return
          Values,       \* of query parameters, and of cookies in set_cookie
          None,         \* no value, no key, no file, no request
          Contents,     \* of files
          Files, Dirs,  \* paths below the root
          Root,         \* "/"
          Index,        \* the index files of each directory, in order
          Locations,    \* the locations of the configuration, in order
          Limit,        \* client_max_body_size
          Requests      \* bound: the requests that are sent

Paths == Files \cup Dirs

Methods == {"GET", "POST", "DELETE"}

ASSUME PathsAssumption == /\ Files \cap Dirs = {}
                          /\ Index \in [Dirs -> Seq(Files)]
ASSUME NoneAssumption == None \notin Keys \cup Values \cup Contents \cup Requests
ASSUME LimitAssumption == Limit \in Nat

(* set_cookie: a session to be made, or a fixed value.  No configuration has the number
   that rand is going to return for a fixed value. *)
Cookies == [name : Names, session : {TRUE}, value : {None}]
           \cup [name : Names, session : {FALSE}, value : Values \ Keys]

LocationRecords ==
  [location : Paths, covers : SUBSET Paths, methods : SUBSET Methods,
   redirection : BOOLEAN, cgi : SUBSET Paths, listing : BOOLEAN,
   required : SUBSET Names, set : Seq(Cookies)]

ASSUME LocationsAssumption == Locations \in Seq(LocationRecords)

(* The parts of a body, with or without the name of a file. *)
Parts == [file : {None}, content : {None}] \cup [file : Files, content : Contents]

(* A parameter may have no value, or be given without a "=". *)
RequestRecords ==
  [method : Methods, path : Paths, error : {0, 413, 501}, size : Nat,
   params : [Names -> Values \cup {None, "bare"}],
   multipart : BOOLEAN, cut : BOOLEAN, parts : Seq(Parts)]

ASSUME RequestsAssumption == Requests \subseteq RequestRecords

ASSUME NamesAssumption == IsFiniteSet(Names)

VARIABLES
  up,      \* the process runs
  disk,    \* the content of each file, None if it does not exist
  db,      \* Cookie::_db: the value stored under a name and a key
  used,    \* the keys generated so far, also by processes that have ended
  jar,     \* what each browser keeps for each cookie name
  meant,   \* the value a browser's cookie stands for, in the process that gave it
  last     \* if the last step was a response: what, to whom, for which request

vars == <<up, disk, db, used, jar, meant, last>>

Statuses == {200, 303, 403, 404, 405, 413, 500, 501}

TypeOK ==
  /\ up \in BOOLEAN
  /\ disk \in [Files -> Contents \cup {None}]
  /\ db \in [Names -> [Keys -> Values \cup {None}]]
  /\ used \subseteq Keys
  /\ jar \in [Users -> [Names -> Keys \cup Values \cup {None}]]
  /\ meant \in [Users -> [Names -> Values \cup {None}]]
  /\ last = None \/ last \in [user : Users, request : Requests, status : Statuses,
                              shown : SUBSET (Names \X Values)]

NoSessions == [n \in Names |-> [k \in Keys |-> None]]
Nothing == [u \in Users |-> [n \in Names |-> None]]

Init ==
  /\ up = TRUE
  /\ disk \in [Files -> Contents \cup {None}]
  /\ db = NoSessions
  /\ used = {}
  /\ jar = Nothing
  /\ meant = Nothing
  /\ last = None

------------------------------------------------------------------------------
(* Config: the locations that match a path, by their places in the file. *)

GetLocations(path) == {i \in 1..Len(Locations) : path \in Locations[i].covers}

HasCGI(path) == \E i \in GetLocations(path) : path \in Locations[i].cgi

DirectoryListingEnabled(path) ==
  \E i \in 1..Len(Locations) :
     /\ Locations[i].location = path /\ Locations[i].listing
     /\ \A j \in 1..(i - 1) : Locations[j].location # path

InvalidMethod(q) == \E i \in GetLocations(q.path) : q.method \notin Locations[i].methods

------------------------------------------------------------------------------
(* Cookie.  get inserts an empty entry where there is none, which nothing can tell
   from none.  generateSession avoids the names of cookies, not the keys in use, so it
   is only because rand does not repeat itself, which is assumed here, that a new key
   is not in use. *)

GenerateSession == {k \in Keys : k \notin Names /\ k \notin used}

Get(store, name, key) == IF key \in Keys THEN store[name][key] ELSE None

\* Mutants of Set: one entry for all sessions of a name; the first value stays.
SetForAllKeys(store, name, key, value) == [store EXCEPT ![name] = [k \in Keys |-> value]]

SetFirst(store, name, key, value) ==
  IF \E k \in Keys : store[name][k] # None THEN store
  ELSE [store EXCEPT ![name][key] = value]

Set(store, name, key, value) == [store EXCEPT ![name][key] = value]

(* Request::getValueCookie finds the cookie only if it is the first, and takes all
   that follows for its value: the name must be the only one in the header. *)
ValueCookie(u, name) ==
  IF \A n \in Names \ {name} : jar[u][n] = None THEN jar[u][name] ELSE None

------------------------------------------------------------------------------
(* handleCookies, location by location.  keys gives the key that generateSession will
   return for the cookie j of location i.  getParam throws for a parameter without "=". *)

Start == [store |-> db, made |-> {}, shown |-> {}, cookie |-> None,
          meaning |-> None, end |-> "no"]

\* Mutant of SetCookie: a parameter without "=" is a value like any other.
SetCookieBare(acc, q, i, j, keys) ==
  LET cookie == Locations[i].set[j]
      value == q.params[cookie.name]
  IN IF acc.end # "no" \/ ~cookie.session \/ value = None THEN acc
     ELSE [acc EXCEPT !.store = Set(@, cookie.name, keys[i, j], value),
                      !.made = @ \cup {keys[i, j]}, !.cookie = <<cookie.name, keys[i, j]>>]

SetCookie(acc, q, i, j, keys) ==
  LET cookie == Locations[i].set[j]
      value == q.params[cookie.name]
      key == keys[i, j]
  IN CASE acc.end # "no" -> acc
       [] acc.end = "no" /\ ~cookie.session ->
            [acc EXCEPT !.cookie = <<cookie.name, cookie.value>>, !.meaning = None]
       [] acc.end = "no" /\ cookie.session /\ value = "bare" ->
            [acc EXCEPT !.end = "thrown"]
       [] acc.end = "no" /\ cookie.session /\ value = None -> acc
       [] OTHER -> [acc EXCEPT !.store = Set(@, cookie.name, key, value),
                               !.made = @ \cup {key},
                               !.cookie = <<cookie.name, key>>,
                               !.meaning = value]

SetCookies(acc, q, i, keys) ==
  LET After[j \in 0..Len(Locations[i].set)] ==
        IF j = 0 THEN acc ELSE SetCookie(After[j - 1], q, i, j, keys)
  IN After[Len(Locations[i].set)]

HandleLocation(u, acc, q, i, keys) ==
  LET found(n) == Get(acc.store, n, ValueCookie(u, n))
      required == Locations[i].required
  IN CASE acc.end # "no" \/ q.path \notin Locations[i].covers -> acc
       [] /\ acc.end = "no" /\ q.path \in Locations[i].covers
          /\ \E n \in required : found(n) = None ->
            [acc EXCEPT !.end = "forbidden"]
       [] OTHER ->
            SetCookies([acc EXCEPT !.shown = @ \cup {<<n, found(n)>> : n \in required}],
                       q, i, keys)

HandleCookies(u, q, keys) ==
  LET After[i \in 0..Len(Locations)] ==
        IF i = 0 THEN Start ELSE HandleLocation(u, After[i - 1], q, i, keys)
  IN After[Len(Locations)]

------------------------------------------------------------------------------
(* handleMultipart: every part that names a file replaces it.  A body that is cut after
   a boundary throws, when the parts before it are stored. *)
Store(files, parts) ==
  FoldLeft(LAMBDA f, part : IF part.file = None THEN f
                            ELSE [f EXCEPT ![part.file] = part.content],
           files, parts)

(* The end of handleRequest: what becomes of a file and of a directory. *)
FileOutcomes(q) ==
  IF q.method = "DELETE"
  THEN {[status |-> 200, files |-> [disk EXCEPT ![q.path] = None]],
        [status |-> 500, files |-> disk]}
  ELSE {[status |-> 200, files |-> disk]}

DirectoryStatus(path) ==
  IF \/ \E i \in 1..Len(Index[path]) : disk[Index[path][i]] # None
     \/ path = Root \/ DirectoryListingEnabled(path)
  THEN 200 ELSE 404

\* In place of a status: an exception left handleRequest.
Thrown == 0

Exists(path) == path \in Dirs \/ disk[path] # None

\* Mutant of Respond: a file is looked for before the body is measured.
RespondFirst(q) ==
  CASE \E i \in GetLocations(q.path) : Locations[i].redirection ->
         {[status |-> 303, files |-> disk]}
    [] q.path \in Files /\ Exists(q.path) -> {[r EXCEPT !.status =
         IF q.size > Limit THEN 413 ELSE @] : r \in FileOutcomes(q)}
    [] OTHER -> {[status |-> 404, files |-> disk]}

(* What follows the cookies: the redirection, the upload, the file, the script; only
   then the size of the body. *)
Respond(q) ==
  LET only(status) == {[status |-> status, files |-> disk]}
  IN IF \E i \in GetLocations(q.path) : Locations[i].redirection THEN only(303)
     ELSE IF q.multipart THEN {[status |-> IF q.cut THEN Thrown ELSE 303,
                                files |-> Store(disk, q.parts)]}
     ELSE IF ~Exists(q.path) THEN only(404)
     ELSE IF HasCGI(q.path) THEN only(200)
     ELSE IF q.size > Limit THEN only(413)
     ELSE IF q.path \in Dirs THEN only(DirectoryStatus(q.path))
     ELSE FileOutcomes(q)

(* The browser keeps the one Set-Cookie of the response. *)
Keep(u, q, acc, status) ==
  /\ last' = [user |-> u, request |-> q, status |-> status, shown |-> acc.shown]
  /\ IF acc.cookie = None THEN UNCHANGED <<jar, meant>>
     ELSE /\ jar' = [jar EXCEPT ![u][acc.cookie[1]] = acc.cookie[2]]
          /\ meant' = [meant EXCEPT ![u][acc.cookie[1]] = acc.meaning]

(* A request that the parser or the methods of a location refuse. *)
Refuse(u, q) ==
  /\ up /\ (q.error # 0 \/ InvalidMethod(q))
  /\ last' = [user |-> u, request |-> q, shown |-> {},
              status |-> IF q.error # 0 THEN q.error ELSE 405]
  /\ UNCHANGED <<up, disk, db, used, jar, meant>>

\* Mutant of Handle: uploads are stored before the cookies are looked at.
HandleUploadFirst(u, q, keys) ==
  /\ up /\ q.error = 0 /\ ~InvalidMethod(q)
  /\ LET acc == HandleCookies(u, q, keys) IN
       \/ /\ q.multipart
          /\ disk' = Store(disk, q.parts)
          /\ last' = [user |-> u, request |-> q, status |-> 303, shown |-> {}]
          /\ UNCHANGED <<up, db, used, jar, meant>>
       \/ /\ ~q.multipart /\ acc.end = "no"
          /\ db' = acc.store
          /\ used' = used \cup acc.made
          /\ \E r \in Respond(q) : disk' = r.files /\ Keep(u, q, acc, r.status)
          /\ UNCHANGED up

Outcomes(q, acc) ==
  CASE acc.end = "thrown"    -> {[status |-> Thrown, files |-> disk]}
    [] acc.end = "forbidden" -> {[status |-> 403, files |-> disk]}
    [] acc.end = "no"        -> Respond(q)

(* All other requests.  What handleCookies has stored stays stored, also when a later
   location refuses the request.  Nothing catches an exception: the process ends. *)
Handle(u, q, keys) ==
  /\ up /\ q.error = 0 /\ ~InvalidMethod(q)
  /\ LET acc == HandleCookies(u, q, keys) IN
       /\ used' = used \cup acc.made
       /\ \E r \in Outcomes(q, acc) :
            /\ disk' = r.files
            /\ \/ /\ r.status = Thrown
                  /\ up' = FALSE
                  /\ last' = None
                  /\ UNCHANGED <<db, jar, meant>>
               \/ /\ r.status # Thrown
                  /\ db' = acc.store
                  /\ Keep(u, q, acc, r.status)
                  /\ UNCHANGED up

(* The browser drops a cookie. *)
Forget(u, n) ==
  /\ jar[u][n] # None
  /\ jar' = [jar EXCEPT ![u][n] = None]
  /\ meant' = [meant EXCEPT ![u][n] = None]
  /\ last' = None
  /\ UNCHANGED <<up, disk, db, used>>

(* The process ends and is started again; the browsers keep their cookies. *)
Restart ==
  /\ up' = TRUE
  /\ db' = NoSessions
  /\ meant' = Nothing
  /\ last' = None
  /\ UNCHANGED <<disk, used, jar>>

(* One key for each session that the matching locations may create. *)
Sessions(path) ==
  UNION {{<<i, j>> : j \in {c \in 1..Len(Locations[i].set) : Locations[i].set[c].session}} :
           i \in GetLocations(path)}

KeysFor(q) == {k \in [Sessions(q.path) -> GenerateSession] : IsInjective(k)}

Next ==
  \/ Restart
  \/ \E u \in Users : \/ \E n \in Names : Forget(u, n)
                      \/ \E q \in Requests : \/ Refuse(u, q)
                                             \/ \E keys \in KeysFor(q) : Handle(u, q, keys)

Spec == Init /\ [][Next]_vars

------------------------------------------------------------------------------
Required(path) == UNION {Locations[i].required : i \in GetLocations(path)}

Answered == last' # last /\ last' # None

(* No response but a refusal, and so no file below a location that requires cookies,
   goes to a browser that was not given each of these cookies for a session of this
   process: neither another name's session nor one from before a restart will do. *)
OnlyLoggedIn ==
  [][ Answered /\ last'.status \notin {403, 405, 413, 501} =>
        \A n \in Required(last'.request.path) : meant[last'.user][n] # None ]_vars

(* And the value the response shows is the one this browser's session was made for. *)
OwnValueShown ==
  [][ Answered => \A s \in last'.shown : meant[last'.user][s[1]] = s[2] ]_vars

(* A browser is refused only if a session is missing, or if it keeps another cookie
   besides. *)
LoggedInGetsIn ==
  [][ Answered /\ last'.status = 403 =>
        \/ \E n \in Required(last'.request.path) : meant[last'.user][n] = None
        \/ Cardinality({n \in Names : jar[last'.user][n] # None}) > 1 ]_vars

(* A request that is answered with an error has left every file as it was. *)
RefusedChangesNothing ==
  [][ Answered /\ last'.status >= 400 => disk' = disk ]_vars

------------------------------------------------------------------------------
(* What a comment and a test of the code say of it and the code does not do. *)

(* "Rquest body is too large": a body above client_max_body_size is refused. *)
LargeBodiesAreRefused ==
  last # None /\ last.request.size > Limit => last.status >= 400
==============================================================================
